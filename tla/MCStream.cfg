SPECIFICATION FairSpec
CONSTANT MaxStages = 5
INVARIANTS
  StreamIsSound
PROPERTIES
  StayingIsAnswered
  LeavingStopsRun
