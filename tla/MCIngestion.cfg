SPECIFICATION FairSpec
CONSTANTS
  Request = {i1, i2}
  HasMst = TRUE
  DESCRIBE_MAX_ATTEMPTS = 2
  Batches = 2
  MaxVersion = 2
  Missing = Missing
  Torn = Torn
INVARIANTS
  SkipMeansComplete
PROPERTIES
  ListingSurvives
  IngestionEnds
