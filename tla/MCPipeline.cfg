\* Two retries, so that a retry follows a retry; two reruns, so that a rerun
\* starts from what a rerun saved.
CONSTANTS
  MaxRetries = 2
  MaxReruns = 2
SPECIFICATION Spec
\* A session stops once its reruns are used up.
CHECK_DEADLOCK FALSE
INVARIANTS
  CapNeverHit
  ExecutedQueryIsChecked
  SavedRunIsCoherent
  FeedbackIsAboutLastRejectedQuery
  AttemptsCountGenerations
PROPERTIES
  FrozenSelectionKept
  RunTerminates
  ImplementsService
