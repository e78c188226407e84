\* Two submitters, three jobs, cancelled at any point; a worker dies at any point.
CONSTANTS
  NumJobs = 3
  Submitters = {s1, s2}
  Workers = {w1, w2}
  Nobody = Nobody
  CanCancel = TRUE
  MaxCrashes = 1
SYMMETRY QueueSymmetry
SPECIFICATION Spec
INVARIANTS
  TypeOK
  RunningIsCurrent
  InOrder
  AttemptsBounded
  OneTrainerWhileNoneDies
PROPERTIES
  EndedStaysEnded
CHECK_DEADLOCK FALSE
