\* A worker dies and leaves its trainer behind.
CONSTANTS
  NumJobs = 2
  Submitters = {s1, s2}
  Workers = {w1, w2, w3}
  Nobody = Nobody
  CanCancel = FALSE
  MaxCrashes = 1
SYMMETRY QueueSymmetry
SPECIFICATION Spec
INVARIANTS
  OneTrainer
CHECK_DEADLOCK FALSE
