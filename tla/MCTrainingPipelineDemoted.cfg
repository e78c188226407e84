\* A worker dies between its gate and its last write; the version goes live meanwhile.
CONSTANTS
  NumJobs = 2
  Submitters = {s1}
  Workers = {w1, w2}
  Promoters = {p1}
  Nobody = Nobody
  CanCancel = FALSE
  MaxCrashes = 1
SYMMETRY PipelineSymmetry
SPECIFICATION PipelineSpec
PROPERTIES
  LiveOnlyReplaced
CHECK_DEADLOCK FALSE
