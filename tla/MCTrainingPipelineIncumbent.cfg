\* Two versions pass against the same incumbent; both are promoted.
CONSTANTS
  NumJobs = 2
  Submitters = {s1}
  Workers = {w1, w2}
  Promoters = {p1}
  Nobody = Nobody
  CanCancel = FALSE
  MaxCrashes = 0
SYMMETRY PipelineSymmetry
SPECIFICATION PipelineSpec
PROPERTIES
  PromotedBeatTheLiveOne
CHECK_DEADLOCK FALSE
