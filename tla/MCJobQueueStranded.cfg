\* A job is submitted while the worker is leaving.
CONSTANTS
  NumJobs = 2
  Submitters = {s1, s2}
  Workers = {w1, w2, w3}
  Nobody = Nobody
  CanCancel = FALSE
  MaxCrashes = 0
SPECIFICATION FairSpec
PROPERTIES
  EveryJobRuns
CHECK_DEADLOCK FALSE
