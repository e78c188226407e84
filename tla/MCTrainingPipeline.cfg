\* Two versions, promotions at any time, jobs cancelled, one worker that dies; all fair.
CONSTANTS
  NumJobs = 2
  Submitters = {s1, s2}
  Workers = {w1, w2}
  Promoters = {p1}
  Nobody = Nobody
  CanCancel = TRUE
  MaxCrashes = 1
SPECIFICATION PipelineFairSpec
INVARIANTS
  PipelineTypeOK
  JobAndVersionAgree
  TrainingMeansQueuedOrRunning
  IncumbentWasLive
  LiveWasGated
PROPERTIES
  WorkerDrainsQueue
  FollowsLifecycle
  VersionsAreDecided
CHECK_DEADLOCK FALSE
