SPECIFICATION Spec
CONSTANTS
  Setups <- AllSetups
  Edits <- SomeEdits
  Feed <- SomeRows
  Outputs <- SomeOutputs
  Logs <- SomeLogs
  Requests <- SomeRequests
  Model <- M
  Hash <- Falls
  MaxRows = 3
  MaxVersions = 2
CHECK_DEADLOCK FALSE
INVARIANTS
  WorkflowTypeOK
  TrainedNeverTested
  HashNamesTraining
  
  PassNeedsEveryEvaluator
  PlanCoversTheData
  SameAnswers
