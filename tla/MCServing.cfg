\* One engine and a gateway; two commands at a time, a kill and a service that exits.
CONSTANTS
  Models <- OneModel
  Before <- None
  After <- Gateway
  GateRuns <- Pair
  EnginePorts = {1, 2, 3}
  FixedPort <- FixedPorts
  GatewayPort = 9
  Cmds = {c1, c2}
  MaxCommands = 3
  MaxVersion = 1
  MaxTrouble = 1
SYMMETRY CmdSymmetry
SPECIFICATION Spec
INVARIANTS
  ServingTypeOK
  LostProcesses
  UpMeansReady
  EngineServesLive
  OneOpenRun
  RunsMatchServices
  GateMeasuresItsOwn
CHECK_DEADLOCK FALSE
