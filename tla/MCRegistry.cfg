\* Two clients on one model, with crashes and lock timeouts.
CONSTANTS
  Models = {m1, m2}
  Clients = {c1, c2}
  Nobody = Nobody
  MaxVersions = 4
  MaxCalls = 4
  MaxFailures = 1
SYMMETRY ClientSymmetry
SPECIFICATION Spec
INVARIANTS
  TypeOK
  AtMostOneLive
  ChangesAreRecorded
PROPERTIES
  OperationsAreAtomic
CHECK_DEADLOCK FALSE
