\* Three requests, three seconds over two months, one restart.
CONSTANTS
  Keys = {k1}
  NameOf <- OneName
  PrefixOf <- OnePrefix
  Limits <- SomeLimits
  NoBudget <- Unlimited
  Window = 2
  Month = 3
  Requests = {r1, r2, r3}
  Costs = {1, 2}
  Clients = {"up", "cli"}
  MaxTime = 6
  MaxRestarts = 1
SYMMETRY RequestSymmetry
SPECIFICATION Spec
INVARIANTS
  GatewayTypeOK
  RateLimit
  RefusedOnlyWhenFull
  BudgetOvershoot
  OneMasterKey
  MasterIsKnown
