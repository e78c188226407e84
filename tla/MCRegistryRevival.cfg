\* Three promotions, one on a stale check, put a replaced version back unforced.
CONSTANTS
  Models = {m1}
  Clients = {c1, c2}
  Nobody = Nobody
  MaxVersions = 3
  MaxCalls = 3
  MaxFailures = 0
SPECIFICATION TwoPassedSpec
PROPERTIES
  RetiredStaysRetired
CHECK_DEADLOCK FALSE
