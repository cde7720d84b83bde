CONSTANTS
  r1 = r1
  r2 = r2
  a1 = a1
  d1 = d1
  e1 = e1
  None = None
  Resolvers = {r1, r2}
  Reconnects = {}
  Disconnects = {}
  Editors = {}
  Renewable = {1, 2}
  MaxGrants = 2
  MaxChanges = 0
  MaxFaults = 0
SPECIFICATION Spec
CHECK_DEADLOCK FALSE
INVARIANTS
  TokenSentOnce
