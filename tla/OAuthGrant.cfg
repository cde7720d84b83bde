CONSTANTS
  r1 = r1
  r2 = r2
  a1 = a1
  d1 = d1
  e1 = e1
  None = None
  Resolvers = {r1}
  Reconnects = {a1}
  Disconnects = {d1}
  Editors = {e1}
  Renewable = {1, 3}
  MaxGrants = 3
  MaxChanges = 2
  MaxFaults = 1
SPECIFICATION FairSpec
CHECK_DEADLOCK FALSE
INVARIANTS
  TypeOK
PROPERTIES
  ConfigurationMovesOn
  ClaimsAreLetGo
