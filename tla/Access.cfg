SPECIFICATION FairSpec
CONSTANTS
  Roles = {1}
  Perms = {"p"}
  Depts = {1}
  Instances = {1, 2}
  Requests = {1, 2}
  TheUser = 0
  Needed = "p"
  None = "none"
  Scopes = {2, 5}
  MaxChanges = 1
  MaxFailures = 1
  MaxDels = 2
  MaxLogins = 1
CHECK_DEADLOCK FALSE
INVARIANTS
  RevocationReachesCache
  ScopeFollowsChange
PROPERTIES
  WaiterAnswered
