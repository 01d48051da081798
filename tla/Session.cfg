SPECIFICATION Spec
CONSTANTS
  Sessions = {1, 2, 3}
  Logins = {l1, l2}
  Refreshes = {r1, r2}
  Changes = {1}
  Passwords = {1, 2}
  First = 1
  kMaxFail = 2
  AccessTtl = 1
  RefreshTtl = 2
  BlacklistTtl = 2
  MaxLeaving = 1
  MaxEvents = 5
SYMMETRY Alike
CHECK_DEADLOCK FALSE
INVARIANTS
  LogoutEndsLogin
  RotatedOnce
  LockHolds
  AdmittedWithPassword
