SPECIFICATION Spec
CONSTANTS
  Users = {u}
  Passwords = {p1, p2}
  NoPassword = NoPassword
  Requests = {q1, q2}
  Idle = Idle
  MaxFailed = 2
  MaxTokens = 3
  MaxLinks = 1
  MaxOverlaps = 1
SYMMETRY Symmetry
INVARIANTS TypeOK SessionsEndAtReset PasswordStands OneTokenPerSession LockedInTime LinkIsSingleUse
PROPERTIES LockStands
CHECK_DEADLOCK FALSE
