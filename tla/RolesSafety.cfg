SPECIFICATION Spec
CONSTANTS
  admin = admin
  user = user
  Users <- BothUsers
  Seeded = {admin}
  FirstRole <- SeededRoles
  Roles <- ThreeRoles
  Subjects = {user}
  Requests = {q1, q2}
  Idle = Idle
  NoRole = NoRole
  MaxRows = 5
SYMMETRY Symmetry
INVARIANTS TypeOK KeepsARole PrimaryIsHeld
PROPERTIES LongestHeldPromoted
CHECK_DEADLOCK FALSE
