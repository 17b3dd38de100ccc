SPECIFICATION Spec
CONSTANTS
  admin = admin
  user = user
  Users <- BothUsers
  Seeded = {admin}
  FirstRole <- SeededRoles
  Roles <- ThreeRoles
  Subjects = {user}
  Requests = {q1, q2}
  Idle = Idle
  NoRole = NoRole
  MaxRows = 4
SYMMETRY Symmetry
INVARIANTS EveryUserHoldsARole
CHECK_DEADLOCK FALSE
