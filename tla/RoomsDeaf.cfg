SPECIFICATION Spec
CONSTANTS
  r1 = r1
  Rooms <- OneRoom
  Sockets = {s1, s2}
  RoomOf <- AllInOne
  NoTask = NoTask
  MaxUpdates = 1
  RedisFaults = 1
INVARIANTS RelayWhileOccupied
CHECK_DEADLOCK FALSE
