SPECIFICATION FairSpec
CONSTANTS
  r1 = r1
  Rooms <- OneRoom
  Sockets = {s1, s2}
  RoomOf <- AllInOne
  NoTask = NoTask
  MaxUpdates = 3
  RedisFaults = 1
INVARIANTS TypeOK OneRelayPerRoom FeedContiguous RelayUnlessFault
PROPERTIES EventuallyDelivered EventuallyUnsubscribed
CHECK_DEADLOCK FALSE
