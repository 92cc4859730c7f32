SPECIFICATION FairSpec
CONSTANTS
  a = a  b = b  c = c  u = u  d = d  e = e  f = f  g = g
  ann = ann  bob = bob  dot = dot
  r1 = r1  r2 = r2  bad = bad  empty = empty
  Users <- McUsers
  Rooms <- McRooms
  Clean <- McClean
  EmptyRoom = empty
  UserOf <- McUserOfRpc
  RoomOf <- McRoomOfRpc
  RoomsOf <- McRoomsOfRpc
  KindOf <- McKindOfRpc
  Streams = {a, u}
  Calls = {d, e, g}
  Leavers = {a}
  MaxFaults = 1
CHECK_DEADLOCK FALSE
INVARIANTS NoLeakedSubscription MembershipOrder CleanSubjects RoomsToldInOrder RoomsToldUpToError
PROPERTIES StreamsEnd SubscriptionsDrain LeavesAnnounced
