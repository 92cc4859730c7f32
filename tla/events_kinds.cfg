SPECIFICATION Spec
CONSTANTS
  a = a  b = b  c = c  u = u  d = d  e = e  f = f  g = g
  ann = ann  bob = bob  dot = dot
  r1 = r1  r2 = r2  bad = bad  empty = empty
  Users <- McUsers
  Rooms <- McRooms
  Clean <- McClean
  EmptyRoom = empty
  UserOf <- McUserOfRpc
  RoomOf <- McRoomOfRpc
  RoomsOf <- McRoomsOfRpc
  KindOf <- McKindOfRpc
  Streams = {a}
  Calls = {f, g}
  Leavers = {a}
  MaxFaults = 0
CHECK_DEADLOCK FALSE
INVARIANT RoutingKeysExhaustive
