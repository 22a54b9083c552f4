SPECIFICATION Spec
CONSTANTS
  Session = {s1, s2}
  Player = {p1, p2}
  Account = {a0, a1}
  NoAccount = a0
  Key = {k1}
  a1 = a1
  k1 = k1
  k2 = k2
  Null = Null
  MaxX = 3
  MaxY = 2
  Packet <- SectorPackets
  InfoTimeout = 0
  SilenceLimit = 0
  QueueMax = 1
  LoginMax = 2
SYMMETRY Symmetry
INVARIANTS
  TypeOK
  SectorListsMatchPlayers
  PoolMatchesMap
PROPERTIES
  ImplementsChatRooms
