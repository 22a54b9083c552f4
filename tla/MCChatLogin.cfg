SPECIFICATION FairSpec
CONSTANTS
  Session = {s1, s2}
  Player = {p1, p2}
  Account = {a0, a1}
  NoAccount = a0
  Key = {k1, k2}
  a1 = a1
  k1 = k1
  k2 = k2
  Null = Null
  MaxX = 1
  MaxY = 1
  Packet <- LoginPackets
  InfoTimeout = 0
  SilenceLimit = 0
  QueueMax = 2
  LoginMax = 2
INVARIANTS
  PlayerLivesFromJoinToLeave
  PlayerCntCoversPlayers
PROPERTIES
  FreshShareIsKept
  DisconnectedPlayerLeaves
  
