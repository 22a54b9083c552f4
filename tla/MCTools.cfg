SPECIFICATION FairSpec
CONSTANTS
  Session = {s1, s2}
  Player = {p1, p2}
  Key = {right, wrong}
  LoginSessionKey = right
  Types = 1
  Null = Null
INVARIANTS
  TypeOK
  PlayersMatchSessions
  PointersAreListed
PROPERTIES
  ToolHearsOfServer
  RefusedToolGoes
