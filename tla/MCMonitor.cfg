SPECIFICATION FairSpec
CONSTANTS
  Type = {game}
  SaysOff = {game}
  Conn = {c1, c2}
  Address = {p1, p2}
  ServerTimeout = 1
  MaxWire = 2
  MaxFaults = 1
  Null = Null
INVARIANTS
  TypeOK
  RecordsMatchConnections
  FlagImpliesServer
PROPERTIES
  SilentServerIsCut
  ServerIsShownInTheEnd
