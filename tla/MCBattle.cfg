SPECIFICATION FairSpec
CONSTANTS
  Player = {p1}
  Account = {1, 2}
  MaxInbox = 3
  Null = Null
INVARIANTS
  TypeOK
  EchoIsOfThisLogin
PROPERTIES
  LoggedInPlayerStarts
