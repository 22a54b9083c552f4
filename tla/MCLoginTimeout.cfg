SPECIFICATION FairSpec
CONSTANTS
  Session = {s1}
  Player = {p1}
  Conn = {c1}
  Account = {a1}
  Key = {k1}
  Known = {a1}
  Complete = {a1}
  KeyChecked = {}
  Playing = {}
  RowKey <- OneKey
  a1 = a1
  a2 = a2
  k1 = k1
  k2 = k2
  Null = Null
  Timeout = 1
PROPERTIES
  OverdueIsCut
