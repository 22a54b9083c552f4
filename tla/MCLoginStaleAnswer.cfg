SPECIFICATION Spec
CONSTANTS
  Session = {s1, s2}
  Player = {p1}
  Conn = {c1}
  Account = {a1}
  Key = {k1}
  Known = {a1}
  Complete = {a1}
  KeyChecked = {}
  Playing = {}
  RowKey <- OneKey
  a1 = a1
  a2 = a2
  k1 = k1
  k2 = k2
  Null = Null
  Timeout = 0
SYMMETRY Symmetry
INVARIANTS
  AnswerIsForItsRequest
