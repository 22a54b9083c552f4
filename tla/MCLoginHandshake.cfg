SPECIFICATION HandshakeSpec
CONSTANTS
  Session = {s1, s2}
  Player = {p1}
  Conn = {c1, c2}
  Account = {a1}
  Key = {k1, k2}
  Known = {a1}
  Complete = {a1}
  KeyChecked = {}
  Playing = {}
  RowKey <- OneKey
  k1 = k1
  k2 = k2
  Null = Null
  Timeout = 0
  InfoTimeout = 0
SYMMETRY Symmetry
INVARIANTS
  AdmissionWasAsked
  AdmittedOnce
  AnswersAreInStep
