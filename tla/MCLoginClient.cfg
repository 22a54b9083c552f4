SPECIFICATION FairSpec
CONSTANTS
  Account = {a1}
  Key = {k1, k2}
  Param = {s1}
  Info = {p1, p2, p3}
  InfoTimeout = 1
  Null = Null
INVARIANTS
  TypeOK
  OneOwner
PROPERTIES
  ImplementsLoginShares
  StaleShareGoes
