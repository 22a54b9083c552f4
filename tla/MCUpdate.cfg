SPECIFICATION FairSpec
CONSTANTS
  Worker = {w1, w2}
  Msg = {m1, m2, m3, m4}
  NoMsg = NoMsg
CHECK_DEADLOCK FALSE
INVARIANTS
  TypeOK
  NoLostWakeup
  StopOutlivesUpdateThread
PROPERTIES
  EveryMessageIsHandled
  StopTerminates
