--------------------------- MODULE MonitorToolsProofs ---------------------------
(***************************************************************************)
(* Proofs about MonitorTools, for any number of tools, objects and groups   *)
(* of figures, whatever the lock is found to hold.                          *)
(***************************************************************************)
EXTENDS MonitorTools, TLAPS

(* The main thread walks over the list exactly while it holds the lock. *)
WalksLocked ==
  /\ lock = "main" <=> main.at = "walk"
  /\ main.at # "walk" => main.todo = {}

(* A group whose flag is read has one. *)
FlagOfGroup == main.at \in {"test", "read"} => main.group \in 1 .. Types

(* The login handler's session is between its join and its leave. *)
WorkerListed == worker # Idle => Listed(worker.session)

(* An unlinked object waits for the end of its session's leave. *)
LeavesClose == \A s \in Session : leaving[s] # Null => session[s] = "closing"

Rest ==
  /\ PlayersMatchSessions /\ PointersAreListed
  /\ WalksLocked /\ FlagOfGroup /\ WorkerListed /\ LeavesClose

IInv == TypeOK /\ Rest

-----------------------------------------------------------------------------
(* No session, object, or handler at work is Null or Idle. *)
LEMMA NotNull ==
  /\ \A s \in Session : s # Null
  /\ \A p \in Player : p # Null
  BY NullAssumption

(* A handler at work has a session and an object of it. *)
LEMMA Working ==
  ASSUME TypeOK, worker # Idle
  PROVE  worker.player \in Player /\ worker.session \in Session
  BY DEF TypeOK

(* The initial states satisfy the invariant, whichever the lock is. *)
LEMMA InitInv == Init => IInv
  <1> SUFFICES ASSUME Init PROVE IInv
    OBVIOUS
  <1>1. TypeOK
    <2>1. main \in [at : {"sleep", "test", "read", "lock", "walk"}, group : Group,
                    value : BOOLEAN, todo : SUBSET Player]
      BY TypesAssumption DEF Init, At, Group
    <2> QED
      BY <2>1 DEF Init, TypeOK
  <1>2. PlayersMatchSessions
    BY NotNull DEF Init, PlayersMatchSessions, Listed
  <1> QED
    BY <1>1, <1>2
       DEF Init, IInv, Rest, PointersAreListed, WalksLocked, FlagOfGroup, WorkerListed,
           LeavesClose, At, Idle

(* Places in UpdateClient have the shape of one. *)
LEMMA Places ==
  ASSUME NEW place \in {"sleep", "test", "read", "lock", "walk"}, NEW g \in Group
  PROVE  /\ At(place, g) \in [at : {"sleep", "test", "read", "lock", "walk"},
                              group : Group, value : BOOLEAN, todo : SUBSET Player]
         /\ Following(g) \in [at : {"sleep", "test", "read", "lock", "walk"},
                              group : Group, value : BOOLEAN, todo : SUBSET Player]
         /\ Following(g).at \in {"sleep", "test"} /\ Following(g).todo = {}
         /\ Following(g).at = "test" => Following(g).group \in 1 .. Types
  <1>1. g < Types => g + 1 \in Group /\ g + 1 \in 1 .. Types
    BY TypesAssumption DEF Group
  <1>2. 0 \in Group
    BY TypesAssumption DEF Group
  <1> QED
    BY <1>1, <1>2 DEF At, Following

-----------------------------------------------------------------------------
(* Every step preserves the types. *)
LEMMA NextType == IInv /\ [Next]_vars => TypeOK'
  <1> SUFFICES ASSUME IInv, [Next]_vars
               PROVE  TypeOK'
    OBVIOUS
  <1> USE DEF IInv
  <1> DEFINE Place == [at : {"sleep", "test", "read", "lock", "walk"},
                       group : Group, value : BOOLEAN, todo : SUBSET Player]
  <1>0. main \in Place
    BY DEF TypeOK
  <1>1. CASE \E s \in Session : OnConnectRequest(s)
    BY <1>1 DEF TypeOK, OnConnectRequest, poolVars, mainVars
  <1>2. CASE \E s \in Session : OnClientJoin(s)
    BY <1>2 DEF TypeOK, OnClientJoin, mainVars
  <1>3. CASE \E s \in Session : HangUp(s)
    BY <1>3 DEF TypeOK, HangUp, poolVars, mainVars
  <1>4. CASE \E s \in Session : OnClientLeave(s)
    BY <1>4 DEF TypeOK, OnClientLeave, Leaving, Found, mainVars
  <1>5. CASE \E s \in Session : LeaveFree(s)
    BY <1>5 DEF TypeOK, LeaveFree
  <1>6. CASE \E s \in Session, key \in Key : LoginSearch(s, key)
    BY <1>6 DEF TypeOK, LoginSearch, Found, poolVars, mainVars
  <1>7. CASE LoginAnswer
    <2>1. session' \in [Session -> {"none", "accepted", "up", "closing"}]
      BY <1>7, Working DEF TypeOK, LoginAnswer, Answered
    <2> QED
      BY <1>7, <2>1 DEF TypeOK, LoginAnswer, poolVars, mainVars
  <1>8. CASE UpdateClient
    <2>1. main' \in Place
      <3>1. 0 \in Group
        BY TypesAssumption DEF Group
      <3>2. main' = [at |-> "lock", group |-> 0, value |-> TRUE, todo |-> {}]
        BY <1>8 DEF UpdateClient, At
      <3> QED
        BY <3>1, <3>2
    <2> QED
      BY <1>8, <2>1 DEF TypeOK, UpdateClient, poolVars
  <1>9. CASE UpdateTest
    <2>1. main' \in Place
      BY <1>0, <1>9, Places DEF UpdateTest
    <2> QED
      BY <1>9, <2>1 DEF TypeOK, UpdateTest, poolVars
  <1>10. CASE UpdateRead
    <2>1. main' \in Place
      <3>1. on[main.group] \in BOOLEAN
        BY <1>10 DEF UpdateRead, TypeOK, Rest, FlagOfGroup
      <3> QED
        BY <1>0, <1>10, <3>1 DEF UpdateRead
    <2> QED
      BY <1>10, <2>1 DEF TypeOK, UpdateRead, poolVars
  <1>11. CASE SendLock
    <2>1. main' \in Place
      BY <1>0, <1>11 DEF SendLock, TypeOK
    <2> QED
      BY <1>11, <2>1 DEF TypeOK, SendLock, poolVars
  <1>12. CASE SendNext
    <2>1. main' \in Place
      BY <1>0, <1>12 DEF SendNext, After
    <2>2. heard' \in SUBSET [session : Session, group : Group, value : BOOLEAN]
      BY <1>0, <1>12 DEF SendNext, TypeOK
    <2> QED
      BY <1>12, <2>1, <2>2 DEF TypeOK, SendNext, poolVars
  <1>13. CASE SendUnlock
    <2>1. main' \in Place
      BY <1>0, <1>13, Places DEF SendUnlock
    <2> QED
      BY <1>13, <2>1 DEF TypeOK, SendUnlock, poolVars
  <1>14. CASE \E g \in 1 .. Types : Flag(g)
    BY <1>14 DEF TypeOK, Flag, poolVars, mainVars
  <1>15. CASE UNCHANGED vars
    BY <1>15 DEF TypeOK, vars
  <1> QED
    BY <1>1, <1>2, <1>3, <1>4, <1>5, <1>6, <1>7, <1>8, <1>9, <1>10, <1>11, <1>12,
       <1>13, <1>14, <1>15 DEF Next

(* A step that moves no object and takes no session in or out of the list    *)
(* preserves the rest, if it keeps pointers and lock in order.               *)
LEMMA Frame ==
  ASSUME IInv, UNCHANGED poolVars,
         \A s \in Session : session'[s] \in {"up", "closing"} <=> session[s] \in {"up", "closing"},
         \A s \in Session : session[s] = "closing" => session'[s] = "closing",
         main'.todo \subseteq list,
         worker' = worker \/ worker' = Idle,
         WalksLocked', FlagOfGroup'
  PROVE  Rest'
  <1> USE DEF IInv, Rest
  <1>1. \A s \in Session : Listed(s)' <=> Listed(s)
    BY DEF Listed, poolVars
  <1>2. PlayersMatchSessions'
    BY <1>1 DEF PlayersMatchSessions, poolVars
  <1>3. PointersAreListed'
    BY DEF PointersAreListed, poolVars, Idle
  <1>4. WorkerListed'
    <2> SUFFICES ASSUME worker' # Idle PROVE Listed(worker.session)' /\ worker' = worker
      BY DEF WorkerListed, Listed, Idle
    <2>1. worker' = worker
      BY DEF Idle
    <2>2. worker.session \in Session /\ Listed(worker.session)
      BY <2>1, Working DEF WorkerListed, Idle
    <2> QED
      BY <2>1, <2>2 DEF Listed, poolVars
  <1>5. LeavesClose'
    BY DEF LeavesClose, poolVars
  <1> QED
    BY <1>2, <1>3, <1>4, <1>5

(* OnClientJoin takes an object of the pool for a session that has none.     *)
LEMMA JoinStep == IInv /\ (\E s \in Session : OnClientJoin(s)) => Rest'
  <1> SUFFICES ASSUME IInv, NEW s \in Session, OnClientJoin(s)
               PROVE  Rest'
    OBVIOUS
  <1> USE DEF IInv, Rest
  <1>1. PICK p \in free :
          /\ free' = free \ {p} /\ list' = list \cup {p}
          /\ iSessionID' = [iSessionID EXCEPT ![p] = s]
    BY DEF OnClientJoin
  <1>2. /\ p \in Player /\ p \notin list /\ \A t \in Session : leaving[t] # p
        /\ session[s] = "accepted" /\ session' = [session EXCEPT ![s] = "up"]
        /\ UNCHANGED <<leaving, worker, on, lock, main, heard>>
        /\ leaving[s] = Null
    BY <1>1 DEF OnClientJoin, PlayersMatchSessions, TypeOK, mainVars, LeavesClose
  <1>3. /\ \A q \in list : iSessionID'[q] = iSessionID[q]
        /\ iSessionID'[p] = s
        /\ \A q \in list : iSessionID[q] # s
    BY <1>1, <1>2 DEF TypeOK, PlayersMatchSessions, Listed
  <1>4. \A t \in Session : Listed(t)' <=> Listed(t) \/ t = s
    BY <1>2 DEF Listed, TypeOK
  <1>5. PlayersMatchSessions'
    <2>1. \A t \in Session : Listed(t)' <=> \E q \in list' : iSessionID'[q] = t
      BY <1>1, <1>3, <1>4 DEF PlayersMatchSessions
    <2>2. \A q, r \in list' : iSessionID'[q] = iSessionID'[r] => q = r
      BY <1>1, <1>3 DEF PlayersMatchSessions
    <2>3. \A q \in list' : iSessionID'[q] \in Session
      BY <1>1, <1>3 DEF PlayersMatchSessions
    <2>4. \A q \in Player :
            /\ q \in list' => q \notin free' /\ \A t \in Session : leaving'[t] # q
            /\ q \in free' => \A t \in Session : leaving'[t] # q
            /\ q \in list' \/ q \in free' \/ \E t \in Session : leaving'[t] = q
      BY <1>1, <1>2 DEF PlayersMatchSessions
    <2>5. \A t, u \in Session : leaving'[t] = leaving'[u] => t = u \/ leaving'[t] = Null
      BY <1>2 DEF PlayersMatchSessions
    <2> QED
      BY <2>1, <2>2, <2>3, <2>4, <2>5 DEF PlayersMatchSessions
  <1>6. PointersAreListed'
    BY <1>1, <1>2, <1>3 DEF PointersAreListed, Idle
  <1>7. WorkerListed'
    <2> SUFFICES ASSUME worker # Idle PROVE Listed(worker.session)'
      BY <1>2 DEF WorkerListed, Listed, Idle
    <2>1. worker.session \in Session /\ Listed(worker.session)
      BY Working DEF WorkerListed
    <2> QED
      BY <1>2, <2>1 DEF Listed, TypeOK
  <1>8. WalksLocked' /\ FlagOfGroup' /\ LeavesClose'
    BY <1>2 DEF WalksLocked, FlagOfGroup, LeavesClose, TypeOK
  <1> QED
    BY <1>5, <1>6, <1>7, <1>8

(* OnClientLeave unlinks its session's object, and no thread points at it.   *)
LEMMA LeaveStep == IInv /\ (\E s \in Session : OnClientLeave(s)) => Rest'
  <1> SUFFICES ASSUME IInv, NEW s \in Session, OnClientLeave(s)
               PROVE  Rest'
    OBVIOUS
  <1> USE DEF IInv, Rest
  <1>1. /\ session[s] = "closing" /\ leaving[s] = Null /\ worker.session # s
        /\ lock = "free"
        /\ UNCHANGED <<session, free, iSessionID, worker, on, lock, main, heard>>
    BY DEF OnClientLeave, mainVars, Unlocked
  <1>2. PICK p \in list : iSessionID[p] = s
    BY <1>1 DEF PlayersMatchSessions, Listed
  <1>3. Found(s) = {p} /\ p \in Player
    BY <1>2 DEF Found, PlayersMatchSessions, TypeOK
  <1>4. list' = list \ {p} /\ leaving' = [leaving EXCEPT ![s] = p]
    BY <1>3 DEF OnClientLeave, Leaving
  <1>5. /\ leaving'[s] = p /\ p # Null
        /\ \A t \in Session : t # s => leaving'[t] = leaving[t]
    BY <1>3, <1>4, NotNull DEF TypeOK
  <1>6. \A t \in Session : Listed(t)' <=> Listed(t) /\ t # s
    BY <1>1, <1>5 DEF Listed
  <1>7. PlayersMatchSessions'
    <2>1. \A t \in Session : Listed(t)' <=> \E q \in list' : iSessionID'[q] = t
      BY <1>1, <1>2, <1>4, <1>6 DEF PlayersMatchSessions
    <2>2. /\ \A q, r \in list' : iSessionID'[q] = iSessionID'[r] => q = r
          /\ \A q \in list' : iSessionID'[q] \in Session
      BY <1>1, <1>4 DEF PlayersMatchSessions
    <2>3. \A q \in Player :
            /\ q \in list' => q \notin free' /\ \A t \in Session : leaving'[t] # q
            /\ q \in free' => \A t \in Session : leaving'[t] # q
            /\ q \in list' \/ q \in free' \/ \E t \in Session : leaving'[t] = q
      <3> SUFFICES ASSUME NEW q \in Player
                   PROVE  /\ q \in list' => q \notin free' /\ \A t \in Session : leaving'[t] # q
                          /\ q \in free' => \A t \in Session : leaving'[t] # q
                          /\ q \in list' \/ q \in free' \/ \E t \in Session : leaving'[t] = q
        OBVIOUS
      <3>1. p \notin free /\ \A t \in Session : leaving[t] # p
        BY <1>3, <1>2 DEF PlayersMatchSessions
      <3>2. CASE q = p
        BY <1>1, <1>4, <1>5, <3>1, <3>2
      <3>3. CASE q # p
        <4>1. /\ q \in list' <=> q \in list
              /\ q \in free' <=> q \in free
              /\ \A t \in Session : leaving'[t] = q => leaving[t] = q /\ t # s
              /\ \A t \in Session : leaving[t] = q => leaving'[t] = q
          BY <1>1, <1>4, <1>5, <3>3, NotNull
        <4> QED
          BY <4>1 DEF PlayersMatchSessions
      <3> QED
        BY <3>2, <3>3
    <2>4. \A t, u \in Session : leaving'[t] = leaving'[u] => t = u \/ leaving'[t] = Null
      BY <1>2, <1>3, <1>5 DEF PlayersMatchSessions
    <2> QED
      BY <2>1, <2>2, <2>3, <2>4 DEF PlayersMatchSessions
  <1>8. main.todo = {}
    BY <1>1 DEF WalksLocked
  <1>9. PointersAreListed'
    <2>1. worker # Idle => worker.player \in list' /\ iSessionID[worker.player] = worker.session
      BY <1>1, <1>2, <1>4 DEF PointersAreListed
    <2> QED
      BY <1>1, <1>8, <2>1 DEF PointersAreListed, Idle
  <1>10. WorkerListed'
    <2> SUFFICES ASSUME worker # Idle PROVE Listed(worker.session)'
      BY <1>1 DEF WorkerListed, Listed, Idle
    <2>1. worker.session \in Session /\ Listed(worker.session)
      BY Working DEF WorkerListed
    <2> QED
      BY <1>1, <1>5, <2>1 DEF Listed
  <1>11. WalksLocked' /\ FlagOfGroup' /\ LeavesClose'
    BY <1>1, <1>5 DEF WalksLocked, FlagOfGroup, LeavesClose
  <1> QED
    BY <1>7, <1>9, <1>10, <1>11

(* The object goes to the pool and the session is no more.                   *)
LEMMA FreeStep == IInv /\ (\E s \in Session : LeaveFree(s)) => Rest'
  <1> SUFFICES ASSUME IInv, NEW s \in Session, LeaveFree(s)
               PROVE  Rest'
    OBVIOUS
  <1> USE DEF IInv, Rest
  <1>1. /\ leaving[s] # Null /\ leaving[s] \in Player
        /\ free' = free \cup {leaving[s]}
        /\ leaving' = [leaving EXCEPT ![s] = Null]
        /\ session' = [session EXCEPT ![s] = "none"]
        /\ UNCHANGED <<list, iSessionID, worker, lock, on, main>>
    BY DEF LeaveFree, TypeOK
  <1>2. /\ leaving'[s] = Null /\ session'[s] = "none"
        /\ \A t \in Session : t # s => leaving'[t] = leaving[t] /\ session'[t] = session[t]
    BY <1>1 DEF TypeOK
  <1>3. ~Listed(s) /\ \A t \in Session : Listed(t)' <=> Listed(t)
    BY <1>1, <1>2 DEF Listed
  <1>4. PlayersMatchSessions'
    <2>1. \A t \in Session : Listed(t)' <=> \E q \in list' : iSessionID'[q] = t
      BY <1>1, <1>3 DEF PlayersMatchSessions
    <2>2. /\ \A q, r \in list' : iSessionID'[q] = iSessionID'[r] => q = r
          /\ \A q \in list' : iSessionID'[q] \in Session
      BY <1>1 DEF PlayersMatchSessions
    <2>3. \A q \in Player :
            /\ q \in list' => q \notin free' /\ \A t \in Session : leaving'[t] # q
            /\ q \in free' => \A t \in Session : leaving'[t] # q
            /\ q \in list' \/ q \in free' \/ \E t \in Session : leaving'[t] = q
      BY <1>1, <1>2, NotNull DEF PlayersMatchSessions
    <2>4. \A t, u \in Session : leaving'[t] = leaving'[u] => t = u \/ leaving'[t] = Null
      BY <1>2 DEF PlayersMatchSessions
    <2> QED
      BY <2>1, <2>2, <2>3, <2>4 DEF PlayersMatchSessions
  <1>5. PointersAreListed'
    BY <1>1 DEF PointersAreListed, Idle
  <1>6. WorkerListed'
    <2> SUFFICES ASSUME worker # Idle PROVE Listed(worker.session)'
      BY <1>1 DEF WorkerListed, Listed, Idle
    <2>1. worker.session \in Session /\ Listed(worker.session)
      BY Working DEF WorkerListed
    <2> QED
      BY <1>1, <1>3, <2>1
  <1>7. WalksLocked' /\ FlagOfGroup' /\ LeavesClose'
    BY <1>1, <1>2 DEF WalksLocked, FlagOfGroup, LeavesClose
  <1> QED
    BY <1>4, <1>5, <1>6, <1>7

(* SearchPlayer hands the login handler its own session's object.            *)
LEMMA SearchStep == IInv /\ (\E s \in Session, key \in Key : LoginSearch(s, key)) => Rest'
  <1> SUFFICES ASSUME IInv, NEW s \in Session, NEW key \in Key, LoginSearch(s, key)
               PROVE  Rest'
    OBVIOUS
  <1> USE DEF IInv, Rest
  <1>1. /\ UNCHANGED <<session, list, free, leaving, iSessionID, on, lock, main, heard>>
        /\ Listed(s)
    BY DEF LoginSearch, poolVars, mainVars, Listed
  <1>2. worker' \in [player : Found(s), session : {s}, asked : {key}] \/ worker' = Idle
    BY DEF LoginSearch
  <1>3. PointersAreListed'
    BY <1>1, <1>2 DEF PointersAreListed, Found, Idle
  <1>4. WorkerListed'
    BY <1>1, <1>2 DEF WorkerListed, Listed, Idle
  <1>5. PlayersMatchSessions' /\ WalksLocked' /\ FlagOfGroup' /\ LeavesClose'
    BY <1>1 DEF PlayersMatchSessions, WalksLocked, FlagOfGroup, LeavesClose, Listed
  <1> QED
    BY <1>3, <1>4, <1>5

(* Every step preserves the rest. *)
LEMMA NextRest == IInv /\ [Next]_vars => Rest'
  <1> SUFFICES ASSUME IInv, [Next]_vars
               PROVE  Rest'
    OBVIOUS
  <1>0. main.todo \subseteq list /\ WalksLocked /\ FlagOfGroup /\ TypeOK
    BY DEF IInv, Rest, PointersAreListed
  <1>1. CASE \E s \in Session : OnConnectRequest(s)
    BY <1>0, <1>1, Frame DEF OnConnectRequest, TypeOK, mainVars, WalksLocked, FlagOfGroup
  <1>2. CASE \E s \in Session : HangUp(s)
    BY <1>0, <1>2, Frame DEF HangUp, TypeOK, mainVars, WalksLocked, FlagOfGroup
  <1>3. CASE LoginAnswer
    <2>1. worker.session \in Session
      BY <1>0, <1>3, Working DEF LoginAnswer
    <2> QED
      BY <1>0, <1>3, <2>1, Frame DEF LoginAnswer, Answered, TypeOK, mainVars, WalksLocked, FlagOfGroup
  <1>4. CASE UpdateClient
    BY <1>0, <1>4, Frame DEF UpdateClient, WalksLocked, FlagOfGroup, At
  <1>5. CASE UpdateTest
    <2>1. main.group \in Group
      BY <1>0 DEF TypeOK
    <2>2. main'.at # "walk" /\ main'.todo = {} /\ FlagOfGroup'
      BY <1>0, <1>5, <2>1, Places DEF UpdateTest, WalksLocked, FlagOfGroup, TypeOK
    <2> QED
      BY <1>0, <1>5, <2>2, Frame DEF UpdateTest, WalksLocked, FlagOfGroup
  <1>6. CASE UpdateRead
    BY <1>0, <1>6, Frame DEF UpdateRead, WalksLocked, FlagOfGroup, TypeOK
  <1>7. CASE SendLock
    BY <1>0, <1>7, Frame DEF SendLock, WalksLocked, FlagOfGroup, TypeOK
  <1>8. CASE SendNext
    BY <1>0, <1>8, Frame DEF SendNext, After, WalksLocked, FlagOfGroup, TypeOK
  <1>9. CASE SendUnlock
    <2>1. main.group \in Group
      BY <1>0 DEF TypeOK
    <2>2. main'.at # "walk" /\ main'.todo = {} /\ FlagOfGroup'
      BY <1>9, <2>1, Places DEF SendUnlock, FlagOfGroup
    <2> QED
      BY <1>0, <1>9, <2>2, Frame DEF SendUnlock, WalksLocked, FlagOfGroup
  <1>10. CASE \E g \in 1 .. Types : Flag(g)
    BY <1>0, <1>10, Frame DEF Flag, mainVars, WalksLocked, FlagOfGroup
  <1>11. CASE UNCHANGED vars
    BY <1>0, <1>11, Frame DEF vars, poolVars, WalksLocked, FlagOfGroup
  <1> QED
    BY <1>1, <1>2, <1>3, <1>4, <1>5, <1>6, <1>7, <1>8, <1>9, <1>10, <1>11,
       JoinStep, LeaveStep, FreeStep, SearchStep DEF Next

-----------------------------------------------------------------------------
(* Theorems. *)

(* Types, list against pool, pointers and lock are inductive together. *)
THEOREM InductiveInvariant == Spec => []IInv
  <1>1. IInv /\ [Next]_vars => IInv'
    BY NextType, NextRest DEF IInv
  <1> QED
    BY <1>1, InitInv, PTL DEF Spec

(* Every variable of the tool side keeps its shape. *)
THEOREM TypeCorrect == Spec => []TypeOK
  BY InductiveInvariant, PTL DEF IInv

(* List, pool and leaves share the objects out, one to each tool. *)
THEOREM PlayersCorrect == Spec => []PlayersMatchSessions
  BY InductiveInvariant, PTL DEF IInv, Rest

(* Neither UpdateClient's iterator nor the handler's pointer outlives its     *)
(* object.                                                                  *)
THEOREM PointersCorrect == Spec => []PointersAreListed
  BY InductiveInvariant, PTL DEF IInv, Rest

=============================================================================
