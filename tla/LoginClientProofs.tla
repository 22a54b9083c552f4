--------------------------- MODULE LoginClientProofs ---------------------------
(***************************************************************************)
(* Safety of LoginClient, and that it implements LoginShares, for every    *)
(* set of accounts, keys, parameters and objects and every time-out.       *)
(***************************************************************************)
EXTENDS LoginClient, TLAPS

IInv == TypeOK /\ OneOwner /\ AnswerIsIntact

-----------------------------------------------------------------------------
(* Lemmas. *)

(* What the handlers write to a st_LOGIN_INFO. *)
LEMMA RecordWrites ==
  /\ \A r \in Request : Filled(r) \in InfoRecord
  /\ \A i \in InfoRecord : [i EXCEPT !.age = Older(@)] \in InfoRecord
  <1>1. InfoTimeout \in Nat
    BY TimeoutAssumption
  <1>2. \A r \in Request : Filled(r) \in InfoRecord
    BY <1>1 DEF Filled, InfoRecord, Request, Age
  <1>3. ASSUME NEW i \in InfoRecord
        PROVE  [i EXCEPT !.age = Older(@)] \in InfoRecord
    <2>1. Older(i.age) \in Age
      BY <1>1, SMT DEF InfoRecord, Age, Older
    <2> QED
      BY <2>1 DEF InfoRecord
  <1> QED
    BY <1>2, <1>3

(* The object a handler holds, and what it was asked. *)
LEMMA Holding ==
  ASSUME TypeOK
  PROVE  /\ worker.at \in {"add", "answer"} =>
              worker.info \in Info /\ worker.asked \in Request
         /\ worker.at = "idle" => worker = Idle
         /\ update.at = "remove" => update.account \in Account /\ update.key \in Key
         /\ update.at = "free" => update.info \in Info
         /\ worker.at \in {"idle", "add", "answer"}
  BY DEF TypeOK, Idle, Quiet

(* An object of the map is no free one, and stands for one account only. *)
LEMMA OneEntry ==
  ASSUME TypeOK, OneOwner, NEW a \in Account, NEW b \in Account,
         loginMap[a] # Null, loginMap[a] = loginMap[b]
  PROVE  a = b
  BY DEF OneOwner

-----------------------------------------------------------------------------
(* Types. *)

(* The initial state has the types. *)
LEMMA InitType == Init => TypeOK
  <1>1. InfoTimeout \in Nat
    BY TimeoutAssumption
  <1>2. Init => info \in [Info -> InfoRecord]
    BY <1>1 DEF Init, InfoRecord, Age
  <1> QED
    BY <1>2 DEF Init, TypeOK

(* Every step keeps them; what is added to the map needs AnswerIsIntact. *)
LEMMA NextType == IInv /\ [Next]_vars => TypeOK'
  <1> SUFFICES ASSUME IInv, [Next]_vars
               PROVE  TypeOK'
    OBVIOUS
  <1> USE DEF IInv
  <1>1. CASE OnClientJoin
    BY <1>1 DEF OnClientJoin, TypeOK, poolVars, outVars
  <1>2. CASE OnClientLeave
    BY <1>2 DEF OnClientLeave, TypeOK, poolVars, outVars
  <1>3. CASE \E r \in Request : ReqAlloc(r)
    <2>1. PICK r \in Request : ReqAlloc(r)
      BY <1>3
    <2>2. PICK p \in free : /\ free' = free \ {p}
                            /\ info' = [info EXCEPT ![p] = Filled(r)]
                            /\ worker' = [at |-> "add", info |-> p, asked |-> r]
      BY <2>1 DEF ReqAlloc
    <2>3. p \in Info /\ Filled(r) \in InfoRecord
      BY RecordWrites DEF TypeOK
    <2>4. info' \in [Info -> InfoRecord]
      BY <2>2, <2>3 DEF TypeOK
    <2> QED
      BY <2>1, <2>2, <2>3, <2>4 DEF ReqAlloc, TypeOK, outVars
  <1>4. CASE LoginMap_Add
    <2>1. worker.info \in Info /\ info[worker.info].account \in Account
      BY <1>4, Holding DEF LoginMap_Add, AnswerIsIntact, Request
    <2>2. loginMap' \in [Account -> Info \cup {Null}]
      BY <1>4, <2>1 DEF LoginMap_Add, TypeOK
    <2>3. free' \in SUBSET Info
      BY <1>4, <2>1 DEF LoginMap_Add, TypeOK, Replaced
    <2>4. worker' \in [at : {"add", "answer"}, info : Info, asked : Request]
      BY <1>4 DEF LoginMap_Add, TypeOK, Idle
    <2> QED
      BY <1>4, <2>2, <2>3, <2>4 DEF LoginMap_Add, TypeOK, outVars
  <1>5. CASE ReqAnswer
    <2>1. worker.info \in Info /\ worker.asked \in Request /\ worker.at # "idle"
      BY <1>5, Holding DEF ReqAnswer
    <2>2. told' \in [account : Account, param : Param]
      BY <1>5, <2>1 DEF ReqAnswer, AnswerIsIntact, Request
    <2> QED
      BY <1>5, <2>2 DEF ReqAnswer, TypeOK, poolVars
  <1>6. CASE \E a \in Account, k \in Key : ReqLogin(a, k)
    BY <1>6 DEF ReqLogin, TypeOK, poolVars, outVars
  <1>7. CASE LoginMap_Remove
    <2>1. update.account \in Account /\ update.key \in Key
      BY <1>7, Holding DEF LoginMap_Remove
    <2>2. verdict' \in [account : Account, key : Key, granted : BOOLEAN]
      <3>1. Matches(update.account, update.key) \in BOOLEAN
        BY DEF Matches
      <3> QED
        BY <1>7, <2>1, <3>1 DEF LoginMap_Remove
    <2>3. CASE Matches(update.account, update.key)
      <3>1. loginMap[update.account] \in Info
        BY <2>1, <2>3 DEF Matches, TypeOK
      <3>2. loginMap' \in [Account -> Info \cup {Null}]
        BY <1>7, <2>3 DEF LoginMap_Remove, TypeOK
      <3>3. update' \in [at : {"free"}, account : Account, key : Key, info : Info]
        <4>1. update \in [at : {"remove"}, account : Account, key : Key, info : {Null}]
          BY <1>7 DEF LoginMap_Remove, TypeOK, Quiet
        <4>2. update' = [update EXCEPT !.at = "free", !.info = loginMap[update.account]]
          BY <1>7, <2>3 DEF LoginMap_Remove
        <4> QED
          BY <3>1, <4>1, <4>2
      <3> QED
        BY <1>7, <2>2, <3>2, <3>3 DEF LoginMap_Remove, TypeOK
    <2>4. CASE ~Matches(update.account, update.key)
      BY <1>7, <2>2, <2>4 DEF LoginMap_Remove, TypeOK
    <2> QED
      BY <2>3, <2>4
  <1>8. CASE RemoveFree
    BY <1>8, Holding DEF RemoveFree, TypeOK, outVars
  <1>9. CASE Monitoring
    BY <1>9 DEF Monitoring, TypeOK, poolVars, outVars
  <1>10. CASE LoginMap_Timeout
    <2>1. free' \in SUBSET Info
      BY <1>10 DEF LoginMap_Timeout, TypeOK, Expired
    <2>2. loginMap' \in [Account -> Info \cup {Null}]
      BY <1>10 DEF LoginMap_Timeout, TypeOK
    <2> QED
      BY <1>10, <2>1, <2>2 DEF LoginMap_Timeout, TypeOK, outVars
  <1>11. CASE Tick
    <2>1. info' \in [Info -> InfoRecord]
      BY <1>11, RecordWrites DEF Tick, TypeOK
    <2> QED
      BY <1>11, <2>1 DEF Tick, TypeOK, outVars
  <1>12. CASE UNCHANGED vars
    BY <1>12 DEF vars, poolVars, outVars, TypeOK
  <1> QED
    BY <1>1, <1>2, <1>3, <1>4, <1>5, <1>6, <1>7, <1>8, <1>9, <1>10, <1>11, <1>12 DEF Next

-----------------------------------------------------------------------------
(* Owners. *)

(* Where an object goes when LoginMap_Add replaces the entry of account a.  *)
LEMMA AddOwner ==
  ASSUME IInv, LoginMap_Add
  PROVE  OneOwner'
  <1> DEFINE p == worker.info
             a == info[p].account
  <1> USE DEF IInv
  <1>1. /\ worker.at = "add" /\ p \in Info /\ a \in Account
        /\ loginMap' = [loginMap EXCEPT ![a] = p]
        /\ free' = free \cup Replaced(a)
        /\ worker'.at = "answer" /\ update' = update /\ info' = info
    BY Holding DEF LoginMap_Add, AnswerIsIntact, Request, TypeOK, Idle
  <1>2. p \notin free /\ ~InMap(p) /\ ~Freeing(p)
    BY <1>1 DEF OneOwner, Adding
  <1>3. \A b \in Account : loginMap'[b] = IF b = a THEN p ELSE loginMap[b]
    BY <1>1 DEF TypeOK
  <1>4. loginMap \in [Account -> Info \cup {Null}] /\ Null \notin Info
    BY NullAssumption DEF TypeOK
  <1> HIDE DEF p, a
  <1>5. ASSUME NEW b \in Account, loginMap'[b] # Null
        PROVE  info'[loginMap'[b]].account = b /\ loginMap'[b] \notin free'
    <2>1. CASE b = a
      <3>1. p \notin Replaced(a)
        BY <1>1, <1>2 DEF Replaced, InMap
      <3> QED
        BY <1>1, <1>2, <1>3, <2>1, <3>1 DEF a
    <2>2. CASE b # a
      <3>1. loginMap[b] # Null /\ loginMap'[b] = loginMap[b]
        BY <1>3, <1>5, <2>2
      <3>2. loginMap[b] \notin Replaced(a)
        BY <1>1, <2>2, <3>1, OneEntry DEF Replaced
      <3> QED
        BY <1>1, <3>1, <3>2 DEF OneOwner
    <2> QED
      BY <2>1, <2>2
  <1>6. ASSUME NEW q \in Info, Freeing(q)
        PROVE  q \notin free' /\ ~InMap(q)'
    <2>1. q \notin free /\ ~InMap(q) /\ q # p
      BY <1>2, <1>6 DEF OneOwner
    <2>2. q \notin Replaced(a)
      BY <1>1, <2>1 DEF Replaced, InMap
    <2>3. \A b \in Account : loginMap'[b] # q
      BY <1>3, <2>1 DEF InMap
    <2> QED
      BY <1>1, <2>1, <2>2, <2>3 DEF InMap
  <1>7. ASSUME NEW q \in Info
        PROVE  q \in free' \/ InMap(q)' \/ Freeing(q)'
    <2>1. CASE q = p
      BY <1>1, <1>3, <2>1 DEF InMap
    <2>2. CASE q # p /\ InMap(q)
      <3>1. PICK b \in Account : loginMap[b] = q
        BY <2>2 DEF InMap
      <3>2. CASE b = a
        BY <1>1, <1>4, <3>1, <3>2 DEF Replaced
      <3>3. CASE b # a
        BY <1>3, <3>1, <3>3 DEF InMap
      <3> QED
        BY <3>2, <3>3
    <2>3. CASE q # p /\ ~InMap(q)
      BY <1>1, <2>3 DEF OneOwner, Adding, Freeing, p
    <2> QED
      BY <2>1, <2>2, <2>3
  <1>8. \A q \in Info : ~Adding(q)' /\ (Freeing(q)' <=> Freeing(q))
    BY <1>1 DEF Adding, Freeing
  <1> QED
    BY <1>5, <1>6, <1>7, <1>8 DEF OneOwner

(* The entry LoginMap_Remove erases is the one it found. *)
LEMMA RemoveEntry ==
  ASSUME IInv, LoginMap_Remove, Matches(update.account, update.key)
  PROVE  /\ update.account \in Account
         /\ loginMap[update.account] \in Info
         /\ loginMap' = [loginMap EXCEPT ![update.account] = Null]
         /\ update'.at = "free" /\ update'.info = loginMap[update.account]
         /\ info[loginMap[update.account]].account = update.account
  <1> USE DEF IInv
  <1>1. update.account \in Account
    BY Holding DEF LoginMap_Remove
  <1>2. loginMap[update.account] \in Info
    BY <1>1 DEF Matches, TypeOK
  <1>3. info[loginMap[update.account]].account = update.account
    BY <1>1 DEF Matches, OneOwner
  <1>4. update \in [at : {"remove"}, account : Account, key : Key, info : {Null}]
    BY DEF LoginMap_Remove, TypeOK, Quiet
  <1>5. update' = [update EXCEPT !.at = "free", !.info = loginMap[update.account]]
    BY DEF LoginMap_Remove
  <1> QED
    BY <1>1, <1>2, <1>3, <1>4, <1>5 DEF LoginMap_Remove

(* Where the object of the erased entry goes. *)
LEMMA RemoveOwner ==
  ASSUME IInv, LoginMap_Remove
  PROVE  OneOwner'
  <1> DEFINE a == update.account
  <1> USE DEF IInv
  <1>1. free' = free /\ info' = info /\ worker' = worker /\ update.at = "remove"
    BY DEF LoginMap_Remove
  <1>2. CASE Matches(a, update.key)
    <2>1. /\ a \in Account /\ loginMap[a] \in Info
          /\ loginMap' = [loginMap EXCEPT ![a] = Null]
          /\ update'.at = "free" /\ update'.info = loginMap[a]
      BY <1>2, RemoveEntry
    <2>2. \A b \in Account : loginMap'[b] = IF b = a THEN Null ELSE loginMap[b]
      BY <2>1 DEF TypeOK
    <2>3. loginMap[a] # Null
      BY <1>2 DEF Matches
    <2> HIDE DEF a
    <2>4. \A b \in Account : loginMap'[b] # Null =>
            info'[loginMap'[b]].account = b /\ loginMap'[b] \notin free'
      BY <1>1, <2>2 DEF OneOwner
    <2>5. \A q \in Info : InMap(q)' => InMap(q) /\ q # loginMap[a]
      <3> SUFFICES ASSUME NEW q \in Info, NEW b \in Account, loginMap'[b] = q
                   PROVE  InMap(q) /\ q # loginMap[a]
        BY DEF InMap
      <3>1. q # Null /\ b # a /\ loginMap[b] = q
        BY <2>2, NullAssumption
      <3> QED
        BY <2>1, <2>3, <3>1, OneEntry DEF InMap
    <2>6. \A q \in Info : Adding(q)' <=> Adding(q)
      BY <1>1 DEF Adding
    <2>7. \A q \in Info : Freeing(q)' <=> q = loginMap[a]
      BY <2>1 DEF Freeing
    <2>8. \A q \in Info : InMap(q) => InMap(q)' \/ q = loginMap[a]
      BY <2>2 DEF InMap
    <2>9. \A q \in Info : ~Freeing(q)
      BY <1>1 DEF Freeing
    <2>10. loginMap[a] \notin free /\ InMap(loginMap[a])
      BY <2>1, <2>3 DEF OneOwner, InMap
    <2>11. \A q \in Info : Adding(q)' => q \notin free' /\ ~InMap(q)' /\ ~Freeing(q)'
      BY <1>1, <2>5, <2>6, <2>7, <2>10 DEF OneOwner
    <2>12. \A q \in Info : Freeing(q)' => q \notin free' /\ ~InMap(q)'
      BY <1>1, <2>5, <2>7, <2>10
    <2>13. \A q \in Info : q \in free' \/ InMap(q)' \/ Adding(q)' \/ Freeing(q)'
      BY <1>1, <2>6, <2>7, <2>8, <2>9 DEF OneOwner
    <2> QED
      BY <2>4, <2>11, <2>12, <2>13 DEF OneOwner
  <1>3. CASE ~Matches(a, update.key)
    <2>1. loginMap' = loginMap /\ update' = Quiet
      BY <1>3 DEF LoginMap_Remove
    <2>2. \A q \in Info : ~Freeing(q) /\ ~Freeing(q)'
      BY <1>1, <2>1 DEF Freeing, Quiet
    <2>3. \A q \in Info : (InMap(q)' <=> InMap(q)) /\ (Adding(q)' <=> Adding(q))
      BY <1>1, <2>1 DEF InMap, Adding
    <2> QED
      BY <1>1, <2>1, <2>2, <2>3 DEF OneOwner
  <1> QED
    BY <1>2, <1>3

(* Where the objects of expired entries go. *)
LEMMA TimeoutOwner ==
  ASSUME IInv, LoginMap_Timeout
  PROVE  OneOwner'
  <1> DEFINE gone == {loginMap[a] : a \in {b \in Account : Expired(b)}}
  <1> USE DEF IInv
  <1>1. /\ free' = free \cup gone
        /\ loginMap' = [a \in Account |-> IF Expired(a) THEN Null ELSE loginMap[a]]
        /\ info' = info /\ worker' = worker /\ update' = update
    BY DEF LoginMap_Timeout
  <1>2. \A a \in Account : loginMap'[a] = IF Expired(a) THEN Null ELSE loginMap[a]
    BY <1>1
  <1>3. \A a \in Account : Expired(a) => loginMap[a] # Null
    BY DEF Expired
  <1>4. \A q \in gone : InMap(q)
    BY DEF InMap
  <1>5. \A a \in Account : Expired(a) => loginMap[a] \in gone
    OBVIOUS
  <1>6. \A a \in Account : loginMap[a] # Null /\ ~Expired(a) => loginMap[a] \notin gone
    BY <1>3, OneEntry
  <1> HIDE DEF gone
  <1>7. \A a \in Account : loginMap'[a] # Null =>
          info'[loginMap'[a]].account = a /\ loginMap'[a] \notin free'
    BY <1>1, <1>2, <1>6 DEF OneOwner
  <1>8. \A q \in Info : InMap(q)' => InMap(q)
    BY <1>2, NullAssumption DEF InMap
  <1>9. \A q \in Info : InMap(q) => InMap(q)' \/ q \in gone
    BY <1>2, <1>5 DEF InMap
  <1>10. \A q \in Info : (Adding(q)' <=> Adding(q)) /\ (Freeing(q)' <=> Freeing(q))
    BY <1>1 DEF Adding, Freeing
  <1>11. \A q \in Info : Adding(q)' => q \notin free' /\ ~InMap(q)' /\ ~Freeing(q)'
    BY <1>1, <1>4, <1>8, <1>10 DEF OneOwner
  <1>12. \A q \in Info : Freeing(q)' => q \notin free' /\ ~InMap(q)'
    BY <1>1, <1>4, <1>8, <1>10 DEF OneOwner
  <1>13. \A q \in Info : q \in free' \/ InMap(q)' \/ Adding(q)' \/ Freeing(q)'
    BY <1>1, <1>9, <1>10 DEF OneOwner
  <1> QED
    BY <1>7, <1>11, <1>12, <1>13 DEF OneOwner

(* A step that leaves the map, the pool and both hands alone keeps owners. *)
LEMMA SameOwner ==
  ASSUME OneOwner, UNCHANGED <<loginMap, free>>,
         \A q \in Info : info'[q].account = info[q].account,
         \A q \in Info : (Adding(q)' <=> Adding(q)) /\ (Freeing(q)' <=> Freeing(q)),
         TypeOK
  PROVE  OneOwner'
  <1>1. \A a \in Account : loginMap[a] # Null => loginMap[a] \in Info
    BY DEF TypeOK
  <1>2. \A q \in Info : InMap(q)' <=> InMap(q)
    BY DEF InMap
  <1>3. \A a \in Account : loginMap'[a] # Null =>
          info'[loginMap'[a]].account = a /\ loginMap'[a] \notin free'
    BY <1>1 DEF OneOwner
  <1> QED
    BY <1>2, <1>3 DEF OneOwner

(* Every step keeps one owner per object. *)
LEMMA NextOwner == IInv /\ [Next]_vars => OneOwner'
  <1> SUFFICES ASSUME IInv, [Next]_vars
               PROVE  OneOwner'
    OBVIOUS
  <1> USE DEF IInv
  <1>1. CASE \/ OnClientJoin \/ OnClientLeave \/ Monitoring \/ UNCHANGED vars
    BY <1>1, SameOwner DEF OnClientJoin, OnClientLeave, Monitoring, vars, poolVars,
         outVars, Adding, Freeing
  <1>2. CASE \E r \in Request : ReqAlloc(r)
    <2>1. PICK r \in Request : ReqAlloc(r)
      BY <1>2
    <2>2. PICK p \in free : /\ free' = free \ {p}
                            /\ info' = [info EXCEPT ![p] = Filled(r)]
                            /\ worker' = [at |-> "add", info |-> p, asked |-> r]
      BY <2>1 DEF ReqAlloc
    <2>3. worker = Idle /\ loginMap' = loginMap /\ update' = update
      BY <2>1 DEF ReqAlloc
    <2>4. \A q \in Info : (InMap(q)' <=> InMap(q)) /\ (Freeing(q)' <=> Freeing(q))
      BY <2>3 DEF InMap, Freeing
    <2>5. \A q \in Info : ~Adding(q) /\ (Adding(q)' <=> q = p)
      BY <2>2, <2>3 DEF Adding, Idle
    <2>6. \A a \in Account : loginMap[a] # Null => loginMap[a] \in Info /\ loginMap[a] # p
      BY DEF OneOwner, TypeOK
    <2>7. \A a \in Account : loginMap'[a] # Null =>
            info'[loginMap'[a]].account = a /\ loginMap'[a] \notin free'
      BY <2>2, <2>3, <2>6 DEF OneOwner, TypeOK
    <2>8. ~InMap(p) /\ ~Freeing(p) /\ p \in Info
      BY <2>6, NullAssumption DEF OneOwner, InMap, TypeOK
    <2> QED
      BY <2>2, <2>4, <2>5, <2>7, <2>8 DEF OneOwner
  <1>3. CASE LoginMap_Add
    BY <1>3, AddOwner
  <1>4. CASE ReqAnswer
    BY <1>4, SameOwner DEF ReqAnswer, poolVars, Adding, Freeing, Idle
  <1>5. CASE \E a \in Account, k \in Key : ReqLogin(a, k)
    BY <1>5, SameOwner DEF ReqLogin, poolVars, Adding, Freeing, Quiet
  <1>6. CASE LoginMap_Remove
    BY <1>6, RemoveOwner
  <1>7. CASE RemoveFree
    <2>1. /\ update.info \in Info /\ Freeing(update.info)
          /\ free' = free \cup {update.info} /\ update' = Quiet
          /\ loginMap' = loginMap /\ info' = info /\ worker' = worker
      BY <1>7, Holding DEF RemoveFree, Freeing
    <2>2. \A q \in Info : Freeing(q) => q = update.info
      BY DEF Freeing
    <2>3. \A q \in Info : /\ InMap(q)' <=> InMap(q)
                          /\ Adding(q)' <=> Adding(q)
                          /\ ~Freeing(q)'
      BY <2>1 DEF InMap, Adding, Freeing, Quiet
    <2>4. \A a \in Account : loginMap[a] # update.info
      BY <2>1 DEF OneOwner, InMap
    <2>5. \A q \in Info : Adding(q) => q # update.info
      BY <2>1 DEF OneOwner
    <2> QED
      BY <2>1, <2>2, <2>3, <2>4, <2>5 DEF OneOwner
  <1>8. CASE LoginMap_Timeout
    BY <1>8, TimeoutOwner
  <1>9. CASE Tick
    <2>1. \A q \in Info : info'[q].account = info[q].account
      BY <1>9 DEF Tick, TypeOK, InfoRecord
    <2> QED
      BY <1>9, <2>1, SameOwner DEF Tick, outVars, Adding, Freeing
  <1> QED
    BY <1>1, <1>2, <1>3, <1>4, <1>5, <1>6, <1>7, <1>8, <1>9 DEF Next

-----------------------------------------------------------------------------
(* The object read for the answer: only ReqAlloc writes a request to one.    *)

(* Every step leaves the request in the worker's object. *)
LEMMA NextAnswer == IInv /\ [Next]_vars => AnswerIsIntact'
  <1> SUFFICES ASSUME IInv, [Next]_vars
               PROVE  AnswerIsIntact'
    OBVIOUS
  <1> USE DEF IInv
  <1>1. CASE \/ OnClientJoin \/ OnClientLeave \/ Monitoring \/ LoginMap_Remove
             \/ RemoveFree \/ LoginMap_Timeout \/ UNCHANGED vars
             \/ \E a \in Account, k \in Key : ReqLogin(a, k)
    <2>1. info' = info /\ worker' = worker
      BY <1>1 DEF OnClientJoin, OnClientLeave, Monitoring, LoginMap_Remove, RemoveFree,
           LoginMap_Timeout, ReqLogin, vars, poolVars
    <2> QED
      BY <2>1 DEF AnswerIsIntact
  <1>2. CASE \E r \in Request : ReqAlloc(r)
    <2>1. PICK r \in Request : ReqAlloc(r)
      BY <1>2
    <2>2. PICK p \in free : /\ info' = [info EXCEPT ![p] = Filled(r)]
                            /\ worker' = [at |-> "add", info |-> p, asked |-> r]
      BY <2>1 DEF ReqAlloc
    <2>3. info'[p] = Filled(r)
      BY <2>2 DEF TypeOK
    <2>4. [account |-> r.account, key |-> r.key, param |-> r.param] = r
      BY DEF Request
    <2> QED
      BY <2>2, <2>3, <2>4 DEF AnswerIsIntact, Filled
  <1>3. CASE LoginMap_Add
    <2>1. worker.at = "add" /\ info' = info /\ worker' = [worker EXCEPT !.at = "answer"]
      BY <1>3 DEF LoginMap_Add
    <2>2. worker \in [at : {"add", "answer"}, info : Info, asked : Request]
      BY <2>1 DEF TypeOK, Idle
    <2>3. worker'.info = worker.info /\ worker'.asked = worker.asked
      BY <2>1, <2>2
    <2> QED
      BY <2>1, <2>3 DEF AnswerIsIntact
  <1>4. CASE ReqAnswer
    BY <1>4 DEF ReqAnswer, AnswerIsIntact, Idle
  <1>5. CASE Tick
    <2>1. worker.at # "idle" => worker.info \in Info
      BY Holding
    <2>2. \A p \in Info : /\ info'[p].account = info[p].account
                          /\ info'[p].key = info[p].key
                          /\ info'[p].param = info[p].param
      BY <1>5 DEF Tick, TypeOK, InfoRecord
    <2>3. worker' = worker
      BY <1>5 DEF Tick
    <2> QED
      BY <2>1, <2>2, <2>3 DEF AnswerIsIntact
  <1> QED
    BY <1>1, <1>2, <1>3, <1>4, <1>5 DEF Next

-----------------------------------------------------------------------------
(* The refinement. *)

(* The initial states of LoginClient are initial states of LoginShares. *)
LEMMA InitShares == Init => Shares!Init
  BY DEF Init, Shares!Init, SharesHeld, Unanswered, Idle

(* A step that leaves the map and the records alone leaves the shares alone. *)
LEMMA SameShares ==
  ASSUME UNCHANGED <<loginMap, info>>
  PROVE  SharesHeld' = SharesHeld
  BY DEF SharesHeld

(* An entry of the map is a share. *)
LEMMA ShareIsSomething ==
  ASSUME TypeOK, NEW a \in Account, loginMap[a] # Null
  PROVE  SharesHeld[a] # Null
  <1>1. info[loginMap[a]] \in InfoRecord
    BY DEF TypeOK
  <1>2. [key |-> info[loginMap[a]].key, age |-> info[loginMap[a]].age]
          \in [key : Key \cup {Null}, age : Age]
    BY <1>1 DEF InfoRecord
  <1> QED
    BY <1>2, NullAssumption DEF SharesHeld

(* The entry written by LoginMap_Add, seen as a share. *)
LEMMA AddIsPut ==
  ASSUME IInv, LoginMap_Add
  PROVE  \E r \in Request, age \in Shares!Age : Shares!Put(r, age)
  <1> DEFINE p == worker.info
             r == worker.asked
  <1> USE DEF IInv
  <1>1. /\ worker.at = "add" /\ p \in Info /\ r \in Request
        /\ info[p].account = r.account /\ info[p].key = r.key
    BY Holding DEF LoginMap_Add, AnswerIsIntact
  <1>2. /\ loginMap' = [loginMap EXCEPT ![r.account] = p] /\ info' = info
        /\ UNCHANGED <<told, verdict>>
    BY <1>1 DEF LoginMap_Add, outVars
  <1>3. worker'.at = "answer" /\ worker'.asked = r
    <2>1. worker \in [at : {"add", "answer"}, info : Info, asked : Request]
      BY <1>1 DEF TypeOK, Idle
    <2> QED
      BY <2>1 DEF LoginMap_Add
  <1>4. r.account \in Account /\ info[p].age \in Shares!Age /\ p # Null
    BY <1>1, NullAssumption DEF Request, TypeOK, InfoRecord, Age, Shares!Age
  <1>5. SharesHeld' = [SharesHeld EXCEPT ![r.account] = [key |-> r.key, age |-> info[p].age]]
    <2>1. \A b \in Account : loginMap'[b] = IF b = r.account THEN p ELSE loginMap[b]
      BY <1>2 DEF TypeOK
    <2>2. \A b \in Account :
            SharesHeld'[b] = IF b = r.account THEN [key |-> r.key, age |-> info[p].age]
                             ELSE SharesHeld[b]
      BY <1>1, <1>2, <1>4, <2>1 DEF SharesHeld
    <2> QED
      BY <1>4, <2>2 DEF SharesHeld
  <1>6. Unanswered = Null /\ Unanswered' = r
    BY <1>1, <1>3 DEF Unanswered
  <1>7. Shares!Put(r, info[p].age)
    BY <1>2, <1>5, <1>6 DEF Shares!Put
  <1> QED
    BY <1>1, <1>4, <1>7

(* The answer, though read from an object that may be free again, confirms   *)
(* the share just added.                                                    *)
LEMMA AnswerIsConfirm ==
  ASSUME IInv, ReqAnswer
  PROVE  Shares!Confirm
  <1> USE DEF IInv
  <1>1. worker.at = "answer" /\ worker.asked \in Request
    BY Holding DEF ReqAnswer
  <1>2. /\ info[worker.info].account = worker.asked.account
        /\ info[worker.info].param = worker.asked.param
    BY <1>1 DEF AnswerIsIntact
  <1>3. worker.asked # Null
    BY <1>1, NullAssumption
  <1>4. SharesHeld' = SharesHeld
    BY SameShares DEF ReqAnswer, poolVars
  <1>5. Unanswered = worker.asked /\ Unanswered' = Null
    BY <1>1 DEF Unanswered, ReqAnswer, Idle
  <1>6. told' = [account |-> worker.asked.account, param |-> worker.asked.param]
    BY <1>2 DEF ReqAnswer
  <1>7. verdict' = verdict
    BY DEF ReqAnswer
  <1> QED
    BY <1>3, <1>4, <1>5, <1>6, <1>7 DEF Shares!Confirm

(* What LoginMap_Remove decides under the lock is what Take decides. *)
LEMMA RemoveIsTake ==
  ASSUME IInv, LoginMap_Remove
  PROVE  \E a \in Account, k \in Key : Shares!Take(a, k)
  <1> DEFINE a == update.account
             k == update.key
  <1> USE DEF IInv
  <1>1. a \in Account /\ k \in Key
    BY Holding DEF LoginMap_Remove
  <1>2. Matches(a, k) <=> Shares!Held(a, k)
    BY <1>1, ShareIsSomething DEF Matches, Shares!Held, SharesHeld
  <1>3. verdict' = [account |-> a, key |-> k, granted |-> Shares!Held(a, k)]
    <2>1. Matches(a, k) \in BOOLEAN /\ Shares!Held(a, k) \in BOOLEAN
      BY DEF Matches, Shares!Held
    <2>2. Matches(a, k) = Shares!Held(a, k)
      BY <1>2, <2>1
    <2> QED
      BY <2>2 DEF LoginMap_Remove
  <1>4. told' = told /\ Unanswered' = Unanswered
    BY DEF LoginMap_Remove, Unanswered
  <1>5. SharesHeld' = IF Shares!Held(a, k) THEN [SharesHeld EXCEPT ![a] = Null] ELSE SharesHeld
    <2>1. CASE Matches(a, k)
      <3>1. loginMap' = [loginMap EXCEPT ![a] = Null] /\ info' = info
        BY <2>1, RemoveEntry DEF LoginMap_Remove
      <3>2. \A b \in Account : loginMap'[b] = IF b = a THEN Null ELSE loginMap[b]
        BY <3>1 DEF TypeOK
      <3>3. \A b \in Account : SharesHeld'[b] = IF b = a THEN Null ELSE SharesHeld[b]
        BY <3>1, <3>2 DEF SharesHeld
      <3>4. SharesHeld' = [SharesHeld EXCEPT ![a] = Null]
        BY <1>1, <3>3 DEF SharesHeld
      <3> QED
        BY <1>2, <2>1, <3>4
    <2>2. CASE ~Matches(a, k)
      <3>1. loginMap' = loginMap /\ info' = info
        BY <2>2 DEF LoginMap_Remove
      <3> QED
        BY <1>2, <2>2, <3>1, SameShares
    <2> QED
      BY <2>1, <2>2
  <1>6. Shares!Take(a, k)
    BY <1>3, <1>4, <1>5 DEF Shares!Take
  <1> QED
    BY <1>1, <1>6

(* LoginMap_Timeout removes exactly the shares that are overdue. *)
LEMMA TimeoutIsExpire ==
  ASSUME IInv, LoginMap_Timeout
  PROVE  Shares!Expire
  <1> USE DEF IInv
  <1>1. loginMap' = [a \in Account |-> IF Expired(a) THEN Null ELSE loginMap[a]]
        /\ UNCHANGED <<info, worker, told, verdict>>
    BY DEF LoginMap_Timeout, outVars
  <1>2. \A a \in Account : Expired(a) <=> Shares!Overdue(a)
    BY ShareIsSomething DEF Expired, Shares!Overdue, SharesHeld
  <1>3. \A a \in Account : loginMap'[a] = IF Expired(a) THEN Null ELSE loginMap[a]
    BY <1>1
  <1>4. \A a \in Account :
          SharesHeld'[a] = IF Shares!Overdue(a) THEN Null ELSE SharesHeld[a]
    BY <1>1, <1>2, <1>3 DEF SharesHeld
  <1>5. SharesHeld' = [a \in Account |->
                         IF Shares!Overdue(a) THEN Null ELSE SharesHeld[a]]
    BY <1>4 DEF SharesHeld
  <1>6. Unanswered' = Unanswered
    BY <1>1 DEF Unanswered
  <1> QED
    BY <1>1, <1>5, <1>6 DEF Shares!Expire

(* Time passes for the shares as it does for the records. *)
LEMMA TickIsGrow ==
  ASSUME IInv, Tick
  PROVE  Shares!Grow
  <1> USE DEF IInv
  <1>1. info' = [p \in Info |-> [info[p] EXCEPT !.age = Older(@)]]
        /\ UNCHANGED <<loginMap, worker, told, verdict>>
    BY DEF Tick, outVars
  <1>2. \A p \in Info : info'[p].key = info[p].key /\ info'[p].age = Older(info[p].age)
    BY <1>1 DEF TypeOK, InfoRecord
  <1>3. ASSUME NEW a \in Account
        PROVE  SharesHeld'[a] = IF SharesHeld[a] # Null /\ ~Shares!Overdue(a)
                                THEN [SharesHeld[a] EXCEPT !.age = @ + 1]
                                ELSE SharesHeld[a]
    <2>1. CASE loginMap[a] = Null
      BY <1>1, <2>1 DEF SharesHeld
    <2>2. CASE loginMap[a] # Null
      <3> DEFINE i == info[loginMap[a]]
      <3>1. loginMap[a] \in Info /\ i \in InfoRecord
        BY <2>2 DEF TypeOK
      <3>2. /\ SharesHeld[a] = [key |-> i.key, age |-> i.age]
            /\ SharesHeld'[a] = [key |-> i.key, age |-> Older(i.age)]
        BY <1>1, <1>2, <2>2, <3>1 DEF SharesHeld
      <3>3. i.age \in Int /\ InfoTimeout \in Int
        BY <3>1, TimeoutAssumption DEF InfoRecord, Age
      <3> HIDE DEF i
      <3>4. SharesHeld[a] # Null => (Shares!Overdue(a) <=> i.age > InfoTimeout)
        BY <3>2 DEF Shares!Overdue
      <3>5. Older(i.age) = IF i.age > InfoTimeout THEN i.age ELSE i.age + 1
        BY <3>3 DEF Older
      <3>6. SharesHeld[a] # Null
        BY <2>2, ShareIsSomething
      <3> QED
        BY <3>2, <3>4, <3>5, <3>6
    <2> QED
      BY <2>1, <2>2
  <1>4. SharesHeld' = [a \in Account |->
          IF SharesHeld[a] # Null /\ ~Shares!Overdue(a)
          THEN [SharesHeld[a] EXCEPT !.age = @ + 1] ELSE SharesHeld[a]]
    BY <1>3 DEF SharesHeld
  <1>5. Unanswered' = Unanswered
    BY <1>1 DEF Unanswered
  <1> QED
    BY <1>1, <1>4, <1>5 DEF Shares!Grow

(* Every step of LoginClient is a step of LoginShares or none. *)
LEMMA NextShares == IInv /\ [Next]_vars => [Shares!Next]_(Shares!vars)
  <1> SUFFICES ASSUME IInv, [Next]_vars
               PROVE  [Shares!Next]_(Shares!vars)
    OBVIOUS
  <1>1. CASE \/ OnClientJoin \/ OnClientLeave \/ Monitoring \/ RemoveFree
             \/ UNCHANGED vars
             \/ \E a \in Account, k \in Key : ReqLogin(a, k)
    <2>1. UNCHANGED <<loginMap, info, worker, told, verdict>>
      BY <1>1 DEF OnClientJoin, OnClientLeave, Monitoring, RemoveFree, ReqLogin, vars,
           poolVars, outVars
    <2>2. Unanswered' = Unanswered
      BY <2>1 DEF Unanswered
    <2> QED
      BY <2>1, <2>2, SameShares DEF Shares!vars
  <1>2. CASE \E r \in Request : ReqAlloc(r)
    <2>1. PICK r \in Request : ReqAlloc(r)
      BY <1>2
    <2>2. PICK p \in free : /\ info' = [info EXCEPT ![p] = Filled(r)]
                            /\ worker' = [at |-> "add", info |-> p, asked |-> r]
      BY <2>1 DEF ReqAlloc
    <2>3. worker = Idle /\ UNCHANGED <<loginMap, told, verdict>>
      BY <2>1 DEF ReqAlloc, outVars
    <2>4. \A a \in Account : loginMap[a] # Null =>
            loginMap[a] # p /\ info'[loginMap[a]] = info[loginMap[a]]
      BY <2>2 DEF IInv, OneOwner, TypeOK
    <2>5. SharesHeld' = SharesHeld
      BY <2>3, <2>4 DEF SharesHeld
    <2>6. Unanswered' = Unanswered
      BY <2>2, <2>3 DEF Unanswered, Idle
    <2> QED
      BY <2>3, <2>5, <2>6 DEF Shares!vars
  <1>3. CASE LoginMap_Add
    BY <1>3, AddIsPut DEF Shares!Next, Shares!Request, Request
  <1>4. CASE ReqAnswer
    BY <1>4, AnswerIsConfirm DEF Shares!Next
  <1>5. CASE LoginMap_Remove
    BY <1>5, RemoveIsTake DEF Shares!Next
  <1>6. CASE LoginMap_Timeout
    BY <1>6, TimeoutIsExpire DEF Shares!Next
  <1>7. CASE Tick
    BY <1>7, TickIsGrow DEF Shares!Next
  <1> QED
    BY <1>1, <1>2, <1>3, <1>4, <1>5, <1>6, <1>7 DEF Next

-----------------------------------------------------------------------------
(* Theorems. *)

(* The three parts together are inductive. *)
LEMMA Invariant == Spec => []IInv
  <1>1. Init => IInv
    <2>1. Init => OneOwner
      BY DEF Init, OneOwner, InMap, Adding, Freeing, Idle, Quiet
    <2>2. Init => AnswerIsIntact
      BY DEF Init, AnswerIsIntact, Idle
    <2> QED
      BY <2>1, <2>2, InitType DEF IInv
  <1>2. IInv /\ [Next]_vars => IInv'
    BY NextType, NextOwner, NextAnswer DEF IInv
  <1> QED
    BY <1>1, <1>2, PTL DEF Spec

(* Every variable of CLoginClient keeps the shape its declaration gives it.  *)
THEOREM TypeCorrect == Spec => []TypeOK
  BY Invariant, PTL DEF IInv

(* No st_LOGIN_INFO is lost, freed twice or reachable after it was freed,    *)
(* whoever replaces, takes or expires the share.                            *)
THEOREM OwnersAreUnique == Spec => []OneOwner
  BY Invariant, PTL DEF IInv

(* The answer to the login server carries the account and the parameter of   *)
(* its request, although it is read from an object the map may have freed.   *)
THEOREM AnswersAreIntact == Spec => []AnswerIsIntact
  BY Invariant, PTL DEF IInv

(* The map, its pool, its lock and its three threads implement the promise   *)
(* of LoginShares.                                                          *)
THEOREM Refinement == Spec => ImplementsLoginShares
  <1>1. Init => Shares!Init
    BY InitShares
  <1>2. IInv /\ [Next]_vars => [Shares!Next]_(Shares!vars)
    BY NextShares
  <1> QED
    BY <1>1, <1>2, Invariant, PTL DEF Spec, ImplementsLoginShares, Shares!Spec

=============================================================================
