-------------------------- MODULE LoginServerProofs --------------------------
(***************************************************************************)
(* Safety of LoginServer, for every set of sessions, objects, connections  *)
(* and accounts, and every account table.                                  *)
(***************************************************************************)
EXTENDS LoginServer, TLAPS

(* Types, requests and shares are inductive only together, and rest on the list. *)
IInv ==
  /\ TypeOK
  /\ PlayersMatchSessions
  /\ HandlerKeepsItsPlayer
  /\ ShareCarriesItsRequest
  /\ ChatFlagImpliesServer

-----------------------------------------------------------------------------
(* Lemmas. *)

(* The writes of the handlers to a st_PLAYER, for any contents it may have. *)
LEMMA RecordWrites ==
  ASSUME NEW r \in PlayerRecord
  PROVE  /\ \A s \in Session :
              [r EXCEPT !.session = s, !.key = Null, !.status = "NONE", !.tick = NoTick]
                \in PlayerRecord
         /\ [r EXCEPT !.tick = NoTick] \in PlayerRecord
         /\ [r EXCEPT !.tick = 0] \in PlayerRecord
         /\ [r EXCEPT !.tick = Older(@)] \in PlayerRecord
         /\ \A status \in Status : [r EXCEPT !.status = status] \in PlayerRecord
         /\ \A a \in Account, k \in Key :
              [[r EXCEPT !.account = a] EXCEPT !.key = k] \in PlayerRecord
  <1>1. Timeout \in Nat
    BY TimeoutAssumption
  <1>2. Older(r.tick) \in NoTick .. Timeout + 1
    BY <1>1, SMT DEF Older, NoTick, PlayerRecord
  <1>3. NoTick \in NoTick .. Timeout + 1 /\ 0 \in NoTick .. Timeout + 1
    BY <1>1 DEF NoTick
  <1>4. \A s \in Session :
          [r EXCEPT !.session = s, !.key = Null, !.status = "NONE", !.tick = NoTick]
            \in PlayerRecord
    BY <1>3 DEF PlayerRecord, Status
  <1>5. [r EXCEPT !.tick = NoTick] \in PlayerRecord /\ [r EXCEPT !.tick = 0] \in PlayerRecord
    BY <1>3 DEF PlayerRecord
  <1>6. \A status \in Status : [r EXCEPT !.status = status] \in PlayerRecord
    BY DEF PlayerRecord
  <1>7. \A a \in Account, k \in Key :
          [[r EXCEPT !.account = a] EXCEPT !.key = k] \in PlayerRecord
    BY DEF PlayerRecord
  <1>8. [r EXCEPT !.tick = Older(@)] \in PlayerRecord
    BY <1>2 DEF PlayerRecord
  <1> QED
    BY <1>4, <1>5, <1>6, <1>7, <1>8

(* Status and time of the request are not what a session knows its object by. *)
LEMMA OtherFieldsStay ==
  ASSUME TypeOK, NEW p \in Player, NEW v,
         \/ player' = [player EXCEPT ![p].status = v]
         \/ player' = [player EXCEPT ![p].tick = v]
  PROVE  \A q \in Player : /\ player'[q].session = player[q].session
                           /\ player'[q].account = player[q].account
                           /\ player'[q].key = player[q].key
  <1> TAKE q \in Player
  <1>1. player[q] \in PlayerRecord /\ player \in [Player -> PlayerRecord]
    BY DEF TypeOK
  <1>2. CASE player' = [player EXCEPT ![p].status = v]
    BY <1>1, <1>2 DEF PlayerRecord
  <1>3. CASE player' = [player EXCEPT ![p].tick = v]
    BY <1>1, <1>3 DEF PlayerRecord
  <1> QED
    BY <1>2, <1>3

(* SearchPlayer finds the object of a session CNetServer has, and no other. *)
LEMMA OneObject ==
  ASSUME PlayersMatchSessions, NEW s \in Session, Alive(s)
  PROVE  \E p \in list : player[p].session = s /\ SearchPlayer(s) = {p}
  <1>1. PICK p \in list : player[p].session = s
    BY DEF PlayersMatchSessions, SearchPlayer
  <1>2. \A q \in list : player[q].session = s => q = p
    BY <1>1 DEF PlayersMatchSessions
  <1> QED
    BY <1>1, <1>2 DEF SearchPlayer

(* DisconnectSession neither ends a session nor brings one up. *)
LEMMA DisconnectKeepsAlive ==
  ASSUME TypeOK, NEW s \in Session, session' = Disconnected(s)
  PROVE  /\ session' \in [Session -> {"none", "up", "closing", "gone"}]
         /\ \A u \in Session : Alive(u)' <=> Alive(u)
  BY SMT DEF TypeOK, Disconnected, Alive

(* What makes PlayersMatchSessions survive a step that moves no object. *)
LEMMA SameObjects ==
  ASSUME TypeOK, PlayersMatchSessions, UNCHANGED poolVars,
         \A p \in Player : player'[p].session = player[p].session,
         \A s \in Session : Alive(s)' <=> Alive(s)
  PROVE  PlayersMatchSessions'
  <1>1. list \subseteq Player
    BY DEF TypeOK
  <1>2. \A s \in Session : SearchPlayer(s)' = SearchPlayer(s)
    BY <1>1 DEF SearchPlayer, poolVars
  <1> QED
    BY <1>1, <1>2 DEF PlayersMatchSessions, poolVars

(* What makes HandlerKeepsItsPlayer survive a step of handlers that leave   *)
(* session, account and key of the objects alone.                           *)
LEMMA SameRequests ==
  ASSUME TypeOK, HandlerKeepsItsPlayer, UNCHANGED <<asked, list>>,
         \A p \in Player : /\ player'[p].session = player[p].session
                           /\ player'[p].account = player[p].account
                           /\ player'[p].key = player[p].key,
         \A s \in Session :
           req'[s] # Idle => req[s] # Idle /\ req'[s].player = req[s].player
  PROVE  HandlerKeepsItsPlayer'
  <1> SUFFICES ASSUME NEW s \in Session, req'[s] # Idle
               PROVE  /\ req'[s].player \in list'
                      /\ player'[req'[s].player].session = s
                      /\ asked'[s] = [account |-> player'[req'[s].player].account,
                                      key |-> player'[req'[s].player].key]
    BY DEF HandlerKeepsItsPlayer, Idle
  <1>1. req[s] # Idle /\ req'[s].player = req[s].player
    OBVIOUS
  <1>2. req[s].player \in list /\ req[s].player \in Player
    BY <1>1 DEF HandlerKeepsItsPlayer, TypeOK
  <1> QED
    BY <1>1, <1>2 DEF HandlerKeepsItsPlayer

(* The object of a handler that is under way. *)
LEMMA HandlersObject ==
  ASSUME TypeOK, HandlerKeepsItsPlayer, NEW s \in Session, req[s].at # "idle"
  PROVE  LET p == req[s].player
         IN  /\ p \in Player /\ p \in list
             /\ player[p].session = s
             /\ player[p] \in PlayerRecord
             /\ player[p].account \in Account
             /\ player[p].key \in Key
             /\ asked[s] = [account |-> player[p].account, key |-> player[p].key]
  <1> DEFINE p == req[s].player
  <1>1. req[s] # Idle
    BY DEF Idle
  <1>2. p \in list /\ p \in Player /\ player[p].session = s
    BY <1>1 DEF HandlerKeepsItsPlayer, TypeOK
  <1>3. asked[s] = [account |-> player[p].account, key |-> player[p].key]
    BY <1>1 DEF HandlerKeepsItsPlayer
  <1>4. player[p] \in PlayerRecord
    BY <1>2 DEF TypeOK
  <1>5. asked[s] # Null
    BY <1>3, <1>4, NullAssumption DEF PlayerRecord
  <1>6. asked[s] \in [account : Account, key : Key]
    BY <1>5 DEF TypeOK
  <1> QED
    BY <1>2, <1>3, <1>4, <1>6

(* The packet mpResLogin lays out is one of the type's. *)
LEMMA AnsweredType ==
  ASSUME TypeOK, NEW p \in Player, NEW s \in Session, answers' = Answered(p, s)
  PROVE  answers' \in SUBSET [to : Session, account : Account \cup {Null},
                              status : Status, asker : Session]
  <1>1. player[p] \in PlayerRecord
    BY DEF TypeOK
  <1>2. /\ player[p].account \in Account \cup {Null}
        /\ player[p].status \in Status
    BY <1>1 DEF PlayerRecord
  <1> QED
    BY <1>2 DEF TypeOK, Answered

(* The state an answer's handler is in names an object and a share. *)
LEMMA CompletionsObject ==
  ASSUME TypeOK, NEW c \in Conn, comp[c].at # "idle"
  PROVE  comp[c].player \in Player /\ comp[c].share \in Share
  BY DEF TypeOK, Quiet

-----------------------------------------------------------------------------
(* Types. *)

LEMMA ClientTypes ==
  ASSUME IInv, NEW s \in Session,
         \/ OnClientJoin(s) \/ OnClientLeave(s) \/ OnSend(s)
         \/ \E a \in Account, k \in Key : ReqLogin(s, a, k)
         \/ Request(s)
  PROVE  TypeOK'
  <1> USE DEF IInv
  <1>1. CASE OnClientJoin(s)
    <2>1. PICK p \in free :
            /\ free' = free \ {p}
            /\ list' = list \cup {p}
            /\ player' = [player EXCEPT ![p] =
                 [@ EXCEPT !.session = s, !.key = Null, !.status = "NONE", !.tick = NoTick]]
      BY <1>1 DEF OnClientJoin
    <2>2. p \in Player /\ player[p] \in PlayerRecord
      BY <2>1 DEF TypeOK
    <2>3. player' \in [Player -> PlayerRecord]
      BY <2>1, <2>2, RecordWrites DEF TypeOK
    <2>4. session' \in [Session -> {"none", "up", "closing", "gone"}]
      BY <1>1 DEF OnClientJoin, TypeOK
    <2> QED
      BY <1>1, <2>1, <2>2, <2>3, <2>4 DEF OnClientJoin, TypeOK, lanVars
  <1>2. CASE OnClientLeave(s)
    <2>1. PICK p \in Leaving(s) :
            /\ list' = list \ SearchPlayer(s)
            /\ free' = free \cup {p}
            /\ player' = [player EXCEPT ![p].tick = NoTick]
      BY <1>2 DEF OnClientLeave
    <2>2. p \in Player /\ player[p] \in PlayerRecord
      BY <2>1 DEF TypeOK, Leaving, SearchPlayer
    <2>3. player' \in [Player -> PlayerRecord]
      BY <2>1, <2>2, RecordWrites DEF TypeOK
    <2>4. session' \in [Session -> {"none", "up", "closing", "gone"}]
      BY <1>2 DEF OnClientLeave, TypeOK
    <2>5. unsent' \in [Session -> BOOLEAN]
      BY <1>2 DEF OnClientLeave, TypeOK
    <2> QED
      BY <1>2, <2>1, <2>2, <2>3, <2>4, <2>5 DEF OnClientLeave, TypeOK, lanVars
  <1>3. CASE OnSend(s)
    <2>1. session' \in [Session -> {"none", "up", "closing", "gone"}]
      BY <1>3, DisconnectKeepsAlive DEF OnSend, TypeOK
    <2>2. unsent' \in [Session -> BOOLEAN]
      BY <1>3 DEF OnSend, TypeOK
    <2> QED
      BY <1>3, <2>1, <2>2 DEF OnSend, TypeOK, poolVars, lanVars
  <1>4. ASSUME NEW a \in Account, NEW k \in Key, ReqLogin(s, a, k)
        PROVE  TypeOK'
    <2>1. asked' \in [Session -> [account : Account, key : Key] \cup {Null}]
      BY <1>4 DEF ReqLogin, TypeOK
    <2>2. PICK p \in SearchPlayer(s) : player' = Stored(p, a, k) /\ req' = [req EXCEPT ![s] = At("flag", p)]
      BY <1>4, OneObject DEF ReqLogin
    <2>3. p \in Player /\ player[p] \in PlayerRecord
      BY <2>2 DEF TypeOK, SearchPlayer
    <2>4. player' \in [Player -> PlayerRecord]
      BY <2>2, <2>3, RecordWrites DEF TypeOK, Stored
    <2>5. req' \in [Session ->
            {Idle} \cup [at : {"flag", "db", "status", "refuse"}, player : Player]]
      BY <2>2, <2>3 DEF TypeOK, At
    <2> QED
      BY <1>4, <2>1, <2>4, <2>5 DEF ReqLogin, TypeOK, poolVars, lanVars
  <1>5. CASE ReqFlag(s)
    <2> DEFINE p == req[s].player
    <2>1. p \in Player /\ player[p] \in PlayerRecord
      BY <1>5, HandlersObject DEF ReqFlag
    <2>2. player' \in [Player -> PlayerRecord]
      BY <1>5, <2>1, RecordWrites DEF ReqFlag, TypeOK, Status
    <2>3. req' \in [Session ->
            {Idle} \cup [at : {"flag", "db", "status", "refuse"}, player : Player]]
      BY <1>5, <2>1 DEF ReqFlag, TypeOK, At
    <2> QED
      BY <1>5, <2>2, <2>3 DEF ReqFlag, TypeOK, poolVars, lanVars
  <1>6. CASE ReqReadDB(s)
    <2> DEFINE p == req[s].player
    <2>1. p \in Player /\ player[p] \in PlayerRecord
      BY <1>6, HandlersObject DEF ReqReadDB
    <2>2. ReadDB(player[p].account, player[p].key) \in Status
      BY DEF ReadDB, Status
    <2>3. player' \in [Player -> PlayerRecord]
      BY <1>6, <2>1, <2>2, RecordWrites DEF ReqReadDB, TypeOK
    <2>4. req' \in [Session ->
            {Idle} \cup [at : {"flag", "db", "status", "refuse"}, player : Player]]
      BY <1>6, <2>1 DEF ReqReadDB, TypeOK, At
    <2> QED
      BY <1>6, <2>3, <2>4 DEF ReqReadDB, TypeOK, poolVars, lanVars
  <1>7. CASE ReqShare(s)
    <2> DEFINE p == req[s].player
    <2>1. ShareOf(p) \in Share
      BY <1>7, HandlersObject DEF ReqShare, ShareOf, Share
    <2>2. pending' \in [Conn -> Seq(Share)]
      BY <1>7, <2>1 DEF ReqShare, Broadcast, TypeOK
    <2>3. req' \in [Session ->
            {Idle} \cup [at : {"flag", "db", "status", "refuse"}, player : Player]]
      BY <1>7 DEF ReqShare, TypeOK
    <2> QED
      BY <1>7, <2>2, <2>3 DEF ReqShare, TypeOK, poolVars
  <1>8. CASE ReqRefuse(s)
    <2> DEFINE p == req[s].player
    <2>1. p \in Player
      BY <1>8, HandlersObject DEF ReqRefuse
    <2>2. answers' \in SUBSET [to : Session, account : Account \cup {Null},
                               status : Status, asker : Session]
      BY <1>8, <2>1, AnsweredType DEF ReqRefuse
    <2>3. unsent' \in [Session -> BOOLEAN]
      BY <1>8 DEF ReqRefuse, TypeOK
    <2>4. req' \in [Session ->
            {Idle} \cup [at : {"flag", "db", "status", "refuse"}, player : Player]]
      BY <1>8 DEF ReqRefuse, TypeOK
    <2> QED
      BY <1>8, <2>2, <2>3, <2>4 DEF ReqRefuse, TypeOK, poolVars, lanVars
  <1> QED
    BY <1>1, <1>2, <1>3, <1>4, <1>5, <1>6, <1>7, <1>8 DEF Request

LEMMA ServerTypes ==
  ASSUME IInv, NEW c \in Conn,
         \/ LanOnClientJoin(c) \/ LanOnClientLeave(c)
         \/ \E t \in {"CHAT", "GAME"} : proc_PACKET_SS_LOGINSERVER_LOGIN(c, t)
         \/ Completion(c)
  PROVE  TypeOK'
  <1> USE DEF IInv
  <1>1. CASE LanOnClientJoin(c)
    BY <1>1 DEF LanOnClientJoin, TypeOK, clientVars, poolVars
  <1>2. CASE LanOnClientLeave(c)
    <2>1. bConnectChatServer' \in BOOLEAN
      BY <1>2 DEF LanOnClientLeave, FlagAfterLeave, TypeOK
    <2>2. conn' \in [Conn -> {"none", "up", "in", "gone"}]
      BY <1>2 DEF LanOnClientLeave, TypeOK
    <2>3. pending' \in [Conn -> Seq(Share)]
      BY <1>2 DEF LanOnClientLeave, TypeOK
    <2> QED
      BY <1>2, <2>1, <2>2, <2>3 DEF LanOnClientLeave, TypeOK, clientVars, poolVars
  <1>3. ASSUME NEW t \in {"CHAT", "GAME"}, proc_PACKET_SS_LOGINSERVER_LOGIN(c, t)
        PROVE  TypeOK'
    BY <1>3 DEF proc_PACKET_SS_LOGINSERVER_LOGIN, TypeOK, clientVars, poolVars
  <1>4. CASE CompSearch(c)
    <2>1. pending[c] \in Seq(Share) /\ pending[c] # <<>>
      BY <1>4 DEF CompSearch, TypeOK
    <2>2. Head(pending[c]) \in Share /\ Tail(pending[c]) \in Seq(Share)
      BY <2>1
    <2>3. pending' \in [Conn -> Seq(Share)]
      BY <1>4, <2>2 DEF CompSearch, TypeOK
    <2>4. comp' \in [Conn ->
            {Quiet} \cup [at : {"check", "status", "send"}, player : Player, share : Share]]
      <3>1. CASE UNCHANGED comp
        BY <3>1 DEF TypeOK
      <3>2. ASSUME NEW p \in Player,
                   comp' = [comp EXCEPT ![c] = Handling("check", p, Head(pending[c]))]
            PROVE  comp' \in [Conn ->
              {Quiet} \cup [at : {"check", "status", "send"}, player : Player, share : Share]]
        BY <2>2, <3>2 DEF TypeOK, Handling
      <3> QED
        BY <1>4, <3>1, <3>2 DEF CompSearch, SearchPlayer, TypeOK
    <2> QED
      BY <1>4, <2>3, <2>4 DEF CompSearch, TypeOK, clientVars, poolVars
  <1>5. CASE CompCheck(c)
    <2>1. comp[c].player \in Player /\ comp[c].share \in Share
      BY <1>5, CompletionsObject DEF CompCheck
    <2>2. comp' \in [Conn ->
            {Quiet} \cup [at : {"check", "status", "send"}, player : Player, share : Share]]
      BY <1>5, <2>1 DEF CompCheck, TypeOK, Handling
    <2> QED
      BY <1>5, <2>2 DEF CompCheck, TypeOK, clientVars, poolVars
  <1>6. CASE CompStatus(c)
    <2>1. comp[c].player \in Player /\ comp[c].share \in Share
      BY <1>6, CompletionsObject DEF CompStatus
    <2>2. comp' \in [Conn ->
            {Quiet} \cup [at : {"check", "status", "send"}, player : Player, share : Share]]
      BY <1>6, <2>1 DEF CompStatus, TypeOK, Handling
    <2>3. player[comp[c].player] \in PlayerRecord
      BY <2>1 DEF TypeOK
    <2>4. player' \in [Player -> PlayerRecord]
      BY <1>6, <2>1, <2>3, RecordWrites DEF CompStatus, TypeOK, Status
    <2> QED
      BY <1>6, <2>2, <2>4 DEF CompStatus, TypeOK, clientVars, poolVars
  <1>7. CASE CompSend(c)
    <2> DEFINE p == comp[c].player
    <2>1. p \in Player /\ comp[c].share.param \in Session
      BY <1>7, CompletionsObject DEF CompSend, Share
    <2>2. answers' \in SUBSET [to : Session, account : Account \cup {Null},
                               status : Status, asker : Session]
      BY <1>7, <2>1, AnsweredType DEF CompSend
    <2>3. session' \in [Session -> {"none", "up", "closing", "gone"}]
      BY <1>7, DisconnectKeepsAlive DEF CompSend, Completed, TypeOK
    <2>4. comp' \in [Conn ->
            {Quiet} \cup [at : {"check", "status", "send"}, player : Player, share : Share]]
      BY <1>7 DEF CompSend, TypeOK
    <2> QED
      BY <1>7, <2>2, <2>3, <2>4 DEF CompSend, TypeOK, poolVars
  <1> QED
    BY <1>1, <1>2, <1>3, <1>4, <1>5, <1>6, <1>7 DEF Completion

(* Every step keeps every variable in its shape. *)
LEMMA TypeStep ==
  ASSUME IInv, Next
  PROVE  TypeOK'
  <1>1. CASE UpdateThread_Process
    <2>1. PICK p \in list : session' = Disconnected(player[p].session)
      BY <1>1 DEF UpdateThread_Process
    <2>2. player[p].session \in Session
      BY <2>1 DEF IInv, PlayersMatchSessions
    <2>3. session' \in [Session -> {"none", "up", "closing", "gone"}]
      BY <2>1, <2>2, DisconnectKeepsAlive DEF IInv
    <2> QED
      BY <1>1, <2>3 DEF UpdateThread_Process, IInv, TypeOK, poolVars, lanVars
  <1>2. CASE Tick
    <2>1. player' \in [Player -> PlayerRecord]
      BY <1>2, RecordWrites DEF Tick, IInv, TypeOK
    <2> QED
      BY <1>2, <2>1 DEF Tick, IInv, TypeOK, clientVars, poolVars, lanVars
  <1> QED
    BY <1>1, <1>2, ClientTypes, ServerTypes DEF Next

-----------------------------------------------------------------------------
(* The list holds one object for each session, whatever the step.  Only the *)
(* first and the last callback of a session move an object.                 *)
LEMMA PlayersStep ==
  ASSUME IInv, Next
  PROVE  PlayersMatchSessions'
  <1> USE DEF IInv
  <1>1. ASSUME NEW s \in Session, OnClientJoin(s)
        PROVE  PlayersMatchSessions'
    <2>1. PICK p \in free :
            /\ free' = free \ {p}
            /\ list' = list \cup {p}
            /\ player' = [player EXCEPT ![p] =
                 [@ EXCEPT !.session = s, !.key = Null, !.status = "NONE", !.tick = NoTick]]
      BY <1>1 DEF OnClientJoin
    <2>2. p \in Player /\ p \notin list /\ player[p] \in PlayerRecord
      BY <2>1 DEF TypeOK, PlayersMatchSessions
    <2>3. player'[p].session = s
      BY <2>1, <2>2 DEF TypeOK, PlayerRecord
    <2>4. \A q \in list : q # p /\ player'[q].session = player[q].session
      BY <2>1, <2>2 DEF TypeOK
    <2>5. /\ \A u \in Session : Alive(u)' <=> (Alive(u) \/ u = s)
          /\ ~Alive(s)
      BY <1>1 DEF OnClientJoin, Alive, TypeOK
    <2>6. \A q \in list : player[q].session # s
      BY <2>5 DEF PlayersMatchSessions
    <2>7. \A u \in Session : Alive(u)' => SearchPlayer(u)' # {}
      BY <2>1, <2>3, <2>4, <2>5 DEF PlayersMatchSessions, SearchPlayer
    <2>8. free' = Player \ list'
      BY <2>1 DEF PlayersMatchSessions
    <2>9. \A q \in list' : player'[q].session \in Session /\ Alive(player[q].session)'
      BY <2>1, <2>3, <2>4, <2>5 DEF PlayersMatchSessions
    <2>10. \A q, r \in list' : player'[q].session = player'[r].session => q = r
      BY <2>1, <2>3, <2>4, <2>6 DEF PlayersMatchSessions
    <2> QED
      BY <2>7, <2>8, <2>9, <2>10 DEF PlayersMatchSessions, Alive
  <1>2. ASSUME NEW s \in Session, OnClientLeave(s)
        PROVE  PlayersMatchSessions'
    <2>1. PICK p \in list : player[p].session = s /\ SearchPlayer(s) = {p}
      BY <1>2, OneObject DEF OnClientLeave
    <2>2. /\ list' = list \ {p}
          /\ free' = free \cup {p}
          /\ player' = [player EXCEPT ![p].tick = NoTick]
      BY <1>2, <2>1 DEF OnClientLeave, Leaving
    <2>3. \A q \in list' : q # p /\ player'[q].session = player[q].session
      BY <2>2 DEF TypeOK
    <2>4. \A u \in Session : Alive(u)' <=> (Alive(u) /\ u # s)
      BY <1>2 DEF OnClientLeave, Alive, TypeOK
    <2>5. \A q \in list' : player[q].session # s
      BY <2>1, <2>2 DEF PlayersMatchSessions
    <2>6. p \in Player
      BY <2>1 DEF TypeOK
    <2>7. free' = Player \ list'
      BY <2>2, <2>6 DEF PlayersMatchSessions
    <2>8. \A q \in list' : player'[q].session \in Session /\ Alive(player[q].session)'
      BY <2>2, <2>3, <2>4, <2>5 DEF PlayersMatchSessions
    <2>9. \A q, r \in list' : player'[q].session = player'[r].session => q = r
      BY <2>2, <2>3 DEF PlayersMatchSessions
    <2>10. \A u \in Session : Alive(u)' => SearchPlayer(u)' # {}
      BY <2>1, <2>2, <2>3, <2>4 DEF PlayersMatchSessions, SearchPlayer
    <2> QED
      BY <2>7, <2>8, <2>9, <2>10 DEF PlayersMatchSessions, Alive
  <1>3. ASSUME NEW s \in Session, OnSend(s)
        PROVE  PlayersMatchSessions'
    <2>1. \A u \in Session : Alive(u)' <=> Alive(u)
      BY <1>3, DisconnectKeepsAlive DEF OnSend, Alive
    <2> QED
      BY <1>3, <2>1, SameObjects DEF OnSend
  <1>4. ASSUME NEW s \in Session, NEW a \in Account, NEW k \in Key, ReqLogin(s, a, k)
        PROVE  PlayersMatchSessions'
    <2>1. UNCHANGED player \/ \E p \in Player : player' = Stored(p, a, k)
      BY <1>4 DEF ReqLogin, SearchPlayer, TypeOK
    <2>2. \A p \in Player : player'[p].session = player[p].session
      <3>1. ASSUME NEW p \in Player, player' = Stored(p, a, k)
            PROVE  \A q \in Player : player'[q].session = player[q].session
        BY <3>1 DEF Stored, TypeOK, PlayerRecord
      <3> QED
        BY <2>1, <3>1
    <2> QED
      BY <1>4, <2>2, SameObjects DEF ReqLogin, Alive
  <1>5. ASSUME NEW s \in Session, Request(s)
        PROVE  PlayersMatchSessions'
    <2>1. \A p \in Player : player'[p].session = player[p].session
      <3>1. CASE ReqFlag(s)
        BY <3>1, HandlersObject, OtherFieldsStay DEF ReqFlag
      <3>2. CASE ReqReadDB(s)
        BY <3>2, HandlersObject, OtherFieldsStay DEF ReqReadDB
      <3> QED
        BY <1>5, <3>1, <3>2 DEF Request, ReqShare, ReqRefuse
    <2> QED
      BY <1>5, <2>1, SameObjects DEF Request, ReqFlag, ReqReadDB, ReqShare, ReqRefuse,
                                     Alive, poolVars
  <1>6. ASSUME NEW c \in Conn,
               \/ LanOnClientJoin(c) \/ LanOnClientLeave(c)
               \/ \E t \in {"CHAT", "GAME"} : proc_PACKET_SS_LOGINSERVER_LOGIN(c, t)
        PROVE  PlayersMatchSessions'
    BY <1>6, SameObjects DEF LanOnClientJoin, LanOnClientLeave,
         proc_PACKET_SS_LOGINSERVER_LOGIN, Alive, clientVars
  <1>7. ASSUME NEW c \in Conn, CompSearch(c) \/ CompCheck(c) \/ CompStatus(c)
        PROVE  PlayersMatchSessions'
    <2>1. \A p \in Player : player'[p].session = player[p].session
      BY <1>7 DEF CompSearch, CompCheck, CompStatus, TypeOK, PlayerRecord
    <2> QED
      BY <1>7, <2>1, SameObjects DEF CompSearch, CompCheck, CompStatus, Alive, clientVars
  <1>8. ASSUME NEW c \in Conn, CompSend(c)
        PROVE  PlayersMatchSessions'
    <2>1. \A u \in Session : Alive(u)' <=> Alive(u)
      BY <1>8, DisconnectKeepsAlive DEF CompSend, Completed, Alive
    <2> QED
      BY <1>8, <2>1, SameObjects DEF CompSend
  <1>9. CASE UpdateThread_Process
    <2>1. PICK p \in list : session' = Disconnected(player[p].session)
      BY <1>9 DEF UpdateThread_Process
    <2>2. player[p].session \in Session
      BY <2>1 DEF PlayersMatchSessions
    <2>3. \A u \in Session : Alive(u)' <=> Alive(u)
      BY <2>1, <2>2, DisconnectKeepsAlive
    <2> QED
      BY <1>9, <2>3, SameObjects DEF UpdateThread_Process
  <1>10. CASE Tick
    <2>1. \A p \in Player : player'[p].session = player[p].session
      BY <1>10 DEF Tick, TypeOK, PlayerRecord
    <2> QED
      BY <1>10, <2>1, SameObjects DEF Tick, Alive, clientVars
  <1> QED
    BY <1>1, <1>2, <1>3, <1>4, <1>5, <1>6, <1>7, <1>8, <1>9, <1>10 DEF Next, Completion

(* A request's object stays its own, whatever the step.                    *)
LEMMA HandlerStep ==
  ASSUME IInv, Next
  PROVE  HandlerKeepsItsPlayer'
  <1> USE DEF IInv
  <1>1. ASSUME NEW s \in Session, OnClientJoin(s)
        PROVE  HandlerKeepsItsPlayer'
    <2>1. PICK p \in free :
            /\ list' = list \cup {p}
            /\ player' = [player EXCEPT ![p] =
                 [@ EXCEPT !.session = s, !.key = Null, !.status = "NONE", !.tick = NoTick]]
      BY <1>1 DEF OnClientJoin
    <2>2. p \notin list
      BY <2>1 DEF PlayersMatchSessions
    <2>3. \A q \in list : player'[q] = player[q]
      BY <2>1, <2>2 DEF TypeOK
    <2>4. UNCHANGED <<asked, req>>
      BY <1>1 DEF OnClientJoin
    <2> SUFFICES ASSUME NEW u \in Session, req'[u] # Idle
                 PROVE  /\ req'[u].player \in list'
                        /\ player'[req'[u].player].session = u
                        /\ asked'[u] = [account |-> player'[req'[u].player].account,
                                        key |-> player'[req'[u].player].key]
      BY DEF HandlerKeepsItsPlayer, Idle
    <2>5. /\ req[u].player \in list /\ player[req[u].player].session = u
          /\ asked[u] = [account |-> player[req[u].player].account,
                         key |-> player[req[u].player].key]
      BY <2>4 DEF HandlerKeepsItsPlayer
    <2> QED
      BY <2>1, <2>3, <2>4, <2>5
  <1>2. ASSUME NEW s \in Session, OnClientLeave(s)
        PROVE  HandlerKeepsItsPlayer'
    <2>1. PICK p \in list : player[p].session = s /\ SearchPlayer(s) = {p}
      BY <1>2, OneObject DEF OnClientLeave
    <2>2. /\ list' = list \ {p}
          /\ player' = [player EXCEPT ![p].tick = NoTick]
          /\ UNCHANGED <<asked, req>>
          /\ req[s] = Idle
      BY <1>2, <2>1 DEF OnClientLeave, Leaving
    <2>3. \A q \in list' : player'[q] = player[q]
      BY <2>2 DEF TypeOK
    <2>4. \A u \in Session : req[u] # Idle => req[u].player \in list'
      BY <2>1, <2>2 DEF HandlerKeepsItsPlayer
    <2> QED
      BY <2>2, <2>3, <2>4 DEF HandlerKeepsItsPlayer, Idle
  <1>3. ASSUME NEW s \in Session, OnSend(s)
        PROVE  HandlerKeepsItsPlayer'
    BY <1>3, SameRequests DEF OnSend, poolVars
  <1>4. ASSUME NEW s \in Session, NEW a \in Account, NEW k \in Key, ReqLogin(s, a, k)
        PROVE  HandlerKeepsItsPlayer'
    <2>1. PICK p \in list : player[p].session = s /\ SearchPlayer(s) = {p}
      BY <1>4, OneObject DEF ReqLogin
    <2>2. /\ player' = Stored(p, a, k)
          /\ req' = [req EXCEPT ![s] = At("flag", p)]
          /\ asked' = [asked EXCEPT ![s] = [account |-> a, key |-> k]]
          /\ list' = list
      BY <1>4, <2>1 DEF ReqLogin, poolVars
    <2>3. p \in Player /\ player[p] \in PlayerRecord
      BY <2>1 DEF TypeOK
    <2>4. /\ player'[p].session = s
          /\ player'[p].account = a
          /\ player'[p].key = k
      BY <2>1, <2>2, <2>3 DEF Stored, TypeOK, PlayerRecord
    <2>5. \A q \in list : q # p => player'[q] = player[q]
      BY <2>2, <2>3 DEF Stored, TypeOK
    <2>6. req'[s].player = p /\ asked'[s] = [account |-> a, key |-> k]
      BY <2>2 DEF At, TypeOK
    <2>7. ASSUME NEW u \in Session, u # s, req'[u] # Idle
          PROVE  LET q == req'[u].player
                 IN  /\ q \in list' /\ player'[q].session = u
                     /\ asked'[u] = [account |-> player'[q].account, key |-> player'[q].key]
      <3> DEFINE q == req[u].player
      <3>1. req'[u] = req[u] /\ asked'[u] = asked[u]
        BY <2>2, <2>7 DEF TypeOK
      <3>2. q \in list /\ player[q].session = u
        BY <2>7, <3>1 DEF HandlerKeepsItsPlayer
      <3>3. q # p
        BY <2>1, <2>7, <3>2
      <3> QED
        BY <2>2, <2>5, <2>7, <3>1, <3>2, <3>3 DEF HandlerKeepsItsPlayer
    <2>8. LET q == req'[s].player
          IN  /\ q \in list' /\ player'[q].session = s
              /\ asked'[s] = [account |-> player'[q].account, key |-> player'[q].key]
      BY <2>1, <2>2, <2>4, <2>6
    <2> SUFFICES ASSUME NEW u \in Session, req'[u] # Idle
                 PROVE  /\ req'[u].player \in list'
                        /\ player'[req'[u].player].session = u
                        /\ asked'[u] = [account |-> player'[req'[u].player].account,
                                        key |-> player'[req'[u].player].key]
      BY DEF HandlerKeepsItsPlayer, Idle
    <2>9. CASE u = s
      BY <2>8, <2>9
    <2>10. CASE u # s
      BY <2>7, <2>10
    <2> QED
      BY <2>9, <2>10
  <1>5. ASSUME NEW s \in Session, ReqFlag(s) \/ ReqReadDB(s)
        PROVE  HandlerKeepsItsPlayer'
    <2>1. req[s].player \in Player /\ req[s].at # "idle"
      BY <1>5, HandlersObject DEF ReqFlag, ReqReadDB
    <2>2. \A q \in Player : /\ player'[q].session = player[q].session
                            /\ player'[q].account = player[q].account
                            /\ player'[q].key = player[q].key
      BY <1>5, <2>1, OtherFieldsStay DEF ReqFlag, ReqReadDB
    <2>3. \A u \in Session :
            req'[u] # Idle => req[u] # Idle /\ req'[u].player = req[u].player
      BY <1>5, <2>1 DEF ReqFlag, ReqReadDB, At, Idle, TypeOK
    <2> QED
      BY <1>5, <2>2, <2>3, SameRequests DEF ReqFlag, ReqReadDB, poolVars
  <1>6. ASSUME NEW s \in Session, ReqShare(s) \/ ReqRefuse(s)
        PROVE  HandlerKeepsItsPlayer'
    <2>1. \A u \in Session :
            req'[u] # Idle => req[u] # Idle /\ req'[u].player = req[u].player
      BY <1>6 DEF ReqShare, ReqRefuse, Idle, TypeOK
    <2> QED
      BY <1>6, <2>1, SameRequests DEF ReqShare, ReqRefuse, poolVars
  <1>7. ASSUME NEW c \in Conn,
               \/ LanOnClientJoin(c) \/ LanOnClientLeave(c)
               \/ \E t \in {"CHAT", "GAME"} : proc_PACKET_SS_LOGINSERVER_LOGIN(c, t)
               \/ CompSearch(c) \/ CompCheck(c) \/ CompSend(c)
        PROVE  HandlerKeepsItsPlayer'
    BY <1>7, SameRequests DEF LanOnClientJoin, LanOnClientLeave,
         proc_PACKET_SS_LOGINSERVER_LOGIN, CompSearch, CompCheck, CompSend,
         clientVars, poolVars
  <1>8. ASSUME NEW c \in Conn, CompStatus(c)
        PROVE  HandlerKeepsItsPlayer'
    <2>1. comp[c].player \in Player
      BY <1>8, CompletionsObject DEF CompStatus
    <2>2. \A q \in Player : /\ player'[q].session = player[q].session
                            /\ player'[q].account = player[q].account
                            /\ player'[q].key = player[q].key
      BY <1>8, <2>1, OtherFieldsStay DEF CompStatus
    <2> QED
      BY <1>8, <2>2, SameRequests DEF CompStatus, clientVars, poolVars
  <1>9. CASE UpdateThread_Process
    BY <1>9, SameRequests DEF UpdateThread_Process, poolVars
  <1>10. CASE Tick
    <2>1. \A q \in Player : /\ player'[q].session = player[q].session
                            /\ player'[q].account = player[q].account
                            /\ player'[q].key = player[q].key
      BY <1>10 DEF Tick, TypeOK, PlayerRecord
    <2> QED
      BY <1>10, <2>1, SameRequests DEF Tick, clientVars, poolVars
  <1> QED
    BY <1>1, <1>2, <1>3, <1>4, <1>5, <1>6, <1>7, <1>8, <1>9, <1>10
       DEF Next, Request, Completion

-----------------------------------------------------------------------------
(* What makes ShareCarriesItsRequest survive a step that sends no share.    *)
LEMMA NoNewShare ==
  ASSUME TypeOK, ShareCarriesItsRequest,
         \A s \in Session : asked[s] # Null => asked'[s] = asked[s],
         \A c \in Conn : \A i \in 1 .. Len(pending'[c]) :
           \E j \in 1 .. Len(pending[c]) : pending'[c][i] = pending[c][j]
  PROVE  ShareCarriesItsRequest'
  <1> SUFFICES ASSUME NEW c \in Conn, NEW i \in 1 .. Len(pending'[c])
               PROVE  LET share == pending'[c][i]
                      IN  asked'[share.param] = [account |-> share.account, key |-> share.key]
    BY DEF ShareCarriesItsRequest
  <1>1. PICK j \in 1 .. Len(pending[c]) : pending'[c][i] = pending[c][j]
    OBVIOUS
  <1> DEFINE share == pending[c][j]
  <1>2. share \in Share
    BY <1>1 DEF TypeOK
  <1>3. /\ share.param \in Session
        /\ [account |-> share.account, key |-> share.key]
             \in [account : Account \cup {Null}, key : Key \cup {Null}]
    BY <1>2 DEF Share
  <1>4. asked[share.param] = [account |-> share.account, key |-> share.key]
    BY <1>1 DEF ShareCarriesItsRequest
  <1>5. asked[share.param] # Null
    BY <1>3, <1>4, NullAssumption
  <1> QED
    BY <1>1, <1>3, <1>4, <1>5

(* A share in flight was asked for by the session it names.                *)
LEMMA ShareStep ==
  ASSUME IInv, Next
  PROVE  ShareCarriesItsRequest'
  <1> USE DEF IInv
  <1>1. ASSUME NEW s \in Session, ReqShare(s)
        PROVE  ShareCarriesItsRequest'
    <2> DEFINE p == req[s].player
               new == ShareOf(p)
    <2>1. /\ new.param = s
          /\ asked[s] = [account |-> new.account, key |-> new.key]
      BY <1>1, HandlersObject DEF ReqShare, ShareOf
    <2>2. pending' = Broadcast(new) /\ asked' = asked
      BY <1>1 DEF ReqShare
    <2>3. ASSUME NEW c \in Conn, NEW i \in 1 .. Len(pending'[c])
          PROVE  asked[pending'[c][i].param] =
                   [account |-> pending'[c][i].account, key |-> pending'[c][i].key]
      <3> HIDE DEF new
      <3>1. CASE c \in ServerList
        <4>1. pending'[c] = Append(pending[c], new) /\ pending[c] \in Seq(Share)
          BY <2>2, <3>1 DEF Broadcast, TypeOK
        <4>2. CASE i = Len(pending[c]) + 1
          BY <2>1, <4>1, <4>2
        <4>3. CASE i # Len(pending[c]) + 1
          <5>1. i \in 1 .. Len(pending[c]) /\ pending'[c][i] = pending[c][i]
            BY <2>3, <4>1, <4>3
          <5> QED
            BY <5>1 DEF ShareCarriesItsRequest
        <4> QED
          BY <4>2, <4>3
      <3>2. CASE c \notin ServerList
        BY <2>2, <2>3, <3>2 DEF Broadcast, ShareCarriesItsRequest
      <3> QED
        BY <3>1, <3>2
    <2> HIDE DEF new
    <2> QED
      BY <2>2, <2>3 DEF ShareCarriesItsRequest
  <1>2. ASSUME NEW c \in Conn, CompSearch(c)
        PROVE  ShareCarriesItsRequest'
    <2>1. /\ pending[c] \in Seq(Share) /\ pending[c] # <<>>
          /\ pending' = [pending EXCEPT ![c] = Tail(@)]
          /\ asked' = asked
      BY <1>2 DEF CompSearch, TypeOK, clientVars
    <2>2. ASSUME NEW d \in Conn, NEW i \in 1 .. Len(pending'[d])
          PROVE  \E j \in 1 .. Len(pending[d]) : pending'[d][i] = pending[d][j]
      <3>1. CASE d = c
        <4>1. pending'[c] = Tail(pending[c])
          BY <2>1 DEF TypeOK
        <4>2. /\ Len(Tail(pending[c])) = Len(pending[c]) - 1
              /\ \A j \in 1 .. Len(pending[c]) - 1 : Tail(pending[c])[j] = pending[c][j + 1]
              /\ Len(pending[c]) \in Nat
          BY <2>1
        <4>3. i \in 1 .. Len(pending[c]) - 1
          BY <2>2, <3>1, <4>1, <4>2
        <4>4. i + 1 \in 1 .. Len(pending[c]) /\ pending'[c][i] = pending[c][i + 1]
          BY <4>1, <4>2, <4>3
        <4> QED
          BY <3>1, <4>4
      <3>2. CASE d # c
        BY <2>1, <3>2 DEF TypeOK
      <3> QED
        BY <3>1, <3>2
    <2> QED
      BY <2>1, <2>2, NoNewShare
  <1>3. ASSUME NEW c \in Conn, LanOnClientLeave(c)
        PROVE  ShareCarriesItsRequest'
    <2>1. pending' = [pending EXCEPT ![c] = <<>>] /\ asked' = asked
      BY <1>3 DEF LanOnClientLeave, clientVars
    <2>2. ASSUME NEW d \in Conn, NEW i \in 1 .. Len(pending'[d])
          PROVE  \E j \in 1 .. Len(pending[d]) : pending'[d][i] = pending[d][j]
      <3>1. CASE d = c
        BY <2>1, <2>2, <3>1 DEF TypeOK
      <3>2. CASE d # c
        BY <2>1, <3>2 DEF TypeOK
      <3> QED
        BY <3>1, <3>2
    <2> QED
      BY <2>1, <2>2, NoNewShare
  <1>4. ASSUME UNCHANGED pending,
               \A s \in Session : asked[s] # Null => asked'[s] = asked[s]
        PROVE  ShareCarriesItsRequest'
    BY <1>4, NoNewShare
  <1>5. ASSUME NEW s \in Session, NEW a \in Account, NEW k \in Key, ReqLogin(s, a, k)
        PROVE  ShareCarriesItsRequest'
    BY <1>4, <1>5 DEF ReqLogin, lanVars, TypeOK
  <1>6. ASSUME NEW s \in Session,
               OnClientJoin(s) \/ OnClientLeave(s) \/ OnSend(s)
               \/ ReqFlag(s) \/ ReqReadDB(s) \/ ReqRefuse(s)
        PROVE  ShareCarriesItsRequest'
    BY <1>4, <1>6 DEF OnClientJoin, OnClientLeave, OnSend, ReqFlag, ReqReadDB, ReqRefuse,
                      lanVars
  <1>7. ASSUME NEW c \in Conn,
               \/ LanOnClientJoin(c)
               \/ \E t \in {"CHAT", "GAME"} : proc_PACKET_SS_LOGINSERVER_LOGIN(c, t)
               \/ CompCheck(c) \/ CompStatus(c) \/ CompSend(c)
        PROVE  ShareCarriesItsRequest'
    BY <1>4, <1>7 DEF LanOnClientJoin, proc_PACKET_SS_LOGINSERVER_LOGIN,
                      CompCheck, CompStatus, CompSend, clientVars
  <1>8. CASE UpdateThread_Process \/ Tick
    BY <1>4, <1>8 DEF UpdateThread_Process, Tick, lanVars, clientVars
  <1> QED
    BY <1>1, <1>2, <1>3, <1>5, <1>6, <1>7, <1>8 DEF Next, Request, Completion

-----------------------------------------------------------------------------
(* Only the leave of a chat server takes a chat server away, and it clears  *)
(* the flag.                                                                *)
LEMMA FlagStep ==
  ASSUME IInv, Next
  PROVE  ChatFlagImpliesServer'
  <1> USE DEF IInv
  <1>1. ASSUME UNCHANGED <<conn, type, bConnectChatServer>>
        PROVE  ChatFlagImpliesServer'
    BY <1>1 DEF ChatFlagImpliesServer, ChatServerIn
  <1>2. ASSUME NEW c \in Conn, LanOnClientJoin(c)
        PROVE  ChatFlagImpliesServer'
    BY <1>2 DEF LanOnClientJoin, ChatFlagImpliesServer, ChatServerIn, TypeOK
  <1>3. ASSUME NEW c \in Conn, NEW t \in {"CHAT", "GAME"},
               proc_PACKET_SS_LOGINSERVER_LOGIN(c, t)
        PROVE  ChatFlagImpliesServer'
    BY <1>3 DEF proc_PACKET_SS_LOGINSERVER_LOGIN, ChatFlagImpliesServer, ChatServerIn, TypeOK
  <1>4. ASSUME NEW c \in Conn, LanOnClientLeave(c)
        PROVE  ChatFlagImpliesServer'
    BY <1>4 DEF LanOnClientLeave, FlagAfterLeave, ChatFlagImpliesServer, ChatServerIn, TypeOK
  <1>5. ASSUME NEW s \in Session,
               \/ OnClientJoin(s) \/ OnClientLeave(s) \/ OnSend(s) \/ Request(s)
               \/ \E a \in Account, k \in Key : ReqLogin(s, a, k)
        PROVE  ChatFlagImpliesServer'
    BY <1>1, <1>5 DEF OnClientJoin, OnClientLeave, OnSend, ReqLogin, Request, ReqFlag,
                      ReqReadDB, ReqShare, ReqRefuse, lanVars
  <1>6. ASSUME NEW c \in Conn, Completion(c)
        PROVE  ChatFlagImpliesServer'
    BY <1>1, <1>6 DEF Completion, CompSearch, CompCheck, CompStatus, CompSend
  <1>7. CASE UpdateThread_Process \/ Tick
    BY <1>1, <1>7 DEF UpdateThread_Process, Tick, lanVars
  <1> QED
    BY <1>2, <1>3, <1>4, <1>5, <1>6, <1>7 DEF Next

-----------------------------------------------------------------------------
(* The invariant holds at the start, when the pool has everything.         *)
LEMMA InitIInv == Init => IInv
  <1> SUFFICES ASSUME Init
               PROVE  IInv
    OBVIOUS
  <1>1. player \in [Player -> PlayerRecord]
    <2>1. PICK old \in [Player -> Account \cup {Null}] :
            player = [p \in Player |-> [session |-> Null, account |-> old[p], key |-> Null,
                                        status |-> "NONE", tick |-> NoTick]]
      BY DEF Init
    <2>2. NoTick \in NoTick .. Timeout + 1
      BY TimeoutAssumption DEF NoTick
    <2> QED
      BY <2>1, <2>2 DEF PlayerRecord, Status
  <1>2. pending \in [Conn -> Seq(Share)]
    BY DEF Init
  <1>3. req \in [Session ->
          {Idle} \cup [at : {"flag", "db", "status", "refuse"}, player : Player]]
    BY DEF Init
  <1>4. comp \in [Conn ->
          {Quiet} \cup [at : {"check", "status", "send"}, player : Player, share : Share]]
    BY DEF Init
  <1>5. TypeOK
    BY <1>1, <1>2, <1>3, <1>4 DEF Init, TypeOK
  <1>6. PlayersMatchSessions
    BY DEF Init, PlayersMatchSessions, Alive
  <1>7. HandlerKeepsItsPlayer
    BY DEF Init, HandlerKeepsItsPlayer
  <1>8. ShareCarriesItsRequest
    BY DEF Init, ShareCarriesItsRequest
  <1>9. ChatFlagImpliesServer
    BY DEF Init, ChatFlagImpliesServer
  <1> QED
    BY <1>5, <1>6, <1>7, <1>8, <1>9 DEF IInv

(* A stuttering step changes nothing the invariant speaks of.              *)
LEMMA StutterStep ==
  ASSUME IInv, UNCHANGED vars
  PROVE  IInv'
  BY DEF vars, IInv, TypeOK, PlayersMatchSessions, HandlerKeepsItsPlayer,
         ShareCarriesItsRequest, ChatFlagImpliesServer, ChatServerIn, Alive, SearchPlayer

(* The five together are inductive and hold in every behaviour.            *)
THEOREM InductiveInvariant == Spec => []IInv
  <1>1. Init => IInv
    BY InitIInv
  <1>2. IInv /\ [Next]_vars => IInv'
    BY TypeStep, PlayersStep, HandlerStep, ShareStep, FlagStep, StutterStep DEF IInv
  <1> QED
    BY <1>1, <1>2, PTL DEF Spec

(* Every variable of the login server keeps its shape; no share is laid    *)
(* out from an object whose account was never set.                         *)
THEOREM TypeCorrect == Spec => []TypeOK
  <1>1. IInv => TypeOK
    BY DEF IInv
  <1> QED
    BY <1>1, InductiveInvariant, PTL

(* _PlayerList holds one object for each session CNetServer has, and       *)
(* _PlayerPool the others: OnClientLeave never frees another session's.    *)
THEOREM PlayersCorrect == Spec => []PlayersMatchSessions
  <1>1. IInv => PlayersMatchSessions
    BY DEF IInv
  <1> QED
    BY <1>1, InductiveInvariant, PTL

(* The st_PLAYER a login request took from SearchPlayer stays its own      *)
(* session's until its last use, though the lock was released long before. *)
THEOREM HandlerCorrect == Spec => []HandlerKeepsItsPlayer
  <1>1. IInv => HandlerKeepsItsPlayer
    BY DEF IInv
  <1> QED
    BY <1>1, InductiveInvariant, PTL

(* A share in flight carries the account and key its session asked with.   *)
THEOREM ShareCorrect == Spec => []ShareCarriesItsRequest
  <1>1. IInv => ShareCarriesItsRequest
    BY DEF IInv
  <1> QED
    BY <1>1, InductiveInvariant, PTL

(* _bConnectChatServer is never set when no chat server is logged in.      *)
THEOREM FlagCorrect == Spec => []ChatFlagImpliesServer
  <1>1. IInv => ChatFlagImpliesServer
    BY DEF IInv
  <1> QED
    BY <1>1, InductiveInvariant, PTL

=============================================================================
