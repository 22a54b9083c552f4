------------------------- MODULE LoginHandshakeProofs -------------------------
(***************************************************************************)
(* Safety of LoginHandshake, for every set of sessions, objects and        *)
(* connections, and that it is made of LoginServer and LoginShares.        *)
(***************************************************************************)
EXTENDS LoginHandshake, LoginServerProofs

Reply == [account : Account, param : Session]

Presented == [account : Account, key : Key]

HeldShare == [key : Key, age : 0 .. InfoTimeout + 1]

(* Every variable of the composition keeps its shape.                      *)
HandshakeTypeOK ==
  /\ ours \subseteq Conn /\ line \in ours \cup {Null}
  /\ wire \in Seq(Share)
  /\ answer \in [Conn -> Seq(Reply)]
  /\ shares \in [Account -> HeldShare \cup {Null}]
  /\ owed \in Share \cup {Null}
  /\ from \in [Account -> Session \cup {Null}]
  /\ admitted \in [Session -> Seq(Presented)]

(* A connection that is not up carries nothing, in neither direction.      *)
DeadLinesAreSilent ==
  /\ \A c \in Conn : c \notin ServerList => pending[c] = <<>> /\ answer[c] = <<>>
  /\ line = Null => wire = <<>> /\ owed = Null

InHand == IF owed = Null THEN 0 ELSE 1

(* What the login server still waits for on the chat server's connection is *)
(* under way back, in the chat server's hands or under way to it.           *)
LineInStep ==
  line \in ServerList =>
    LET back == Len(answer[line])
    IN  /\ Len(pending[line]) = back + InHand + Len(wire)
        /\ owed # Null => owed = pending[line][back + 1]
        /\ \A j \in 1 .. Len(wire) : wire[j] = pending[line][back + InHand + j]

(* The session has not reached the broadcast of its share.                 *)
NotYet(s) == asked[s] = Null \/ req[s] # Idle

OnWire(s) == \E i \in 1 .. Len(wire) : wire[i].param = s

HeldFor(s) == \E a \in Account : shares[a] # Null /\ from[a] = s

Unused(s) == ~OnWire(s) /\ ~HeldFor(s) /\ admitted[s] = <<>>

(* A session's share exists once: not made, on the wire, held or used.     *)
OneShareEach ==
  /\ \A s \in Session : NotYet(s) => Unused(s)
  /\ \A i, j \in 1 .. Len(wire) : wire[i].param = wire[j].param => i = j
  /\ \A s \in Session : OnWire(s) => ~HeldFor(s) /\ admitted[s] = <<>>

(* On the wire and in the map, a share names what its session asked with.  *)
SharesWereAsked ==
  /\ \A i \in 1 .. Len(wire) :
       asked[wire[i].param] = [account |-> wire[i].account, key |-> wire[i].key]
  /\ \A a \in Account : shares[a] # Null =>
       /\ from[a] \in Session
       /\ asked[from[a]] = [account |-> a, key |-> shares[a].key]
       /\ admitted[from[a]] = <<>>

(* Only connections that were made are the chat server's.                   *)
OursWereMade == \A c \in ours : conn[c] # "none"

(* What a share and its session go through, and what a connection does:    *)
(* all of it together, on top of LoginServer's own invariant.              *)
History == OneShareEach /\ SharesWereAsked /\ AdmissionWasAsked /\ AdmittedOnce

Link == DeadLinesAreSilent /\ LineInStep /\ AnswersAreInStep

HInv == HandshakeTypeOK /\ OursWereMade /\ History /\ Link

-----------------------------------------------------------------------------
(* Both components take their own steps.                                   *)

(* Every step is one of the login server's, or leaves it alone.            *)
LEMMA ServerSteps ==
  ASSUME HandshakeNext
  PROVE  Next \/ UNCHANGED vars
  <1>1. CASE \E c \in Conn : ChatConnects(c) \/ OtherConnects(c) \/ ServerLoses(c)
    BY <1>1 DEF ChatConnects, OtherConnects, ServerLoses, Next
  <1>2. CASE \E c \in Conn, t \in {"CHAT", "GAME"} : LogsIn(c, t)
    BY <1>2 DEF LogsIn, Next
  <1>3. CASE \E s \in Session : ShareGoes(s)
    BY <1>3 DEF ShareGoes, Next, Request
  <1>4. CASE \E c \in Conn : AnswerArrives(c)
    BY <1>4 DEF AnswerArrives, Next, Completion
  <1>5. CASE ServerAlone
    BY <1>5 DEF ServerAlone, Next, Request, Completion
  <1>6. CASE \/ ChatLoses \/ ShareArrives \/ ChatAnswers \/ ChatExpires \/ ChatAges
             \/ \E a \in Account, k \in Key : ChatLogin(a, k)
    BY <1>6 DEF ChatLoses, ShareArrives, ChatAnswers, ChatExpires, ChatAges, ChatLogin
  <1> QED
    BY <1>1, <1>2, <1>3, <1>4, <1>5, <1>6 DEF HandshakeNext

(* Every step is one of the login map's, or leaves it alone.               *)
LEMMA ChatSteps ==
  ASSUME HandshakeTypeOK, HandshakeNext
  PROVE  Chat!Next \/ UNCHANGED Chat!vars
  <1>1. CASE ShareArrives
    <2>1. wire \in Seq(Share) /\ wire # <<>>
      BY <1>1 DEF ShareArrives, HandshakeTypeOK
    <2>2. Head(wire) \in Share
      BY <2>1
    <2>3. Head(wire) \in Chat!Request
      BY <2>2 DEF Share, Chat!Request
    <2> QED
      BY <1>1, <2>3 DEF ShareArrives, Chat!Next
  <1>2. CASE \/ ChatAnswers \/ ChatExpires \/ ChatAges
             \/ \E a \in Account, k \in Key : ChatLogin(a, k)
    BY <1>2 DEF ChatAnswers, ChatExpires, ChatAges, ChatLogin, Chat!Next
  <1>3. CASE \/ ChatLoses \/ ServerAlone
             \/ \E c \in Conn : ChatConnects(c) \/ OtherConnects(c) \/ ServerLoses(c)
             \/ \E c \in Conn, t \in {"CHAT", "GAME"} : LogsIn(c, t)
             \/ \E s \in Session : ShareGoes(s)
             \/ \E c \in Conn : AnswerArrives(c)
    BY <1>3 DEF ChatLoses, ServerAlone, ChatConnects, OtherConnects, ServerLoses, LogsIn,
                ShareGoes, AnswerArrives, chatVars, mapVars, Chat!vars
  <1> QED
    BY <1>1, <1>2, <1>3 DEF HandshakeNext

(* The login server takes part as in its own module: what is proved of it   *)
(* there holds here, whatever the chat server does.                        *)
THEOREM HandshakeHasLoginServer == HandshakeSpec => Spec
  <1>1. HandshakeInit => Init
    BY DEF HandshakeInit
  <1>2. [HandshakeNext]_allVars => [Next]_vars
    BY ServerSteps DEF allVars
  <1> QED
    BY <1>1, <1>2, PTL DEF HandshakeSpec, Spec

(* LoginServer's invariant.                                                *)
LEMMA ServerInvariant == HandshakeSpec => []IInv
  BY HandshakeHasLoginServer, InductiveInvariant, PTL

-----------------------------------------------------------------------------
(* Sequences. *)

LEMMA Appended ==
  ASSUME NEW S, NEW q \in Seq(S), NEW e \in S
  PROVE  /\ Append(q, e) \in Seq(S)
         /\ Len(q) \in Nat /\ Len(Append(q, e)) = Len(q) + 1
         /\ Append(q, e)[Len(q) + 1] = e
         /\ \A i \in 1 .. Len(q) : Append(q, e)[i] = q[i]
  OBVIOUS

LEMMA Taken ==
  ASSUME NEW S, NEW q \in Seq(S), q # <<>>
  PROVE  /\ Head(q) = q[1] /\ Head(q) \in S
         /\ Tail(q) \in Seq(S)
         /\ Len(q) \in Nat /\ Len(q) >= 1 /\ Len(Tail(q)) = Len(q) - 1
         /\ \A i \in 1 .. Len(q) - 1 : Tail(q)[i] = q[i + 1]
  OBVIOUS

-----------------------------------------------------------------------------
(* What the login server's steps do to a request. *)

(* A request is made once and stays what it was; a session whose handler is *)
(* through has no handler again.                                           *)
LEMMA RequestsStay ==
  ASSUME IInv, Next \/ UNCHANGED vars
  PROVE  \A s \in Session : /\ asked[s] # Null => asked'[s] = asked[s]
                            /\ NotYet(s)' => NotYet(s)
  <1> SUFFICES ASSUME NEW s \in Session
               PROVE  /\ asked[s] # Null => asked'[s] = asked[s]
                      /\ NotYet(s)' => NotYet(s)
    OBVIOUS
  <1> USE DEF NotYet
  <1>1. /\ asked \in [Session -> [account : Account, key : Key] \cup {Null}]
        /\ req \in [Session ->
             {Idle} \cup [at : {"flag", "db", "status", "refuse"}, player : Player]]
    BY DEF IInv, TypeOK
  <1>2. CASE UNCHANGED <<asked, req>>
    BY <1>2
  <1>3. ASSUME NEW u \in Session, NEW a \in Account, NEW k \in Key, ReqLogin(u, a, k)
        PROVE  /\ asked[s] # Null => asked'[s] = asked[s]
               /\ NotYet(s)' => NotYet(s)
    <2>1. /\ asked[u] = Null
          /\ asked' = [asked EXCEPT ![u] = [account |-> a, key |-> k]]
          /\ \A v \in Session : v # u => req'[v] = req[v]
      BY <1>1, <1>3 DEF ReqLogin
    <2> QED
      BY <1>1, <2>1
  <1>4. ASSUME NEW u \in Session, Request(u)
        PROVE  /\ asked[s] # Null => asked'[s] = asked[s]
               /\ NotYet(s)' => NotYet(s)
    <2>1. /\ asked' = asked
          /\ req[u] # Idle
          /\ \A v \in Session : v # u => req'[v] = req[v]
      BY <1>1, <1>4 DEF Request, ReqFlag, ReqReadDB, ReqShare, ReqRefuse, Idle
    <2> QED
      BY <1>1, <2>1
  <1>5. CASE \/ \E u \in Session : OnClientJoin(u) \/ OnClientLeave(u) \/ OnSend(u)
             \/ \E c \in Conn : \/ LanOnClientJoin(c) \/ LanOnClientLeave(c)
                                \/ Completion(c)
                                \/ \E t \in {"CHAT", "GAME"} :
                                     proc_PACKET_SS_LOGINSERVER_LOGIN(c, t)
             \/ UpdateThread_Process \/ Tick
    BY <1>2, <1>5 DEF OnClientJoin, OnClientLeave, OnSend, LanOnClientJoin,
         LanOnClientLeave, Completion, CompSearch, CompCheck, CompStatus, CompSend,
         proc_PACKET_SS_LOGINSERVER_LOGIN, UpdateThread_Process, Tick, clientVars
  <1>6. CASE UNCHANGED vars
    BY <1>2, <1>6 DEF vars
  <1> QED
    BY <1>3, <1>4, <1>5, <1>6 DEF Next

(* The share a request broadcasts is its session's own, made once.         *)
LEMMA ShareMade ==
  ASSUME IInv, NEW s \in Session, ReqShare(s)
  PROVE  LET new == ShareOf(req[s].player)
         IN  /\ new \in Share /\ new.param = s
             /\ asked[s] = [account |-> new.account, key |-> new.key]
             /\ asked' = asked /\ NotYet(s) /\ ~NotYet(s)'
             /\ pending' = Broadcast(new)
             /\ conn' = conn
  <1>1. /\ req[s].player \in Player
        /\ player[req[s].player].account \in Account
        /\ player[req[s].player].key \in Key
        /\ player[req[s].player].session = s
        /\ asked[s] = [account |-> player[req[s].player].account,
                       key |-> player[req[s].player].key]
    BY HandlersObject DEF ReqShare, IInv
  <1>2. asked[s] # Null
    <2>1. asked[s] \in [account : Account \cup {Null}, key : Key \cup {Null}]
      BY <1>1
    <2> QED
      BY <2>1, NullAssumption
  <1>3. req'[s] = Idle /\ req[s] # Idle /\ asked' = asked
    BY DEF ReqShare, Idle, IInv, TypeOK
  <1> QED
    BY <1>1, <1>2, <1>3 DEF ReqShare, ShareOf, Share, NotYet

-----------------------------------------------------------------------------
(* Types. *)

(* Every step keeps every variable of the composition in its shape.        *)
LEMMA HandshakeTypeStep ==
  ASSUME IInv, HInv, HandshakeNext
  PROVE  HandshakeTypeOK'
  <1> USE DEF HInv, HandshakeTypeOK
  <1>1. ASSUME NEW c \in Conn, ChatConnects(c)
        PROVE  HandshakeTypeOK'
    BY <1>1 DEF ChatConnects, mapVars, histVars
  <1>2. CASE ChatLoses
    BY <1>2 DEF ChatLoses, mapVars, histVars
  <1>3. CASE \/ ServerAlone
             \/ \E c \in Conn : OtherConnects(c)
             \/ \E c \in Conn, t \in {"CHAT", "GAME"} : LogsIn(c, t)
    BY <1>3 DEF ServerAlone, OtherConnects, LogsIn, chatVars, linkVars, mapVars, histVars
  <1>4. ASSUME NEW c \in Conn, ServerLoses(c)
        PROVE  HandshakeTypeOK'
    BY <1>4 DEF ServerLoses, mapVars, histVars
  <1>5. ASSUME NEW s \in Session, ShareGoes(s)
        PROVE  HandshakeTypeOK'
    <2>1. wire' \in Seq(Share)
      BY <1>5, ShareMade, Appended DEF ShareGoes, Sent
    <2> QED
      BY <1>5, <2>1 DEF ShareGoes, mapVars, histVars
  <1>6. CASE ShareArrives
    <2>1. /\ Head(wire) \in Share /\ wire' \in Seq(Share)
      BY <1>6, Taken DEF ShareArrives
    <2>2. PICK age \in 0 .. InfoTimeout + 1 : Chat!Put(Head(wire), age)
      BY <1>6 DEF ShareArrives, Chat!Age
    <2>3. /\ Head(wire).account \in Account /\ Head(wire).key \in Key
          /\ Head(wire).param \in Session
      BY <2>1 DEF Share
    <2>4. shares' \in [Account -> HeldShare \cup {Null}] /\ owed' \in Share \cup {Null}
      BY <2>1, <2>2, <2>3 DEF Chat!Put, HeldShare
    <2>5. from' \in [Account -> Session \cup {Null}]
      BY <1>6, <2>3 DEF ShareArrives
    <2> QED
      BY <1>6, <2>1, <2>4, <2>5 DEF ShareArrives
  <1>7. CASE ChatAnswers
    <2>1. owed \in Share /\ told' = [account |-> owed.account, param |-> owed.param]
      BY <1>7 DEF ChatAnswers, Chat!Confirm
    <2>2. told' \in Reply
      BY <2>1 DEF Share, Reply
    <2>3. answer' \in [Conn -> Seq(Reply)]
      BY <1>7, <2>2, Appended DEF ChatAnswers
    <2> QED
      BY <1>7, <2>3 DEF ChatAnswers, Chat!Confirm, histVars
  <1>8. ASSUME NEW c \in Conn, AnswerArrives(c)
        PROVE  HandshakeTypeOK'
    <2>1. answer' \in [Conn -> Seq(Reply)]
      BY <1>8, Taken DEF AnswerArrives
    <2> QED
      BY <1>8, <2>1 DEF AnswerArrives, mapVars, histVars
  <1>9. StillFrom \in [Account -> Session \cup {Null}]
    BY DEF StillFrom
  <1>10. ASSUME NEW a \in Account, NEW k \in Key, ChatLogin(a, k)
         PROVE  HandshakeTypeOK'
    <2>1. [account |-> a, key |-> k] \in Presented
      BY DEF Presented
    <2>2. admitted' \in [Session -> Seq(Presented)]
      BY <1>10, <2>1, Appended DEF ChatLogin
    <2> QED
      BY <1>9, <1>10, <2>2 DEF ChatLogin, Chat!Take, linkVars
  <1>11. CASE ChatExpires
    BY <1>9, <1>11 DEF ChatExpires, Chat!Expire, linkVars
  <1>12. CASE ChatAges
    <2>1. ASSUME NEW a \in Account
          PROVE  shares'[a] \in HeldShare \cup {Null}
      <3>1. CASE shares[a] # Null /\ ~Chat!Overdue(a)
        <4>1. /\ shares[a].key \in Key /\ shares[a].age \in 0 .. InfoTimeout + 1
              /\ ~(shares[a].age > InfoTimeout)
          BY <3>1 DEF HeldShare, Chat!Overdue
        <4>2. shares[a].age + 1 \in 0 .. InfoTimeout + 1
          BY <4>1, InfoTimeoutAssumption
        <4>3. shares'[a] = [shares[a] EXCEPT !.age = @ + 1]
          BY <1>12, <3>1 DEF ChatAges, Chat!Grow
        <4> QED
          BY <3>1, <4>2, <4>3 DEF HeldShare
      <3>2. CASE shares[a] = Null \/ Chat!Overdue(a)
        BY <1>12, <3>2 DEF ChatAges, Chat!Grow
      <3> QED
        BY <3>1, <3>2
    <2>2. shares' \in [Account -> HeldShare \cup {Null}]
      BY <1>12, <2>1 DEF ChatAges, Chat!Grow
    <2> QED
      BY <1>12, <2>2 DEF ChatAges, Chat!Grow, linkVars, histVars
  <1> QED
    BY <1>1, <1>2, <1>3, <1>4, <1>5, <1>6, <1>7, <1>8, <1>10, <1>11, <1>12 DEF HandshakeNext

-----------------------------------------------------------------------------
(* The history of a share. *)

(* What was asked is not nothing, and stays.                               *)
LEMMA AskedStays ==
  ASSUME NEW s \in Session, NEW a \in Account, NEW k \in Key,
         asked[s] = [account |-> a, key |-> k],
         asked[s] # Null => asked'[s] = asked[s]
  PROVE  asked[s] # Null /\ asked'[s] = [account |-> a, key |-> k]
  <1>1. [account |-> a, key |-> k] \in [account : Account \cup {Null}, key : Key \cup {Null}]
    OBVIOUS
  <1> QED
    BY <1>1, NullAssumption

(* What makes History survive a step that adds to neither wire, map nor    *)
(* admissions.                                                             *)
LEMMA HistoryShrinks ==
  ASSUME HandshakeTypeOK, History,
         \A s \in Session : /\ asked[s] # Null => asked'[s] = asked[s]
                            /\ NotYet(s)' => NotYet(s),
         wire' = wire \/ wire' = <<>>,
         admitted' = admitted,
         \A a \in Account : shares'[a] # Null =>
           /\ shares[a] # Null /\ from'[a] = from[a]
           /\ shares'[a].key = shares[a].key
  PROVE  History'
  <1> USE DEF History
  <1>1. \A s \in Session : OnWire(s)' => OnWire(s)
    BY DEF OnWire
  <1>2. \A s \in Session : HeldFor(s)' => HeldFor(s)
    BY DEF HeldFor
  <1>3. OneShareEach'
    BY <1>1, <1>2 DEF OneShareEach, Unused
  <1>4. ASSUME NEW i \in 1 .. Len(wire')
        PROVE  asked'[wire'[i].param] = [account |-> wire'[i].account, key |-> wire'[i].key]
    <2>1. wire' = wire /\ i \in 1 .. Len(wire) /\ wire[i] \in Share
      BY <1>4 DEF HandshakeTypeOK
    <2>2. /\ wire[i].account \in Account /\ wire[i].key \in Key /\ wire[i].param \in Session
          /\ asked[wire[i].param] = [account |-> wire[i].account, key |-> wire[i].key]
      BY <2>1 DEF Share, SharesWereAsked
    <2> QED
      BY <2>1, <2>2, AskedStays
  <1>5. ASSUME NEW a \in Account, shares'[a] # Null
        PROVE  /\ from'[a] \in Session
               /\ asked'[from'[a]] = [account |-> a, key |-> shares'[a].key]
               /\ admitted'[from'[a]] = <<>>
    <2>1. shares[a] # Null /\ from'[a] = from[a] /\ shares'[a].key = shares[a].key
      BY <1>5
    <2>2. shares[a].key \in Key
      BY <2>1 DEF HandshakeTypeOK, HeldShare
    <2>3. /\ from[a] \in Session
          /\ asked[from[a]] = [account |-> a, key |-> shares[a].key]
          /\ admitted[from[a]] = <<>>
      BY <2>1 DEF SharesWereAsked
    <2> QED
      BY <2>1, <2>2, <2>3, AskedStays
  <1>6. SharesWereAsked'
    BY <1>4, <1>5 DEF SharesWereAsked
  <1>7. ASSUME NEW s \in Session, NEW i \in 1 .. Len(admitted[s])
        PROVE  admitted[s][i] = asked'[s]
    <2>1. admitted[s][i] = asked[s] /\ admitted[s][i] \in Presented
      BY <1>7 DEF AdmissionWasAsked, HandshakeTypeOK
    <2>2. asked[s] # Null
      <3>1. asked[s] \in [account : Account \cup {Null}, key : Key \cup {Null}]
        BY <2>1 DEF Presented
      <3> QED
        BY <3>1, NullAssumption
    <2> QED
      BY <2>1, <2>2
  <1>8. AdmissionWasAsked' /\ AdmittedOnce'
    BY <1>7 DEF AdmissionWasAsked, AdmittedOnce
  <1> QED
    BY <1>3, <1>6, <1>8

(* A new share finds its session without one.                              *)
LEMMA ShareGoesHistory ==
  ASSUME IInv, HInv, NEW s \in Session, ShareGoes(s)
  PROVE  History'
  <1> DEFINE new == ShareOf(req[s].player)
  <1>1. /\ new \in Share /\ new.param = s
        /\ asked[s] = [account |-> new.account, key |-> new.key]
        /\ asked' = asked /\ NotYet(s) /\ ~NotYet(s)'
    BY ShareMade DEF ShareGoes
  <1>2. \A t \in Session : NotYet(t)' => NotYet(t)
    BY RequestsStay DEF ShareGoes, Next, Request
  <1>3. UNCHANGED <<shares, from, admitted>> /\ wire \in Seq(Share)
    BY DEF ShareGoes, mapVars, histVars, HInv, HandshakeTypeOK
  <1>4. CASE wire' = wire
    BY <1>1, <1>2, <1>3, <1>4, HistoryShrinks DEF HInv
  <1>5. CASE wire' = Append(wire, new)
    <2> HIDE DEF new
    <2>1. /\ Len(wire) \in Nat /\ Len(wire') = Len(wire) + 1
          /\ wire'[Len(wire) + 1] = new
          /\ \A i \in 1 .. Len(wire) : wire'[i] = wire[i]
      BY <1>1, <1>3, <1>5, Appended
    <2>2. \A i \in 1 .. Len(wire') : i \in 1 .. Len(wire) \/ i = Len(wire) + 1
      BY <2>1
    <2>3. Unused(s)
      BY <1>1 DEF HInv, History, OneShareEach
    <2>4. \A i \in 1 .. Len(wire) : wire[i].param # s
      BY <2>3 DEF Unused, OnWire
    <2>5. \A t \in Session : OnWire(t)' => OnWire(t) \/ t = s
      BY <1>1, <2>1, <2>2 DEF OnWire
    <2>6. \A t \in Session : HeldFor(t)' <=> HeldFor(t)
      BY <1>3 DEF HeldFor
    <2>7. \A t \in Session : NotYet(t)' => Unused(t)'
      BY <1>1, <1>2, <1>3, <2>5, <2>6 DEF HInv, History, OneShareEach, Unused
    <2>8. \A i, j \in 1 .. Len(wire') : wire'[i].param = wire'[j].param => i = j
      BY <1>1, <2>1, <2>2, <2>4 DEF HInv, History, OneShareEach
    <2>9. \A t \in Session : OnWire(t)' => ~HeldFor(t)' /\ admitted'[t] = <<>>
      BY <1>3, <2>3, <2>5, <2>6 DEF HInv, History, OneShareEach, Unused
    <2>10. \A i \in 1 .. Len(wire') :
             asked'[wire'[i].param] = [account |-> wire'[i].account, key |-> wire'[i].key]
      BY <1>1, <2>1, <2>2 DEF HInv, History, SharesWereAsked
    <2> QED
      BY <1>1, <1>3, <2>7, <2>8, <2>9, <2>10
         DEF HInv, History, OneShareEach, SharesWereAsked, AdmissionWasAsked, AdmittedOnce
  <1> QED
    BY <1>4, <1>5 DEF ShareGoes, Sent

(* A share moves from the wire into the map and replaces an older one.     *)
LEMMA ShareArrivesHistory ==
  ASSUME HInv, ShareArrives
  PROVE  History'
  <1> DEFINE r == Head(wire)
  <1>1. /\ wire \in Seq(Share) /\ wire # <<>> /\ wire' = Tail(wire)
        /\ shares \in [Account -> HeldShare \cup {Null}]
        /\ from \in [Account -> Session \cup {Null}]
        /\ from' = [from EXCEPT ![r.account] = r.param]
        /\ UNCHANGED <<asked, req, admitted>>
    BY DEF ShareArrives, vars, HInv, HandshakeTypeOK
  <1>2. /\ r = wire[1] /\ r \in Share
        /\ Len(wire) \in Nat /\ Len(wire) >= 1 /\ Len(wire') = Len(wire) - 1
        /\ \A i \in 1 .. Len(wire) - 1 : wire'[i] = wire[i + 1]
    BY <1>1, Taken
  <1>3. PICK age \in Chat!Age : Chat!Put(r, age)
    BY DEF ShareArrives
  <1>4. shares' = [shares EXCEPT ![r.account] = [key |-> r.key, age |-> age]]
    BY <1>3 DEF Chat!Put
  <1> HIDE DEF r
  <1>5. r.account \in Account /\ r.key \in Key /\ r.param \in Session
    BY <1>2 DEF Share
  <1>6. \A i \in 1 .. Len(wire') : i + 1 \in 1 .. Len(wire) /\ wire'[i] = wire[i + 1] /\ i + 1 # 1
    BY <1>2
  <1>7. 1 \in 1 .. Len(wire)
    BY <1>2
  <1>8. OnWire(r.param) /\ ~HeldFor(r.param) /\ admitted[r.param] = <<>>
    BY <1>2, <1>5, <1>7 DEF HInv, History, OneShareEach, OnWire
  <1>9. \A t \in Session : OnWire(t)' => OnWire(t) /\ t # r.param
    BY <1>2, <1>6, <1>7 DEF HInv, History, OneShareEach, OnWire
  <1>10. \A t \in Session : HeldFor(t)' => HeldFor(t) \/ t = r.param
    BY <1>1, <1>4, <1>5 DEF HeldFor
  <1>11. \A t \in Session : NotYet(t)' => Unused(t)'
    <2>1. \A t \in Session : NotYet(t)' => NotYet(t)
      BY <1>1 DEF NotYet
    <2>2. \A t \in Session : NotYet(t) => Unused(t) /\ t # r.param
      BY <1>8 DEF HInv, History, OneShareEach, Unused
    <2> QED
      BY <1>1, <1>9, <1>10, <2>1, <2>2 DEF Unused
  <1>12. \A i, j \in 1 .. Len(wire') : wire'[i].param = wire'[j].param => i = j
    <2> SUFFICES ASSUME NEW i \in 1 .. Len(wire'), NEW j \in 1 .. Len(wire'),
                        wire'[i].param = wire'[j].param
                 PROVE  i = j
      OBVIOUS
    <2>1. i + 1 = j + 1
      BY <1>6 DEF HInv, History, OneShareEach
    <2> QED
      BY <1>2, <2>1
  <1>13. \A t \in Session : OnWire(t)' => ~HeldFor(t)' /\ admitted'[t] = <<>>
    BY <1>1, <1>9, <1>10 DEF HInv, History, OneShareEach
  <1>14. \A i \in 1 .. Len(wire') :
           asked'[wire'[i].param] = [account |-> wire'[i].account, key |-> wire'[i].key]
    BY <1>1, <1>6 DEF HInv, History, SharesWereAsked
  <1>15. asked[r.param] = [account |-> r.account, key |-> r.key]
    BY <1>2, <1>7 DEF HInv, History, SharesWereAsked
  <1>16. ASSUME NEW a \in Account, shares'[a] # Null
         PROVE  /\ from'[a] \in Session
                /\ asked'[from'[a]] = [account |-> a, key |-> shares'[a].key]
                /\ admitted'[from'[a]] = <<>>
    <2>1. CASE a = r.account
      BY <1>1, <1>4, <1>5, <1>8, <1>15, <2>1
    <2>2. CASE a # r.account
      BY <1>1, <1>4, <1>5, <1>16, <2>2 DEF HInv, History, SharesWereAsked
    <2> QED
      BY <2>1, <2>2
  <1> QED
    BY <1>1, <1>11, <1>12, <1>13, <1>14, <1>16
       DEF HInv, History, OneShareEach, SharesWereAsked, AdmissionWasAsked, AdmittedOnce

(* A share that is taken has admitted nobody before, and is gone.          *)
LEMMA ChatLoginHistory ==
  ASSUME HInv, NEW a \in Account, NEW k \in Key, ChatLogin(a, k)
  PROVE  History'
  <1> DEFINE f == from[a]
             e == [account |-> a, key |-> k]
  <1>1. /\ shares \in [Account -> HeldShare \cup {Null}]
        /\ admitted \in [Session -> Seq(Presented)]
        /\ UNCHANGED <<asked, req, wire>>
        /\ from' = StillFrom
    BY DEF ChatLogin, vars, linkVars, HInv, HandshakeTypeOK
  <1>2. /\ \A s \in Session : NotYet(s)' <=> NotYet(s)
        /\ \A s \in Session : OnWire(s)' <=> OnWire(s)
    BY <1>1 DEF NotYet, OnWire
  <1>3. CASE ~Chat!Held(a, k)
    <2>1. shares' = shares /\ admitted' = admitted
      BY <1>3 DEF ChatLogin, Chat!Take
    <2>2. \A b \in Account : shares'[b] # Null => from'[b] = from[b]
      BY <1>1 DEF StillFrom
    <2> QED
      BY <1>1, <1>2, <2>1, <2>2, HistoryShrinks DEF HInv
  <1>4. CASE Chat!Held(a, k)
    <2>1. /\ shares[a] # Null /\ shares[a].key = k
          /\ shares' = [shares EXCEPT ![a] = Null]
          /\ admitted' = [admitted EXCEPT ![f] = Append(@, e)]
      BY <1>4 DEF ChatLogin, Chat!Take, Chat!Held
    <2>2. f \in Session /\ asked[f] = e /\ admitted[f] = <<>>
      BY <2>1 DEF HInv, History, SharesWereAsked
    <2>3. HeldFor(f)
      BY <2>1 DEF HeldFor
    <2>4. /\ admitted'[f] = Append(<<>>, e)
          /\ \A s \in Session : s # f => admitted'[s] = admitted[s]
      BY <1>1, <2>1, <2>2
    <2>5. \A b \in Account : shares'[b] # Null =>
            b # a /\ shares[b] # Null /\ shares'[b] = shares[b] /\ from'[b] = from[b]
      BY <1>1, <2>1 DEF StillFrom
    <2>6. \A s \in Session : HeldFor(s)' => HeldFor(s)
      BY <2>5 DEF HeldFor
    <2>7. /\ \A s \in Session : NotYet(s) => s # f
          /\ \A s \in Session : OnWire(s) => s # f
      BY <2>2, <2>3 DEF HInv, History, OneShareEach, Unused
    <2>8. OneShareEach'
      BY <1>1, <1>2, <2>4, <2>6, <2>7 DEF HInv, History, OneShareEach, Unused
    <2>9. ASSUME NEW b \in Account, shares'[b] # Null
          PROVE  /\ from'[b] \in Session
                 /\ asked'[from'[b]] = [account |-> b, key |-> shares'[b].key]
                 /\ admitted'[from'[b]] = <<>>
      <3>1. /\ b # a /\ shares'[b] = shares[b] /\ from'[b] = from[b]
            /\ from[b] \in Session
            /\ asked[from[b]] = [account |-> b, key |-> shares[b].key]
            /\ admitted[from[b]] = <<>>
        BY <2>5, <2>9 DEF HInv, History, SharesWereAsked
      <3>2. from[b] # f
        <4>1. asked[from[b]].account = b /\ asked[f].account = a
          BY <2>2, <3>1
        <4> QED
          BY <3>1, <4>1
      <3> QED
        BY <1>1, <2>4, <3>1, <3>2
    <2>10. SharesWereAsked'
      BY <1>1, <2>9 DEF HInv, History, SharesWereAsked
    <2> HIDE DEF e
    <2>11. e \in Presented
      BY DEF e, Presented
    <2>12. Len(admitted'[f]) = 1 /\ admitted'[f][1] = e
      BY <2>4
    <2>13. \A s \in Session : \A i \in 1 .. Len(admitted'[s]) : admitted'[s][i] = asked'[s]
      <3> SUFFICES ASSUME NEW s \in Session, NEW i \in 1 .. Len(admitted'[s])
                   PROVE  admitted'[s][i] = asked'[s]
        OBVIOUS
      <3>1. CASE s = f
        <4>1. Len(admitted'[s]) = 1
          BY <2>12, <3>1
        <4>2. i = 1
          BY <4>1
        <4> QED
          BY <1>1, <2>2, <2>12, <3>1, <4>2
      <3>2. CASE s # f
        BY <1>1, <2>4, <3>2 DEF HInv, History, AdmissionWasAsked
      <3> QED
        BY <3>1, <3>2
    <2>14. ASSUME NEW s \in Session
           PROVE  Len(admitted'[s]) <= 1
      <3>1. CASE s = f
        <4>1. Len(admitted'[s]) = 1
          BY <2>12, <3>1
        <4> QED
          BY <4>1
      <3>2. CASE s # f
        BY <2>4, <3>2 DEF HInv, History, AdmittedOnce
      <3> QED
        BY <3>1, <3>2
    <2> QED
      BY <2>8, <2>10, <2>13, <2>14 DEF History, AdmissionWasAsked, AdmittedOnce
  <1> QED
    BY <1>3, <1>4

(* Whatever the step, a share admits one client at most, who knows what was *)
(* asked.                                                                  *)
LEMMA HistoryStep ==
  ASSUME IInv, HInv, HandshakeNext
  PROVE  History'
  <1>1. \A s \in Session : /\ asked[s] # Null => asked'[s] = asked[s]
                           /\ NotYet(s)' => NotYet(s)
    BY ServerSteps, RequestsStay
  <1>2. ASSUME UNCHANGED <<shares, from, admitted>>, wire' = wire \/ wire' = <<>>
        PROVE  History'
    BY <1>1, <1>2, HistoryShrinks DEF HInv
  <1>3. CASE \/ ChatLoses \/ ChatAnswers \/ ServerAlone
             \/ \E c \in Conn : \/ ChatConnects(c) \/ OtherConnects(c) \/ ServerLoses(c)
                                \/ AnswerArrives(c)
             \/ \E c \in Conn, t \in {"CHAT", "GAME"} : LogsIn(c, t)
    BY <1>2, <1>3 DEF ChatLoses, ChatAnswers, Chat!Confirm, ServerAlone, ChatConnects,
         OtherConnects, ServerLoses, AnswerArrives, LogsIn, chatVars, linkVars, mapVars,
         histVars
  <1>4. CASE ChatExpires
    <2>1. \A a \in Account : shares'[a] # Null =>
            shares[a] # Null /\ from'[a] = from[a] /\ shares'[a] = shares[a]
      BY <1>4 DEF ChatExpires, Chat!Expire, StillFrom
    <2> QED
      BY <1>1, <1>4, <2>1, HistoryShrinks DEF HInv, ChatExpires, linkVars
  <1>5. CASE ChatAges
    <2>1. ASSUME NEW a \in Account, shares'[a] # Null
          PROVE  shares[a] # Null /\ shares'[a].key = shares[a].key
      <3>1. CASE shares'[a] = shares[a]
        BY <2>1, <3>1
      <3>2. CASE shares[a] # Null /\ shares'[a] = [shares[a] EXCEPT !.age = @ + 1]
        BY <3>2 DEF HInv, HandshakeTypeOK, HeldShare
      <3> QED
        BY <1>5, <3>1, <3>2 DEF ChatAges, Chat!Grow
    <2> QED
      BY <1>1, <1>5, <2>1, HistoryShrinks DEF HInv, ChatAges, linkVars, histVars
  <1> QED
    BY <1>3, <1>4, <1>5, ShareGoesHistory, ShareArrivesHistory, ChatLoginHistory
       DEF HandshakeNext

-----------------------------------------------------------------------------
(* The connection. *)

(* What makes Link survive a step that no connection notices.              *)
LEMMA LinkStays ==
  ASSUME Link, UNCHANGED <<line, ours, wire, answer, owed, pending>>, ServerList' = ServerList
  PROVE  Link'
  BY DEF Link, DeadLinesAreSilent, LineInStep, InHand, AnswersAreInStep, Alike

(* A connection that comes up carries nothing yet.                         *)
LEMMA ConnectLink ==
  ASSUME IInv, HInv, NEW c \in Conn, ChatConnects(c) \/ OtherConnects(c)
  PROVE  Link'
  <1>1. /\ conn[c] = "none" /\ conn' = [conn EXCEPT ![c] = "up"]
        /\ UNCHANGED <<pending, wire, answer, owed>>
        /\ conn \in [Conn -> {"none", "up", "in", "gone"}]
    BY DEF ChatConnects, OtherConnects, LanOnClientJoin, chatVars, linkVars, mapVars,
           IInv, TypeOK
  <1>2. c \notin ServerList /\ ServerList' = ServerList \cup {c}
    BY <1>1 DEF ServerList
  <1>3. pending[c] = <<>> /\ answer[c] = <<>>
    BY <1>2 DEF HInv, Link, DeadLinesAreSilent
  <1>4. \/ line = Null /\ line' = c
        \/ line' = line /\ line # c
    BY <1>1, NoShareAssumption
    DEF ChatConnects, OtherConnects, chatVars, linkVars, HInv, HandshakeTypeOK, OursWereMade
  <1>5. DeadLinesAreSilent'
    BY <1>1, <1>2, <1>4, NoShareAssumption DEF HInv, Link, DeadLinesAreSilent
  <1>6. LineInStep'
    <2>1. CASE line = Null /\ line' = c
      <3>1. wire = <<>> /\ owed = Null
        BY <2>1 DEF HInv, Link, DeadLinesAreSilent
      <3> QED
        BY <1>1, <1>3, <2>1, <3>1 DEF LineInStep, InHand
    <2>2. CASE line' = line /\ line # c
      <3>1. line' \in ServerList' => line \in ServerList
        BY <1>2, <2>2
      <3> QED
        BY <1>1, <2>2, <3>1 DEF HInv, Link, LineInStep, InHand
    <2> QED
      BY <1>4, <2>1, <2>2
  <1>7. AnswersAreInStep'
    <2>1. ours' \subseteq ours \cup {c}
      BY DEF ChatConnects, OtherConnects, chatVars, linkVars
    <2> QED
      BY <1>1, <1>3, <2>1 DEF HInv, Link, AnswersAreInStep, Alike
  <1> QED
    BY <1>5, <1>6, <1>7 DEF Link

(* A connection that is lost is forgotten on the side that notices.        *)
LEMMA LossLink ==
  ASSUME IInv, HInv, ChatLoses \/ \E c \in Conn : ServerLoses(c)
  PROVE  Link'
  <1>1. CASE ChatLoses
    <2>1. /\ line' = Null /\ ours' = ours /\ wire' = <<>> /\ owed' = owed /\ owed = Null
          /\ UNCHANGED <<pending, answer>> /\ ServerList' = ServerList
      BY <1>1 DEF ChatLoses, mapVars, vars, ServerList
    <2>2. Null \notin ServerList
      BY NoShareAssumption DEF ServerList
    <2> QED
      BY <2>1, <2>2 DEF HInv, Link, DeadLinesAreSilent, LineInStep, AnswersAreInStep, Alike
  <1>2. ASSUME NEW c \in Conn, ServerLoses(c)
        PROVE  Link'
    <2>1. /\ UNCHANGED <<line, ours, wire, owed>>
          /\ pending' = [pending EXCEPT ![c] = <<>>]
          /\ answer' = [answer EXCEPT ![c] = <<>>]
          /\ conn' = [conn EXCEPT ![c] = "gone"]
      BY <1>2 DEF ServerLoses, LanOnClientLeave, mapVars
    <2>2. ServerList' = ServerList \ {c}
      BY <2>1 DEF ServerList, IInv, TypeOK
    <2>3. /\ pending'[c] = <<>> /\ answer'[c] = <<>>
          /\ \A d \in Conn : d # c => pending'[d] = pending[d] /\ answer'[d] = answer[d]
      BY <2>1 DEF IInv, TypeOK, HInv, HandshakeTypeOK
    <2>4. DeadLinesAreSilent'
      BY <2>1, <2>2, <2>3 DEF HInv, Link, DeadLinesAreSilent
    <2>5. LineInStep'
      <3> SUFFICES ASSUME line' \in ServerList'
                   PROVE  LineInStep'
        BY DEF LineInStep
      <3>1. line \in ServerList /\ line # c /\ line \in Conn
        BY <2>1, <2>2 DEF ServerList
      <3>2. pending'[line] = pending[line] /\ answer'[line] = answer[line]
        BY <2>3, <3>1
      <3> QED
        BY <2>1, <3>1, <3>2 DEF HInv, Link, LineInStep, InHand
    <2>6. AnswersAreInStep'
      <3> SUFFICES ASSUME NEW d \in ours
                   PROVE  /\ Len(answer'[d]) <= Len(pending'[d])
                          /\ \A i \in 1 .. Len(answer'[d]) : Alike(answer'[d][i], pending'[d][i])
        BY <2>1 DEF AnswersAreInStep, Alike
      <3>1. CASE d = c
        <4>1. answer'[d] = <<>> /\ pending'[d] = <<>>
          BY <2>3, <3>1
        <4> QED
          BY <4>1
      <3>2. CASE d # c
        BY <2>3, <3>2 DEF HInv, HandshakeTypeOK, Link, AnswersAreInStep, Alike
      <3> QED
        BY <3>1, <3>2
    <2> QED
      BY <2>4, <2>5, <2>6 DEF Link
  <1> QED
    BY <1>1, <1>2

(* What is broadcast is sent on the chat server's connection, if it is up.  *)
LEMMA ShareGoesLink ==
  ASSUME IInv, HInv, NEW s \in Session, ShareGoes(s)
  PROVE  Link'
  <1> DEFINE new == ShareOf(req[s].player)
  <1>1. /\ new \in Share /\ pending' = Broadcast(new) /\ ServerList' = ServerList
        /\ UNCHANGED <<line, ours, answer, owed>>
        /\ wire' = IF line \in ServerList THEN Append(wire, new) ELSE wire
    BY ShareMade DEF ShareGoes, Sent, mapVars, ServerList
  <1> HIDE DEF new
  <1>2. ASSUME NEW c \in Conn
        PROVE  /\ Len(pending[c]) \in Nat
               /\ c \in ServerList => /\ Len(pending'[c]) = Len(pending[c]) + 1
                                      /\ pending'[c][Len(pending[c]) + 1] = new
               /\ c \notin ServerList => pending'[c] = pending[c]
               /\ \A i \in 1 .. Len(pending[c]) : pending'[c][i] = pending[c][i]
    <2>1. pending[c] \in Seq(Share)
      BY DEF IInv, TypeOK
    <2>2. pending'[c] = IF c \in ServerList THEN Append(pending[c], new) ELSE pending[c]
      BY <1>1 DEF Broadcast
    <2> QED
      BY <1>1, <2>1, <2>2, Appended
  <1>3. DeadLinesAreSilent'
    <2>1. Null \notin ServerList
      BY NoShareAssumption DEF ServerList
    <2> QED
      BY <1>1, <1>2, <2>1 DEF HInv, Link, DeadLinesAreSilent
  <1>4. LineInStep'
    <2> SUFFICES ASSUME line \in ServerList
                 PROVE  LineInStep'
      BY <1>1 DEF LineInStep
    <2> DEFINE n == Len(answer[line]) + InHand
    <2>1. line \in Conn /\ answer[line] \in Seq(Reply) /\ wire \in Seq(Share)
      BY DEF ServerList, HInv, HandshakeTypeOK
    <2>2. n \in Nat /\ Len(wire) \in Nat /\ InHand' = InHand /\ Len(answer[line]) \in Nat
      <3>1. InHand \in {0, 1} /\ InHand' = InHand
        BY <1>1 DEF InHand
      <3>2. Len(wire) \in Nat /\ Len(answer[line]) \in Nat
        BY <2>1
      <3> QED
        BY <3>1, <3>2
    <2>3. /\ Len(pending[line]) = n + Len(wire)
          /\ owed # Null => owed = pending[line][Len(answer[line]) + 1] /\ n = Len(answer[line]) + 1
          /\ \A j \in 1 .. Len(wire) : wire[j] = pending[line][n + j]
      BY DEF HInv, Link, LineInStep, InHand
    <2>4. /\ Len(wire') = Len(wire) + 1
          /\ wire'[Len(wire) + 1] = new
          /\ \A j \in 1 .. Len(wire) : wire'[j] = wire[j]
      BY <1>1, <2>1, Appended
    <2>5. n' = n
      BY <1>1, <2>2
    <2> HIDE DEF n
    <2>6. Len(pending'[line]) = n + Len(wire')
      <3>1. Len(pending'[line]) = Len(pending[line]) + 1
        BY <1>2, <2>1
      <3> QED
        BY <2>2, <2>3, <2>4, <3>1
    <2>7. owed # Null => owed = pending'[line][Len(answer[line]) + 1]
      BY <1>2, <2>1, <2>2, <2>3
    <2>8. ASSUME NEW j \in 1 .. Len(wire')
          PROVE  wire'[j] = pending'[line][n + j]
      <3>1. CASE j = Len(wire) + 1
        <4>1. n + j = Len(pending[line]) + 1
          BY <2>2, <2>3, <3>1
        <4> QED
          BY <1>2, <2>1, <2>4, <3>1, <4>1
      <3>2. CASE j # Len(wire) + 1
        <4>1. j \in 1 .. Len(wire)
          BY <2>2, <2>4, <2>8, <3>2
        <4>2. n + j \in 1 .. Len(pending[line])
          BY <2>2, <2>3, <4>1
        <4> QED
          BY <1>2, <2>1, <2>3, <2>4, <4>1, <4>2
      <3> QED
        BY <3>1, <3>2
    <2> QED
      BY <1>1, <2>2, <2>6, <2>7, <2>8 DEF LineInStep, n
  <1>5. AnswersAreInStep'
    <2> SUFFICES ASSUME NEW c \in ours
                 PROVE  /\ Len(answer[c]) <= Len(pending'[c])
                        /\ \A i \in 1 .. Len(answer[c]) : Alike(answer[c][i], pending'[c][i])
      BY <1>1 DEF AnswersAreInStep, Alike
    <2>1. c \in Conn /\ answer[c] \in Seq(Reply) /\ Len(answer[c]) \in Nat
      BY DEF HInv, HandshakeTypeOK
    <2>2. /\ Len(answer[c]) <= Len(pending[c])
          /\ \A i \in 1 .. Len(answer[c]) : Alike(answer[c][i], pending[c][i])
      BY DEF HInv, Link, AnswersAreInStep
    <2>3. Len(pending[c]) <= Len(pending'[c])
      BY <1>2, <2>1
    <2>4. \A i \in 1 .. Len(answer[c]) : pending'[c][i] = pending[c][i]
      BY <1>2, <2>1, <2>2
    <2>5. Len(pending[c]) \in Nat /\ Len(pending'[c]) \in Nat
      BY <1>2, <2>1
    <2> QED
      BY <2>1, <2>2, <2>3, <2>4, <2>5
  <1> QED
    BY <1>3, <1>4, <1>5 DEF Link

(* The share in hand is the one taken off the wire.                        *)
LEMMA ShareArrivesLink ==
  ASSUME HInv, ShareArrives
  PROVE  Link'
  <1>1. /\ wire \in Seq(Share) /\ wire # <<>> /\ wire' = Tail(wire)
        /\ owed = Null /\ owed' = Head(wire)
        /\ UNCHANGED <<line, ours, answer, pending>> /\ ServerList' = ServerList
    BY DEF ShareArrives, Chat!Put, vars, ServerList, HInv, HandshakeTypeOK
  <1>2. /\ owed' = wire[1] /\ owed' \in Share
        /\ Len(wire) \in Nat /\ Len(wire) >= 1 /\ Len(wire') = Len(wire) - 1
        /\ \A i \in 1 .. Len(wire) - 1 : wire'[i] = wire[i + 1]
    BY <1>1, Taken
  <1>3. line # Null
    BY <1>1 DEF HInv, Link, DeadLinesAreSilent
  <1>4. DeadLinesAreSilent'
    BY <1>1, <1>3 DEF HInv, Link, DeadLinesAreSilent
  <1>5. owed' # Null
    BY <1>2, NullAssumption
  <1>6. LineInStep'
    <2> SUFFICES ASSUME line \in ServerList
                 PROVE  LineInStep'
      BY <1>1 DEF LineInStep
    <2> DEFINE n == Len(answer[line])
    <2>1. InHand = 0 /\ InHand' = 1
      BY <1>1, <1>5 DEF InHand
    <2>2. n \in Nat
      BY DEF ServerList, HInv, HandshakeTypeOK
    <2>3. /\ Len(pending[line]) = n + Len(wire)
          /\ \A j \in 1 .. Len(wire) : wire[j] = pending[line][n + j]
      <3>1. /\ Len(pending[line]) = n + 0 + Len(wire)
            /\ \A j \in 1 .. Len(wire) : wire[j] = pending[line][n + 0 + j]
        BY <2>1 DEF HInv, Link, LineInStep
      <3>2. n + 0 = n
        BY <2>2
      <3> QED
        BY <3>1, <3>2
    <2> HIDE DEF n
    <2>4. Len(pending[line]) = n + 1 + Len(wire')
      BY <1>2, <2>2, <2>3
    <2>5. owed' = pending[line][n + 1]
      BY <1>2, <2>3
    <2>6. ASSUME NEW j \in 1 .. Len(wire')
          PROVE  wire'[j] = pending[line][n + 1 + j]
      <3>1. j \in 1 .. Len(wire) - 1 /\ j + 1 \in 1 .. Len(wire) /\ n + (j + 1) = n + 1 + j
        BY <1>2, <2>2, <2>6
      <3> QED
        BY <1>2, <2>3, <3>1
    <2> QED
      BY <1>1, <2>1, <2>4, <2>5, <2>6 DEF LineInStep, n
  <1>7. AnswersAreInStep'
    BY <1>1 DEF HInv, Link, AnswersAreInStep, Alike
  <1> QED
    BY <1>4, <1>6, <1>7 DEF Link

(* The answer sent is the one to the share next in turn.                   *)
LEMMA ChatAnswersLink ==
  ASSUME IInv, HInv, ChatAnswers
  PROVE  Link'
  <1>1. /\ owed # Null /\ owed' = Null
        /\ told' = [account |-> owed.account, param |-> owed.param]
        /\ answer' = IF line \in ServerList
                     THEN [answer EXCEPT ![line] = Append(@, told')] ELSE answer
        /\ UNCHANGED <<line, ours, wire, pending>> /\ ServerList' = ServerList
    BY DEF ChatAnswers, Chat!Confirm, vars, ServerList
  <1>2. told' \in Reply /\ answer \in [Conn -> Seq(Reply)]
    BY <1>1 DEF HInv, HandshakeTypeOK, Share, Reply
  <1>3. InHand = 1 /\ InHand' = 0
    BY <1>1 DEF InHand
  <1>4. CASE line \notin ServerList
    BY <1>1, <1>4 DEF HInv, Link, DeadLinesAreSilent, LineInStep, AnswersAreInStep, Alike
  <1>5. CASE line \in ServerList
    <2> DEFINE n == Len(answer[line])
    <2>1. line \in Conn
      BY <1>5 DEF ServerList
    <2>2. /\ n \in Nat /\ Len(answer'[line]) = n + 1
          /\ answer'[line][n + 1] = told'
          /\ \A i \in 1 .. n : answer'[line][i] = answer[line][i]
          /\ \A c \in Conn : c # line => answer'[c] = answer[c]
      BY <1>1, <1>2, <1>5, <2>1, Appended
    <2>3. /\ Len(pending[line]) = n + 1 + Len(wire)
          /\ owed = pending[line][n + 1]
          /\ \A j \in 1 .. Len(wire) : wire[j] = pending[line][n + 1 + j]
      BY <1>1, <1>3, <1>5 DEF HInv, Link, LineInStep
    <2>4. Len(wire) \in Nat
      BY DEF HInv, HandshakeTypeOK
    <2>5. DeadLinesAreSilent'
      BY <1>1, <1>5, <2>2 DEF HInv, Link, DeadLinesAreSilent
    <2>6. LineInStep'
      <3> DEFINE m == n + 1
      <3>1. m \in Nat /\ Len(answer'[line]) = m /\ m + 0 = m
        BY <2>2
      <3>2. Len(pending[line]) = m + Len(wire)
            /\ \A j \in 1 .. Len(wire) : wire[j] = pending[line][m + j]
        BY <2>3
      <3> HIDE DEF m
      <3> QED
        BY <1>1, <1>3, <3>1, <3>2 DEF LineInStep
    <2>7. AnswersAreInStep'
      <3> SUFFICES ASSUME NEW c \in ours
                   PROVE  /\ Len(answer'[c]) <= Len(pending[c])
                          /\ \A i \in 1 .. Len(answer'[c]) : Alike(answer'[c][i], pending[c][i])
        BY <1>1 DEF AnswersAreInStep, Alike
      <3>1. /\ Len(answer[c]) <= Len(pending[c])
            /\ \A i \in 1 .. Len(answer[c]) : Alike(answer[c][i], pending[c][i])
        BY DEF HInv, Link, AnswersAreInStep
      <3>2. CASE c = line
        <4>1. Len(answer'[line]) <= Len(pending[line])
          BY <2>2, <2>3, <2>4
        <4>2. ASSUME NEW i \in 1 .. Len(answer'[line])
              PROVE  Alike(answer'[line][i], pending[line][i])
          <5>1. CASE i = n + 1
            BY <1>1, <2>2, <2>3, <5>1 DEF Alike
          <5>2. CASE i # n + 1
            <6>1. i \in 1 .. n
              BY <2>2, <4>2, <5>2
            <6> QED
              BY <2>2, <3>1, <3>2, <6>1 DEF Alike
          <5> QED
            BY <5>1, <5>2
        <4> QED
          BY <3>2, <4>1, <4>2
      <3>3. CASE c # line
        BY <2>2, <3>1, <3>3 DEF HInv, HandshakeTypeOK
      <3> QED
        BY <3>2, <3>3
    <2> QED
      BY <2>5, <2>6, <2>7 DEF Link
  <1> QED
    BY <1>4, <1>5

(* The answer handled and the share it answers leave together.             *)
LEMMA AnswerArrivesLink ==
  ASSUME IInv, HInv, NEW c \in Conn, AnswerArrives(c)
  PROVE  Link'
  <1>1. /\ pending[c] \in Seq(Share) /\ pending[c] # <<>> /\ c \in ServerList
        /\ pending' = [pending EXCEPT ![c] = Tail(@)]
        /\ UNCHANGED <<line, ours, wire, owed>> /\ ServerList' = ServerList
    BY DEF AnswerArrives, CompSearch, mapVars, ServerList, IInv, TypeOK
  <1>2. /\ Len(pending[c]) \in Nat /\ Len(pending[c]) >= 1
        /\ Len(pending'[c]) = Len(pending[c]) - 1
        /\ \A i \in 1 .. Len(pending[c]) - 1 : pending'[c][i] = pending[c][i + 1]
        /\ \A d \in Conn : d # c => pending'[d] = pending[d]
    BY <1>1, Taken DEF IInv, TypeOK
  <1>3. CASE c \notin ours
    <2>1. answer' = answer /\ line # c
      BY <1>3, NoShareAssumption DEF AnswerArrives, HInv, HandshakeTypeOK
    <2>2. DeadLinesAreSilent'
      BY <1>1, <1>2, <2>1 DEF HInv, Link, DeadLinesAreSilent
    <2>3. LineInStep'
      <3>1. line \in ServerList => pending'[line] = pending[line]
        BY <1>2, <2>1 DEF ServerList
      <3> QED
        BY <1>1, <2>1, <3>1 DEF HInv, Link, LineInStep, InHand
    <2>4. AnswersAreInStep'
      BY <1>1, <1>2, <1>3, <2>1 DEF HInv, HandshakeTypeOK, Link, AnswersAreInStep, Alike
    <2> QED
      BY <2>2, <2>3, <2>4 DEF Link
  <1>4. CASE c \in ours
    <2>1. /\ answer \in [Conn -> Seq(Reply)] /\ answer[c] # <<>>
          /\ answer' = [answer EXCEPT ![c] = Tail(@)]
      BY <1>4 DEF AnswerArrives, HInv, HandshakeTypeOK
    <2>2. /\ Len(answer[c]) \in Nat /\ Len(answer[c]) >= 1
          /\ Len(answer'[c]) = Len(answer[c]) - 1
          /\ \A i \in 1 .. Len(answer[c]) - 1 : answer'[c][i] = answer[c][i + 1]
          /\ \A d \in Conn : d # c => answer'[d] = answer[d]
      BY <2>1, Taken
    <2>3. DeadLinesAreSilent'
      BY <1>1, <1>2, <2>2 DEF HInv, Link, DeadLinesAreSilent
    <2>4. LineInStep'
      <3> SUFFICES ASSUME line \in ServerList
                   PROVE  LineInStep'
        BY <1>1 DEF LineInStep
      <3>1. line \in Conn /\ InHand' = InHand /\ InHand \in {0, 1} /\ Len(wire) \in Nat
        BY <1>1 DEF ServerList, InHand, HInv, HandshakeTypeOK
      <3>2. CASE line # c
        BY <1>1, <1>2, <2>2, <3>1, <3>2 DEF HInv, Link, LineInStep
      <3>3. CASE line = c
        <4> DEFINE n == Len(answer[c])
                   k == Len(answer'[c])
        <4>1. n \in Nat /\ n >= 1 /\ k = n - 1 /\ k \in Nat
          BY <2>2
        <4>2. /\ Len(pending[c]) = n + InHand + Len(wire)
              /\ owed # Null => owed = pending[c][n + 1] /\ InHand = 1
              /\ \A j \in 1 .. Len(wire) : wire[j] = pending[c][n + InHand + j]
          BY <3>3 DEF HInv, Link, LineInStep, InHand
        <4> HIDE DEF n, k
        <4>3. Len(pending'[c]) = k + InHand + Len(wire)
          BY <1>2, <3>1, <4>1, <4>2
        <4>4. ASSUME owed # Null
              PROVE  owed = pending'[c][k + 1]
          <5>1. k + 1 \in 1 .. Len(pending[c]) - 1 /\ (k + 1) + 1 = n + 1
            BY <1>2, <3>1, <4>1, <4>2, <4>4
          <5> QED
            BY <1>2, <4>2, <4>4, <5>1
        <4>5. ASSUME NEW j \in 1 .. Len(wire)
              PROVE  wire[j] = pending'[c][k + InHand + j]
          <5>1. /\ k + InHand + j \in 1 .. Len(pending[c]) - 1
                /\ (k + InHand + j) + 1 = n + InHand + j
            BY <1>2, <3>1, <4>1, <4>2
          <5> QED
            BY <1>2, <4>2, <5>1
        <4> QED
          BY <1>1, <3>1, <3>3, <4>3, <4>4, <4>5 DEF LineInStep, k
      <3> QED
        BY <3>2, <3>3
    <2>5. AnswersAreInStep'
      <3> SUFFICES ASSUME NEW d \in ours
                   PROVE  /\ Len(answer'[d]) <= Len(pending'[d])
                          /\ \A i \in 1 .. Len(answer'[d]) : Alike(answer'[d][i], pending'[d][i])
        BY <1>1 DEF AnswersAreInStep, Alike
      <3>1. /\ Len(answer[d]) <= Len(pending[d])
            /\ \A i \in 1 .. Len(answer[d]) : Alike(answer[d][i], pending[d][i])
        BY DEF HInv, Link, AnswersAreInStep
      <3>2. CASE d = c
        <4>1. Len(answer'[c]) <= Len(pending'[c])
          BY <1>2, <2>2, <3>1, <3>2
        <4>2. ASSUME NEW i \in 1 .. Len(answer'[c])
              PROVE  Alike(answer'[c][i], pending'[c][i])
          <5>1. /\ i \in 1 .. Len(answer[c]) - 1 /\ i \in 1 .. Len(pending[c]) - 1
                /\ i + 1 \in 1 .. Len(answer[c])
            BY <1>2, <2>2, <3>1, <3>2, <4>2
          <5> QED
            BY <1>2, <2>2, <3>1, <3>2, <5>1
        <4> QED
          BY <3>2, <4>1, <4>2
      <3>3. CASE d # c
        BY <1>2, <2>2, <3>1, <3>3 DEF HInv, HandshakeTypeOK
      <3> QED
        BY <3>2, <3>3
    <2> QED
      BY <2>3, <2>4, <2>5 DEF Link
  <1> QED
    BY <1>3, <1>4

(* Whatever the step, the two ends of a connection agree on what is due.   *)
LEMMA LinkStep ==
  ASSUME IInv, HInv, HandshakeNext
  PROVE  Link'
  <1>1. CASE ServerAlone
    <2>1. UNCHANGED <<line, ours, wire, answer, owed, pending>> /\ ServerList' = ServerList
      BY <1>1 DEF ServerAlone, chatVars, linkVars, mapVars, lanVars, ServerList,
           OnClientJoin, OnClientLeave, OnSend, ReqFlag, ReqReadDB, ReqRefuse, ReqLogin,
           CompCheck, CompStatus, CompSend, UpdateThread_Process, Tick
    <2> QED
      BY <2>1, LinkStays DEF HInv
  <1>2. ASSUME NEW c \in Conn, NEW t \in {"CHAT", "GAME"}, LogsIn(c, t)
        PROVE  Link'
    <2>1. UNCHANGED <<line, ours, wire, answer, owed, pending>>
      BY <1>2 DEF LogsIn, proc_PACKET_SS_LOGINSERVER_LOGIN, chatVars, linkVars, mapVars
    <2>2. ServerList' = ServerList
      BY <1>2 DEF LogsIn, proc_PACKET_SS_LOGINSERVER_LOGIN, ServerList, IInv, TypeOK
    <2> QED
      BY <2>1, <2>2, LinkStays DEF HInv
  <1>3. CASE \/ ChatExpires \/ ChatAges
             \/ \E a \in Account, k \in Key : ChatLogin(a, k)
    <2>1. UNCHANGED <<line, ours, wire, answer, owed, pending>> /\ ServerList' = ServerList
      BY <1>3 DEF ChatExpires, ChatAges, ChatLogin, Chat!Expire, Chat!Grow, Chat!Take,
           linkVars, vars, ServerList
    <2> QED
      BY <2>1, LinkStays DEF HInv
  <1> QED
    BY <1>1, <1>2, <1>3, ConnectLink, LossLink, ShareGoesLink, ShareArrivesLink,
       ChatAnswersLink, AnswerArrivesLink DEF HandshakeNext

(* No connection is made twice.                                             *)
LEMMA OursStep ==
  ASSUME IInv, HInv, HandshakeNext
  PROVE  OursWereMade'
  <1> USE DEF HInv, HandshakeTypeOK, OursWereMade
  <1>1. ASSUME NEW c \in Conn, ChatConnects(c)
        PROVE  OursWereMade'
    BY <1>1 DEF ChatConnects, LanOnClientJoin, IInv, TypeOK
  <1>2. ASSUME NEW c \in Conn, OtherConnects(c) \/ ServerLoses(c)
        PROVE  OursWereMade'
    BY <1>2 DEF OtherConnects, ServerLoses, LanOnClientJoin, LanOnClientLeave, chatVars,
                linkVars, IInv, TypeOK
  <1>3. ASSUME NEW c \in Conn, NEW t \in {"CHAT", "GAME"}, LogsIn(c, t)
        PROVE  OursWereMade'
    BY <1>3 DEF LogsIn, proc_PACKET_SS_LOGINSERVER_LOGIN, chatVars, linkVars, IInv, TypeOK
  <1>4. ASSUME \/ ServerAlone
               \/ \E s \in Session : ShareGoes(s)
               \/ \E c \in Conn : AnswerArrives(c)
        PROVE  UNCHANGED <<ours, conn>>
    BY <1>4 DEF ServerAlone, ShareGoes, ReqShare, AnswerArrives, CompSearch, chatVars,
           linkVars, lanVars, OnClientJoin, OnClientLeave, OnSend, ReqFlag, ReqReadDB,
           ReqRefuse, ReqLogin, CompCheck, CompStatus, CompSend, UpdateThread_Process, Tick
  <1>5. ASSUME \/ ChatLoses \/ ShareArrives \/ ChatAnswers \/ ChatExpires \/ ChatAges
               \/ \E a \in Account, k \in Key : ChatLogin(a, k)
        PROVE  UNCHANGED <<ours, conn>>
    BY <1>5 DEF ChatLoses, ShareArrives, ChatAnswers, ChatExpires, ChatAges, ChatLogin,
           linkVars, vars
  <1> QED
    BY <1>1, <1>2, <1>3, <1>4, <1>5 DEF HandshakeNext

-----------------------------------------------------------------------------
(* Theorems. *)

LEMMA InitHInv == HandshakeInit => HInv
  <1> SUFFICES ASSUME HandshakeInit
               PROVE  HInv
    OBVIOUS
  <1>1. HandshakeTypeOK
    BY DEF HandshakeInit, HandshakeTypeOK, Chat!Init
  <1>2. OneShareEach
    BY DEF HandshakeInit, Chat!Init, OneShareEach, Unused, OnWire, HeldFor
  <1>3. SharesWereAsked /\ AdmissionWasAsked /\ AdmittedOnce
    BY DEF HandshakeInit, Chat!Init, SharesWereAsked, AdmissionWasAsked, AdmittedOnce
  <1>4. line \notin ServerList
    BY DEF HandshakeInit, Init, ServerList
  <1>5. DeadLinesAreSilent /\ LineInStep
    BY <1>4 DEF HandshakeInit, Init, Chat!Init, DeadLinesAreSilent, LineInStep
  <1>6. AnswersAreInStep
    <2>1. \A c \in ours : answer[c] = <<>> /\ pending[c] = <<>>
      BY DEF HandshakeInit, Init
    <2> QED
      BY <2>1 DEF AnswersAreInStep
  <1>7. OursWereMade
    BY DEF HandshakeInit, OursWereMade
  <1> QED
    BY <1>1, <1>2, <1>3, <1>5, <1>6, <1>7 DEF HInv, History, Link

(* A step in which nothing moves changes nothing the invariant speaks of.  *)
LEMMA HandshakeStutter ==
  ASSUME HInv, UNCHANGED allVars
  PROVE  HInv'
  <1> USE DEF allVars, chatVars, linkVars, mapVars, histVars, vars
  <1>1. HandshakeTypeOK'
    BY DEF HInv, HandshakeTypeOK
  <1>2. History'
    BY HistoryShrinks DEF HInv, NotYet
  <1>3. Link'
    BY LinkStays DEF HInv, ServerList
  <1>4. OursWereMade'
    BY DEF HInv, OursWereMade
  <1> QED
    BY <1>1, <1>2, <1>3, <1>4 DEF HInv

(* The life of a share and the state of the connection together are        *)
(* inductive on top of the login server's invariant.                       *)
THEOREM HandshakeInvariant == HandshakeSpec => []HInv
  <1>1. HandshakeInit => HInv
    BY InitHInv
  <1>2. IInv /\ HInv /\ [HandshakeNext]_allVars => HInv'
    BY HandshakeTypeStep, OursStep, HistoryStep, LinkStep, HandshakeStutter DEF HInv
  <1> QED
    BY <1>1, <1>2, ServerInvariant, PTL DEF HandshakeSpec

(* The login map takes part as LoginShares, which LoginClient implements.  *)
THEOREM HandshakeHasLoginShares == HandshakeSpec => Chat!Spec
  <1>1. HandshakeInit => Chat!Init
    BY DEF HandshakeInit
  <1>2. HInv /\ [HandshakeNext]_allVars => [Chat!Next]_(Chat!vars)
    BY ChatSteps DEF allVars, chatVars, mapVars, HInv, Chat!vars
  <1> QED
    BY <1>1, <1>2, HandshakeInvariant, PTL DEF HandshakeSpec, Chat!Spec

(* Whoever is let in for a share presents what its session asked with.     *)
THEOREM AdmissionsCorrect == HandshakeSpec => []AdmissionWasAsked
  <1>1. HInv => AdmissionWasAsked
    BY DEF HInv, History
  <1> QED
    BY <1>1, HandshakeInvariant, PTL

(* One login request lets at most one client in.                           *)
THEOREM AdmissionsUnique == HandshakeSpec => []AdmittedOnce
  <1>1. HInv => AdmittedOnce
    BY DEF HInv, History
  <1> QED
    BY <1>1, HandshakeInvariant, PTL

(* The answers on a connection are those to the shares sent on it.         *)
THEOREM AnswersCorrect == HandshakeSpec => []AnswersAreInStep
  <1>1. HInv => AnswersAreInStep
    BY DEF HInv, Link
  <1> QED
    BY <1>1, HandshakeInvariant, PTL

=============================================================================
