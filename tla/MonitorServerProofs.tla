-------------------------- MODULE MonitorServerProofs --------------------------
(***************************************************************************)
(* Safety of MonitorServer for every number of servers, connections and    *)
(* addresses and every time-out.                                           *)
(*                                                                         *)
(* FlagImpliesServer is not inductive: a handler whose record was deleted   *)
(* may write its number into the record that took the memory.  It can only *)
(* hit a connection that joined meanwhile, whose LOGIN therefore still      *)
(* waits; so the server that justifies a flag is asked to be one whose      *)
(* LOGIN has been received (Shown).                                         *)
(***************************************************************************)
EXTENDS MonitorServer, TLAPS

(* LOGIN is the first message on a connection, and the only one. *)
LoginFirst(s) == \A i \in 1 .. Len(s) : s[i] = "login" => i = 1

(* LOGIN is no longer on the way. *)
Greeted(s) == s = <<>> \/ Head(s) # "login"

Wires == \A c \in Conn : LoginFirst(wire[c])

Kinds == \A c \in Conn : conn[c] # "none" => kind[c] \in Type

(* A record bears its own server's number once LOGIN has been handled. *)
Numbers ==
  \A p \in Address :
    InList(p) /\ Greeted(wire[record[p].session]) =>
      \/ record[p].no = kind[record[p].session]
      \/ lan.at = "no" /\ lan.session = record[p].session

(* The handler's pointer is that of its session's record, or of none, or of  *)
(* the record of a connection not yet heard of.                             *)
Handler ==
  lan.at # "idle" =>
    /\ conn[lan.session] # "none"
    /\ Greeted(wire[lan.session])
    /\ \A p \in Address : InList(p) /\ record[p].session = lan.session => p = lan.server
    /\ InList(lan.server) /\ record[lan.server].session # lan.session =>
         ~Greeted(wire[record[lan.server].session])

Shows(p, t) ==
  /\ InList(p) /\ record[p].no = t
  /\ kind[record[p].session] = t /\ Greeted(wire[record[p].session])

Flags ==
  \A t \in Type : on[t] => t \in overtaken \/ \E p \in Address : Shows(p, t)

IInv ==
  /\ TypeOK /\ RecordsMatchConnections
  /\ Wires /\ Kinds /\ Numbers /\ Handler /\ Flags

-----------------------------------------------------------------------------
(* Lemmas. *)

(* Receiving a message: LOGIN was it, or has been before. *)
LEMMA TailGreets ==
  ASSUME NEW s \in Seq(Message), s # <<>>, LoginFirst(s)
  PROVE  Tail(s) \in Seq(Message) /\ LoginFirst(Tail(s)) /\ Greeted(Tail(s))
  <1>1. \A i \in 1 .. Len(Tail(s)) : Tail(s)[i] = s[i + 1] /\ i + 1 \in 1 .. Len(s)
    OBVIOUS
  <1>2. \A i \in 1 .. Len(Tail(s)) : Tail(s)[i] # "login"
    BY <1>1 DEF LoginFirst
  <1>3. Tail(s) \in Seq(Message)
    OBVIOUS
  <1>4. Tail(s) # <<>> => Head(Tail(s)) = Tail(s)[1] /\ 1 \in 1 .. Len(Tail(s))
    BY <1>3
  <1> QED
    BY <1>2, <1>3, <1>4 DEF LoginFirst, Greeted

(* Sending figures after LOGIN. *)
LEMMA AppendGreets ==
  ASSUME NEW s \in Seq(Message), NEW msg \in {"on", "off"}, LoginFirst(s)
  PROVE  /\ Append(s, msg) \in Seq(Message)
         /\ LoginFirst(Append(s, msg))
         /\ Greeted(Append(s, msg)) <=> Greeted(s)
  <1>1. msg \in Message /\ msg # "login"
    BY DEF Message
  <1>2. /\ Append(s, msg) \in Seq(Message) /\ Len(Append(s, msg)) = Len(s) + 1
        /\ Append(s, msg)[Len(s) + 1] = msg
        /\ \A i \in 1 .. Len(s) : Append(s, msg)[i] = s[i]
    BY <1>1
  <1>3. LoginFirst(Append(s, msg))
    <2> SUFFICES ASSUME NEW i \in 1 .. Len(s) + 1, Append(s, msg)[i] = "login"
                 PROVE  i = 1
      BY <1>2 DEF LoginFirst
    <2>1. i # Len(s) + 1
      BY <1>1, <1>2
    <2>2. i \in 1 .. Len(s)
      BY <2>1
    <2> QED
      BY <1>2, <2>2 DEF LoginFirst
  <1>4. Append(s, msg) # <<>> /\ Head(Append(s, msg)) = Append(s, msg)[1]
    BY <1>2
  <1>5. CASE s = <<>>
    <2>1. Append(s, msg)[1] = msg
      BY <1>2, <1>5
    <2> QED
      BY <1>1, <1>2, <1>3, <1>4, <1>5, <2>1 DEF Greeted
  <1>6. CASE s # <<>>
    <2>1. Head(s) = s[1] /\ 1 \in 1 .. Len(s)
      BY <1>6
    <2> QED
      BY <1>2, <1>3, <1>4, <1>6, <2>1 DEF Greeted
  <1> QED
    BY <1>5, <1>6

(* The first message of a connection. *)
LEMMA LoginGreets ==
  /\ <<"login">> \in Seq(Message) /\ LoginFirst(<<"login">>) /\ ~Greeted(<<"login">>)
  /\ <<>> \in Seq(Message) /\ LoginFirst(<<>>)
  BY DEF LoginFirst, Greeted, Message

(* What a handler in progress holds. *)
LEMMA Holding ==
  ASSUME TypeOK, lan.at # "idle"
  PROVE  /\ lan \in [at : {"no", "test", "flag", "stamp"}, server : Address,
                     session : Conn, msg : Message]
         /\ lan.server \in Address /\ lan.session \in Conn
  BY DEF TypeOK, Idle

(* A record in the list is one. *)
LEMMA Listed ==
  ASSUME TypeOK, NEW p \in Address, InList(p)
  PROVE  /\ record[p] \in Server /\ record[p].session \in Conn
         /\ record[p].no \in No /\ record[p].age \in Age
  BY DEF TypeOK, InList, Server

(* Null is no record. *)
LEMMA RecordsAreSomething == \A r \in Server : r # Null
  BY NullAssumption DEF Server, No, Age

-----------------------------------------------------------------------------
(* Types. *)

(* Writes to a record. *)
LEMMA RecordWrites ==
  ASSUME NEW r \in Server
  PROVE  /\ \A n \in No : [r EXCEPT !.no = n] \in Server
         /\ [r EXCEPT !.age = 0] \in Server
         /\ [r EXCEPT !.age = Older(@)] \in Server
  <1>1. ServerTimeout \in Nat
    BY TimeoutAssumption
  <1>2. Older(r.age) \in Age /\ 0 \in Age
    BY <1>1, SMT DEF Older, Age, Server
  <1> QED
    BY <1>2 DEF Server

(* A connection's state after DisconnectSession. *)
LEMMA DisconnectedType ==
  ASSUME TypeOK, NEW cs
  PROVE  /\ Disconnected(cs) \in [Conn -> {"none", "up", "closing"}]
         /\ \A c \in Conn : Disconnected(cs)[c] =
              IF c \in cs /\ conn[c] = "up" THEN "closing" ELSE conn[c]
  BY DEF TypeOK, Disconnected

(* What erasing records leaves. *)
LEMMA WithoutType ==
  ASSUME TypeOK, NEW ps
  PROVE  /\ RecordsWithout(ps) \in [Address -> Server \cup {Null}]
         /\ FlagsWithout(ps) \in [Type -> BOOLEAN]
         /\ OvertakenWithout(ps) \in SUBSET Type
  <1>1. RecordsWithout(ps) \in [Address -> Server \cup {Null}]
    BY DEF TypeOK, RecordsWithout
  <1>2. \A t \in Type : (on[t] /\ \A p \in ps : record[p].no # t) \in BOOLEAN
    OBVIOUS
  <1>3. FlagsWithout(ps) \in [Type -> BOOLEAN]
    BY <1>2, Zenon DEF FlagsWithout
  <1>4. OvertakenWithout(ps) \in SUBSET Type
    BY DEF TypeOK, OvertakenWithout
  <1> QED
    BY <1>1, <1>3, <1>4

(* The initial state has the types. *)
LEMMA InitType == Init => TypeOK
  <1>1. Init => wire \in [Conn -> Seq(Message)]
    BY DEF Init
  <1>2. Init => on \in [Type -> BOOLEAN]
    BY DEF Init
  <1> QED
    BY <1>1, <1>2, BoundAssumption DEF Init, TypeOK

(* Every step keeps them. *)
LEMMA NextType == IInv /\ [Next]_vars => TypeOK'
  <1> SUFFICES ASSUME IInv, [Next]_vars
               PROVE  TypeOK'
    OBVIOUS
  <1> USE DEF IInv
  <1>0. TypeOK /\ (Fault => faults' \in 0 .. MaxFaults)
    BY BoundAssumption DEF Fault, TypeOK
  <1>1. CASE \E t \in Type, c \in Conn : OnClientJoin(t, c)
    <2>1. PICK t \in Type, c \in Conn : OnClientJoin(t, c)
      BY <1>1
    <2>2. PICK p \in Address, n \in No :
            record' = [record EXCEPT ![p] = [session |-> c, no |-> n, age |-> 0]]
      BY <2>1 DEF OnClientJoin
    <2>3. [session |-> c, no |-> n, age |-> 0] \in Server
      BY TimeoutAssumption DEF Server, Age
    <2>4. record' \in [Address -> Server \cup {Null}]
      BY <1>0, <2>2, <2>3 DEF TypeOK
    <2>5. wire' \in [Conn -> Seq(Message)]
      BY <1>0, <2>1, LoginGreets DEF OnClientJoin, TypeOK
    <2>6. faults' \in 0 .. MaxFaults
      BY <1>0, <2>1 DEF OnClientJoin, TypeOK
    <2> QED
      BY <1>0, <2>1, <2>4, <2>5, <2>6 DEF OnClientJoin, TypeOK, flagVars
  <1>2. CASE \E t \in Type : SendOn(t) \/ Stop(t)
    <2>1. PICK t \in Type : SendOn(t) \/ Stop(t)
      BY <1>2
    <2>2. link[t] \in Conn
      BY <1>0, <2>1 DEF SendOn, Stop, CanSend, TypeOK
    <2>3. \A msg \in {"on", "off"} : Sent(t, msg) \in [Conn -> Seq(Message)]
      BY <1>0, <2>2 DEF Sent, TypeOK, Message
    <2>4. wire' \in [Conn -> Seq(Message)]
      BY <1>0, <2>1, <2>3 DEF SendOn, Stop, TypeOK
    <2>5. link' \in [Type -> Conn \cup {Null}] /\ faults' \in 0 .. MaxFaults
      BY <1>0, <2>1 DEF SendOn, Stop, TypeOK
    <2> QED
      BY <1>0, <2>1, <2>4, <2>5 DEF SendOn, Stop, TypeOK, flagVars
  <1>3. CASE \E t \in Type : Lose(t) \/ ClientLeave(t)
    BY <1>0, <1>3 DEF Lose, ClientLeave, TypeOK, flagVars
  <1>4. CASE \E c \in Conn : HangUp(c)
    BY <1>0, <1>4, DisconnectedType DEF HangUp, TypeOK, flagVars
  <1>5. CASE \E c \in Conn : OnClientLeave(c)
    <2>1. PICK c \in Conn : OnClientLeave(c)
      BY <1>5
    <2>2. /\ record' \in [Address -> Server \cup {Null}]
          /\ on' \in [Type -> BOOLEAN] /\ overtaken' \in SUBSET Type
      BY <1>0, <2>1, WithoutType DEF OnClientLeave
    <2>3. wire' \in [Conn -> Seq(Message)]
      BY <1>0, <2>1, LoginGreets DEF OnClientLeave, TypeOK
    <2> QED
      BY <1>0, <2>1, <2>2, <2>3 DEF OnClientLeave, TypeOK
  <1>6. CASE \E c \in Conn : OnRecv(c)
    <2>1. PICK c \in Conn : OnRecv(c)
      BY <1>6
    <2>2. wire[c] \in Seq(Message) /\ wire[c] # <<>>
      BY <1>0, <2>1 DEF OnRecv, TypeOK
    <2>3. wire' \in [Conn -> Seq(Message)]
      BY <1>0, <2>1, <2>2 DEF OnRecv, TypeOK
    <2>4. Head(wire[c]) \in Message
      BY <2>2
    <2>5. lan' \in {Idle} \cup [at : {"no", "test", "flag", "stamp"}, server : Address,
                                session : Conn, msg : Message]
      BY <1>0, <2>1, <2>4 DEF OnRecv, TypeOK, OfSession
    <2> QED
      BY <1>0, <2>1, <2>3, <2>5 DEF OnRecv, TypeOK, flagVars
  <1>7. CASE LoginWriteNo
    <2>1. lan.server \in Address /\ lan.session \in Conn
      BY <1>0, <1>7, Holding DEF LoginWriteNo
    <2>2. record' \in [Address -> Server \cup {Null}]
      <3>1. kind[lan.session] \in No
        BY <1>0, <2>1 DEF TypeOK, No
      <3>2. InList(lan.server) =>
              [record[lan.server] EXCEPT !.no = kind[lan.session]] \in Server
        BY <1>0, <2>1, <3>1, Listed, RecordWrites
      <3> QED
        BY <1>0, <1>7, <2>1, <3>2 DEF LoginWriteNo, Written, TypeOK
    <2>3. lan' \in [at : {"test"}, server : Address, session : Conn, msg : Message]
      BY <1>0, <1>7, Holding DEF LoginWriteNo
    <2> QED
      BY <1>0, <1>7, <2>2, <2>3 DEF LoginWriteNo, TypeOK, netVars, flagVars
  <1>8. CASE LoginTest
    <2>1. conn' \in [Conn -> {"none", "up", "closing"}]
      BY <1>0, <1>8, DisconnectedType DEF LoginTest, TypeOK
    <2> QED
      BY <1>0, <1>8, <2>1 DEF LoginTest, TypeOK, flagVars
  <1>9. CASE DataWriteFlag
    <2>1. lan.session \in Conn /\ kind[lan.session] \in Type
      BY <1>0, <1>9, Holding DEF DataWriteFlag, Handler, Kinds
    <2>2. (lan.msg = "on") \in BOOLEAN
      OBVIOUS
    <2>3. on' \in [Type -> BOOLEAN]
      <3>1. on \in [Type -> BOOLEAN]
        BY <1>0 DEF TypeOK
      <3>2. on' = [on EXCEPT ![kind[lan.session]] = (lan.msg = "on")]
        BY <1>9 DEF DataWriteFlag
      <3> QED
        BY <2>1, <2>2, <3>1, <3>2, Zenon
    <2>4. overtaken' \in SUBSET Type
      BY <1>0, <1>9, <2>1 DEF DataWriteFlag, TypeOK
    <2>5. lan' \in [at : {"stamp"}, server : Address, session : Conn, msg : Message]
      BY <1>0, <1>9, Holding DEF DataWriteFlag
    <2> QED
      BY <1>0, <1>9, <2>3, <2>4, <2>5 DEF DataWriteFlag, TypeOK, netVars
  <1>10. CASE DataStamp
    <2>1. lan.server \in Address
      BY <1>0, <1>10, Holding DEF DataStamp
    <2>2. InList(lan.server) => [record[lan.server] EXCEPT !.age = 0] \in Server
      BY <1>0, <2>1, Listed, RecordWrites
    <2>3. record' \in [Address -> Server \cup {Null}]
      BY <1>0, <1>10, <2>1, <2>2 DEF DataStamp, Written, TypeOK
    <2> QED
      BY <1>0, <1>10, <2>3 DEF DataStamp, TypeOK, netVars, flagVars
  <1>11. CASE ServerList_Timeout
    BY <1>0, <1>11, WithoutType, DisconnectedType DEF ServerList_Timeout, TypeOK
  <1>12. CASE Tick
    <2>1. \A p \in Address : InList(p) => [record[p] EXCEPT !.age = Older(@)] \in Server
      BY <1>0, Listed, RecordWrites
    <2>2. record' \in [Address -> Server \cup {Null}]
      BY <1>12, <2>1 DEF Tick
    <2>3. faults' \in 0 .. MaxFaults
      BY <1>0, <1>12 DEF Tick, TypeOK
    <2> QED
      BY <1>0, <1>12, <2>2, <2>3 DEF Tick, TypeOK, netVars, flagVars
  <1>13. CASE UNCHANGED vars
    BY <1>0, <1>13 DEF vars, TypeOK
  <1> QED
    BY <1>1, <1>2, <1>3, <1>4, <1>5, <1>6, <1>7, <1>8, <1>9, <1>10, <1>11, <1>12, <1>13
       DEF Next

-----------------------------------------------------------------------------
(* Records, numbers and flags. *)

Rest == RecordsMatchConnections /\ Wires /\ Kinds /\ Numbers /\ Handler /\ Flags

(* A step that at most hangs connections up, sends figures, lets time pass   *)
(* or ends a handler.                                                       *)
LEMMA Frame ==
  ASSUME IInv,
         UNCHANGED <<kind, on, overtaken>>,
         \A p \in Address : InList(p)' <=> InList(p),
         \A p \in Address : InList(p) =>
           record'[p].session = record[p].session /\ record'[p].no = record[p].no,
         \A c \in Conn : conn'[c] = conn[c] \/ (conn[c] = "up" /\ conn'[c] = "closing"),
         \A c \in Conn : LoginFirst(wire'[c]) /\ (Greeted(wire'[c]) <=> Greeted(wire[c])),
         lan' = lan \/ (lan' = Idle /\ lan.at # "no")
  PROVE  Rest'
  <1> USE DEF IInv
  <1>1. \A p \in Address : InList(p) => record[p].session \in Conn
    BY Listed
  <1>2. \A c \in Conn : conn'[c] = "up" => conn[c] = "up"
    OBVIOUS
  <1>3. RecordsMatchConnections'
    <2>1. ASSUME NEW c \in Conn, conn'[c] = "up"
          PROVE  OfSession(c)' # {}
      <3>1. PICK p \in Address : InList(p) /\ record[p].session = c
        BY <1>2, <2>1 DEF RecordsMatchConnections, OfSession
      <3> QED
        BY <3>1 DEF OfSession
    <2>2. \A p, q \in Address :
            InList(p)' /\ InList(q)' /\ record'[p].session = record'[q].session => p = q
      BY DEF RecordsMatchConnections
    <2>3. \A p \in Address : InList(p)' => conn'[record'[p].session] # "none"
      BY <1>1 DEF RecordsMatchConnections
    <2> QED
      BY <2>1, <2>2, <2>3 DEF RecordsMatchConnections
  <1>4. Wires' /\ Kinds'
    BY DEF Wires, Kinds
  <1>5. Numbers'
    BY <1>1 DEF Numbers, Idle
  <1>6. Handler'
    <2>1. CASE lan' = lan
      <3> SUFFICES ASSUME lan.at # "idle"
                   PROVE  Handler'
        BY <2>1 DEF Handler
      <3>1. lan.server \in Address /\ lan.session \in Conn
        BY Holding
      <3>2. conn'[lan.session] # "none" /\ Greeted(wire'[lan.session])
        BY <3>1 DEF Handler
      <3>3. \A p \in Address : InList(p)' /\ record'[p].session = lan.session => p = lan.server
        BY DEF Handler
      <3>4. InList(lan.server)' /\ record'[lan.server].session # lan.session =>
              ~Greeted(wire'[record'[lan.server].session])
        BY <1>1, <2>1, <3>1 DEF Handler, InList
      <3> QED
        BY <2>1, <3>2, <3>3, <3>4 DEF Handler, InList
    <2>2. CASE lan' = Idle
      BY <2>2 DEF Handler, Idle
    <2> QED
      BY <2>1, <2>2
  <1>7. Flags'
    <2> SUFFICES ASSUME NEW t \in Type, on[t], t \notin overtaken
                 PROVE  \E p \in Address : Shows(p, t)'
      BY DEF Flags
    <2>1. PICK p \in Address : Shows(p, t)
      BY DEF Flags
    <2>2. Shows(p, t)'
      BY <1>1, <2>1 DEF Shows
    <2> QED
      BY <2>2
  <1> QED
    BY <1>3, <1>4, <1>5, <1>6, <1>7 DEF Rest

(* A new connection, whose record may take the memory of the handler's. *)
LEMMA JoinStep ==
  ASSUME IInv, NEW t \in Type, NEW c \in Conn, OnClientJoin(t, c)
  PROVE  Rest'
  <1> USE DEF IInv
  <1>1. PICK p \in Address, n \in No :
          /\ ~InList(p)
          /\ record' = [record EXCEPT ![p] = [session |-> c, no |-> n, age |-> 0]]
    BY DEF OnClientJoin
  <1>2. /\ conn[c] = "none"
        /\ conn' = [conn EXCEPT ![c] = "up"]
        /\ kind' = [kind EXCEPT ![c] = t]
        /\ wire' = [wire EXCEPT ![c] = <<"login">>]
        /\ UNCHANGED <<on, overtaken, lan>>
    BY DEF OnClientJoin, flagVars
  <1>3. /\ \A d \in Conn : conn'[d] = IF d = c THEN "up" ELSE conn[d]
        /\ \A d \in Conn : kind'[d] = IF d = c THEN t ELSE kind[d]
        /\ \A d \in Conn : wire'[d] = IF d = c THEN <<"login">> ELSE wire[d]
    BY <1>2 DEF TypeOK
  <1>4. /\ \A q \in Address : InList(q)' <=> q = p \/ InList(q)
        /\ record'[p].session = c
        /\ \A q \in Address : InList(q) => record'[q] = record[q] /\ q # p
    <2>1. [session |-> c, no |-> n, age |-> 0] \in Server
      BY TimeoutAssumption DEF Server, Age
    <2>2. [session |-> c, no |-> n, age |-> 0] # Null
      BY <2>1, RecordsAreSomething
    <2>3. \A q \in Address : record'[q] =
            IF q = p THEN [session |-> c, no |-> n, age |-> 0] ELSE record[q]
      BY <1>1 DEF TypeOK
    <2> QED
      BY <1>1, <2>2, <2>3 DEF InList
  <1>5. \A q \in Address : InList(q) => record[q].session \in Conn /\ record[q].session # c
    BY <1>2, Listed DEF RecordsMatchConnections
  <1>6. RecordsMatchConnections'
    <2>1. ASSUME NEW d \in Conn, conn'[d] = "up"
          PROVE  OfSession(d)' # {}
      <3>1. CASE d = c
        BY <1>4, <3>1 DEF OfSession
      <3>2. CASE d # c
        <4>1. PICK q \in Address : InList(q) /\ record[q].session = d
          BY <1>3, <2>1, <3>2 DEF RecordsMatchConnections, OfSession
        <4> QED
          BY <1>4, <4>1 DEF OfSession
      <3> QED
        BY <3>1, <3>2
    <2>2. \A q, r \in Address :
            InList(q)' /\ InList(r)' /\ record'[q].session = record'[r].session => q = r
      BY <1>4, <1>5 DEF RecordsMatchConnections
    <2>3. \A q \in Address : InList(q)' => conn'[record'[q].session] # "none"
      BY <1>3, <1>4, <1>5 DEF RecordsMatchConnections
    <2> QED
      BY <2>1, <2>2, <2>3 DEF RecordsMatchConnections
  <1>7. Wires' /\ Kinds'
    BY <1>3, LoginGreets DEF Wires, Kinds
  <1>8. Numbers'
    BY <1>2, <1>3, <1>4, <1>5, LoginGreets DEF Numbers
  <1>9. Handler'
    <2> SUFFICES ASSUME lan.at # "idle"
                 PROVE  Handler'
      BY <1>2 DEF Handler
    <2>1. lan.server \in Address /\ lan.session \in Conn /\ lan.session # c
      BY <1>2, Holding DEF Handler
    <2>2. conn'[lan.session] # "none" /\ Greeted(wire'[lan.session])
      BY <1>3, <2>1 DEF Handler
    <2>3. \A q \in Address : InList(q)' /\ record'[q].session = lan.session => q = lan.server
      BY <1>4, <2>1 DEF Handler
    <2>4. InList(lan.server)' /\ record'[lan.server].session # lan.session =>
            ~Greeted(wire'[record'[lan.server].session])
      <3>1. CASE lan.server = p
        BY <1>2, <1>3, <1>4, <3>1, LoginGreets
      <3>2. CASE lan.server # p
        BY <1>2, <1>3, <1>4, <1>5, <2>1, <3>2 DEF Handler, InList
      <3> QED
        BY <3>1, <3>2
    <2> QED
      BY <1>2, <2>2, <2>3, <2>4 DEF Handler, InList
  <1>10. Flags'
    <2> SUFFICES ASSUME NEW u \in Type, on[u], u \notin overtaken
                 PROVE  \E q \in Address : Shows(q, u)'
      BY <1>2 DEF Flags
    <2>1. PICK q \in Address : Shows(q, u)
      BY DEF Flags
    <2>2. Shows(q, u)'
      BY <1>3, <1>4, <1>5, <2>1 DEF Shows
    <2> QED
      BY <2>2
  <1> QED
    BY <1>6, <1>7, <1>8, <1>9, <1>10 DEF Rest

(* Erasing records ps, together with every flag one of their numbers names,  *)
(* and hanging up or ending their connections.                              *)
LEMMA EraseFrame ==
  ASSUME IInv, NEW ps \in SUBSET Address,
         record' = RecordsWithout(ps),
         on' = FlagsWithout(ps),
         overtaken' = OvertakenWithout(ps),
         lan' = lan,
         \A p \in Address \ ps : InList(p) =>
           LET c == record[p].session
           IN  conn'[c] # "none" /\ kind'[c] = kind[c] /\ wire'[c] = wire[c],
         \A c \in Conn : conn'[c] = "up" =>
           conn[c] = "up" /\ \A p \in ps : record[p].session # c,
         lan.at # "idle" => conn'[lan.session] # "none"
                            /\ wire'[lan.session] = wire[lan.session],
         Wires', Kinds'
  PROVE  Rest'
  <1> USE DEF IInv
  <1>1. \A p \in Address : record'[p] = IF p \in ps THEN Null ELSE record[p]
    BY DEF RecordsWithout
  <1>2. \A p \in Address : InList(p)' <=> InList(p) /\ p \notin ps
    BY <1>1 DEF InList
  <1>3. \A p \in Address : InList(p)' =>
          record'[p] = record[p] /\ record[p].session \in Conn
    BY <1>1, <1>2, Listed
  <1>4. \A t \in Type : on'[t] => on[t] /\ \A p \in ps : record[p].no # t
    BY DEF FlagsWithout
  <1>5. RecordsMatchConnections'
    <2>1. ASSUME NEW c \in Conn, conn'[c] = "up"
          PROVE  OfSession(c)' # {}
      <3>1. PICK p \in Address : InList(p) /\ record[p].session = c
        BY <2>1 DEF RecordsMatchConnections, OfSession
      <3>2. p \notin ps
        BY <2>1, <3>1
      <3> QED
        BY <1>2, <1>3, <3>1, <3>2 DEF OfSession
    <2>2. \A p, q \in Address :
            InList(p)' /\ InList(q)' /\ record'[p].session = record'[q].session => p = q
      BY <1>2, <1>3 DEF RecordsMatchConnections
    <2>3. \A p \in Address : InList(p)' => conn'[record'[p].session] # "none"
      BY <1>2, <1>3
    <2> QED
      BY <2>1, <2>2, <2>3 DEF RecordsMatchConnections
  <1>6. Numbers'
    BY <1>2, <1>3 DEF Numbers
  <1>7. Handler'
    <2> SUFFICES ASSUME lan.at # "idle"
                 PROVE  Handler'
      BY DEF Handler
    <2>1. lan.server \in Address /\ lan.session \in Conn
      BY Holding
    <2>2. conn'[lan.session] # "none" /\ Greeted(wire'[lan.session])
      BY DEF Handler
    <2>3. \A p \in Address : InList(p)' /\ record'[p].session = lan.session => p = lan.server
      BY <1>2, <1>3 DEF Handler
    <2>4. InList(lan.server)' /\ record'[lan.server].session # lan.session =>
            ~Greeted(wire'[record'[lan.server].session])
      BY <1>2, <1>3, <2>1 DEF Handler
    <2> QED
      BY <2>2, <2>3, <2>4 DEF Handler, InList
  <1>8. Flags'
    <2> SUFFICES ASSUME NEW t \in Type, on'[t], t \notin overtaken'
                 PROVE  \E p \in Address : Shows(p, t)'
      BY DEF Flags
    <2>1. on[t] /\ \A p \in ps : record[p].no # t
      BY <1>4
    <2>2. t \notin overtaken
      BY <2>1 DEF OvertakenWithout
    <2>3. PICK p \in Address : Shows(p, t)
      BY <2>1, <2>2 DEF Flags
    <2>4. p \notin ps
      BY <2>1, <2>3 DEF Shows
    <2>5. Shows(p, t)'
      BY <1>2, <1>3, <2>3, <2>4 DEF Shows
    <2> QED
      BY <2>5
  <1> QED
    BY <1>5, <1>6, <1>7, <1>8 DEF Rest

(* A message is taken. *)
LEMMA RecvStep ==
  ASSUME IInv, NEW c \in Conn, OnRecv(c)
  PROVE  Rest'
  <1> USE DEF IInv
  <1>1. /\ lan = Idle /\ conn[c] # "none" /\ wire[c] # <<>>
        /\ wire' = [wire EXCEPT ![c] = Tail(@)]
        /\ UNCHANGED <<conn, kind, record, on, overtaken>>
    BY DEF OnRecv, flagVars
  <1>2. wire[c] \in Seq(Message) /\ LoginFirst(wire[c])
    BY DEF TypeOK, Wires
  <1>3. LoginFirst(Tail(wire[c])) /\ Greeted(Tail(wire[c]))
    BY <1>1, <1>2, TailGreets
  <1>4. \A d \in Conn : wire'[d] = IF d = c THEN Tail(wire[c]) ELSE wire[d]
    BY <1>1 DEF TypeOK
  <1>5. \A p \in Address : InList(p) => record[p].session \in Conn
    BY Listed
  <1>6. RecordsMatchConnections' /\ Wires' /\ Kinds'
    BY <1>1, <1>3, <1>4 DEF RecordsMatchConnections, Wires, Kinds, InList, OfSession
  <1>7. Flags'
    <2> SUFFICES ASSUME NEW t \in Type, on[t], t \notin overtaken
                 PROVE  \E p \in Address : Shows(p, t)'
      BY <1>1 DEF Flags
    <2>1. PICK p \in Address : Shows(p, t)
      BY DEF Flags
    <2>2. Shows(p, t)'
      BY <1>1, <1>3, <1>4, <1>5, <2>1 DEF Shows, InList
    <2> QED
      BY <2>2
  <1>8. CASE OfSession(c) = {} /\ UNCHANGED lan
    <2>1. \A p \in Address : InList(p) => record[p].session # c
      BY <1>8 DEF OfSession
    <2>2. Numbers'
      BY <1>1, <1>4, <1>5, <1>8, <2>1 DEF Numbers, InList
    <2>3. Handler'
      BY <1>1, <1>8 DEF Handler, Idle
    <2> QED
      BY <1>6, <1>7, <2>2, <2>3 DEF Rest
  <1>9. CASE \E p \in OfSession(c) :
               lan' = [at |-> IF Head(wire[c]) = "login" THEN "no" ELSE "flag",
                       server |-> p, session |-> c, msg |-> Head(wire[c])]
    <2>1. PICK p \in OfSession(c) :
             lan' = [at |-> IF Head(wire[c]) = "login" THEN "no" ELSE "flag",
                     server |-> p, session |-> c, msg |-> Head(wire[c])]
      BY <1>9
    <2>2. p \in Address /\ InList(p) /\ record[p].session = c
      BY DEF OfSession
    <2>3. \A q \in Address : InList(q) /\ record[q].session = c => q = p
      BY <2>2 DEF RecordsMatchConnections
    <2>4. Numbers'
      <3> SUFFICES ASSUME NEW q \in Address, InList(q), Greeted(wire'[record[q].session])
                   PROVE  \/ record[q].no = kind[record[q].session]
                          \/ lan'.at = "no" /\ lan'.session = record[q].session
        BY <1>1 DEF Numbers, InList
      <3>1. CASE q = p
        <4>1. CASE Greeted(wire[c])
          BY <1>1, <2>2, <3>1, <4>1 DEF Numbers, Idle
        <4>2. CASE ~Greeted(wire[c])
          BY <2>1, <2>2, <3>1, <4>2 DEF Greeted
        <4> QED
          BY <4>1, <4>2
      <3>2. CASE q # p
        BY <1>1, <1>4, <1>5, <2>3, <3>2 DEF Numbers, Idle
      <3> QED
        BY <3>1, <3>2
    <2>5. Handler'
      BY <1>1, <1>3, <1>4, <2>1, <2>2, <2>3 DEF Handler, InList
    <2> QED
      BY <1>6, <1>7, <2>4, <2>5 DEF Rest
  <1> QED
    BY <1>8, <1>9 DEF OnRecv

(* The number is written, perhaps into the record of a connection not yet    *)
(* heard of.                                                                *)
LEMMA WriteNoStep ==
  ASSUME IInv, LoginWriteNo
  PROVE  Rest'
  <1> USE DEF IInv
  <1> DEFINE p == lan.server
             c == lan.session
  <1>1. /\ lan.at = "no" /\ p \in Address /\ c \in Conn
        /\ UNCHANGED <<conn, kind, wire, on, overtaken>>
    BY Holding DEF LoginWriteNo, netVars, flagVars
  <1>2. lan'.at = "test" /\ lan'.server = p /\ lan'.session = c
    BY <1>1, Holding DEF LoginWriteNo
  <1>3. \A q \in Address : InList(q) => record[q].session \in Conn
    BY Listed
  <1>4. /\ \A q \in Address : InList(q)' <=> InList(q)
        /\ \A q \in Address : InList(q) =>
             /\ record'[q].session = record[q].session
             /\ record'[q].no = IF q = p THEN kind[c] ELSE record[q].no
    <2>1. CASE InList(p)
      <3>1. record[p] \in Server
        BY <1>1, <2>1, Listed
      <3>2. kind[c] \in No
        BY <1>1 DEF TypeOK, No
      <3>3. [record[p] EXCEPT !.no = kind[c]] \in Server
        BY <3>1, <3>2, RecordWrites
      <3>4. /\ [record[p] EXCEPT !.no = kind[c]].session = record[p].session
            /\ [record[p] EXCEPT !.no = kind[c]].no = kind[c]
        BY <3>1 DEF Server
      <3>5. record' = [record EXCEPT ![p] = [record[p] EXCEPT !.no = kind[c]]]
        BY <2>1 DEF LoginWriteNo, Written
      <3>6. \A q \in Address : record'[q] =
              IF q = p THEN [record[p] EXCEPT !.no = kind[c]] ELSE record[q]
        BY <3>5 DEF TypeOK
      <3> HIDE DEF p, c
      <3> QED
        BY <2>1, <3>3, <3>4, <3>6, RecordsAreSomething DEF InList
    <2>2. CASE ~InList(p)
      <3>1. record' = record
        BY <2>2 DEF LoginWriteNo, Written
      <3> QED
        BY <2>2, <3>1 DEF InList
    <2> QED
      BY <2>1, <2>2
  <1>5. InList(p) => record[p].session = c \/ ~Greeted(wire[record[p].session])
    BY <1>1 DEF Handler
  <1>6. \A q \in Address : InList(q) /\ record[q].session = c => q = p
    BY <1>1 DEF Handler
  <1>7. conn[c] # "none" /\ Greeted(wire[c])
    BY <1>1 DEF Handler
  <1> HIDE DEF p, c
  <1>8. RecordsMatchConnections'
    <2>1. \A d \in Conn : OfSession(d)' = OfSession(d)
      BY <1>4 DEF OfSession
    <2> QED
      BY <1>1, <1>4, <2>1 DEF RecordsMatchConnections
  <1>9. Wires' /\ Kinds'
    BY <1>1 DEF Wires, Kinds
  <1>10. Numbers'
    <2> SUFFICES ASSUME NEW q \in Address, InList(q), Greeted(wire[record[q].session])
                 PROVE  record'[q].no = kind[record[q].session]
      BY <1>1, <1>4 DEF Numbers
    <2>1. CASE q = p
      BY <1>4, <1>5, <2>1
    <2>2. CASE q # p
      BY <1>4, <1>6, <2>2 DEF Numbers, c
    <2> QED
      BY <2>1, <2>2
  <1>11. Handler'
    BY <1>1, <1>2, <1>4, <1>5, <1>6, <1>7 DEF Handler, InList
  <1>12. Flags'
    <2> SUFFICES ASSUME NEW t \in Type, on[t], t \notin overtaken
                 PROVE  \E q \in Address : Shows(q, t)'
      BY <1>1 DEF Flags
    <2>1. PICK q \in Address : Shows(q, t)
      BY DEF Flags
    <2>2. Shows(q, t)'
      BY <1>1, <1>3, <1>4, <1>5, <2>1 DEF Shows
    <2> QED
      BY <2>2
  <1> QED
    BY <1>8, <1>9, <1>10, <1>11, <1>12 DEF Rest

(* The flag is written: for a record that is there, or overtaken. *)
LEMMA WriteFlagStep ==
  ASSUME IInv, DataWriteFlag
  PROVE  Rest'
  <1> USE DEF IInv
  <1> DEFINE p == lan.server
             c == lan.session
             t == kind[c]
  <1>1. /\ lan.at = "flag" /\ p \in Address /\ c \in Conn
        /\ UNCHANGED <<conn, kind, wire, record>>
        /\ on' = [on EXCEPT ![t] = (lan.msg = "on")]
        /\ overtaken' = IF Lost /\ lan.msg = "on" THEN overtaken \cup {t}
                        ELSE overtaken \ {t}
    BY Holding DEF DataWriteFlag, netVars
  <1>2. lan'.at = "stamp" /\ lan'.server = p /\ lan'.session = c
    BY <1>1, Holding DEF DataWriteFlag
  <1>3. RecordsMatchConnections' /\ Wires' /\ Kinds'
    BY <1>1 DEF RecordsMatchConnections, Wires, Kinds, InList, OfSession
  <1>4. Numbers'
    BY <1>1 DEF Numbers, InList
  <1>5. Handler'
    BY <1>1, <1>2 DEF Handler, InList
  <1>6. ~Lost => Shows(p, t)
    BY <1>1 DEF Lost, Shows, Handler, Numbers
  <1>7. t \in Type
    BY <1>1 DEF Handler, Kinds
  <1>8. \A q \in Address, u \in Type : Shows(q, u)' <=> Shows(q, u)
    BY <1>1 DEF Shows, InList
  <1> HIDE DEF p, c, t
  <1>9. \A u \in Type : u # t => on'[u] = on[u]
    BY <1>1 DEF TypeOK
  <1>10. on'[t] = (lan.msg = "on")
    <2>1. on \in [Type -> BOOLEAN]
      BY DEF TypeOK
    <2> QED
      BY <1>1, <1>7, <2>1, Zenon
  <1>11. Flags'
    <2> SUFFICES ASSUME NEW u \in Type, on'[u], u \notin overtaken'
                 PROVE  \E q \in Address : Shows(q, u)'
      BY DEF Flags
    <2>1. CASE u = t
      BY <1>1, <1>6, <1>8, <1>10, <2>1
    <2>2. CASE u # t
      <3>1. on[u] /\ u \notin overtaken
        BY <1>1, <1>9, <2>2
      <3> QED
        BY <1>8, <3>1 DEF Flags
    <2> QED
      BY <2>1, <2>2
  <1> QED
    BY <1>3, <1>4, <1>5, <1>11 DEF Rest

(* Every step keeps them. *)
LEMMA NextRest == IInv /\ [Next]_vars => Rest'
  <1> SUFFICES ASSUME IInv, [Next]_vars
               PROVE  Rest'
    OBVIOUS
  <1> USE DEF IInv
  <1>1. CASE \E t \in Type, c \in Conn : OnClientJoin(t, c)
    BY <1>1, JoinStep
  <1>2. CASE \E t \in Type : SendOn(t) \/ Stop(t)
    <2>1. PICK t \in Type : SendOn(t) \/ Stop(t)
      BY <1>2
    <2>2. link[t] \in Conn
      BY <2>1 DEF SendOn, Stop, CanSend, TypeOK
    <2>3. /\ \E msg \in {"on", "off"} : wire' = Sent(t, msg) \/ wire' = wire
          /\ UNCHANGED <<conn, kind, record, on, overtaken, lan>>
      BY <2>1 DEF SendOn, Stop, flagVars
    <2>4. PICK msg \in {"on", "off"} : wire' = Sent(t, msg) \/ wire' = wire
      BY <2>3
    <2>5. ASSUME NEW c \in Conn
          PROVE  LoginFirst(wire'[c]) /\ (Greeted(wire'[c]) <=> Greeted(wire[c]))
      <3>1. wire[c] \in Seq(Message) /\ LoginFirst(wire[c])
        BY DEF TypeOK, Wires
      <3>2. wire'[c] = wire[c] \/ wire'[c] = Append(wire[c], msg)
        BY <2>2, <2>4 DEF Sent, TypeOK
      <3> QED
        BY <3>1, <3>2, AppendGreets
    <2> QED
      BY <2>3, <2>5, Frame DEF InList
  <1>3. CASE (\E t \in Type : Lose(t) \/ ClientLeave(t)) \/ UNCHANGED vars
    <2>1. UNCHANGED <<conn, kind, wire, record, on, overtaken, lan>>
      BY <1>3 DEF Lose, ClientLeave, vars, flagVars
    <2> QED
      BY <2>1, Frame DEF InList, Wires
  <1>4. CASE \E c \in Conn : HangUp(c)
    BY <1>4, Frame, DisconnectedType DEF HangUp, flagVars, InList, Wires
  <1>5. CASE \E c \in Conn : OnClientLeave(c)
    <2>1. PICK c \in Conn : OnClientLeave(c)
      BY <1>5
    <2>2. /\ \A d \in Conn : conn'[d] = IF d = c THEN "none" ELSE conn[d]
          /\ \A d \in Conn : kind'[d] = IF d = c THEN Null ELSE kind[d]
          /\ \A d \in Conn : wire'[d] = IF d = c THEN <<>> ELSE wire[d]
      BY <2>1 DEF OnClientLeave, TypeOK
    <2>3. \A p \in Address \ OfSession(c) : InList(p) =>
            record[p].session \in Conn /\ record[p].session # c
      BY Listed DEF OfSession
    <2>4. OfSession(c) \in SUBSET Address /\ \A p \in OfSession(c) : record[p].session = c
      BY DEF OfSession
    <2>5. Wires' /\ Kinds'
      BY <2>2, LoginGreets DEF Wires, Kinds
    <2>6. lan.at # "idle" => lan.session \in Conn /\ lan.session # c
      BY <2>1, Holding DEF OnClientLeave
    <2>7. \A p \in Address \ OfSession(c) : InList(p) => conn[record[p].session] # "none"
      BY DEF RecordsMatchConnections
    <2>8. /\ record' = RecordsWithout(OfSession(c)) /\ on' = FlagsWithout(OfSession(c))
          /\ overtaken' = OvertakenWithout(OfSession(c)) /\ lan' = lan
      BY <2>1 DEF OnClientLeave
    <2>9. \A p \in Address \ OfSession(c) : InList(p) =>
            LET d == record[p].session
            IN  conn'[d] # "none" /\ kind'[d] = kind[d] /\ wire'[d] = wire[d]
      BY <2>2, <2>3, <2>7
    <2>10. \A d \in Conn : conn'[d] = "up" =>
             conn[d] = "up" /\ \A p \in OfSession(c) : record[p].session # d
      BY <2>2, <2>4
    <2>11. lan.at # "idle" => conn'[lan.session] # "none"
                              /\ wire'[lan.session] = wire[lan.session]
      BY <2>2, <2>6 DEF Handler
    <2> QED
      BY <2>4, <2>5, <2>8, <2>9, <2>10, <2>11, EraseFrame
  <1>6. CASE \E c \in Conn : OnRecv(c)
    BY <1>6, RecvStep
  <1>7. CASE LoginWriteNo
    BY <1>7, WriteNoStep
  <1>8. CASE LoginTest
    <2>1. \A c \in Conn : conn'[c] = conn[c] \/ (conn[c] = "up" /\ conn'[c] = "closing")
      BY <1>8, DisconnectedType DEF LoginTest
    <2>2. lan' = Idle /\ lan.at # "no"
      BY <1>8 DEF LoginTest
    <2>3. UNCHANGED <<kind, wire, record, on, overtaken>>
      BY <1>8 DEF LoginTest, flagVars
    <2> QED
      BY <2>1, <2>2, <2>3, Frame DEF InList, Wires
  <1>9. CASE DataWriteFlag
    BY <1>9, WriteFlagStep
  <1>10. CASE DataStamp
    <2>1. /\ lan.server \in Address /\ lan' = Idle /\ lan.at # "no"
          /\ UNCHANGED <<conn, kind, wire, on, overtaken>>
      BY <1>10, Holding DEF DataStamp, netVars, flagVars
    <2>2. ASSUME NEW p \in Address
          PROVE  /\ InList(p)' <=> InList(p)
                 /\ InList(p) => record'[p].session = record[p].session
                                 /\ record'[p].no = record[p].no
      <3>1. CASE p = lan.server /\ InList(p)
        <4>1. record[p] \in Server /\ [record[p] EXCEPT !.age = 0] \in Server
          BY <3>1, Listed, RecordWrites
        <4>2. record'[p] = [record[p] EXCEPT !.age = 0]
          BY <1>10, <3>1 DEF DataStamp, Written, TypeOK
        <4> QED
          BY <3>1, <4>1, <4>2, RecordsAreSomething DEF InList, Server
      <3>2. CASE ~(p = lan.server /\ InList(p))
        <4>1. record'[p] = record[p]
          BY <1>10, <3>2 DEF DataStamp, Written, TypeOK
        <4> QED
          BY <4>1 DEF InList
      <3> QED
        BY <3>1, <3>2
    <2> QED
      BY <2>1, <2>2, Frame DEF Wires
  <1>11. CASE ServerList_Timeout
    <2>1. /\ record' = RecordsWithout(Expired) /\ on' = FlagsWithout(Expired)
          /\ overtaken' = OvertakenWithout(Expired) /\ lan' = lan
          /\ UNCHANGED <<kind, wire>> /\ Expired \in SUBSET Address
      BY <1>11 DEF ServerList_Timeout, Expired
    <2>2. \A c \in Conn : conn'[c] =
            IF (\E p \in Expired : record[p].session = c) /\ conn[c] = "up"
            THEN "closing" ELSE conn[c]
      BY <1>11, DisconnectedType DEF ServerList_Timeout
    <2>3. \A c \in Conn : conn'[c] = "none" => conn[c] = "none"
      BY <2>2
    <2>4. \A p \in Address \ Expired : InList(p) => conn'[record[p].session] # "none"
      BY <2>3, Listed DEF RecordsMatchConnections
    <2>5. \A c \in Conn : conn'[c] = "up" =>
            conn[c] = "up" /\ \A p \in Expired : record[p].session # c
      BY <2>2
    <2>6. lan.at # "idle" => conn'[lan.session] # "none"
      BY <2>3, Holding DEF Handler
    <2>7. Wires' /\ Kinds'
      <3>1. wire' = wire /\ kind' = kind
        BY <2>1
      <3>2. Wires'
        BY <3>1 DEF Wires, LoginFirst
      <3>3. \A c \in Conn : conn'[c] # "none" => conn[c] # "none"
        BY <2>2
      <3>4. Kinds'
        BY <3>1, <3>3 DEF Kinds
      <3> QED
        BY <3>2, <3>4
    <2>8. \A p \in Address \ Expired : InList(p) =>
            LET c == record[p].session
            IN  conn'[c] # "none" /\ kind'[c] = kind[c] /\ wire'[c] = wire[c]
      BY <2>1, <2>4
    <2> QED
      BY <2>1, <2>5, <2>6, <2>7, <2>8, EraseFrame
  <1>12. CASE Tick
    <2>1. /\ record' = [p \in Address |->
               IF InList(p) THEN [record[p] EXCEPT !.age = Older(@)] ELSE Null]
          /\ UNCHANGED <<conn, kind, wire, on, overtaken, lan>>
      BY <1>12 DEF Tick, netVars, flagVars
    <2>2. ASSUME NEW p \in Address
          PROVE  /\ InList(p)' <=> InList(p)
                 /\ InList(p) => record'[p].session = record[p].session
                                 /\ record'[p].no = record[p].no
      <3>1. CASE InList(p)
        <4>1. record[p] \in Server /\ [record[p] EXCEPT !.age = Older(@)] \in Server
          BY <3>1, Listed, RecordWrites
        <4>2. record'[p] = [record[p] EXCEPT !.age = Older(@)]
          BY <2>1, <3>1
        <4> QED
          BY <3>1, <4>1, <4>2, RecordsAreSomething DEF InList, Server
      <3>2. CASE ~InList(p)
        BY <2>1, <3>2 DEF InList
      <3> QED
        BY <3>1, <3>2
    <2> QED
      BY <2>1, <2>2, Frame DEF Wires
  <1> QED
    BY <1>1, <1>2, <1>3, <1>4, <1>5, <1>6, <1>7, <1>8, <1>9, <1>10, <1>11, <1>12
       DEF Next

-----------------------------------------------------------------------------
(* Theorems. *)

(* Types, records, order of messages, the handler's pointer and flags are    *)
(* inductive together.                                                      *)
THEOREM InductiveInvariant == Spec => []IInv
  <1>1. Init => IInv
    <2>1. Init => RecordsMatchConnections
      BY DEF Init, RecordsMatchConnections, InList
    <2>2. Init => Wires /\ Kinds
      BY LoginGreets DEF Init, Wires, Kinds
    <2>3. Init => Numbers /\ Handler /\ Flags
      BY DEF Init, Numbers, Handler, Flags, InList, Idle
    <2> QED
      BY <2>1, <2>2, <2>3, InitType DEF IInv
  <1>2. IInv /\ [Next]_vars => IInv'
    BY NextType, NextRest DEF IInv, Rest
  <1> QED
    BY <1>1, <1>2, PTL DEF Spec

(* Every variable of the monitoring server keeps its shape. *)
THEOREM TypeCorrect == Spec => []TypeOK
  BY InductiveInvariant, PTL DEF IInv

(* Join, leave and time-out keep one record per connection, whichever of the *)
(* last two comes first.                                                    *)
THEOREM RecordsCorrect == Spec => []RecordsMatchConnections
  BY InductiveInvariant, PTL DEF IInv

(* A server is shown only while a record bears its number, or after the one  *)
(* race, although handlers write through pointers to deleted records.        *)
THEOREM FlagsCorrect == Spec => []FlagImpliesServer
  <1>1. IInv => FlagImpliesServer
    BY DEF IInv, Flags, Shows, FlagImpliesServer
  <1> QED
    BY <1>1, InductiveInvariant, PTL

=============================================================================
