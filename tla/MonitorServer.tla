----------------------------- MODULE MonitorServer -----------------------------
(***************************************************************************)
(* The monitoring server's side towards the other servers,                 *)
(* CMonitorLanServer, composed with the CMonitorClient of each of them.     *)
(* One worker handles their messages, connections come and go beside it,    *)
(* and the main thread times records out.  st_SERVER records are made by    *)
(* new and delete, and SearchServer hands out a pointer after releasing the *)
(* lock: a handler writes through it whatever has become of it.  Figures    *)
(* have no part in the control; a DATA_UPDATE here is a SERVER_ON one.      *)
(***************************************************************************)
EXTENDS Integers, Sequences, FiniteSets

CONSTANTS
  Type,           \* the kinds of server that have a flag, one process of each
  SaysOff,        \* those whose Stop sends SERVER_ON FALSE: the battle server
  Conn,           \* connections to the monitoring server
  Address,        \* where new may put an st_SERVER
  ServerTimeout,  \* en_SERVER_TIMEOUT, in units of Tick
  MaxWire,        \* messages one connection carries
  MaxFaults,      \* lost connections, stops and delays
  Null

ASSUME NullAssumption ==
  Null \notin Type \cup Conn
    \cup [session : Conn, no : Type \cup {Null}, age : 0 .. ServerTimeout + 1]
ASSUME TimeoutAssumption == ServerTimeout \in Nat
ASSUME BoundAssumption == MaxWire \in Nat /\ MaxFaults \in Nat
ASSUME SaysOffAssumption == SaysOff \subseteq Type

VARIABLES
  link,       \* each process's connection while its _bConnection is true
  conn,       \* each connection at the monitoring server: none, up, closing
  kind,       \* the process that made the connection
  wire,       \* messages sent over it and not yet received
  record,     \* the st_SERVER at each address while it is in _ServerList
  on,         \* _bOnLoginServer, _bOnGameServer, _bOnChatServer
  lan,        \* the message the worker handles, where, with which pointer
  overtaken,  \* types whose flag was set for a record that was gone by then
  faults      \* losses and delays so far, at most MaxFaults

vars == <<link, conn, kind, wire, record, on, lan, overtaken, faults>>
netVars == <<link, conn, kind, wire>>
flagVars == <<on, overtaken>>

-----------------------------------------------------------------------------
(* Data. *)

(* iServerNo is not initialised by OnClientJoin; Null stands for a number   *)
(* that is no type's.                                                       *)
No == Type \cup {Null}
Age == 0 .. ServerTimeout + 1
Server == [session : Conn, no : No, age : Age]

Message == {"login", "on", "off"}
Idle == [at |-> "idle", server |-> Null, session |-> Null, msg |-> Null]

InList(p) == record[p] # Null
OfSession(c) == {p \in Address : InList(p) /\ record[p].session = c}

MutDisconnected(cs) == conn

(* DisconnectSession: the leave follows. *)
Disconnected(cs) ==
  [c \in Conn |-> IF c \in cs /\ conn[c] = "up" THEN "closing" ELSE conn[c]]

MutFlagsWithout(ps) == on

(* The flags once the records ps have been erased. *)
FlagsWithout(ps) ==
  [t \in Type |-> on[t] /\ \A p \in ps : record[p].no # t]

OvertakenWithout(ps) == {t \in overtaken : \A p \in ps : record[p].no # t}

RecordsWithout(ps) ==
  [p \in Address |-> IF p \in ps THEN Null ELSE record[p]]

-----------------------------------------------------------------------------
(* The reporting processes. *)

(* A connection is lost, a process stops, or what takes milliseconds takes   *)
(* longer than a round of a second, or than the time-out.                   *)
Fault == faults < MaxFaults /\ faults' = faults + 1

(* A process not connected tries again every second; its client sends LOGIN *)
(* before anything else.  At the monitoring server a record is made.  That  *)
(* the leave of its previous connection is still under way is a fault.      *)
OnClientJoin(t, c) ==
  /\ link[t] = Null
  /\ conn[c] = "none" /\ \A u \in Type : link[u] # c
  /\ link' = [link EXCEPT ![t] = c]
  /\ conn' = [conn EXCEPT ![c] = "up"]
  /\ kind' = [kind EXCEPT ![c] = t]
  /\ wire' = [wire EXCEPT ![c] = <<"login">>]
  /\ \E p \in Address, n \in No :
       /\ ~InList(p)
       /\ record' = [record EXCEPT ![p] = [session |-> c, no |-> n, age |-> 0]]
  /\ IF \E d \in Conn : kind[d] = t /\ conn[d] = "closing"
     THEN Fault ELSE UNCHANGED faults
  /\ UNCHANGED <<flagVars, lan>>

CanSend(t) ==
  /\ link[t] # Null
  /\ conn[link[t]] = "up"
  /\ Len(wire[link[t]]) < MaxWire

Sent(t, msg) == [wire EXCEPT ![link[t]] = Append(@, msg)]

(* Monitoring of a connected process. *)
SendOn(t) ==
  /\ CanSend(t)
  /\ wire' = Sent(t, "on")
  /\ UNCHANGED <<link, conn, kind, record, flagVars, lan, faults>>

(* Stop of a process, which is started again later. *)
Stop(t) ==
  /\ CanSend(t) /\ Fault
  /\ wire' = IF t \in SaysOff THEN Sent(t, "off") ELSE wire
  /\ link' = [link EXCEPT ![t] = Null]
  /\ UNCHANGED <<conn, kind, record, flagVars, lan>>

(* The process is killed, or its end of the connection is lost. *)
Lose(t) ==
  /\ link[t] # Null /\ Fault
  /\ link' = [link EXCEPT ![t] = Null]
  /\ UNCHANGED <<conn, kind, wire, record, flagVars, lan>>

(* CMonitorClient::OnClientLeave, when the monitoring server hung up. *)
ClientLeave(t) ==
  /\ link[t] # Null /\ conn[link[t]] # "up"
  /\ link' = [link EXCEPT ![t] = Null]
  /\ UNCHANGED <<conn, kind, wire, record, flagVars, lan, faults>>

(* The network may tell the monitoring server that the other end is gone.   *)
HangUp(c) ==
  /\ \A t \in Type : link[t] # c
  /\ conn[c] = "up"
  /\ conn' = Disconnected({c})
  /\ UNCHANGED <<link, kind, wire, record, flagVars, lan, faults>>

-----------------------------------------------------------------------------
(* The monitoring server. *)

(* Never while a message of the same connection is handled. *)
OnClientLeave(c) ==
  /\ conn[c] = "closing" /\ lan.session # c
  /\ conn' = [conn EXCEPT ![c] = "none"]
  /\ kind' = [kind EXCEPT ![c] = Null]
  /\ wire' = [wire EXCEPT ![c] = <<>>]
  /\ record' = RecordsWithout(OfSession(c))
  /\ on' = FlagsWithout(OfSession(c))
  /\ overtaken' = OvertakenWithout(OfSession(c))
  /\ UNCHANGED <<link, lan, faults>>

(* OnRecv and SearchServer: without a record the message is dropped.        *)
OnRecv(c) ==
  /\ lan = Idle /\ conn[c] # "none" /\ wire[c] # <<>>
  /\ wire' = [wire EXCEPT ![c] = Tail(@)]
  /\ \/ /\ OfSession(c) = {}
        /\ UNCHANGED lan
     \/ \E p \in OfSession(c) :
          lan' = [at |-> IF Head(wire[c]) = "login" THEN "no" ELSE "flag",
                  server |-> p, session |-> c, msg |-> Head(wire[c])]
  /\ UNCHANGED <<link, conn, kind, record, flagVars, faults>>

(* A write through the handler's pointer; into freed memory it is lost.     *)
Written(r) ==
  IF InList(lan.server) THEN [record EXCEPT ![lan.server] = r] ELSE record

LoginWriteNo ==
  /\ lan.at = "no"
  /\ record' = Written([record[lan.server] EXCEPT !.no = kind[lan.session]])
  /\ lan' = [lan EXCEPT !.at = "test"]
  /\ UNCHANGED <<netVars, flagVars, faults>>

(* iServerNo is read again; from freed memory it may be anything.           *)
LoginTest ==
  /\ lan.at = "test"
  /\ \E n \in No :
       /\ InList(lan.server) => n = record[lan.server].no
       /\ conn' = IF n = Null THEN Disconnected({lan.session})
                  ELSE IF on[n] THEN Disconnected({lan.session}) ELSE conn
  /\ lan' = Idle
  /\ UNCHANGED <<link, kind, wire, record, flagVars, faults>>

(* The handler's record has been deleted, and perhaps its memory used again. *)
Lost == ~InList(lan.server) \/ record[lan.server].session # lan.session

DataWriteFlag ==
  LET t == kind[lan.session]
  IN  /\ lan.at = "flag"
      /\ on' = [on EXCEPT ![t] = (lan.msg = "on")]
      /\ overtaken' = IF Lost /\ lan.msg = "on" THEN overtaken \cup {t}
                      ELSE overtaken \ {t}
      /\ lan' = [lan EXCEPT !.at = "stamp"]
      /\ UNCHANGED <<netVars, record, faults>>

DataStamp ==
  /\ lan.at = "stamp"
  /\ record' = Written([record[lan.server] EXCEPT !.age = 0])
  /\ lan' = Idle
  /\ UNCHANGED <<netVars, flagVars, faults>>

MutOverdue(age) == age = ServerTimeout

Overdue(age) == age > ServerTimeout

Expired == {p \in Address : InList(p) /\ Overdue(record[p].age)}

(* The main thread, once a second. *)
ServerList_Timeout ==
  /\ record' = RecordsWithout(Expired)
  /\ on' = FlagsWithout(Expired)
  /\ overtaken' = OvertakenWithout(Expired)
  /\ conn' = Disconnected({record[p].session : p \in Expired})
  /\ UNCHANGED <<link, kind, wire, lan, faults>>

MutOlder(age) == age + 1

Older(age) == IF age <= ServerTimeout THEN age + 1 ELSE age

(* About to be overdue without being silent: the record of a connected      *)
(* process, of the message being handled or of a leave under way.           *)
Late ==
  \E p \in Address :
    /\ InList(p) /\ record[p].age = ServerTimeout
    /\ \/ record[p].session \in {link[t] : t \in Type} \cup {lan.session}
       \/ conn[record[p].session] = "closing"

(* GetTickCount64.  That what the process, the worker or the library do     *)
(* each second takes them en_SERVER_TIMEOUT is a fault.                     *)
Tick ==
  /\ record' = [p \in Address |->
       IF InList(p) THEN [record[p] EXCEPT !.age = Older(@)] ELSE Null]
  /\ IF Late THEN Fault ELSE UNCHANGED faults
  /\ UNCHANGED <<netVars, flagVars, lan>>

-----------------------------------------------------------------------------
Init ==
  /\ link = [t \in Type |-> Null]
  /\ conn = [c \in Conn |-> "none"]
  /\ kind = [c \in Conn |-> Null]
  /\ wire = [c \in Conn |-> <<>>]
  /\ record = [p \in Address |-> Null]
  /\ on = [t \in Type |-> FALSE]
  /\ lan = Idle
  /\ overtaken = {}
  /\ faults = 0

Next ==
  \/ \E t \in Type, c \in Conn : OnClientJoin(t, c)
  \/ \E t \in Type : SendOn(t)
  \/ \E t \in Type : Stop(t)
  \/ \E t \in Type : Lose(t)
  \/ \E t \in Type : ClientLeave(t)
  \/ \E c \in Conn : HangUp(c)
  \/ \E c \in Conn : OnClientLeave(c)
  \/ \E c \in Conn : OnRecv(c)
  \/ LoginWriteNo
  \/ LoginTest
  \/ DataWriteFlag
  \/ DataStamp
  \/ ServerList_Timeout
  \/ Tick

Spec == Init /\ [][Next]_vars

(* Every process's and the monitoring server's main thread go round each    *)
(* second, the library reports leaves, its worker serves every connection   *)
(* (messages wait in one queue), and time passes.                           *)
Fairness ==
  /\ \A t \in Type :
       /\ WF_vars(\E c \in Conn : OnClientJoin(t, c))
       /\ SF_vars(SendOn(t))
       /\ WF_vars(ClientLeave(t))
  /\ \A c \in Conn : SF_vars(OnClientLeave(c)) /\ SF_vars(OnRecv(c))
  /\ WF_vars(LoginWriteNo) /\ WF_vars(LoginTest)
  /\ WF_vars(DataWriteFlag) /\ WF_vars(DataStamp)
  /\ WF_vars(ServerList_Timeout)
  /\ WF_vars(Tick)

FairSpec == Spec /\ Fairness

-----------------------------------------------------------------------------
(* What must hold. *)

(* Every variable keeps the shape the code's declarations give it. *)
TypeOK ==
  /\ link \in [Type -> Conn \cup {Null}]
  /\ conn \in [Conn -> {"none", "up", "closing"}]
  /\ kind \in [Conn -> Type \cup {Null}]
  /\ wire \in [Conn -> Seq(Message)]
  /\ record \in [Address -> Server \cup {Null}]
  /\ on \in [Type -> BOOLEAN]
  /\ lan \in {Idle} \cup [at : {"no", "test", "flag", "stamp"}, server : Address,
                          session : Conn, msg : Message]
  /\ overtaken \in SUBSET Type
  /\ faults \in 0 .. MaxFaults

(* A connection that has not been hung up has exactly one record, and a      *)
(* record has a connection whose leave is still to come: none is left behind *)
(* to keep a flag on, although a time-out and a leave may both erase it.      *)
RecordsMatchConnections ==
  /\ \A c \in Conn : conn[c] = "up" => OfSession(c) # {}
  /\ \A p, q \in Address :
       InList(p) /\ InList(q) /\ record[p].session = record[q].session => p = q
  /\ \A p \in Address : InList(p) => conn[record[p].session] # "none"

(* A server is shown only while a record bears its number.  One way round    *)
(* that is left, and exactly one: SERVER_ON arrived when its record was       *)
(* overdue, and ServerList_Timeout ran between SearchServer and the write.    *)
FlagImpliesServer ==
  \A t \in Type :
    on[t] => t \in overtaken \/ \E p \in Address : InList(p) /\ record[p].no = t

(* A server not heard of for en_SERVER_TIMEOUT is cut, unless it is heard of *)
(* just before.                                                             *)
SilentServerIsCut ==
  \A c \in Conn :
    (\E p \in OfSession(c) : record[p].age > ServerTimeout)
      ~> ~ \E p \in OfSession(c) : record[p].age > ServerTimeout

(* Once connections hold, every server comes to be connected and shown for   *)
(* good: half-open connections, refused logins and flags left on by a race    *)
(* do not keep it away.                                                     *)
ServerIsShownInTheEnd == \A t \in Type : <>[](link[t] # Null /\ on[t])

=============================================================================
