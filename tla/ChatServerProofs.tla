--------------------------- MODULE ChatServerProofs ---------------------------
(***************************************************************************)
(* Proofs about ChatServer, for any number of sessions, players, accounts  *)
(* and keys, any grid and any set of packets.                              *)
(***************************************************************************)
EXTENDS ChatServer, TLAPS, FiniteSetTheorems

-----------------------------------------------------------------------------
(* Lemmas about the helpers. *)

(* The message at the head of the queue names a session and, if it is a    *)
(* PACKET, a packet.                                                       *)
LEMMA HeadType ==
  ASSUME TypeOK, messageQ # <<>>
  PROVE  /\ Head(messageQ) \in Message
         /\ Tail(messageQ) \in Seq(Message)
         /\ Who \in Session
         /\ Head(messageQ).type = "PACKET" => What \in Packet
BY DEF TypeOK, Message, Who, What

(* A player that has a sector stands inside the grid.                      *)
LEMMA CellOfType ==
  ASSUME TypeOK, NEW p \in Player, HasSector(p)
  PROVE  CellOf(p) \in Cell
<1>1. player[p].y \in 0 .. MaxY - 1 /\ player[p].x \in 0 .. MaxX - 1
  BY GridAssumption DEF TypeOK, PlayerRecord, HasSector
<1> QED
  BY <1>1 DEF CellOf, Cell

(* LeaveSector keeps the lists well formed.                                *)
LEMMA SectorWithoutType ==
  ASSUME TypeOK, NEW p \in Player
  PROVE  SectorWithout(p) \in [Cell -> [Player -> Nat]]
BY CellOfType DEF TypeOK, SectorWithout, Leaves

(* Records stay well formed when their fields are assigned. *)
LEMMA RecordUpdateType ==
  ASSUME NEW r \in PlayerRecord
  PROVE  /\ \A x \in -1 .. MaxX - 1, y \in -1 .. MaxY - 1 :
              [r EXCEPT !.x = x, !.y = y] \in PlayerRecord
         /\ \A a \in Account, age \in 0 .. SilenceLimit :
              [r EXCEPT !.account = a, !.age = age] \in PlayerRecord
BY DEF PlayerRecord

(* LeaveSector keeps the player well formed.                               *)
LEMMA RecordWithoutSectorType ==
  ASSUME TypeOK, NEW p \in Player
  PROVE  RecordWithoutSector(p) \in PlayerRecord
<1>1. player[p] \in PlayerRecord
  BY DEF TypeOK
<1>2. [player[p] EXCEPT !.x = -1, !.y = -1] \in PlayerRecord
  <2>1. -1 \in -1 .. MaxX - 1 /\ -1 \in -1 .. MaxY - 1
    BY GridAssumption
  <2> QED
    BY <1>1, <2>1, RecordUpdateType
<1> QED
  BY <1>1, <1>2 DEF RecordWithoutSector

(* Refreshing the time of the last message keeps a record well formed. *)
LEMMA HeardType ==
  ASSUME TypeOK, NEW p \in Player
  PROVE  [player EXCEPT ![p].age = 0] \in [Player -> PlayerRecord]
<1>1. player[p] \in PlayerRecord
  BY DEF TypeOK
<1>2. [player[p] EXCEPT !.age = 0] \in PlayerRecord
  BY <1>1, BoundAssumption DEF PlayerRecord
<1>3. [player EXCEPT ![p].age = 0] = [player EXCEPT ![p] = [player[p] EXCEPT !.age = 0]]
  BY DEF TypeOK
<1> QED
  BY <1>2, <1>3 DEF TypeOK

(* Nothing sent is a well-formed value of sent.                            *)
LEMMA NoCopiesType == NoCopies \in [Cell -> [Player -> Nat]]
BY DEF NoCopies, NoOne

(* What SendPacket_Around sends is a well-formed value of sent.            *)
LEMMA AroundType ==
  ASSUME TypeOK, NEW p \in Player
  PROVE  SendPacket_Around(p) \in [Cell -> [Player -> Nat]]
BY NoCopiesType DEF TypeOK, SendPacket_Around, NoOne

(* A session asked to disconnect keeps a legal life cycle.                 *)
LEMMA DisconnectedType ==
  ASSUME TypeOK, NEW s \in Session
  PROVE  Disconnected(s) \in [Session -> {"none", "up", "closing", "gone"}]
BY DEF TypeOK, Disconnected

(* A callback keeps the queue well formed.                                 *)
LEMMA EnqueueType ==
  ASSUME TypeOK, NEW s \in Session, NEW type, NEW packet,
         Enqueue(type, s, packet),
         \/ type \in {"JOIN", "LEAVE"} /\ packet = Null
         \/ type = "PACKET" /\ packet \in Packet
  PROVE  messageQ' \in Seq(Message)
<1>1. [type |-> type, session |-> s, packet |-> packet] \in Message
  BY DEF Message
<1> QED
  BY <1>1 DEF Enqueue, TypeOK

(* SetSector keeps lists and players well formed, refused or not.          *)
LEMMA SetSectorType ==
  ASSUME TypeOK, NEW p \in Player, NEW x \in Int, NEW y \in Int, SetSector(p, x, y)
  PROVE  /\ sector' \in [Cell -> [Player -> Nat]]
         /\ player' \in [Player -> PlayerRecord]
<1>1. SectorWithout(p) \in [Cell -> [Player -> Nat]] /\ RecordWithoutSector(p) \in PlayerRecord
  BY SectorWithoutType, RecordWithoutSectorType
<1>2. CASE InRange(x, y)
  <2>1. <<y, x>> \in Cell
    BY <1>2 DEF InRange, Cell
  <2>2. sector' \in [Cell -> [Player -> Nat]]
    <3>1. SectorWithout(p)[<<y, x>>][p] + 1 \in Nat
      BY <1>1, <2>1
    <3>2. sector' = [SectorWithout(p) EXCEPT ![<<y, x>>] =
                       [SectorWithout(p)[<<y, x>>] EXCEPT ![p] =
                          SectorWithout(p)[<<y, x>>][p] + 1]]
      BY <1>1, <1>2, <2>1 DEF SetSector
    <3> QED
      BY <1>1, <2>1, <3>1, <3>2
  <2>3. [RecordWithoutSector(p) EXCEPT !.x = x, !.y = y, !.age = 0] \in PlayerRecord
    <3>1. x \in -1 .. MaxX - 1 /\ y \in -1 .. MaxY - 1 /\ 0 \in 0 .. SilenceLimit
      BY <1>2, BoundAssumption, GridAssumption DEF InRange
    <3> QED
      BY <1>1, <3>1 DEF PlayerRecord
  <2> QED
    BY <1>2, <2>2, <2>3 DEF SetSector, TypeOK
<1>3. CASE ~InRange(x, y)
  BY <1>1, <1>3 DEF SetSector, TypeOK
<1> QED
  BY <1>2, <1>3

-----------------------------------------------------------------------------
(* The initial state is well formed.                                       *)
LEMMA InitTypeOK == Init => TypeOK
<1> SUFFICES ASSUME Init PROVE TypeOK
  OBVIOUS
<1>1. [session |-> Null, account |-> NoAccount, x |-> -1, y |-> -1, age |-> 0] \in PlayerRecord
  BY AccountAssumption, GridAssumption, BoundAssumption DEF PlayerRecord
<1> QED
  BY <1>1, NoCopiesType DEF Init, TypeOK

(* Every step keeps the variables well formed.                             *)
LEMMA NextTypeOK == TypeOK /\ [Next]_vars => TypeOK'
<1> SUFFICES ASSUME TypeOK, [Next]_vars PROVE TypeOK'
  OBVIOUS
<1> USE NoCopiesType
<1>1. ASSUME NEW s \in Session, OnClientJoin(s) PROVE TypeOK'
  <2>1. messageQ' \in Seq(Message)
    BY <1>1, EnqueueType DEF OnClientJoin
  <2> QED
    BY <1>1, <2>1 DEF OnClientJoin, TypeOK, worldVars
<1>2. ASSUME NEW s \in Session, NEW packet \in Packet, OnRecv(s, packet) PROVE TypeOK'
  <2>1. messageQ' \in Seq(Message)
    BY <1>2, EnqueueType DEF OnRecv
  <2> QED
    BY <1>2, <2>1 DEF OnRecv, TypeOK, worldVars
<1>3. ASSUME NEW s \in Session, OnClientLeave(s) PROVE TypeOK'
  <2>1. messageQ' \in Seq(Message)
    BY <1>3, EnqueueType DEF OnClientLeave
  <2> QED
    BY <1>3, <2>1 DEF OnClientLeave, TypeOK, worldVars
<1>4. CASE proc_MSG_JOIN
  <2>1. PICK p \in free :
          /\ free' = free \ {p}
          /\ player' = [player EXCEPT ![p] =
               [session |-> Who, account |-> NoAccount, x |-> -1, y |-> -1, age |-> 0]]
          /\ playerMap' = [playerMap EXCEPT ![Who] = IF @ = Null THEN p ELSE @]
    BY <1>4 DEF proc_MSG_JOIN
  <2>2. Who \in Session /\ messageQ' \in Seq(Message)
    BY <1>4, HeadType DEF proc_MSG_JOIN, Dequeue
  <2>3. [session |-> Who, account |-> NoAccount, x |-> -1, y |-> -1, age |-> 0] \in PlayerRecord
    BY <2>2, AccountAssumption, GridAssumption, BoundAssumption DEF PlayerRecord
  <2> QED
    BY <1>4, <2>1, <2>2, <2>3 DEF proc_MSG_JOIN, TypeOK
<1>5. CASE proc_MSG_LEAVE
  <2>1. Who \in Session /\ messageQ' \in Seq(Message)
    BY <1>5, HeadType DEF proc_MSG_LEAVE, Dequeue
  <2>2. CASE playerMap[Who] = Null
    BY <1>5, <2>1, <2>2 DEF proc_MSG_LEAVE, TypeOK, worldVars
  <2>3. CASE playerMap[Who] # Null
    <3>1. playerMap[Who] \in Player
      BY <2>1, <2>3 DEF TypeOK
    <3>2. /\ SectorWithout(playerMap[Who]) \in [Cell -> [Player -> Nat]]
          /\ RecordWithoutSector(playerMap[Who]) \in PlayerRecord
      BY <3>1, SectorWithoutType, RecordWithoutSectorType
    <3>3. playerCnt' \in Int
      BY <1>5, <2>3 DEF proc_MSG_LEAVE, TypeOK, LeaveCnt
    <3> QED
      BY <1>5, <2>1, <2>3, <3>1, <3>2, <3>3 DEF proc_MSG_LEAVE, TypeOK, DropPlayer
  <2> QED
    BY <2>2, <2>3
<1>6. CASE proc_PACKET_CS_CHAT_REQ_LOGIN
  <2>1. /\ Who \in Session /\ messageQ' \in Seq(Message) /\ What \in Packet
        /\ What.account \in Account /\ What.key \in Key
    BY <1>6, HeadType, PacketAssumption
    DEF proc_PACKET_CS_CHAT_REQ_LOGIN, TakePacket, Dequeue, AnyPacket
  <2>2. Disconnected(Who) \in [Session -> {"none", "up", "closing", "gone"}]
    BY <2>1, DisconnectedType
  <2>3. CASE playerMap[Who] = Null
    BY <1>6, <2>1, <2>2, <2>3 DEF proc_PACKET_CS_CHAT_REQ_LOGIN, TypeOK
  <2>4. CASE playerMap[Who] # Null
    <3>1. playerMap[Who] \in Player /\ Login(playerMap[Who])
      BY <1>6, <2>1, <2>4 DEF TypeOK, proc_PACKET_CS_CHAT_REQ_LOGIN
    <3>2. player' \in [Player -> PlayerRecord]
      <4> DEFINE p == playerMap[Who]
                 r == [player[p] EXCEPT !.account = What.account, !.age = 0]
      <4>1. player[p] \in PlayerRecord
        BY <3>1 DEF TypeOK
      <4>2. r \in PlayerRecord
        <5>1. 0 \in 0 .. SilenceLimit
          BY BoundAssumption
        <5>2. What.account \in Account
          BY <2>1
        <5> HIDE DEF p
        <5> QED
          BY <4>1, <5>1, <5>2, RecordUpdateType
      <4>3. player' = [player EXCEPT ![p] = r]
        BY <3>1 DEF Login, TypeOK
      <4> QED
        BY <3>1, <4>2, <4>3 DEF TypeOK
    <3>3. loginMap' \in [Account -> LoginInfo \cup {Null}]
      BY <2>1, <3>1 DEF Login, TypeOK
    <3> QED
      BY <1>6, <2>1, <2>2, <3>1, <3>2, <3>3
      DEF proc_PACKET_CS_CHAT_REQ_LOGIN, TypeOK, Login
  <2> QED
    BY <2>3, <2>4
<1>7. CASE proc_PACKET_CS_CHAT_REQ_SECTOR_MOVE
  <2>1. /\ Who \in Session /\ messageQ' \in Seq(Message)
        /\ What.x \in Int /\ What.y \in Int
    BY <1>7, HeadType, PacketAssumption
    DEF proc_PACKET_CS_CHAT_REQ_SECTOR_MOVE, TakePacket, Dequeue, AnyPacket
  <2>2. Disconnected(Who) \in [Session -> {"none", "up", "closing", "gone"}]
    BY <2>1, DisconnectedType
  <2>3. /\ sector' \in [Cell -> [Player -> Nat]]
        /\ player' \in [Player -> PlayerRecord]
    <3>1. CASE SetSector(playerMap[Who], What.x, What.y) /\ playerMap[Who] # Null
      BY <2>1, <3>1, SetSectorType DEF TypeOK
    <3>2. CASE UNCHANGED <<player, sector>>
      BY <3>2 DEF TypeOK
    <3> QED
      BY <1>7, <3>1, <3>2 DEF proc_PACKET_CS_CHAT_REQ_SECTOR_MOVE
  <2> QED
    BY <1>7, <2>1, <2>2, <2>3 DEF proc_PACKET_CS_CHAT_REQ_SECTOR_MOVE, TypeOK
<1>8. CASE proc_PACKET_CS_CHAT_REQ_MESSAGE
  <2>1. Who \in Session /\ messageQ' \in Seq(Message)
    BY <1>8, HeadType DEF proc_PACKET_CS_CHAT_REQ_MESSAGE, TakePacket, Dequeue
  <2>2. Disconnected(Who) \in [Session -> {"none", "up", "closing", "gone"}]
    BY <2>1, DisconnectedType
  <2>3. ASSUME playerMap[Who] # Null
        PROVE  /\ SendPacket_Around(playerMap[Who]) \in [Cell -> [Player -> Nat]]
               /\ [player EXCEPT ![playerMap[Who]].age = 0] \in [Player -> PlayerRecord]
    BY <2>1, <2>3, AroundType, HeardType DEF TypeOK
  <2> QED
    BY <1>8, <2>1, <2>2, <2>3 DEF proc_PACKET_CS_CHAT_REQ_MESSAGE, TypeOK
<1>9. CASE proc_PACKET_CS_CHAT_REQ_HEARTBEAT
  <2>1. Who \in Session /\ messageQ' \in Seq(Message)
    BY <1>9, HeadType DEF proc_PACKET_CS_CHAT_REQ_HEARTBEAT, TakePacket, Dequeue
  <2>2. player' \in [Player -> PlayerRecord]
    BY <1>9, <2>1, HeardType DEF proc_PACKET_CS_CHAT_REQ_HEARTBEAT, TypeOK
  <2> QED
    BY <1>9, <2>1, <2>2 DEF proc_PACKET_CS_CHAT_REQ_HEARTBEAT, TypeOK
<1>10. CASE proc_MSG_PACKET_Unknown
  <2>1. Who \in Session /\ messageQ' \in Seq(Message)
    BY <1>10, HeadType DEF proc_MSG_PACKET_Unknown, TakePacket, Dequeue
  <2>2. Disconnected(Who) \in [Session -> {"none", "up", "closing", "gone"}]
    BY <2>1, DisconnectedType
  <2> QED
    BY <1>10, <2>1, <2>2 DEF proc_MSG_PACKET_Unknown, TypeOK, worldVars
<1>11. CASE LoginClient_OnClientJoin \/ LoginClient_OnClientLeave
  BY <1>11 DEF LoginClient_OnClientJoin, LoginClient_OnClientLeave, TypeOK,
               contentVars, worldVars
<1>12. ASSUME NEW a \in Account, NEW k \in Key,
              proc_PACKET_SS_REQ_NEW_CLIENT_LOGIN(a, k)
       PROVE  TypeOK'
  <2>1. [key |-> k, age |-> 0] \in LoginInfo
    BY BoundAssumption DEF LoginInfo
  <2> QED
    BY <1>12, <2>1 DEF proc_PACKET_SS_REQ_NEW_CLIENT_LOGIN, TypeOK, contentVars, worldVars
<1>13. CASE LoginMap_Timeout
  BY <1>13 DEF LoginMap_Timeout, TypeOK, contentVars, worldVars
<1>14. CASE Tick
  <2>1. ASSUME NEW p \in Player
        PROVE  [player[p] EXCEPT !.age = Older(@, SilenceLimit)] \in PlayerRecord
    <3>1. player[p] \in PlayerRecord
      BY DEF TypeOK
    <3> QED
      BY <3>1, BoundAssumption DEF PlayerRecord, Older
  <2>2. ASSUME NEW a \in Account, loginMap[a] # Null
        PROVE  [loginMap[a] EXCEPT !.age = Older(@, InfoTimeout + 1)] \in LoginInfo
    <3>1. loginMap[a] \in LoginInfo
      BY <2>2 DEF TypeOK
    <3> QED
      BY <3>1, BoundAssumption DEF LoginInfo, Older
  <2> QED
    BY <1>14, <2>1, <2>2 DEF Tick, TypeOK
<1>15. CASE UNCHANGED vars
  BY <1>15 DEF vars, worldVars, TypeOK
<1> QED
  BY <1>1, <1>2, <1>3, <1>4, <1>5, <1>6, <1>7, <1>8, <1>9, <1>10, <1>11, <1>12,
     <1>13, <1>14, <1>15
  DEF Next, UpdateThread_Process

(* The variables of the chat server always have the shape of their C++     *)
(* declarations; in particular a player's coordinates stay inside the grid *)
(* or at -1 whatever coordinates the clients send.                         *)
THEOREM TypeCorrect == Spec => []TypeOK
BY InitTypeOK, NextTypeOK, PTL DEF Spec

-----------------------------------------------------------------------------
(***************************************************************************)
(* The life of a player.  The queue carries one JOIN before everything     *)
(* else of its session and one LEAVE after everything else; a session that *)
(* has a message pending, or has not ended, has its player already or its  *)
(* JOIN still queued; and a session that ended with a player left has its  *)
(* LEAVE queued.                                                           *)
(***************************************************************************)
QueueOrder ==
  \A i, j \in 1 .. Len(messageQ) :
    i < j /\ messageQ[i].session = messageQ[j].session =>
      messageQ[i].type # "LEAVE" /\ messageQ[j].type # "JOIN"

JoinQueued(s) ==
  \E i \in 1 .. Len(messageQ) : messageQ[i].session = s /\ messageQ[i].type = "JOIN"

LeaveQueued(s) ==
  \E i \in 1 .. Len(messageQ) : messageQ[i].session = s /\ messageQ[i].type = "LEAVE"

Expected(s) == JoinQueued(s) \/ playerMap[s] # Null

Lifetime(s) ==
  /\ session[s] = "none" => ~Pending(s) /\ playerMap[s] = Null
  /\ JoinQueued(s) => playerMap[s] = Null
  /\ session[s] \in {"up", "closing"} \/ Pending(s) => Expected(s)
  /\ session[s] = "gone" /\ Expected(s) => LeaveQueued(s)
  /\ LeaveQueued(s) => session[s] = "gone"

LifetimeInv == QueueOrder /\ \A s \in Session : Lifetime(s)

(* A message put behind no LEAVE of its own session keeps the queue in     *)
(* order.                                                                  *)
LEMMA EnqueueKeepsOrder ==
  ASSUME TypeOK, QueueOrder, NEW s \in Session, NEW type, NEW packet,
         Enqueue(type, s, packet), ~LeaveQueued(s), type = "JOIN" => ~Pending(s)
  PROVE  QueueOrder'
BY DEF TypeOK, QueueOrder, Enqueue, LeaveQueued, Pending

(* What a callback adds to the messages pending for each session.          *)
LEMMA EnqueueAdds ==
  ASSUME TypeOK, NEW s \in Session, NEW type, NEW packet, Enqueue(type, s, packet),
         NEW t \in Session
  PROVE  /\ Pending(t)' <=> Pending(t) \/ t = s
         /\ JoinQueued(t)' <=> JoinQueued(t) \/ (t = s /\ type = "JOIN")
         /\ LeaveQueued(t)' <=> LeaveQueued(t) \/ (t = s /\ type = "LEAVE")
<1> DEFINE m == [type |-> type, session |-> s, packet |-> packet]
           n == Len(messageQ)
<1>1. /\ Len(messageQ') = n + 1 /\ n \in Nat /\ messageQ'[n + 1] = m
      /\ \A i \in 1 .. n : messageQ'[i] = messageQ[i]
  BY DEF TypeOK, Enqueue
<1>2. m.type = type /\ m.session = s
  OBVIOUS
<1>3. 1 .. n + 1 = (1 .. n) \cup {n + 1}
  BY <1>1
<1> HIDE DEF m, n
<1> QED
  BY <1>1, <1>2, <1>3 DEF Pending, JoinQueued, LeaveQueued, n

(* Taking the head off removes one pending message, of one session only.   *)
LEMMA DequeueTakesHead ==
  ASSUME TypeOK, messageQ # <<>>, messageQ' = Tail(messageQ)
  PROVE  /\ QueueOrder => QueueOrder'
         /\ \A t \in Session :
              /\ Pending(t) <=> Pending(t)' \/ t = Who
              /\ JoinQueued(t) <=>
                   JoinQueued(t)' \/ (t = Who /\ Head(messageQ).type = "JOIN")
              /\ LeaveQueued(t) <=>
                   LeaveQueued(t)' \/ (t = Who /\ Head(messageQ).type = "LEAVE")
         /\ QueueOrder =>
              \A t \in Session : t = Who =>
                /\ ~JoinQueued(t)'
                /\ Head(messageQ).type = "LEAVE" => ~Pending(t)'
<1> DEFINE n == Len(messageQ)
<1>1. /\ n \in Nat \ {0} /\ Len(messageQ') = n - 1 /\ Head(messageQ) = messageQ[1]
      /\ \A i \in 1 .. n - 1 : messageQ'[i] = messageQ[i + 1]
  BY DEF TypeOK
<1>2. QueueOrder => QueueOrder'
  BY <1>1 DEF QueueOrder
<1>3. ASSUME NEW t \in Session
      PROVE  /\ Pending(t) <=> Pending(t)' \/ t = Who
             /\ JoinQueued(t) <=>
                  JoinQueued(t)' \/ (t = Who /\ Head(messageQ).type = "JOIN")
             /\ LeaveQueued(t) <=>
                  LeaveQueued(t)' \/ (t = Who /\ Head(messageQ).type = "LEAVE")
  <2>1. ASSUME NEW i \in 1 .. n, i # 1
        PROVE  i - 1 \in 1 .. n - 1 /\ messageQ'[i - 1] = messageQ[i]
    BY <1>1, <2>1
  <2>2. \A i \in 1 .. n - 1 : i + 1 \in 1 .. n
    BY <1>1
  <2>3. 1 \in 1 .. n
    BY <1>1
  <2> QED
    <3>1. Len(messageQ) = n /\ Len(messageQ') = n - 1 /\ Who = messageQ[1].session
      BY <1>1 DEF Who
    <3> HIDE DEF n
    <3>2. Pending(t) <=> Pending(t)' \/ t = Who
      BY <1>1, <2>1, <2>2, <2>3, <3>1 DEF Pending
    <3>3. JoinQueued(t) <=>
            JoinQueued(t)' \/ (t = Who /\ Head(messageQ).type = "JOIN")
      BY <1>1, <2>1, <2>2, <2>3, <3>1 DEF JoinQueued
    <3>4. LeaveQueued(t) <=>
            LeaveQueued(t)' \/ (t = Who /\ Head(messageQ).type = "LEAVE")
      BY <1>1, <2>1, <2>2, <2>3, <3>1 DEF LeaveQueued
    <3> QED
      BY <3>2, <3>3, <3>4
<1>4. ASSUME QueueOrder, NEW t \in Session, t = Who
      PROVE  ~JoinQueued(t)' /\ (Head(messageQ).type = "LEAVE" => ~Pending(t)')
  <2>1. ASSUME NEW i \in 1 .. n - 1, messageQ'[i].session = t
        PROVE  messageQ'[i].type # "JOIN" /\ messageQ[1].type # "LEAVE"
    <3>1. 1 \in 1 .. n /\ i + 1 \in 1 .. n /\ 1 < i + 1
      BY <1>1
    <3>2. messageQ[1].session = messageQ[i + 1].session
      BY <1>1, <1>4, <2>1 DEF Who
    <3> QED
      BY <1>1, <1>4, <3>1, <3>2 DEF QueueOrder
  <2> QED
    BY <1>1, <2>1 DEF JoinQueued, Pending
<1> QED
  BY <1>2, <1>3, <1>4

PacketStep ==
  \/ proc_PACKET_CS_CHAT_REQ_LOGIN \/ proc_PACKET_CS_CHAT_REQ_SECTOR_MOVE
  \/ proc_PACKET_CS_CHAT_REQ_MESSAGE \/ proc_PACKET_CS_CHAT_REQ_HEARTBEAT
  \/ proc_MSG_PACKET_Unknown

(* What the packet handlers have in common. *)
LEMMA PacketStepFrame ==
  ASSUME TypeOK, PacketStep
  PROVE  /\ messageQ # <<>> /\ Head(messageQ).type = "PACKET"
         /\ messageQ' = Tail(messageQ)
         /\ playerMap' = playerMap /\ free' = free /\ asked' = asked
         /\ session' \in {session, Disconnected(Who)}
BY DEF PacketStep, proc_PACKET_CS_CHAT_REQ_LOGIN, proc_PACKET_CS_CHAT_REQ_SECTOR_MOVE,
       proc_PACKET_CS_CHAT_REQ_MESSAGE, proc_PACKET_CS_CHAT_REQ_HEARTBEAT,
       proc_MSG_PACKET_Unknown, TakePacket, Dequeue, Login, worldVars

LoginServerStep ==
  \/ LoginClient_OnClientJoin \/ LoginClient_OnClientLeave
  \/ \E a \in Account, k \in Key : proc_PACKET_SS_REQ_NEW_CLIENT_LOGIN(a, k)
  \/ LoginMap_Timeout

(* What the steps of the login connection have in common.                  *)
LEMMA LoginServerStepFrame ==
  ASSUME LoginServerStep
  PROVE  UNCHANGED <<session, asked, messageQ, playerMap, free, player, sector, playerCnt>>
BY DEF LoginServerStep, LoginClient_OnClientJoin, LoginClient_OnClientLeave,
       proc_PACKET_SS_REQ_NEW_CLIENT_LOGIN, LoginMap_Timeout, contentVars, worldVars

(* The cases every proof about Next goes through.                          *)
LEMMA NextCases ==
  ASSUME [Next]_vars
  PROVE  \/ \E s \in Session : OnClientJoin(s)
         \/ \E s \in Session, packet \in Packet : OnRecv(s, packet)
         \/ \E s \in Session : OnClientLeave(s)
         \/ proc_MSG_JOIN \/ proc_MSG_LEAVE \/ PacketStep
         \/ LoginServerStep \/ Tick \/ UNCHANGED vars
BY DEF Next, UpdateThread_Process, PacketStep, LoginServerStep

-----------------------------------------------------------------------------
(* The life-cycle invariant holds initially.                               *)
LEMMA InitLifetime == Init => LifetimeInv
BY DEF Init, LifetimeInv, QueueOrder, Lifetime, Pending, JoinQueued, LeaveQueued, Expected

(* Every step keeps session, pending messages and player map in            *)
(* agreement.                                                              *)
LEMMA NextLifetime == TypeOK /\ LifetimeInv /\ [Next]_vars => LifetimeInv'
<1> SUFFICES ASSUME TypeOK, LifetimeInv, [Next]_vars PROVE LifetimeInv'
  OBVIOUS
<1>1. ASSUME NEW s \in Session, OnClientJoin(s) PROVE LifetimeInv'
  <2>1. ~Pending(s) /\ playerMap[s] = Null
    BY <1>1 DEF OnClientJoin, LifetimeInv, Lifetime
  <2>2. ~LeaveQueued(s)
    BY <2>1 DEF LeaveQueued, Pending
  <2>3. QueueOrder'
    BY <1>1, <2>1, <2>2, EnqueueKeepsOrder DEF OnClientJoin, LifetimeInv
  <2>4. ASSUME NEW t \in Session PROVE Lifetime(t)'
    <3>1. /\ Pending(t)' <=> Pending(t) \/ t = s
          /\ JoinQueued(t)' <=> JoinQueued(t) \/ t = s
          /\ LeaveQueued(t)' <=> LeaveQueued(t)
      BY <1>1, EnqueueAdds DEF OnClientJoin
    <3> QED
      BY <1>1, <2>1, <2>2, <3>1
      DEF OnClientJoin, worldVars, LifetimeInv, Lifetime, Expected, TypeOK
  <2> QED
    BY <2>3, <2>4 DEF LifetimeInv
<1>2. ASSUME NEW s \in Session, NEW packet \in Packet, OnRecv(s, packet)
      PROVE  LifetimeInv'
  <2>1. Expected(s) /\ ~LeaveQueued(s)
    BY <1>2 DEF OnRecv, LifetimeInv, Lifetime
  <2>2. QueueOrder'
    BY <1>2, <2>1, EnqueueKeepsOrder DEF OnRecv, LifetimeInv
  <2>3. ASSUME NEW t \in Session PROVE Lifetime(t)'
    <3>1. /\ Pending(t)' <=> Pending(t) \/ t = s
          /\ JoinQueued(t)' <=> JoinQueued(t)
          /\ LeaveQueued(t)' <=> LeaveQueued(t)
      BY <1>2, EnqueueAdds DEF OnRecv
    <3> QED
      BY <1>2, <2>1, <3>1 DEF OnRecv, worldVars, LifetimeInv, Lifetime, Expected, TypeOK
  <2> QED
    BY <2>2, <2>3 DEF LifetimeInv
<1>3. ASSUME NEW s \in Session, OnClientLeave(s) PROVE LifetimeInv'
  <2>1. Expected(s) /\ ~LeaveQueued(s)
    BY <1>3 DEF OnClientLeave, LifetimeInv, Lifetime
  <2>2. QueueOrder'
    BY <1>3, <2>1, EnqueueKeepsOrder DEF OnClientLeave, LifetimeInv
  <2>3. ASSUME NEW t \in Session PROVE Lifetime(t)'
    <3>1. /\ Pending(t)' <=> Pending(t) \/ t = s
          /\ JoinQueued(t)' <=> JoinQueued(t)
          /\ LeaveQueued(t)' <=> LeaveQueued(t) \/ t = s
      BY <1>3, EnqueueAdds DEF OnClientLeave
    <3> QED
      BY <1>3, <2>1, <3>1
      DEF OnClientLeave, worldVars, LifetimeInv, Lifetime, Expected, TypeOK
  <2> QED
    BY <2>2, <2>3 DEF LifetimeInv
<1>4. CASE proc_MSG_JOIN
  <2>1. messageQ # <<>> /\ Head(messageQ).type = "JOIN" /\ messageQ' = Tail(messageQ)
    BY <1>4 DEF proc_MSG_JOIN, Dequeue
  <2>2. PICK p \in Player : playerMap' = [playerMap EXCEPT ![Who] = IF @ = Null THEN p ELSE @]
    BY <1>4 DEF proc_MSG_JOIN, TypeOK
  <2>3. p # Null /\ Who \in Session
    BY <2>1, NullAssumption, HeadType
  <2>4. QueueOrder'
    BY <2>1, DequeueTakesHead DEF LifetimeInv
  <2>5. ASSUME NEW t \in Session PROVE Lifetime(t)'
    <3>1. /\ Pending(t) <=> Pending(t)' \/ t = Who
          /\ JoinQueued(t) <=> JoinQueued(t)' \/ t = Who
          /\ LeaveQueued(t) <=> LeaveQueued(t)'
          /\ t = Who => ~JoinQueued(t)'
      BY <2>1, DequeueTakesHead DEF LifetimeInv
    <3>2. t = Who => playerMap'[t] # Null
      BY <2>2, <2>3 DEF TypeOK
    <3>3. t # Who => playerMap'[t] = playerMap[t]
      BY <2>2, <2>3 DEF TypeOK
    <3>4. session' = session
      BY <1>4 DEF proc_MSG_JOIN
    <3> QED
      BY <3>1, <3>2, <3>3, <3>4 DEF LifetimeInv, Lifetime, Expected
  <2> QED
    BY <2>4, <2>5 DEF LifetimeInv
<1>5. CASE proc_MSG_LEAVE
  <2>1. messageQ # <<>> /\ Head(messageQ).type = "LEAVE" /\ messageQ' = Tail(messageQ)
    BY <1>5 DEF proc_MSG_LEAVE, Dequeue
  <2>2. QueueOrder' /\ Who \in Session
    BY <2>1, DequeueTakesHead, HeadType DEF LifetimeInv
  <2>3. ASSUME NEW t \in Session PROVE Lifetime(t)'
    <3>1. /\ Pending(t) <=> Pending(t)' \/ t = Who
          /\ JoinQueued(t) <=> JoinQueued(t)'
          /\ LeaveQueued(t) <=> LeaveQueued(t)' \/ t = Who
          /\ t = Who => ~JoinQueued(t)' /\ ~Pending(t)'
      BY <2>1, DequeueTakesHead DEF LifetimeInv
    <3>2. t = Who => playerMap'[t] = Null
      BY <1>5 DEF proc_MSG_LEAVE, DropPlayer, worldVars, TypeOK
    <3>3. t # Who => playerMap'[t] = playerMap[t]
      BY <1>5, <2>2 DEF proc_MSG_LEAVE, DropPlayer, worldVars, TypeOK
    <3>4. session' = session
      BY <1>5 DEF proc_MSG_LEAVE
    <3>5. LeaveQueued(t)' => Pending(t)'
      BY DEF LeaveQueued, Pending
    <3> QED
      BY <3>1, <3>2, <3>3, <3>4, <3>5 DEF LifetimeInv, Lifetime, Expected
  <2> QED
    BY <2>2, <2>3 DEF LifetimeInv
<1>6. CASE PacketStep
  <2>1. /\ messageQ # <<>> /\ Head(messageQ).type = "PACKET" /\ messageQ' = Tail(messageQ)
        /\ playerMap' = playerMap /\ session' \in {session, Disconnected(Who)}
    BY <1>6, PacketStepFrame
  <2>2. QueueOrder' /\ Who \in Session
    BY <2>1, DequeueTakesHead, HeadType DEF LifetimeInv
  <2>3. ASSUME NEW t \in Session PROVE Lifetime(t)'
    <3>1. /\ Pending(t) <=> Pending(t)' \/ t = Who
          /\ JoinQueued(t) <=> JoinQueued(t)'
          /\ LeaveQueued(t) <=> LeaveQueued(t)'
      BY <2>1, DequeueTakesHead DEF LifetimeInv
    <3>2. /\ session'[t] = session[t] \/ (session[t] = "up" /\ session'[t] = "closing")
      BY <2>1, <2>2 DEF Disconnected, TypeOK
    <3> QED
      BY <2>1, <3>1, <3>2 DEF LifetimeInv, Lifetime, Expected
  <2> QED
    BY <2>2, <2>3 DEF LifetimeInv
<1>7. CASE UNCHANGED <<session, messageQ, playerMap>>
  BY <1>7 DEF LifetimeInv, QueueOrder, Lifetime, Pending, JoinQueued, LeaveQueued, Expected
<1>8. LoginServerStep \/ Tick \/ UNCHANGED vars => UNCHANGED <<session, messageQ, playerMap>>
  BY LoginServerStepFrame DEF Tick, vars, worldVars
<1> QED
  BY <1>1, <1>2, <1>3, <1>4, <1>5, <1>6, <1>7, <1>8, NextCases

(* Session life cycle, pending messages and player map always agree: JOIN  *)
(* first, LEAVE last, and the map in between.                              *)
THEOREM LifetimeCorrect == Spec => []LifetimeInv
<1>1. Init => TypeOK /\ LifetimeInv
  BY InitTypeOK, InitLifetime
<1>2. (TypeOK /\ LifetimeInv) /\ [Next]_vars => (TypeOK /\ LifetimeInv)'
  BY NextTypeOK, NextLifetime
<1> QED
  BY <1>1, <1>2, PTL DEF Spec

-----------------------------------------------------------------------------
(* Which fields of which st_PLAYER a step may write. *)

(* LeaveSector leaves session and account alone.                           *)
LEMMA RecordWithoutSectorFields ==
  ASSUME TypeOK, NEW p \in Player
  PROVE  /\ RecordWithoutSector(p).session = player[p].session
         /\ RecordWithoutSector(p).account = player[p].account
BY DEF TypeOK, PlayerRecord, RecordWithoutSector

(* What a login writes.                                                    *)
LEMMA LoginFields ==
  ASSUME TypeOK, proc_PACKET_CS_CHAT_REQ_LOGIN, playerMap[Who] # Null, NEW q \in Player
  PROVE  /\ player'[q].session = player[q].session
         /\ player'[q].x = player[q].x /\ player'[q].y = player[q].y
         /\ player'[q].account =
              IF q = playerMap[Who] THEN What.account ELSE player[q].account
         /\ playerCnt' = playerCnt + 1
<1>1. player' = [player EXCEPT ![playerMap[Who]].account = What.account,
                               ![playerMap[Who]].age = 0]
  BY DEF proc_PACKET_CS_CHAT_REQ_LOGIN, Login
<1>2. player[q] \in PlayerRecord /\ Who \in Session /\ playerCnt' = playerCnt + 1
  BY HeadType DEF TypeOK, proc_PACKET_CS_CHAT_REQ_LOGIN, TakePacket, Dequeue, Login
<1> QED
  BY <1>1, <1>2 DEF TypeOK, PlayerRecord

(* A login whose player is not found writes nothing.                       *)
LEMMA LoginFieldsNoPlayer ==
  ASSUME proc_PACKET_CS_CHAT_REQ_LOGIN, playerMap[Who] = Null
  PROVE  player' = player /\ playerCnt' = playerCnt
BY DEF proc_PACKET_CS_CHAT_REQ_LOGIN

(* What a move writes.                                                     *)
LEMMA MoveFields ==
  ASSUME TypeOK, proc_PACKET_CS_CHAT_REQ_SECTOR_MOVE, NEW q \in Player
  PROVE  /\ player'[q].session = player[q].session
         /\ player'[q].account = player[q].account
         /\ q # playerMap[Who] => player'[q] = player[q]
         /\ playerCnt' = playerCnt
<1> DEFINE p == playerMap[Who]
           x == What.x
           y == What.y
<1>1. playerCnt' = playerCnt
  BY DEF proc_PACKET_CS_CHAT_REQ_SECTOR_MOVE
<1>2. CASE p # Null /\ SetSector(p, x, y)
  <2>1. p \in Player
    BY <1>2, HeadType
    DEF TypeOK, proc_PACKET_CS_CHAT_REQ_SECTOR_MOVE, TakePacket, Dequeue
  <2>2. /\ RecordWithoutSector(p).session = player[p].session
        /\ RecordWithoutSector(p).account = player[p].account
        /\ RecordWithoutSector(p) \in PlayerRecord
    BY <2>1, RecordWithoutSectorFields, RecordWithoutSectorType
  <2> HIDE DEF p, x, y
  <2>3. ASSUME NEW r \in PlayerRecord
        PROVE  /\ [r EXCEPT !.x = x, !.y = y, !.age = 0].session = r.session
               /\ [r EXCEPT !.x = x, !.y = y, !.age = 0].account = r.account
    BY DEF PlayerRecord
  <2> QED
    BY <1>1, <1>2, <2>1, <2>2, <2>3 DEF SetSector, TypeOK, p
<1>3. CASE player' = player
  BY <1>1, <1>3
<1> QED
  BY <1>2, <1>3 DEF proc_PACKET_CS_CHAT_REQ_SECTOR_MOVE

QuietStep ==
  \/ proc_PACKET_CS_CHAT_REQ_MESSAGE \/ proc_PACKET_CS_CHAT_REQ_HEARTBEAT
  \/ proc_MSG_PACKET_Unknown \/ LoginServerStep \/ Tick \/ UNCHANGED vars

(* These steps write at most the time of a player's last message. *)
LEMMA QuietFields ==
  ASSUME TypeOK, QuietStep
  PROVE  /\ UNCHANGED <<playerMap, free, sector, playerCnt>>
         /\ \A q \in Player :
              /\ player'[q].session = player[q].session
              /\ player'[q].account = player[q].account
              /\ player'[q].x = player[q].x /\ player'[q].y = player[q].y
<1> USE DEF TypeOK, PlayerRecord
<1>1. CASE proc_PACKET_CS_CHAT_REQ_MESSAGE
  <2>1. UNCHANGED <<playerMap, free, sector, playerCnt>>
    BY <1>1 DEF proc_PACKET_CS_CHAT_REQ_MESSAGE
  <2>2. player' = player \/ player' = [player EXCEPT ![playerMap[Who]].age = 0]
    BY <1>1 DEF proc_PACKET_CS_CHAT_REQ_MESSAGE
  <2>3. ASSUME NEW q \in Player, NEW p, player' = [player EXCEPT ![p].age = 0]
        PROVE  /\ player'[q].session = player[q].session
               /\ player'[q].account = player[q].account
               /\ player'[q].x = player[q].x /\ player'[q].y = player[q].y
    BY <2>3
  <2> QED
    BY <2>1, <2>2, <2>3
<1>2. CASE proc_PACKET_CS_CHAT_REQ_HEARTBEAT
  BY <1>2 DEF proc_PACKET_CS_CHAT_REQ_HEARTBEAT
<1>3. CASE proc_MSG_PACKET_Unknown
  BY <1>3 DEF proc_MSG_PACKET_Unknown, worldVars
<1>4. CASE LoginServerStep
  BY <1>4, LoginServerStepFrame
<1>5. CASE Tick
  BY <1>5 DEF Tick
<1>6. CASE UNCHANGED vars
  BY <1>6 DEF vars, worldVars
<1> QED
  BY <1>1, <1>2, <1>3, <1>4, <1>5, <1>6 DEF QuietStep

(* What a JOIN writes.                                                     *)
LEMMA JoinFields ==
  ASSUME TypeOK, LifetimeInv, proc_MSG_JOIN
  PROVE  /\ Who \in Session /\ playerMap[Who] = Null /\ UNCHANGED <<sector, playerCnt>>
         /\ \E p \in free :
              /\ p # Null
              /\ free' = free \ {p}
              /\ playerMap' = [playerMap EXCEPT ![Who] = p]
              /\ player'[p] = [session |-> Who, account |-> NoAccount, x |-> -1, y |-> -1,
                               age |-> 0]
              /\ \A q \in Player \ {p} : player'[q] = player[q]
<1>1. messageQ # <<>> /\ Head(messageQ).type = "JOIN" /\ Who \in Session
  BY HeadType DEF proc_MSG_JOIN, Dequeue
<1>2. JoinQueued(Who)
  BY <1>1 DEF JoinQueued, Who, TypeOK
<1>3. playerMap[Who] = Null
  BY <1>1, <1>2 DEF LifetimeInv, Lifetime
<1>4. PICK p \in free :
        /\ free' = free \ {p}
        /\ player' = [player EXCEPT ![p] =
             [session |-> Who, account |-> NoAccount, x |-> -1, y |-> -1, age |-> 0]]
        /\ playerMap' = [playerMap EXCEPT ![Who] = IF @ = Null THEN p ELSE @]
  BY DEF proc_MSG_JOIN
<1>5. p \in Player /\ p # Null
  BY NullAssumption DEF TypeOK
<1>6. playerMap' = [playerMap EXCEPT ![Who] = p]
  BY <1>1, <1>3, <1>4 DEF TypeOK
<1>7. UNCHANGED <<sector, playerCnt>>
  BY DEF proc_MSG_JOIN
<1>8. /\ player'[p] = [session |-> Who, account |-> NoAccount, x |-> -1, y |-> -1, age |-> 0]
      /\ \A q \in Player \ {p} : player'[q] = player[q]
  BY <1>4, <1>5 DEF TypeOK
<1> QED
  BY <1>1, <1>3, <1>4, <1>5, <1>6, <1>7, <1>8

(* What a LEAVE writes.                                                    *)
LEMMA LeaveFields ==
  ASSUME TypeOK, proc_MSG_LEAVE, playerMap[Who] # Null
  PROVE  /\ Who \in Session /\ playerMap[Who] \in Player
         /\ playerMap' = [playerMap EXCEPT ![Who] = Null]
         /\ free' = free \cup {playerMap[Who]}
         /\ sector' = SectorWithout(playerMap[Who])
         /\ player'[playerMap[Who]] = RecordWithoutSector(playerMap[Who])
         /\ \A q \in Player : q # playerMap[Who] => player'[q] = player[q]
         /\ playerCnt' = LeaveCnt(playerMap[Who])
<1>1. Who \in Session
  BY HeadType DEF proc_MSG_LEAVE, Dequeue
<1> QED
  BY <1>1 DEF proc_MSG_LEAVE, DropPlayer, TypeOK

(* A LEAVE whose player is not found writes nothing.                       *)
LEMMA LeaveFieldsNoPlayer ==
  ASSUME proc_MSG_LEAVE, playerMap[Who] = Null
  PROVE  UNCHANGED <<playerMap, free, player, sector, playerCnt>>
BY DEF proc_MSG_LEAVE, worldVars

(* The callbacks touch neither players nor sectors.                        *)
LEMMA CallbackFrame ==
  ASSUME \/ \E s \in Session : OnClientJoin(s) \/ OnClientLeave(s)
         \/ \E s \in Session, packet \in Packet : OnRecv(s, packet)
  PROVE  UNCHANGED <<playerMap, free, player, sector, playerCnt>>
BY DEF OnClientJoin, OnClientLeave, OnRecv, worldVars

-----------------------------------------------------------------------------
(* The pool and the player map. *)

(* Initially every st_PLAYER is free.                                      *)
LEMMA InitPool == Init => PoolMatchesMap
BY NullAssumption DEF Init, PoolMatchesMap, InMap

(* Steps that leave the map and the players' sessions alone. *)
LEMMA PoolKept ==
  ASSUME TypeOK, PoolMatchesMap, UNCHANGED <<playerMap, free>>,
         \A q \in Player : player'[q].session = player[q].session
  PROVE  PoolMatchesMap'
BY DEF TypeOK, PoolMatchesMap, InMap

(* Every step keeps pool and map in agreement.                             *)
LEMMA NextPool ==
  TypeOK /\ LifetimeInv /\ PoolMatchesMap /\ [Next]_vars => PoolMatchesMap'
<1> SUFFICES ASSUME TypeOK, LifetimeInv, PoolMatchesMap, [Next]_vars
             PROVE  PoolMatchesMap'
  OBVIOUS
<1>1. CASE proc_MSG_JOIN
  <2>1. PICK p \in free :
          /\ p # Null /\ Who \in Session /\ playerMap[Who] = Null
          /\ free' = free \ {p}
          /\ playerMap' = [playerMap EXCEPT ![Who] = p]
          /\ player'[p].session = Who
          /\ \A q \in Player \ {p} : player'[q] = player[q]
    BY <1>1, JoinFields
  <2>2. p \in Player /\ \A s \in Session : playerMap[s] # p
    BY DEF PoolMatchesMap, InMap
  <2>3. \A q \in Player : InMap(q)' <=> InMap(q) \/ q = p
    BY <2>1, NullAssumption DEF InMap, TypeOK
  <2>4. free' = {q \in Player : ~InMap(q)'}
    BY <2>1, <2>3 DEF PoolMatchesMap
  <2>5. ASSUME NEW s \in Session, playerMap'[s] # Null
        PROVE  /\ player'[playerMap'[s]].session = s
               /\ \A t \in Session : playerMap'[s] = playerMap'[t] => s = t
    BY <2>1, <2>2, <2>5 DEF PoolMatchesMap, TypeOK
  <2> QED
    BY <2>4, <2>5 DEF PoolMatchesMap
<1>2. CASE proc_MSG_LEAVE /\ playerMap[Who] # Null
  <2> DEFINE p == playerMap[Who]
  <2>1. /\ Who \in Session /\ p \in Player
        /\ playerMap' = [playerMap EXCEPT ![Who] = Null]
        /\ free' = free \cup {p}
        /\ \A q \in Player : q # p => player'[q] = player[q]
    BY <1>2, LeaveFields
  <2>2. \A s \in Session : playerMap[s] = p => s = Who
    BY <1>2, <2>1 DEF PoolMatchesMap
  <2>3. \A q \in Player : InMap(q)' <=> InMap(q) /\ q # p
    BY <2>1, <2>2, NullAssumption DEF InMap, TypeOK
  <2>4. free' = {q \in Player : ~InMap(q)'}
    BY <2>1, <2>3 DEF PoolMatchesMap
  <2>5. ASSUME NEW s \in Session, playerMap'[s] # Null
        PROVE  /\ player'[playerMap'[s]].session = s
               /\ \A t \in Session : playerMap'[s] = playerMap'[t] => s = t
    BY <2>1, <2>2, <2>5 DEF PoolMatchesMap, TypeOK
  <2> QED
    BY <2>4, <2>5 DEF PoolMatchesMap
<1>3. CASE proc_MSG_LEAVE /\ playerMap[Who] = Null
  BY <1>3, LeaveFieldsNoPlayer, PoolKept
<1>4. CASE proc_PACKET_CS_CHAT_REQ_LOGIN
  <2>1. UNCHANGED <<playerMap, free>>
    BY <1>4, PacketStepFrame DEF PacketStep
  <2> QED
    BY <1>4, <2>1, LoginFields, LoginFieldsNoPlayer, PoolKept
<1>5. CASE proc_PACKET_CS_CHAT_REQ_SECTOR_MOVE
  <2>1. UNCHANGED <<playerMap, free>>
    BY <1>5, PacketStepFrame DEF PacketStep
  <2> QED
    BY <1>5, <2>1, MoveFields, PoolKept
<1>6. CASE QuietStep
  BY <1>6, QuietFields, PoolKept
<1>7. CASE UNCHANGED <<playerMap, free, player>>
  BY <1>7, PoolKept
<1> QED
  BY <1>1, <1>2, <1>3, <1>4, <1>5, <1>6, <1>7, NextCases, CallbackFrame
  DEF PacketStep, QuietStep

-----------------------------------------------------------------------------
(* The sectors. *)

(* In a consistent state LeaveSector takes the player out of its list and  *)
(* clears its coordinates, or had nothing to do.                           *)
LEMMA LeaveSectorWorks ==
  ASSUME TypeOK, SectorListsMatchPlayers, NEW p \in Player, InMap(p)
  PROVE  /\ \A c \in Cell, q \in Player :
              SectorWithout(p)[c][q] = IF q = p THEN 0 ELSE sector[c][q]
         /\ RecordWithoutSector(p).x = -1 \/ RecordWithoutSector(p).y = -1
<1>1. CASE HasSector(p)
  <2>1. CellOf(p) \in Cell
    BY <1>1, CellOfType
  <2>2. \A c \in Cell : sector[c][p] = IF c = CellOf(p) THEN 1 ELSE 0
    BY <1>1 DEF SectorListsMatchPlayers
  <2>3. Leaves(p)
    BY <1>1, <2>1, <2>2 DEF Leaves
  <2>4. SectorWithout(p) = [sector EXCEPT ![CellOf(p)][p] = 0]
    BY <2>3 DEF SectorWithout
  <2>5. RecordWithoutSector(p).x = -1
    BY <2>3 DEF RecordWithoutSector, TypeOK, PlayerRecord
  <2> HIDE DEF Cell
  <2>6. ASSUME NEW c \in Cell, NEW q \in Player
        PROVE  SectorWithout(p)[c][q] = IF q = p THEN 0 ELSE sector[c][q]
    BY <2>1, <2>2, <2>4 DEF TypeOK
  <2> QED
    BY <2>5, <2>6
<1>2. CASE ~HasSector(p)
  <2>1. \A c \in Cell : sector[c][p] = 0
    BY <1>2 DEF SectorListsMatchPlayers
  <2>2. SectorWithout(p) = sector /\ RecordWithoutSector(p) = player[p]
    BY <1>2 DEF Leaves, SectorWithout, RecordWithoutSector
  <2> QED
    BY <1>2, <2>1, <2>2 DEF HasSector
<1> QED
  BY <1>1, <1>2

(* Initially every list is empty.                                          *)
LEMMA InitSector == Init => SectorListsMatchPlayers
BY DEF Init, SectorListsMatchPlayers, NoCopies, NoOne, HasSector

(* Steps that leave map, lists and coordinates alone keep the lists        *)
(* right.                                                                  *)
LEMMA SectorKept ==
  ASSUME SectorListsMatchPlayers, UNCHANGED <<playerMap, sector>>,
         \A q \in Player : player'[q].x = player[q].x /\ player'[q].y = player[q].y
  PROVE  SectorListsMatchPlayers'
BY DEF SectorListsMatchPlayers, InMap, HasSector, CellOf

(* SetSector keeps the lists right, whether it refuses the sector or not.  *)
LEMMA MoveSector ==
  ASSUME TypeOK, SectorListsMatchPlayers, NEW p \in Player, InMap(p),
         NEW x \in Int, NEW y \in Int, SetSector(p, x, y), UNCHANGED playerMap
  PROVE  SectorListsMatchPlayers'
<1> SUFFICES ASSUME NEW c \in Cell, NEW q \in Player
             PROVE  sector'[c][q] =
                      IF InMap(q)' /\ HasSector(q)' /\ CellOf(q)' = c THEN 1 ELSE 0
  BY DEF SectorListsMatchPlayers
<1>1. InMap(q)' <=> InMap(q)
  BY DEF InMap
<1>2. /\ \A d \in Cell, r \in Player :
             SectorWithout(p)[d][r] = IF r = p THEN 0 ELSE sector[d][r]
      /\ RecordWithoutSector(p).x = -1 \/ RecordWithoutSector(p).y = -1
      /\ SectorWithout(p) \in [Cell -> [Player -> Nat]]
      /\ RecordWithoutSector(p) \in PlayerRecord
  BY LeaveSectorWorks, SectorWithoutType, RecordWithoutSectorType
<1>3. CASE q # p
  <2>1. player'[q] = player[q]
    BY <1>3 DEF SetSector, TypeOK
  <2>2. HasSector(q)' = HasSector(q) /\ CellOf(q)' = CellOf(q)
    BY <2>1 DEF HasSector, CellOf
  <2>3. sector'[c][q] = SectorWithout(p)[c][q]
    <3>1. CASE InRange(x, y)
      <4>1. sector' = [SectorWithout(p) EXCEPT ![<<y, x>>][p] = @ + 1]
        BY <3>1 DEF SetSector
      <4> HIDE DEF Cell
      <4> QED
        BY <1>2, <1>3, <4>1
    <3>2. CASE ~InRange(x, y)
      BY <3>2 DEF SetSector
    <3> QED
      BY <3>1, <3>2
  <2> QED
    BY <1>1, <1>2, <1>3, <2>2, <2>3 DEF SectorListsMatchPlayers
<1>4. CASE q = p /\ InRange(x, y)
  <2>1. <<y, x>> \in Cell /\ x # -1 /\ y # -1
    BY <1>4 DEF InRange, Cell
  <2>2. sector' = [SectorWithout(p) EXCEPT ![<<y, x>>][p] = @ + 1]
    BY <1>4 DEF SetSector
  <2>3. SectorWithout(p)[c][p] = 0
    BY <1>2
  <2>4. sector'[c][p] = IF c = <<y, x>> THEN 1 ELSE 0
    BY <1>2, <2>1, <2>2, <2>3
  <2>5. player'[p].x = x /\ player'[p].y = y
    <3>1. player'[p] = [RecordWithoutSector(p) EXCEPT !.x = x, !.y = y, !.age = 0]
      BY <1>4 DEF SetSector, TypeOK
    <3>2. ASSUME NEW r \in PlayerRecord
          PROVE  /\ [r EXCEPT !.x = x, !.y = y, !.age = 0].x = x
                 /\ [r EXCEPT !.x = x, !.y = y, !.age = 0].y = y
      BY DEF PlayerRecord
    <3> QED
      BY <1>2, <3>1, <3>2
  <2> QED
    BY <1>1, <1>4, <2>1, <2>4, <2>5 DEF HasSector, CellOf
<1>5. CASE q = p /\ ~InRange(x, y)
  <2>1. player'[p] = RecordWithoutSector(p) /\ sector' = SectorWithout(p)
    BY <1>5 DEF SetSector, TypeOK
  <2> QED
    BY <1>2, <1>5, <2>1 DEF HasSector
<1> QED
  BY <1>3, <1>4, <1>5

(* Every step keeps the lists in step with the players.                    *)
LEMMA NextSector ==
  /\ TypeOK /\ LifetimeInv /\ PoolMatchesMap /\ SectorListsMatchPlayers
  /\ [Next]_vars
  => SectorListsMatchPlayers'
<1> SUFFICES ASSUME TypeOK, LifetimeInv, PoolMatchesMap, SectorListsMatchPlayers,
                    [Next]_vars
             PROVE  SectorListsMatchPlayers'
  OBVIOUS
<1>1. CASE proc_MSG_JOIN
  <2>1. PICK p \in free :
          /\ p # Null /\ Who \in Session /\ playerMap[Who] = Null
          /\ playerMap' = [playerMap EXCEPT ![Who] = p] /\ sector' = sector
          /\ player'[p].x = -1
          /\ \A q \in Player \ {p} : player'[q] = player[q]
    BY <1>1, JoinFields
  <2>2. p \in Player /\ ~InMap(p)
    BY DEF PoolMatchesMap
  <2>3. \A q \in Player \ {p} : InMap(q)' <=> InMap(q)
    BY <2>1, NullAssumption DEF InMap, TypeOK
  <2>4. ASSUME NEW c \in Cell, NEW q \in Player
        PROVE  sector'[c][q] =
                 IF InMap(q)' /\ HasSector(q)' /\ CellOf(q)' = c THEN 1 ELSE 0
    <3>1. CASE q = p
      BY <2>1, <2>2, <3>1 DEF SectorListsMatchPlayers, HasSector
    <3>2. CASE q # p
      BY <2>1, <2>3, <3>2 DEF SectorListsMatchPlayers, HasSector, CellOf
    <3> QED
      BY <3>1, <3>2
  <2> QED
    BY <2>4 DEF SectorListsMatchPlayers
<1>2. CASE proc_MSG_LEAVE /\ playerMap[Who] # Null
  <2> DEFINE p == playerMap[Who]
  <2>1. /\ Who \in Session /\ p \in Player /\ InMap(p)
        /\ playerMap' = [playerMap EXCEPT ![Who] = Null]
        /\ sector' = SectorWithout(p)
        /\ player'[p] = RecordWithoutSector(p)
        /\ \A q \in Player : q # p => player'[q] = player[q]
    BY <1>2, LeaveFields DEF InMap
  <2>2. \A q \in Player : InMap(q)' => InMap(q)
    BY <2>1, NullAssumption DEF InMap, TypeOK
  <2>3. \A q \in Player : InMap(q) /\ q # p => InMap(q)'
    BY <2>1 DEF InMap, TypeOK
  <2>4. /\ \A c \in Cell, q \in Player :
              SectorWithout(p)[c][q] = IF q = p THEN 0 ELSE sector[c][q]
        /\ RecordWithoutSector(p).x = -1 \/ RecordWithoutSector(p).y = -1
    BY <2>1, LeaveSectorWorks
  <2> HIDE DEF p
  <2>5. ASSUME NEW c \in Cell, NEW q \in Player
        PROVE  sector'[c][q] =
                 IF InMap(q)' /\ HasSector(q)' /\ CellOf(q)' = c THEN 1 ELSE 0
    <3>1. CASE q = p
      BY <2>1, <2>4, <3>1 DEF HasSector
    <3>2. CASE q # p
      BY <2>1, <2>2, <2>3, <2>4, <3>2 DEF SectorListsMatchPlayers, HasSector, CellOf
    <3> QED
      BY <3>1, <3>2
  <2> QED
    BY <2>5 DEF SectorListsMatchPlayers
<1>3. CASE proc_MSG_LEAVE /\ playerMap[Who] = Null
  BY <1>3, LeaveFieldsNoPlayer, SectorKept
<1>4. CASE proc_PACKET_CS_CHAT_REQ_LOGIN
  <2>1. UNCHANGED <<playerMap, sector>>
    BY <1>4 DEF proc_PACKET_CS_CHAT_REQ_LOGIN
  <2> QED
    BY <1>4, <2>1, LoginFields, LoginFieldsNoPlayer, SectorKept
<1>5. CASE proc_PACKET_CS_CHAT_REQ_SECTOR_MOVE
  <2>1. playerMap' = playerMap
    BY <1>5 DEF proc_PACKET_CS_CHAT_REQ_SECTOR_MOVE
  <2>2. CASE player' = player /\ sector' = sector
    BY <2>1, <2>2, SectorKept
  <2>3. CASE playerMap[Who] # Null /\ SetSector(playerMap[Who], What.x, What.y)
    <3>1. /\ Who \in Session /\ playerMap[Who] \in Player
          /\ What.x \in Int /\ What.y \in Int
      BY <1>5, <2>3, HeadType, PacketAssumption
      DEF proc_PACKET_CS_CHAT_REQ_SECTOR_MOVE, TakePacket, Dequeue, AnyPacket, TypeOK
    <3>2. InMap(playerMap[Who])
      BY <3>1 DEF InMap
    <3> QED
      BY <2>1, <2>3, <3>1, <3>2, MoveSector
  <2> QED
    BY <1>5, <2>2, <2>3 DEF proc_PACKET_CS_CHAT_REQ_SECTOR_MOVE
<1>6. CASE QuietStep
  BY <1>6, QuietFields, SectorKept
<1>7. CASE UNCHANGED <<playerMap, player, sector>>
  BY <1>7, SectorKept
<1> QED
  BY <1>1, <1>2, <1>3, <1>4, <1>5, <1>6, <1>7, NextCases, CallbackFrame
  DEF PacketStep, QuietStep

-----------------------------------------------------------------------------
(***************************************************************************)
(* The player count.  REQ_LOGIN counts up once for at most one more player *)
(* with an account, and MSG_LEAVE counts down exactly for a player that    *)
(* has one.                                                                *)
(***************************************************************************)
(* The sessions whose player has an account. *)
Counted == {s \in Session : HasAccount(s)}

(* There are finitely many of them. *)
LEMMA CountedFinite == IsFiniteSet(Counted) /\ PlayersWithAccount \in Nat
BY SessionAssumption, FS_Subset, FS_CardinalityType DEF Counted, PlayersWithAccount

(* Steps in which nobody gains or loses an account. *)
LEMMA AccountsKept ==
  ASSUME TypeOK, UNCHANGED <<playerMap, playerCnt>>,
         \A q \in Player : player'[q].account = player[q].account
  PROVE  /\ \A s \in Session : HasAccount(s)' <=> HasAccount(s)
         /\ UNCHANGED <<PlayersWithAccount, playerCnt>>
<1>1. \A s \in Session : HasAccount(s)' <=> HasAccount(s)
  BY DEF TypeOK, HasAccount
<1>2. {s \in Session : HasAccount(s)'} = {s \in Session : HasAccount(s)}
  BY <1>1
<1> QED
  BY <1>1, <1>2 DEF PlayersWithAccount

(* A JOIN gives nobody an account. *)
LEMMA JoinCount ==
  ASSUME TypeOK, LifetimeInv, PoolMatchesMap, proc_MSG_JOIN
  PROVE  /\ \A s \in Session : HasAccount(s)' <=> HasAccount(s)
         /\ UNCHANGED <<PlayersWithAccount, playerCnt>>
<1>1. PICK p \in free :
        /\ p # Null /\ Who \in Session /\ playerMap[Who] = Null
        /\ playerMap' = [playerMap EXCEPT ![Who] = p] /\ playerCnt' = playerCnt
        /\ player'[p].account = NoAccount
        /\ \A q \in Player \ {p} : player'[q] = player[q]
  BY JoinFields
<1>2. \A s \in Session : playerMap[s] # p
  BY DEF PoolMatchesMap, InMap
<1>3. \A s \in Session : HasAccount(s)' <=> HasAccount(s)
  BY <1>1, <1>2 DEF HasAccount, TypeOK
<1>4. {s \in Session : HasAccount(s)'} = {s \in Session : HasAccount(s)}
  BY <1>3
<1> QED
  BY <1>1, <1>3, <1>4 DEF PlayersWithAccount

(* A LEAVE counts down exactly when a player with an account goes. *)
LEMMA LeaveCount ==
  ASSUME TypeOK, PoolMatchesMap, proc_MSG_LEAVE
  PROVE  /\ \A s \in Session : HasAccount(s)' => HasAccount(s)
         /\ \/ UNCHANGED <<PlayersWithAccount, playerCnt>>
            \/ /\ playerCnt' = playerCnt - 1
               /\ PlayersWithAccount' = PlayersWithAccount - 1
<1>1. CASE playerMap[Who] = Null
  <2>1. /\ \A s \in Session : HasAccount(s)' <=> HasAccount(s)
        /\ UNCHANGED <<PlayersWithAccount, playerCnt>>
    BY <1>1, LeaveFieldsNoPlayer, AccountsKept
  <2> QED
    BY <2>1
<1>2. CASE playerMap[Who] # Null
  <2> DEFINE p == playerMap[Who]
  <2>1. /\ Who \in Session /\ p \in Player
        /\ playerMap' = [playerMap EXCEPT ![Who] = Null]
        /\ \A q \in Player : q # p => player'[q] = player[q]
        /\ playerCnt' = LeaveCnt(p)
    BY <1>2, LeaveFields
  <2>2. \A s \in Session : playerMap[s] = p => s = Who
    BY <1>2, <2>1 DEF PoolMatchesMap
  <2>3. ASSUME NEW s \in Session PROVE HasAccount(s)' <=> HasAccount(s) /\ s # Who
    <3>1. CASE s = Who
      BY <2>1, <3>1 DEF HasAccount, TypeOK
    <3>2. CASE s # Who
      BY <2>1, <2>2, <3>2 DEF HasAccount, TypeOK
    <3> QED
      BY <3>1, <3>2
  <2>4. {s \in Session : HasAccount(s)'} = Counted \ {Who}
    BY <2>3 DEF Counted
  <2>5. CASE HasAccount(Who)
    <3>1. Cardinality(Counted \ {Who}) = Cardinality(Counted) - 1
      BY <2>1, <2>5, CountedFinite, FS_RemoveElement DEF Counted
    <3>2. playerCnt' = playerCnt - 1
      BY <2>1, <2>5 DEF LeaveCnt, HasAccount
    <3>3. PlayersWithAccount' = PlayersWithAccount - 1
      BY <2>4, <3>1 DEF PlayersWithAccount, Counted
    <3> QED
      BY <2>3, <3>2, <3>3
  <2>6. CASE ~HasAccount(Who)
    <3>1. Counted \ {Who} = Counted
      BY <2>6 DEF Counted
    <3>2. playerCnt' = playerCnt
      BY <1>2, <2>1, <2>6 DEF LeaveCnt, HasAccount
    <3>3. PlayersWithAccount' = PlayersWithAccount
      BY <2>4, <3>1 DEF PlayersWithAccount, Counted
    <3> QED
      BY <2>3, <3>2, <3>3
  <2> QED
    BY <2>5, <2>6
<1> QED
  BY <1>1, <1>2

(* A login counts up, and only its own player can gain or lose an account. *)
LEMMA LoginCount ==
  ASSUME TypeOK, PoolMatchesMap, proc_PACKET_CS_CHAT_REQ_LOGIN
  PROVE  \/ /\ \A s \in Session : HasAccount(s)' <=> HasAccount(s)
            /\ UNCHANGED <<PlayersWithAccount, playerCnt>>
         \/ /\ \A s \in Session :
                 HasAccount(s)' <=> IF s = Who THEN What.account # NoAccount
                                    ELSE HasAccount(s)
            /\ playerCnt' = playerCnt + 1
            /\ PlayersWithAccount' <= PlayersWithAccount + 1
            /\ ~HasAccount(Who) /\ What.account # NoAccount
                 => PlayersWithAccount' = PlayersWithAccount + 1
<1>1. playerMap' = playerMap /\ Who \in Session
  BY HeadType DEF proc_PACKET_CS_CHAT_REQ_LOGIN, TakePacket, Dequeue
<1>2. CASE playerMap[Who] = Null
  BY <1>1, <1>2, LoginFieldsNoPlayer, AccountsKept
<1>3. CASE playerMap[Who] # Null
  <2> DEFINE p == playerMap[Who]
  <2>1. p \in Player
    BY <1>1, <1>3 DEF TypeOK
  <2>2. /\ \A q \in Player : player'[q].account =
              IF q = p THEN What.account ELSE player[q].account
        /\ playerCnt' = playerCnt + 1
    BY <1>3, <2>1, LoginFields
  <2>3. \A s \in Session : playerMap[s] = p => s = Who
    BY <1>1, <1>3 DEF PoolMatchesMap
  <2>4. ASSUME NEW s \in Session
        PROVE  HasAccount(s)' <=> IF s = Who THEN What.account # NoAccount
                                  ELSE HasAccount(s)
    <3>1. CASE s = Who
      BY <1>1, <1>3, <2>1, <2>2, <3>1 DEF HasAccount
    <3>2. CASE s # Who
      BY <1>1, <2>2, <2>3, <3>2 DEF HasAccount, TypeOK
    <3> QED
      BY <3>1, <3>2
  <2> DEFINE Now == {s \in Session : HasAccount(s)'}
  <2>5. /\ Now \subseteq Counted \cup {Who}
        /\ What.account # NoAccount => Now = Counted \cup {Who}
    BY <1>1, <2>4 DEF Counted
  <2>6. /\ IsFiniteSet(Counted \cup {Who})
        /\ Cardinality(Counted \cup {Who}) = IF Who \in Counted THEN Cardinality(Counted)
                                             ELSE Cardinality(Counted) + 1
    BY CountedFinite, FS_AddElement
  <2>7. /\ Cardinality(Now) <= Cardinality(Counted \cup {Who})
        /\ Cardinality(Counted) \in Nat
    BY <2>5, <2>6, CountedFinite, FS_Subset, FS_CardinalityType
  <2>8. /\ PlayersWithAccount' = Cardinality(Now)
        /\ PlayersWithAccount = Cardinality(Counted)
    BY DEF PlayersWithAccount, Counted
  <2>9. PlayersWithAccount' <= PlayersWithAccount + 1
    <3>1. Cardinality(Now) \in Nat
      BY <2>5, <2>6, FS_Subset, FS_CardinalityType
    <3> HIDE DEF Now
    <3> QED
      BY <2>6, <2>7, <2>8, <3>1
  <2>10. ~HasAccount(Who) /\ What.account # NoAccount => PlayersWithAccount' = PlayersWithAccount + 1
    <3>1. ~HasAccount(Who) => Who \notin Counted
      BY DEF Counted
    <3> QED
      BY <2>5, <2>6, <2>8, <3>1
  <2> QED
    BY <2>2, <2>4, <2>9, <2>10
<1> QED
  BY <1>2, <1>3

(* A step that is neither a LEAVE nor a login leaves the count alone.      *)
LEMMA OthersCount ==
  ASSUME TypeOK, LifetimeInv, PoolMatchesMap, [Next]_vars,
         ~proc_MSG_LEAVE, ~proc_PACKET_CS_CHAT_REQ_LOGIN
  PROVE  /\ \A s \in Session : HasAccount(s)' <=> HasAccount(s)
         /\ UNCHANGED <<PlayersWithAccount, playerCnt>>
<1>1. CASE proc_MSG_JOIN
  BY <1>1, JoinCount
<1>2. CASE proc_PACKET_CS_CHAT_REQ_SECTOR_MOVE
  <2>1. playerMap' = playerMap /\ playerCnt' = playerCnt
    BY <1>2 DEF proc_PACKET_CS_CHAT_REQ_SECTOR_MOVE
  <2> QED
    BY <1>2, <2>1, MoveFields, AccountsKept
<1>3. CASE QuietStep
  BY <1>3, QuietFields, AccountsKept
<1>4. CASE UNCHANGED <<playerMap, player, playerCnt>>
  BY <1>4, AccountsKept
<1> QED
  BY <1>1, <1>2, <1>3, <1>4, NextCases
  DEF PacketStep, QuietStep, OnClientJoin, OnRecv, OnClientLeave, worldVars

(* Nobody is counted at the start. *)
LEMMA InitCovers == Init => PlayersWithAccount = 0 /\ playerCnt = 0
<1> SUFFICES ASSUME Init PROVE PlayersWithAccount = 0
  BY DEF Init
<1>1. {s \in Session : HasAccount(s)} = {}
  BY DEF Init, HasAccount
<1> QED
  BY <1>1, FS_EmptySet DEF PlayersWithAccount

(* No step lets _lMonitor_PlayerCnt fall short. *)
LEMMA NextCovers ==
  TypeOK /\ LifetimeInv /\ PoolMatchesMap /\ PlayerCntCoversPlayers /\ [Next]_vars
    => PlayerCntCoversPlayers'
<1> SUFFICES ASSUME TypeOK, LifetimeInv, PoolMatchesMap, PlayerCntCoversPlayers,
                    [Next]_vars
             PROVE  PlayerCntCoversPlayers'
  OBVIOUS
<1>1. /\ playerCnt \in Int /\ playerCnt' \in Int
      /\ PlayersWithAccount \in Nat /\ PlayersWithAccount' \in Nat
  <2>1. IsFiniteSet(Counted') /\ PlayersWithAccount' = Cardinality(Counted')
    BY SessionAssumption, FS_Subset DEF Counted, PlayersWithAccount
  <2> QED
    BY <2>1, CountedFinite, FS_CardinalityType, NextTypeOK DEF TypeOK
<1>2. CASE proc_MSG_LEAVE
  BY <1>1, <1>2, LeaveCount DEF PlayerCntCoversPlayers
<1>3. CASE proc_PACKET_CS_CHAT_REQ_LOGIN
  BY <1>1, <1>3, LoginCount DEF PlayerCntCoversPlayers
<1>4. CASE ~proc_MSG_LEAVE /\ ~proc_PACKET_CS_CHAT_REQ_LOGIN
  BY <1>4, OthersCount DEF PlayerCntCoversPlayers
<1> QED
  BY <1>2, <1>3, <1>4

-----------------------------------------------------------------------------
(***************************************************************************)
(* When it is exact: if no client sends more than one REQ_LOGIN in a       *)
(* session, and none under account number 0, its player has no account     *)
(* when the login is handled and has one afterwards.                       *)
(***************************************************************************)
OneLoginEach ==
  /\ LoginMax <= 1
  /\ \A packet \in Packet : packet.type = "LOGIN" => packet.account # NoAccount

LoginAt(i) == messageQ[i].type = "PACKET" /\ messageQ[i].packet.type = "LOGIN"

LoginQueued(s) ==
  \E i \in 1 .. Len(messageQ) : messageQ[i].session = s /\ LoginAt(i)

LoginOnce ==
  \A i, j \in 1 .. Len(messageQ) :
    LoginAt(i) /\ LoginAt(j) /\ messageQ[i].session = messageQ[j].session => i = j

LoginInv ==
  /\ LoginOnce
  /\ \A s \in Session :
       /\ LoginQueued(s) \/ HasAccount(s) => asked[s] > 0
       /\ LoginQueued(s) => ~HasAccount(s)

CountInv == LoginInv /\ PlayerCntMatchesPlayers

(* A callback adds a pending login only for the session that asked just    *)
(* now.                                                                    *)
LEMMA EnqueueLogin ==
  ASSUME TypeOK, LoginOnce, NEW s \in Session, NEW type, NEW packet,
         Enqueue(type, s, packet),
         type = "PACKET" /\ packet.type = "LOGIN" => ~LoginQueued(s),
         NEW t \in Session
  PROVE  /\ LoginOnce'
         /\ LoginQueued(t)' <=> \/ LoginQueued(t)
                                \/ t = s /\ type = "PACKET" /\ packet.type = "LOGIN"
<1> DEFINE m == [type |-> type, session |-> s, packet |-> packet]
           n == Len(messageQ)
<1>1. /\ Len(messageQ') = n + 1 /\ n \in Nat /\ messageQ'[n + 1] = m
      /\ \A i \in 1 .. n : messageQ'[i] = messageQ[i]
  BY DEF TypeOK, Enqueue
<1>2. m.type = type /\ m.session = s /\ m.packet = packet
  OBVIOUS
<1>3. 1 .. n + 1 = (1 .. n) \cup {n + 1}
  BY <1>1
<1>4. n = Len(messageQ)
  OBVIOUS
<1> HIDE DEF m, n
<1>5. LoginOnce'
  BY <1>1, <1>2, <1>3, <1>4 DEF LoginOnce, LoginQueued, LoginAt
<1>6. LoginQueued(t)' <=> \/ LoginQueued(t)
                          \/ t = s /\ type = "PACKET" /\ packet.type = "LOGIN"
  <2>1. \A i \in 1 .. n : LoginAt(i)' <=> LoginAt(i)
    BY <1>1 DEF LoginAt
  <2>2. \A i \in {n + 1} : LoginAt(i)' <=> type = "PACKET" /\ packet.type = "LOGIN"
    BY <1>1, <1>2 DEF LoginAt
  <2>3. LoginQueued(t)' <=>
          \E i \in (1 .. n) \cup {n + 1} : messageQ'[i].session = t /\ LoginAt(i)'
    BY <1>1, <1>3 DEF LoginQueued
  <2> QED
    BY <1>1, <1>2, <1>4, <2>1, <2>2, <2>3 DEF LoginQueued
<1> QED
  BY <1>5, <1>6

HeadIsLogin == Head(messageQ).type = "PACKET" /\ What.type = "LOGIN"

(* Taking the head off removes at most its own pending login.              *)
LEMMA DequeueLogin ==
  ASSUME TypeOK, LoginOnce, messageQ # <<>>, messageQ' = Tail(messageQ)
  PROVE  /\ LoginOnce'
         /\ \A t \in Session :
              /\ LoginQueued(t)' => LoginQueued(t)
              /\ t = Who /\ HeadIsLogin => LoginQueued(t) /\ ~LoginQueued(t)'
<1> DEFINE n == Len(messageQ)
<1>1. /\ n \in Nat \ {0} /\ Len(messageQ') = n - 1 /\ Head(messageQ) = messageQ[1]
      /\ \A i \in 1 .. n - 1 : messageQ'[i] = messageQ[i + 1]
  BY DEF TypeOK
<1>2. \A i \in 1 .. n - 1 : i + 1 \in 1 .. n /\ i + 1 # 1
  BY <1>1
<1>3. n = Len(messageQ) /\ 1 \in 1 .. n
  BY <1>1
<1> HIDE DEF n
<1>4. \A i \in 1 .. n - 1 : LoginAt(i)' <=> LoginAt(i + 1)
  BY <1>1 DEF LoginAt
<1>5. LoginOnce'
  <2>1. ASSUME NEW i \in 1 .. n - 1, NEW j \in 1 .. n - 1, LoginAt(i)', LoginAt(j)',
               messageQ'[i].session = messageQ'[j].session
        PROVE  i = j
    <3>1. i + 1 = j + 1
      BY <1>1, <1>2, <1>3, <1>4, <2>1 DEF LoginOnce
    <3> QED
      BY <3>1
  <2> QED
    BY <1>1, <2>1 DEF LoginOnce
<1>6. ASSUME NEW t \in Session, LoginQueued(t)' PROVE LoginQueued(t)
  BY <1>1, <1>2, <1>3, <1>4, <1>6 DEF LoginQueued
<1>7. ASSUME NEW t \in Session, t = Who, HeadIsLogin
      PROVE  LoginQueued(t) /\ ~LoginQueued(t)'
  <2>1. LoginAt(1) /\ messageQ[1].session = t
    BY <1>1, <1>7 DEF LoginAt, HeadIsLogin, Who, What
  <2>2. LoginQueued(t)
    BY <1>3, <2>1 DEF LoginQueued
  <2>3. ASSUME NEW i \in 1 .. n - 1, messageQ'[i].session = t PROVE ~LoginAt(i)'
    BY <1>1, <1>2, <1>3, <1>4, <2>1, <2>3 DEF LoginOnce
  <2> QED
    BY <1>1, <2>2, <2>3 DEF LoginQueued
<1> QED
  BY <1>5, <1>6, <1>7

(* Initially nobody has an account and nobody is counted.                  *)
LEMMA InitCount == Init => CountInv
<1> SUFFICES ASSUME Init PROVE CountInv
  OBVIOUS
<1>1. LoginInv
  BY DEF Init, LoginInv, LoginOnce, LoginQueued, HasAccount
<1> QED
  BY <1>1, InitCovers DEF CountInv, PlayerCntMatchesPlayers

(* Every step changes _lMonitor_PlayerCnt as it changes the players with   *)
(* an account.                                                             *)
LEMMA NextCount ==
  ASSUME OneLoginEach, TypeOK, LifetimeInv, PoolMatchesMap, CountInv, [Next]_vars
  PROVE  CountInv'
<1>1. playerCnt \in Int /\ PlayersWithAccount \in Nat
  BY CountedFinite DEF TypeOK
<1>2. CASE \E s \in Session, packet \in Packet : OnRecv(s, packet)
  <2>1. PICK s \in Session, packet \in Packet : OnRecv(s, packet)
    BY <1>2
  <2>2. /\ packet.type = "LOGIN" => asked[s] = 0
        /\ asked' = [asked EXCEPT ![s] = IF packet.type = "LOGIN" THEN @ + 1 ELSE @]
        /\ Enqueue("PACKET", s, packet)
        /\ UNCHANGED <<playerMap, player, playerCnt>>
    BY <2>1, BoundAssumption DEF OnRecv, worldVars, OneLoginEach, TypeOK
  <2>3. /\ LoginOnce'
        /\ \A t \in Session :
             LoginQueued(t)' <=> LoginQueued(t) \/ (t = s /\ packet.type = "LOGIN")
    <3>1. packet.type = "LOGIN" => ~LoginQueued(s)
      BY <2>2 DEF CountInv, LoginInv
    <3>2. LoginOnce
      BY DEF CountInv, LoginInv
    <3> QED
      BY <2>2, <3>1, <3>2, EnqueueLogin
  <2>4. /\ \A t \in Session : HasAccount(t)' <=> HasAccount(t)
        /\ PlayerCntMatchesPlayers'
    BY <2>2, AccountsKept DEF CountInv, PlayerCntMatchesPlayers
  <2>5. /\ \A t \in Session : asked[t] \in Nat /\ asked[t] <= asked'[t]
        /\ packet.type = "LOGIN" => asked'[s] = 1
    BY <2>2 DEF TypeOK
  <2> QED
    BY <2>2, <2>3, <2>4, <2>5 DEF CountInv, LoginInv
<1>3. CASE \E s \in Session : OnClientJoin(s) \/ OnClientLeave(s)
  <2>1. PICK s \in Session, type \in {"JOIN", "LEAVE"} :
          /\ Enqueue(type, s, Null)
          /\ UNCHANGED <<asked, playerMap, player, playerCnt>>
    BY <1>3 DEF OnClientJoin, OnClientLeave, worldVars
  <2>2. LoginOnce' /\ \A t \in Session : LoginQueued(t)' <=> LoginQueued(t)
    <3>1. LoginOnce /\ type # "PACKET"
      BY DEF CountInv, LoginInv
    <3> QED
      BY <2>1, <3>1, EnqueueLogin
  <2>3. /\ \A t \in Session : HasAccount(t)' <=> HasAccount(t)
        /\ PlayerCntMatchesPlayers'
    BY <2>1, AccountsKept DEF CountInv, PlayerCntMatchesPlayers
  <2> QED
    BY <2>1, <2>2, <2>3 DEF CountInv, LoginInv
<1>4. ASSUME messageQ # <<>>, messageQ' = Tail(messageQ), asked' = asked,
             \A t \in Session : HasAccount(t)' => HasAccount(t)
      PROVE  LoginInv'
  <2>1. LoginOnce' /\ \A t \in Session : LoginQueued(t)' => LoginQueued(t)
    BY <1>4, DequeueLogin DEF CountInv, LoginInv
  <2> QED
    BY <1>4, <2>1 DEF CountInv, LoginInv
<1>5. CASE proc_MSG_JOIN
  <2>1. messageQ # <<>> /\ messageQ' = Tail(messageQ) /\ asked' = asked
    BY <1>5 DEF proc_MSG_JOIN, Dequeue
  <2> QED
    BY <1>4, <1>5, <2>1, JoinCount DEF CountInv, PlayerCntMatchesPlayers
<1>6. CASE proc_MSG_LEAVE
  <2>1. messageQ # <<>> /\ messageQ' = Tail(messageQ) /\ asked' = asked
    BY <1>6 DEF proc_MSG_LEAVE, Dequeue
  <2>2. playerCnt' \in Int /\ PlayersWithAccount' \in Nat
    <3>1. IsFiniteSet(Counted') /\ PlayersWithAccount' = Cardinality(Counted')
      BY SessionAssumption, FS_Subset DEF Counted, PlayersWithAccount
    <3> QED
      BY <3>1, FS_CardinalityType, NextTypeOK DEF TypeOK
  <2>3. PlayerCntMatchesPlayers'
    BY <1>1, <1>6, <2>2, LeaveCount DEF CountInv, PlayerCntMatchesPlayers
  <2> QED
    BY <1>4, <1>6, <2>1, <2>3, LeaveCount DEF CountInv
<1>7. CASE proc_PACKET_CS_CHAT_REQ_LOGIN
  <2>1. /\ messageQ # <<>> /\ messageQ' = Tail(messageQ) /\ asked' = asked
        /\ HeadIsLogin /\ Who \in Session /\ What \in Packet
    BY <1>7, PacketStepFrame, HeadType
    DEF PacketStep, proc_PACKET_CS_CHAT_REQ_LOGIN, TakePacket, Dequeue, HeadIsLogin
  <2>2. CASE /\ \A s \in Session : HasAccount(s)' <=> HasAccount(s)
             /\ UNCHANGED <<PlayersWithAccount, playerCnt>>
    BY <1>4, <2>1, <2>2 DEF CountInv, PlayerCntMatchesPlayers
  <2>3. CASE /\ \A s \in Session :
                  HasAccount(s)' <=> IF s = Who THEN What.account # NoAccount
                                     ELSE HasAccount(s)
             /\ playerCnt' = playerCnt + 1
             /\ ~HasAccount(Who) /\ What.account # NoAccount
                  => PlayersWithAccount' = PlayersWithAccount + 1
    <3>1. What.account # NoAccount
      BY <2>1, <2>3 DEF HeadIsLogin, OneLoginEach
    <3>2. /\ LoginOnce'
          /\ \A t \in Session :
               /\ LoginQueued(t)' => LoginQueued(t)
               /\ t = Who => LoginQueued(t) /\ ~LoginQueued(t)'
      BY <2>1, DequeueLogin DEF CountInv, LoginInv
    <3>3. ~HasAccount(Who) /\ asked[Who] > 0
      BY <2>1, <3>2 DEF CountInv, LoginInv
    <3>4. LoginInv'
      BY <2>1, <2>3, <3>2, <3>3 DEF CountInv, LoginInv
    <3> QED
      BY <2>3, <3>1, <3>3, <3>4 DEF CountInv, PlayerCntMatchesPlayers
  <2> QED
    BY <1>7, <2>2, <2>3, LoginCount
<1>8. CASE \/ proc_PACKET_CS_CHAT_REQ_SECTOR_MOVE \/ QuietStep
  <2>1. /\ \A s \in Session : HasAccount(s)' <=> HasAccount(s)
        /\ PlayerCntMatchesPlayers'
    <3>1. CASE proc_PACKET_CS_CHAT_REQ_SECTOR_MOVE
      <4>1. playerMap' = playerMap /\ playerCnt' = playerCnt
        BY <3>1 DEF proc_PACKET_CS_CHAT_REQ_SECTOR_MOVE
      <4> QED
        BY <3>1, <4>1, MoveFields, AccountsKept DEF CountInv, PlayerCntMatchesPlayers
    <3>2. CASE QuietStep
      BY <3>2, QuietFields, AccountsKept DEF CountInv, PlayerCntMatchesPlayers
    <3> QED
      BY <1>8, <3>1, <3>2
  <2>2. CASE PacketStep
    BY <1>4, <2>1, <2>2, PacketStepFrame DEF CountInv
  <2>3. CASE UNCHANGED <<messageQ, asked>>
    BY <2>1, <2>3 DEF CountInv, LoginInv, LoginOnce, LoginQueued, LoginAt
  <2> QED
    BY <1>8, <2>2, <2>3, LoginServerStepFrame
    DEF QuietStep, PacketStep, Tick, vars
<1> QED
  BY <1>2, <1>3, <1>5, <1>6, <1>7, <1>8, NextCases DEF PacketStep, QuietStep

-----------------------------------------------------------------------------
(* What follows from the invariants. *)

(* What the life-cycle invariant says about the handlers.                  *)
LEMMA LifetimeConsequences ==
  ASSUME TypeOK, LifetimeInv
  PROVE  MessageFindsItsPlayer /\ NoPlayerOutlivesItsSession
<1>1. NoPlayerOutlivesItsSession
  BY DEF LifetimeInv, Lifetime, NoPlayerOutlivesItsSession, Expected, LeaveQueued, Pending
<1>2. ASSUME messageQ # <<>>
      PROVE  Head(messageQ).type = "JOIN" <=> playerMap[Who] = Null
  <2>1. /\ Who \in Session /\ Len(messageQ) \in Nat /\ 1 \in 1 .. Len(messageQ)
        /\ Head(messageQ) = messageQ[1] /\ messageQ[1].session = Who
    BY <1>2, HeadType DEF TypeOK, Who
  <2>2. Expected(Who)
    BY <2>1 DEF LifetimeInv, Lifetime, Pending
  <2>3. JoinQueued(Who) <=> Head(messageQ).type = "JOIN"
    BY <2>1 DEF LifetimeInv, QueueOrder, JoinQueued
  <2> QED
    BY <2>1, <2>2, <2>3 DEF LifetimeInv, Lifetime, Expected
<1> QED
  BY <1>1, <1>2 DEF MessageFindsItsPlayer

(* GetSectorAround yields the sectors at most one away in each direction.  *)
LEMMA AroundIsNear ==
  ASSUME NEW x \in Int, NEW y \in Int, NEW a \in Int, NEW b \in Int, <<b, a>> \in Cell
  PROVE  <<b, a>> \in GetSectorAround(y, x) <=> x - a \in -1 .. 1 /\ y - b \in -1 .. 1
<1>1. ASSUME x - a \in -1 .. 1, y - b \in -1 .. 1
      PROVE  <<b, a>> \in GetSectorAround(y, x)
  <2>1. b - y + 1 \in 0 .. 2 /\ a - x + 1 \in 0 .. 2
    BY <1>1
  <2>2. b = y - 1 + (b - y + 1) /\ a = x - 1 + (a - x + 1)
    OBVIOUS
  <2> QED
    BY <2>1, <2>2 DEF GetSectorAround
<1>2. ASSUME <<b, a>> \in GetSectorAround(y, x)
      PROVE  x - a \in -1 .. 1 /\ y - b \in -1 .. 1
  BY <1>2 DEF GetSectorAround
<1> QED
  BY <1>1, <1>2

ChatIsHeardAround(s) ==
  \A c \in Cell, q \in Player :
    sent'[c][q] = IF /\ \E t \in Session : playerMap[t] = q /\ player[q].session = t
                     /\ Near(playerMap[s], q)
                     /\ CellOf(q) = c
                  THEN 1 ELSE 0

(* In a consistent state SendPacket_Around reaches each neighbour once.    *)
LEMMA AroundReachesNeighbours ==
  ASSUME TypeOK, PoolMatchesMap, SectorListsMatchPlayers,
         NEW s \in Session, playerMap[s] # Null, sent' = SendPacket_Around(playerMap[s])
  PROVE  ChatIsHeardAround(s)
<1> DEFINE p == playerMap[s]
<1>1. p \in Player
  BY DEF TypeOK
<1> SUFFICES ASSUME NEW c \in Cell, NEW q \in Player
             PROVE  sent'[c][q] =
                      IF /\ \E t \in Session : playerMap[t] = q /\ player[q].session = t
                         /\ Near(p, q)
                         /\ CellOf(q) = c
                      THEN 1 ELSE 0
  BY DEF ChatIsHeardAround
<1>2. InMap(q) <=> \E t \in Session : playerMap[t] = q /\ player[q].session = t
  BY NullAssumption DEF InMap, PoolMatchesMap
<1>3. sector[c][q] = IF InMap(q) /\ HasSector(q) /\ CellOf(q) = c THEN 1 ELSE 0
  BY DEF SectorListsMatchPlayers
<1>4. CASE ~HasSector(p)
  BY <1>4 DEF SendPacket_Around, NoCopies, NoOne, Near
<1>5. CASE HasSector(p)
  <2>1. sent'[c][q] = IF c \in GetSectorAround(player[p].y, player[p].x)
                      THEN sector[c][q] ELSE 0
    BY <1>5 DEF SendPacket_Around, NoOne
  <2>2. CASE CellOf(q) = c
    <3>1. /\ player[p].x \in Int /\ player[p].y \in Int
          /\ player[q].x \in Int /\ player[q].y \in Int
      BY <1>1, GridAssumption DEF TypeOK, PlayerRecord
    <3>2. c \in GetSectorAround(player[p].y, player[p].x) <=>
            /\ player[p].x - player[q].x \in -1 .. 1
            /\ player[p].y - player[q].y \in -1 .. 1
      BY <2>2, <3>1, AroundIsNear DEF CellOf
    <3> QED
      BY <1>2, <1>3, <1>5, <2>1, <2>2, <3>2 DEF Near
  <2>3. CASE CellOf(q) # c
    BY <1>3, <2>1, <2>3
  <2> QED
    BY <2>2, <2>3
<1> QED
  BY <1>4, <1>5

(* A step that takes a valid chat off the queue is the handler of chats.   *)
LEMMA ChatStep ==
  ASSUME TypeOK, [Next]_vars, NEW s \in Session, ChatFrom(s)
  PROVE  sent' = SendPacket_Around(playerMap[s])
<1>1. /\ messageQ # <<>> /\ messageQ' = Tail(messageQ) /\ Who = s
      /\ Head(messageQ).type = "PACKET" /\ What.type = "MESSAGE"
      /\ playerMap[s] # Null /\ ~WrongAccount(playerMap[s])
  BY DEF ChatFrom, TakePacket, Dequeue
<1>2. Len(messageQ') = Len(messageQ) - 1 /\ Len(messageQ) \in Nat \ {0}
  BY <1>1 DEF TypeOK
<1>3. messageQ' # messageQ
  BY <1>2
<1>4. ASSUME NEW t, NEW type, NEW packet, Enqueue(type, t, packet) PROVE FALSE
  BY <1>2, <1>4 DEF Enqueue, TypeOK
<1>5. proc_PACKET_CS_CHAT_REQ_MESSAGE
  BY <1>1, <1>3, <1>4, NextCases, LoginServerStepFrame
  DEF OnClientJoin, OnRecv, OnClientLeave, Tick, vars, PacketStep, TakePacket, Dequeue,
      proc_MSG_JOIN, proc_MSG_LEAVE, proc_PACKET_CS_CHAT_REQ_LOGIN,
      proc_PACKET_CS_CHAT_REQ_SECTOR_MOVE, proc_PACKET_CS_CHAT_REQ_HEARTBEAT,
      proc_MSG_PACKET_Unknown
<1> QED
  BY <1>1, <1>5 DEF proc_PACKET_CS_CHAT_REQ_MESSAGE

ShareTakenByItsClient(a) ==
  /\ TakePacket("LOGIN")
  /\ What.account = a /\ What.key = loginMap[a].key
  /\ reply'[Who] = "ok"

(* Every step that removes a fresh share grants the login it was made      *)
(* for.                                                                    *)
LEMMA ShareStep ==
  ASSUME TypeOK, [Next]_vars, NEW a \in Account, loginMap[a] # Null, loginMap'[a] = Null,
         loginMap[a].age <= InfoTimeout
  PROVE  ShareTakenByItsClient(a)
<1>1. loginMap[a] \in LoginInfo
  BY DEF TypeOK
<1>2. loginMap' # loginMap
  OBVIOUS
<1>3. ~LoginMap_Timeout
  BY <1>1, BoundAssumption DEF LoginMap_Timeout, Expired, LoginInfo
<1>4. ~Tick
  <2>1. [loginMap[a] EXCEPT !.age = Older(@, InfoTimeout + 1)] \in LoginInfo
    BY <1>1, BoundAssumption DEF LoginInfo, Older
  <2> QED
    BY <2>1, NullAssumption DEF Tick
<1>5. ASSUME NEW b \in Account, NEW k \in Key,
             proc_PACKET_SS_REQ_NEW_CLIENT_LOGIN(b, k)
      PROVE  FALSE
  <2>1. [key |-> k, age |-> 0] \in LoginInfo
    BY BoundAssumption DEF LoginInfo
  <2> QED
    BY <1>5, <2>1, NullAssumption DEF proc_PACKET_SS_REQ_NEW_CLIENT_LOGIN, TypeOK
<1>6. proc_PACKET_CS_CHAT_REQ_LOGIN
  BY <1>2, <1>3, <1>4, <1>5, NextCases
  DEF OnClientJoin, OnRecv, OnClientLeave, vars, PacketStep, LoginServerStep,
      LoginClient_OnClientJoin, LoginClient_OnClientLeave,
      proc_MSG_JOIN, proc_MSG_LEAVE, proc_PACKET_CS_CHAT_REQ_SECTOR_MOVE,
      proc_PACKET_CS_CHAT_REQ_MESSAGE, proc_PACKET_CS_CHAT_REQ_HEARTBEAT,
      proc_MSG_PACKET_Unknown
<1>7. TakePacket("LOGIN") /\ Who \in Session
  BY <1>6, HeadType DEF proc_PACKET_CS_CHAT_REQ_LOGIN, TakePacket, Dequeue
<1>8. Login(playerMap[Who])
  BY <1>2, <1>6 DEF proc_PACKET_CS_CHAT_REQ_LOGIN
<1>9. /\ loginConn /\ LoginMap_Remove(What.account, What.key)
      /\ loginMap' = [loginMap EXCEPT ![What.account] = Null]
  BY <1>2, <1>8 DEF Login
<1>10. What.account = a
  BY <1>9 DEF TypeOK
<1>11. reply'[Who] = "ok"
  BY <1>7, <1>8, <1>9 DEF Login, TypeOK
<1> QED
  BY <1>7, <1>9, <1>10, <1>11 DEF ShareTakenByItsClient, LoginMap_Remove

-----------------------------------------------------------------------------
(* The inductive invariant: players live as long as the queue says, the    *)
(* pool and the map share out the objects, the sectors list exactly the    *)
(* mapped players, and the count never falls short of them.                *)
IInv ==
  /\ TypeOK /\ LifetimeInv /\ PoolMatchesMap /\ SectorListsMatchPlayers
  /\ PlayerCntCoversPlayers

(* The conjunction of all parts is an invariant of every behaviour of the  *)
(* chat server.                                                            *)
THEOREM InductiveInvariant == Spec => []IInv
<1>1. Init => IInv
  BY InitTypeOK, InitLifetime, InitPool, InitSector, InitCovers
  DEF IInv, PlayerCntCoversPlayers
<1>2. IInv /\ [Next]_vars => IInv'
  BY NextTypeOK, NextLifetime, NextPool, NextSector, NextCovers DEF IInv
<1> QED
  BY <1>1, <1>2, PTL DEF Spec

(* For any grid and any moves, refused ones included, the sector lists     *)
(* hold exactly the mapped players, each once and where it stands.         *)
THEOREM SectorsCorrect == Spec => []SectorListsMatchPlayers
<1>1. IInv => SectorListsMatchPlayers
  BY DEF IInv
<1> QED
  BY <1>1, InductiveInvariant, PTL

(* _PlayerPool and _PlayerMap never share or lose an st_PLAYER.            *)
THEOREM PoolCorrect == Spec => []PoolMatchesMap
<1>1. IInv => PoolMatchesMap
  BY DEF IInv
<1> QED
  BY <1>1, InductiveInvariant, PTL

(* SearchPlayer finds the player of every PACKET and LEAVE that is handled, *)
(* and a session that ended with its messages handled leaves no st_PLAYER.  *)
THEOREM PlayerLifetimeCorrect == Spec => []PlayerLivesFromJoinToLeave
<1>1. IInv => PlayerLivesFromJoinToLeave
  BY LifetimeConsequences DEF IInv, PlayerLivesFromJoinToLeave
<1> QED
  BY <1>1, InductiveInvariant, PTL

(* Whatever logins the clients send, _lMonitor_PlayerCnt never falls below *)
(* the number of players in the map that have an account.                  *)
THEOREM PlayerCntCovers == Spec => []PlayerCntCoversPlayers
<1>1. IInv => PlayerCntCoversPlayers
  BY DEF IInv
<1> QED
  BY <1>1, InductiveInvariant, PTL

(* It is that number as long as no client sends a second REQ_LOGIN in a    *)
(* session or one under account number 0.                                  *)
THEOREM PlayerCntExact == Spec => [](OneLoginEach => PlayerCntMatchesPlayers)
<1>1. Init => (OneLoginEach => CountInv)
  BY InitCount
<1>2. IInv /\ (OneLoginEach => CountInv) /\ [Next]_vars => (OneLoginEach => CountInv)'
  <2> SUFFICES ASSUME IInv, OneLoginEach => CountInv, [Next]_vars, OneLoginEach'
               PROVE  CountInv'
    OBVIOUS
  <2>1. OneLoginEach
    BY DEF OneLoginEach
  <2> QED
    BY <2>1, NextCount DEF IInv
<1>3. (OneLoginEach => CountInv) => (OneLoginEach => PlayerCntMatchesPlayers)
  BY DEF CountInv
<1> QED
  BY <1>1, <1>2, <1>3, InductiveInvariant, PTL DEF Spec

(* Each chat goes exactly once to each player in the nine sectors around   *)
(* its sender, addressed to that player's own session.                     *)
THEOREM ChatDelivery == Spec => ChatReachesNeighboursOnce
<1>1. IInv /\ [Next]_vars =>
        [\A s \in Session : ChatFrom(s) => ChatIsHeardAround(s)]_vars
  <2> SUFFICES ASSUME IInv, [Next]_vars, NEW s \in Session, ChatFrom(s)
               PROVE  ChatIsHeardAround(s)
    OBVIOUS
  <2>1. sent' = SendPacket_Around(playerMap[s]) /\ playerMap[s] # Null
    BY ChatStep DEF IInv, ChatFrom
  <2> QED
    BY <2>1, AroundReachesNeighbours DEF IInv
<1>2. IInv /\ [Next]_vars =>
        [\A s \in Session : ChatFrom(s) =>
           \A c \in Cell, q \in Player :
             sent'[c][q] = IF /\ \E t \in Session : /\ playerMap[t] = q
                                                  /\ player[q].session = t
                              /\ Near(playerMap[s], q)
                              /\ CellOf(q) = c
                           THEN 1 ELSE 0]_vars
  BY <1>1 DEF ChatIsHeardAround
<1> QED
  BY <1>2, InductiveInvariant, PTL DEF Spec, ChatReachesNeighboursOnce

(* No time-out, other client or lost login server ever takes a share that  *)
(* is still within en_INFO_TIMEOUT from the client it was made for.        *)
THEOREM SharesKept == Spec => FreshShareIsKept
<1>1. TypeOK /\ [Next]_vars =>
        [\A a \in Account :
           /\ loginMap[a] # Null /\ loginMap'[a] = Null
           /\ loginMap[a].age <= InfoTimeout
           => /\ TakePacket("LOGIN")
              /\ What.account = a /\ What.key = loginMap[a].key
              /\ reply'[Who] = "ok"]_vars
  BY ShareStep DEF ShareTakenByItsClient
<1> QED
  BY <1>1, TypeCorrect, PTL DEF Spec, FreshShareIsKept

-----------------------------------------------------------------------------
(***************************************************************************)
(* The refinement of ChatRooms.  Stage, account and place of a client are  *)
(* read through the player map, so the lemmas say when a step leaves them  *)
(* alone and what the handlers do to those of the session they work for.   *)
(***************************************************************************)

(* A step that keeps the map keeps the stages, if the ends it brings about *)
(* are of clients that still have a player.                                *)
LEMMA StageKept ==
  ASSUME UNCHANGED playerMap,
         \A s \in Session : playerMap[s] = Null =>
           (session'[s] = "gone" /\ ~Pending(s)' <=> session[s] = "gone" /\ ~Pending(s))
  PROVE  Stage' = Stage
BY DEF Stage

(* A step that keeps the map and these fields keeps accounts and places.   *)
LEMMA ClientsKept ==
  ASSUME TypeOK, UNCHANGED playerMap,
         \A q \in Player : /\ player'[q].account = player[q].account
                           /\ player'[q].x = player[q].x
                           /\ player'[q].y = player[q].y
  PROVE  AccountOf' = AccountOf /\ PlaceOf' = PlaceOf
<1>1. \A s \in Session : playerMap[s] # Null => playerMap[s] \in Player
  BY DEF TypeOK
<1>2. AccountOf' = AccountOf
  BY <1>1 DEF AccountOf
<1>3. \A q \in Player : HasSector(q)' = HasSector(q) /\ CellOf(q)' = CellOf(q)
  BY DEF HasSector, CellOf
<1>4. PlaceOf' = PlaceOf
  BY <1>1, <1>3 DEF PlaceOf
<1> QED
  BY <1>2, <1>4

(* Nothing sent is silence.                                                *)
LEMMA NothingHeard ==
  ASSUME sent' = NoCopies
  PROVE  Heard' = Rooms!Silence
<1>1. ASSUME NEW s \in Session PROVE CopiesTo(s)' = {}
  <2>1. \A c \in Cell, q \in Player : 1 .. sent'[c][q] = {}
    BY DEF NoCopies, NoOne
  <2> QED
    BY <2>1 DEF CopiesTo
<1>2. \A s \in Session : Cardinality(CopiesTo(s)') = 0
  BY <1>1, FS_EmptySet
<1> QED
  BY <1>2 DEF Heard, Rooms!Silence

(* DisconnectSession makes a session that began one that is leaving.       *)
LEMMA DisconnectedLeaves ==
  ASSUME TypeOK, NEW s \in Session, session[s] # "none",
         session' = Disconnected(s)
  PROVE  Leaving' = Leaving \cup {s}
BY DEF TypeOK, Disconnected, Leaving

(* Who a PACKET or a LEAVE is from has a player, and nobody else has that  *)
(* one.                                                                    *)
LEMMA HeadIsInside ==
  ASSUME IInv, messageQ # <<>>, Head(messageQ).type # "JOIN"
  PROVE  /\ Who \in Session /\ playerMap[Who] \in Player /\ playerMap[Who] # Null
         /\ InMap(playerMap[Who])
         /\ session[Who] # "none"
         /\ Stage[Who] = "inside"
         /\ \A t \in Session : playerMap[t] = playerMap[Who] => t = Who
<1>1. Who \in Session /\ playerMap[Who] # Null
  BY HeadType, LifetimeConsequences DEF IInv, MessageFindsItsPlayer
<1>2. playerMap[Who] \in Player
  BY <1>1 DEF IInv, TypeOK
<1>3. session[Who] # "none"
  BY <1>1 DEF IInv, LifetimeInv, Lifetime
<1>4. \A t \in Session : playerMap[t] = playerMap[Who] => t = Who
  BY <1>1 DEF IInv, PoolMatchesMap
<1> QED
  BY <1>1, <1>2, <1>3, <1>4 DEF InMap, Stage

(* A packet taken off the queue changes no stage.                          *)
LEMMA PacketKeepsStage ==
  ASSUME IInv, PacketStep
  PROVE  Stage' = Stage
<1>1. /\ messageQ # <<>> /\ Head(messageQ).type = "PACKET" /\ messageQ' = Tail(messageQ)
      /\ playerMap' = playerMap /\ session' \in {session, Disconnected(Who)}
  BY PacketStepFrame DEF IInv
<1>2. Who \in Session /\ playerMap[Who] # Null
  BY <1>1, HeadIsInside
<1>3. ASSUME NEW t \in Session, playerMap[t] = Null
      PROVE  (Pending(t) <=> Pending(t)') /\ session'[t] = session[t]
  <2>1. t # Who
    BY <1>2, <1>3
  <2> QED
    BY <1>1, <1>2, <2>1, DequeueTakesHead DEF IInv, TypeOK, Disconnected
<1> QED
  BY <1>1, <1>3, StageKept

(* What is left to show for a step that changes nothing a client sees.     *)
LEMMA NothingSeen ==
  ASSUME UNCHANGED <<Stage, Leaving, AccountOf, reply, PlaceOf, loginConn, SharedKey>>,
         sent' = NoCopies
  PROVE  Rooms!FallSilent
BY NothingHeard DEF Rooms!FallSilent, Rooms!clientVars

(* The callbacks show a client nothing but that it is going.               *)
LEMMA CallbackIsHangUp ==
  ASSUME IInv,
         \/ \E s \in Session : OnClientJoin(s) \/ OnClientLeave(s)
         \/ \E s \in Session, packet \in Packet : OnRecv(s, packet)
  PROVE  Rooms!FallSilent \/ \E s \in Session : Rooms!HangUp(s)
<1>1. /\ UNCHANGED <<playerMap, player, reply, loginConn, loginMap>> /\ sent' = NoCopies
  BY CallbackFrame DEF OnClientJoin, OnClientLeave, OnRecv, worldVars
<1>2. UNCHANGED <<AccountOf, PlaceOf>>
  BY <1>1, ClientsKept DEF IInv
<1>3. SharedKey' = SharedKey
  BY <1>1 DEF SharedKey
<1>4. PICK s \in Session, type \in {"JOIN", "PACKET", "LEAVE"},
             packet \in Packet \cup {Null} :
        /\ Enqueue(type, s, packet)
        /\ \/ session[s] = "none" /\ session' = [session EXCEPT ![s] = "up"]
           \/ session[s] \in {"up", "closing"} /\ session' = session
           \/ session[s] \in {"up", "closing"} /\ session' = [session EXCEPT ![s] = "gone"]
  BY DEF OnClientJoin, OnClientLeave, OnRecv
<1>5. ASSUME NEW t \in Session
      PROVE  session'[t] = "gone" /\ ~Pending(t)' <=> session[t] = "gone" /\ ~Pending(t)
  <2>1. Pending(t)' <=> Pending(t) \/ t = s
    BY <1>4, EnqueueAdds DEF IInv
  <2>2. session \in [Session -> {"none", "up", "closing", "gone"}]
    BY DEF IInv, TypeOK
  <2>3. CASE t = s
    BY <1>4, <2>1, <2>2, <2>3
  <2>4. CASE t # s
    BY <1>4, <2>1, <2>2, <2>4
  <2> QED
    BY <2>3, <2>4
<1>6. Stage' = Stage
  BY <1>1, <1>5, StageKept
<1>7. CASE Leaving' = Leaving
  BY <1>1, <1>2, <1>3, <1>6, <1>7, NothingSeen
<1>8. CASE session[s] \in {"up", "closing"} /\ session' = [session EXCEPT ![s] = "gone"]
  <2>1. Leaving' = Leaving \cup {s}
    BY <1>8 DEF IInv, TypeOK, Leaving
  <2>2. Stage[s] # "left"
    BY <1>8 DEF Stage
  <2> QED
    BY <1>1, <1>2, <1>3, <1>6, <2>1, <2>2, NothingHeard DEF Rooms!HangUp
<1>9. CASE session[s] = "none" /\ session' = [session EXCEPT ![s] = "up"]
  <2>1. Leaving' = Leaving
    BY <1>9 DEF IInv, TypeOK, Leaving
  <2> QED
    BY <1>7, <2>1
<1> QED
  BY <1>4, <1>7, <1>8, <1>9 DEF Leaving

(* A JOIN lets a client in as nobody, whoever had its st_PLAYER before.    *)
LEMMA JoinIsEnter ==
  ASSUME IInv, proc_MSG_JOIN
  PROVE  \E s \in Session : Rooms!Enter(s)
<1>1. /\ messageQ # <<>> /\ Head(messageQ).type = "JOIN" /\ messageQ' = Tail(messageQ)
      /\ UNCHANGED <<session, reply, loginConn, loginMap>> /\ sent' = NoCopies
  BY DEF proc_MSG_JOIN, Dequeue
<1>2. PICK p \in free :
        /\ p # Null /\ Who \in Session /\ playerMap[Who] = Null
        /\ playerMap' = [playerMap EXCEPT ![Who] = p]
        /\ player'[p].account = NoAccount /\ player'[p].x = -1
        /\ \A q \in Player \ {p} : player'[q] = player[q]
  BY <1>1, JoinFields DEF IInv
<1>3. /\ playerMap'[Who] = p /\ p \in Player
      /\ \A t \in Session : t # Who => playerMap'[t] = playerMap[t]
      /\ \A t \in Session : playerMap[t] # p
  BY <1>2 DEF IInv, TypeOK, PoolMatchesMap, InMap
<1>4. /\ Pending(Who)
      /\ \A t \in Session : t # Who => (Pending(t) <=> Pending(t)')
  BY <1>1, <1>2, DequeueTakesHead DEF IInv
<1>5. Stage[Who] = "outside" /\ AccountOf[Who] = NoAccount /\ PlaceOf[Who] = Rooms!Nowhere
  BY <1>2, <1>4 DEF Stage, AccountOf, PlaceOf, Rooms!Nowhere
<1>6. Stage' = [Stage EXCEPT ![Who] = "inside"]
  <2>1. \A t \in Session : Stage'[t] = IF t = Who THEN "inside" ELSE Stage[t]
    BY <1>1, <1>2, <1>3, <1>4 DEF Stage
  <2>2. Stage' = [t \in Session |-> Stage'[t]] /\ Stage = [t \in Session |-> Stage[t]]
    BY DEF Stage
  <2> HIDE DEF Stage
  <2> QED
    BY <1>2, <2>1, <2>2
<1>7. \A t \in Session : t # Who /\ playerMap[t] # Null =>
        player'[playerMap[t]] = player[playerMap[t]]
  BY <1>2, <1>3 DEF IInv, TypeOK
<1>8. AccountOf' = AccountOf
  BY <1>2, <1>3, <1>7 DEF AccountOf
<1>9. PlaceOf' = PlaceOf
  <2>1. \A q \in Player : q # p => HasSector(q)' = HasSector(q) /\ CellOf(q)' = CellOf(q)
    BY <1>2 DEF HasSector, CellOf
  <2>2. ~HasSector(p)'
    BY <1>2 DEF HasSector
  <2>3. \A t \in Session : t # Who /\ playerMap[t] # Null =>
          playerMap[t] \in Player /\ playerMap[t] # p
    BY <1>3 DEF IInv, TypeOK
  <2> QED
    BY <1>2, <1>3, <2>1, <2>2, <2>3 DEF PlaceOf
<1>10. UNCHANGED <<Leaving, SharedKey>> /\ Heard' = Rooms!Silence
  BY <1>1, NothingHeard DEF Leaving, SharedKey
<1> QED
  BY <1>1, <1>2, <1>5, <1>6, <1>8, <1>9, <1>10 DEF Rooms!Enter

(* A handler that writes one client's player and map entry changes no other *)
(* client's account or place.                                              *)
LEMMA OthersKept ==
  ASSUME IInv, messageQ # <<>>, Head(messageQ).type # "JOIN",
         \A t \in Session : t # Who => playerMap'[t] = playerMap[t],
         \A q \in Player : q # playerMap[Who] => player'[q] = player[q]
  PROVE  /\ AccountOf' = [AccountOf EXCEPT ![Who] = AccountOf'[Who]]
         /\ PlaceOf' = [PlaceOf EXCEPT ![Who] = PlaceOf'[Who]]
<1>1. \A t \in Session : t # Who /\ playerMap[t] # Null =>
        playerMap[t] \in Player /\ playerMap[t] # playerMap[Who]
  BY HeadIsInside DEF IInv, TypeOK
<1>2. \A q \in Player : q # playerMap[Who] =>
        HasSector(q)' = HasSector(q) /\ CellOf(q)' = CellOf(q)
  BY DEF HasSector, CellOf
<1>3. \A t \in Session : t # Who => AccountOf'[t] = AccountOf[t]
  BY <1>1 DEF AccountOf
<1>4. \A t \in Session : t # Who => PlaceOf'[t] = PlaceOf[t]
  BY <1>1, <1>2 DEF PlaceOf
<1>5. AccountOf' = [t \in Session |-> AccountOf'[t]] /\ AccountOf = [t \in Session |-> AccountOf[t]]
  BY DEF AccountOf
<1>6. PlaceOf' = [t \in Session |-> PlaceOf'[t]] /\ PlaceOf = [t \in Session |-> PlaceOf[t]]
  BY DEF PlaceOf
<1>7. Who \in Session
  BY HeadIsInside
<1> HIDE DEF AccountOf, PlaceOf, Who
<1>8. AccountOf' = [AccountOf EXCEPT ![Who] = AccountOf'[Who]]
  BY <1>3, <1>5, <1>7
<1> QED
  BY <1>4, <1>6, <1>7, <1>8

(* A LEAVE takes every trace of its client away.                           *)
LEMMA LeaveIsLeave ==
  ASSUME IInv, proc_MSG_LEAVE
  PROVE  \E s \in Session : Rooms!Leave(s)
<1>1. /\ messageQ # <<>> /\ Head(messageQ).type = "LEAVE" /\ messageQ' = Tail(messageQ)
      /\ UNCHANGED <<session, reply, loginConn, loginMap>> /\ sent' = NoCopies
  BY DEF proc_MSG_LEAVE, Dequeue
<1>2. /\ Who \in Session /\ playerMap[Who] # Null /\ Stage[Who] = "inside"
  BY <1>1, HeadIsInside
<1>3. /\ \A t \in Session : playerMap'[t] = IF t = Who THEN Null ELSE playerMap[t]
      /\ \A q \in Player : q # playerMap[Who] => player'[q] = player[q]
  BY <1>2, LeaveFields DEF IInv, TypeOK
<1>4. /\ AccountOf' = [AccountOf EXCEPT ![Who] = AccountOf'[Who]]
      /\ PlaceOf' = [PlaceOf EXCEPT ![Who] = PlaceOf'[Who]]
  BY <1>1, <1>3, OthersKept
<1>5. AccountOf'[Who] = NoAccount /\ PlaceOf'[Who] = Rooms!Nowhere
  BY <1>2, <1>3 DEF AccountOf, PlaceOf, Rooms!Nowhere
<1>6. LeaveQueued(Who)
  BY <1>1, <1>2, DequeueTakesHead DEF IInv
<1>7. session[Who] = "gone"
  BY <1>2, <1>6 DEF IInv, LifetimeInv, Lifetime
<1>8. \A t \in Session :
        /\ t = Who => ~Pending(t)'
        /\ t # Who => (Pending(t) <=> Pending(t)')
  <2>1. TypeOK /\ QueueOrder
    BY DEF IInv, LifetimeInv
  <2> QED
    BY <1>1, <2>1, DequeueTakesHead
<1>9. Stage' = [Stage EXCEPT ![Who] = "left"]
  <2>1. ASSUME NEW t \in Session
        PROVE  Stage'[t] = IF t = Who THEN "left" ELSE Stage[t]
    <3>1. CASE t = Who
      <4>1. playerMap'[t] = Null /\ session'[t] = "gone" /\ ~Pending(t)'
        BY <1>1, <1>3, <1>7, <1>8, <3>1
      <4> QED
        BY <3>1, <4>1 DEF Stage
    <3>2. CASE t # Who
      BY <1>1, <1>3, <1>8, <3>2 DEF Stage
    <3> QED
      BY <3>1, <3>2
  <2>2. Stage' = [t \in Session |-> Stage'[t]] /\ Stage = [t \in Session |-> Stage[t]]
    BY DEF Stage
  <2> HIDE DEF Stage
  <2> QED
    BY <1>2, <2>1, <2>2
<1>10. Who \in Leaving /\ UNCHANGED <<Leaving, SharedKey>> /\ Heard' = Rooms!Silence
  BY <1>1, <1>2, <1>7, NothingHeard DEF Leaving, SharedKey
<1> QED
  BY <1>1, <1>2, <1>4, <1>5, <1>9, <1>10 DEF Rooms!Leave, Rooms!Inside

(* The share of an account, as LoginMap_Remove and as ChatRooms tests it.  *)
LEMMA ShareIsKey ==
  ASSUME TypeOK, NEW a \in Account, NEW k \in Key
  PROVE  LoginMap_Remove(a, k) <=> Rooms!Held(a, k)
<1>1. loginMap[a] # Null => loginMap[a].key \in Key /\ loginMap[a].key # Null
  BY NullAssumption DEF TypeOK, LoginInfo
<1> QED
  BY <1>1 DEF LoginMap_Remove, Rooms!Held, SharedKey

(* A REQ_LOGIN, the first of its client or not, takes at most the one      *)
(* share it names.                                                         *)
LEMMA LoginIsLogin ==
  ASSUME IInv, proc_PACKET_CS_CHAT_REQ_LOGIN
  PROVE  \E s \in Session, a \in Account, k \in Key : Rooms!Login(s, a, k)
<1> DEFINE a == What.account
           k == What.key
<1>1. /\ messageQ # <<>> /\ Head(messageQ).type = "PACKET" /\ messageQ' = Tail(messageQ)
      /\ playerMap' = playerMap /\ HeadIsLogin
      /\ loginConn' = loginConn /\ sent' = NoCopies
  BY DEF proc_PACKET_CS_CHAT_REQ_LOGIN, TakePacket, Dequeue, HeadIsLogin
<1>2. /\ Who \in Session /\ playerMap[Who] \in Player /\ playerMap[Who] # Null
      /\ session[Who] # "none" /\ Stage[Who] = "inside"
      /\ \A t \in Session : playerMap[t] = playerMap[Who] => t = Who
  BY <1>1, HeadIsInside
<1>3. a \in Account /\ k \in Key
  BY <1>1, HeadType, PacketAssumption DEF IInv, HeadIsLogin, AnyPacket
<1>4. Login(playerMap[Who])
  BY <1>2 DEF proc_PACKET_CS_CHAT_REQ_LOGIN
<1>5. LoginMap_Remove(a, k) <=> Rooms!Held(a, k)
  BY <1>3, ShareIsKey DEF IInv
<1> HIDE DEF a, k
<1>6. AccountOf' = [AccountOf EXCEPT ![Who] = a] /\ PlaceOf' = PlaceOf
  <2>1. \A q \in Player :
          /\ player'[q].x = player[q].x /\ player'[q].y = player[q].y
          /\ player'[q].account = IF q = playerMap[Who] THEN a ELSE player[q].account
    BY <1>2, LoginFields DEF IInv, a
  <2>2. \A t \in Session : playerMap[t] # Null => playerMap[t] \in Player
    BY DEF IInv, TypeOK
  <2>3. \A t \in Session : AccountOf'[t] = IF t = Who THEN a ELSE AccountOf[t]
    BY <1>1, <1>2, <2>1, <2>2 DEF AccountOf
  <2>4. AccountOf' = [t \in Session |-> AccountOf'[t]] /\ AccountOf = [t \in Session |-> AccountOf[t]]
    BY DEF AccountOf
  <2>5. \A q \in Player : HasSector(q)' = HasSector(q) /\ CellOf(q)' = CellOf(q)
    BY <2>1 DEF HasSector, CellOf
  <2>6. PlaceOf' = PlaceOf
    BY <1>1, <2>2, <2>5 DEF PlaceOf
  <2> HIDE DEF AccountOf
  <2> QED
    BY <1>2, <2>3, <2>4, <2>6
<1>7. Stage' = Stage
  BY PacketKeepsStage DEF PacketStep
<1> DEFINE granted == loginConn => Rooms!Held(a, k)
<1>8. /\ reply' = [reply EXCEPT ![Who] = IF granted THEN "ok" ELSE "fail"]
      /\ Leaving' = IF granted THEN Leaving ELSE Leaving \cup {Who}
  <2>1. /\ reply' = [reply EXCEPT ![Who] = IF granted THEN "ok" ELSE "fail"]
        /\ session' = IF granted THEN session ELSE Disconnected(Who)
    BY <1>4, <1>5 DEF Login, a, k
  <2>2. CASE granted
    BY <2>1, <2>2 DEF Leaving
  <2>3. CASE ~granted
    BY <1>2, <2>1, <2>3, DisconnectedLeaves DEF IInv
  <2> QED
    BY <2>1, <2>2, <2>3
<1>9. SharedKey' = IF loginConn /\ Rooms!Held(a, k)
                    THEN [SharedKey EXCEPT ![a] = Null] ELSE SharedKey
  <2>1. loginMap' = IF loginConn /\ Rooms!Held(a, k)
                    THEN [loginMap EXCEPT ![a] = Null] ELSE loginMap
    BY <1>4, <1>5 DEF Login, a, k
  <2>2. CASE loginConn /\ Rooms!Held(a, k)
    BY <1>3, <2>1, <2>2 DEF SharedKey, IInv, TypeOK
  <2>3. CASE ~(loginConn /\ Rooms!Held(a, k))
    BY <2>1, <2>3 DEF SharedKey
  <2> QED
    BY <2>2, <2>3
<1>10. Heard' = Rooms!Silence
  BY <1>1, NothingHeard
<1>11. Rooms!Login(Who, a, k)
  BY <1>1, <1>2, <1>6, <1>7, <1>8, <1>9, <1>10 DEF Rooms!Login, Rooms!Inside
<1> QED
  BY <1>2, <1>3, <1>11

(* Where SetSector leaves its player.                                      *)
LEMMA SetSectorPlaces ==
  ASSUME TypeOK, SectorListsMatchPlayers, NEW p \in Player, InMap(p),
         NEW x \in Int, NEW y \in Int, SetSector(p, x, y)
  PROVE  /\ InRange(x, y) => player'[p].x = x /\ player'[p].y = y
         /\ ~InRange(x, y) => player'[p].x = -1 \/ player'[p].y = -1
<1>1. /\ RecordWithoutSector(p).x = -1 \/ RecordWithoutSector(p).y = -1
      /\ RecordWithoutSector(p) \in PlayerRecord
  BY LeaveSectorWorks, RecordWithoutSectorType
<1>2. ASSUME NEW r \in PlayerRecord
      PROVE  /\ [r EXCEPT !.x = x, !.y = y, !.age = 0].x = x
             /\ [r EXCEPT !.x = x, !.y = y, !.age = 0].y = y
  BY DEF PlayerRecord
<1>3. player'[p] = IF InRange(x, y)
                   THEN [RecordWithoutSector(p) EXCEPT !.x = x, !.y = y, !.age = 0]
                   ELSE RecordWithoutSector(p)
  BY DEF SetSector, TypeOK
<1> QED
  BY <1>1, <1>2, <1>3

(* A handler that disconnects its client and does nothing else.            *)
LEMMA DisconnectIsHangUp ==
  ASSUME IInv, PacketStep, session' = Disconnected(Who), sent' = NoCopies,
         UNCHANGED <<AccountOf, reply, PlaceOf, loginConn, SharedKey>>
  PROVE  \E s \in Session : Rooms!HangUp(s)
<1>1. messageQ # <<>> /\ Head(messageQ).type = "PACKET"
  BY PacketStepFrame DEF IInv
<1>2. Who \in Session /\ session[Who] # "none" /\ Stage[Who] = "inside"
  BY <1>1, HeadIsInside
<1>3. Stage' = Stage
  BY PacketKeepsStage
<1>4. Leaving' = Leaving \cup {Who}
  BY <1>2, DisconnectedLeaves DEF IInv
<1> QED
  BY <1>2, <1>3, <1>4, NothingHeard DEF Rooms!HangUp

(* A REQ_SECTOR_MOVE moves its client, or costs it its connection. *)
LEMMA MoveIsMove ==
  ASSUME IInv, proc_PACKET_CS_CHAT_REQ_SECTOR_MOVE
  PROVE  \E s \in Session : \/ \E cell \in Rooms!Cell : Rooms!Move(s, cell)
                            \/ Rooms!MoveOffTheGrid(s)
                            \/ Rooms!HangUp(s)
<1> DEFINE x == What.x
           y == What.y
           p == playerMap[Who]
<1>1. /\ messageQ # <<>> /\ Head(messageQ).type = "PACKET" /\ messageQ' = Tail(messageQ)
      /\ UNCHANGED <<playerMap, reply, loginConn, loginMap>> /\ sent' = NoCopies
  BY DEF proc_PACKET_CS_CHAT_REQ_SECTOR_MOVE, TakePacket, Dequeue
<1>2. /\ Who \in Session /\ p \in Player /\ p # Null /\ InMap(p)
      /\ session[Who] # "none" /\ Stage[Who] = "inside"
  BY <1>1, HeadIsInside
<1>3. x \in Int /\ y \in Int
  BY <1>1, HeadType, PacketAssumption DEF IInv, AnyPacket
<1>4. Stage' = Stage /\ SharedKey' = SharedKey /\ Heard' = Rooms!Silence
  BY <1>1, PacketKeepsStage, NothingHeard DEF PacketStep, SharedKey
<1>5. CASE WrongAccount(p)
  <2>1. session' = Disconnected(Who) /\ player' = player
    BY <1>2, <1>5 DEF proc_PACKET_CS_CHAT_REQ_SECTOR_MOVE
  <2>2. UNCHANGED <<AccountOf, PlaceOf>>
    BY <1>1, <2>1, ClientsKept DEF IInv
  <2> QED
    BY <1>1, <1>4, <2>1, <2>2, DisconnectIsHangUp DEF PacketStep
<1>6. CASE ~WrongAccount(p)
  <2>1. /\ SetSector(p, x, y)
        /\ session' = IF InRange(x, y) THEN session ELSE Disconnected(Who)
    BY <1>2, <1>6 DEF proc_PACKET_CS_CHAT_REQ_SECTOR_MOVE
  <2>2. /\ InRange(x, y) => player'[p].x = x /\ player'[p].y = y
        /\ ~InRange(x, y) => player'[p].x = -1 \/ player'[p].y = -1
    <3> HIDE DEF p, x, y
    <3> QED
      BY <1>2, <1>3, <2>1, SetSectorPlaces DEF IInv
  <2>3. /\ \A q \in Player : player'[q].account = player[q].account
        /\ \A q \in Player : q # p => player'[q] = player[q]
    BY MoveFields DEF IInv
  <2>4. PlaceOf' = [PlaceOf EXCEPT ![Who] = PlaceOf'[Who]]
    BY <1>1, <2>3, OthersKept
  <2>5. AccountOf' = AccountOf
    BY <1>1, <2>3 DEF AccountOf, IInv, TypeOK
  <2>6. Rooms!Inside(Who)
    BY <1>2 DEF Rooms!Inside
  <2>7. PlaceOf'[Who] = IF player'[p].x # -1 /\ player'[p].y # -1
                        THEN <<player'[p].y, player'[p].x>> ELSE <<-1, -1>>
    BY <1>1, <1>2 DEF PlaceOf, HasSector, CellOf
  <2>8. CASE InRange(x, y)
    <3>1. <<y, x>> \in Rooms!Cell
      BY <2>8 DEF InRange, Rooms!Cell
    <3>2. PlaceOf'[Who] = <<y, x>>
      BY <2>2, <2>7, <2>8 DEF InRange
    <3>3. Leaving' = Leaving
      BY <2>1, <2>8 DEF Leaving
    <3>4. Rooms!Move(Who, <<y, x>>)
      <4> HIDE DEF x, y
      <4> QED
        BY <1>1, <1>4, <2>4, <2>5, <2>6, <3>2, <3>3 DEF Rooms!Move
    <3> QED
      BY <1>2, <3>1, <3>4
  <2>9. CASE ~InRange(x, y)
    <3>1. PlaceOf'[Who] = Rooms!Nowhere
      BY <2>2, <2>7, <2>9 DEF Rooms!Nowhere
    <3>2. Leaving' = Leaving \cup {Who}
      BY <1>2, <2>1, <2>9, DisconnectedLeaves DEF IInv
    <3>3. Rooms!MoveOffTheGrid(Who)
      BY <1>1, <1>4, <2>4, <2>5, <2>6, <3>1, <3>2 DEF Rooms!MoveOffTheGrid
    <3> QED
      BY <1>2, <3>3
  <2> QED
    BY <2>8, <2>9
<1> QED
  BY <1>5, <1>6

(* What SendPacket_Around puts into the lists, counted per session: one    *)
(* copy for a client nearby and none for any other.                        *)
LEMMA HeardNearby ==
  ASSUME IInv, NEW s \in Session, playerMap[s] # Null, UNCHANGED playerMap,
         \A q \in Player : player'[q].session = player[q].session,
         ChatIsHeardAround(s), NEW t \in Session
  PROVE  Heard'[t] = IF Rooms!Near(s, t) THEN 1 ELSE 0
<1> DEFINE copies == CopiesTo(t)'
<1>1. \A q \in Player, u \in Session :
        playerMap[u] = q /\ player[q].session = u /\ player[q].session = t => q = playerMap[t]
  OBVIOUS
<1>2. ASSUME NEW c \in Cell, NEW q \in Player, player'[q].session = t
      PROVE  sent'[c][q] = IF q = playerMap[t] /\ Near(playerMap[s], q) /\ CellOf(q) = c
                           THEN 1 ELSE 0
  <2>1. q = playerMap[t] => \E u \in Session : playerMap[u] = q /\ player[q].session = u
    BY <1>2
  <2> QED
    BY <1>1, <1>2, <2>1 DEF ChatIsHeardAround
<1>3. playerMap[s] \in Player /\ (playerMap[t] # Null => playerMap[t] \in Player)
  BY DEF IInv, TypeOK
<1>4. Heard'[t] = Cardinality(copies)
  BY DEF Heard
<1>5. copies = UNION {{<<c, q, i>> : i \in 1 .. sent'[c][q]} :
                        c \in Cell, q \in {r \in Player : player'[r].session = t}}
  BY DEF CopiesTo
<1>6. Rooms!Near(s, t) <=> playerMap[t] # Null /\ Near(playerMap[s], playerMap[t])
  <2>1. \A q \in Player : HasSector(q) => CellOf(q) # <<-1, -1>>
    BY DEF HasSector, CellOf
  <2>2. CASE playerMap[t] = Null
    BY <2>2 DEF Rooms!Near, PlaceOf, Rooms!Nowhere
  <2>3. CASE playerMap[t] # Null
    <3> DEFINE p == playerMap[s]
               q == playerMap[t]
    <3>1. /\ PlaceOf[s] = IF HasSector(p) THEN CellOf(p) ELSE <<-1, -1>>
          /\ PlaceOf[t] = IF HasSector(q) THEN CellOf(q) ELSE <<-1, -1>>
      BY <2>3 DEF PlaceOf
    <3>2. p \in Player /\ q \in Player
      BY <1>3, <2>3
    <3> HIDE DEF p, q
    <3>3. CASE HasSector(p) /\ HasSector(q)
      <4>1. PlaceOf[s] # <<-1, -1>> /\ PlaceOf[t] # <<-1, -1>>
        BY <2>1, <3>1, <3>2, <3>3
      <4>2. /\ PlaceOf[s][1] = player[p].y /\ PlaceOf[s][2] = player[p].x
            /\ PlaceOf[t][1] = player[q].y /\ PlaceOf[t][2] = player[q].x
        BY <3>1, <3>3 DEF CellOf
      <4>3. Rooms!Near(s, t) <=> Near(p, q)
        BY <3>3, <4>1, <4>2 DEF Rooms!Near, Near, Rooms!Nowhere
      <4> QED
        BY <2>3, <4>3 DEF p, q
    <3>4. CASE ~(HasSector(p) /\ HasSector(q))
      <4>1. ~Rooms!Near(s, t)
        BY <3>1, <3>4 DEF Rooms!Near, Rooms!Nowhere
      <4>2. ~Near(p, q)
        BY <3>4 DEF Near
      <4> QED
        BY <4>1, <4>2 DEF p, q
    <3> QED
      BY <3>3, <3>4
  <2> QED
    BY <2>2, <2>3
<1>7. CASE ~Rooms!Near(s, t)
  <2>1. ASSUME NEW c \in Cell, NEW q \in Player, player'[q].session = t
        PROVE  1 .. sent'[c][q] = {}
    <3>1. sent'[c][q] = 0
      BY <1>2, <1>6, <1>7, <2>1, NullAssumption
    <3> QED
      BY <3>1
  <2>2. copies = {}
    BY <1>5, <2>1
  <2> QED
    BY <1>4, <1>7, <2>2, FS_EmptySet
<1>8. CASE Rooms!Near(s, t)
  <2> DEFINE q == playerMap[t]
             one == <<CellOf(q), q, 1>>
  <2>1. q \in Player /\ Near(playerMap[s], q) /\ q # Null
    BY <1>3, <1>6, <1>8
  <2>2. CellOf(q) \in Cell
    BY <2>1, CellOfType DEF IInv, Near
  <2>3. player'[q].session = t
    BY <2>1 DEF IInv, PoolMatchesMap
  <2>4. sent'[CellOf(q)][q] = 1
    BY <1>2, <2>1, <2>2, <2>3
  <2>5. ASSUME NEW c \in Cell, NEW r \in Player, player'[r].session = t
        PROVE  {<<c, r, i>> : i \in 1 .. sent'[c][r]}
                 = IF c = CellOf(q) /\ r = q THEN {one} ELSE {}
    <3>1. CASE c = CellOf(q) /\ r = q
      <4>1. 1 .. sent'[c][r] = {1}
        BY <2>4, <3>1
      <4> QED
        BY <3>1, <4>1
    <3>2. CASE ~(c = CellOf(q) /\ r = q)
      <4>1. sent'[c][r] = 0
        BY <1>2, <2>5, <3>2
      <4>2. 1 .. sent'[c][r] = {}
        BY <4>1
      <4> QED
        BY <3>2, <4>2
    <3> QED
      BY <3>1, <3>2
  <2> HIDE DEF q, one
  <2>6. copies = {one}
    <3> DEFINE B(c, r) == {<<c, r, i>> : i \in 1 .. sent'[c][r]}
               mine == {r \in Player : player'[r].session = t}
    <3>1. \A c \in Cell, r \in mine :
            B(c, r) = IF c = CellOf(q) /\ r = q THEN {one} ELSE {}
      BY <2>5
    <3>2. CellOf(q) \in Cell /\ q \in mine
      BY <2>1, <2>2, <2>3
    <3>3. copies = UNION {B(c, r) : c \in Cell, r \in mine}
      BY <1>5
    <3> HIDE DEF B, mine, copies
    <3>4. ASSUME NEW e PROVE e \in copies <=> \E c \in Cell, r \in mine : e \in B(c, r)
      BY <3>3
    <3>5. \A e : e \in copies <=> e = one
      BY <3>1, <3>2, <3>4
    <3> QED
      BY <3>5
  <2> QED
    BY <1>4, <1>8, <2>6, FS_Singleton
<1> QED
  BY <1>7, <1>8

(* A chat under the client's own account number is a Say, and any other    *)
(* costs the client its connection.                                        *)
LEMMA MessageIsSay ==
  ASSUME IInv, proc_PACKET_CS_CHAT_REQ_MESSAGE
  PROVE  \E s \in Session : Rooms!Say(s) \/ Rooms!HangUp(s)
<1> DEFINE p == playerMap[Who]
<1>1. /\ messageQ # <<>> /\ Head(messageQ).type = "PACKET" /\ messageQ' = Tail(messageQ)
      /\ UNCHANGED <<playerMap, reply, loginConn, loginMap>>
  BY DEF proc_PACKET_CS_CHAT_REQ_MESSAGE, TakePacket, Dequeue
<1>2. /\ Who \in Session /\ p \in Player /\ p # Null /\ Stage[Who] = "inside"
  BY <1>1, HeadIsInside
<1>3. \A q \in Player :
        /\ player'[q].session = player[q].session
        /\ player'[q].account = player[q].account
        /\ player'[q].x = player[q].x /\ player'[q].y = player[q].y
  BY QuietFields DEF IInv, QuietStep
<1>4. UNCHANGED <<Stage, AccountOf, PlaceOf, SharedKey>>
  BY <1>1, <1>3, PacketKeepsStage, ClientsKept DEF PacketStep, SharedKey, IInv
<1>5. CASE WrongAccount(p)
  <2>1. session' = Disconnected(Who) /\ sent' = NoCopies
    BY <1>2, <1>5 DEF proc_PACKET_CS_CHAT_REQ_MESSAGE
  <2> QED
    BY <1>1, <1>4, <2>1, DisconnectIsHangUp DEF PacketStep
<1>6. CASE ~WrongAccount(p)
  <2>1. sent' = SendPacket_Around(p) /\ session' = session
    BY <1>2, <1>6 DEF proc_PACKET_CS_CHAT_REQ_MESSAGE
  <2>2. PICK s \in Session : s = Who
    BY <1>2
  <2>3. ChatIsHeardAround(s)
    BY <1>2, <2>1, <2>2, AroundReachesNeighbours DEF IInv
  <2>4. \A t \in Session : Heard'[t] = IF Rooms!Near(s, t) THEN 1 ELSE 0
    BY <1>1, <1>2, <1>3, <2>2, <2>3, HeardNearby
  <2>5. Heard' = [t \in Session |-> IF Rooms!Near(s, t) THEN 1 ELSE 0]
    <3>1. Heard' = [t \in Session |-> Heard'[t]]
      BY DEF Heard
    <3> HIDE DEF Heard
    <3> QED
      BY <2>4, <3>1
  <2>6. Rooms!Inside(s)
    BY <1>2, <2>2 DEF Rooms!Inside
  <2>7. Leaving' = Leaving
    BY <2>1 DEF Leaving
  <2> QED
    BY <1>1, <1>4, <2>5, <2>6, <2>7 DEF Rooms!Say
<1> QED
  BY <1>5, <1>6

(* A heartbeat shows nothing, and an unknown packet costs the connection.  *)
LEMMA OtherPacketIsHangUp ==
  ASSUME IInv, proc_PACKET_CS_CHAT_REQ_HEARTBEAT \/ proc_MSG_PACKET_Unknown
  PROVE  Rooms!FallSilent \/ \E s \in Session : Rooms!HangUp(s)
<1>1. /\ UNCHANGED <<playerMap, reply, loginConn, loginMap>> /\ sent' = NoCopies
      /\ \/ session' = session
         \/ session' = Disconnected(Who)
  BY DEF proc_PACKET_CS_CHAT_REQ_HEARTBEAT, proc_MSG_PACKET_Unknown, worldVars
<1>2. \A q \in Player :
        /\ player'[q].account = player[q].account
        /\ player'[q].x = player[q].x /\ player'[q].y = player[q].y
  BY QuietFields DEF IInv, QuietStep
<1>3. UNCHANGED <<Stage, AccountOf, PlaceOf, SharedKey>>
  BY <1>1, <1>2, PacketKeepsStage, ClientsKept DEF PacketStep, SharedKey, IInv
<1>4. CASE session' = session
  BY <1>1, <1>3, <1>4, NothingSeen DEF Leaving
<1>5. CASE session' = Disconnected(Who)
  BY <1>1, <1>3, <1>5, DisconnectIsHangUp DEF PacketStep
<1> QED
  BY <1>1, <1>4, <1>5

(* The connection to the login server and the passing of time: the shares  *)
(* come, grow old and go, the clients notice nothing.                      *)
LEMMA LoginServerSeen ==
  ASSUME IInv, LoginServerStep \/ Tick
  PROVE  \/ Rooms!Connect \/ Rooms!FallSilent
         \/ \E a \in Account, k \in Key : Rooms!Put(a, k)
         \/ \E old \in SUBSET Account : Rooms!Forget(old)
<1>1. /\ UNCHANGED <<session, messageQ, playerMap, reply>> /\ sent' = NoCopies
  BY DEF LoginServerStep, Tick, LoginClient_OnClientJoin, LoginClient_OnClientLeave,
         proc_PACKET_SS_REQ_NEW_CLIENT_LOGIN, LoginMap_Timeout, contentVars, worldVars
<1>2. UNCHANGED <<Stage, Leaving>>
  BY <1>1 DEF Stage, Leaving, Pending
<1>3. UNCHANGED <<AccountOf, PlaceOf>>
  <2>1. \A q \in Player :
          /\ player'[q].account = player[q].account
          /\ player'[q].x = player[q].x /\ player'[q].y = player[q].y
    BY QuietFields DEF IInv, QuietStep
  <2> QED
    BY <1>1, <2>1, ClientsKept DEF IInv
<1>4. Heard' = Rooms!Silence /\ UNCHANGED Rooms!clientVars
  BY <1>1, <1>2, <1>3, NothingHeard DEF Rooms!clientVars
<1>5. CASE LoginClient_OnClientJoin \/ LoginClient_OnClientLeave
  <2>1. loginConn' = ~loginConn /\ loginMap' = loginMap
    BY <1>5 DEF LoginClient_OnClientJoin, LoginClient_OnClientLeave, IInv, TypeOK
  <2>2. SharedKey' = SharedKey
    BY <2>1 DEF SharedKey
  <2> QED
    BY <1>4, <2>1, <2>2 DEF Rooms!Connect
<1>6. ASSUME NEW a \in Account, NEW k \in Key,
             proc_PACKET_SS_REQ_NEW_CLIENT_LOGIN(a, k)
      PROVE  Rooms!Put(a, k)
  <2>1. /\ loginConn /\ loginConn' = loginConn
        /\ loginMap' = [loginMap EXCEPT ![a] = [key |-> k, age |-> 0]]
    BY <1>6 DEF proc_PACKET_SS_REQ_NEW_CLIENT_LOGIN
  <2>2. [key |-> k, age |-> 0] # Null
    <3>1. [key |-> k, age |-> 0] \in LoginInfo
      BY BoundAssumption DEF LoginInfo
    <3> QED
      BY <3>1, NullAssumption
  <2>3. SharedKey' = [SharedKey EXCEPT ![a] = k]
    BY <2>1, <2>2 DEF SharedKey, IInv, TypeOK
  <2> QED
    BY <1>4, <2>1, <2>3 DEF Rooms!Put
<1>7. CASE LoginMap_Timeout
  <2> DEFINE old == {a \in Account : Expired(loginMap[a])}
  <2>1. /\ loginConn /\ loginConn' = loginConn
        /\ loginMap' = [a \in Account |->
                          IF Expired(loginMap[a]) THEN Null ELSE loginMap[a]]
    BY <1>7 DEF LoginMap_Timeout
  <2>2. SharedKey' = [a \in Account |-> IF a \in old THEN Null ELSE SharedKey[a]]
    BY <2>1 DEF SharedKey
  <2>3. Rooms!Forget(old)
    <3> HIDE DEF old
    <3> QED
      BY <1>4, <2>1, <2>2 DEF Rooms!Forget
  <2> QED
    BY <2>3
<1>8. CASE Tick
  <2>1. /\ loginConn' = loginConn
        /\ loginMap' = [a \in Account |->
             IF loginMap[a] = Null THEN Null
             ELSE [loginMap[a] EXCEPT !.age = Older(@, InfoTimeout + 1)]]
    BY <1>8 DEF Tick
  <2>2. ASSUME NEW a \in Account, loginMap[a] # Null
        PROVE  loginMap'[a] # Null /\ loginMap'[a].key = loginMap[a].key
    <3>1. loginMap[a] \in LoginInfo
      BY <2>2 DEF IInv, TypeOK
    <3>2. ASSUME NEW i \in LoginInfo
          PROVE  /\ [i EXCEPT !.age = Older(@, InfoTimeout + 1)] \in LoginInfo
                 /\ [i EXCEPT !.age = Older(@, InfoTimeout + 1)].key = i.key
      BY BoundAssumption DEF LoginInfo, Older
    <3> QED
      BY <2>1, <2>2, <3>1, <3>2, NullAssumption
  <2>3. SharedKey' = SharedKey
    BY <2>1, <2>2 DEF SharedKey
  <2> QED
    BY <1>4, <2>1, <2>3 DEF Rooms!FallSilent
<1> QED
  BY <1>5, <1>6, <1>7, <1>8 DEF LoginServerStep

(* The initial states of ChatServer are initial states of ChatRooms.       *)
LEMMA InitRooms == Init => Rooms!Init
<1> SUFFICES ASSUME Init PROVE Rooms!Init
  OBVIOUS
<1>1. Stage = [s \in Session |-> "outside"] /\ Leaving = {}
  BY DEF Init, Stage, Leaving
<1>2. /\ AccountOf = [s \in Session |-> NoAccount] /\ SharedKey = [a \in Account |-> Null]
      /\ PlaceOf = [s \in Session |-> Rooms!Nowhere]
  BY DEF Init, AccountOf, SharedKey, PlaceOf, Rooms!Nowhere
<1>3. Heard = Rooms!Silence
  <2>1. ASSUME NEW s \in Session PROVE CopiesTo(s) = {}
    <3>1. \A c \in Cell, q \in Player : 1 .. sent[c][q] = {}
      BY DEF Init, NoCopies, NoOne
    <3> QED
      BY <3>1 DEF CopiesTo
  <2>2. \A s \in Session : Cardinality(CopiesTo(s)) = 0
    BY <2>1, FS_EmptySet
  <2> QED
    BY <2>2 DEF Heard, Rooms!Silence
<1> QED
  BY <1>1, <1>2, <1>3 DEF Init, Rooms!Init

(* Every step of ChatServer is a step of ChatRooms or none.                *)
LEMMA NextRooms == IInv /\ [Next]_vars => [Rooms!Next]_(Rooms!vars)
<1> SUFFICES ASSUME IInv, [Next]_vars PROVE [Rooms!Next]_(Rooms!vars)
  OBVIOUS
<1>1. CASE \/ \E s \in Session : OnClientJoin(s) \/ OnClientLeave(s)
           \/ \E s \in Session, packet \in Packet : OnRecv(s, packet)
  BY <1>1, CallbackIsHangUp DEF Rooms!Next
<1>2. CASE proc_MSG_JOIN
  BY <1>2, JoinIsEnter DEF Rooms!Next
<1>3. CASE proc_MSG_LEAVE
  BY <1>3, LeaveIsLeave DEF Rooms!Next
<1>4. CASE proc_PACKET_CS_CHAT_REQ_LOGIN
  BY <1>4, LoginIsLogin DEF Rooms!Next
<1>5. CASE proc_PACKET_CS_CHAT_REQ_SECTOR_MOVE
  BY <1>5, MoveIsMove DEF Rooms!Next
<1>6. CASE proc_PACKET_CS_CHAT_REQ_MESSAGE
  BY <1>6, MessageIsSay DEF Rooms!Next
<1>7. CASE proc_PACKET_CS_CHAT_REQ_HEARTBEAT \/ proc_MSG_PACKET_Unknown
  BY <1>7, OtherPacketIsHangUp DEF Rooms!Next
<1>8. CASE LoginServerStep \/ Tick
  BY <1>8, LoginServerSeen DEF Rooms!Next
<1>9. CASE UNCHANGED vars
  <2>1. UNCHANGED <<Stage, Leaving, AccountOf, PlaceOf, SharedKey, Heard, reply, loginConn>>
    BY <1>9 DEF vars, worldVars, Stage, Pending, Leaving, AccountOf, PlaceOf, HasSector,
                CellOf, SharedKey, Heard, CopiesTo
  <2> QED
    BY <2>1 DEF Rooms!vars
<1> QED
  BY <1>1, <1>2, <1>3, <1>4, <1>5, <1>6, <1>7, <1>8, <1>9, NextCases DEF PacketStep

(* The chat server implements ChatRooms, for any number of clients, any    *)
(* grid and whatever the clients send.                                     *)
THEOREM ChatServerImplementsChatRooms == Spec => ImplementsChatRooms
<1>1. Init => Rooms!Init
  BY InitRooms
<1>2. IInv /\ [Next]_vars => [Rooms!Next]_(Rooms!vars)
  BY NextRooms
<1> QED
  BY <1>1, <1>2, InductiveInvariant, PTL DEF Spec, ImplementsChatRooms, Rooms!Spec

=============================================================================
