------------------------------ MODULE ChatServer ------------------------------
(***************************************************************************)
(* The chat server of CChatServer/CChatServer: network callbacks that put  *)
(* JOIN, LEAVE and PACKET messages on one queue, the update thread that    *)
(* takes them off and owns the players and the sectors, the login map that *)
(* the connection to the login server fills (CLoginClient), and the part   *)
(* of the main thread's Monitoring() that expires it.                      *)
(*                                                                         *)
(* The update thread handles a message in one action: it alone touches the *)
(* player map and the sectors, and the login map it shares with the LAN    *)
(* worker and the main thread is only touched under _srwLoginMap.  How the *)
(* thread is started, woken and stopped is the subject of ChatUpdateThread.*)
(***************************************************************************)
EXTENDS Integers, Sequences, FiniteSets

CONSTANTS
  Session,      \* session IDs, never used twice by CNetServer
  Player,       \* st_PLAYER objects of _PlayerPool
  Account,      \* account numbers, 0 among them
  NoAccount,    \* account number 0: that of a st_PLAYER before its first login
  Key,          \* session keys
  MaxX, MaxY,   \* en_SECTOR_MAX_X, en_SECTOR_MAX_Y
  Packet,       \* packets the clients may send
  InfoTimeout,  \* en_INFO_TIMEOUT, in units of Tick
  SilenceLimit, \* age at which lLastRecvTick stops being told apart (bound)
  QueueMax,     \* messages queued before the clients pause (bound)
  LoginMax,     \* REQ_LOGINs a client sends in one session (bound)
  Null          \* nullptr, and nothing

PacketType == {"LOGIN", "SECTOR_MOVE", "MESSAGE", "HEARTBEAT", "UNKNOWN"}

(* One record shape for every packet; a field its type lacks is not read. *)
AnyPacket ==
  [type : PacketType, account : Account, key : Key, x : Int, y : Int]

(* st_LOGIN_INFO, its time stamp as an age. *)
LoginInfo == [key : Key, age : 0 .. InfoTimeout + 1]

ASSUME SessionAssumption == IsFiniteSet(Session) /\ Session # {}
ASSUME NullAssumption ==
  Null \notin Session \cup Player \cup Account \cup Key \cup AnyPacket \cup LoginInfo
ASSUME AccountAssumption == NoAccount \in Account
ASSUME GridAssumption == MaxX \in Nat \ {0} /\ MaxY \in Nat \ {0}
ASSUME PacketAssumption == \A p \in Packet : p \in AnyPacket
ASSUME BoundAssumption ==
  /\ InfoTimeout \in Nat /\ SilenceLimit \in Nat
  /\ QueueMax \in Nat /\ LoginMax \in Nat

VARIABLES
  session,      \* life cycle of each session inside CNetServer
  asked,        \* how many REQ_LOGINs the session's client has sent
  messageQ,     \* _MessageQ
  playerMap,    \* _PlayerMap: session ID -> st_PLAYER* or nothing
  free,         \* objects resting in _PlayerPool
  player,       \* the contents of every st_PLAYER, freed ones included
  sector,       \* _Sector[y][x]: how often each st_PLAYER* is in the list
  loginConn,    \* _pLoginClient->_bConnection
  loginMap,     \* _LoginMap: account -> key and age of the share, or nothing
  playerCnt,    \* _lMonitor_PlayerCnt
  reply,        \* status of the last RES_LOGIN sent to the session
  sent          \* copies of RES_MESSAGE the last step sent, per list position

vars == <<session, asked, messageQ, playerMap, free, player, sector, loginConn,
          loginMap, playerCnt, reply, sent>>

worldVars == <<playerMap, free, player, sector>>

-----------------------------------------------------------------------------
(* Data. *)

Cell == (0 .. MaxY - 1) \X (0 .. MaxX - 1)

Message ==
  [type : {"JOIN", "LEAVE"}, session : Session, packet : {Null}]
  \cup [type : {"PACKET"}, session : Session, packet : Packet]

PlayerRecord ==
  [session : Session \cup {Null}, account : Account,
   x : -1 .. MaxX - 1, y : -1 .. MaxY - 1, age : 0 .. SilenceLimit]

NoOne == [p \in Player |-> 0]
NoCopies == [c \in Cell |-> NoOne]

MutInRange(x, y) == x \in 0 .. MaxX /\ y \in 0 .. MaxY

InRange(x, y) == x \in 0 .. MaxX - 1 /\ y \in 0 .. MaxY - 1

Older(age, limit) == IF age < limit THEN age + 1 ELSE age

-----------------------------------------------------------------------------
(* Sectors. *)

CellOf(p) == <<player[p].y, player[p].x>>

HasSector(p) == player[p].x # -1 /\ player[p].y # -1

(* LeaveSector gives up, coordinates untouched, when the list is empty. *)
Leaves(p) == HasSector(p) /\ \E q \in Player : sector[CellOf(p)][q] # 0

MutSectorWithout(p) == sector

SectorWithout(p) ==
  IF Leaves(p) THEN [sector EXCEPT ![CellOf(p)][p] = 0] ELSE sector

RecordWithoutSector(p) ==
  IF Leaves(p) THEN [player[p] EXCEPT !.x = -1, !.y = -1] ELSE player[p]

(* LeaveSector, then EnterSector, which refuses a sector out of range: the *)
(* player then stays out of every list.                                    *)
SetSector(p, x, y) ==
  IF InRange(x, y)
  THEN /\ sector' = [SectorWithout(p) EXCEPT ![<<y, x>>][p] = @ + 1]
       /\ player' = [player EXCEPT ![p] =
                       [RecordWithoutSector(p) EXCEPT !.x = x, !.y = y, !.age = 0]]
  ELSE /\ sector' = SectorWithout(p)
       /\ player' = [player EXCEPT ![p] = RecordWithoutSector(p)]

MutGetSectorAround(y, x) ==
  {<<y - 1 + i, x - 1 + j>> : i \in 0 .. 2, j \in 0 .. 1} \cap Cell

GetSectorAround(y, x) ==
  {<<y - 1 + i, x - 1 + j>> : i \in 0 .. 2, j \in 0 .. 2} \cap Cell

(* One copy for every entry of the lists around p, p's own included. *)
SendPacket_Around(p) ==
  IF HasSector(p)
  THEN LET around == GetSectorAround(player[p].y, player[p].x)
       IN  [c \in Cell |-> IF c \in around THEN sector[c] ELSE NoOne]
  ELSE NoCopies

-----------------------------------------------------------------------------
(* CNetServer as this program uses it: OnClientJoin first, OnRecv while the *)
(* session lives, also after a disconnect was asked for but not completed,  *)
(* OnClientLeave last, each once per session where it says once.            *)

MutEnqueue(type, s, packet) ==
  LET m == [type |-> type, session |-> s, packet |-> packet]
  IN  messageQ' = IF type = "LEAVE" THEN <<m>> \o messageQ ELSE Append(messageQ, m)

Enqueue(type, s, packet) ==
  messageQ' = Append(messageQ, [type |-> type, session |-> s, packet |-> packet])

Disconnected(s) ==
  IF session[s] = "up" THEN [session EXCEPT ![s] = "closing"] ELSE session

OnClientJoin(s) ==
  /\ session[s] = "none"
  /\ session' = [session EXCEPT ![s] = "up"]
  /\ Enqueue("JOIN", s, Null)
  /\ sent' = NoCopies
  /\ UNCHANGED <<asked, worldVars, loginConn, loginMap, playerCnt, reply>>

(* A client sends what it likes, more than one login and account number 0  *)
(* included; LoginMax only bounds how many logins.                         *)
OnRecv(s, packet) ==
  /\ session[s] \in {"up", "closing"}
  /\ Len(messageQ) < QueueMax
  /\ packet.type = "LOGIN" => asked[s] < LoginMax
  /\ asked' = [asked EXCEPT ![s] = IF packet.type = "LOGIN" THEN @ + 1 ELSE @]
  /\ Enqueue("PACKET", s, packet)
  /\ sent' = NoCopies
  /\ UNCHANGED <<session, worldVars, loginConn, loginMap, playerCnt, reply>>

OnClientLeave(s) ==
  /\ session[s] \in {"up", "closing"}
  /\ session' = [session EXCEPT ![s] = "gone"]
  /\ Enqueue("LEAVE", s, Null)
  /\ sent' = NoCopies
  /\ UNCHANGED <<asked, worldVars, loginConn, loginMap, playerCnt, reply>>

-----------------------------------------------------------------------------
(* The update thread: one message per action. *)

(* The message at the head of the queue has this type, and is taken off. *)
Dequeue(type) ==
  /\ messageQ # <<>>
  /\ Head(messageQ).type = type
  /\ messageQ' = Tail(messageQ)

Who == Head(messageQ).session
What == Head(messageQ).packet
TakePacket(type) == Dequeue("PACKET") /\ What.type = type

(* map::insert keeps the entry that is there. *)
proc_MSG_JOIN ==
  /\ Dequeue("JOIN")
  /\ \E p \in free :
       /\ free' = free \ {p}
       /\ player' = [player EXCEPT ![p] =
                       [session |-> Who, account |-> NoAccount,
                        x |-> -1, y |-> -1, age |-> 0]]
       /\ playerMap' = [playerMap EXCEPT ![Who] = IF @ = Null THEN p ELSE @]
  /\ sent' = NoCopies
  /\ UNCHANGED <<session, asked, sector, loginConn, loginMap, playerCnt, reply>>

MutLeaveCnt(p) == playerCnt - 1

(* _lMonitor_PlayerCnt once p has left. *)
LeaveCnt(p) == IF player[p].account # NoAccount THEN playerCnt - 1 ELSE playerCnt

MutDropPlayerUnfreed(s, p) ==
  playerMap' = [playerMap EXCEPT ![s] = Null] /\ UNCHANGED free

MutDropPlayerMapped(s, p) == UNCHANGED playerMap /\ free' = free \cup {p}

DropPlayer(s, p) ==
  playerMap' = [playerMap EXCEPT ![s] = Null] /\ free' = free \cup {p}

proc_MSG_LEAVE ==
  /\ Dequeue("LEAVE")
  /\ LET p == playerMap[Who]
     IN  \/ /\ p = Null
            /\ UNCHANGED <<worldVars, playerCnt>>
         \/ /\ p # Null
            /\ playerCnt' = LeaveCnt(p)
            /\ sector' = SectorWithout(p)
            /\ player' = [player EXCEPT ![p] = RecordWithoutSector(p)]
            /\ DropPlayer(Who, p)
  /\ sent' = NoCopies
  /\ UNCHANGED <<session, asked, loginConn, loginMap, reply>>

MutLoginMap_Remove(account, key) == loginMap[account] # Null

(* LoginMap_Remove succeeds: the share is there and carries this key. *)
LoginMap_Remove(account, key) ==
  loginMap[account] # Null /\ loginMap[account].key = key

(* proc_PACKET_CS_CHAT_REQ_LOGIN with its player found.  The account is    *)
(* stored before the share is looked up, and without a connection to the   *)
(* login server every login is accepted.  Each one counts, be it the first or *)
(* a later one of the session, refused, or under account number 0.         *)
Login(p) ==
  LET share == LoginMap_Remove(What.account, What.key)
      ok == loginConn => share
  IN  /\ player' = [player EXCEPT ![p].account = What.account, ![p].age = 0]
      /\ loginMap' = IF loginConn /\ share
                     THEN [loginMap EXCEPT ![What.account] = Null] ELSE loginMap
      /\ playerCnt' = playerCnt + 1
      /\ reply' = [reply EXCEPT ![Who] = IF ok THEN "ok" ELSE "fail"]
      /\ session' = IF ok THEN session ELSE Disconnected(Who)

proc_PACKET_CS_CHAT_REQ_LOGIN ==
  /\ TakePacket("LOGIN")
  /\ \/ /\ playerMap[Who] = Null
        /\ session' = Disconnected(Who)
        /\ UNCHANGED <<player, loginMap, playerCnt, reply>>
     \/ /\ playerMap[Who] # Null
        /\ Login(playerMap[Who])
  /\ sent' = NoCopies
  /\ UNCHANGED <<asked, playerMap, free, sector, loginConn>>

(* The packet names another account than the player's.  Before its first   *)
(* login the player's is NoAccount, which a packet may name too.           *)
WrongAccount(p) == player[p].account # What.account

proc_PACKET_CS_CHAT_REQ_SECTOR_MOVE ==
  /\ TakePacket("SECTOR_MOVE")
  /\ LET p == playerMap[Who]
     IN  \/ /\ p = Null
            /\ UNCHANGED <<session, player, sector>>
         \/ /\ p # Null /\ WrongAccount(p)
            /\ session' = Disconnected(Who)
            /\ UNCHANGED <<player, sector>>
         \/ /\ p # Null /\ ~WrongAccount(p)
            /\ SetSector(p, What.x, What.y)
            /\ session' = IF InRange(What.x, What.y)
                          THEN session ELSE Disconnected(Who)
  /\ sent' = NoCopies
  /\ UNCHANGED <<asked, playerMap, free, loginConn, loginMap, playerCnt, reply>>

proc_PACKET_CS_CHAT_REQ_MESSAGE ==
  /\ TakePacket("MESSAGE")
  /\ LET p == playerMap[Who]
     IN  \/ /\ p = Null
            /\ sent' = NoCopies
            /\ UNCHANGED <<session, player>>
         \/ /\ p # Null /\ WrongAccount(p)
            /\ session' = Disconnected(Who)
            /\ sent' = NoCopies
            /\ UNCHANGED player
         \/ /\ p # Null /\ ~WrongAccount(p)
            /\ player' = [player EXCEPT ![p].age = 0]
            /\ sent' = SendPacket_Around(p)
            /\ UNCHANGED session
  /\ UNCHANGED <<asked, playerMap, free, sector, loginConn, loginMap, playerCnt, reply>>

proc_PACKET_CS_CHAT_REQ_HEARTBEAT ==
  /\ TakePacket("HEARTBEAT")
  /\ player' = IF playerMap[Who] = Null THEN player
               ELSE [player EXCEPT ![playerMap[Who]].age = 0]
  /\ sent' = NoCopies
  /\ UNCHANGED <<session, asked, playerMap, free, sector, loginConn, loginMap,
                 playerCnt, reply>>

(* proc_MSG_PACKET's default branch. *)
proc_MSG_PACKET_Unknown ==
  /\ TakePacket("UNKNOWN")
  /\ session' = Disconnected(Who)
  /\ sent' = NoCopies
  /\ UNCHANGED <<asked, worldVars, loginConn, loginMap, playerCnt, reply>>

UpdateThread_Process ==
  \/ proc_MSG_JOIN
  \/ proc_MSG_LEAVE
  \/ proc_PACKET_CS_CHAT_REQ_LOGIN
  \/ proc_PACKET_CS_CHAT_REQ_SECTOR_MOVE
  \/ proc_PACKET_CS_CHAT_REQ_MESSAGE
  \/ proc_PACKET_CS_CHAT_REQ_HEARTBEAT
  \/ proc_MSG_PACKET_Unknown

-----------------------------------------------------------------------------
(* The connection to the login server, and the main thread's expiry. *)

contentVars == <<session, asked, messageQ, worldVars, playerCnt, reply>>

LoginClient_OnClientJoin ==
  /\ ~loginConn
  /\ loginConn' = TRUE
  /\ sent' = NoCopies
  /\ UNCHANGED <<contentVars, loginMap>>

(* The login map survives the connection that filled it. *)
LoginClient_OnClientLeave ==
  /\ loginConn
  /\ loginConn' = FALSE
  /\ sent' = NoCopies
  /\ UNCHANGED <<contentVars, loginMap>>

(* LoginMap_Add replaces the share an account already has. *)
proc_PACKET_SS_REQ_NEW_CLIENT_LOGIN(account, key) ==
  /\ loginConn
  /\ loginMap' = [loginMap EXCEPT ![account] = [key |-> key, age |-> 0]]
  /\ sent' = NoCopies
  /\ UNCHANGED <<contentVars, loginConn>>

Expired(info) == info # Null /\ info.age > InfoTimeout

(* Monitoring() expires shares only while the login server is connected. *)
LoginMap_Timeout ==
  /\ loginConn
  /\ loginMap' = [a \in Account |->
                    IF Expired(loginMap[a]) THEN Null ELSE loginMap[a]]
  /\ sent' = NoCopies
  /\ UNCHANGED <<contentVars, loginConn>>

(* Time passes for the two GetTickCount64 stamps that are kept. *)
Tick ==
  /\ loginMap' = [a \in Account |->
                    IF loginMap[a] = Null THEN Null
                    ELSE [loginMap[a] EXCEPT !.age = Older(@, InfoTimeout + 1)]]
  /\ player' = [p \in Player |-> [player[p] EXCEPT !.age = Older(@, SilenceLimit)]]
  /\ sent' = NoCopies
  /\ UNCHANGED <<session, asked, messageQ, playerMap, free, sector, loginConn,
                 playerCnt, reply>>

-----------------------------------------------------------------------------
Init ==
  /\ session = [s \in Session |-> "none"]
  /\ asked = [s \in Session |-> 0]
  /\ messageQ = <<>>
  /\ playerMap = [s \in Session |-> Null]
  /\ free = Player
  /\ player = [p \in Player |->
                 [session |-> Null, account |-> NoAccount,
                  x |-> -1, y |-> -1, age |-> 0]]
  /\ sector = NoCopies
  /\ loginConn \in BOOLEAN
  /\ loginMap = [a \in Account |-> Null]
  /\ playerCnt = 0
  /\ reply = [s \in Session |-> "none"]
  /\ sent = NoCopies

Next ==
  \/ \E s \in Session : OnClientJoin(s)
  \/ \E s \in Session, packet \in Packet : OnRecv(s, packet)
  \/ \E s \in Session : OnClientLeave(s)
  \/ UpdateThread_Process
  \/ LoginClient_OnClientJoin
  \/ LoginClient_OnClientLeave
  \/ \E a \in Account, k \in Key : proc_PACKET_SS_REQ_NEW_CLIENT_LOGIN(a, k)
  \/ LoginMap_Timeout
  \/ Tick

Spec == Init /\ [][Next]_vars

(* CNetServer completes a disconnect it was asked for, a started update    *)
(* thread keeps draining its queue, and time passes.                       *)
Fairness ==
  /\ \A s \in Session : WF_vars(session[s] = "closing" /\ OnClientLeave(s))
  /\ WF_vars(UpdateThread_Process)
  /\ WF_vars(Tick)

FairSpec == Spec /\ Fairness

-----------------------------------------------------------------------------
(* What must hold. *)

(* Every variable keeps the shape the code's declarations give it. *)
TypeOK ==
  /\ session \in [Session -> {"none", "up", "closing", "gone"}]
  /\ asked \in [Session -> Nat]
  /\ messageQ \in Seq(Message)
  /\ playerMap \in [Session -> Player \cup {Null}]
  /\ free \in SUBSET Player
  /\ player \in [Player -> PlayerRecord]
  /\ sector \in [Cell -> [Player -> Nat]]
  /\ loginConn \in BOOLEAN
  /\ loginMap \in [Account -> LoginInfo \cup {Null}]
  /\ playerCnt \in Int
  /\ reply \in [Session -> {"none", "ok", "fail"}]
  /\ sent \in [Cell -> [Player -> Nat]]

InMap(p) == \E s \in Session : playerMap[s] = p

(* SetSector, LeaveSector and the pool keep _Sector in step with the       *)
(* players: each mapped player is once in the list its coordinates name and *)
(* nowhere else, and no list holds a player that went back to the pool,     *)
(* whatever moves, refused moves and leaves the clients made before.        *)
SectorListsMatchPlayers ==
  \A c \in Cell, p \in Player :
    sector[c][p] = IF InMap(p) /\ HasSector(p) /\ CellOf(p) = c THEN 1 ELSE 0

(* _PlayerMap and _PlayerPool share out the st_PLAYERs: one object per     *)
(* session, filled for that session, and every other object is free.       *)
PoolMatchesMap ==
  /\ free = {p \in Player : ~InMap(p)}
  /\ \A s, t \in Session : playerMap[s] = playerMap[t] /\ playerMap[s] # Null => s = t
  /\ \A s \in Session : playerMap[s] # Null => player[playerMap[s]].session = s

(* Queue order is what makes SearchPlayer succeed: when a PACKET or LEAVE   *)
(* is handled its player exists, so the "Player Not Find" branches are dead *)
(* and no packet is dropped; when a JOIN is handled there is none to leak.  *)
MessageFindsItsPlayer ==
  messageQ # <<>> => (Head(messageQ).type = "JOIN" <=> playerMap[Who] = Null)

Pending(s) == \E i \in 1 .. Len(messageQ) : messageQ[i].session = s

(* A session that has ended, with all its messages handled, has left no    *)
(* st_PLAYER behind.                                                       *)
NoPlayerOutlivesItsSession ==
  \A s \in Session : session[s] = "gone" /\ ~Pending(s) => playerMap[s] = Null

(* A st_PLAYER is in the map from its JOIN to its LEAVE: whenever a message *)
(* is handled, and whenever all of a session's have been.                   *)
PlayerLivesFromJoinToLeave == MessageFindsItsPlayer /\ NoPlayerOutlivesItsSession

HasAccount(s) ==
  playerMap[s] # Null /\ player[playerMap[s]].account # NoAccount

PlayersWithAccount == Cardinality({s \in Session : HasAccount(s)})

(* ++ in REQ_LOGIN against -- in MSG_LEAVE: whatever logins a client sends, *)
(* again, refused, under another account or under none, _lMonitor_PlayerCnt *)
(* never falls below the players in the map that have an account, so it    *)
(* never goes negative and no leave takes off what another login counted.  *)
PlayerCntCoversPlayers == PlayersWithAccount <= playerCnt

(* CChatServer.cpp:212 calls _lMonitor_PlayerCnt the number of all that    *)
(* logged in: a second login of a session, and one under account number 0, *)
(* raise it at line 530 without line 348 ever taking it back.              *)
PlayerCntMatchesPlayers == playerCnt = PlayersWithAccount

ChatFrom(s) ==
  /\ TakePacket("MESSAGE") /\ Who = s
  /\ playerMap[s] # Null
  /\ ~WrongAccount(playerMap[s])

Near(p, q) ==
  /\ HasSector(p) /\ HasSector(q)
  /\ player[p].x - player[q].x \in -1 .. 1
  /\ player[p].y - player[q].y \in -1 .. 1

(* SendPacket_Around: a chat is sent once to every player at most one      *)
(* sector away in each direction, the sender included, and to no one else; *)
(* what it is sent to is the session the player belongs to.                *)
ChatReachesNeighboursOnce ==
  [][\A s \in Session : ChatFrom(s) =>
       \A c \in Cell, q \in Player :
         sent'[c][q] = IF /\ \E t \in Session : /\ playerMap[t] = q
                                              /\ player[q].session = t
                          /\ Near(playerMap[s], q)
                          /\ CellOf(q) = c
                       THEN 1 ELSE 0]_vars

(* How ChatRooms sees the chat server. *)

Stage ==
  [s \in Session |->
     IF playerMap[s] # Null THEN "inside"
     ELSE IF session[s] = "gone" /\ ~Pending(s) THEN "left" ELSE "outside"]

Leaving == {s \in Session : session[s] \in {"closing", "gone"}}

AccountOf ==
  [s \in Session |-> IF playerMap[s] = Null THEN NoAccount
                    ELSE player[playerMap[s]].account]

PlaceOf ==
  [s \in Session |-> IF playerMap[s] # Null /\ HasSector(playerMap[s])
                     THEN CellOf(playerMap[s]) ELSE <<-1, -1>>]

SharedKey == [a \in Account |-> IF loginMap[a] = Null THEN Null ELSE loginMap[a].key]

(* The copies of the last chat that went to session s, each told apart.    *)
CopiesTo(s) ==
  UNION {{<<c, p, i>> : i \in 1 .. sent[c][p]} :
           c \in Cell, p \in {q \in Player : player[q].session = s}}

Heard == [s \in Session |-> Cardinality(CopiesTo(s))]

Rooms == INSTANCE ChatRooms WITH
  stage <- Stage, leaving <- Leaving, account <- AccountOf, answer <- reply,
  at <- PlaceOf, connected <- loginConn, shares <- SharedKey, heard <- Heard

(* With its queue, pool, map and sector lists the chat server behaves as   *)
(* ChatRooms: st_PLAYERs that are used again show nobody's account or      *)
(* place, a client passes through once, a login takes its own share or is  *)
(* disconnected, a refused move leaves the sector, and every chat reaches  *)
(* the sessions, not the objects, of the nine sectors around, once each.   *)
ImplementsChatRooms == Rooms!Spec

(* The login map: a share younger than en_INFO_TIMEOUT disappears only     *)
(* because a client logged in with that account and that key; a time-out,  *)
(* a login with another key or a lost login server never take it.          *)
FreshShareIsKept ==
  [][\A a \in Account :
       /\ loginMap[a] # Null /\ loginMap'[a] = Null
       /\ loginMap[a].age <= InfoTimeout
       => /\ TakePacket("LOGIN")
          /\ What.account = a /\ What.key = loginMap[a].key
          /\ reply'[Who] = "ok"]_vars

(* DisconnectSession is followed through: the session ends and its LEAVE   *)
(* takes the player out of the map.                                        *)
DisconnectedPlayerLeaves ==
  \A s \in Session :
    session[s] = "closing" ~> session[s] = "gone" /\ playerMap[s] = Null


Silent(s) ==
  /\ session[s] = "up" /\ playerMap[s] # Null
  /\ player[playerMap[s]].age = SilenceLimit

(* CommonProtocol.h:114-115: a client from which nothing came for 40       *)
(* seconds (SilenceLimit ticks) must be disconnected.                      *)
SilentClientIsCut == \A s \in Session : Silent(s) ~> ~Silent(s)

=============================================================================
