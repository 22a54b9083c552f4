----------------------------- MODULE LoginServer -----------------------------
(***************************************************************************)
(* The login server of CLoginServer/CLoginServer: CLoginServer, which the  *)
(* clients connect to, and CLoginLanServer, which the chat and game servers *)
(* connect to, with the account table that CDBAccount reads.               *)
(*                                                                         *)
(* Handlers run on the workers of two networks at once.  Their steps end   *)
(* where they release a lock, and before every later access through the    *)
(* st_PLAYER* that SearchPlayer handed out of its lock.                     *)
(*                                                                         *)
(* A client sends one REQ_LOGIN per session here; the code would take more. *)
(* CDBAccount.cpp:35 does not test the key column, which is taken to be set.*)
(***************************************************************************)
EXTENDS Integers, Sequences, FiniteSets

CONSTANTS
  Session,     \* session IDs of the clients, never used twice by CNetServer
  Player,      \* st_PLAYER objects of _PlayerPool
  Conn,        \* LAN session IDs of the other servers, never used twice
  Account,     \* account numbers
  Key,         \* session keys
  Known,       \* accounts that have a row in v_account
  Complete,    \* those whose id, nickname and status columns are not null
  KeyChecked,  \* accounts numbered 1000000 and above: their key is compared
  RowKey,      \* the key in an account's row
  Playing,     \* accounts whose status column says in game
  Timeout,     \* en_TIMEOUT, in units of Tick
  Null

Status == {"NONE", "OK", "NOSERVER", "ACCOUNT_MISS", "STATUS_MISS", "FAIL", "GAME"}

Share == [account : Account, key : Key, param : Session]

ASSUME NullAssumption ==
  /\ Null \notin Session \cup Player \cup Account \cup Key \cup Share
  /\ Null \notin [account : Account \cup {Null}, key : Key \cup {Null}]
ASSUME TableAssumption == RowKey \in [Account -> Key]
ASSUME TimeoutAssumption == Timeout \in Nat

VARIABLES
  session,   \* life cycle of each session inside CNetServer
  asked,     \* account and key of the session's REQ_LOGIN, or Null
  list,      \* _PlayerList
  free,      \* objects resting in _PlayerPool
  player,    \* the contents of every st_PLAYER, freed ones included
  req,       \* where the session's REQ_LOGIN handler is, and its pPlayer
  unsent,    \* sends of the session whose OnSend has not run yet
  conn,      \* life cycle of each server's connection
  type,      \* byServerType of its st_SERVER
  pending,   \* shares sent on the connection and not answered, in order
  comp,      \* where the handler of the connection's answer is, its pPlayer and share
  bConnectChatServer,
  answers    \* RES_LOGIN packets sent so far (history)

vars == <<session, asked, list, free, player, req, unsent, conn, type, pending,
          comp, bConnectChatServer, answers>>
poolVars == <<list, free>>
clientVars == <<session, asked, req, unsent>>
lanVars == <<conn, type, pending, comp, bConnectChatServer>>

-----------------------------------------------------------------------------
(* Data. *)

NoTick == -1

(* lLoginReqTick as an age; the object keeps its account when it is freed. *)
PlayerRecord ==
  [session : Session \cup {Null}, account : Account \cup {Null},
   key : Key \cup {Null}, status : Status, tick : NoTick .. Timeout + 1]

Idle == [at |-> "idle", player |-> Null]
At(place, p) == [at |-> place, player |-> p]

Quiet == [at |-> "idle", player |-> Null, share |-> Null]
Handling(place, p, share) == [at |-> place, player |-> p, share |-> share]

(* ReadDB: the first check that fails decides. *)
ReadDB(account, key) ==
  IF account \notin Known THEN "ACCOUNT_MISS"
  ELSE IF account \notin Complete THEN "STATUS_MISS"
  ELSE IF account \in KeyChecked /\ RowKey[account] # key THEN "FAIL"
  ELSE IF account \in Playing THEN "GAME"
  ELSE "OK"

MutSearchPlayer(s) == list

(* What SearchPlayer finds, as a set of at most one object. *)
SearchPlayer(s) == {p \in list : player[p].session = s}

ServerList == {c \in Conn : conn[c] \in {"up", "in"}}

Alive(s) == session[s] \in {"up", "closing"}

Disconnected(s) ==
  IF session[s] = "up" THEN [session EXCEPT ![s] = "closing"] ELSE session

(* mpResLogin reads p afresh; the send goes to the session p names.  For    *)
(* whom the handler works is kept beside the packet.                        *)
Answered(p, asker) ==
  IF player[p].session \in Session /\ Alive(player[p].session)
  THEN answers \cup {[to |-> player[p].session, account |-> player[p].account,
                      status |-> player[p].status, asker |-> asker]}
  ELSE answers

-----------------------------------------------------------------------------
(* Sessions of clients. *)

(* iAccountNo keeps what the object's last user left in it. *)
OnClientJoin(s) ==
  /\ session[s] = "none"
  /\ session' = [session EXCEPT ![s] = "up"]
  /\ \E p \in free :
       /\ free' = free \ {p}
       /\ list' = list \cup {p}
       /\ player' = [player EXCEPT ![p] =
            [@ EXCEPT !.session = s, !.key = Null, !.status = "NONE", !.tick = NoTick]]
  /\ UNCHANGED <<asked, req, unsent, lanVars, answers>>

MutLeaving(s) == list

(* The object OnClientLeave unlinks and frees: the session's own, or, had   *)
(* the search failed, the last one it looked at.                            *)
Leaving(s) == IF SearchPlayer(s) # {} THEN SearchPlayer(s) ELSE list

(* CNetServer calls it once, when no other callback of the session runs.    *)
OnClientLeave(s) ==
  /\ Alive(s) /\ req[s] = Idle
  /\ session' = [session EXCEPT ![s] = "gone"]
  /\ unsent' = [unsent EXCEPT ![s] = FALSE]
  /\ \E p \in Leaving(s) :
       /\ list' = list \ SearchPlayer(s)
       /\ free' = free \cup {p}
       /\ player' = [player EXCEPT ![p].tick = NoTick]
  /\ UNCHANGED <<asked, req, lanVars, answers>>

MutOnSend(s) ==
  /\ Alive(s) /\ unsent[s]
  /\ unsent' = [unsent EXCEPT ![s] = FALSE]
  /\ UNCHANGED <<session, asked, req, poolVars, player, lanVars, answers>>

(* Whatever has been sent, the session is disconnected. *)
OnSend(s) ==
  /\ Alive(s) /\ unsent[s]
  /\ unsent' = [unsent EXCEPT ![s] = FALSE]
  /\ session' = IF SearchPlayer(s) # {} THEN Disconnected(s) ELSE session
  /\ UNCHANGED <<asked, req, poolVars, player, lanVars, answers>>

-----------------------------------------------------------------------------
(* proc_PACKET_CS_LOGIN_REQ_LOGIN, on the worker that received it.  A client *)
(* sends it once per session.                                               *)

Stored(p, account, key) == [player EXCEPT ![p].account = account, ![p].key = key]

ReqLogin(s, account, key) ==
  /\ Alive(s) /\ asked[s] = Null
  /\ asked' = [asked EXCEPT ![s] = [account |-> account, key |-> key]]
  /\ \/ /\ SearchPlayer(s) = {}
        /\ UNCHANGED <<player, req>>
     \/ \E p \in SearchPlayer(s) :
          /\ player' = Stored(p, account, key)
          /\ req' = [req EXCEPT ![s] = At("flag", p)]
  /\ UNCHANGED <<session, unsent, poolVars, lanVars, answers>>

ReqFlag(s) ==
  LET p == req[s].player
  IN  /\ req[s].at = "flag"
      /\ \/ /\ bConnectChatServer
            /\ player' = [player EXCEPT ![p].tick = 0]
            /\ req' = [req EXCEPT ![s] = At("db", p)]
         \/ /\ ~bConnectChatServer
            /\ player' = [player EXCEPT ![p].status = "NOSERVER"]
            /\ req' = [req EXCEPT ![s] = At("refuse", p)]
      /\ UNCHANGED <<session, asked, unsent, poolVars, lanVars, answers>>

ReqReadDB(s) ==
  LET p == req[s].player
  IN  /\ req[s].at = "db"
      /\ player' = [player EXCEPT ![p].status = ReadDB(player[p].account, player[p].key)]
      /\ req' = [req EXCEPT ![s] = At("status", p)]
      /\ UNCHANGED <<session, asked, unsent, poolVars, lanVars, answers>>

MutShareOf(p) ==
  [account |-> player[p].session, key |-> player[p].key, param |-> player[p].account]

ShareOf(p) ==
  [account |-> player[p].account, key |-> player[p].key, param |-> player[p].session]

MutBroadcast(share) == pending

(* Every server in the list gets the share, logged in or not. *)
Broadcast(share) ==
  [c \in Conn |-> IF c \in ServerList THEN Append(pending[c], share) ELSE pending[c]]

ReqShare(s) ==
  LET p == req[s].player
  IN  /\ req[s].at = "status"
      /\ player[p].status = "OK"
      /\ pending' = Broadcast(ShareOf(p))
      /\ req' = [req EXCEPT ![s] = Idle]
      /\ UNCHANGED <<session, asked, unsent, poolVars, player, conn, type, comp,
                     bConnectChatServer, answers>>

ReqRefuse(s) ==
  LET p == req[s].player
  IN  /\ \/ req[s].at = "refuse"
         \/ req[s].at = "status" /\ player[p].status # "OK"
      /\ answers' = Answered(p, s)
      /\ unsent' = [unsent EXCEPT ![player[p].session] = TRUE]
      /\ req' = [req EXCEPT ![s] = Idle]
      /\ UNCHANGED <<session, asked, poolVars, player, lanVars>>

Request(s) == ReqFlag(s) \/ ReqReadDB(s) \/ ReqShare(s) \/ ReqRefuse(s)

-----------------------------------------------------------------------------
(* CLoginLanServer. *)

(* byServerType of a new st_SERVER is not initialised. *)
LanOnClientJoin(c) ==
  /\ conn[c] = "none"
  /\ conn' = [conn EXCEPT ![c] = "up"]
  /\ \E t \in {"CHAT", "GAME", "NONE"} : type' = [type EXCEPT ![c] = t]
  /\ UNCHANGED <<clientVars, poolVars, player, pending, comp, bConnectChatServer, answers>>

proc_PACKET_SS_LOGINSERVER_LOGIN(c, t) ==
  /\ conn[c] = "up"
  /\ conn' = [conn EXCEPT ![c] = "in"]
  /\ type' = [type EXCEPT ![c] = t]
  /\ bConnectChatServer' = (t = "CHAT" \/ bConnectChatServer)
  /\ UNCHANGED <<clientVars, poolVars, player, pending, comp, answers>>

MutFlagAfterLeave(c) == bConnectChatServer

FlagAfterLeave(c) == IF type[c] = "CHAT" THEN FALSE ELSE bConnectChatServer

LanOnClientLeave(c) ==
  /\ c \in ServerList /\ comp[c] = Quiet
  /\ conn' = [conn EXCEPT ![c] = "gone"]
  /\ bConnectChatServer' = FlagAfterLeave(c)
  /\ pending' = [pending EXCEPT ![c] = <<>>]
  /\ UNCHANGED <<clientVars, poolVars, player, type, comp, answers>>

(* A server answers the shares it was sent, one after the other; a share    *)
(* sent before its login included.  comp_PACKET_SS_RES_NEW_CLIENT_LOGIN     *)
(* begins by looking its player up.                                         *)
CompSearch(c) ==
  /\ conn[c] = "in" /\ comp[c] = Quiet /\ pending[c] # <<>>
  /\ pending' = [pending EXCEPT ![c] = Tail(@)]
  /\ LET share == Head(pending[c])
         found == SearchPlayer(share.param)
     IN  \/ /\ found = {}
            /\ UNCHANGED comp
         \/ \E p \in found : comp' = [comp EXCEPT ![c] = Handling("check", p, share)]
  /\ UNCHANGED <<clientVars, poolVars, player, conn, type, bConnectChatServer, answers>>

CompCheck(c) ==
  LET p == comp[c].player
  IN  /\ comp[c].at = "check"
      /\ comp' = [comp EXCEPT ![c] =
                    IF player[p].account = @.share.account
                    THEN Handling("status", p, @.share) ELSE Quiet]
      /\ UNCHANGED <<clientVars, poolVars, player, conn, type, pending,
                     bConnectChatServer, answers>>

CompStatus(c) ==
  LET p == comp[c].player
  IN  /\ comp[c].at = "status"
      /\ player' = [player EXCEPT ![p].status = "OK"]
      /\ comp' = [comp EXCEPT ![c] = Handling("send", p, @.share)]
      /\ UNCHANGED <<clientVars, poolVars, conn, type, pending,
                     bConnectChatServer, answers>>

(* SendPacket_Disconnect: the session ends once the packet is out. *)
Completed(p) ==
  IF player[p].session \in Session THEN Disconnected(player[p].session) ELSE session

CompSend(c) ==
  LET p == comp[c].player
  IN  /\ comp[c].at = "send"
      /\ answers' = Answered(p, comp[c].share.param)
      /\ session' = Completed(p)
      /\ comp' = [comp EXCEPT ![c] = Quiet]
      /\ UNCHANGED <<asked, req, unsent, poolVars, player, conn, type, pending,
                     bConnectChatServer>>

Completion(c) == CompSearch(c) \/ CompCheck(c) \/ CompStatus(c) \/ CompSend(c)

-----------------------------------------------------------------------------
(* The update thread looks for a request exactly Timeout old and stops at   *)
(* the first one it finds.                                                  *)
UpdateThread_Process ==
  /\ \E p \in list :
       player[p].tick = Timeout /\ session' = Disconnected(player[p].session)
  /\ UNCHANGED <<asked, req, unsent, poolVars, player, lanVars, answers>>

Older(tick) == IF tick \in 0 .. Timeout THEN tick + 1 ELSE tick

Tick ==
  /\ player' = [p \in Player |-> [player[p] EXCEPT !.tick = Older(@)]]
  /\ UNCHANGED <<clientVars, poolVars, lanVars, answers>>

-----------------------------------------------------------------------------
(* Memory the pool hands out for the first time is not initialised. *)
Init ==
  /\ session = [s \in Session |-> "none"]
  /\ asked = [s \in Session |-> Null]
  /\ list = {}
  /\ free = Player
  /\ \E old \in [Player -> Account \cup {Null}] :
       player = [p \in Player |-> [session |-> Null, account |-> old[p], key |-> Null,
                                   status |-> "NONE", tick |-> NoTick]]
  /\ req = [s \in Session |-> Idle]
  /\ unsent = [s \in Session |-> FALSE]
  /\ conn = [c \in Conn |-> "none"]
  /\ type = [c \in Conn |-> "NONE"]
  /\ pending = [c \in Conn |-> <<>>]
  /\ comp = [c \in Conn |-> Quiet]
  /\ bConnectChatServer = FALSE
  /\ answers = {}

Next ==
  \/ \E s \in Session : OnClientJoin(s)
  \/ \E s \in Session : OnClientLeave(s)
  \/ \E s \in Session : OnSend(s)
  \/ \E s \in Session, a \in Account, k \in Key : ReqLogin(s, a, k)
  \/ \E s \in Session : Request(s)
  \/ \E c \in Conn : LanOnClientJoin(c)
  \/ \E c \in Conn, t \in {"CHAT", "GAME"} : proc_PACKET_SS_LOGINSERVER_LOGIN(c, t)
  \/ \E c \in Conn : LanOnClientLeave(c)
  \/ \E c \in Conn : Completion(c)
  \/ UpdateThread_Process
  \/ Tick

Spec == Init /\ [][Next]_vars

(* Workers go on with what they began, the libraries complete sends and     *)
(* disconnects, a connected server answers, and the update thread looks     *)
(* again and again, but at no particular moment.                            *)
Fairness ==
  /\ \A s \in Session : /\ WF_vars(Request(s))
                        /\ WF_vars(OnSend(s))
                        /\ WF_vars(session[s] = "closing" /\ OnClientLeave(s))
  /\ \A c \in Conn : WF_vars(Completion(c))
  /\ WF_vars(UpdateThread_Process)
  /\ WF_vars(Tick)

FairSpec == Spec /\ Fairness

-----------------------------------------------------------------------------
(* What must hold. *)

(* Every variable keeps the shape the code's declarations give it. *)
TypeOK ==
  /\ session \in [Session -> {"none", "up", "closing", "gone"}]
  /\ asked \in [Session -> [account : Account, key : Key] \cup {Null}]
  /\ list \in SUBSET Player
  /\ free \in SUBSET Player
  /\ player \in [Player -> PlayerRecord]
  /\ req \in [Session ->
       {Idle} \cup [at : {"flag", "db", "status", "refuse"}, player : Player]]
  /\ unsent \in [Session -> BOOLEAN]
  /\ conn \in [Conn -> {"none", "up", "in", "gone"}]
  /\ type \in [Conn -> {"CHAT", "GAME", "NONE"}]
  /\ pending \in [Conn -> Seq(Share)]
  /\ comp \in [Conn ->
       {Quiet} \cup [at : {"check", "status", "send"}, player : Player, share : Share]]
  /\ bConnectChatServer \in BOOLEAN
  /\ answers \in SUBSET [to : Session, account : Account \cup {Null},
                         status : Status, asker : Session]

(* _PlayerList and _PlayerPool share out the st_PLAYERs, and the list holds *)
(* exactly one object for every session CNetServer has: OnClientLeave       *)
(* always finds the object it frees, and frees no other session's.          *)
PlayersMatchSessions ==
  /\ free = Player \ list
  /\ \A p \in list : player[p].session \in Session /\ Alive(player[p].session)
  /\ \A p, q \in list : player[p].session = player[q].session => p = q
  /\ \A s \in Session : Alive(s) => SearchPlayer(s) # {}

(* The pointer a login request took from SearchPlayer stays its session's   *)
(* own object, with what the client sent, through the database query and    *)
(* up to its last use, whatever the other handlers do meanwhile.            *)
HandlerKeepsItsPlayer ==
  \A s \in Session : req[s] # Idle =>
    LET p == req[s].player
    IN  /\ p \in list
        /\ player[p].session = s
        /\ asked[s] = [account |-> player[p].account, key |-> player[p].key]

(* A share on its way to a server names the account and key that the        *)
(* session in its parameter sent, though they passed through a pooled       *)
(* object and a database query.                                             *)
ShareCarriesItsRequest ==
  \A c \in Conn : \A i \in 1 .. Len(pending[c]) :
    LET share == pending[c][i]
    IN  asked[share.param] = [account |-> share.account, key |-> share.key]

ChatServerIn == \E c \in Conn : conn[c] = "in" /\ type[c] = "CHAT"

(* _bConnectChatServer never outlives the chat servers: a request that      *)
(* passes the test at line 339 had a chat server in the list to share with. *)
ChatFlagImpliesServer == bConnectChatServer => ChatServerIn

Answer(s) == \E r \in answers : r.to = s

(* A session that was sent an answer does not linger: OnSend, or            *)
(* SendPacket_Disconnect, ends it.                                          *)
AnsweredSessionEnds == \A s \in Session : Answer(s) ~> session[s] = "gone"

NoServerLost == \A c \in Conn : conn[c] # "gone"

(* As long as no server's connection is lost, every login request is        *)
(* answered, unless its session ends first.                                 *)
RequestIsAnswered ==
  []NoServerLost =>
    \A s \in Session : asked[s] # Null ~> Answer(s) \/ session[s] = "gone"

(* CommonProtocol.h:244-248: the parameter tells one share from another, so *)
(* that an answer is not taken for that to a later session's.               *)
AnswerIsForItsRequest == \A r \in answers : r.to = r.asker

(* CLoginNetServer.cpp:338: the flag checks whether the chat server is      *)
(* connected.                                                               *)
ChatFlagFollowsServer == ChatServerIn => bConnectChatServer

Overdue(s) ==
  session[s] = "up" /\ \E p \in SearchPlayer(s) : player[p].tick = Timeout + 1

(* CLoginNetServer.h:31-32: a request unanswered for en_TIMEOUT is timed    *)
(* out.                                                                     *)
OverdueIsCut == \A s \in Session : Overdue(s) ~> ~Overdue(s)

=============================================================================
