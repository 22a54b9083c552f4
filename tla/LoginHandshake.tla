---------------------------- MODULE LoginHandshake ----------------------------
(***************************************************************************)
(* A login over two processes: the login server of LoginServer, the chat   *)
(* server's login map as LoginShares promises it (LoginClient keeps that   *)
(* promise), and between them the LAN connection of CLoginClient, which is *)
(* lost and made anew.  Each action is an action of one of the two, with   *)
(* what it puts on the connection or takes off it.                         *)
(***************************************************************************)
EXTENDS LoginServer

CONSTANT InfoTimeout  \* en_INFO_TIMEOUT, in units of Chat's Grow

ASSUME InfoTimeoutAssumption == InfoTimeout \in Nat
ASSUME NoShareAssumption ==
  Null \notin Conn \cup [key : Key, age : 0 .. InfoTimeout + 1]

VARIABLES
  line,      \* the connection CLoginClient has, or Null
  ours,      \* the connections it has made, one after the other
  wire,      \* shares under way to the chat server on it, in order
  answer,    \* the chat server's answers under way on each connection
  shares,    \* the login map: the key and age of each account's share
  owed,      \* the share CLoginClient has added and not yet answered
  told,      \* the last answer it sent
  verdict,   \* what LoginMap_Remove last decided
  from,      \* the session that asked for the share held (history)
  admitted   \* the chat logins granted for each session's share (history)

Chat == INSTANCE LoginShares WITH Param <- Session

linkVars == <<line, ours, wire, answer>>
mapVars == <<shares, owed, told, verdict>>
histVars == <<from, admitted>>
chatVars == <<linkVars, mapVars, histVars>>
allVars == <<vars, chatVars>>

-----------------------------------------------------------------------------
(* The connection.  CLanClient has one at a time, and calls OnClientLeave   *)
(* when no request is being handled; either end may notice a loss first.    *)

ChatConnects(c) ==
  /\ line = Null
  /\ LanOnClientJoin(c)
  /\ line' = c
  /\ ours' = ours \cup {c}
  /\ UNCHANGED <<wire, answer, mapVars, histVars>>

(* What is under way to the chat server is lost with the connection. *)
ChatLoses ==
  /\ line # Null /\ owed = Null
  /\ line' = Null
  /\ wire' = <<>>
  /\ UNCHANGED <<vars, ours, answer, mapVars, histVars>>

OtherConnects(c) ==
  /\ LanOnClientJoin(c)
  /\ UNCHANGED chatVars

LogsIn(c, t) ==
  /\ c \in ours => t = "CHAT"
  /\ proc_PACKET_SS_LOGINSERVER_LOGIN(c, t)
  /\ UNCHANGED chatVars

(* What is under way to the login server is lost with the connection. *)
ServerLoses(c) ==
  /\ LanOnClientLeave(c)
  /\ answer' = [answer EXCEPT ![c] = <<>>]
  /\ UNCHANGED <<line, ours, wire, mapVars, histVars>>

-----------------------------------------------------------------------------
(* A share goes to the chat server, into its map, and is answered. *)

MutSent(share) == <<share>> \o wire

Sent(share) == Append(wire, share)

ShareGoes(s) ==
  /\ ReqShare(s)
  /\ wire' = IF line \in ServerList THEN Sent(ShareOf(req[s].player)) ELSE wire
  /\ UNCHANGED <<line, ours, answer, mapVars, histVars>>

ShareArrives ==
  /\ wire # <<>>
  /\ \E age \in Chat!Age : Chat!Put(Head(wire), age)
  /\ wire' = Tail(wire)
  /\ from' = [from EXCEPT ![Head(wire).account] = Head(wire).param]
  /\ UNCHANGED <<vars, line, ours, answer, admitted>>

ChatAnswers ==
  /\ Chat!Confirm
  /\ answer' = IF line \in ServerList
               THEN [answer EXCEPT ![line] = Append(@, told')] ELSE answer
  /\ UNCHANGED <<vars, line, ours, wire, histVars>>

(* The login server handles an answer when there is one; the answers of    *)
(* other servers are LoginServer's business.                               *)
AnswerArrives(c) ==
  /\ CompSearch(c)
  /\ c \in ours => answer[c] # <<>>
  /\ answer' = IF c \in ours THEN [answer EXCEPT ![c] = Tail(@)] ELSE answer
  /\ UNCHANGED <<line, ours, wire, mapVars, histVars>>

-----------------------------------------------------------------------------
(* The chat server's other threads.  Anyone may try to log in with any key. *)

StillFrom == [a \in Account |-> IF shares'[a] = Null THEN Null ELSE from[a]]

ChatLogin(a, k) ==
  /\ Chat!Take(a, k)
  /\ from' = StillFrom
  /\ admitted' = IF Chat!Held(a, k)
                 THEN [admitted EXCEPT ![from[a]] =
                         Append(@, [account |-> a, key |-> k])]
                 ELSE admitted
  /\ UNCHANGED <<vars, linkVars>>

ChatExpires ==
  /\ Chat!Expire
  /\ from' = StillFrom
  /\ UNCHANGED <<vars, linkVars, admitted>>

ChatAges ==
  /\ Chat!Grow
  /\ UNCHANGED <<vars, linkVars, histVars>>

(* The steps of the login server that do not reach the chat server. *)
ServerAlone ==
  /\ \/ \E s \in Session : \/ OnClientJoin(s) \/ OnClientLeave(s) \/ OnSend(s)
                           \/ ReqFlag(s) \/ ReqReadDB(s) \/ ReqRefuse(s)
                           \/ \E a \in Account, k \in Key : ReqLogin(s, a, k)
     \/ \E c \in Conn : CompCheck(c) \/ CompStatus(c) \/ CompSend(c)
     \/ UpdateThread_Process
     \/ Tick
  /\ UNCHANGED chatVars

-----------------------------------------------------------------------------
HandshakeInit ==
  /\ Init
  /\ line = Null
  /\ ours = {}
  /\ wire = <<>>
  /\ answer = [c \in Conn |-> <<>>]
  /\ Chat!Init
  /\ from = [a \in Account |-> Null]
  /\ admitted = [s \in Session |-> <<>>]

HandshakeNext ==
  \/ \E c \in Conn : ChatConnects(c) \/ OtherConnects(c) \/ ServerLoses(c)
  \/ \E c \in Conn, t \in {"CHAT", "GAME"} : LogsIn(c, t)
  \/ ChatLoses
  \/ \E s \in Session : ShareGoes(s)
  \/ ShareArrives
  \/ ChatAnswers
  \/ \E c \in Conn : AnswerArrives(c)
  \/ \E a \in Account, k \in Key : ChatLogin(a, k)
  \/ ChatExpires
  \/ ChatAges
  \/ ServerAlone

HandshakeSpec == HandshakeInit /\ [][HandshakeNext]_allVars

-----------------------------------------------------------------------------
(* What must hold. *)

(* Whoever the chat server lets in for a share presents the very account    *)
(* and key that the session the share was made for sent to the login        *)
(* server, through a pooled st_PLAYER, the broadcast and the login map,     *)
(* whatever connections were lost and objects re-used on the way.           *)
AdmissionWasAsked ==
  \A s \in Session : \A i \in 1 .. Len(admitted[s]) : admitted[s][i] = asked[s]

(* One login request lets one client into the chat server, no more, though  *)
(* the share may be sent to an old connection and a new one, replaced,      *)
(* presented by many, and outlive the session it was made for.              *)
AdmittedOnce == \A s \in Session : Len(admitted[s]) <= 1

Alike(reply, share) ==
  reply.account = share.account /\ reply.param = share.param

(* The answers on a connection are those to the shares sent on it, in their *)
(* order and with none left out: the login server, which tells them apart   *)
(* by account and parameter, never gets one it did not send a share for.    *)
AnswersAreInStep ==
  \A c \in ours :
    /\ Len(answer[c]) <= Len(pending[c])
    /\ \A i \in 1 .. Len(answer[c]) : Alike(answer[c][i], pending[c][i])

=============================================================================
