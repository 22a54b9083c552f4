------------------------------ MODULE BattleServer ------------------------------
(***************************************************************************)
(* The battle server, CBattleServer: sessions live in the CPlayer objects   *)
(* of an array made once and used again and again.  The library's Auth      *)
(* thread handles a session's packets until SetMode_GAME, its Game thread    *)
(* from then on.  No callback clears what the session before left behind.    *)
(***************************************************************************)
EXTENDS Integers, Sequences

CONSTANTS
  Player,   \* _pPlayer, the array SetSessionArray gives the library
  Account,  \* account numbers
  MaxInbox, \* packets a session has received and not handled yet
  Null

NoAccount == -1

Packet == [type : {"LOGIN", "ECHO", "HEARTBEAT"}, account : Account]

ASSUME NullAssumption == Null \notin Account \cup [asked : Account, answered : Account]
ASSUME AccountAssumption == NoAccount \notin Account
ASSUME InboxAssumption == MaxInbox \in Nat

VARIABLES
  mode,       \* none, AUTH, AUTH_TO_GAME, GAME: of the session in the object
  down,       \* it is being disconnected
  inbox,      \* its packets not handled yet, in order
  iAccountNo, \* _iAccountNo, which outlives the session
  resLogin,   \* the account of its last RES_LOGIN (history)
  resEcho     \* its last REQ_ECHO's account and the RES_ECHO's (history)

vars == <<mode, down, inbox, iAccountNo, resLogin, resEcho>>

-----------------------------------------------------------------------------
(* The library and the client.                                              *)

(* OnAuth_ClientJoin does nothing. *)
OnAuth_ClientJoin(p) ==
  /\ mode[p] = "none"
  /\ mode' = [mode EXCEPT ![p] = "AUTH"]
  /\ resLogin' = [resLogin EXCEPT ![p] = Null]
  /\ resEcho' = [resEcho EXCEPT ![p] = Null]
  /\ UNCHANGED <<down, inbox, iAccountNo>>

(* OnAuth_ClientLeave and OnGame_ClientJoin do nothing. *)
OnGame_ClientJoin(p) ==
  /\ mode[p] = "AUTH_TO_GAME"
  /\ mode' = [mode EXCEPT ![p] = "GAME"]
  /\ UNCHANGED <<down, inbox, iAccountNo, resLogin, resEcho>>

Receive(p, packet) ==
  /\ mode[p] # "none" /\ ~down[p] /\ Len(inbox[p]) < MaxInbox
  /\ inbox' = [inbox EXCEPT ![p] = Append(@, packet)]
  /\ UNCHANGED <<mode, down, iAccountNo, resLogin, resEcho>>

(* The client goes, or the library times it out: OnTimeout does nothing.     *)
HangUp(p) ==
  /\ mode[p] # "none" /\ ~down[p]
  /\ down' = [down EXCEPT ![p] = TRUE]
  /\ UNCHANGED <<mode, inbox, iAccountNo, resLogin, resEcho>>

(* OnGame_ClientLeave and OnGame_ClientRelease do nothing; packets not       *)
(* handled by then are dropped.                                             *)
OnGame_ClientRelease(p) ==
  /\ down[p]
  /\ mode' = [mode EXCEPT ![p] = "none"]
  /\ down' = [down EXCEPT ![p] = FALSE]
  /\ inbox' = [inbox EXCEPT ![p] = <<>>]
  /\ UNCHANGED <<iAccountNo, resLogin, resEcho>>

-----------------------------------------------------------------------------
(* The packets.                                                             *)

MutStored(p, account) == IF iAccountNo[p] = NoAccount
                         THEN [iAccountNo EXCEPT ![p] = account] ELSE iAccountNo

Stored(p, account) == [iAccountNo EXCEPT ![p] = account]

MutSetMode_GAME(p, packet) == mode

MutSetMode_Always(p, packet) == [mode EXCEPT ![p] = "AUTH_TO_GAME"]

(* By a login only; it takes effect when the Auth thread ends its turn.      *)
SetMode_GAME(p, packet) ==
  IF packet.type = "LOGIN" THEN [mode EXCEPT ![p] = "AUTH_TO_GAME"] ELSE mode

(* Whatever the key and the version, the login succeeds.  How many packets   *)
(* of one session the Auth thread takes in a turn is the library's matter:    *)
(* a second login may come before the mode changes.                         *)
OnAuth_Packet(p) ==
  LET packet == Head(inbox[p])
  IN  /\ mode[p] \in {"AUTH", "AUTH_TO_GAME"} /\ inbox[p] # <<>>
      /\ inbox' = [inbox EXCEPT ![p] = Tail(@)]
      /\ IF packet.type = "LOGIN"
         THEN /\ iAccountNo' = Stored(p, packet.account)
              /\ resLogin' = [resLogin EXCEPT ![p] = packet.account]
         ELSE UNCHANGED <<iAccountNo, resLogin>>
      /\ mode' = SetMode_GAME(p, packet)
      /\ UNCHANGED <<down, resEcho>>

(* Disconnect() if the packet names another account; the handler goes on.    *)
EchoChecked(p, account) ==
  [down EXCEPT ![p] = @ \/ iAccountNo[p] # account]

OnGame_Packet(p) ==
  LET packet == Head(inbox[p])
  IN  /\ mode[p] = "GAME" /\ inbox[p] # <<>>
      /\ inbox' = [inbox EXCEPT ![p] = Tail(@)]
      /\ IF packet.type = "ECHO"
         THEN /\ down' = EchoChecked(p, packet.account)
              /\ resEcho' = [resEcho EXCEPT ![p] =
                   [asked |-> packet.account, answered |-> iAccountNo[p]]]
         ELSE UNCHANGED <<down, resEcho>>
      /\ UNCHANGED <<mode, iAccountNo, resLogin>>

-----------------------------------------------------------------------------
Init ==
  /\ mode = [p \in Player |-> "none"]
  /\ down = [p \in Player |-> FALSE]
  /\ inbox = [p \in Player |-> <<>>]
  /\ iAccountNo = [p \in Player |-> NoAccount]
  /\ resLogin = [p \in Player |-> Null]
  /\ resEcho = [p \in Player |-> Null]

Next ==
  \E p \in Player :
    \/ OnAuth_ClientJoin(p)
    \/ OnGame_ClientJoin(p)
    \/ \E packet \in Packet : Receive(p, packet)
    \/ HangUp(p)
    \/ OnGame_ClientRelease(p)
    \/ OnAuth_Packet(p)
    \/ OnGame_Packet(p)

Spec == Init /\ [][Next]_vars

(* The library's threads go round and round; nothing is asked of clients.    *)
Fairness ==
  \A p \in Player :
    /\ WF_vars(OnGame_ClientJoin(p)) /\ WF_vars(OnGame_ClientRelease(p))
    /\ WF_vars(OnAuth_Packet(p)) /\ WF_vars(OnGame_Packet(p))

FairSpec == Spec /\ Fairness

-----------------------------------------------------------------------------
(* What must hold. *)

(* Every variable keeps the shape the code's declarations give it. *)
TypeOK ==
  /\ mode \in [Player -> {"none", "AUTH", "AUTH_TO_GAME", "GAME"}]
  /\ down \in [Player -> BOOLEAN]
  /\ inbox \in [Player -> Seq(Packet)]
  /\ iAccountNo \in [Player -> Account \cup {NoAccount}]
  /\ resLogin \in [Player -> Account \cup {Null}]
  /\ resEcho \in [Player -> [asked : Account, answered : Account] \cup {Null}]

(* CBattleServer.cpp:345: an echo is the request sent back.  It bears the     *)
(* account its own session was told it is logged in with, although the        *)
(* object keeps that of the session before, and a session that asked with     *)
(* another one is being disconnected.                                       *)
EchoIsOfThisLogin ==
  \A p \in Player :
    mode[p] # "none" /\ resEcho[p] # Null =>
      /\ resEcho[p].answered = resLogin[p]
      /\ resEcho[p].asked # resEcho[p].answered => down[p]

(* CBattleServer.cpp:390: who was told to start reaches GAME mode, unless it  *)
(* goes first, whatever it sends meanwhile.                                 *)
LoggedInPlayerStarts ==
  \A p \in Player :
    mode[p] # "none" /\ resLogin[p] # Null ~> mode[p] = "GAME" \/ down[p]

=============================================================================
