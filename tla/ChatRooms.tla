------------------------------- MODULE ChatRooms -------------------------------
(***************************************************************************)
(* What the chat server promises its clients, with no word of the message  *)
(* queue, the st_PLAYER pool, the player map, the sector lists and the     *)
(* network sessions it is made of: clients come in once, log in with a     *)
(* share the login server announced, stand in a sector, are heard in the   *)
(* nine sectors around, and go.                                            *)
(*                                                                         *)
(* It does not promise that who moves or speaks has logged in: the chat    *)
(* server only compares the account number of the packet with that of the  *)
(* client, NoAccount until a login (CChatServer.cpp:332, 572, 626).        *)
(***************************************************************************)
EXTENDS Integers

CONSTANTS Session, Account, NoAccount, Key, MaxX, MaxY, Null

VARIABLES
  stage,      \* where each client is on its only way through the server
  leaving,    \* clients that hung up or are being disconnected
  account,    \* the account each client last logged in with, or NoAccount
  answer,     \* what each client's last login was told
  at,         \* the sector each client stands in, or Nowhere
  connected,  \* whether the login server is there
  shares,     \* the key each account may log in with, or nothing
  heard       \* how often each client was sent the chat of this step

vars == <<stage, leaving, account, answer, at, connected, shares, heard>>

Cell == (0 .. MaxY - 1) \X (0 .. MaxX - 1)

Nowhere == <<-1, -1>>

Silence == [s \in Session |-> 0]

Init ==
  /\ stage = [s \in Session |-> "outside"]
  /\ leaving = {}
  /\ account = [s \in Session |-> NoAccount]
  /\ answer = [s \in Session |-> "none"]
  /\ at = [s \in Session |-> Nowhere]
  /\ connected \in BOOLEAN
  /\ shares = [a \in Account |-> Null]
  /\ heard = Silence

Inside(s) == stage[s] = "inside"

(* A client comes in as nobody and stands nowhere, also when another one   *)
(* left the same objects behind.                                           *)
Enter(s) ==
  /\ stage[s] = "outside" /\ account[s] = NoAccount /\ at[s] = Nowhere
  /\ stage' = [stage EXCEPT ![s] = "inside"]
  /\ heard' = Silence
  /\ UNCHANGED <<leaving, account, answer, at, connected, shares>>

Held(a, k) == shares[a] # Null /\ shares[a] = k

(* At any time while inside.  A login takes the share it names; refused or *)
(* not, the account is the client's from now on, and a refused client must *)
(* go.                                                                     *)
Login(s, a, k) ==
  /\ Inside(s)
  /\ account' = [account EXCEPT ![s] = a]
  /\ LET granted == connected => Held(a, k)
     IN  /\ answer' = [answer EXCEPT ![s] = IF granted THEN "ok" ELSE "fail"]
         /\ leaving' = IF granted THEN leaving ELSE leaving \cup {s}
  /\ shares' = IF connected /\ Held(a, k) THEN [shares EXCEPT ![a] = Null] ELSE shares
  /\ heard' = Silence
  /\ UNCHANGED <<stage, at, connected>>

Move(s, cell) ==
  /\ Inside(s)
  /\ at' = [at EXCEPT ![s] = cell]
  /\ heard' = Silence
  /\ UNCHANGED <<stage, leaving, account, answer, connected, shares>>

(* A sector that is not on the grid costs the client its place and its     *)
(* connection.                                                             *)
MoveOffTheGrid(s) ==
  /\ Inside(s)
  /\ at' = [at EXCEPT ![s] = Nowhere]
  /\ leaving' = leaving \cup {s}
  /\ heard' = Silence
  /\ UNCHANGED <<stage, account, answer, connected, shares>>

Near(s, t) ==
  /\ at[s] # Nowhere /\ at[t] # Nowhere
  /\ at[s][1] - at[t][1] \in -1 .. 1
  /\ at[s][2] - at[t][2] \in -1 .. 1

(* Who stands at most one sector away is sent the chat, once, its sender   *)
(* included; nobody else is.                                               *)
Say(s) ==
  /\ Inside(s)
  /\ heard' = [t \in Session |-> IF Near(s, t) THEN 1 ELSE 0]
  /\ UNCHANGED <<stage, leaving, account, answer, at, connected, shares>>

(* The client hangs up, or the server disconnects it for what it sent.     *)
HangUp(s) ==
  /\ stage[s] # "left"
  /\ leaving' = leaving \cup {s}
  /\ heard' = Silence
  /\ UNCHANGED <<stage, account, answer, at, connected, shares>>

(* Nothing of a client stays behind, and it does not come back.            *)
Leave(s) ==
  /\ Inside(s) /\ s \in leaving
  /\ stage' = [stage EXCEPT ![s] = "left"]
  /\ account' = [account EXCEPT ![s] = NoAccount]
  /\ at' = [at EXCEPT ![s] = Nowhere]
  /\ heard' = Silence
  /\ UNCHANGED <<leaving, answer, connected, shares>>

clientVars == <<stage, leaving, account, answer, at>>

(* Shares survive the connection they came over. *)
Connect ==
  /\ connected' = ~connected
  /\ heard' = Silence
  /\ UNCHANGED <<clientVars, shares>>

Put(a, k) ==
  /\ connected
  /\ shares' = [shares EXCEPT ![a] = k]
  /\ heard' = Silence
  /\ UNCHANGED <<clientVars, connected>>

(* Which shares grow too old is left open here. *)
Forget(old) ==
  /\ connected
  /\ shares' = [a \in Account |-> IF a \in old THEN Null ELSE shares[a]]
  /\ heard' = Silence
  /\ UNCHANGED <<clientVars, connected>>

(* A chat is heard in the step that says it. *)
FallSilent ==
  /\ heard' = Silence
  /\ UNCHANGED <<clientVars, connected, shares>>

Next ==
  \/ \E s \in Session :
       \/ Enter(s) \/ MoveOffTheGrid(s) \/ Say(s) \/ HangUp(s) \/ Leave(s)
       \/ \E a \in Account, k \in Key : Login(s, a, k)
       \/ \E cell \in Cell : Move(s, cell)
  \/ Connect
  \/ \E a \in Account, k \in Key : Put(a, k)
  \/ \E old \in SUBSET Account : Forget(old)
  \/ FallSilent

Spec == Init /\ [][Next]_vars

=============================================================================
