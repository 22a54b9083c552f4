--------------------------- MODULE BattleServerProofs ---------------------------
(***************************************************************************)
(* Proofs about BattleServer, for any array of players, any accounts and    *)
(* any number of packets.                                                  *)
(***************************************************************************)
EXTENDS BattleServer, TLAPS

(* In GAME mode, and once SetMode_GAME was called, there has been a login.    *)
GameIsLoggedIn ==
  \A p \in Player : mode[p] \in {"AUTH_TO_GAME", "GAME"} => resLogin[p] # Null

(* The object bears the account its session was told. *)
AccountIsTold ==
  \A p \in Player :
    mode[p] # "none" /\ resLogin[p] # Null => iAccountNo[p] = resLogin[p]

(* Echoes are only answered in GAME mode. *)
EchoesInGame ==
  \A p \in Player : mode[p] # "none" /\ resEcho[p] # Null => mode[p] = "GAME"

IInv == TypeOK /\ GameIsLoggedIn /\ AccountIsTold /\ EchoesInGame /\ EchoIsOfThisLogin

-----------------------------------------------------------------------------
(* What is in the inbox is a packet; taking the first leaves packets.        *)
LEMMA InboxHead ==
  ASSUME TypeOK, NEW p \in Player, inbox[p] # <<>>
  PROVE  Head(inbox[p]) \in Packet /\ Tail(inbox[p]) \in Seq(Packet)
  <1>1. inbox[p] \in Seq(Packet)
    BY DEF TypeOK
  <1> QED
    BY <1>1

(* Nothing that is compared with an echo or an account is Null. *)
LEMMA NotNull ==
  /\ \A a \in Account : a # Null /\ a # NoAccount
  /\ \A e \in [asked : Account, answered : Account] : e # Null
  BY NullAssumption, AccountAssumption

(* The initial state satisfies the invariant. *)
LEMMA InitInv == Init => IInv
  <1> SUFFICES ASSUME Init PROVE IInv
    OBVIOUS
  <1>1. <<>> \in Seq(Packet)
    OBVIOUS
  <1>2. TypeOK
    BY <1>1 DEF Init, TypeOK
  <1> QED
    BY <1>2 DEF Init, IInv, GameIsLoggedIn, AccountIsTold, EchoesInGame, EchoIsOfThisLogin

(* Every step preserves the types: an echo is answered with an account       *)
(* because in GAME mode there has been a login.                             *)
LEMMA NextType == IInv /\ [Next]_vars => TypeOK'
  <1> SUFFICES ASSUME IInv, [Next]_vars
               PROVE  TypeOK'
    OBVIOUS
  <1> USE DEF IInv
  <1>1. ASSUME NEW p \in Player, OnAuth_ClientJoin(p)
        PROVE  TypeOK'
    BY <1>1 DEF TypeOK, OnAuth_ClientJoin
  <1>2. ASSUME NEW p \in Player, OnGame_ClientJoin(p)
        PROVE  TypeOK'
    BY <1>2 DEF TypeOK, OnGame_ClientJoin
  <1>3. ASSUME NEW p \in Player, NEW packet \in Packet, Receive(p, packet)
        PROVE  TypeOK'
    <2>1. inbox' \in [Player -> Seq(Packet)]
      <3>1. Append(inbox[p], packet) \in Seq(Packet)
        BY DEF TypeOK
      <3> QED
        BY <1>3, <3>1 DEF TypeOK, Receive
    <2> QED
      BY <1>3, <2>1 DEF TypeOK, Receive
  <1>4. ASSUME NEW p \in Player, HangUp(p)
        PROVE  TypeOK'
    BY <1>4 DEF TypeOK, HangUp
  <1>5. ASSUME NEW p \in Player, OnGame_ClientRelease(p)
        PROVE  TypeOK'
    <2>1. <<>> \in Seq(Packet)
      OBVIOUS
    <2> QED
      BY <1>5, <2>1 DEF TypeOK, OnGame_ClientRelease
  <1>6. ASSUME NEW p \in Player, OnAuth_Packet(p)
        PROVE  TypeOK'
    <2>1. Head(inbox[p]) \in Packet /\ Tail(inbox[p]) \in Seq(Packet)
      BY <1>6, InboxHead DEF OnAuth_Packet
    <2>2. inbox' \in [Player -> Seq(Packet)]
      BY <1>6, <2>1 DEF TypeOK, OnAuth_Packet
    <2>3. Head(inbox[p]).account \in Account
      BY <2>1 DEF Packet
    <2>4. mode' \in [Player -> {"none", "AUTH", "AUTH_TO_GAME", "GAME"}]
      BY <1>6 DEF TypeOK, OnAuth_Packet, SetMode_GAME
    <2>5. /\ iAccountNo' \in [Player -> Account \cup {NoAccount}]
          /\ resLogin' \in [Player -> Account \cup {Null}]
      BY <1>6, <2>3 DEF TypeOK, OnAuth_Packet, Stored
    <2> QED
      BY <1>6, <2>2, <2>4, <2>5 DEF TypeOK, OnAuth_Packet
  <1>7. ASSUME NEW p \in Player, OnGame_Packet(p)
        PROVE  TypeOK'
    <2>1. Head(inbox[p]) \in Packet /\ Tail(inbox[p]) \in Seq(Packet)
      BY <1>7, InboxHead DEF OnGame_Packet
    <2>2. inbox' \in [Player -> Seq(Packet)]
      BY <1>7, <2>1 DEF TypeOK, OnGame_Packet
    <2>3. Head(inbox[p]).account \in Account
      BY <2>1 DEF Packet
    <2>4. iAccountNo[p] \in Account
      BY <1>7 DEF OnGame_Packet, GameIsLoggedIn, AccountIsTold, TypeOK
    <2>5. resEcho' \in [Player -> [asked : Account, answered : Account] \cup {Null}]
      <3> DEFINE e == [asked |-> Head(inbox[p]).account, answered |-> iAccountNo[p]]
      <3>1. e \in [asked : Account, answered : Account]
        BY <2>3, <2>4
      <3>2. resEcho' = [resEcho EXCEPT ![p] = e] \/ resEcho' = resEcho
        BY <1>7 DEF OnGame_Packet
      <3> HIDE DEF e
      <3> QED
        BY <3>1, <3>2 DEF TypeOK
    <2>6. down' \in [Player -> BOOLEAN]
      <3>1. CASE Head(inbox[p]).type = "ECHO"
        <4>1. down' = [down EXCEPT ![p] = @ \/ iAccountNo[p] # Head(inbox[p]).account]
          BY <1>7, <3>1 DEF OnGame_Packet, EchoChecked
        <4>2. down \in [Player -> BOOLEAN]
          BY DEF TypeOK
        <4> QED
          BY <4>1, <4>2, Zenon
      <3>2. CASE Head(inbox[p]).type # "ECHO"
        BY <1>7, <3>2 DEF OnGame_Packet, TypeOK
      <3> QED
        BY <3>1, <3>2
    <2> QED
      BY <1>7, <2>2, <2>5, <2>6 DEF TypeOK, OnGame_Packet
  <1>8. CASE UNCHANGED vars
    BY <1>8 DEF TypeOK, vars
  <1> QED
    BY <1>1, <1>2, <1>3, <1>4, <1>5, <1>6, <1>7, <1>8 DEF Next

(* What a step does for one player. *)
Good(p) ==
  /\ mode[p] \in {"AUTH_TO_GAME", "GAME"} => resLogin[p] # Null
  /\ mode[p] # "none" /\ resLogin[p] # Null => iAccountNo[p] = resLogin[p]
  /\ mode[p] # "none" /\ resEcho[p] # Null => mode[p] = "GAME"
  /\ mode[p] # "none" /\ resEcho[p] # Null =>
       /\ resEcho[p].answered = resLogin[p]
       /\ resEcho[p].asked # resEcho[p].answered => down[p]

(* Every step preserves the rest, player by player. *)
LEMMA NextGood == IInv /\ [Next]_vars => \A p \in Player : Good(p)'
  <1> SUFFICES ASSUME IInv, [Next]_vars, NEW q \in Player
               PROVE  Good(q)'
    OBVIOUS
  <1> USE DEF IInv
  <1>0. Good(q)
    BY DEF Good, GameIsLoggedIn, AccountIsTold, EchoesInGame, EchoIsOfThisLogin
  <1>1. ASSUME NEW p \in Player, OnAuth_ClientJoin(p)
        PROVE  Good(q)'
    BY <1>0, <1>1 DEF TypeOK, OnAuth_ClientJoin, Good
  <1>2. ASSUME NEW p \in Player, OnGame_ClientJoin(p)
        PROVE  Good(q)'
    BY <1>0, <1>2 DEF TypeOK, OnGame_ClientJoin, Good
  <1>3. ASSUME NEW p \in Player, NEW packet \in Packet, Receive(p, packet)
        PROVE  Good(q)'
    BY <1>0, <1>3 DEF Receive, Good
  <1>4. ASSUME NEW p \in Player, HangUp(p)
        PROVE  Good(q)'
    BY <1>0, <1>4 DEF TypeOK, HangUp, Good
  <1>5. ASSUME NEW p \in Player, OnGame_ClientRelease(p)
        PROVE  Good(q)'
    BY <1>0, <1>5 DEF TypeOK, OnGame_ClientRelease, Good
  <1>6. ASSUME NEW p \in Player, OnAuth_Packet(p)
        PROVE  Good(q)'
    <2>1. Head(inbox[p]).account \in Account
      BY <1>6, InboxHead DEF OnAuth_Packet, Packet
    <2>2. UNCHANGED <<down, resEcho>> /\ mode[p] \in {"AUTH", "AUTH_TO_GAME"}
      BY <1>6 DEF OnAuth_Packet
    <2>3. CASE q # p
      BY <1>0, <1>6, <2>2, <2>3 DEF OnAuth_Packet, TypeOK, Stored, SetMode_GAME, Good
    <2>4. CASE q = p /\ Head(inbox[p]).type = "LOGIN"
      <3>1. /\ mode'[q] = "AUTH_TO_GAME"
            /\ iAccountNo'[q] = Head(inbox[p]).account
            /\ resLogin'[q] = Head(inbox[p]).account
        BY <1>6, <2>4 DEF OnAuth_Packet, TypeOK, Stored, SetMode_GAME
      <3>2. resEcho'[q] = Null
        BY <1>0, <2>2, <2>4 DEF Good
      <3> QED
        BY <2>1, <3>1, <3>2, NotNull DEF Good
    <2>5. CASE q = p /\ Head(inbox[p]).type # "LOGIN"
      BY <1>0, <1>6, <2>2, <2>5 DEF OnAuth_Packet, SetMode_GAME, Good
    <2> QED
      BY <2>3, <2>4, <2>5
  <1>7. ASSUME NEW p \in Player, OnGame_Packet(p)
        PROVE  Good(q)'
    <2>1. UNCHANGED <<mode, iAccountNo, resLogin>> /\ mode[p] = "GAME"
      BY <1>7 DEF OnGame_Packet
    <2>2. CASE q # p
      BY <1>0, <1>7, <2>1, <2>2 DEF OnGame_Packet, EchoChecked, TypeOK, Good
    <2>3. CASE q = p /\ Head(inbox[p]).type = "ECHO"
      <3>1. resEcho'[q] = [asked |-> Head(inbox[p]).account, answered |-> iAccountNo[q]]
        BY <1>7, <2>3 DEF OnGame_Packet, TypeOK
      <3>2. Head(inbox[p]).account # iAccountNo[q] => down'[q]
        BY <1>7, <2>3 DEF OnGame_Packet, EchoChecked, TypeOK
      <3> QED
        BY <1>0, <2>1, <2>3, <3>1, <3>2 DEF Good
    <2>4. CASE q = p /\ Head(inbox[p]).type # "ECHO"
      BY <1>0, <1>7, <2>1, <2>4 DEF OnGame_Packet, Good
    <2> QED
      BY <2>2, <2>3, <2>4
  <1>8. CASE UNCHANGED vars
    BY <1>0, <1>8 DEF vars, Good
  <1> QED
    BY <1>1, <1>2, <1>3, <1>4, <1>5, <1>6, <1>7, <1>8 DEF Next

-----------------------------------------------------------------------------
(* Theorems. *)

(* Types, the order of the modes and what objects and answers bear are       *)
(* inductive together.                                                      *)
THEOREM InductiveInvariant == Spec => []IInv
  <1>1. IInv /\ [Next]_vars => IInv'
    BY NextType, NextGood
       DEF IInv, Good, GameIsLoggedIn, AccountIsTold, EchoesInGame, EchoIsOfThisLogin
  <1> QED
    BY <1>1, InitInv, PTL DEF Spec

(* Every variable of the battle server keeps its shape; no echo is answered   *)
(* with the account of an object nobody has logged in on.                    *)
THEOREM TypeCorrect == Spec => []TypeOK
  BY InductiveInvariant, PTL DEF IInv

(* Echoes bear the account of their own session's login although objects are  *)
(* used again without being cleared.                                        *)
THEOREM EchoCorrect == Spec => []EchoIsOfThisLogin
  BY InductiveInvariant, PTL DEF IInv

=============================================================================
