------------------------------ MODULE LoginShares ------------------------------
(***************************************************************************)
(* What CLoginClient promises the login server, which makes shares, and    *)
(* the chat server, which takes them, with no word of the pool, the lock   *)
(* and the pointers it is made of.  A share is the account, key and        *)
(* parameter of one SS_REQ_NEW_CLIENT_LOGIN.                                *)
(***************************************************************************)
EXTENDS Integers

CONSTANTS Account, Key, Param, InfoTimeout, Null

VARIABLES
  shares,   \* the key and the age of each account's share, or nothing
  owed,     \* the request whose share is held and not yet confirmed
  told,     \* the last confirmation the login server was sent
  verdict   \* what the last attempt to take a share was told

vars == <<shares, owed, told, verdict>>

Age == 0 .. InfoTimeout + 1

Request == [account : Account, key : Key, param : Param]

Init ==
  /\ shares = [a \in Account |-> Null]
  /\ owed = Null
  /\ told = Null
  /\ verdict = Null

MutPut(r, age) ==
  /\ owed = Null
  /\ shares' = IF shares[r.account] = Null
               THEN [shares EXCEPT ![r.account] = [key |-> r.key, age |-> age]]
               ELSE shares
  /\ owed' = r
  /\ UNCHANGED <<told, verdict>>

(* A share replaces an older one of its account.  It may have waited for    *)
(* the lock since it was made.                                             *)
Put(r, age) ==
  /\ owed = Null
  /\ shares' = [shares EXCEPT ![r.account] = [key |-> r.key, age |-> age]]
  /\ owed' = r
  /\ UNCHANGED <<told, verdict>>

(* Only a share that is held is confirmed, with its own account and         *)
(* parameter.                                                              *)
Confirm ==
  /\ owed # Null
  /\ told' = [account |-> owed.account, param |-> owed.param]
  /\ owed' = Null
  /\ UNCHANGED <<shares, verdict>>

Held(a, k) == shares[a] # Null /\ shares[a].key = k

MutTake(a, k) ==
  /\ verdict' = [account |-> a, key |-> k, granted |-> Held(a, k)]
  /\ UNCHANGED <<shares, owed, told>>

(* A share is taken once, by who knows its key.                             *)
Take(a, k) ==
  /\ shares' = IF Held(a, k) THEN [shares EXCEPT ![a] = Null] ELSE shares
  /\ verdict' = [account |-> a, key |-> k, granted |-> Held(a, k)]
  /\ UNCHANGED <<owed, told>>

Overdue(a) == shares[a] # Null /\ shares[a].age > InfoTimeout

Expire ==
  /\ shares' = [a \in Account |-> IF Overdue(a) THEN Null ELSE shares[a]]
  /\ UNCHANGED <<owed, told, verdict>>

Grow ==
  /\ shares' = [a \in Account |->
       IF shares[a] # Null /\ ~Overdue(a)
       THEN [shares[a] EXCEPT !.age = @ + 1] ELSE shares[a]]
  /\ UNCHANGED <<owed, told, verdict>>

Next ==
  \/ \E r \in Request, age \in Age : Put(r, age)
  \/ Confirm
  \/ \E a \in Account, k \in Key : Take(a, k)
  \/ Expire
  \/ Grow

Spec == Init /\ [][Next]_vars

=============================================================================
