------------------------------ MODULE LoginClient ------------------------------
(***************************************************************************)
(* The chat server's login map, CLoginClient: the single worker of its     *)
(* connection to the login server fills it, the update thread takes from   *)
(* it and the main thread's Monitoring() expires it.  The st_LOGIN_INFO    *)
(* objects are pooled; a step ends where _srwLoginMap is released and      *)
(* before every access outside the lock.                                   *)
(***************************************************************************)
EXTENDS Integers, FiniteSets

CONSTANTS
  Account,      \* account numbers
  Key,          \* session keys
  Param,        \* parameters the login server puts in its requests
  Info,         \* st_LOGIN_INFO objects of _LogininfoPool
  InfoTimeout,  \* en_INFO_TIMEOUT, in units of Tick
  Null

Request == [account : Account, key : Key, param : Param]

Age == 0 .. InfoTimeout + 1

(* Null is no object, no request and no share. *)
ASSUME NullAssumption ==
  Null \notin Info \cup Request \cup [key : Key \cup {Null}, age : Age]
ASSUME TimeoutAssumption == InfoTimeout \in Nat

VARIABLES
  bConnection,  \* _bConnection
  loginMap,     \* _LoginMap: account -> st_LOGIN_INFO* or nothing
  free,         \* objects resting in _LogininfoPool
  info,         \* the contents of every st_LOGIN_INFO, freed ones included
  worker,       \* where the handler of a request is, its pInfo, what was asked
  update,       \* where the update thread is in proc_..._REQ_LOGIN, and with what
  main,         \* where the main thread is in Monitoring
  told,         \* the last SS_RES_NEW_CLIENT_LOGIN sent
  verdict       \* what LoginMap_Remove last decided, and for whom

vars == <<bConnection, loginMap, free, info, worker, update, main, told, verdict>>
poolVars == <<loginMap, free, info>>
outVars == <<told, verdict>>

-----------------------------------------------------------------------------
(* Data. *)

(* Memory the pool hands out for the first time is not initialised. *)
InfoRecord ==
  [account : Account \cup {Null}, key : Key \cup {Null},
   param : Param \cup {Null}, age : Age]

Idle == [at |-> "idle", info |-> Null, asked |-> Null]
Quiet == [at |-> "idle", account |-> Null, key |-> Null, info |-> Null]

Filled(r) == [account |-> r.account, key |-> r.key, param |-> r.param, age |-> 0]

-----------------------------------------------------------------------------
(* The connection to the login server: each callback once per connection,   *)
(* and no request before the one or after the other.                        *)

OnClientJoin ==
  /\ ~bConnection /\ worker = Idle
  /\ bConnection' = TRUE
  /\ UNCHANGED <<poolVars, worker, update, main, outVars>>

OnClientLeave ==
  /\ bConnection /\ worker = Idle
  /\ bConnection' = FALSE
  /\ UNCHANGED <<poolVars, worker, update, main, outVars>>

(* proc_PACKET_SS_REQ_NEW_CLIENT_LOGIN: an object of its own is filled in,   *)
(* handed to the map, and read once more for the answer.                    *)
ReqAlloc(r) ==
  /\ bConnection /\ worker = Idle
  /\ \E p \in free :
       /\ free' = free \ {p}
       /\ info' = [info EXCEPT ![p] = Filled(r)]
       /\ worker' = [at |-> "add", info |-> p, asked |-> r]
  /\ UNCHANGED <<bConnection, loginMap, update, main, outVars>>

MutReplaced(a) == {}

(* The object a share of account a already has. *)
Replaced(a) == {loginMap[a]} \ {Null}

LoginMap_Add ==
  LET p == worker.info
      a == info[p].account
  IN  /\ worker.at = "add"
      /\ free' = free \cup Replaced(a)
      /\ loginMap' = [loginMap EXCEPT ![a] = p]
      /\ worker' = [worker EXCEPT !.at = "answer"]
      /\ UNCHANGED <<bConnection, info, update, main, outVars>>

ReqAnswer ==
  LET p == worker.info
  IN  /\ worker.at = "answer"
      /\ told' = [account |-> info[p].account, param |-> info[p].param]
      /\ worker' = Idle
      /\ UNCHANGED <<bConnection, poolVars, update, main, verdict>>

-----------------------------------------------------------------------------
(* The update thread: the part of proc_PACKET_CS_CHAT_REQ_LOGIN that asks    *)
(* for a share.  While there is no login server nobody is asked.             *)

ReqLogin(a, k) ==
  /\ update = Quiet
  /\ bConnection
  /\ update' = [at |-> "remove", account |-> a, key |-> k, info |-> Null]
  /\ UNCHANGED <<bConnection, poolVars, worker, main, outVars>>

MutMatches(a, k) == loginMap[a] # Null

(* Whether the share of account a has key k. *)
Matches(a, k) == loginMap[a] # Null /\ info[loginMap[a]].key = k

(* The section under the lock; the entry erased is that of the account the  *)
(* object names.                                                           *)
LoginMap_Remove ==
  LET a == update.account
      k == update.key
      p == loginMap[a]
  IN  /\ update.at = "remove"
      /\ verdict' = [account |-> a, key |-> k, granted |-> Matches(a, k)]
      /\ \/ /\ Matches(a, k)
            /\ loginMap' = [loginMap EXCEPT ![info[p].account] = Null]
            /\ update' = [update EXCEPT !.at = "free", !.info = p]
         \/ /\ ~Matches(a, k)
            /\ update' = Quiet
            /\ UNCHANGED loginMap
      /\ UNCHANGED <<bConnection, free, info, worker, main, told>>

(* The object goes back to the pool after the lock is released. *)
RemoveFree ==
  /\ update.at = "free"
  /\ free' = free \cup {update.info}
  /\ update' = Quiet
  /\ UNCHANGED <<bConnection, loginMap, info, worker, main, outVars>>

-----------------------------------------------------------------------------
(* The main thread: Monitoring() tests _bConnection, then reconnects or      *)
(* calls LoginMap_Timeout.  Reconnecting is the library's: OnClientJoin       *)
(* follows if it works.                                                     *)

Monitoring ==
  /\ main = "idle" /\ bConnection
  /\ main' = "timeout"
  /\ UNCHANGED <<bConnection, poolVars, worker, update, outVars>>

MutExpired(a) == loginMap[a] # Null /\ info[loginMap[a]].age = InfoTimeout

Expired(a) == loginMap[a] # Null /\ info[loginMap[a]].age > InfoTimeout

LoginMap_Timeout ==
  /\ main = "timeout"
  /\ free' = free \cup {loginMap[a] : a \in {b \in Account : Expired(b)}}
  /\ loginMap' = [a \in Account |-> IF Expired(a) THEN Null ELSE loginMap[a]]
  /\ main' = "idle"
  /\ UNCHANGED <<bConnection, info, worker, update, outVars>>

MutOlder(age) == age + 1

Older(age) == IF age <= InfoTimeout THEN age + 1 ELSE age

(* GetTickCount64, seen as the age of every lLastRecvTick. *)
Tick ==
  /\ info' = [p \in Info |-> [info[p] EXCEPT !.age = Older(@)]]
  /\ UNCHANGED <<bConnection, loginMap, free, worker, update, main, outVars>>

-----------------------------------------------------------------------------
Init ==
  /\ bConnection = FALSE
  /\ loginMap = [a \in Account |-> Null]
  /\ free = Info
  /\ info = [p \in Info |-> [account |-> Null, key |-> Null, param |-> Null, age |-> 0]]
  /\ worker = Idle
  /\ update = Quiet
  /\ main = "idle"
  /\ told = Null
  /\ verdict = Null

Next ==
  \/ OnClientJoin
  \/ OnClientLeave
  \/ \E r \in Request : ReqAlloc(r)
  \/ LoginMap_Add
  \/ ReqAnswer
  \/ \E a \in Account, k \in Key : ReqLogin(a, k)
  \/ LoginMap_Remove
  \/ RemoveFree
  \/ Monitoring
  \/ LoginMap_Timeout
  \/ Tick

Spec == Init /\ [][Next]_vars

(* The main thread goes round every second and time passes; the worker and  *)
(* the update thread finish what they began.                                *)
Fairness ==
  /\ WF_vars(LoginMap_Add) /\ WF_vars(ReqAnswer)
  /\ WF_vars(LoginMap_Remove) /\ WF_vars(RemoveFree)
  /\ WF_vars(Monitoring) /\ WF_vars(LoginMap_Timeout)
  /\ WF_vars(Tick)

FairSpec == Spec /\ Fairness

-----------------------------------------------------------------------------
(* What must hold. *)

(* Every variable keeps the shape the code's declarations give it. *)
TypeOK ==
  /\ bConnection \in BOOLEAN
  /\ loginMap \in [Account -> Info \cup {Null}]
  /\ free \in SUBSET Info
  /\ info \in [Info -> InfoRecord]
  /\ worker \in {Idle} \cup [at : {"add", "answer"}, info : Info, asked : Request]
  /\ update \in {Quiet}
       \cup [at : {"remove"}, account : Account, key : Key, info : {Null}]
       \cup [at : {"free"}, account : Account, key : Key, info : Info]
  /\ main \in {"idle", "timeout"}
  /\ told \in [account : Account, param : Param] \cup {Null}
  /\ verdict \in [account : Account, key : Key, granted : BOOLEAN] \cup {Null}

InMap(p) == \E a \in Account : loginMap[a] = p
Adding(p) == worker.at = "add" /\ worker.info = p
Freeing(p) == update.at = "free" /\ update.info = p

(* Every st_LOGIN_INFO has one owner: the pool, one entry of the map, whose  *)
(* account it names, the worker that fills it, or the update thread that     *)
(* erased it.  None is lost or freed twice, whoever replaces, takes or        *)
(* expires the share meanwhile.                                             *)
OneOwner ==
  /\ \A a \in Account :
       loginMap[a] # Null => info[loginMap[a]].account = a /\ loginMap[a] \notin free
  /\ \A p \in Info :
       /\ Adding(p) => p \notin free /\ ~InMap(p) /\ ~Freeing(p)
       /\ Freeing(p) => p \notin free /\ ~InMap(p)
       /\ p \in free \/ InMap(p) \/ Adding(p) \/ Freeing(p)

(* The worker reads its object for the answer after LoginMap_Add gave it      *)
(* away; it may be back in the pool by then, but nobody has put another      *)
(* request in it: the one worker that could is still busy.                  *)
AnswerIsIntact ==
  worker.at # "idle" =>
    LET p == worker.info
    IN  [account |-> info[p].account, key |-> info[p].key, param |-> info[p].param]
          = worker.asked

(* LoginMap without its objects, and the request not yet answered. *)
SharesHeld ==
  [a \in Account |->
     IF loginMap[a] = Null THEN Null
     ELSE [key |-> info[loginMap[a]].key, age |-> info[loginMap[a]].age]]

Unanswered == IF worker.at = "answer" THEN worker.asked ELSE Null

Shares == INSTANCE LoginShares WITH shares <- SharesHeld, owed <- Unanswered

(* The map with its pool, lock and three threads behaves as LoginShares: a   *)
(* share is confirmed once it is held, with its own data, taken only with     *)
(* its key, by one login, and otherwise goes only when replaced or overdue.  *)
ImplementsLoginShares == Shares!Spec

Stale(a) == loginMap[a] # Null /\ info[loginMap[a]].age = InfoTimeout + 1

(* CChatServer.cpp:192: a share nobody comes for is removed in the end, as   *)
(* long as the login server is connected.                                   *)
StaleShareGoes == \A a \in Account : Stale(a) ~> ~Stale(a) \/ ~bConnection

=============================================================================
