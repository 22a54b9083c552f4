------------------------------ MODULE MonitorTools ------------------------------
(***************************************************************************)
(* The monitoring server's side towards the monitoring tools,              *)
(* CMonitorNetServer: the list of tools that joins, leaves and the login    *)
(* handler share with the main thread, which sends every figure to every    *)
(* tool once a second.  The flags it reads are those MonitorServer keeps.   *)
(* _srwPlayerLock is never initialised: what the memory holds is either      *)
(* taken for a free lock or for one that is held for ever; garbage on which *)
(* the lock's functions would crash the process is left out.                *)
(***************************************************************************)
EXTENDS Integers, FiniteSets

CONSTANTS
  Session,          \* tools' connections
  Player,           \* st_PLAYER objects of _PlayerPool
  Key,              \* keys a tool may bring
  LoginSessionKey,  \* the one in the configuration
  Types,            \* groups of figures that depend on a flag: 1 .. Types
  Null

ASSUME NullAssumption == Null \notin Session \cup Player \cup Key
ASSUME KeyAssumption == LoginSessionKey \in Key
ASSUME TypesAssumption == Types \in Nat

VARIABLES
  session,  \* each connection inside CNetServer: none, accepted, up, closing
  list,     \* _PlayerList
  free,     \* objects resting in _PlayerPool
  leaving,  \* the object a session's OnClientLeave has unlinked and not freed
  iSessionID,  \* in every st_PLAYER, freed ones included
  worker,   \* where the login handler is, with which pPlayer
  lock,     \* _srwPlayerLock between two steps: free, main's, or stuck
  on,       \* _bOnLoginServer, _bOnGameServer, _bOnChatServer
  main,     \* where the main thread is in UpdateClient
  heard     \* session, group and value of what this round has sent (history)

vars == <<session, list, free, leaving, iSessionID, worker, lock, on, main, heard>>
poolVars == <<list, free, leaving, iSessionID>>
mainVars == <<lock, main, heard>>

-----------------------------------------------------------------------------
(* Data. *)

Group == 0 .. Types    \* 0: the figures of the machine itself

Idle == [player |-> Null, session |-> Null, asked |-> Null]

At(place, g) == [at |-> place, group |-> g, value |-> FALSE, todo |-> {}]

MutUnlocked == lock # "stuck"

(* What AcquireSRWLockExclusive waits for. *)
Unlocked == lock = "free"

(* The object SearchPlayer finds. *)
Found(s) == {p \in list : iSessionID[p] = s}

-----------------------------------------------------------------------------
(* CNetServer's callbacks.  Those of one session do not overlap. *)

OnConnectRequest(s) ==
  /\ session[s] = "none"
  /\ session' = [session EXCEPT ![s] = "accepted"]
  /\ UNCHANGED <<poolVars, worker, on, mainVars>>

OnClientJoin(s) ==
  /\ session[s] = "accepted" /\ Unlocked
  /\ \E p \in free :
       /\ free' = free \ {p}
       /\ list' = list \cup {p}
       /\ iSessionID' = [iSessionID EXCEPT ![p] = s]
  /\ session' = [session EXCEPT ![s] = "up"]
  /\ UNCHANGED <<leaving, worker, on, mainVars>>

(* The tool, or the network, ends the connection. *)
HangUp(s) ==
  /\ session[s] = "up"
  /\ session' = [session EXCEPT ![s] = "closing"]
  /\ UNCHANGED <<poolVars, worker, on, mainVars>>

MutLeaving(s) == list

(* The object OnClientLeave goes on to free: the session's own, or, had the  *)
(* search failed, the last one it looked at.                                *)
Leaving(s) == IF Found(s) # {} THEN Found(s) ELSE list

OnClientLeave(s) ==
  /\ session[s] = "closing" /\ leaving[s] = Null /\ worker.session # s
  /\ Unlocked
  /\ \E p \in Leaving(s) :
       /\ list' = list \ Found(s)
       /\ leaving' = [leaving EXCEPT ![s] = p]
  /\ UNCHANGED <<session, free, iSessionID, worker, on, mainVars>>

(* _PlayerPool.Free, after the lock is released. *)
LeaveFree(s) ==
  /\ leaving[s] # Null
  /\ free' = free \cup {leaving[s]}
  /\ leaving' = [leaving EXCEPT ![s] = Null]
  /\ session' = [session EXCEPT ![s] = "none"]
  /\ heard' = {h \in heard : h.session # s}
  /\ UNCHANGED <<list, iSessionID, worker, lock, on, main>>

(* proc_PACKET_CS_MONITOR_TOOL_REQ_LOGIN, as often as a tool sends it. *)
LoginSearch(s, key) ==
  /\ session[s] \in {"up", "closing"} /\ leaving[s] = Null /\ worker = Idle
  /\ Unlocked
  /\ worker' \in IF Found(s) = {} THEN {Idle}
                ELSE [player : Found(s), session : {s}, asked : {key}]
  /\ UNCHANGED <<session, poolVars, on, mainVars>>

MutAnswered(s, byStatus) == session

(* SendPacket for a right key, SendPacket_Disconnect for a wrong one. *)
Answered(s, byStatus) ==
  IF byStatus = 0 /\ session[s] = "up"
  THEN [session EXCEPT ![s] = "closing"] ELSE session

(* The key goes into the object and is compared there.                      *)
LoginAnswer ==
  /\ worker # Idle
  /\ session' = Answered(worker.session,
                         IF worker.asked = LoginSessionKey THEN 1 ELSE 0)
  /\ worker' = Idle
  /\ UNCHANGED <<poolVars, on, mainVars>>

-----------------------------------------------------------------------------
(* The main thread's UpdateClient, once a second.  The figures of a group go *)
(* the way of its SERVER_ON.                                               *)

UpdateClient ==
  /\ main.at = "sleep"
  /\ main' = [At("lock", 0) EXCEPT !.value = TRUE]
  /\ heard' = {}
  /\ UNCHANGED <<session, poolVars, worker, lock, on>>

MutFollowing(g) == At("test", g + 1)

Following(g) == IF g < Types THEN At("test", g + 1) ELSE At("sleep", 0)

UpdateTest ==
  /\ main.at = "test"
  /\ main' = IF on[main.group] THEN [main EXCEPT !.at = "read"]
             ELSE Following(main.group)
  /\ UNCHANGED <<session, poolVars, worker, lock, on, heard>>

(* The flag is read a second time, for the argument of SendData. *)
UpdateRead ==
  /\ main.at = "read"
  /\ main' = [main EXCEPT !.at = "lock", !.value = on[main.group]]
  /\ UNCHANGED <<session, poolVars, worker, lock, on, heard>>

SendLock ==
  /\ main.at = "lock" /\ Unlocked
  /\ lock' = "main"
  /\ main' = [main EXCEPT !.at = "walk", !.todo = list]
  /\ UNCHANGED <<session, poolVars, worker, on, heard>>

MutAfter(p) == {}

(* The elements still ahead of the iterator. *)
After(p) == main.todo \ {p}

(* Nobody receives what is sent to a session that is not there. *)
SendNext ==
  /\ main.at = "walk"
  /\ \E p \in main.todo :
       /\ main' = [main EXCEPT !.todo = After(p)]
       /\ heard' = heard \cup
            {[session |-> s, group |-> main.group, value |-> main.value] :
               s \in {iSessionID[p]} \cap {t \in Session : session[t] = "up"}}
  /\ UNCHANGED <<session, poolVars, worker, lock, on>>

SendUnlock ==
  /\ main.at = "walk" /\ main.todo = {}
  /\ lock' = "free"
  /\ main' = Following(main.group)
  /\ UNCHANGED <<session, poolVars, worker, on, heard>>

(* A server logs in, goes, or is timed out: MonitorServer. *)
Flag(g) ==
  /\ on' = [on EXCEPT ![g] = ~@]
  /\ UNCHANGED <<session, poolVars, worker, mainVars>>

-----------------------------------------------------------------------------
Init ==
  /\ session = [s \in Session |-> "none"]
  /\ list = {}
  /\ free = Player
  /\ leaving = [s \in Session |-> Null]
  /\ iSessionID = [p \in Player |-> Null]
  /\ worker = Idle
  /\ lock \in {"free", "stuck"}
  /\ on = [g \in 1 .. Types |-> FALSE]
  /\ main = At("sleep", 0)
  /\ heard = {}

Next ==
  \/ \E s \in Session : OnConnectRequest(s)
  \/ \E s \in Session : OnClientJoin(s)
  \/ \E s \in Session : HangUp(s)
  \/ \E s \in Session : OnClientLeave(s)
  \/ \E s \in Session : LeaveFree(s)
  \/ \E s \in Session, key \in Key : LoginSearch(s, key)
  \/ LoginAnswer
  \/ UpdateClient
  \/ UpdateTest
  \/ UpdateRead
  \/ SendLock
  \/ SendNext
  \/ SendUnlock
  \/ \E g \in 1 .. Types : Flag(g)

Spec == Init /\ [][Next]_vars

(* Threads go on, and whoever waits for the lock gets it in the end: no      *)
(* section under it waits for anything.  Tools need not do anything.         *)
Fairness ==
  /\ \A s \in Session :
       /\ SF_vars(OnClientJoin(s)) /\ SF_vars(OnClientLeave(s))
       /\ WF_vars(LeaveFree(s))
  /\ WF_vars(LoginAnswer)
  /\ WF_vars(UpdateClient) /\ WF_vars(UpdateTest) /\ WF_vars(UpdateRead)
  /\ SF_vars(SendLock) /\ WF_vars(SendNext) /\ WF_vars(SendUnlock)

FairSpec == Spec /\ Fairness

-----------------------------------------------------------------------------
(* What must hold. *)

(* Every variable keeps the shape the code's declarations give it. *)
TypeOK ==
  /\ session \in [Session -> {"none", "accepted", "up", "closing"}]
  /\ list \in SUBSET Player
  /\ free \in SUBSET Player
  /\ leaving \in [Session -> Player \cup {Null}]
  /\ iSessionID \in [Player -> Session \cup {Null}]
  /\ worker \in {Idle} \cup [player : Player, session : Session, asked : Key]
  /\ lock \in {"free", "main", "stuck"}
  /\ on \in [1 .. Types -> BOOLEAN]
  /\ main \in [at : {"sleep", "test", "read", "lock", "walk"}, group : Group,
               value : BOOLEAN, todo : SUBSET Player]
  /\ heard \in SUBSET [session : Session, group : Group, value : BOOLEAN]

Listed(s) == session[s] \in {"up", "closing"} /\ leaving[s] = Null

(* _PlayerList holds exactly one object for each session between its join and *)
(* its leave, and every object is in the list, in the pool, or with the one       *)
(* leave that frees it: none leaks, none is freed twice or while listed.      *)
PlayersMatchSessions ==
  /\ \A s \in Session : Listed(s) <=> \E p \in list : iSessionID[p] = s
  /\ \A p, q \in list : iSessionID[p] = iSessionID[q] => p = q
  /\ \A p \in list : iSessionID[p] \in Session
  /\ \A p \in Player :
       /\ p \in list => p \notin free /\ \A s \in Session : leaving[s] # p
       /\ p \in free => \A s \in Session : leaving[s] # p
       /\ p \in list \/ p \in free \/ \E s \in Session : leaving[s] = p
  /\ \A s, t \in Session : leaving[s] = leaving[t] => s = t \/ leaving[s] = Null

(* No pointer outlives its object: what the main thread still has to walk     *)
(* over is in the list, and the login handler's pPlayer, taken before the     *)
(* lock was released, is its session's.                                     *)
PointersAreListed ==
  /\ main.todo \subseteq list
  /\ worker # Idle =>
       worker.player \in list /\ iSessionID[worker.player] = worker.session

(* MonitorNetServer.cpp:413: every tool is sent every figure.  Once a round,  *)
(* a tool that stays hears of a server that stays, unless the uninitialised   *)
(* lock stops the thread.                                                    *)
ToolHearsOfServer ==
  \A s \in Session, g \in 1 .. Types :
    session[s] \in {"accepted", "up"} /\ on[g] ~>
      \/ [session |-> s, group |-> g, value |-> TRUE] \in heard
      \/ session[s] = "closing" \/ ~on[g] \/ lock = "stuck"

(* MonitorNetServer.cpp:220: a tool with a wrong key is answered and cut.     *)
RefusedToolGoes ==
  \A s \in Session :
    worker.session = s /\ worker.asked # LoginSessionKey ~> session[s] = "none"

=============================================================================
