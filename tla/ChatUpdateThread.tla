--------------------------- MODULE ChatUpdateThread ---------------------------
(***************************************************************************)
(* How the chat server's update thread is started, woken and stopped: the  *)
(* main thread in CChatServer::Start and Stop, the network workers in the  *)
(* callbacks OnClientJoin, OnClientLeave and OnRecv, and the update thread *)
(* in UpdateThread_Process, interleaved between every two calls that the   *)
(* other threads can tell apart.  A message is its identity: what handling *)
(* it does is the subject of ChatServer.                                   *)
(***************************************************************************)
EXTENDS Naturals, Sequences, FiniteSets

CONSTANTS
  Worker,   \* IOCP worker threads of CNetServer
  Msg,      \* st_MESSAGEs of _MessagePool (bounds what is outstanding at a time)
  NoMsg

ASSUME NoMsgAssumption == NoMsg \notin Msg

VARIABLES
  main,       \* next call of the main thread
  net,        \* CNetServer: callbacks run while it is up or stopping
  shutdown,   \* _bShutdown
  event,      \* _hUpdateEvent, an auto-reset event
  upd,        \* next call of the update thread
  current,    \* pMessage of the update thread
  worker,     \* next call of each worker
  holds,      \* pMessage of each worker
  messageQ,   \* _MessageQ
  early       \* messages queued whose SetEvent came before CreateEvent (history)

vars == <<main, net, shutdown, event, upd, current, worker, holds, messageQ, early>>
mainVars == <<main, net, shutdown>>
updVars == <<upd, current>>
workerVars == <<worker, holds>>

-----------------------------------------------------------------------------
(* An auto-reset event.  The handle is garbage before CreateEvent and      *)
(* stale after CloseHandle: SetEvent then reaches no event of this program.*)

SetEvent == event' = IF event \in {"reset", "set"} THEN "set" ELSE event

-----------------------------------------------------------------------------
(* The main thread. *)

(* One call of Start or Stop, on the way from one to the next. *)
Step(from, to) == main = from /\ main' = to

StartNet ==
  /\ Step("netStart", "loginClient")
  /\ net' = "up"
  /\ UNCHANGED <<shutdown, event, updVars, workerVars, messageQ, early>>

(* Start returns false; main() returns without Stop. *)
StartNetFails ==
  /\ Step("netStart", "exited")
  /\ UNCHANGED <<net, shutdown, event, updVars, workerVars, messageQ, early>>

(* Up to five tries to reach the login server: only their duration matters. *)
StartLoginClient ==
  /\ Step("loginClient", "createEvent")
  /\ UNCHANGED <<net, shutdown, event, updVars, workerVars, messageQ, early>>

CreateEvent ==
  /\ Step("createEvent", "beginThread")
  /\ event' = "reset"
  /\ UNCHANGED <<net, shutdown, updVars, workerVars, messageQ, early>>

BeginThread ==
  /\ Step("beginThread", "return")
  /\ upd' = "test"
  /\ UNCHANGED <<net, shutdown, event, current, workerVars, messageQ, early>>

(* Start ends without a return statement: main() sees either value, and on *)
(* false leaves the process.                                               *)
StartReturns ==
  /\ main = "return"
  /\ main' \in {"running", "exited"}
  /\ UNCHANGED <<net, shutdown, event, updVars, workerVars, messageQ, early>>

(* The operator quits: Stop begins by raising _bShutdown. *)
StopSetFlag ==
  /\ Step("running", "setEvent")
  /\ shutdown' = TRUE
  /\ UNCHANGED <<net, event, updVars, workerVars, messageQ, early>>

MutStopSetEvent ==
  /\ Step("setEvent", "join")
  /\ UNCHANGED <<net, shutdown, event, updVars, workerVars, messageQ, early>>

StopSetEvent ==
  /\ Step("setEvent", "join")
  /\ SetEvent
  /\ UNCHANGED <<net, shutdown, updVars, workerVars, messageQ, early>>

MutStopJoin ==
  /\ Step("join", "closeHandles")
  /\ UNCHANGED <<net, shutdown, event, updVars, workerVars, messageQ, early>>

StopJoin ==
  /\ Step("join", "closeHandles")
  /\ upd = "ended"
  /\ UNCHANGED <<net, shutdown, event, updVars, workerVars, messageQ, early>>

StopCloseHandles ==
  /\ Step("closeHandles", "freePlayers")
  /\ event' = "closed"
  /\ UNCHANGED <<net, shutdown, updVars, workerVars, messageQ, early>>

(* _PlayerMap is emptied and the two LAN clients are stopped. *)
StopFreePlayers ==
  /\ Step("freePlayers", "netStop")
  /\ UNCHANGED <<net, shutdown, event, updVars, workerVars, messageQ, early>>

(* CNetServer::Stop disconnects every session, which runs OnClientLeave on  *)
(* the workers, and returns when they are through.                          *)
StopNet ==
  /\ Step("netStop", "netWait")
  /\ net' = "stopping"
  /\ UNCHANGED <<shutdown, event, updVars, workerVars, messageQ, early>>

StopNetDone ==
  /\ Step("netWait", "stopped")
  /\ \A w \in Worker : worker[w] = "idle"
  /\ net' = "down"
  /\ UNCHANGED <<shutdown, event, updVars, workerVars, messageQ, early>>

Start ==
  \/ StartNet \/ StartNetFails \/ StartLoginClient
  \/ CreateEvent \/ BeginThread \/ StartReturns

Stop ==
  \/ StopSetFlag \/ StopSetEvent \/ StopJoin \/ StopCloseHandles
  \/ StopFreePlayers \/ StopNet \/ StopNetDone

-----------------------------------------------------------------------------
(* The workers: OnClientJoin, OnClientLeave and OnRecv are alike here. *)

Live == main # "exited"

(* A message is back in _MessagePool when it is neither about to be queued, *)
(* nor queued, nor handled; a worker that has queued its message does not  *)
(* look at it again.                                                       *)
Fresh(m) ==
  /\ current # m
  /\ \A i \in 1 .. Len(messageQ) : messageQ[i] # m
  /\ \A w \in Worker : worker[w] = "enqueue" => holds[w] # m

MutCallbackAlloc(w) ==
  /\ Live /\ net \in {"up", "stopping"}
  /\ worker[w] = "idle"
  /\ worker' = [worker EXCEPT ![w] = "enqueue"]
  /\ UNCHANGED <<mainVars, event, updVars, holds, messageQ, early>>

CallbackAlloc(w) ==
  /\ Live /\ net \in {"up", "stopping"}
  /\ worker[w] = "idle"
  /\ \E m \in Msg : Fresh(m) /\ holds' = [holds EXCEPT ![w] = m]
  /\ worker' = [worker EXCEPT ![w] = "enqueue"]
  /\ UNCHANGED <<mainVars, event, updVars, messageQ, early>>

MutCallbackEnqueue(w) ==
  /\ Live /\ worker[w] = "enqueue"
  /\ messageQ' = Append(messageQ, holds[w])
  /\ worker' = [worker EXCEPT ![w] = IF messageQ = <<>> THEN "signal" ELSE "idle"]
  /\ holds' = IF messageQ = <<>> THEN holds ELSE [holds EXCEPT ![w] = NoMsg]
  /\ UNCHANGED <<mainVars, event, updVars, early>>

CallbackEnqueue(w) ==
  /\ Live /\ worker[w] = "enqueue"
  /\ messageQ' = Append(messageQ, holds[w])
  /\ worker' = [worker EXCEPT ![w] = "signal"]
  /\ UNCHANGED <<mainVars, event, updVars, holds, early>>

CallbackSetEvent(w) ==
  /\ Live /\ worker[w] = "signal"
  /\ SetEvent
  /\ early' = IF event = "absent" THEN early \cup {holds[w]} ELSE early
  /\ worker' = [worker EXCEPT ![w] = "idle"]
  /\ holds' = [holds EXCEPT ![w] = NoMsg]
  /\ UNCHANGED <<mainVars, updVars, messageQ>>

-----------------------------------------------------------------------------
(* The update thread. *)

UpdateTest ==
  /\ Live /\ upd = "test"
  /\ upd' = IF shutdown THEN "ended" ELSE "wait"
  /\ UNCHANGED <<mainVars, event, current, workerVars, messageQ, early>>

(* A satisfied wait resets the event. *)
UpdateWait ==
  /\ Live /\ upd = "wait"
  /\ event = "set"
  /\ event' = "reset"
  /\ upd' = "dequeue"
  /\ UNCHANGED <<mainVars, current, workerVars, messageQ, early>>

UpdateDequeue ==
  /\ Live /\ upd = "dequeue"
  /\ \/ /\ messageQ # <<>>
        /\ current' = Head(messageQ)
        /\ messageQ' = Tail(messageQ)
        /\ upd' = "handle"
     \/ /\ messageQ = <<>>
        /\ upd' = "test"
        /\ UNCHANGED <<current, messageQ>>
  /\ UNCHANGED <<mainVars, event, workerVars, early>>

MutAfterHandle == "test"

(* The inner loop goes on until the queue is empty. *)
AfterHandle == "dequeue"

UpdateHandle ==
  /\ Live /\ upd = "handle"
  /\ early' = early \ {current}
  /\ current' = NoMsg
  /\ upd' = AfterHandle
  /\ UNCHANGED <<mainVars, event, workerVars, messageQ>>

UpdateThread_Process == UpdateTest \/ UpdateWait \/ UpdateDequeue \/ UpdateHandle

-----------------------------------------------------------------------------
Init ==
  /\ main = "netStart"
  /\ net = "down"
  /\ shutdown = FALSE
  /\ event = "absent"
  /\ upd = "none"
  /\ current = NoMsg
  /\ worker = [w \in Worker |-> "idle"]
  /\ holds = [w \in Worker |-> NoMsg]
  /\ messageQ = <<>>
  /\ early = {}

Callback(w) == CallbackAlloc(w) \/ CallbackEnqueue(w) \/ CallbackSetEvent(w)

Next ==
  \/ Start
  \/ Stop
  \/ \E w \in Worker : Callback(w)
  \/ UpdateThread_Process

Spec == Init /\ [][Next]_vars

(* The OS runs every thread; the operator need never quit, no client need  *)
(* ever call.                                                              *)
Fairness ==
  /\ WF_vars(Start)
  /\ WF_vars(main # "running" /\ Stop)
  /\ WF_vars(UpdateThread_Process)
  /\ \A w \in Worker : WF_vars(CallbackEnqueue(w) \/ CallbackSetEvent(w))

FairSpec == Spec /\ Fairness

-----------------------------------------------------------------------------
(* What must hold. *)

Queued == {messageQ[i] : i \in 1 .. Len(messageQ)}

(* Program counters and messages keep their shape. *)
TypeOK ==
  /\ main \in {"netStart", "loginClient", "createEvent", "beginThread", "return",
               "running", "setEvent", "join", "closeHandles", "freePlayers",
               "netStop", "netWait", "stopped", "exited"}
  /\ net \in {"down", "up", "stopping"}
  /\ shutdown \in BOOLEAN
  /\ event \in {"absent", "reset", "set", "closed"}
  /\ upd \in {"none", "test", "wait", "dequeue", "handle", "ended"}
  /\ current \in Msg \cup {NoMsg}
  /\ worker \in [Worker -> {"idle", "enqueue", "signal"}]
  /\ holds \in [Worker -> Msg \cup {NoMsg}]
  /\ messageQ \in Seq(Msg)
  /\ early \in SUBSET Msg

Signalling == {holds[w] : w \in {v \in Worker : worker[v] = "signal"}}

(* The update thread never sleeps through a wake-up: while it is about to   *)
(* wait on an event that is not set, whatever is queued is about to be      *)
(* signalled by its worker, or was signalled before the event existed.      *)
NoLostWakeup ==
  upd \in {"test", "wait"} /\ event = "reset" =>
    Queued \subseteq Signalling \cup early

(* Stop waits for the update thread before it closes the event the thread  *)
(* waits on and frees the players the thread works on.                     *)
StopOutlivesUpdateThread ==
  main \in {"closeHandles", "freePlayers", "netStop", "netWait", "stopped"} =>
    upd = "ended" /\ current = NoMsg

(* The message is queued, and it or one behind it was not early.           *)
Reached(m) ==
  \E i \in 1 .. Len(messageQ) :
    /\ messageQ[i] = m
    /\ \E j \in i .. Len(messageQ) : messageQ[j] \notin early

(* A message signalled on a live event is handled while the server runs,   *)
(* and one signalled before the event existed waits no longer than for the *)
(* next callback.                                                          *)
EveryMessageIsHandled ==
  \A m \in Msg :
    Reached(m) /\ main = "running" ~> current = m \/ main # "running"

(* Once the operator quits, Stop comes to its end, unless the clients go   *)
(* on calling for ever: until CNetServer::Stop they may, and the inner     *)
(* loop does not look at _bShutdown.                                       *)
StopTerminates ==
  \/ []<><<\E w \in Worker : CallbackAlloc(w)>>_vars
  \/ shutdown ~> main = "stopped"

(* The same without that condition. *)
StopAlwaysTerminates == shutdown ~> main = "stopped"

(* CChatServer.cpp:238, 250 and 262 say of each message "Free in           *)
(* UpdateThread": once Stop is over every message queued is back in the    *)
(* pool.                                                                   *)
EveryMessageFreedAfterStop == main = "stopped" => messageQ = <<>>

(* The same comment, for a server that keeps running: a queued message is  *)
(* handled and freed by the update thread, or the server does not run.     *)
EveryMessageFreedWhileRunning ==
  \A m \in Msg :
    m \in Queued /\ main = "running" ~> current = m \/ main # "running"

=============================================================================
