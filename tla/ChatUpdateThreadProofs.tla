------------------------ MODULE ChatUpdateThreadProofs ------------------------
(***************************************************************************)
(* Proofs about ChatUpdateThread, for any number of workers and messages:  *)
(* types, no lost wake-up, and a Stop that outlives the update thread.     *)
(***************************************************************************)
EXTENDS ChatUpdateThread, TLAPS

(* A worker holds a message exactly while it is inside a callback. *)
HoldInv ==
  \A w \in Worker :
    (worker[w] = "idle" /\ holds[w] = NoMsg) \/ (worker[w] # "idle" /\ holds[w] \in Msg)

(* The update thread holds a message exactly while it handles it. *)
CurrentInv == (upd = "handle" /\ current \in Msg) \/ (upd # "handle" /\ current = NoMsg)

(* How far the update thread and its event are, by the main thread's call. *)
MainInv ==
  /\ main \in {"netStart", "loginClient", "createEvent"} => event = "absent"
  /\ main = "beginThread" => upd = "none" /\ event # "absent"
  /\ main \in {"closeHandles", "freePlayers", "netStop", "netWait", "stopped"} =>
       upd = "ended"
  /\ event = "absent" => upd = "none"

Covered == Queued \subseteq Signalling \cup early

(* NoLostWakeup from before the event and the thread exist. *)
WakeInv ==
  /\ event = "absent" => Covered
  /\ upd \in {"none", "test", "wait"} /\ event = "reset" => Covered

IInv == TypeOK /\ HoldInv /\ CurrentInv /\ MainInv /\ WakeInv

-----------------------------------------------------------------------------
(* The message a worker enqueues is one it is about to signal. *)
LEMMA EnqueueCovered ==
  ASSUME TypeOK, HoldInv, NEW w \in Worker, CallbackEnqueue(w), Covered
  PROVE  Covered'
<1>1. /\ messageQ' = Append(messageQ, holds[w])
      /\ worker' = [worker EXCEPT ![w] = "signal"]
      /\ holds' = holds /\ early' = early
      /\ messageQ \in Seq(Msg) /\ holds[w] \in Msg
      /\ worker \in [Worker -> {"idle", "enqueue", "signal"}]
  BY DEF CallbackEnqueue, TypeOK, HoldInv
<1>2. Queued' \subseteq Queued \cup {holds[w]}
  BY <1>1 DEF Queued
<1>3. Signalling \cup {holds[w]} \subseteq Signalling'
  BY <1>1 DEF Signalling
<1> QED
  BY <1>1, <1>2, <1>3 DEF Covered

(* A worker that starts a callback signals nothing yet, and another's      *)
(* signal on an event that does not exist is remembered.                   *)
LEMMA SignalCovered ==
  ASSUME TypeOK, NEW w \in Worker, Covered,
         CallbackAlloc(w) \/ (CallbackSetEvent(w) /\ event = "absent")
  PROVE  Covered'
<1>1. Queued' = Queued
  BY DEF CallbackAlloc, CallbackSetEvent, Queued
<1>2. Signalling \cup early \subseteq Signalling' \cup early'
  <2>1. CASE CallbackAlloc(w)
    <3>1. /\ worker[w] = "idle" /\ early' = early
          /\ worker' = [worker EXCEPT ![w] = "enqueue"]
          /\ \E m \in Msg : holds' = [holds EXCEPT ![w] = m]
      BY <2>1 DEF CallbackAlloc
    <3>2. \A v \in Worker : worker[v] = "signal" =>
            worker'[v] = "signal" /\ holds'[v] = holds[v]
      BY <3>1 DEF TypeOK
    <3> QED
      BY <3>1, <3>2 DEF Signalling
  <2>2. CASE CallbackSetEvent(w) /\ event = "absent"
    <3>1. /\ early' = early \cup {holds[w]}
          /\ worker' = [worker EXCEPT ![w] = "idle"]
          /\ holds' = [holds EXCEPT ![w] = NoMsg]
      BY <2>2 DEF CallbackSetEvent
    <3>2. \A v \in Worker \ {w} : worker'[v] = worker[v] /\ holds'[v] = holds[v]
      BY <3>1 DEF TypeOK
    <3> QED
      BY <3>1, <3>2 DEF Signalling
  <2> QED
    BY <2>1, <2>2
<1> QED
  BY <1>1, <1>2 DEF Covered

(* Steps that leave queue, workers and history alone keep them covered. *)
LEMMA CoveredKept ==
  ASSUME UNCHANGED <<worker, holds, messageQ, early>>
  PROVE  Covered' <=> Covered
BY DEF Covered, Queued, Signalling

-----------------------------------------------------------------------------
(* The invariant holds before Start. *)
LEMMA InitIInv == Init => IInv
<1> SUFFICES ASSUME Init PROVE IInv
  OBVIOUS
<1>1. Queued = {}
  BY DEF Init, Queued
<1>2. TypeOK
  <2>1. messageQ \in Seq(Msg)
    BY DEF Init
  <2>2. /\ worker \in [Worker -> {"idle", "enqueue", "signal"}]
        /\ holds \in [Worker -> Msg \cup {NoMsg}]
    BY DEF Init
  <2> QED
    BY <2>1, <2>2 DEF Init, TypeOK
<1>4. HoldInv
  BY DEF Init, HoldInv
<1>3. CurrentInv /\ MainInv /\ WakeInv
  BY <1>1 DEF Init, CurrentInv, MainInv, WakeInv, Covered
<1> QED
  BY <1>2, <1>3, <1>4 DEF IInv

(* Every call of the main thread keeps the invariant. *)
LEMMA MainIInv == IInv /\ (Start \/ Stop) => IInv'
<1> SUFFICES ASSUME IInv, Start \/ Stop PROVE IInv'
  OBVIOUS
<1> USE DEF IInv
<1>1. UNCHANGED <<worker, holds, messageQ, early, current>>
  BY DEF Start, Stop, StartNet, StartNetFails, StartLoginClient, CreateEvent, BeginThread,
     StartReturns, StopSetFlag, StopSetEvent, StopJoin, StopCloseHandles, StopFreePlayers,
     StopNet, StopNetDone, updVars, workerVars
<1>2. Covered' <=> Covered
  BY <1>1, CoveredKept
<1>3. HoldInv'
  BY <1>1 DEF HoldInv
<1>4. CASE Start
  <2>1. TypeOK' /\ CurrentInv' /\ MainInv'
    <3>1. TypeOK'
      BY <1>1, <1>4 DEF Start, StartNet, StartNetFails, StartLoginClient, CreateEvent,
         BeginThread, StartReturns, Step, TypeOK, updVars
    <3>2. CurrentInv'
      BY <1>1, <1>4 DEF Start, StartNet, StartNetFails, StartLoginClient, CreateEvent,
         BeginThread, StartReturns, CurrentInv, MainInv, Step, updVars
    <3>3. MainInv'
      BY <1>4 DEF Start, StartNet, StartNetFails, StartLoginClient, CreateEvent,
         BeginThread, StartReturns, Step, MainInv, updVars
    <3> QED
      BY <3>1, <3>2, <3>3
  <2>2. WakeInv'
    BY <1>2, <1>4 DEF Start, StartNet, StartNetFails, StartLoginClient, CreateEvent,
       BeginThread, StartReturns, Step, MainInv, WakeInv, updVars
  <2> QED
    BY <1>3, <2>1, <2>2
<1>5. CASE Stop
  <2>1. TypeOK' /\ CurrentInv' /\ MainInv'
    BY <1>1, <1>5 DEF Stop, StopSetFlag, StopSetEvent, StopJoin, StopCloseHandles,
       StopFreePlayers, StopNet, StopNetDone, SetEvent, Step, TypeOK, CurrentInv, MainInv,
       updVars
  <2>2. WakeInv'
    BY <1>2, <1>5 DEF Stop, StopSetFlag, StopSetEvent, StopJoin, StopCloseHandles,
       StopFreePlayers, StopNet, StopNetDone, SetEvent, Step, WakeInv, updVars
  <2> QED
    BY <1>3, <2>1, <2>2
<1> QED
  BY <1>4, <1>5

(* Every call of a callback keeps the invariant. *)
LEMMA CallbackIInv ==
  ASSUME IInv, NEW w \in Worker, Callback(w)
  PROVE  IInv'
<1> USE DEF IInv
<1>1. UNCHANGED <<mainVars, updVars>>
  BY DEF Callback, CallbackAlloc, CallbackEnqueue, CallbackSetEvent
<1>2. CurrentInv'
  BY <1>1 DEF CurrentInv, updVars
<1>3. CASE CallbackAlloc(w)
  <2>1. TypeOK' /\ MainInv'
    BY <1>1, <1>3 DEF CallbackAlloc, TypeOK, MainInv, mainVars, updVars
  <2>2. HoldInv'
    BY <1>3 DEF CallbackAlloc, TypeOK, HoldInv
  <2>3. WakeInv'
    BY <1>1, <1>3, SignalCovered DEF CallbackAlloc, WakeInv, updVars
  <2> QED
    BY <1>2, <2>1, <2>2, <2>3
<1>4. CASE CallbackEnqueue(w)
  <2>1. TypeOK' /\ MainInv'
    BY <1>1, <1>4 DEF CallbackEnqueue, TypeOK, HoldInv, MainInv, mainVars, updVars
  <2>2. HoldInv'
    BY <1>4 DEF CallbackEnqueue, TypeOK, HoldInv
  <2>3. WakeInv'
    BY <1>1, <1>4, EnqueueCovered DEF CallbackEnqueue, WakeInv, updVars
  <2> QED
    BY <1>2, <2>1, <2>2, <2>3
<1>5. CASE CallbackSetEvent(w)
  <2>1. TypeOK' /\ MainInv'
    BY <1>1, <1>5 DEF CallbackSetEvent, SetEvent, TypeOK, HoldInv, MainInv, mainVars, updVars
  <2>2. HoldInv'
    BY <1>5 DEF CallbackSetEvent, TypeOK, HoldInv
  <2>3. WakeInv'
    BY <1>1, <1>5, SignalCovered DEF CallbackSetEvent, SetEvent, WakeInv, updVars
  <2> QED
    BY <1>2, <2>1, <2>2, <2>3
<1> QED
  BY <1>3, <1>4, <1>5 DEF Callback

(* Every call of the update thread keeps the invariant. *)
LEMMA UpdateIInv == IInv /\ UpdateThread_Process => IInv'
<1> SUFFICES ASSUME IInv, UpdateThread_Process PROVE IInv'
  OBVIOUS
<1> USE DEF IInv
<1>1. UNCHANGED <<mainVars, workerVars>>
  BY DEF UpdateThread_Process, UpdateTest, UpdateWait, UpdateDequeue, UpdateHandle
<1>2. HoldInv'
  BY <1>1 DEF HoldInv, workerVars
<1>3. CASE UpdateTest \/ UpdateWait
  <2>1. UNCHANGED <<messageQ, early>>
    BY <1>3 DEF UpdateTest, UpdateWait
  <2>2. Covered' <=> Covered
    BY <1>1, <2>1, CoveredKept DEF workerVars
  <2>3. TypeOK' /\ CurrentInv' /\ MainInv'
    BY <1>1, <1>3, <2>1 DEF UpdateTest, UpdateWait, TypeOK, CurrentInv, MainInv, mainVars,
       workerVars
  <2>4. WakeInv'
    BY <1>3, <2>2 DEF UpdateTest, UpdateWait, WakeInv, MainInv
  <2> QED
    BY <1>2, <2>3, <2>4
<1>5. CASE UpdateHandle
  <2>1. TypeOK' /\ CurrentInv' /\ MainInv'
    BY <1>1, <1>5 DEF UpdateHandle, AfterHandle, TypeOK, CurrentInv, MainInv, mainVars,
       workerVars
  <2>2. event' # "absent" /\ upd' = "dequeue"
    BY <1>5 DEF UpdateHandle, AfterHandle, MainInv
  <2>3. WakeInv'
    BY <2>2 DEF WakeInv
  <2> QED
    BY <1>2, <2>1, <2>3
<1>4. CASE UpdateDequeue
  <2>1. TypeOK' /\ CurrentInv' /\ MainInv'
    BY <1>1, <1>4 DEF UpdateDequeue, TypeOK, CurrentInv, MainInv, mainVars, workerVars
  <2>2. messageQ = <<>> => Covered'
    BY <1>4 DEF UpdateDequeue, Covered, Queued
  <2>3. WakeInv'
    BY <1>4, <2>2 DEF UpdateDequeue, WakeInv, MainInv
  <2> QED
    BY <1>2, <2>1, <2>3
<1> QED
  BY <1>3, <1>4, <1>5 DEF UpdateThread_Process

(* The invariant of the threads that start, wake and stop each other. *)
THEOREM InductiveInvariant == Spec => []IInv
<1>1. IInv /\ UNCHANGED vars => IInv'
  <2> SUFFICES ASSUME IInv, UNCHANGED vars PROVE IInv'
    OBVIOUS
  <2> QED
    BY DEF vars, IInv, TypeOK, HoldInv, CurrentInv, MainInv, WakeInv, Covered, Queued,
       Signalling
<1>2. IInv /\ [Next]_vars => IInv'
  BY <1>1, MainIInv, CallbackIInv, UpdateIInv DEF Next
<1> QED
  BY InitIInv, <1>2, PTL DEF Spec

(* Program counters, event and messages keep their shape. *)
THEOREM TypeCorrect == Spec => []TypeOK
<1>1. IInv => TypeOK
  BY DEF IInv
<1> QED
  BY <1>1, InductiveInvariant, PTL

(* For any number of workers, the update thread never waits on a reset     *)
(* event while something is queued that no worker is about to signal,      *)
(* but for what was signalled before Start created the event.              *)
THEOREM WakeupsKept == Spec => []NoLostWakeup
<1>1. IInv => NoLostWakeup
  BY DEF IInv, WakeInv, Covered, NoLostWakeup
<1> QED
  BY <1>1, InductiveInvariant, PTL

(* Stop never closes the event or frees the players under the thread.      *)
THEOREM StopOrderCorrect == Spec => []StopOutlivesUpdateThread
<1>1. IInv => StopOutlivesUpdateThread
  BY DEF IInv, MainInv, CurrentInv, StopOutlivesUpdateThread
<1> QED
  BY <1>1, InductiveInvariant, PTL

=============================================================================
