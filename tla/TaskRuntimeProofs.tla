--------------------------- MODULE TaskRuntimeProofs ---------------------------
(***************************************************************************)
(* Proofs about TaskRuntime, for any set of tasks and any numbers of       *)
(* attempts: what becomes of the tasks of a store that nobody rebuilds     *)
(* (UnrebuiltSpec), and what becomes of settled records if somebody does.  *)
(***************************************************************************)
EXTENDS TaskRuntime, TLAPS

Statuses == Terminal \cup {"running"}
Places == {"new", "created", "starting", "executing", "backoff", "finishing", "settling",
           "reading", "done"}

Typed ==
  /\ store \in [Tasks -> Statuses \cup {"absent"}]
  /\ cancelled \in [Tasks -> BOOLEAN]
  /\ pc \in [Tasks -> Places]
  /\ outcome \in [Tasks -> {"none", "completed", "failed", "cancelled", "blank"}]
  /\ canceller \in [Tasks -> {"idle", "signalling"}]
  /\ owed \in [Tasks -> [Actors -> Statuses \cup {"none"}]]
  /\ endings \in [Tasks -> Nat]
  /\ told \in [Tasks -> Terminal \cup {"none"}]

\* The record a goroutine has before it at each place.
Placed(t) ==
  /\ pc[t] = "new" <=> store[t] = "absent"
  /\ pc[t] = "finishing" => outcome[t] # "none"
  /\ pc[t] = "settling" => store[t] \in Terminal /\ outcome[t] = store[t]
  /\ pc[t] = "reading" => store[t] \in Terminal
  /\ pc[t] = "done" => store[t] \in Terminal /\ told[t] = store[t]
  /\ pc[t] # "done" => told[t] = "none"

\* The end of a task is owed by one actor, or has been emitted.
OwedOnce(t) ==
  IF store[t] \notin Terminal
  THEN endings[t] = 0 /\ \A a \in Actors : owed[t][a] \notin Terminal
  ELSE \/ endings[t] = 1 /\ \A a \in Actors : owed[t][a] \notin Terminal
       \/ endings[t] = 0 /\ \E a \in Actors : /\ owed[t][a] \in Terminal
                                              /\ \A b \in Actors \ {a} : owed[t][b] \notin Terminal

\* An attempt has a cancel function, and one whose task was cancelled was told.
Cancellable(t) ==
  /\ pc[t] \in {"starting", "executing", "backoff"} => t \in cancels
  /\ store[t] = "cancelled" /\ canceller[t] = "idle" /\ pc[t] \in {"executing", "backoff"}
       => cancelled[t] \/ turnEnded

TaskInv == Typed /\ \A t \in Tasks : Placed(t) /\ OwedOnce(t) /\ Cancellable(t)

--------------------------------------------------------------------------------
USE DEF Terminal, Statuses, Actors, Places

\* Nothing has been submitted.
LEMMA TaskInit == Init => TaskInv
BY DEF Init, TaskInv, Typed, Placed, OwedOnce, Cancellable

\* An event is emitted by the one who owes it.
LEMMA EmitStep ==
  ASSUME TaskInv, NEW t \in Tasks, NEW a \in Actors, Emit(t, a)
  PROVE  TaskInv'
<1> USE DEF TaskInv
<1>1. Typed'
  BY DEF Typed, Emit, taskVars, logVars
<1>2. ASSUME NEW s \in Tasks PROVE Placed(s)' /\ Cancellable(s)'
  BY DEF Placed, Cancellable, Emit, taskVars, turnVars
<1>3. ASSUME NEW s \in Tasks PROVE OwedOnce(s)'
  <2>1. CASE s # t
    BY <2>1 DEF OwedOnce, Emit, Typed
  <2>2. CASE s = t
    BY <2>2 DEF OwedOnce, Emit, Emitted, Typed
  <2> QED
    BY <2>1, <2>2
<1> QED
  BY <1>1, <1>2, <1>3
\* A task is created with a record that says running.
LEMMA CreateStep ==
  ASSUME TaskInv, NEW t \in Tasks, Create(t)
  PROVE  TaskInv'
<1> USE DEF TaskInv, Create, Transition, Goto
<1>1. Typed'
  BY DEF Typed, taskVars, logVars
<1>2. ASSUME NEW s \in Tasks PROVE Placed(s)' /\ OwedOnce(s)' /\ Cancellable(s)'
  <2>1. CASE s # t
    BY <2>1 DEF Typed, Placed, OwedOnce, Cancellable, taskVars, logVars, turnVars
  <2>2. CASE s = t
    <3>1. Placed(t)'
      BY DEF Typed, Placed, taskVars, logVars
    <3>2. OwedOnce(t)'
      BY DEF Typed, Placed, OwedOnce, taskVars, logVars
    <3>3. Cancellable(t)'
      BY DEF Typed, Placed, Cancellable, taskVars, turnVars
    <3> QED
      BY <2>2, <3>1, <3>2, <3>3
  <2> QED
    BY <2>1, <2>2
<1> QED
  BY <1>1, <1>2

\* Its cancel function is stored before its goroutine starts.
LEMMA LaunchStep ==
  ASSUME TaskInv, NEW t \in Tasks, Launch(t)
  PROVE  TaskInv'
<1> USE DEF TaskInv, Launch, Goto
<1>1. Typed'
  BY DEF Typed, taskVars, logVars
<1>2. ASSUME NEW s \in Tasks PROVE Placed(s)' /\ OwedOnce(s)' /\ Cancellable(s)'
  <2>1. CASE s # t
    BY <2>1 DEF Typed, Placed, OwedOnce, Cancellable, taskVars, logVars, turnVars
  <2>2. CASE s = t
    <3>1. Placed(t)'
      BY DEF Typed, Placed, taskVars, logVars
    <3>2. OwedOnce(t)'
      BY DEF Typed, Placed, OwedOnce, taskVars, logVars
    <3>3. Cancellable(t)'
      BY DEF Typed, Placed, Cancellable, taskVars, turnVars
    <3> QED
      BY <2>2, <3>1, <3>2, <3>3
  <2> QED
    BY <2>1, <2>2
<1> QED
  BY <1>1, <1>2

\* The first attempt begins only under a record that is running.
LEMMA RunningStep ==
  ASSUME TaskInv, NEW t \in Tasks, Running(t)
  PROVE  TaskInv'
<1> USE DEF TaskInv, Running, Transition, Goto
<1>1. Typed'
  BY DEF Typed, taskVars, logVars
<1>2. ASSUME NEW s \in Tasks PROVE Placed(s)' /\ OwedOnce(s)' /\ Cancellable(s)'
  <2>1. CASE s # t
    BY <2>1 DEF Typed, Placed, OwedOnce, Cancellable, taskVars, logVars, turnVars
  <2>2. CASE s = t
    <3>1. Placed(t)'
      BY DEF Typed, Placed, taskVars, logVars
    <3>2. OwedOnce(t)'
      BY DEF Typed, Placed, OwedOnce, taskVars, logVars
    <3>3. Cancellable(t)'
      BY DEF Typed, Placed, Cancellable, taskVars, turnVars
    <3> QED
      BY <2>2, <3>1, <3>2, <3>3
  <2> QED
    BY <2>1, <2>2
<1> QED
  BY <1>1, <1>2

\* A record that may not change is terminal: without a rebuild none is missing.
LEMMA RefusedStep ==
  ASSUME TaskInv, NEW t \in Tasks, Refused(t)
  PROVE  TaskInv'
<1> USE DEF TaskInv, Refused, Goto
<1>1. Typed'
  BY DEF Typed, taskVars, logVars
<1>2. ASSUME NEW s \in Tasks PROVE Placed(s)' /\ OwedOnce(s)' /\ Cancellable(s)'
  <2>1. CASE s # t
    BY <2>1 DEF Typed, Placed, OwedOnce, Cancellable, taskVars, logVars, turnVars
  <2>2. CASE s = t
    <3>1. Placed(t)'
      BY DEF Typed, Placed, taskVars, logVars
    <3>2. OwedOnce(t)'
      BY DEF Typed, Placed, OwedOnce, taskVars, logVars
    <3>3. Cancellable(t)'
      BY DEF Typed, Placed, Cancellable, taskVars, turnVars
    <3> QED
      BY <2>2, <3>1, <3>2, <3>3
  <2> QED
    BY <2>1, <2>2
<1> QED
  BY <1>1, <1>2

\* An attempt comes back with something to record.
LEMMA ReturnStep ==
  ASSUME TaskInv, NEW t \in Tasks, Return(t)
  PROVE  TaskInv'
<1> USE DEF TaskInv, Return, Goto, Outcomes, Normalized
<1>1. Typed'
  BY DEF Typed, taskVars, logVars
<1>2. ASSUME NEW s \in Tasks PROVE Placed(s)' /\ OwedOnce(s)' /\ Cancellable(s)'
  <2>1. CASE s # t
    BY <2>1 DEF Typed, Placed, OwedOnce, Cancellable, taskVars, logVars, turnVars
  <2>2. CASE s = t
    <3>1. Placed(t)'
      BY DEF Typed, Placed, taskVars, logVars
    <3>2. OwedOnce(t)'
      BY DEF Typed, Placed, OwedOnce, taskVars, logVars
    <3>3. Cancellable(t)'
      BY DEF Typed, Placed, Cancellable, taskVars, turnVars
    <3> QED
      BY <2>2, <3>1, <3>2, <3>3
  <2> QED
    BY <2>1, <2>2
<1> QED
  BY <1>1, <1>2

\* A retry keeps the cancel function.
LEMMA RetryStep ==
  ASSUME TaskInv, NEW t \in Tasks, Retry(t)
  PROVE  TaskInv'
<1> USE DEF TaskInv, Retry, Transition, Goto
<1>1. Typed'
  <2>1. CASE store[t] = "running"
    BY <2>1 DEF Typed, taskVars, logVars
  <2>2. CASE store[t] # "running"
    BY <2>2 DEF Typed, taskVars, logVars
  <2> QED
    BY <2>1, <2>2
<1>2. ASSUME NEW s \in Tasks PROVE Placed(s)' /\ OwedOnce(s)' /\ Cancellable(s)'
  <2>1. CASE s # t
    BY <2>1 DEF Typed, Placed, OwedOnce, Cancellable, taskVars, logVars, turnVars
  <2>2. CASE s = t
    <3>1. Placed(t)'
      BY DEF Typed, Placed, taskVars, logVars
    <3>2. OwedOnce(t)'
      BY DEF Typed, Placed, OwedOnce, taskVars, logVars
    <3>3. Cancellable(t)'
      BY DEF Typed, Placed, Cancellable, taskVars, turnVars
    <3> QED
      BY <2>2, <3>1, <3>2, <3>3
  <2> QED
    BY <2>1, <2>2
<1> QED
  BY <1>1, <1>2

\* A context that ends in the backoff is recorded as cancelled.
LEMMA GiveUpStep ==
  ASSUME TaskInv, NEW t \in Tasks, GiveUp(t)
  PROVE  TaskInv'
<1> USE DEF TaskInv, GiveUp, Goto
<1>1. Typed'
  BY DEF Typed, taskVars, logVars
<1>2. ASSUME NEW s \in Tasks PROVE Placed(s)' /\ OwedOnce(s)' /\ Cancellable(s)'
  <2>1. CASE s # t
    BY <2>1 DEF Typed, Placed, OwedOnce, Cancellable, taskVars, logVars, turnVars
  <2>2. CASE s = t
    <3>1. Placed(t)'
      BY DEF Typed, Placed, taskVars, logVars
    <3>2. OwedOnce(t)'
      BY DEF Typed, Placed, OwedOnce, taskVars, logVars
    <3>3. Cancellable(t)'
      BY DEF Typed, Placed, Cancellable, taskVars, turnVars
    <3> QED
      BY <2>2, <3>1, <3>2, <3>3
  <2> QED
    BY <2>1, <2>2
<1> QED
  BY <1>1, <1>2

\* What is recorded is what the callback will be given.
LEMMA FinishStep ==
  ASSUME TaskInv, NEW t \in Tasks, Finish(t)
  PROVE  TaskInv'
<1> USE DEF TaskInv, Finish, Transition, Goto, Recorded
<1>1. Typed'
  <2>1. Recorded(t) \in Terminal
    BY DEF Typed, Placed
  <2> HIDE DEF Recorded
  <2> QED
    BY <2>1 DEF Typed, taskVars, logVars
<1>2. ASSUME NEW s \in Tasks PROVE Placed(s)' /\ OwedOnce(s)' /\ Cancellable(s)'
  <2>1. CASE s # t
    BY <2>1 DEF Typed, Placed, OwedOnce, Cancellable, taskVars, logVars, turnVars
  <2>2. CASE s = t
    <3>1. Placed(t)'
      BY DEF Typed, Placed, taskVars, logVars
    <3>2. OwedOnce(t)'
      BY DEF Typed, Placed, OwedOnce, taskVars, logVars
    <3>3. Cancellable(t)'
      BY DEF Typed, Placed, Cancellable, taskVars, turnVars
    <3> QED
      BY <2>2, <3>1, <3>2, <3>3
  <2> QED
    BY <2>1, <2>2
<1> QED
  BY <1>1, <1>2

\* The callback is given the recorded status.
LEMMA SettleStep ==
  ASSUME TaskInv, NEW t \in Tasks, Settle(t)
  PROVE  TaskInv'
<1> USE DEF TaskInv, Settle, CallBack, Goto
<1>1. Typed'
  <2>1. outcome[t] \in Terminal
    BY DEF Typed, Placed
  <2> QED
    BY <2>1 DEF Typed, taskVars, logVars
<1>2. ASSUME NEW s \in Tasks PROVE Placed(s)' /\ OwedOnce(s)' /\ Cancellable(s)'
  <2>1. CASE s # t
    BY <2>1 DEF Typed, Placed, OwedOnce, Cancellable, taskVars, logVars, turnVars
  <2>2. CASE s = t
    <3>1. Placed(t)'
      BY DEF Typed, Placed, taskVars, logVars
    <3>2. OwedOnce(t)'
      BY DEF Typed, Placed, OwedOnce, taskVars, logVars
    <3>3. Cancellable(t)'
      BY DEF Typed, Placed, Cancellable, taskVars, turnVars
    <3> QED
      BY <2>2, <3>1, <3>2, <3>3
  <2> QED
    BY <2>1, <2>2
<1> QED
  BY <1>1, <1>2

\* So it is when somebody else has recorded it.
LEMMA ReadBackStep ==
  ASSUME TaskInv, NEW t \in Tasks, ReadBack(t)
  PROVE  TaskInv'
<1> USE DEF TaskInv, ReadBack, CallBack, Goto
<1>1. Typed'
  <2>1. store[t] \in Terminal
    BY DEF Typed, Placed
  <2> QED
    BY <2>1 DEF Typed, taskVars, logVars
<1>2. ASSUME NEW s \in Tasks PROVE Placed(s)' /\ OwedOnce(s)' /\ Cancellable(s)'
  <2>1. CASE s # t
    BY <2>1 DEF Typed, Placed, OwedOnce, Cancellable, taskVars, logVars, turnVars
  <2>2. CASE s = t
    <3>1. Placed(t)'
      BY DEF Typed, Placed, taskVars, logVars
    <3>2. OwedOnce(t)'
      BY DEF Typed, Placed, OwedOnce, taskVars, logVars
    <3>3. Cancellable(t)'
      BY DEF Typed, Placed, Cancellable, taskVars, turnVars
    <3> QED
      BY <2>2, <3>1, <3>2, <3>3
  <2> QED
    BY <2>1, <2>2
<1> QED
  BY <1>1, <1>2

\* Activity moves no record that has ended.
LEMMA TouchStep ==
  ASSUME TaskInv, NEW t \in Tasks, Touch(t)
  PROVE  TaskInv'
<1> USE DEF TaskInv, Touch, Transition
<1>1. Typed'
  BY DEF Typed, taskVars, logVars
<1>2. ASSUME NEW s \in Tasks PROVE Placed(s)' /\ OwedOnce(s)' /\ Cancellable(s)'
  <2>1. CASE s # t
    BY <2>1 DEF Typed, Placed, OwedOnce, Cancellable, taskVars, logVars, turnVars
  <2>2. CASE s = t
    <3>1. Placed(t)'
      BY DEF Typed, Placed, taskVars, logVars
    <3>2. OwedOnce(t)'
      BY DEF Typed, Placed, OwedOnce, taskVars, logVars
    <3>3. Cancellable(t)'
      BY DEF Typed, Placed, Cancellable, taskVars, turnVars
    <3> QED
      BY <2>2, <3>1, <3>2, <3>3
  <2> QED
    BY <2>1, <2>2
<1> QED
  BY <1>1, <1>2

\* Cancel ends a record that is running.
LEMMA CancelStep ==
  ASSUME TaskInv, NEW t \in Tasks, Cancel(t)
  PROVE  TaskInv'
<1> USE DEF TaskInv, Cancel, Transition
<1>1. Typed'
  BY DEF Typed, taskVars, logVars
<1>2. ASSUME NEW s \in Tasks PROVE Placed(s)' /\ OwedOnce(s)' /\ Cancellable(s)'
  <2>1. CASE s # t
    BY <2>1 DEF Typed, Placed, OwedOnce, Cancellable, taskVars, logVars, turnVars
  <2>2. CASE s = t
    <3>1. Placed(t)'
      BY DEF Typed, Placed, taskVars, logVars
    <3>2. OwedOnce(t)'
      BY DEF Typed, Placed, OwedOnce, taskVars, logVars
    <3>3. Cancellable(t)'
      BY DEF Typed, Placed, Cancellable, taskVars, turnVars
    <3> QED
      BY <2>2, <3>1, <3>2, <3>3
  <2> QED
    BY <2>1, <2>2
<1> QED
  BY <1>1, <1>2

\* Cancel returns with the attempt told, if there is one.
LEMMA SignalStep ==
  ASSUME TaskInv, NEW t \in Tasks, Signal(t)
  PROVE  TaskInv'
<1> USE DEF TaskInv, Signal
<1>1. Typed'
  BY DEF Typed, taskVars, logVars
<1>2. ASSUME NEW s \in Tasks PROVE Placed(s)' /\ OwedOnce(s)' /\ Cancellable(s)'
  <2>1. CASE s # t
    BY <2>1 DEF Typed, Placed, OwedOnce, Cancellable, taskVars, logVars, turnVars
  <2>2. CASE s = t
    <3>1. Placed(t)'
      BY DEF Typed, Placed, taskVars, logVars
    <3>2. OwedOnce(t)'
      BY DEF Typed, Placed, OwedOnce, taskVars, logVars
    <3>3. Cancellable(t)'
      BY DEF Typed, Placed, Cancellable, taskVars, turnVars
    <3> QED
      BY <2>2, <3>1, <3>2, <3>3
  <2> QED
    BY <2>1, <2>2
<1> QED
  BY <1>1, <1>2

\* A caller who goes ends the context.
LEMMA CallerGoneStep ==
  ASSUME TaskInv, NEW t \in Tasks, CallerGone(t)
  PROVE  TaskInv'
<1> USE DEF TaskInv, CallerGone
<1>1. Typed'
  BY DEF Typed, taskVars, logVars
<1>2. ASSUME NEW s \in Tasks PROVE Placed(s)' /\ OwedOnce(s)' /\ Cancellable(s)'
  <2>1. CASE s # t
    BY <2>1 DEF Typed, Placed, OwedOnce, Cancellable, taskVars, logVars, turnVars
  <2>2. CASE s = t
    <3>1. Placed(t)'
      BY DEF Typed, Placed, taskVars, logVars
    <3>2. OwedOnce(t)'
      BY DEF Typed, Placed, OwedOnce, taskVars, logVars
    <3>3. Cancellable(t)'
      BY DEF Typed, Placed, Cancellable, taskVars, turnVars
    <3> QED
      BY <2>2, <3>1, <3>2, <3>3
  <2> QED
    BY <2>1, <2>2
<1> QED
  BY <1>1, <1>2

\* The turn touches no task; its context does not come back.
LEMMA TurnStep ==
  ASSUME TaskInv, Turn
  PROVE  TaskInv'
<1> USE DEF TaskInv, Turn, TurnEnds, TurnSignals, TurnAbandoned, WatchContext, taskVars, logVars
<1>1. Typed'
  BY DEF Typed
<1>2. ASSUME NEW s \in Tasks PROVE Placed(s)' /\ OwedOnce(s)' /\ Cancellable(s)'
  BY DEF Placed, OwedOnce, Cancellable
<1> QED
  BY <1>1, <1>2

\* Whatever happens to tasks that nobody forgets keeps the invariant.
LEMMA TaskStep ==
  ASSUME TaskInv, [Serve]_vars
  PROVE  TaskInv'
<1>1. CASE UNCHANGED vars
  <2> USE <1>1 DEF TaskInv, vars, taskVars, logVars, turnVars
  <2>1. Typed'
    BY DEF Typed
  <2>2. ASSUME NEW s \in Tasks PROVE Placed(s)' /\ OwedOnce(s)' /\ Cancellable(s)'
    BY DEF Placed, OwedOnce, Cancellable
  <2> QED
    BY <2>1, <2>2
<1>2. CASE Turn
  BY <1>2, TurnStep
<1>3. ASSUME NEW t \in Tasks, \/ Create(t) \/ Goroutine(t) \/ Touch(t) \/ Cancel(t) \/ Signal(t)
                               \/ CallerGone(t) \/ \E a \in Actors : Emit(t, a)
      PROVE TaskInv'
  <2>1. CASE Goroutine(t)
    BY <2>1, LaunchStep, RunningStep, RefusedStep, ReturnStep, RetryStep, GiveUpStep, FinishStep,
       SettleStep, ReadBackStep DEF Goroutine
  <2>2. CASE Create(t) \/ Touch(t) \/ Cancel(t) \/ Signal(t) \/ CallerGone(t)
    BY <2>2, CreateStep, TouchStep, CancelStep, SignalStep, CallerGoneStep
  <2>3. ASSUME NEW a \in Actors, Emit(t, a) PROVE TaskInv'
    BY <2>3, EmitStep
  <2> QED
    BY <1>3, <2>1, <2>2, <2>3
<1> QED
  BY <1>1, <1>2, <1>3 DEF Serve

LEMMA TaskInvariant == UnrebuiltSpec => []TaskInv
<1>1. Init => TaskInv
  BY TaskInit
<1>2. TaskInv /\ [Serve]_vars => TaskInv'
  BY TaskStep
<1> QED
  BY <1>1, <1>2, PTL DEF UnrebuiltSpec

--------------------------------------------------------------------------------
(* The invariants of the runs.                                             *)

\* The callback is given the status of the record, which is final: no race of Cancel,
\* retry and result tells the parent another end (ToldTheRecord).
THEOREM ParentIsTold == UnrebuiltSpec => []ToldTheRecord
<1>1. TaskInv => ToldTheRecord
  BY DEF TaskInv, Placed, ToldTheRecord
<1> QED
  BY <1>1, TaskInvariant, PTL

\* However a goroutine ends, its callback has been called (CallbackInvoked).
THEOREM CallbackComes == UnrebuiltSpec => []CallbackInvoked
<1>1. TaskInv => CallbackInvoked
  BY DEF TaskInv, Placed, CallbackInvoked
<1> QED
  BY <1>1, TaskInvariant, PTL

\* A record that says running has a goroutine to settle it (RunningIsOwned).
THEOREM RunningHasGoroutine == UnrebuiltSpec => []RunningIsOwned
<1>1. TaskInv => RunningIsOwned
  BY DEF TaskInv, Placed, RunningIsOwned
<1> QED
  BY <1>1, TaskInvariant, PTL

\* One terminal event per task, logged when nobody works on it any more (EndedOnce).
THEOREM OneTerminalEvent == UnrebuiltSpec => []EndedOnce
<1>1. TaskInv => EndedOnce
  <2> SUFFICES ASSUME TaskInv, NEW t \in Tasks
               PROVE  endings[t] <= 1 /\ (AtRest(t) => endings[t] = 1)
    BY DEF EndedOnce
  <2>1. Placed(t) /\ OwedOnce(t)
    BY DEF TaskInv
  <2>2. endings[t] <= 1
    BY <2>1 DEF OwedOnce
  <2>3. AtRest(t) => endings[t] = 1
    BY <2>1 DEF AtRest, Emitted, Placed, OwedOnce
  <2> QED
    BY <2>2, <2>3
<1> QED
  BY <1>1, TaskInvariant, PTL

\* Once Cancel has returned, the attempt's context is done (CancelReaches).
THEOREM AttemptIsCancelled == UnrebuiltSpec => []CancelReaches
<1>1. TaskInv => CancelReaches
  BY DEF TaskInv, Cancellable, CancelReaches, ContextDone
<1> QED
  BY <1>1, TaskInvariant, PTL

--------------------------------------------------------------------------------
(* A store that is rebuilt under its tasks.                                *)

Words == Statuses \cup {"absent", "none", "blank"}

\* Nothing is known of a task before it is created.
Known(t) ==
  pc[t] = "new" => /\ store[t] = "absent" /\ logged[t] = <<>> /\ snapshot[t] = <<>>
                   /\ \A a \in Actors : owed[t][a] = "none"

\* A replay that is through with a task has left it as its log ended, if that is its end.
ReplayedAs(t) ==
  /\ applied[t] <= Len(snapshot[t])
  /\ rebuilding = "collected" => applied[t] = 0
  /\ \A status \in Terminal :
       /\ rebuilding = "no" \/ (rebuilding = "applying" /\ Replayed(t))
       /\ EndsWith(snapshot[t], status)
       => store[t] = status

RecordInv ==
  /\ store \in [Tasks -> Words] /\ pc \in [Tasks -> Places] /\ outcome \in [Tasks -> Words]
  /\ owed \in [Tasks -> [Actors -> Words]]
  /\ logged \in [Tasks -> Seq(Words)] /\ snapshot \in [Tasks -> Seq(Words)]
  /\ applied \in [Tasks -> Nat]
  /\ \A t \in Tasks : Known(t) /\ ReplayedAs(t)

LEMMA RecordInit == Init => RecordInv
BY DEF Init, RecordInv, Known, ReplayedAs, EndsWith, Words

\* A transition of a record that is running leaves settled ones alone.
LEMMA RunningMoves ==
  ASSUME RecordInv, NEW t \in Tasks, NEW a \in Actors, NEW status \in Words,
         store[t] = "running", Transition(t, a, status),
         pc' \in [Tasks -> Places], \A s \in Tasks : pc'[s] = "new" => pc[s] = "new",
         outcome' \in [Tasks -> Words], UNCHANGED <<logged, snapshot, applied, rebuilding>>
  PROVE  RecordInv' /\ SettledKept
<1> USE DEF RecordInv, Transition
<1>1. store' \in [Tasks -> Words] /\ owed' \in [Tasks -> [Actors -> Words]]
  BY DEF Words
<1>2. ASSUME NEW s \in Tasks PROVE Known(s)' /\ ReplayedAs(s)'
  <2>1. CASE s # t
    BY <2>1 DEF Known, ReplayedAs, Replayed
  <2>2. CASE s = t
    BY <2>2 DEF Known, ReplayedAs, Replayed
  <2> QED
    BY <2>1, <2>2
<1>3. SettledKept
  BY DEF SettledKept
<1> QED
  BY <1>1, <1>2, <1>3

\* A step that leaves records, log and replay alone.
LEMMA RecordKept ==
  ASSUME RecordInv, UNCHANGED <<store, owed, logged, snapshot, applied, rebuilding>>,
         pc' \in [Tasks -> Places], \A s \in Tasks : pc'[s] = "new" => pc[s] = "new",
         outcome' \in [Tasks -> Words]
  PROVE  RecordInv' /\ SettledKept
BY DEF RecordInv, Known, ReplayedAs, Replayed, SettledKept

\* A task acts on a record that is running, or on none.
LEMMA RecordTaskStep ==
  ASSUME RecordInv, NEW t \in Tasks,
         \/ Create(t) \/ Goroutine(t) \/ Touch(t) \/ Cancel(t) \/ Signal(t) \/ CallerGone(t)
  PROVE  RecordInv' /\ SettledKept
<1> USE DEF Words, Goto, taskVars, logVars, rebuildVars
<1>1. CASE Create(t)
  BY <1>1 DEF RecordInv, Known, ReplayedAs, Replayed, EndsWith, SettledKept, Create, Transition
<1>2. CASE Launch(t) \/ Refused(t) \/ GiveUp(t) \/ Signal(t) \/ CallerGone(t)
  BY <1>2, RecordKept DEF RecordInv, Launch, Refused, GiveUp, Signal, CallerGone
<1>3. CASE Running(t)
  BY <1>3, RunningMoves DEF RecordInv, Running
<1>4. CASE Return(t)
  BY <1>4 DEF RecordInv, Known, ReplayedAs, Replayed, SettledKept, Return, Outcomes, Normalized
<1>5. CASE Retry(t)
  <2>1. CASE store[t] = "running"
    BY <1>5, <2>1, RunningMoves DEF RecordInv, Retry
  <2>2. CASE store[t] # "running"
    BY <1>5, <2>2 DEF RecordInv, Known, ReplayedAs, Replayed, SettledKept, Retry
  <2> QED
    BY <2>1, <2>2
<1>6. CASE Finish(t)
  <2>1. Recorded(t) \in Words
    BY DEF RecordInv, Recorded
  <2> QED
    BY <1>6, <2>1, RunningMoves DEF RecordInv, Finish
<1>7. CASE Settle(t) \/ ReadBack(t)
  BY <1>7, RecordKept DEF RecordInv, Settle, ReadBack, CallBack
<1>8. CASE Touch(t) \/ Cancel(t)
  BY <1>8, RunningMoves DEF RecordInv, Touch, Cancel
<1> QED
  BY <1>1, <1>2, <1>3, <1>4, <1>5, <1>6, <1>7, <1>8 DEF Goroutine

LEMMA RecordEmitStep ==
  ASSUME RecordInv, NEW t \in Tasks, NEW a \in Actors, Emit(t, a)
  PROVE  RecordInv' /\ SettledKept
<1> USE DEF RecordInv, Emit, Emitted, taskVars, rebuildVars
<1>1. Extended(t, owed[t][a]) \in Seq(Words)
  BY DEF Extended
<1>2. logged' \in [Tasks -> Seq(Words)] /\ owed' \in [Tasks -> [Actors -> Words]]
  BY <1>1 DEF Words
<1>3. ASSUME NEW s \in Tasks PROVE Known(s)' /\ ReplayedAs(s)'
  BY DEF Known, ReplayedAs, Replayed
<1> QED
  BY <1>2, <1>3 DEF SettledKept

\* The last event a rebuild applies decides, whatever became of the record before it.
LEMMA RecordAppliesStep ==
  ASSUME RecordInv, NEW t \in Tasks, RebuildApplies(t)
  PROVE  RecordInv' /\ SettledKept
<1> USE DEF RecordInv, RebuildApplies, taskVars, logVars
<1>1. /\ applied[t] + 1 \in 1..Len(snapshot[t])
      /\ snapshot[t][applied[t] + 1] \in Words
  BY DEF ReplayedAs, Replayed
<1>2. store' \in [Tasks -> Words] /\ applied' \in [Tasks -> Nat]
  BY <1>1
<1>3. ASSUME NEW s \in Tasks PROVE Known(s)' /\ ReplayedAs(s)'
  <2>1. CASE s # t
    BY <2>1 DEF Known, ReplayedAs, Replayed
  <2>2. CASE s = t
    <3>1. pc[t] # "new"
      BY <1>1 DEF Known
    <3>2. store'[t] = snapshot[t][applied'[t]] /\ applied'[t] = applied[t] + 1
      OBVIOUS
    <3> QED
      BY <2>2, <1>1, <3>1, <3>2 DEF Known, ReplayedAs, Replayed, EndsWith
  <2> QED
    BY <2>1, <2>2
<1> QED
  BY <1>2, <1>3 DEF SettledKept

\* A rebuild removes all records, and the events it then applies bring them back.
LEMMA RecordRebuildStep ==
  ASSUME RecordInv, Rebuild
  PROVE  RecordInv' /\ SettledKept
<1> USE DEF RecordInv, Known, ReplayedAs, Replayed, EndsWith, SettledKept, taskVars, logVars
<1>1. CASE RebuildCollects
  BY <1>1 DEF RebuildCollects
<1>2. CASE RebuildResets
  BY <1>2 DEF RebuildResets, Words
<1>3. CASE RebuildEnds
  BY <1>3 DEF RebuildEnds
<1> QED
  BY <1>1, <1>2, <1>3, RecordAppliesStep DEF Rebuild

LEMMA RecordStep ==
  ASSUME RecordInv, [Next]_vars
  PROVE  RecordInv' /\ SettledKept
<1>1. CASE UNCHANGED vars
  BY <1>1 DEF RecordInv, Known, ReplayedAs, Replayed, SettledKept, vars, taskVars, logVars, rebuildVars
<1>2. CASE Turn
  BY <1>2 DEF RecordInv, Known, ReplayedAs, Replayed, SettledKept, Turn, TurnEnds, TurnSignals, TurnAbandoned,
              WatchContext, taskVars, logVars, rebuildVars
<1>3. ASSUME NEW t \in Tasks, \/ Create(t) \/ Goroutine(t) \/ Touch(t) \/ Cancel(t) \/ Signal(t)
                               \/ CallerGone(t) \/ \E a \in Actors : Emit(t, a)
      PROVE RecordInv' /\ SettledKept
  BY <1>3, RecordTaskStep, RecordEmitStep
<1> QED
  BY <1>1, <1>2, <1>3, RecordRebuildStep DEF Next, Serve

\* Between the events of a replay the store is anybody's, but nobody changes a settled
\* record, except the replay itself; and when it is through, a task whose log ended with
\* its end is settled that way (SettledStays).
THEOREM SettledIsKept == Spec => SettledStays
<1>1. Init => RecordInv
  BY RecordInit
<1>2. RecordInv /\ [Next]_vars => RecordInv' /\ [SettledKept]_vars
  BY RecordStep
<1>3. RecordInv => RebuiltAsLogged
  BY DEF RecordInv, ReplayedAs, RebuiltAsLogged
<1> QED
  BY <1>1, <1>2, <1>3, PTL DEF Spec, SettledStays
================================================================================
