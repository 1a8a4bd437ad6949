------------------------------ MODULE TaskRuntime ------------------------------
(***************************************************************************)
(* task.Runtime and task.Store (src/internal/runtime/task): the tasks of   *)
(* one run, the goroutine that carries each of them through its attempts,  *)
(* Cancel, the activity hook, the turn whose context they share, and the   *)
(* rebuilding of the store from the event log.                             *)
(*                                                                         *)
(* A critical section of the store is one action.  The event a transition  *)
(* emits is stamped and appended by a later action of the same goroutine,  *)
(* as Store.emit runs after the lock is released.                          *)
(***************************************************************************)
EXTENDS Integers, Sequences, FiniteSets

CONSTANTS
  Tasks,      \* the tasks submitted under one run
  Attempts,   \* per task: taskMaxAttempts, 3 for an agent task and 1 for another
  Rebuilds,   \* bound: how often the control plane rebuilds the projections
  Repeats     \* bound: how many equal events in a row the log of a task keeps

ASSUME AttemptsAssumption == Attempts \in [Tasks -> Nat \ {0}]
ASSUME RebuildsAssumption == Rebuilds \in Nat
ASSUME RepeatsAssumption == Repeats \in Nat \ {0}

VARIABLES
  store,      \* per task: Record.Status, or absent
  cancels,    \* the tasks with an entry in Store.cancels
  cancelled,  \* per task: its own context was cancelled
  pc,         \* per task: where DoTask and executeTask are: "new", "created" (DoTask has
              \* inserted the record), "starting" (its goroutine starts), "executing",
              \* "backoff", "finishing" (the result is known), "settling" (it is recorded),
              \* "reading" (the record is read back since it could not be changed), "done"
  attempt,    \* per task: the attempt under way
  outcome,    \* per task: what the goroutine will record or has recorded
  canceller,  \* per task: where a Cancel call is
  owed,       \* per task and actor: the status an event about to be emitted tells
  logged,     \* per task: the statuses its logged events tell, in the order of their stamps
  endings,    \* per task: the terminal events emitted
  told,       \* per task: the status its callback was given
  turn,       \* Turn.state
  turnEnded,  \* the turn's context is done
  rebuilding, \* where Store.Rebuild is
  snapshot,   \* per task: logged, as Rebuild collected it
  applied,    \* per task: how many events of snapshot Rebuild has applied
  rebuilt     \* how often Rebuild was called

taskVars    == <<cancels, cancelled, pc, attempt, outcome, told>>
logVars     == <<logged, endings>>
turnVars    == <<turn, turnEnded>>
rebuildVars == <<rebuilding, snapshot, applied, rebuilt>>
vars == <<store, taskVars, canceller, owed, logVars, turnVars, rebuildVars>>

Terminal == {"completed", "failed", "cancelled"}

\* The goroutines that emit events of one task: the one that runs it (DoTask's
\* caller before it starts), a Cancel call, and a producer of activity.
Actors == {"goroutine", "canceller", "hook"}

--------------------------------------------------------------------------------
Init ==
  /\ store = [t \in Tasks |-> "absent"]
  /\ cancels = {}
  /\ cancelled = [t \in Tasks |-> FALSE]
  /\ pc = [t \in Tasks |-> "new"]
  /\ attempt = [t \in Tasks |-> 0]
  /\ outcome = [t \in Tasks |-> "none"]
  /\ canceller = [t \in Tasks |-> "idle"]
  /\ owed = [t \in Tasks |-> [a \in Actors |-> "none"]]
  /\ logged = [t \in Tasks |-> <<>>]
  /\ endings = [t \in Tasks |-> 0]
  /\ told = [t \in Tasks |-> "none"]
  /\ turn = "active" /\ turnEnded = FALSE
  /\ rebuilding = "no" /\ rebuilt = 0
  /\ snapshot = [t \in Tasks |-> <<>>] /\ applied = [t \in Tasks |-> 0]

\* The context the executor is given ends with the task's own or with the turn's.
ContextDone(t) == cancelled[t] \/ turnEnded

Goto(t, place) == pc' = [pc EXCEPT ![t] = place]

\* Actor a is through with the emit of its last transition.
Emitted(t, a) == owed[t][a] = "none"

\* Store.transition: the record moves to status, and a owes the event that tells.
Transition(t, a, status) ==
  /\ store' = [store EXCEPT ![t] = status]
  /\ owed' = [owed EXCEPT ![t][a] = status]

\* The log of t with one more event.  Of activity repeated without end Repeats events
\* are kept, and the log is kept while a rebuild may still read it.
Extended(t, status) ==
  LET log == logged[t] IN
  IF \/ rebuilt = Rebuilds
     \/ Len(log) >= Repeats /\ \A i \in 0..Repeats - 1 : log[Len(log) - i] = status
  THEN log ELSE Append(log, status)

\* Store.emit: the event is stamped now, and a replay sorts by that stamp.
Emit(t, a) ==
  /\ ~Emitted(t, a)
  /\ owed' = [owed EXCEPT ![t][a] = "none"]
  /\ logged' = [logged EXCEPT ![t] = Extended(t, owed[t][a])]
  /\ endings' = [endings EXCEPT ![t] = IF owed[t][a] \in Terminal THEN @ + 1 ELSE @]
  /\ UNCHANGED <<store, taskVars, canceller, turnVars, rebuildVars>>

--------------------------------------------------------------------------------
(* DoTask.                                                                 *)

Create(t) ==
  /\ pc[t] = "new"
  /\ Transition(t, "goroutine", "running")
  /\ Goto(t, "created")
  /\ UNCHANGED <<cancels, cancelled, attempt, outcome, told, canceller, logVars, turnVars,
                 rebuildVars>>

\* Faulty variant: the cancel function is not stored.
LaunchUncancellable(t) ==
  /\ pc[t] = "created" /\ Emitted(t, "goroutine")
  /\ Goto(t, "starting")
  /\ UNCHANGED <<store, cancels, cancelled, attempt, outcome, told, canceller, owed, logVars,
                 turnVars, rebuildVars>>

Launch(t) ==
  /\ pc[t] = "created" /\ Emitted(t, "goroutine")
  /\ cancels' = cancels \cup {t}
  /\ Goto(t, "starting")
  /\ UNCHANGED <<store, cancelled, attempt, outcome, told, canceller, owed, logVars,
                 turnVars, rebuildVars>>

--------------------------------------------------------------------------------
(* executeTask.                                                            *)

\* Store.Running, when the record may still change.
Running(t) ==
  /\ pc[t] = "starting"
  /\ store[t] = "running"
  /\ Transition(t, "goroutine", "running")
  /\ attempt' = [attempt EXCEPT ![t] = 1]
  /\ Goto(t, "executing")
  /\ UNCHANGED <<cancels, cancelled, outcome, told, canceller, logVars, turnVars, rebuildVars>>

\* Faulty variant: a record that may not change is left to whoever settled it.
RefusedSilently(t) ==
  /\ pc[t] \in {"starting", "finishing"}
  /\ store[t] # "running"
  /\ Goto(t, "done")
  /\ UNCHANGED <<store, cancels, cancelled, attempt, outcome, told, canceller, owed, logVars,
                 turnVars, rebuildVars>>

\* Faulty variant: a record that is missing is waited for.
RefusedBySettled(t) ==
  /\ pc[t] \in {"starting", "finishing"}
  /\ store[t] \in Terminal
  /\ Goto(t, "reading")
  /\ UNCHANGED <<store, cancels, cancelled, attempt, outcome, told, canceller, owed, logVars,
                 turnVars, rebuildVars>>

\* Store.Running or finishExecution found the record terminal, or not at all.
Refused(t) ==
  /\ pc[t] \in {"starting", "finishing"}
  /\ store[t] # "running"
  /\ Goto(t, "reading")
  /\ UNCHANGED <<store, cancels, cancelled, attempt, outcome, told, canceller, owed, logVars,
                 turnVars, rebuildVars>>

\* What an attempt comes back with; blank is a run whose events end without a
\* terminal one, transient an error taskErrorRetryable accepts.
Outcomes == {"completed", "failed", "transient", "cancelled", "blank"}

TimedOut == turn = "timed_out"

\* normalizeAttemptResult and finishExecution: whatever a timed-out turn's attempt
\* came back with is recorded as failed.
Normalized(o) == IF TimedOut \/ o = "transient" THEN "failed" ELSE o

ShouldRetry(t, o) ==
  /\ attempt[t] < Attempts[t]
  /\ o # "completed"
  /\ TimedOut \/ o = "transient"

\* executor.Execute returns, and the loop decides what comes next.
Return(t) ==
  /\ pc[t] = "executing" /\ Emitted(t, "goroutine")
  /\ \E o \in Outcomes :
       /\ outcome' = [outcome EXCEPT ![t] = Normalized(o)]
       /\ Goto(t, IF ShouldRetry(t, o) THEN "backoff" ELSE "finishing")
  /\ UNCHANGED <<store, cancels, cancelled, attempt, told, canceller, owed, logVars,
                 turnVars, rebuildVars>>

\* waitForTaskRetry: the timer fires.  Touch leaves a record that is not running
\* as it is, and the attempt is made all the same.
Retry(t) ==
  /\ pc[t] = "backoff"
  /\ attempt' = [attempt EXCEPT ![t] = @ + 1]
  /\ IF store[t] = "running" THEN Transition(t, "goroutine", "running")
                             ELSE UNCHANGED <<store, owed>>
  /\ Goto(t, "executing")
  /\ UNCHANGED <<cancels, cancelled, outcome, told, canceller, logVars, turnVars, rebuildVars>>

\* waitForTaskRetry: the context ends.
GiveUp(t) ==
  /\ pc[t] = "backoff"
  /\ ContextDone(t)
  /\ outcome' = [outcome EXCEPT ![t] = "cancelled"]
  /\ Goto(t, "finishing")
  /\ UNCHANGED <<store, cancels, cancelled, attempt, told, canceller, owed, logVars,
                 turnVars, rebuildVars>>

\* The status finishExecution records.
Recorded(t) ==
  IF outcome[t] # "blank" THEN outcome[t]
  ELSE IF ContextDone(t) THEN "cancelled" ELSE "completed"

\* Faulty variant: a record that was settled meanwhile is settled again.
FinishAgain(t) ==
  /\ pc[t] = "finishing"
  /\ store[t] # "absent"
  /\ Transition(t, "goroutine", Recorded(t))
  /\ outcome' = [outcome EXCEPT ![t] = Recorded(t)]
  /\ Goto(t, "settling")
  /\ UNCHANGED <<cancels, cancelled, attempt, told, canceller, logVars, turnVars, rebuildVars>>

Finish(t) ==
  /\ pc[t] = "finishing"
  /\ store[t] = "running"
  /\ Transition(t, "goroutine", Recorded(t))
  /\ outcome' = [outcome EXCEPT ![t] = Recorded(t)]
  /\ Goto(t, "settling")
  /\ UNCHANGED <<cancels, cancelled, attempt, told, canceller, logVars, turnVars, rebuildVars>>

\* The callback is given status; then clearCancel and cancel.
CallBack(t, status) ==
  /\ told' = [told EXCEPT ![t] = status]
  /\ cancels' = cancels \ {t}
  /\ cancelled' = [cancelled EXCEPT ![t] = TRUE]
  /\ Goto(t, "done")
  /\ UNCHANGED <<store, attempt, outcome, canceller, owed, logVars, turnVars, rebuildVars>>

Settle(t) == /\ pc[t] = "settling" /\ Emitted(t, "goroutine")
             /\ CallBack(t, outcome[t])

\* Store.Get after a refusal: without a record there is no callback.
ReadBack(t) == /\ pc[t] = "reading"
               /\ CallBack(t, IF store[t] = "absent" THEN "none" ELSE store[t])

--------------------------------------------------------------------------------
(* The activity hook, and Cancel.                                          *)

\* Faulty variant: activity after the end of a task revives its record.
TouchReviving(t) ==
  /\ attempt[t] > 0
  /\ Emitted(t, "hook")
  /\ store[t] # "absent"
  /\ Transition(t, "hook", "running")
  /\ UNCHANGED <<taskVars, canceller, logVars, turnVars, rebuildVars>>

\* Store.Touch from the hook of an attempt; the goroutines of an executor may
\* outlive its Execute.
Touch(t) ==
  /\ attempt[t] > 0
  /\ Emitted(t, "hook")
  /\ store[t] = "running"
  /\ Transition(t, "hook", "running")
  /\ UNCHANGED <<taskVars, canceller, logVars, turnVars, rebuildVars>>

\* Faulty variant: a task that has ended is cancelled.
CancelLate(t) ==
  /\ canceller[t] = "idle"
  /\ store[t] # "absent"
  /\ Transition(t, "canceller", "cancelled")
  /\ canceller' = [canceller EXCEPT ![t] = "signalling"]
  /\ UNCHANGED <<taskVars, logVars, turnVars, rebuildVars>>

Cancel(t) ==
  /\ canceller[t] = "idle"
  /\ store[t] = "running"
  /\ Transition(t, "canceller", "cancelled")
  /\ canceller' = [canceller EXCEPT ![t] = "signalling"]
  /\ UNCHANGED <<taskVars, logVars, turnVars, rebuildVars>>

\* cancelFor, after the event is out: there may be no function to call.
Signal(t) ==
  /\ canceller[t] = "signalling" /\ Emitted(t, "canceller")
  /\ cancelled' = [cancelled EXCEPT ![t] = @ \/ t \in cancels]
  /\ canceller' = [canceller EXCEPT ![t] = "idle"]
  /\ UNCHANGED <<store, cancels, pc, attempt, outcome, told, owed, logVars, turnVars,
                 rebuildVars>>

\* The context DoTask was called with ends.
CallerGone(t) ==
  /\ pc[t] \notin {"new", "done"}
  /\ ~cancelled[t]
  /\ cancelled' = [cancelled EXCEPT ![t] = TRUE]
  /\ UNCHANGED <<store, cancels, pc, attempt, outcome, told, canceller, owed, logVars,
                 turnVars, rebuildVars>>

--------------------------------------------------------------------------------
(* The turn.                                                               *)

\* handleTimeout, Complete and Cancel: the state is set under the lock, the
\* context cancelled after it.
TurnEnds ==
  /\ turn = "active"
  /\ turn' \in {"timed_out", "completed", "cancelled"}
  /\ UNCHANGED <<store, taskVars, canceller, owed, logVars, turnEnded, rebuildVars>>

TurnSignals ==
  /\ turn # "active" /\ ~turnEnded
  /\ turnEnded' = TRUE
  /\ UNCHANGED <<store, taskVars, canceller, owed, logVars, turn, rebuildVars>>

\* The parent context ends; watchContext sets the state when it gets to it.
TurnAbandoned ==
  /\ turn = "active" /\ ~turnEnded
  /\ turnEnded' = TRUE
  /\ UNCHANGED <<store, taskVars, canceller, owed, logVars, turn, rebuildVars>>

WatchContext ==
  /\ turn = "active" /\ turnEnded
  /\ turn' = "cancelled"
  /\ UNCHANGED <<store, taskVars, canceller, owed, logVars, turnEnded, rebuildVars>>

--------------------------------------------------------------------------------
(* Store.Rebuild, called by the control plane while tasks run.             *)

RebuildCollects ==
  /\ rebuilding = "no" /\ rebuilt < Rebuilds
  /\ rebuilding' = "collected"
  /\ rebuilt' = rebuilt + 1
  /\ snapshot' = logged
  /\ applied' = [t \in Tasks |-> 0]
  /\ UNCHANGED <<store, taskVars, canceller, owed, logVars, turnVars>>

\* Reset forgets the cancel functions with the records.
RebuildResets ==
  /\ rebuilding = "collected"
  /\ rebuilding' = "applying"
  /\ store' = [t \in Tasks |-> "absent"]
  /\ cancels' = {}
  /\ UNCHANGED <<cancelled, pc, attempt, outcome, told, canceller, owed, logVars, turnVars,
                 snapshot, applied, rebuilt>>

Replayed(t) == applied[t] = Len(snapshot[t])

\* Faulty variant: like every other change, the replay leaves a settled record alone.
RebuildAppliesGuarded(t) ==
  /\ rebuilding = "applying"
  /\ ~Replayed(t) /\ \A u \in Tasks \ {t} : applied[u] = 0 \/ Replayed(u)
  /\ applied' = [applied EXCEPT ![t] = @ + 1]
  /\ store' = [store EXCEPT ![t] = IF @ \in Terminal THEN @ ELSE snapshot[t][applied[t] + 1]]
  /\ UNCHANGED <<taskVars, canceller, owed, logVars, turnVars, rebuilding, snapshot, rebuilt>>

\* applyEvent, one critical section for each event: it makes the record if there is
\* none, and sets its status whatever it was.  The events of a task come one after the
\* other, the tasks in any order; between two events the store is anybody's.
RebuildApplies(t) ==
  /\ rebuilding = "applying"
  /\ ~Replayed(t) /\ \A u \in Tasks \ {t} : applied[u] = 0 \/ Replayed(u)
  /\ applied' = [applied EXCEPT ![t] = @ + 1]
  /\ store' = [store EXCEPT ![t] = snapshot[t][applied[t] + 1]]
  /\ UNCHANGED <<taskVars, canceller, owed, logVars, turnVars, rebuilding, snapshot, rebuilt>>

RebuildEnds ==
  /\ rebuilding = "applying"
  /\ \A t \in Tasks : Replayed(t)
  /\ rebuilding' = "no"
  /\ UNCHANGED <<store, taskVars, canceller, owed, logVars, turnVars, snapshot, applied, rebuilt>>

--------------------------------------------------------------------------------
Goroutine(t) == Launch(t) \/ Running(t) \/ Refused(t) \/ Return(t) \/ Retry(t) \/ GiveUp(t)
                  \/ Finish(t) \/ Settle(t) \/ ReadBack(t)
Turn    == TurnEnds \/ TurnSignals \/ TurnAbandoned \/ WatchContext
Rebuild == RebuildCollects \/ RebuildResets \/ RebuildEnds \/ \E t \in Tasks : RebuildApplies(t)

\* What happens while nobody asks for a rebuild.
Serve ==
  \/ \E t \in Tasks : \/ Create(t) \/ Goroutine(t) \/ Touch(t) \/ Cancel(t) \/ Signal(t)
                      \/ CallerGone(t) \/ \E a \in Actors : Emit(t, a)
  \/ Turn

Next == Serve \/ Rebuild

\* A goroutine that can move is scheduled, and every attempt returns: an executor
\* answers the end of its context, and the turn's idle timeout ends it.
Fairness ==
  \A t \in Tasks : WF_vars(Goroutine(t)) /\ WF_vars(Emit(t, "goroutine"))

Spec     == Init /\ [][Next]_vars
FairSpec == Spec /\ Fairness

\* The tasks of a store that nobody rebuilds under them: a rebuild forgets records.
UnrebuiltSpec == Init /\ [][Serve]_vars

--------------------------------------------------------------------------------
(* Properties.                                                             *)

\* The callback tells the parent how the task ended, and it ended no other way:
\* however Cancel, a retry and the result race, the status told is the record's.
ToldTheRecord ==
  \A t \in Tasks : told[t] # "none" => told[t] \in Terminal /\ told[t] = store[t]

\* One standard terminal event per task: never two, and it is in the log by the
\* time nobody works on the task any more.
AtRest(t) == pc[t] = "done" /\ \A a \in Actors : Emitted(t, a)
EndedOnce ==
  \A t \in Tasks : endings[t] <= 1 /\ (AtRest(t) => endings[t] = 1)

\* Once Cancel has returned, a task that is past Running has its context cancelled:
\* no window between CreateSpec, setCancel and go lets an attempt go on unaware.
\* runtime.go:199 says that Cancel cancels a running task.
CancelReaches ==
  \A t \in Tasks :
    store[t] = "cancelled" /\ canceller[t] = "idle" /\ pc[t] \in {"executing", "backoff"}
      => ContextDone(t)

\* A record says running only while a goroutine is left to settle it.
RunningIsOwned == \A t \in Tasks : store[t] = "running" => pc[t] \notin {"new", "done"}

\* Nobody but Rebuild changes a settled record: not a result, a Cancel or activity that
\* comes late, and not between two events of a replay.
SettledKept ==
  \A t \in Tasks :
    store[t] \in Terminal /\ store'[t] # store[t]
      => \/ rebuilding = "collected" /\ store'[t] = "absent"
         \/ applied'[t] = applied[t] + 1

\* A task whose log ended with its end is settled that way when the rebuild is through,
\* and stays so: what Cancel, activity and results did to the half of the log that was
\* replayed before is overwritten.
EndsWith(log, status) == log # <<>> /\ log[Len(log)] = status
RebuiltAsLogged ==
  rebuilding = "no" =>
    \A t \in Tasks, status \in Terminal : EndsWith(snapshot[t], status) => store[t] = status

SettledStays == [][SettledKept]_vars /\ []RebuiltAsLogged

\* types.go:40: the callback is invoked once when a submitted task settles.  Through
\* every refusal and early return of executeTask the parent hears of the end.
CallbackInvoked == \A t \in Tasks : pc[t] = "done" => told[t] # "none"

\* The goroutine of every submitted task ends, whatever attempts, backoff, Cancel
\* and a rebuilt store do to it; with CallbackInvoked, the parent continues.
EveryTaskEnds == \A t \in Tasks : pc[t] = "created" ~> pc[t] = "done"
================================================================================
