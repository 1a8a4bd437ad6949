---------------------------------- MODULE Turn ----------------------------------
(***************************************************************************)
(* The turn of a managed run (src/internal/runtime/turn): the context its   *)
(* root run and the tasks of its child agents share, and the idle timer     *)
(* that any activity of theirs resets.  A timer that has expired runs its   *)
(* callback in a goroutine of its own, which may wait for the lock while a  *)
(* Touch resets the timer, and every change of state cancels the context    *)
(* after the lock is released.                                              *)
(*                                                                          *)
(* Time is what is left on the timer, and the quiet time since the last     *)
(* activity as a clock outside the program would count it.                  *)
(***************************************************************************)
EXTENDS Naturals

CONSTANTS Tasks,  \* child tasks the run may submit
          Idle    \* the idle timeout, in ticks

VARIABLES
  state,    \* Turn.state
  ended,    \* the turn's context is done
  left,     \* on the timer, or Off
  firing,   \* callbacks of the timer that have started and not got the lock
  watching, \* watchContext still waits
  stored,   \* the turn store holds a turn of this ID
  stop,     \* the run's own context has been cancelled
  root,     \* the root run
  task,     \* its tasks
  quiet,    \* time since the last activity, at most Idle
  idled     \* the quiet time has reached Idle once

timer == <<left, firing>>
time  == <<quiet, idled>>
work  == <<root, task>>
tvars == <<state, ended, left, firing, watching, stored, stop, root, task, quiet, idled>>

Off == Idle + 1

\* New, which the run's start calls: an active turn whose timer runs.
TInit ==
  /\ state = "active" /\ ended = FALSE /\ watching = TRUE
  /\ left = Idle /\ firing = FALSE
  /\ stored = TRUE /\ stop = FALSE
  /\ root = "working" /\ task = [t \in Tasks |-> "none"]
  /\ quiet = 0 /\ idled = FALSE

----------------------------------------------------------------------------
(* Time and the timer. *)

Tick ==
  /\ quiet < Idle \/ left \in 1..Idle
  /\ left' = IF left \in 1..Idle THEN left - 1 ELSE left
  /\ quiet' = IF quiet < Idle THEN quiet + 1 ELSE quiet
  /\ idled' = (idled \/ quiet' = Idle)
  /\ UNCHANGED <<state, ended, firing, watching, stored, stop, work>>

Fire ==
  /\ left = 0
  /\ left' = Off /\ firing' = TRUE
  /\ UNCHANGED <<state, ended, watching, stored, stop, work, time>>

\* handleTimeout.
HandleTimeout ==
  /\ firing /\ firing' = FALSE
  /\ state' = IF state = "active" THEN "timed_out" ELSE state
  /\ UNCHANGED <<left, ended, watching, stored, stop, work, time>>

\* Faulty variant: the activity is noted, the timer left as it is.
ResetNothing == left

\* Touch's use of the timer: stopped and started again, even one that has fired.
Reset == Idle

\* Touch: the lock, and nothing to do for a turn that is over.  The quiet time ends
\* whether or not the turn is told.
Touched ==
  /\ left' = IF state = "active" THEN Reset ELSE left
  /\ quiet' = 0

----------------------------------------------------------------------------
(* The run and its tasks. *)

\* The context a task works under ends with the turn's or with the run's.
Stopped == ended \/ stop

\* The engine's and the executors' activity hooks, which bound contexts chain.
RootActs ==
  /\ root = "working" /\ Touched
  /\ UNCHANGED <<state, ended, firing, watching, stored, stop, work, idled>>

TaskActs(t) ==
  /\ task[t] = "working" /\ Touched
  /\ UNCHANGED <<state, ended, firing, watching, stored, stop, work, idled>>

\* bindTurnContext and executeTask: the task joins the stored turn and touches it.  One
\* a child run submits after the root has ended finds none and stores another.
Submit(t) ==
  /\ task[t] = "none"
  /\ root = "working" \/ \E u \in Tasks : task[u] = "working"
  /\ task' = [task EXCEPT ![t] = "working"]
  /\ IF stored THEN Touched ELSE UNCHANGED <<left, quiet>>
  /\ stored' = TRUE
  /\ UNCHANGED <<state, ended, firing, watching, stop, root, idled>>

\* A model or a tool stops answering: it heeds its context only.
RootHangs ==
  /\ root = "working" /\ root' = "hung"
  /\ UNCHANGED <<state, ended, timer, watching, stored, stop, task, time>>

TaskHangs(t) ==
  /\ task[t] = "working" /\ task' = [task EXCEPT ![t] = "hung"]
  /\ UNCHANGED <<state, ended, timer, watching, stored, stop, root, time>>

\* A task ends of itself, or waitForRun and the tools see the context done.
TaskEnds(t) ==
  /\ task[t] = "working" \/ (task[t] = "hung" /\ Stopped)
  /\ task' = [task EXCEPT ![t] = "over"]
  /\ UNCHANGED <<state, ended, timer, watching, stored, stop, root, time>>

Idling == \A t \in Tasks : task[t] \in {"none", "over"}

\* The deferred part of a managed run: aborted or not, the turn is over and forgotten.
\* A run ends when its tasks have, or when its context is done.
RootEnds(aborted) ==
  /\ (root = "working" /\ Idling /\ ~aborted) \/ (root \in {"working", "hung"} /\ Stopped)
  /\ root' = "over"
  /\ state' = IF state # "active" THEN state ELSE IF aborted THEN "cancelled" ELSE "completed"
  /\ stored' = FALSE /\ stop' = TRUE
  /\ UNCHANGED <<ended, timer, watching, task, time>>

----------------------------------------------------------------------------
(* Cancellation. *)

\* ManagedRun.Cancel ends the run's context, not the turn's.
CancelRun ==
  /\ root # "over" /\ ~stop /\ stop' = TRUE
  /\ UNCHANGED <<state, ended, timer, watching, stored, work, time>>

\* CancelAllForSession.
CancelTurn ==
  /\ state = "active" /\ stored /\ state' = "cancelled"
  /\ UNCHANGED <<ended, timer, watching, stored, stop, work, time>>

\* Faulty variant: a callback that records the timeout and cancels nothing.
ContextEndsUntimed ==
  /\ ~ended /\ state \in {"completed", "cancelled"}
  /\ ended' = TRUE
  /\ UNCHANGED <<state, timer, watching, stored, stop, work, time>>

\* The cancel() after the lock, or the end of the context the turn was derived from.
ContextEnds ==
  /\ ~ended /\ (state # "active" \/ root # "over")
  /\ ended' = TRUE
  /\ UNCHANGED <<state, timer, watching, stored, stop, work, time>>

\* watchContext.
Watch ==
  /\ ended /\ watching /\ watching' = FALSE
  /\ left' = Off
  /\ state' = IF state = "active" THEN "cancelled" ELSE state
  /\ UNCHANGED <<ended, firing, stored, stop, work, time>>

----------------------------------------------------------------------------
Releases == Watch \/ (state # "active" /\ ContextEnds)
Ends == (\E b \in BOOLEAN : RootEnds(b)) \/ \E t \in Tasks : TaskEnds(t)
TNext ==
  \/ Tick \/ Fire \/ HandleTimeout \/ RootActs \/ RootHangs \/ CancelRun \/ CancelTurn
  \/ ContextEnds \/ Watch \/ Ends
  \/ \E t \in Tasks : TaskActs(t) \/ Submit(t) \/ TaskHangs(t)

\* Time passes, timers fire, goroutines run, and code that is told to stop does.
TFairness == /\ WF_tvars(Tick) /\ WF_tvars(Fire) /\ WF_tvars(HandleTimeout) /\ WF_tvars(Releases)
             /\ WF_tvars(Ends)

TSpec == TInit /\ [][TNext]_tvars /\ TFairness

----------------------------------------------------------------------------
\* Only a turn that once had no activity for the whole timeout times out: the activity of
\* a child keeps the work of its parent alive.
OnlyIdleTimesOut == state = "timed_out" => idled

\* Work that hangs altogether is cut: its root ends, and so do the tasks of its children.
Hanging == root = "hung" /\ \A t \in Tasks : task[t] # "working"
AllOver == root = "over" /\ Idling
HungWorkEnds == Hanging ~> AllOver
=============================================================================
