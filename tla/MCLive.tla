------------------------------ MODULE MCLive ------------------------------
(***************************************************************************)
(* The lane of a session and the goroutine of a task, whose work must come *)
(* to an end.  They share nothing here, so a behaviour is of one.          *)
(***************************************************************************)
EXTENDS Naturals

VARIABLE subject  \* the component this behaviour is of; the variables of the others are 0

VARIABLES config, active, pending, summaries, life, cancelled, cfg, batch, kept, carried,
          context, fate, closes, rec
VARIABLES store, cancels, taskCancelled, pc, attempt, outcome, canceller, owed, logged,
          endings, told, turn, turnEnded, rebuilding, snapshot, applied, rebuilt

Requests == {"r1", "r2", "r3"}
LaneConfigs == {[mode |-> "collect", drop |-> "summarize", max |-> 1],
                [mode |-> "followup", drop |-> "drop_newest", max |-> 2]}

Lane == INSTANCE SessionLane WITH Requests <- Requests, NoRequest <- "none", Configs <- LaneConfigs
Task == INSTANCE TaskRuntime WITH Tasks <- {"t1"}, Attempts <- [t \in {"t1"} |-> 3], Rebuilds <- 1, Repeats <- 1,
        cancelled <- taskCancelled

laneVars == <<config, active, pending, summaries, life, cancelled, cfg, batch, kept, carried,
    context, fate, closes, rec>>
taskVars == <<store, cancels, taskCancelled, pc, attempt, outcome, canceller, owed, logged, endings,
    told, turn, turnEnded, rebuilding, snapshot, applied, rebuilt>>

laneIdle == config = 0 /\ active = 0 /\ pending = 0 /\ summaries = 0 /\ life = 0 /\ cancelled = 0 /\ cfg = 0 /\
    batch = 0 /\ kept = 0 /\ carried = 0 /\ context = 0 /\ fate = 0 /\ closes = 0 /\ rec = 0
taskIdle == store = 0 /\ cancels = 0 /\ taskCancelled = 0 /\ pc = 0 /\ attempt = 0 /\ outcome = 0 /\
    canceller = 0 /\ owed = 0 /\ logged = 0 /\ endings = 0 /\ told = 0 /\ turn = 0 /\ turnEnded = 0 /\
    rebuilding = 0 /\ snapshot = 0 /\ applied = 0 /\ rebuilt = 0

Init ==
  \/ subject = "lane" /\ Lane!Init /\ taskIdle
  \/ subject = "task" /\ Task!Init /\ laneIdle

OfLane(A) == subject = "lane" /\ A /\ UNCHANGED <<subject, taskVars>>
OfTask(A) == subject = "task" /\ A /\ UNCHANGED <<subject, laneVars>>

Next == OfLane(Lane!Next) \/ OfTask(Task!Next)

vars == <<subject, laneVars, taskVars>>
Spec == Init /\ [][Next]_vars
\* The goroutines are fair, as their modules state it.
FairSpec ==
  /\ Spec
  /\ \A r \in Requests:
       WF_vars(OfLane(Lane!Complete(r))) /\ WF_vars(OfLane(Lane!Run(r))) /\ WF_vars(OfLane(Lane!Finisher(r)))
  /\ WF_vars(OfTask(Task!Goroutine("t1"))) /\ WF_vars(OfTask(Task!Emit("t1", "goroutine")))

-----------------------------------------------------------------------------
(* The properties of the components, stated in their modules.                *)

\* SessionLane: every accepted request has its event stream ended.
EveryRequestAnswered ==
  \A r \in Requests: (subject = "lane" /\ Lane!Accepted(r)) ~> (subject = "lane" /\ closes[r] = 1)
\* SessionLane: the lane comes to rest.
LaneDrains == <>[](subject = "lane" => Lane!AtRest)
\* TaskRuntime: the goroutine of a submitted task ends.
EveryTaskEnds == (subject = "task" /\ pc["t1"] = "created") ~> (subject = "task" /\ pc["t1"] = "done")
=============================================================================
