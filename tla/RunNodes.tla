------------------------------ MODULE RunNodes ------------------------------
(***************************************************************************)
(* One run and the agents it calls, as the recorder keeps them             *)
(* (internal/runtime/events/recorder.go).  A called agent's run has the    *)
(* run ID of its caller; what it publishes is told apart by its node, the  *)
(* agent with the task it works for.  The record of the run, the tree that *)
(* clients draw of the nodes, and the hook that cancels the run            *)
(* (internal/runtime/kernel.go) are all kept from the same events.         *)
(***************************************************************************)
EXTENDS Naturals

CONSTANTS
  Top,       \* the run the user or a worker of the daemon started
  Calls,     \* calls of agents there can be
  TopAgent,  \* its agent
  Agents,    \* what a call may name
  None

VARIABLES
  entry,    \* how the top was started: by a message, or as a task
  node,     \* the top and the calls
  record,   \* Recorder.runs of this run
  edges,    \* the nodes of the stored events, each with its parent
  active,   \* whether Runtime.active has the run
  tracker,  \* trackRun's goroutine: none, watching, due to forget the run, gone
  told      \* whether the contexts are cancelled

vars == <<entry, node, record, edges, active, tracker, told>>

Runs  == Calls \cup {Top}
Going == {"on", "begun", "started"}
Outcomes == {"completed", "failed", "aborted"}

NoNode == <<None, None>>
Record(status, agent, key) == [status |-> status, agent |-> agent, key |-> key, parent |-> NoNode]
NoRecord == Record("none", None, NoNode)

\* The run of a node goes none, on, begun (the top's alone), started, ended, finished (the
\* top's alone); rejected by the router, refused if it could not be started.
Init ==
  /\ entry \in {"message", "task"}
  /\ node = [r \in Runs |-> [run |-> "none", task |-> None, agent |-> IF r = Top THEN TopAgent ELSE None,
                             caller |-> Top, outcome |-> None, noted |-> FALSE]]
  /\ record = NoRecord /\ edges = {} /\ active = FALSE /\ tracker = "none" /\ told = FALSE

Set(r, new) == node' = [node EXCEPT ![r] = new]

-----------------------------------------------------------------------------
(* Events. *)

\* RunNodeID of a run, and of the run it works for.
Key(r) == <<node[r].agent, IF r = Top /\ entry = "message" THEN None ELSE r>>
Parent(r) == IF r = Top THEN NoNode ELSE Key(node[r].caller)

\* applyEventRunNodeDefaults: an event without a node is the run's own if its agent is the
\* run's, else it is of a node of that agent without a task, below the run's.
Placed(agent) ==
  IF record = NoRecord THEN <<<<agent, None>>, NoNode>>
  ELSE IF agent = record.agent THEN <<record.key, record.parent>>
  ELSE <<<<agent, None>>, record.key>>

\* Faulty variant: the status follows whatever node speaks.
LifecycleOfAny(old, name, key, agent) ==
  IF name \notin Outcomes \cup {"run.started"} THEN old
  ELSE [(IF old = NoRecord THEN Record("queued", agent, key) ELSE old) EXCEPT
          !.status = IF name = "run.started" THEN "running" ELSE name]

\* applyRunLifecycleEventLocked: the first lifecycle event makes a record if there is none;
\* those of other nodes than the run's leave its status alone.
Lifecycle(old, name, key, agent) ==
  LET run == IF old = NoRecord THEN Record("queued", agent, key) ELSE old IN
  CASE name \notin Outcomes \cup {"run.started"} -> old
    [] key # run.key -> run
    [] OTHER -> [run EXCEPT !.status = IF name = "run.started" THEN "running" ELSE name]

\* Faulty variant: the end of a task too ends the run.
TerminalOfTasks(name) == name \in Outcomes \cup {"task.ended"}

\* IsTerminalEvent goes by the name alone.
Terminal(name) == name \in Outcomes

\* The event is stored and sent; a full subscription does not take it.
Publish(name, placed, agent) ==
  /\ record' = Lifecycle(record, name, placed[1], agent)
  /\ edges' = edges \cup {placed}
  /\ IF tracker = "watching" /\ Terminal(name) THEN tracker' \in {"watching", "due"} ELSE UNCHANGED tracker

PublishBy(r, name) == Publish(name, <<Key(r), Parent(r)>>, node[r].agent)
-----------------------------------------------------------------------------
(* The top. *)

\* recordRouteDecision and recordInputLifecycle: the record is queued, the events name no node.
Accept ==
  /\ entry = "message" /\ record = NoRecord
  /\ record' = Record("queued", TopAgent, <<TopAgent, None>>)
  /\ edges' = edges \cup {<<<<TopAgent, None>>, NoNode>>}
  /\ UNCHANGED <<entry, node, active, tracker, told>>

\* recordRouteRejected.
Reject ==
  /\ entry = "message" /\ record = NoRecord
  /\ record' = Record("failed", TopAgent, <<TopAgent, None>>)
  /\ edges' = edges \cup {<<<<TopAgent, None>>, NoNode>>}
  /\ Set(Top, [node[Top] EXCEPT !.run = "rejected"])
  /\ UNCHANGED <<entry, active, tracker, told>>

\* A worker of the daemon opens a task for the agent: no record yet.
OpenTask ==
  /\ entry = "task" /\ node[Top].task = None
  /\ PublishBy(Top, "task.queued")
  /\ Set(Top, [node[Top] EXCEPT !.task = "open"])
  /\ UNCHANGED <<entry, active, told>>

\* The lane or the task's executor starts the run, whose agent is at work from here on.
Start(r) ==
  /\ node[r].run = "none"
  /\ IF r = Top /\ entry = "message" THEN record # NoRecord ELSE node[r].task = "open"
  /\ Set(r, [node[r] EXCEPT !.run = "on"])
  /\ UNCHANGED <<entry, record, edges, active, tracker, told>>

\* Of a request the sender alone is told.
StartFails ==
  /\ entry = "message" /\ record # NoRecord /\ node[Top].run = "none"
  /\ Set(Top, [node[Top] EXCEPT !.run = "refused"])
  /\ UNCHANGED <<entry, record, edges, active, tracker, told>>

\* BeginRun, by the run that is the top.
Begin ==
  /\ node[Top].run = "on"
  /\ record' = Record("running", TopAgent, Key(Top))
  /\ Set(Top, [node[Top] EXCEPT !.run = "begun"])
  /\ UNCHANGED <<entry, edges, active, tracker, told>>

\* FinishRun.
Finish ==
  /\ node[Top].run = "ended"
  /\ record' = [record EXCEPT !.status = node[Top].outcome]
  /\ Set(Top, [node[Top] EXCEPT !.run = "finished"])
  /\ UNCHANGED <<entry, edges, active, tracker, told>>
-----------------------------------------------------------------------------
(* Any run. *)

Started(r) ==
  /\ node[r].run = IF r = Top THEN "begun" ELSE "on"
  /\ PublishBy(r, "run.started")
  /\ Set(r, [node[r] EXCEPT !.run = "started"])
  /\ UNCHANGED <<entry, active, told>>

\* A todo or the plan changes: StateStore names no node.
Note(r) ==
  /\ node[r].run \in Going /\ ~node[r].noted
  /\ Publish("note", Placed(node[r].agent), node[r].agent)
  /\ Set(r, [node[r] EXCEPT !.noted = TRUE])
  /\ UNCHANGED <<entry, active, told>>

\* The agents of a run and of those above it, which it may not call.
Line[r \in Runs] == {node[r].agent} \cup (IF r = Top THEN {} ELSE Line[node[r].caller])

\* The task of a call is created with the run ID of the caller; which of the unused names it
\* gets is no matter.
Call(r, c, agent) ==
  /\ node[c].task = None /\ c = CHOOSE d \in Calls : node[d].task = None
  /\ node[r].run \in Going /\ ~told /\ agent \notin Line[r]
  /\ Publish("task.queued", <<<<agent, c>>, Key(r)>>, agent)
  /\ Set(c, [node[c] EXCEPT !.task = "open", !.agent = agent, !.caller = r])
  /\ UNCHANGED <<entry, active, told>>

\* The task ends: with its run, without one that could be started, or by leaving a run that
\* is told to stop.
Settle(c) ==
  /\ node[c].task = "open" /\ (node[c].run \in {"none", "ended"} \/ told)
  /\ PublishBy(c, "task.ended")
  /\ Set(c, [node[c] EXCEPT !.task = "settled", !.run = IF @ = "none" THEN "refused" ELSE @])
  /\ UNCHANGED <<entry, active, told>>

\* The last event of a run, when its calls have answered.
End(r) ==
  /\ node[r].run = "started"
  /\ \A c \in Calls : node[c].caller = r => node[c].task # "open"
  /\ \E outcome \in IF told THEN Outcomes ELSE Outcomes \ {"aborted"} :
       PublishBy(r, outcome) /\ Set(r, [node[r] EXCEPT !.run = "ended", !.outcome = outcome])
  /\ UNCHANGED <<entry, active, told>>
-----------------------------------------------------------------------------
(* Cancelling. *)

\* trackRun, for what came as a message.
Track ==
  /\ entry = "message" /\ record # NoRecord /\ tracker = "none" /\ node[Top].run # "rejected"
  /\ tracker' = "watching" /\ active' = TRUE
  /\ UNCHANGED <<entry, node, record, edges, told>>

Forget ==
  /\ tracker = "due" /\ tracker' = "gone" /\ active' = FALSE
  /\ UNCHANGED <<entry, node, record, edges, told>>

CancelRun ==
  /\ active /\ active' = FALSE /\ told' = TRUE
  /\ UNCHANGED <<entry, node, record, edges, tracker>>

\* The turn has run out of time.
TimesOut ==
  /\ node[Top].run \in Going /\ ~told /\ told' = TRUE
  /\ UNCHANGED <<entry, node, record, edges, active, tracker>>

Next ==
  \/ Accept \/ Reject \/ OpenTask \/ StartFails \/ Begin \/ Finish \/ Track \/ Forget \/ CancelRun \/ TimesOut
  \/ \E r \in Runs : Start(r) \/ Started(r) \/ Note(r) \/ End(r)
  \/ \E r \in Runs, c \in Calls, agent \in Agents : Call(r, c, agent)
  \/ \E c \in Calls : Settle(c)

Spec == Init /\ [][Next]_vars
-----------------------------------------------------------------------------
(* Properties. *)

\* Whatever its called agents publish, before it begins and after it ends, the record of a
\* run is the top's: its node, and its status.
RecordIsTheTops ==
  LET top == node[Top].run IN
  /\ top \in {"begun", "started", "ended", "finished"} => record.key = Key(Top)
  /\ top \in {"begun", "started"} => record.status = "running"
  /\ top \in {"ended", "finished"} => record.status = node[Top].outcome

\* The nodes of the stored events are one tree: a parent is of a node that was seen before,
\* and none is above itself.
OneTree ==
  LET keys == {e[1] : e \in edges} IN
  /\ \A e \in edges : e[2] \in keys \cup {NoNode}
  /\ \A some \in (SUBSET keys) \ {{}} : \E k \in some : \A e \in edges : e[1] = k => e[2] \notin some

\* A run under way that came as a message can be cancelled, until it has been or an agent it
\* called has ended: the end of a called agent is taken for that of the run.
Cancellable ==
  tracker \in {"due", "gone"} /\ node[Top].run \in Going => \E c \in Calls : node[c].run = "ended"

RunIsItsTops == RecordIsTheTops /\ OneTree /\ Cancellable
=============================================================================
