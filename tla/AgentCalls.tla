----------------------------- MODULE AgentCalls -----------------------------
(***************************************************************************)
(* Agents that call agents (internal/runtime/agent_call.go, the callagent  *)
(* tool, task/agentexec): an answer of a run's model makes one or more     *)
(* calls of the tool, each of one agent or of several in parallel; each    *)
(* request becomes a task, whose executor starts a run of the called agent *)
(* and waits for it; that run may call again.  All of them share the run   *)
(* ID of the top, and a cancelled context reaches everything below it.     *)
(* The join of a parallel call is JoinAllSettled.  A step of a plan, which *)
(* leaves the agent it calls when its context is done, is not modelled.    *)
(***************************************************************************)
EXTENDS Naturals, Sequences, FiniteSets, Functions

CONSTANTS
  Top,          \* the run the user started
  Calls,        \* requests there can be
  TopAgent,     \* its agent
  Agents,       \* what a call may name
  Known,        \* those the configuration has
  Provided,     \* those whose provider is available
  DepthLimit,   \* Config.Runtime.AgentCall.DepthLimit, 0 for none
  MaxParallel,  \* resolveAgentParallelLimit: how many of one parallel call run at once
  MaxRequests   \* bound: agents the calls of one answer ask for

VARIABLES
  node,   \* the run of the top, and each call with the run behind it
  told    \* those whose context has been cancelled

vars == <<node, told>>

Runs == Calls \cup {Top}

\* A request is "free", then "queued", a "task", "waiting" for its run, and "settled"; its line
\* are the runs from the top down to its own, which its RuntimeContext tells of; it is one of the
\* agents named by the tool call of that number in its answer, and index is its place there.
Free == [stage |-> "free", agent |-> TopAgent, parent |-> Top, line |-> {}, call |-> 0, index |-> 0,
         run |-> "none", outcome |-> "none", result |-> "none"]

Init ==
  /\ node = [r \in Runs |-> IF r = Top THEN [Free EXCEPT !.stage = "waiting", !.line = {Top}, !.run = "on"]
                          ELSE Free]
  /\ told = {}

-----------------------------------------------------------------------------
(* The tree of runs. *)

\* RuntimeContext.CallChain and Depth of a run.
Chain(r) == {node[s].agent : s \in node[r].line}
Depth(r) == Cardinality(node[r].line) - 1

Children(r)  == {c \in Calls : node[c].stage # "free" /\ node[c].parent = r}
Below(r)     == {c \in Calls : r \in node[c].line}
Unsettled(r) == {c \in Children(r) : node[c].stage # "settled"}

\* A run that waits for no batch of calls.
Active(r) == node[r].run = "on" /\ Unsettled(r) = {}

Set(c, new) == node' = [node EXCEPT ![c] = new]

-----------------------------------------------------------------------------
(* Calls. *)

\* What the consecutive calls of an answer ask for, a segment of its tool batch: the first call's
\* requests, the second's, and so on.  A call of one agent, and a parallel one of one, have one.
Batches ==
  {requests \in UNION {[1..n -> [agent : Agents, call : 1..n]] : n \in 1..MaxRequests} :
     /\ requests[1].call = 1
     /\ \A i \in DOMAIN requests : i > 1 => requests[i].call - requests[i - 1].call \in {0, 1}}

Unused == {c \in Calls : node[c].stage = "free"}

\* runTaskToolBatch: the join of a segment has a place for each of its calls, so all are under way
\* at once, and the run waits for them all.  A parallel one has a join of its own for its requests
\* (DoAgentParallel); that of one agent goes straight to DoAgent.
Ask(r, batch) ==
  /\ Active(r) /\ r \notin told
  /\ Cardinality(Unused) >= Len(batch)
  /\ LET ids == CHOOSE f \in Injection(DOMAIN batch, Unused) : TRUE IN
       node' = [c \in Runs |-> IF c \in Range(ids)
                               THEN LET i == CHOOSE k \in DOMAIN ids : ids[k] = c IN
                                    [Free EXCEPT !.stage = "queued", !.agent = batch[i].agent, !.parent = r,
                                           !.line = node[r].line \cup {c}, !.call = batch[i].call, !.index = i]
                               ELSE node[c]]
  /\ UNCHANGED told

\* prepareAgentCall refuses an agent there is not, the caller, anything above it, a call too
\* deep, and an agent whose provider is missing.
Forbidden(c) ==
  LET p == node[c].parent IN
  \/ node[c].agent \notin Known \cap Provided
  \/ node[c].agent \in Chain(p)
  \/ DepthLimit > 0 /\ Depth(p) >= DepthLimit

\* The requests of its call before this one that are not settled.
Ahead(c) ==
  {s \in Unsettled(node[c].parent) : node[s].call = node[c].call /\ node[s].index < node[c].index}

\* Faulty variant: one request too many is let go.
ScheduledBeyond(c) == node[c].stage = "queued" /\ Cardinality(Ahead(c)) <= MaxParallel

\* scheduleLocked takes the requests of a call in order while there is a place: a request is let
\* go once fewer than the limit of those before it are unsettled; their goroutines may overtake
\* each other then.  The requests of another call are not counted.
Scheduled(c) == node[c].stage = "queued" /\ Cardinality(Ahead(c)) < MaxParallel

\* A refusal is reported at once as a failed call; else there is a task, in the context of
\* the caller.
Launch(c) ==
  /\ Scheduled(c)
  /\ IF Forbidden(c) THEN Set(c, [node[c] EXCEPT !.stage = "settled", !.result = "failed"]) /\ UNCHANGED told
     ELSE /\ Set(c, [node[c] EXCEPT !.stage = "task"])
          /\ told' = IF node[c].parent \in told THEN told \cup {c} ELSE told

\* Executor.Execute: StartManagedRun does not pass the lane of the session.
Execute(c) ==
  /\ node[c].stage = "task"
  /\ \/ Set(c, [node[c] EXCEPT !.stage = "waiting", !.run = "on"])
     \/ Set(c, [node[c] EXCEPT !.stage = "settled", !.result = "failed"])
  /\ UNCHANGED told

\* A run ends by itself, or as aborted when its context is gone.
RunEnds(r) ==
  /\ Active(r)
  /\ \E outcome \in IF r \in told THEN {"completed", "failed", "cancelled"} ELSE {"completed", "failed"} :
       Set(r, [node[r] EXCEPT !.run = "over", !.outcome = outcome])
  /\ UNCHANGED told

\* waitForRun: the events have ended.
Answer(c) ==
  /\ node[c].stage = "waiting" /\ node[c].run = "over" /\ c # Top
  /\ Set(c, [node[c] EXCEPT !.stage = "settled", !.result = node[c].outcome])
  /\ UNCHANGED told

\* waitForRun: the context is done; the run is told to stop and not waited for.
Leave(c) ==
  /\ node[c].stage = "waiting" /\ c \in told /\ c # Top
  /\ Set(c, [node[c] EXCEPT !.stage = "settled", !.result = "cancelled"])
  /\ UNCHANGED told

-----------------------------------------------------------------------------
(* Cancellation: of the run by its user, of a task, or by the end of the turn. *)

\* Faulty variant: the calls of a call are not reached.
CancelShallow(r) ==
  /\ node[r].run = "on" \/ node[r].stage = "task"
  /\ told' = told \cup {r} \cup Children(r)
  /\ UNCHANGED node

Cancel(r) ==
  /\ node[r].run = "on" \/ node[r].stage = "task"
  /\ r \notin told
  /\ told' = told \cup {r} \cup {c \in Below(r) : node[c].run = "on" \/ node[c].stage = "task"}
  /\ UNCHANGED node

Next ==
  \/ \E r \in Runs : (\E batch \in Batches : Ask(r, batch)) \/ RunEnds(r) \/ Cancel(r)
  \/ \E c \in Calls : Launch(c) \/ Execute(c) \/ Answer(c) \/ Leave(c)

Spec == Init /\ [][Next]_vars

-----------------------------------------------------------------------------
(* Properties. *)

\* However agents call each other, none works below itself, the tree stays within the depth,
\* and of the agents one call names no more work at once than the limit allows.  How many work for
\* one caller is not bounded: an answer may make any number of calls.
CallsAreBounded ==
  \A r \in Runs : node[r].run # "none" =>
    /\ \A s, t \in node[r].line : node[s].agent = node[t].agent => s = t
    /\ DepthLimit > 0 => Depth(r) <= DepthLimit
    /\ \A call \in 1..MaxRequests :
         Cardinality({c \in Unsettled(r) : node[c].call = call /\ node[c].stage \in {"task", "waiting"}})
           <= MaxParallel

\* A run ends after all its calls have been answered; whatever still works behind an answered
\* call has been told to stop.
NoneLeftAlone ==
  \A r \in Runs :
    /\ node[r].run = "over" => Unsettled(r) = {}
    /\ r # Top /\ node[r].stage = "settled" =>
         \A c \in Below(r) : node[c].run = "on" \/ node[c].stage = "task" => c \in told

\* A call is reported as completed only if its run has completed.
CompletedIsTrue == \A c \in Calls : node[c].result = "completed" => node[c].outcome = "completed"

CallsEnd == CallsAreBounded /\ NoneLeftAlone /\ CompletedIsTrue
=============================================================================
