------------------------------- MODULE AgentRun -------------------------------
(***************************************************************************)
(* One run of an agent (src/internal/runtime/agent): the controller asks   *)
(* the model, runs the tool calls of its answer, and when the answer holds *)
(* none asks the goal runtime (src/internal/runtime/task/goal.go) whether  *)
(* objective work is left, executing ready plan steps itself.              *)
(*                                                                         *)
(* A prompt, an answer and a tool result are reduced to what the control   *)
(* depends on: whether the answer shows text, which calls it makes, how a  *)
(* call ends.  The turn's recursion is the variable at; the transcript is  *)
(* the set of calls in it without a result.  Checkpoints are not a state:  *)
(* within a run they are created and completed in one step.                *)
(***************************************************************************)
EXTENDS Integers, Sequences, FiniteSets

CONSTANTS
  MaxTurns,     \* Runtime.MaxTurns, also the goal runtime's hard constraint
  MaxAttempts,  \* Runtime.LLMMaxAttempts
  MaxAutoSteps, \* maxAutoPlanExecutionsPerIdleCheck
  Batches,      \* the sequences of tools an answer may call, <<>> among them
  Plans         \* the plans update_plan may be given

VARIABLES
  at,         \* where the controller is
  turn,       \* currentTurn
  attempt,    \* of the model request under way
  ctx,        \* live, or gone once the run was cancelled or timed out
  ended,      \* no, or the type of the terminal event
  loop,       \* the controller's flags
  goal,       \* the state of the run's goal
  todo,       \* whether the run has an open todo item
  plan,       \* the session's structured plan
  calls,      \* the calls of the batch under way
  place,      \* per call of the batch: waiting, running or how it ended
  unanswered, \* the calls of the transcript that have no result
  autos       \* plan steps executed in this idle check

vars == <<at, turn, attempt, ctx, ended, loop, goal, todo, plan, calls, place, unanswered, autos>>

Old      == 0    \* a call an earlier, interrupted run left without a result
PlanCall == 99   \* the call of a plan step

NoPlan == [state |-> "draft", steps |-> <<>>]

FreshLoop == [tools |-> FALSE, reply |-> FALSE, awaiting |-> FALSE, prompted |-> FALSE, empties |-> 0,
              step |-> 0]

Init ==
  /\ at = "start" /\ turn = 0 /\ attempt = 0 /\ ctx = "live" /\ ended = "no"
  /\ loop = FreshLoop
  /\ goal = "none" /\ todo = FALSE /\ plan = NoPlan
  /\ calls = <<>> /\ place = <<>> /\ autos = 0
  /\ unanswered \in {{}, {Old}}

----------------------------------------------------------------------------
(* The goal runtime and the plan engine. *)

DependenciesSatisfied(p, i) == \A d \in p.steps[i].deps : p.steps[d].state = "completed"

\* A plan is executable only while it is running.
ReadySteps(p) ==
  {i \in DOMAIN p.steps : /\ p.state = "running"
                          /\ p.steps[i].state = "pending"
                          /\ DependenciesSatisfied(p, i)}

BlockedSteps(p) ==
  {i \in DOMAIN p.steps : p.steps[i].state = "pending" /\ ~DependenciesSatisfied(p, i)}

NextStep(p) == CHOOSE i \in ReadySteps(p) : \A j \in ReadySteps(p) : i <= j

AllCompleted(p) == \A i \in DOMAIN p.steps : p.steps[i].state \in {"completed", "skipped"}

\* Normalize.
Normalized(p) == IF p.steps # <<>> /\ AllCompleted(p) THEN [p EXCEPT !.state = "completed"] ELSE p

\* evaluatePlan, as evaluateObjectiveWork reads it: a step that runs is no work.
PlanWork(p) ==
  IF p = NoPlan \/ AllCompleted(p) THEN "none"
  ELSE IF ReadySteps(p) # {} THEN "step"
  ELSE IF p.state \in {"failed", "paused"} THEN p.state
  ELSE IF BlockedSteps(p) # {} THEN "blocked"
  ELSE "none"

\* evaluateObjectiveWork: the first kind of unfinished work, calls of goal_complete
\* apart when goal_complete asks.  No task of the run is running when it is called:
\* a batch waits for its tasks.
ObjectiveWork(ignored) ==
  IF unanswered \ ignored # {} THEN "calls"
  ELSE IF todo THEN "todo"
  ELSE PlanWork(plan)

GoalCalls == {i \in DOMAIN calls : calls[i] = "goal_complete"}

\* inspectGoal: a goal that is not in progress has no unfinished work.
InspectedWork == IF goal = "in_progress" THEN ObjectiveWork({}) ELSE "none"

\* applyHardConstraints; RecordTurn has recorded turn + 1.
HardStop == InspectedWork # "none" /\ turn + 1 >= MaxTurns

\* CompleteGoalIgnoringTask called by the tool goal_complete.
CompleteGoal ==
  goal' = IF goal = "in_progress" /\ ObjectiveWork(GoalCalls) = "none" THEN "completed" ELSE goal

\* AwaitUserInput.
AwaitUserInput == goal' = IF goal = "in_progress" THEN "awaiting_input" ELSE goal

----------------------------------------------------------------------------
(* The end of a run. *)

\* Faulty variant: the guard on the transcript is left to the next run.
FinalizeUnguarded(type) ==
  \E final \in {type, "error"} :
     /\ ended' = final
     /\ at' = "ended"
     /\ unanswered' = unanswered

\* finalize: an end hook that fails turns the event into an error; after an error or
\* an abort every open call of the transcript is given a synthetic result.
Finalize(type) ==
  \E final \in {type, "error"} :
     /\ ended' = final
     /\ at' = "ended"
     /\ unanswered' = IF final = "done" THEN unanswered ELSE {}

\* finish(error or aborted).
Stop(type) ==
  /\ Finalize(type)
  /\ UNCHANGED <<turn, attempt, ctx, loop, goal, todo, plan, calls, place, autos>>

\* runTurn(turn + 1), usually after appendRuntimeControl.
RunTurn(flags) ==
  /\ at' = "turn" /\ turn' = turn + 1 /\ loop' = flags
  /\ UNCHANGED <<attempt, ctx, ended, goal, todo, plan, calls, place, unanswered, autos>>

\* finish(done): advance looks at the goal first.
ToDecide(flags) ==
  /\ at' = "deciding" /\ autos' = 0 /\ loop' = flags
  /\ UNCHANGED <<turn, attempt, ctx, ended, goal, todo, plan, calls, place, unanswered>>

----------------------------------------------------------------------------
(* A turn. *)

\* start: the guard answers what an earlier run left open; StartGoal.
Start ==
  /\ at = "start"
  /\ at' = "turn" /\ unanswered' = {} /\ goal' = "in_progress"
  /\ UNCHANGED <<turn, attempt, ctx, ended, loop, todo, plan, calls, place, autos>>

\* The checks at the head of runTurn.
RefuseTurn ==
  /\ at = "turn"
  /\ \/ turn >= MaxTurns /\ Stop("error")
     \/ turn < MaxTurns /\ ctx = "gone" /\ Stop("aborted")

\* buildChatRequest fails (compaction, a hook, the prompt), or gives the request.
BuildRequest ==
  /\ at = "turn" /\ turn < MaxTurns /\ ctx = "live"
  /\ \/ Stop("error")
     \/ /\ at' = "asking" /\ attempt' = 1
        /\ UNCHANGED <<turn, ctx, ended, loop, goal, todo, plan, calls, place, unanswered, autos>>

\* collectLLMResponse: an attempt that failed before any output is made again after a
\* wait the context ends; otherwise the error ends the run.
RequestFails ==
  /\ at = "asking"
  /\ \/ /\ attempt < MaxAttempts /\ ctx = "live"
        /\ attempt' = attempt + 1
        /\ UNCHANGED <<at, turn, ctx, ended, loop, goal, todo, plan, calls, place, unanswered, autos>>
     \/ Stop("error")

\* shouldRequestVisibleReplyAfterTools is FALSE while goal_complete is a tool, and
\* ensureGoalTool registers it in every run of a registry.
Reply(text) ==
  LET flags == [loop EXCEPT !.reply = text, !.awaiting = FALSE]
  IN  IF loop.awaiting /\ ~text THEN Stop("error") ELSE ToDecide(flags)

\* The calls are entered in the transcript and the batch is started.
StartBatch(text, batch) ==
  /\ at' = "batch"
  /\ loop' = [loop EXCEPT !.reply = text, !.awaiting = FALSE, !.prompted = FALSE, !.empties = 0]
  /\ calls' = batch
  /\ place' = [i \in DOMAIN batch |-> "waiting"]
  /\ unanswered' = unanswered \cup DOMAIN batch
  /\ UNCHANGED <<turn, attempt, ctx, ended, goal, todo, plan, autos>>

\* The stream ends: text or none, and complete calls.
Answer ==
  /\ at = "asking"
  /\ \E text \in BOOLEAN, batch \in Batches :
        IF batch = <<>> THEN Reply(text) ELSE StartBatch(text, batch)

----------------------------------------------------------------------------
(* The tool batch. *)

InlineGoalTools == {"goal_complete", "await_user_input"}
Parallel(i)     == calls[i] = "read"
Settled(i)      == place[i] \notin {"waiting", "running"}

\* segmentPreparedToolCalls: consecutive calls of parallel tools run together.
SameSegment(i, j) == \A k \in i..j : Parallel(k)

\* A segment starts when the one before it has settled, unless the context is gone;
\* within a segment every call is started.
Startable(i) ==
  /\ place[i] = "waiting"
  /\ \A j \in 1..(i - 1) : Settled(j) \/ SameSegment(j, i)
  /\ ctx = "live" \/ \E j \in 1..(i - 1) : SameSegment(j, i) /\ place[j] # "waiting"

CallStarts(i) ==
  /\ at = "batch" /\ Startable(i)
  /\ place' = [place EXCEPT ![i] = "running"]
  /\ UNCHANGED <<at, turn, attempt, ctx, ended, loop, goal, todo, plan, calls, unanswered, autos>>

\* What a tool that succeeds does to the state the goal is judged by.
Effect(tool) ==
  CASE tool = "goal_complete"    -> CompleteGoal /\ UNCHANGED <<todo, plan>>
    [] tool = "await_user_input" -> AwaitUserInput /\ UNCHANGED <<todo, plan>>
    [] tool = "todo"      -> todo' \in BOOLEAN /\ UNCHANGED <<goal, plan>>
    [] tool = "update_plan"      -> /\ \E p \in Plans : plan' = Normalized(p)
                                    /\ UNCHANGED <<goal, todo>>
    [] OTHER                     -> UNCHANGED <<goal, todo, plan>>

\* The task of a call ends (executeToolWithRecovery, toolTaskResultFromCompletion): a
\* hook or an executor that fails is fatal, a cancelled call is not.  An inline goal
\* tool runs in the worker, without a task.
CallSettles(i) ==
  /\ at = "batch" /\ place[i] = "running"
  /\ \/ place' = [place EXCEPT ![i] = "ok"] /\ Effect(calls[i])
     \/ /\ \E how \in {"failed", "fatal"} \cup (IF ctx = "gone" THEN {"cancelled"} ELSE {}) :
              place' = [place EXCEPT ![i] = how]
        /\ UNCHANGED <<goal, todo, plan>>
  /\ UNCHANGED <<at, turn, attempt, ctx, ended, loop, calls, unanswered, autos>>

OnlyInlineGoalTools == \A i \in DOMAIN calls : calls[i] \in InlineGoalTools

Started == {i \in DOMAIN calls : place[i] # "waiting"}

\* Nothing runs, and no segment will: each has settled, or the context is gone.
BatchOver == \A i \in DOMAIN calls : place[i] # "running" /\ ~Startable(i)

Executed == [loop EXCEPT !.tools = loop.tools \/ Started # {}]

\* The results of the calls that were started enter the transcript.
AfterBatch(where, flags, next) ==
  /\ at' = where /\ turn' = next /\ loop' = flags
  /\ unanswered' = unanswered \ Started
  /\ calls' = <<>> /\ place' = <<>>
  /\ UNCHANGED <<attempt, ctx, ended, goal, todo, plan>>

\* handleToolBatchCompletion.
BatchEnds ==
  /\ at = "batch" /\ BatchOver
  /\ LET fatal == \E i \in DOMAIN calls : place[i] = "fatal"
     IN  IF fatal \/ ctx = "gone"
         THEN /\ Finalize(IF ctx = "gone" /\ (~fatal \/ Started # DOMAIN calls) THEN "aborted" ELSE "error")
              /\ loop' = Executed /\ calls' = <<>> /\ place' = <<>>
              /\ UNCHANGED <<turn, attempt, ctx, goal, todo, plan, autos>>
         ELSE IF ~OnlyInlineGoalTools \/ goal = "in_progress"
         THEN AfterBatch("turn", Executed, turn + 1) /\ UNCHANGED autos
         ELSE IF goal = "completed" /\ ~loop.reply /\ turn + 1 < MaxTurns
         THEN AfterBatch("turn", [Executed EXCEPT !.awaiting = TRUE], turn + 1) /\ UNCHANGED autos
         ELSE IF goal = "completed" /\ ~loop.reply
         THEN /\ Finalize("error")
              /\ loop' = Executed /\ calls' = <<>> /\ place' = <<>>
              /\ UNCHANGED <<turn, attempt, ctx, goal, todo, plan, autos>>
         ELSE AfterBatch("deciding", [Executed EXCEPT !.reply = TRUE], turn) /\ autos' = 0

----------------------------------------------------------------------------
(* goalAfterDoneCoordinator.advance, one iteration of its loop at a time. *)

\* emitHardStopSummary asks the model once more, without tools.
HandOff ==
  /\ at = "deciding" /\ autos < MaxAutoSteps /\ HardStop
  /\ Stop("error")

TooManySteps == at = "deciding" /\ autos >= MaxAutoSteps /\ Stop("error")

Idle == at = "deciding" /\ autos < MaxAutoSteps /\ InspectedWork = "none"
Busy == at = "deciding" /\ autos < MaxAutoSteps /\ InspectedWork # "none" /\ ~HardStop

\* MaybeContinueIfIdle completes the goal, and the run is done.
CompleteIdly(flags) ==
  /\ goal' = IF goal = "in_progress" THEN "completed" ELSE goal
  /\ Finalize("done")
  /\ loop' = flags
  /\ UNCHANGED <<turn, attempt, ctx, todo, plan, calls, place, autos>>

\* handlePendingGoalCompletion: the model was asked for goal_complete and made no call.
\* An error leaves the flags as no later step reads them.
PendingCompletion ==
  /\ Idle /\ loop.prompted
  /\ IF goal # "in_progress" THEN /\ Finalize("done")
                                  /\ loop' = [loop EXCEPT !.prompted = FALSE, !.empties = 0]
                                  /\ UNCHANGED <<turn, attempt, ctx, goal, todo, plan, calls, place, autos>>
     ELSE IF loop.reply \/ loop.empties = 1 \/ turn + 1 >= MaxTurns THEN Stop("error")
     ELSE RunTurn([loop EXCEPT !.empties = 1])

\* shouldPromptForGoalCompletion.
PromptsForCompletion ==
  goal = "in_progress" /\ ~loop.reply /\ (loop.tools \/ plan # NoPlan)

Settle ==
  /\ Idle /\ ~loop.prompted
  /\ IF ~PromptsForCompletion THEN CompleteIdly([loop EXCEPT !.prompted = FALSE])
     ELSE IF turn + 1 >= MaxTurns THEN Stop("error")
     ELSE RunTurn([loop EXCEPT !.prompted = TRUE, !.empties = 0])

AutoExecutable == InspectedWork = "step" /\ plan.steps[NextStep(plan)].kind # "manual"

ContinueGoal ==
  /\ Busy /\ ~AutoExecutable
  /\ RunTurn([loop EXCEPT !.prompted = FALSE, !.empties = 0])

\* maybeAutoExecuteReadyPlanStep: Execute records the step as running; a tool step
\* enters its call in the transcript.
StepStarts ==
  /\ Busy /\ AutoExecutable
  /\ at' = "step"
  /\ loop' = [loop EXCEPT !.prompted = FALSE, !.empties = 0, !.step = NextStep(plan),
                          !.tools = loop.tools \/ plan.steps[NextStep(plan)].kind = "tool"]
  /\ plan' = [plan EXCEPT !.steps[NextStep(plan)].state = "running"]
  /\ unanswered' = IF plan.steps[NextStep(plan)].kind = "tool" THEN unanswered \cup {PlanCall} ELSE unanswered
  /\ UNCHANGED <<turn, attempt, ctx, ended, goal, todo, calls, place, autos>>

\* completeStep, failStep, pauseStep, revertStepToPending.
Recorded(i, state, planState) ==
  Normalized([state |-> planState, steps |-> [plan.steps EXCEPT ![i].state = state]])

\* The dispatched step ends and advance looks again.
StepEnds(i, state, planState) ==
  /\ plan' = Recorded(i, state, planState)
  /\ at' = "deciding" /\ autos' = autos + 1
  /\ unanswered' = unanswered \ {PlanCall}
  /\ UNCHANGED <<turn, attempt, ctx, ended, loop, goal, todo, calls, place>>

\* The step waits for the user: the goal does, and the run is done.
StepPauses(i) ==
  /\ plan.steps[i].kind = "user_input"
  /\ plan' = Recorded(i, "pending", "paused")
  /\ AwaitUserInput
  /\ Finalize("done")
  /\ UNCHANGED <<turn, attempt, ctx, loop, todo, calls, place, autos>>

\* A cancelled step is pending again, for the run that continues the plan.
StepCancelled(i) ==
  /\ ctx = "gone"
  /\ plan' = Recorded(i, "pending", "running")
  /\ Finalize("error")
  /\ UNCHANGED <<turn, attempt, ctx, loop, goal, todo, calls, place, autos>>

PlanStep(i) ==
  /\ at = "step" /\ i = loop.step
  /\ \/ plan.steps[i].kind # "user_input" /\ StepEnds(i, "completed", "running")
     \/ plan.steps[i].kind # "user_input" /\ ctx = "live" /\ StepEnds(i, "failed", "failed")
     \/ StepPauses(i)
     \/ StepCancelled(i)

----------------------------------------------------------------------------

\* The user cancels, the turn times out, the process shuts down.
ContextGone ==
  /\ ctx = "live" /\ at # "ended"
  /\ ctx' = "gone"
  /\ UNCHANGED <<at, turn, attempt, ended, loop, goal, todo, plan, calls, place, unanswered, autos>>

Controller ==
  \/ Start \/ RefuseTurn \/ BuildRequest \/ RequestFails \/ Answer
  \/ \E i \in DOMAIN calls : CallStarts(i) \/ CallSettles(i)
  \/ BatchEnds
  \/ HandOff \/ TooManySteps \/ PendingCompletion \/ Settle \/ ContinueGoal
  \/ StepStarts \/ \E i \in DOMAIN plan.steps : PlanStep(i)

Next == Controller \/ ContextGone

\* The controller's goroutine runs, the provider ends every stream and a tool's task
\* settles (its idle timeout sees to that), so the run's next step is always taken.
Spec     == Init /\ [][Next]_vars
FairSpec == Spec /\ WF_vars(Controller)

----------------------------------------------------------------------------

\* finish(done) is the run's word that the goal is settled: it was completed, with no
\* unfinished work at the time, or it waits for the user.
DoneIsSettled == ended = "done" => goal \in {"completed", "awaiting_input"}

\* However a run ends, its transcript holds a result for every call: the next request
\* to the provider is refused otherwise.
CallsAnswered == at = "ended" => unanswered = {}

\* The run of an agent ends, whatever the model answers.
Ended == at = "ended"
EveryRunEnds == <>Ended

\* docs/anyai-design.md:1117: unfinished work refuses completion and continues the run.
NothingLeftBehind == ended = "done" /\ goal = "completed" => ~todo /\ PlanWork(plan) = "none"
=============================================================================
