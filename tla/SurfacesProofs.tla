--------------------------- MODULE SurfacesProofs ---------------------------
(***************************************************************************)
(* Proofs about Surfaces: that a run of an agent settles, that replies are *)
(* final, that only idle turns time out and that the parts of a project    *)
(* agree.  A behaviour is of one component, so each property has the       *)
(* inductive invariant of its component, kept by the component's steps.    *)
(***************************************************************************)
EXTENDS Surfaces, QueueLemmas

-----------------------------------------------------------------------------
(* The run of an agent. *)

\* The states the goal of a run that has started may be in.
Goals == {"in_progress", "completed", "awaiting_input"}

\* Which calls of the transcript may lack a result at each place of the controller: those
\* of the batch under way, or the one of a tool step; none where a turn begins, asks or
\* decides, and none at the end.
OpenCalls ==
  /\ controller \in {"turn", "asking", "deciding", "ended"} => unanswered = {}
  /\ controller = "batch" => unanswered \subseteq DOMAIN calls
  /\ controller = "step" =>
       /\ loop.step \in DOMAIN plan.steps
       /\ unanswered \subseteq IF plan.steps[loop.step].kind = "tool" THEN {Agent!PlanCall} ELSE {}

\* Where a call of the batch may be, and the controller's flags.
Places == {"waiting", "running", "ok", "failed", "fatal", "cancelled"}
LoopFlags ==
  [tools: BOOLEAN, reply: BOOLEAN, awaiting: BOOLEAN, prompted: BOOLEAN, empties: Nat, step: Nat]

\* The types of what the controller keeps, as far as the proof needs them.
AgentTypeOK ==
  /\ controller \in {"start", "turn", "asking", "batch", "deciding", "step", "ended"}
  /\ ctx \in {"live", "gone"}
  /\ loop \in LoopFlags
  /\ plan \in AllPlans
  /\ calls \in Seq(STRING) /\ place \in [DOMAIN calls -> Places]

\* The inductive invariant of a run.
AgentInv ==
  /\ AgentTypeOK /\ OpenCalls
  /\ controller # "start" => goal \in Goals
  /\ controller # "ended" => agentEnded = "no"
  /\ Agent!DoneIsSettled

\* A batch that is over while its context lives has started every call: one that still waits
\* would be startable, the least of them.
LEMMA BatchIsThrough ==
  ASSUME AgentTypeOK, Agent!BatchOver, ctx = "live"
  PROVE  Agent!Started = DOMAIN calls
<1> DEFINE W == {i \in DOMAIN calls : place[i] = "waiting"}
<1> SUFFICES W = {}
  BY DEF Agent!Started
<1> SUFFICES ASSUME W # {} PROVE FALSE
  OBVIOUS
<1>1. DOMAIN calls = 1..Len(calls) /\ Len(calls) \in Nat
  BY DEF AgentTypeOK
<1>0. W \subseteq Nat
  BY <1>1
<1> HIDE DEF W
<1>2. PICK m \in W : \A k \in W : m <= k
  BY <1>0, LeastOf
<1> USE DEF W
<1>3. \A j \in 1..(m - 1) : j \in DOMAIN calls /\ j \notin W
  BY <1>1, <1>2
<1>4. \A j \in 1..(m - 1) : Agent!Settled(j)
  BY <1>3 DEF Agent!Settled, Agent!BatchOver
<1>5. Agent!Startable(m)
  BY <1>4 DEF Agent!Startable
<1> QED
  BY <1>5 DEF Agent!BatchOver

\* The step the engine executes next is one that is ready.
LEMMA NextStepIsReady ==
  ASSUME NEW p \in AllPlans, Agent!ReadySteps(p) # {}
  PROVE  Agent!NextStep(p) \in Agent!ReadySteps(p)
<1>1. Agent!ReadySteps(p) \subseteq Nat
  BY DEF Agent!ReadySteps, AllPlans, PlanSteps
<1>2. \E i \in Agent!ReadySteps(p) : \A j \in Agent!ReadySteps(p) : i <= j
  BY <1>1, LeastOf
<1> QED
  BY <1>2 DEF Agent!NextStep

\* Normalizing a plan leaves it a plan.
LEMMA NormalizedIsPlan ==
  ASSUME NEW p \in AllPlans
  PROVE  Agent!Normalized(p) \in AllPlans
<1>1. [p EXCEPT !.state = "completed"] \in AllPlans
  BY DEF AllPlans, PlanStates
<1>2. Agent!Normalized(p) = p \/ Agent!Normalized(p) = [p EXCEPT !.state = "completed"]
  BY Zenon DEF Agent!Normalized
<1> QED
  BY <1>1, <1>2

\* A step that changes its state leaves the other steps and its own kind alone.
LEMMA EditedStep ==
  ASSUME NEW steps \in PlanSteps, NEW i \in DOMAIN steps, NEW s \in StepStates
  PROVE  /\ [steps EXCEPT ![i].state = s] \in PlanSteps
         /\ DOMAIN [steps EXCEPT ![i].state = s] = DOMAIN steps
         /\ [steps EXCEPT ![i].state = s][i].kind = steps[i].kind
<1> DEFINE S == [kind: STRING, state: StepStates, deps: SUBSET Nat]
           r == [steps[i] EXCEPT !.state = s]
<1>0. steps \in Seq(S)
  BY DEF PlanSteps
<1> HIDE DEF S
<1>1. steps \in Seq(S) /\ steps[i] \in S /\ DOMAIN steps = 1..Len(steps)
  BY <1>0
<1> USE DEF S
<1>2. r \in S /\ r.kind = steps[i].kind
  <2>1. r \in S
    BY <1>1
  <2>2. r.kind = steps[i].kind
    BY <1>1
  <2> QED
    BY <2>1, <2>2
<1>3. [steps EXCEPT ![i].state = s] = [steps EXCEPT ![i] = r]
  OBVIOUS
<1> HIDE DEF S, r
<1>4. /\ [steps EXCEPT ![i] = r] \in Seq(S) /\ DOMAIN [steps EXCEPT ![i] = r] = DOMAIN steps
      /\ [steps EXCEPT ![i] = r][i] = r
  BY <1>1, <1>2
<1> QED
  BY <1>2, <1>3, <1>4 DEF S, PlanSteps

\* A run that is finalized keeps the invariant if done is said of a settled goal and a whole
\* transcript.
LEMMA FinalizeKeeps ==
  ASSUME AgentInv, NEW type \in {"done", "error", "aborted"}, Agent!Finalize(type),
         type = "done" => unanswered = {} /\ goal' \in {"completed", "awaiting_input"},
         goal' \in Goals, ctx' \in {"live", "gone"}, loop' \in LoopFlags, plan' \in AllPlans,
         calls' \in Seq(STRING), place' \in [DOMAIN calls' -> Places]
  PROVE  AgentInv'
BY DEF AgentInv, AgentTypeOK, OpenCalls, Agent!DoneIsSettled, Agent!Finalize

\* A run that stops with an error, or is aborted, keeps it.
LEMMA StopKeeps ==
  ASSUME AgentInv, controller # "start", NEW type \in {"error", "aborted"}, Agent!Stop(type)
  PROVE  AgentInv'
BY FinalizeKeeps DEF Agent!Stop, AgentInv, AgentTypeOK

\* A controller that goes on to a turn, a request or a decision keeps it if no call is open.
LEMMA GoesOnKeeps ==
  ASSUME AgentInv, controller' \in {"turn", "deciding", "asking"},
         UNCHANGED agentEnded, agentEnded = "no", unanswered' = {}, goal' \in Goals,
         ctx' \in {"live", "gone"}, loop' \in LoopFlags, plan' \in AllPlans,
         calls' \in Seq(STRING), place' \in [DOMAIN calls' -> Places]
  PROVE  AgentInv'
BY DEF AgentInv, AgentTypeOK, OpenCalls, Agent!DoneIsSettled

\* The ways the controller sets its flags leave them flags.
LEMMA FlagsStay ==
  ASSUME loop \in LoopFlags, NEW b \in BOOLEAN, NEW c \in BOOLEAN, NEW n \in Nat
  PROVE  /\ [loop EXCEPT !.reply = b, !.awaiting = FALSE] \in LoopFlags
         /\ [loop EXCEPT !.reply = b, !.awaiting = FALSE, !.prompted = FALSE, !.empties = 0]
              \in LoopFlags
         /\ [loop EXCEPT !.tools = b] \in LoopFlags
         /\ [[loop EXCEPT !.tools = b] EXCEPT !.awaiting = TRUE] \in LoopFlags
         /\ [[loop EXCEPT !.tools = b] EXCEPT !.reply = TRUE] \in LoopFlags
         /\ [loop EXCEPT !.prompted = b, !.empties = 0] \in LoopFlags
         /\ [loop EXCEPT !.prompted = b] \in LoopFlags
         /\ [loop EXCEPT !.empties = 1] \in LoopFlags
         /\ [loop EXCEPT !.prompted = FALSE, !.empties = 0, !.step = n, !.tools = c] \in LoopFlags
         /\ [loop EXCEPT !.prompted = FALSE, !.empties = 0, !.step = n, !.tools = c].step = n
BY DEF LoopFlags

\* Every step of a run, its interruption among them, keeps the invariant.
LEMMA AgentStep ==
  ASSUME AgentInv, [Agent!Next]_agentVars
  PROVE  AgentInv'
<1>0. /\ AgentTypeOK /\ ctx \in {"live", "gone"} /\ loop \in LoopFlags /\ plan \in AllPlans
      /\ calls \in Seq(STRING) /\ place \in [DOMAIN calls -> Places]
      /\ controller \in {"turn", "asking", "deciding"} => unanswered = {}
      /\ controller # "start" => goal \in Goals
      /\ controller # "ended" => agentEnded = "no"
  BY DEF AgentInv, AgentTypeOK, OpenCalls
<1>1. CASE Agent!Start \/ Agent!RefuseTurn \/ Agent!BuildRequest \/ Agent!RequestFails
  <2>1. CASE Agent!Start
    BY <1>0, <2>1, GoesOnKeeps DEF Agent!Start, Goals
  <2>2. CASE Agent!RefuseTurn
    BY <2>2, StopKeeps DEF Agent!RefuseTurn
  <2>3. CASE Agent!BuildRequest
    BY <1>0, <2>3, StopKeeps, GoesOnKeeps DEF Agent!BuildRequest
  <2>4. CASE Agent!RequestFails
    BY <1>0, <2>4, StopKeeps, GoesOnKeeps DEF Agent!RequestFails
  <2> QED
    BY <1>1, <2>1, <2>2, <2>3, <2>4
<1>2. CASE Agent!Answer
  <2>1. PICK text \in BOOLEAN, batch \in Batches : 
          IF batch = <<>> THEN Agent!Reply(text) ELSE Agent!StartBatch(text, batch)
    BY <1>2 DEF Agent!Answer
  <2>2. controller = "asking" /\ batch \in Seq(STRING)
    BY <1>2, BatchesAssumption DEF Agent!Answer
  <2>3. CASE Agent!Reply(text)
    BY <1>0, <2>2, <2>3, StopKeeps, GoesOnKeeps, FlagsStay DEF Agent!Reply, Agent!ToDecide
  <2>4. CASE Agent!StartBatch(text, batch)
    <3>1. loop' \in LoopFlags
      BY <1>0, <2>4, FlagsStay DEF Agent!StartBatch
    <3>2. place' \in [DOMAIN calls' -> Places] /\ unanswered' = DOMAIN calls' /\ calls' = batch
      BY <1>0, <2>2, <2>4 DEF Agent!StartBatch, Places
    <3> QED
      BY <1>0, <2>2, <2>4, <3>1, <3>2 DEF Agent!StartBatch, AgentInv, AgentTypeOK, OpenCalls,
          Agent!DoneIsSettled
  <2> QED
    BY <2>1, <2>3, <2>4
<1>3. ASSUME NEW i \in DOMAIN calls, Agent!CallStarts(i) PROVE AgentInv'
  <2>1. place' \in [DOMAIN calls -> Places]
    BY <1>0, <1>3 DEF Agent!CallStarts, Places
  <2> QED
    BY <1>0, <1>3, <2>1 DEF Agent!CallStarts, AgentInv, AgentTypeOK, OpenCalls, Agent!DoneIsSettled
<1>4. ASSUME NEW i \in DOMAIN calls, Agent!CallSettles(i) PROVE AgentInv'
  <2>1. controller = "batch" /\ UNCHANGED <<controller, ctx, agentEnded, loop, calls, unanswered>>
    BY <1>4 DEF Agent!CallSettles
  <2>2. place' \in [DOMAIN calls -> Places]
    <3>1. ASSUME NEW how \in Places PROVE [place EXCEPT ![i] = how] \in [DOMAIN calls -> Places]
      BY <1>0
    <3>2. \E how \in Places : place' = [place EXCEPT ![i] = how]
      BY <1>4 DEF Agent!CallSettles, Places
    <3> QED
      BY <3>1, <3>2
  <2>3. ASSUME Agent!Effect(calls[i]) PROVE goal' \in Goals /\ plan' \in AllPlans
    <3>1. goal' \in Goals
      BY <1>0, <2>1, <2>3 DEF Agent!Effect, Agent!CompleteGoal, Agent!AwaitUserInput, Goals
    <3>2. plan' = plan \/ \E p \in Plans : plan' = Agent!Normalized(p)
      BY <2>3 DEF Agent!Effect
    <3> QED
      BY <1>0, <3>1, <3>2, NormalizedIsPlan, PlansAssumption
  <2>4. goal' \in Goals /\ plan' \in AllPlans
    BY <1>0, <1>4, <2>1, <2>3 DEF Agent!CallSettles
  <2> QED
    BY <1>0, <2>1, <2>2, <2>4 DEF AgentInv, AgentTypeOK, OpenCalls, Agent!DoneIsSettled
<1>5. CASE Agent!BatchEnds
  <2>1. ctx = "live" => unanswered \ Agent!Started = {}
    BY <1>0, <1>5, BatchIsThrough DEF Agent!BatchEnds, AgentInv, OpenCalls
  <2>2. controller = "batch" /\ goal \in Goals /\ agentEnded = "no"
    BY <1>0, <1>5 DEF Agent!BatchEnds
  <2>3. /\ Agent!Executed \in LoopFlags
        /\ [Agent!Executed EXCEPT !.awaiting = TRUE] \in LoopFlags
        /\ [Agent!Executed EXCEPT !.reply = TRUE] \in LoopFlags
    <3>1. (loop.tools \/ Agent!Started # {}) \in BOOLEAN
      OBVIOUS
    <3> QED
      BY <1>0, <3>1, FlagsStay DEF Agent!Executed
  <2>4. <<>> \in Seq(STRING) /\ <<>> \in [DOMAIN <<>> -> Places]
    OBVIOUS
  <2>5. ASSUME NEW type \in {"error", "aborted"}, Agent!Finalize(type), loop' = Agent!Executed,
               calls' = <<>>, place' = <<>>,
               UNCHANGED <<ctx, goal, plan>>
        PROVE  AgentInv'
    BY <1>0, <2>2, <2>3, <2>4, <2>5, FinalizeKeeps
  <2>6. ASSUME ctx = "live", NEW where \in {"turn", "deciding"}, NEW flags \in LoopFlags, NEW next,
               Agent!AfterBatch(where, flags, next)
        PROVE  AgentInv'
    <3>1. /\ controller' \in {"turn", "deciding"} /\ unanswered' = {} /\ loop' = flags
          /\ calls' = <<>> /\ place' = <<>>
          /\ UNCHANGED <<agentEnded, ctx, goal, plan>>
      BY <2>1, <2>6 DEF Agent!AfterBatch
    <3> QED
      BY <1>0, <2>2, <2>4, <3>1, GoesOnKeeps
  <2> DEFINE fatal == \E i \in DOMAIN calls : place[i] = "fatal"
  <2>7. CASE fatal \/ ctx = "gone"
    BY <1>5, <2>5, <2>7 DEF Agent!BatchEnds
  <2>8. CASE ~(fatal \/ ctx = "gone")
    BY <1>0, <1>5, <2>3, <2>5, <2>6, <2>8 DEF Agent!BatchEnds
  <2> QED
    BY <2>7, <2>8
<1>6. CASE \/ Agent!HandOff \/ Agent!TooManySteps \/ Agent!PendingCompletion \/ Agent!Settle
           \/ Agent!ContinueGoal
  <2>1. controller = "deciding" /\ unanswered = {} /\ goal \in Goals /\ agentEnded = "no"
    BY <1>0, <1>6 DEF Agent!HandOff, Agent!TooManySteps, Agent!PendingCompletion, Agent!Settle,
        Agent!ContinueGoal,
       Agent!Idle, Agent!Busy
  <2>2. ASSUME NEW flags \in LoopFlags, Agent!RunTurn(flags) PROVE AgentInv'
    BY <1>0, <2>1, <2>2, GoesOnKeeps DEF Agent!RunTurn
  <2>3. ASSUME NEW flags \in LoopFlags, Agent!CompleteIdly(flags) PROVE AgentInv'
    BY <1>0, <2>1, <2>3, FinalizeKeeps DEF Agent!CompleteIdly, Goals
  <2>4. CASE Agent!HandOff \/ Agent!TooManySteps
    BY <2>1, <2>4, StopKeeps DEF Agent!HandOff, Agent!TooManySteps
  <2>5. CASE Agent!PendingCompletion
    <3>1. CASE goal # "in_progress"
      BY <1>0, <2>1, <2>5, <3>1, FinalizeKeeps, FlagsStay DEF Agent!PendingCompletion, Goals
    <3>2. CASE goal = "in_progress"
      BY <1>0, <2>1, <2>2, <2>5, <3>2, StopKeeps, FlagsStay DEF Agent!PendingCompletion
    <3> QED
      BY <3>1, <3>2
  <2>6. CASE Agent!Settle
    BY <1>0, <2>1, <2>2, <2>3, <2>6, StopKeeps, FlagsStay DEF Agent!Settle
  <2>7. CASE Agent!ContinueGoal
    BY <1>0, <2>2, <2>7, FlagsStay DEF Agent!ContinueGoal
  <2> QED
    BY <1>6, <2>4, <2>5, <2>6, <2>7
<1>7. CASE Agent!StepStarts
  <2> DEFINE n == Agent!NextStep(plan)
  <2>1. controller = "deciding" /\ unanswered = {} /\ goal \in Goals /\ agentEnded = "no"
    BY <1>0, <1>7 DEF Agent!StepStarts, Agent!Busy
  <2>2. n \in DOMAIN plan.steps /\ n \in Nat
    <3>1. Agent!ReadySteps(plan) # {}
      BY <1>7 DEF Agent!StepStarts, Agent!AutoExecutable, Agent!InspectedWork, Agent!ObjectiveWork,
          Agent!PlanWork
    <3>2. n \in DOMAIN plan.steps
      BY <1>0, <3>1, NextStepIsReady DEF Agent!ReadySteps
    <3> QED
      BY <1>0, <3>2 DEF AllPlans, PlanSteps
  <2> HIDE DEF n
  <2>3. /\ plan' = [plan EXCEPT !.steps[n].state = "running"]
        /\ unanswered' = IF plan.steps[n].kind = "tool" THEN unanswered \cup {Agent!PlanCall}
                         ELSE unanswered
        /\ loop' = [loop EXCEPT !.prompted = FALSE, !.empties = 0, !.step = n,
                                !.tools = loop.tools \/ plan.steps[n].kind = "tool"]
        /\ controller' = "step" /\ UNCHANGED <<agentEnded, ctx, goal, calls, place>>
    BY <1>7 DEF Agent!StepStarts, n
  <2>4. plan' \in AllPlans /\ n \in DOMAIN plan'.steps /\ plan'.steps[n].kind = plan.steps[n].kind
    <3> DEFINE e == [plan.steps EXCEPT ![n].state = "running"]
    <3>1. plan.steps \in PlanSteps /\ "running" \in StepStates
      BY <1>0 DEF AllPlans, StepStates
    <3>2. e \in PlanSteps /\ DOMAIN e = DOMAIN plan.steps /\ e[n].kind = plan.steps[n].kind
      BY <2>2, <3>1, EditedStep, Zenon
    <3>3. plan' = [plan EXCEPT !.steps = e]
      BY <2>3
    <3> HIDE DEF e
    <3> QED
      BY <1>0, <2>2, <3>2, <3>3 DEF AllPlans
  <2>5. loop' \in LoopFlags /\ loop'.step = n
    <3>1. (loop.tools \/ plan.steps[n].kind = "tool") \in BOOLEAN
      OBVIOUS
    <3> QED
      BY <1>0, <2>2, <2>3, <3>1, FlagsStay
  <2> QED
    BY <1>0, <2>1, <2>3, <2>4, <2>5 DEF AgentInv, AgentTypeOK, OpenCalls, Agent!DoneIsSettled
<1>8. ASSUME NEW i \in DOMAIN plan.steps, Agent!PlanStep(i) PROVE AgentInv'
  <2>1. /\ controller = "step" /\ i = loop.step /\ goal \in Goals /\ agentEnded = "no"
        /\ unanswered \subseteq IF plan.steps[i].kind = "tool" THEN {Agent!PlanCall} ELSE {}
    BY <1>0, <1>8 DEF Agent!PlanStep, AgentInv, OpenCalls
  <2>2. ASSUME NEW s \in StepStates, NEW ps \in PlanStates
        PROVE  Agent!Recorded(i, s, ps) \in AllPlans
    <3>1. [state |-> ps, steps |-> [plan.steps EXCEPT ![i].state = s]] \in AllPlans
      BY <1>0, EditedStep DEF AllPlans
    <3> QED
      BY <3>1, NormalizedIsPlan DEF Agent!Recorded
  <2>3. ASSUME NEW s \in StepStates, NEW ps \in PlanStates, Agent!StepEnds(i, s, ps) PROVE AgentInv'
    BY <1>0, <2>1, <2>2, <2>3, GoesOnKeeps DEF Agent!StepEnds
  <2>4. CASE Agent!StepPauses(i)
    BY <1>0, <2>1, <2>2, <2>4, FinalizeKeeps DEF Agent!StepPauses, Agent!AwaitUserInput, Goals,
        StepStates, PlanStates
  <2>5. CASE Agent!StepCancelled(i)
    BY <1>0, <2>1, <2>2, <2>5, FinalizeKeeps DEF Agent!StepCancelled, StepStates, PlanStates
  <2> QED
    BY <1>8, <2>3, <2>4, <2>5 DEF Agent!PlanStep, StepStates, PlanStates
<1>9. CASE Agent!ContextGone
  BY <1>0, <1>9 DEF Agent!ContextGone, AgentInv, AgentTypeOK, OpenCalls, Agent!DoneIsSettled
<1>10. CASE UNCHANGED agentVars
  BY <1>10 DEF agentVars, AgentInv, AgentTypeOK, OpenCalls, Agent!DoneIsSettled
<1> QED
  BY <1>1, <1>2, <1>3, <1>4, <1>5, <1>6, <1>7, <1>8, <1>9, <1>10 DEF Agent!Next, Agent!Controller

\* A run begins with the invariant.
LEMMA AgentInit ==
  ASSUME Agent!Init
  PROVE  AgentInv
<1>1. plan = Agent!NoPlan /\ Agent!NoPlan \in AllPlans
  BY DEF Agent!Init, Agent!NoPlan, AllPlans, PlanStates, PlanSteps
<1>2. loop \in LoopFlags
  BY DEF Agent!Init, Agent!FreshLoop, LoopFlags
<1>3. calls \in Seq(STRING) /\ place \in [DOMAIN calls -> Places]
  BY DEF Agent!Init
<1> QED
  BY <1>1, <1>2, <1>3 DEF Agent!Init, AgentInv, AgentTypeOK, OpenCalls, Agent!DoneIsSettled

\* The invariant says what RunsSettle asks.
LEMMA AgentSettles ==
  ASSUME AgentInv
  PROVE  Agent!DoneIsSettled /\ Agent!CallsAnswered
BY DEF AgentInv, OpenCalls, Agent!DoneIsSettled, Agent!CallsAnswered, Agent!Ended

\* A run says done of a goal that is completed or awaits its user, never of one with work left, and
\* however it ends its transcript holds a result for every call (RunsSettle), for any limits of
\* turns, attempts and plan steps, any batches of calls and any plans.
THEOREM RunsOfAgentsSettle == Spec => []RunsSettle
<1> DEFINE Inv == subject = "agent" => AgentInv
<1>1. Init => Inv
  BY AgentInit DEF Init
<1>2. Inv /\ [Next]_vars => Inv'
  <2> SUFFICES ASSUME Inv, [Next]_vars, subject' = "agent" PROVE AgentInv'
    OBVIOUS
  <2>1. subject = "agent" /\ [Agent!Next]_agentVars
    BY DEF Next, OfAgent, OfGateway, OfTurn, OfProject, vars
  <2> QED
    BY <2>1, AgentStep
<1>3. Inv => RunsSettle
  BY AgentSettles DEF RunsSettle
<1> QED
  BY <1>1, <1>2, <1>3, PTL DEF Spec

-----------------------------------------------------------------------------
(* The gateway. *)

\* The messages, the pieces of a reply and the stages of a message.
Messages == DOMAIN Msg
Pieces == [kind: {"text", "sorry"}, era: Nat]
Stages ==
  {"away", "adapter", "queued", "taken", "running", "sending", "done", "ignored", "given up"}

\* The types of what the gateway keeps of a message.
GateTypeOK ==
  /\ at \in [Messages -> Stages]
  /\ era \in [Messages -> Nat]
  /\ reply \in [Messages -> Seq(Pieces)] /\ output \in [Messages -> Seq(Pieces)]
  /\ form \in [Messages -> Gate!Forms]
  /\ sent \in [Messages -> [Gate!Forms -> Seq(Pieces)]]

\* A message is in the queue once, and only while it waits there.
QueueIsWaiting ==
  /\ inbound \in Seq(Messages)
  /\ \A i, j \in DOMAIN inbound : inbound[i] = inbound[j] => i = j
  /\ \A i \in DOMAIN inbound : at[inbound[i]] = "queued"

\* What the run is recorded with is text of its last era, and the reply is that, perhaps
\* behind an apology; there is no reply before the run.
Buffers(stage, e, r, o) ==
  /\ \A i \in DOMAIN o : o[i].kind = "text" => o[i].era = e
  /\ r \in {o, <<Gate!Sorry>> \o o}
  /\ stage \in {"away", "adapter", "queued", "taken", "ignored"} => r = <<>>

\* One sequence of pieces is a beginning of another.
IsStart(s, r) == Len(s) <= Len(r) /\ \A i \in 1..Len(s) : s[i] = r[i]

\* What was sent in each form is a beginning of the reply, a proper one as long as the
\* sending goes on, and nothing before.
SentOf(stage, chosen, r, s) ==
  /\ stage \notin {"sending", "given up", "done"} => \A f \in Gate!Forms : s[f] = <<>>
  /\ \A f \in Gate!Forms : IsStart(s[f], r)
  /\ chosen # "plain" => s["plain"] = <<>>
  /\ stage = "sending" => Len(s[chosen]) < Len(r)
  /\ stage = "done" => s[chosen] = r
  /\ stage = "running" => chosen = "html"

\* Both, of a message as it is.
BuffersAgree(m) == Buffers(at[m], era[m], reply[m], output[m])
SentSoFar(m) == SentOf(at[m], form[m], reply[m], sent[m])

\* The inductive invariant of the gateway.
GateInv ==
  /\ GateTypeOK /\ QueueIsWaiting
  /\ \A m \in Messages : BuffersAgree(m) /\ SentSoFar(m)

\* An apology is a piece.
LEMMA SorryIsPiece ==
  /\ Gate!Sorry \in Pieces /\ <<Gate!Sorry>> \in Seq(Pieces) /\ Len(<<Gate!Sorry>>) = 1
  /\ <<>> \in Seq(Pieces)
<1>1. Gate!Sorry \in Pieces
  BY DEF Gate!Sorry, Pieces
<1> QED
  BY <1>1

\* What a reply behind an apology holds, and that adding to it adds to what is behind.
LEMMA SorryComesFirst ==
  ASSUME NEW s \in Seq(Pieces), NEW e \in Pieces
  PROVE  /\ Gate!Sorry \in Pieces
         /\ <<Gate!Sorry>> \o s \in Seq(Pieces) /\ Len(<<Gate!Sorry>> \o s) = Len(s) + 1
         /\ Append(<<Gate!Sorry>> \o s, e) = <<Gate!Sorry>> \o Append(s, e)
         /\ <<Gate!Sorry>> \o <<>> = <<Gate!Sorry>>
         /\ (<<Gate!Sorry>> \o s)[1] = Gate!Sorry
         /\ \A i \in 1..Len(s) : (<<Gate!Sorry>> \o s)[i + 1] = s[i]
<1>1. Gate!Sorry \in Pieces
  BY DEF Gate!Sorry, Pieces
<1> DEFINE a == Gate!Sorry
<1> HIDE DEF a
<1>2. a \in Pieces
  BY <1>1 DEF a
<1>3. /\ <<a>> \o s \in Seq(Pieces) /\ Len(<<a>> \o s) = Len(s) + 1
      /\ <<a>> \o <<>> = <<a>>
      /\ (<<a>> \o s)[1] = a
      /\ \A i \in 1..Len(s) : (<<a>> \o s)[i + 1] = s[i]
  BY <1>2
<1>4. Append(<<a>> \o s, e) = <<a>> \o Append(s, e)
  BY <1>2
<1> QED
  BY <1>1, <1>3, <1>4 DEF a

\* What holds of one message that a step leaves as it is.
LEMMA OtherMessages ==
  ASSUME GateInv, NEW m \in Messages, GateTypeOK', QueueIsWaiting', BuffersAgree(m)', SentSoFar(m)',
         \A n \in Messages \ {m} :
           /\ at'[n] = at[n] /\ era'[n] = era[n] /\ reply'[n] = reply[n] /\ output'[n] = output[n]
           /\ form'[n] = form[n] /\ sent'[n] = sent[n]
  PROVE  GateInv'
<1>1. ASSUME NEW n \in Messages \ {m} PROVE BuffersAgree(n)' /\ SentSoFar(n)'
  BY DEF GateInv, BuffersAgree, SentSoFar
<1> QED
  BY <1>1 DEF GateInv

\* The queue, when a message that is not in it, and does not enter it, moves.
LEMMA QueueStays ==
  ASSUME QueueIsWaiting, NEW m \in Messages, at \in [Messages -> Stages], at[m] # "queued",
         NEW stage,
         at' = [at EXCEPT ![m] = stage], UNCHANGED inbound
  PROVE  QueueIsWaiting'
BY DEF QueueIsWaiting

\* A message moves, and nothing is said or sent.
LEMMA MovesOnly ==
  ASSUME GateInv, NEW m \in Messages,
         NEW stage \in {"adapter", "queued", "taken", "ignored", "done"},
         at[m] \in {"away", "adapter", "queued", "taken"},
         at' = [at EXCEPT ![m] = stage], QueueIsWaiting',
         UNCHANGED <<reply, era, output, form, sent>>
  PROVE  GateInv'
<1>1. GateTypeOK'
  BY DEF GateInv, GateTypeOK, Stages
<1>2. BuffersAgree(m)' /\ SentSoFar(m)'
  BY DEF GateInv, GateTypeOK, BuffersAgree, SentSoFar, Buffers, SentOf
<1> QED
  BY <1>1, <1>2, OtherMessages DEF GateInv, GateTypeOK

\* Nothing changes of the other messages.
OnlyOf(m) ==
  \A n \in Messages \ {m} :
    /\ at'[n] = at[n] /\ era'[n] = era[n] /\ reply'[n] = reply[n] /\ output'[n] = output[n]
    /\ form'[n] = form[n] /\ sent'[n] = sent[n]

\* A message that is not in the queue moves, and its buffers with it.
LEMMA MessageStep ==
  ASSUME GateInv, NEW m \in Messages, at[m] # "queued", UNCHANGED inbound, OnlyOf(m), GateTypeOK',
         BuffersAgree(m)', SentSoFar(m)'
  PROVE  GateInv'
<1>1. QueueIsWaiting'
  BY DEF GateInv, QueueIsWaiting, OnlyOf
<1> QED
  BY <1>1, OtherMessages DEF OnlyOf

\* The types, of one message.
LEMMA AtMessage ==
  ASSUME GateTypeOK, NEW m \in Messages
  PROVE  /\ at[m] \in Stages /\ era[m] \in Nat /\ reply[m] \in Seq(Pieces)
         /\ output[m] \in Seq(Pieces)
         /\ form[m] \in Gate!Forms /\ sent[m] \in [Gate!Forms -> Seq(Pieces)]
BY DEF GateTypeOK

\* Every step of the gateway keeps the invariant: its loops, the adapters, the runs and the sends.
LEMMA GateStep ==
  ASSUME GateInv, [Gate!Next]_gatewayVars
  PROVE  GateInv'
<1>0. GateTypeOK /\ QueueIsWaiting /\ \A m \in Messages : BuffersAgree(m) /\ SentSoFar(m)
  BY DEF GateInv
<1>1. CASE UNCHANGED <<inbound, at, era, reply, output, form, sent>>
  <2>1. GateTypeOK' /\ QueueIsWaiting'
    BY <1>0, <1>1 DEF GateTypeOK, QueueIsWaiting
  <2> QED
    BY <1>0, <1>1, <2>1 DEF GateInv, BuffersAgree, SentSoFar
<1>2. CASE \/ Gate!Connect \/ Gate!ConnectLate \/ Gate!Stop \/ Gate!StopReading
           \/ UNCHANGED gatewayVars
  BY <1>1, <1>2 DEF Gate!Connect, Gate!ConnectLate, Gate!Stop, Gate!StopReading, Gate!settings,
      Gate!run, gatewayVars
<1>3. CASE Gate!Take
  <2> DEFINE m == Head(inbound)
  <2>1. /\ inbound # <<>> /\ at' = [at EXCEPT ![m] = "taken"] /\ inbound' = Tail(inbound)
        /\ UNCHANGED <<reply, era, output, form, sent>>
    BY <1>3 DEF Gate!Take, Gate!run
  <2>2. /\ m \in Messages /\ m = inbound[1] /\ at[m] = "queued"
        /\ inbound' \in Seq(Messages) /\ Len(inbound') = Len(inbound) - 1 /\ Len(inbound) \in Nat
        /\ \A i \in DOMAIN inbound' : inbound'[i] = inbound[i + 1] /\ i + 1 \in DOMAIN inbound
    BY <1>0, <2>1 DEF QueueIsWaiting
  <2> HIDE DEF m
  <2>3. \A i \in DOMAIN inbound' :
          inbound'[i] # m /\ inbound'[i] \in Messages /\ at[inbound'[i]] = "queued"
    BY <1>0, <2>2 DEF QueueIsWaiting
  <2>4. QueueIsWaiting'
    <3>1. \A i, j \in DOMAIN inbound' : inbound'[i] = inbound'[j] => i = j
      BY <1>0, <2>2 DEF QueueIsWaiting
    <3>2. \A i \in DOMAIN inbound' : at'[inbound'[i]] = "queued"
      BY <1>0, <2>1, <2>3 DEF GateTypeOK
    <3> QED
      BY <2>2, <3>1, <3>2 DEF QueueIsWaiting
  <2> QED
    BY <2>1, <2>2, <2>4, MovesOnly
<1>4. ASSUME NEW m \in Messages, Gate!Arrive(m) PROVE GateInv'
  <2>1. PICK stage \in {"ignored", "done", "adapter"} : at' = [at EXCEPT ![m] = stage]
    <3> DEFINE p == CASE Gate!Dropped(Msg[m]) -> "ignored"
                      [] Msg[m].text = "/start" /\ Msg[m].channel = "telegram" -> "done"
                      [] OTHER -> "adapter"
    <3>1. p \in {"ignored", "done", "adapter"}
      OBVIOUS
    <3>2. at' = [at EXCEPT ![m] = p]
      BY <1>4 DEF Gate!Arrive
    <3> QED
      BY <3>1, <3>2
  <2>2. at[m] = "away" /\ UNCHANGED <<inbound, reply, era, output, form, sent>>
    BY <1>4 DEF Gate!Arrive, Gate!run
  <2> QED
    BY <1>0, <2>1, <2>2, QueueStays, MovesOnly DEF GateTypeOK
<1>5. ASSUME NEW m \in Messages, Gate!Enqueue(m) PROVE GateInv'
  <2>1. /\ at[m] = "adapter" /\ at' = [at EXCEPT ![m] = "queued"] /\ inbound' = Append(inbound, m)
        /\ UNCHANGED <<reply, era, output, form, sent>>
    BY <1>5 DEF Gate!Enqueue, Gate!run
  <2>2. /\ inbound' \in Seq(Messages) /\ Len(inbound') = Len(inbound) + 1 /\ Len(inbound) \in Nat
        /\ \A i \in 1..Len(inbound) : inbound'[i] = inbound[i] /\ inbound[i] # m
        /\ inbound'[Len(inbound) + 1] = m
    BY <1>0, <2>1 DEF QueueIsWaiting
  <2>3. QueueIsWaiting'
    <3>1. DOMAIN inbound' = 1..(Len(inbound) + 1) /\ DOMAIN inbound = 1..Len(inbound)
      BY <1>0, <2>2 DEF QueueIsWaiting
    <3>2. \A i, j \in DOMAIN inbound' : inbound'[i] = inbound'[j] => i = j
      BY <1>0, <2>2, <3>1 DEF QueueIsWaiting
    <3>3. \A i \in DOMAIN inbound' : at'[inbound'[i]] = "queued"
      <4>1. \A n \in Messages : at[n] = "queued" => at'[n] = "queued"
        BY <1>0, <2>1 DEF GateTypeOK
      <4>2. at'[m] = "queued"
        BY <1>0, <2>1 DEF GateTypeOK
      <4>3. ASSUME NEW i \in 1..Len(inbound) PROVE at'[inbound'[i]] = "queued"
        BY <1>0, <2>2, <3>1, <4>1 DEF QueueIsWaiting
      <4>4. \A i \in 1..(Len(inbound) + 1) : i \in 1..Len(inbound) \/ i = Len(inbound) + 1
        BY <2>2
      <4> QED
        BY <2>2, <3>1, <4>2, <4>3, <4>4
    <3> QED
      BY <2>2, <3>2, <3>3 DEF QueueIsWaiting
  <2> QED
    BY <2>1, <2>3, MovesOnly
<1>6. ASSUME NEW m \in Messages, Gate!Ignore(m) PROVE GateInv'
  <2>1. /\ at[m] = "taken" /\ at' = [at EXCEPT ![m] = "ignored"]
        /\ UNCHANGED <<inbound, reply, era, output, form, sent>>
    BY <1>6 DEF Gate!Ignore, Gate!run
  <2> QED
    BY <1>0, <2>1, QueueStays, MovesOnly DEF GateTypeOK
<1>7. ASSUME NEW m \in Messages, NEW refused \in BOOLEAN, Gate!StartRun(m, refused) PROVE GateInv'
  <2> DEFINE r == IF refused THEN <<Gate!Sorry>> ELSE <<>>
             stage == IF refused THEN "sending" ELSE "running"
  <2>1. /\ at[m] = "taken" /\ at' = [at EXCEPT ![m] = stage]
        /\ reply' = [reply EXCEPT ![m] = r]
        /\ form' = [form EXCEPT ![m] = "html"]
        /\ UNCHANGED <<inbound, era, output, sent>>
    BY <1>7 DEF Gate!StartRun
  <2>2. /\ Buffers("taken", era[m], reply[m], output[m])
        /\ SentOf("taken", form[m], reply[m], sent[m])
    BY <1>0, <2>1 DEF BuffersAgree, SentSoFar
  <2>3. r \in Seq(Pieces) /\ Len(r) = IF refused THEN 1 ELSE 0
    BY SorryIsPiece
  <2>4. stage \in Stages /\ "html" \in Gate!Forms
    BY DEF Stages, Gate!Forms
  <2>5. reply[m] = <<>> /\ output[m] = <<>> /\ output[m] \in Seq(Pieces)
    BY <1>0, <2>2, AtMessage, SorryComesFirst DEF Buffers
  <2>6. Buffers(stage, era[m], r, output[m])
    BY <2>5, SorryComesFirst DEF Buffers
  <2>7. SentOf(stage, "html", r, sent[m])
    BY <2>2, <2>3 DEF SentOf, IsStart, Gate!Forms
  <2> HIDE DEF r, stage
  <2>10. OnlyOf(m) /\ GateTypeOK'
    BY <1>0, <2>1, <2>3, <2>4, AtMessage DEF GateTypeOK, OnlyOf
  <2>11. /\ at'[m] = stage /\ era'[m] = era[m] /\ reply'[m] = r
         /\ output'[m] = output[m] /\ form'[m] = "html" /\ sent'[m] = sent[m]
    BY <1>0, <2>1 DEF GateTypeOK
  <2> QED
    BY <1>0, <2>1, <2>3, <2>4, <2>6, <2>7, <2>10, <2>11, MessageStep DEF BuffersAgree, SentSoFar
<1>8. ASSUME NEW m \in Messages, Gate!ObserveText(m) PROVE GateInv'
  <2> DEFINE text == [kind |-> "text", era |-> era[m]]
             r == Append(reply[m], text)
             o == Append(output[m], text)
  <2>1. /\ at[m] = "running"
        /\ reply' = [reply EXCEPT ![m] = r] /\ output' = [output EXCEPT ![m] = o]
        /\ UNCHANGED <<inbound, at, era, form, sent>>
    BY <1>8 DEF Gate!ObserveText
  <2>2. /\ Buffers("running", era[m], reply[m], output[m])
        /\ SentOf("running", form[m], reply[m], sent[m])
    BY <1>0, <2>1 DEF BuffersAgree, SentSoFar
  <2>3. text \in Pieces /\ text.kind = "text" /\ text.era = era[m]
    BY <1>0, AtMessage DEF Pieces
  <2> HIDE DEF text
  <2>4. /\ r \in Seq(Pieces) /\ o \in Seq(Pieces) /\ Len(r) = Len(reply[m]) + 1
        /\ Len(reply[m]) \in Nat
    BY <1>0, <2>3, AtMessage
  <2>5. Buffers("running", era[m], r, o)
    <3>1. r \in {o, <<Gate!Sorry>> \o o}
      BY <1>0, <2>2, <2>3, AtMessage, SorryComesFirst DEF Buffers
    <3>2. \A i \in DOMAIN o : o[i].kind = "text" => o[i].era = era[m]
      BY <1>0, <2>2, <2>3, AtMessage DEF Buffers
    <3> QED
      BY <3>1, <3>2 DEF Buffers
  <2>6. SentOf("running", form[m], r, sent[m])
    BY <2>2, <2>4 DEF SentOf, IsStart, Gate!Forms
  <2> HIDE DEF r, o
  <2>10. OnlyOf(m) /\ GateTypeOK'
    BY <1>0, <2>1, <2>4, AtMessage DEF GateTypeOK, OnlyOf
  <2>11. /\ at'[m] = "running" /\ era'[m] = era[m] /\ reply'[m] = r
         /\ output'[m] = o /\ form'[m] = form[m] /\ sent'[m] = sent[m]
    BY <1>0, <2>1 DEF GateTypeOK
  <2> QED
    BY <1>0, <2>1, <2>4, <2>5, <2>6, <2>10, <2>11, MessageStep DEF BuffersAgree, SentSoFar
<1>9. ASSUME NEW m \in Messages, NEW failed \in BOOLEAN, NEW keeps \in BOOLEAN,
             Gate!ObserveTool(m, failed, keeps)
      PROVE  GateInv'
  <2> DEFINE text == IF keeps THEN reply[m] ELSE <<>>
             r == IF failed /\ text = <<>> THEN <<Gate!Sorry>> ELSE text
             o == IF keeps THEN output[m] ELSE <<>>
             e == IF keeps THEN era[m] ELSE era[m] + 1
  <2>1. /\ at[m] = "running"
        /\ reply' = [reply EXCEPT ![m] = r] /\ output' = [output EXCEPT ![m] = o]
        /\ era' = [era EXCEPT ![m] = e]
        /\ UNCHANGED <<inbound, at, form, sent>>
    BY <1>9 DEF Gate!ObserveTool, Gate!AfterTool, Gate!OutputAfterTool, Gate!Apologising
  <2>2. /\ Buffers("running", era[m], reply[m], output[m])
        /\ SentOf("running", form[m], reply[m], sent[m])
    BY <1>0, <2>1 DEF BuffersAgree, SentSoFar
  <2>3. r \in Seq(Pieces) /\ o \in Seq(Pieces) /\ e \in Nat
    BY <1>0, AtMessage, SorryIsPiece
  <2>4. Buffers("running", e, r, o)
    BY <1>0, <2>2, AtMessage, SorryComesFirst DEF Buffers
  <2>5. SentOf("running", form[m], r, sent[m])
    BY <2>2, <2>3 DEF SentOf, IsStart, Gate!Forms
  <2> HIDE DEF r, o, e, text
  <2>10. OnlyOf(m) /\ GateTypeOK'
    BY <1>0, <2>1, <2>3, <2>4, AtMessage DEF GateTypeOK, OnlyOf
  <2>11. /\ at'[m] = "running" /\ era'[m] = e /\ reply'[m] = r
         /\ output'[m] = o /\ form'[m] = form[m] /\ sent'[m] = sent[m]
    BY <1>0, <2>1 DEF GateTypeOK
  <2> QED
    BY <1>0, <2>1, <2>3, <2>4, <2>5, <2>10, <2>11, MessageStep DEF BuffersAgree, SentSoFar
<1>10. ASSUME NEW m \in Messages, NEW failed \in BOOLEAN, Gate!RunEnds(m, failed) PROVE GateInv'
  <2> DEFINE r == IF failed /\ reply[m] = <<>> THEN <<Gate!Sorry>> ELSE reply[m]
             stage == IF r = <<>> THEN "done" ELSE "sending"
  <2>1. /\ at[m] = "running" /\ at' = [at EXCEPT ![m] = stage]
        /\ reply' = [reply EXCEPT ![m] = r]
        /\ UNCHANGED <<inbound, era, output, form, sent>>
    BY <1>10 DEF Gate!RunEnds, Gate!Apologising
  <2>2. /\ Buffers("running", era[m], reply[m], output[m])
        /\ SentOf("running", form[m], reply[m], sent[m])
    BY <1>0, <2>1 DEF BuffersAgree, SentSoFar
  <2>3. r \in Seq(Pieces) /\ stage \in Stages /\ (r # <<>> => Len(r) > 0)
    <3>1. r \in Seq(Pieces) /\ stage \in Stages
      BY <1>0, AtMessage, SorryIsPiece DEF Stages
    <3> HIDE DEF r
    <3> QED
      BY <3>1
  <2>4. Buffers(stage, era[m], r, output[m])
    BY <1>0, <2>2, AtMessage, SorryComesFirst DEF Buffers
  <2>5. SentOf(stage, form[m], r, sent[m])
    BY <1>0, <2>2, <2>3, AtMessage DEF SentOf, IsStart, Gate!Forms
  <2> HIDE DEF r, stage
  <2>10. OnlyOf(m) /\ GateTypeOK'
    BY <1>0, <2>1, <2>3, <2>4, AtMessage DEF GateTypeOK, OnlyOf
  <2>11. /\ at'[m] = stage /\ era'[m] = era[m] /\ reply'[m] = r
         /\ output'[m] = output[m] /\ form'[m] = form[m] /\ sent'[m] = sent[m]
    BY <1>0, <2>1 DEF GateTypeOK
  <2> QED
    BY <1>0, <2>1, <2>3, <2>4, <2>5, <2>10, <2>11, MessageStep DEF BuffersAgree, SentSoFar
<1>11. ASSUME NEW m \in Messages, Gate!SendPiece(m) PROVE GateInv'
  <2> DEFINE f == form[m]
             n == Len(sent[m][f]) + 1
             s == [sent[m] EXCEPT ![f] = Append(@, reply[m][n])]
             stage == IF n = Len(reply[m]) THEN "done" ELSE "sending"
  <2>1. /\ at[m] = "sending" /\ at' = [at EXCEPT ![m] = stage]
        /\ sent' = [sent EXCEPT ![m] = s]
        /\ UNCHANGED <<inbound, era, reply, output, form>>
    BY <1>11 DEF Gate!SendPiece, Gate!Taken, Gate!run
  <2>2. /\ Buffers("sending", era[m], reply[m], output[m])
        /\ SentOf("sending", f, reply[m], sent[m])
    BY <1>0, <2>1 DEF BuffersAgree, SentSoFar
  <2>3. /\ f \in Gate!Forms /\ stage \in Stages /\ sent[m][f] \in Seq(Pieces)
        /\ n \in 1..Len(reply[m]) /\ reply[m][n] \in Pieces
    <3>1. /\ f \in Gate!Forms /\ sent[m][f] \in Seq(Pieces) /\ reply[m] \in Seq(Pieces)
          /\ stage \in Stages
      BY <1>0, AtMessage DEF Stages
    <3>2. Len(sent[m][f]) < Len(reply[m])
      BY <2>2 DEF SentOf
    <3> QED
      BY <3>1, <3>2
  <2>4. /\ s \in [Gate!Forms -> Seq(Pieces)] /\ s[f] = Append(sent[m][f], reply[m][n])
        /\ Len(s[f]) = n
        /\ \A g \in Gate!Forms \ {f} : s[g] = sent[m][g]
    BY <1>0, <2>3, AtMessage
  <2>5. Buffers(stage, era[m], reply[m], output[m])
    BY <2>2 DEF Buffers
  <2>6. IsStart(s[f], reply[m])
    BY <2>2, <2>3, <2>4 DEF SentOf, IsStart
  <2>7. stage = "done" => s[f] = reply[m]
    <3>1. s[f] \in Seq(Pieces) /\ reply[m] \in Seq(Pieces) /\ Len(s[f]) = n
      BY <1>0, <2>3, <2>4, AtMessage
    <3> HIDE DEF s, n
    <3> SUFFICES ASSUME n = Len(reply[m]) PROVE s[f] = reply[m]
      OBVIOUS
    <3> QED
      BY <2>6, <3>1, SeqEqual DEF IsStart
  <2> HIDE DEF s
  <2>8. SentOf(stage, f, reply[m], s)
    <3>1. \A g \in Gate!Forms : IsStart(s[g], reply[m])
      BY <2>2, <2>4, <2>6 DEF SentOf
    <3>2. stage \in {"sending", "done"} /\ (stage = "sending" => n < Len(reply[m]))
      BY <2>3
    <3>3. f # "plain" => s["plain"] = <<>>
      BY <2>2, <2>4 DEF SentOf, Gate!Forms
    <3> QED
      BY <2>4, <2>7, <3>1, <3>2, <3>3 DEF SentOf
  <2> HIDE DEF stage, f
  <2>10. OnlyOf(m) /\ GateTypeOK'
    BY <1>0, <2>1, <2>3, <2>4, AtMessage DEF GateTypeOK, OnlyOf
  <2>11. /\ at'[m] = stage /\ era'[m] = era[m] /\ reply'[m] = reply[m]
         /\ output'[m] = output[m] /\ form'[m] = f /\ sent'[m] = s
    BY <1>0, <2>1 DEF GateTypeOK, f
  <2> QED
    BY <1>0, <2>1, <2>3, <2>4, <2>5, <2>8, <2>10, <2>11, MessageStep DEF BuffersAgree, SentSoFar
<1>12. ASSUME NEW m \in Messages, Gate!SendFails(m) PROVE GateInv'
  <2>1. /\ at[m] = "sending" /\ UNCHANGED <<inbound, era, reply, output, sent>>
        /\ \/ form[m] = "html" /\ form' = [form EXCEPT ![m] = "plain"] /\ at' = at
           \/ form' = form /\ at' = [at EXCEPT ![m] = "given up"]
    BY <1>12 DEF Gate!SendFails
  <2>2. /\ Buffers("sending", era[m], reply[m], output[m])
        /\ SentOf("sending", form[m], reply[m], sent[m])
    BY <1>0, <2>1 DEF BuffersAgree, SentSoFar
  <2>3. CASE form[m] = "html" /\ form' = [form EXCEPT ![m] = "plain"] /\ at' = at
    <3>1. "plain" \in Gate!Forms /\ SentOf("sending", "plain", reply[m], sent[m])
      BY <1>0, <2>2, <2>3, AtMessage DEF SentOf, Gate!Forms
    <3>2. OnlyOf(m) /\ GateTypeOK'
      BY <1>0, <2>1, <2>3, <3>1 DEF GateTypeOK, OnlyOf
    <3>3. at'[m] = "sending" /\ form'[m] = "plain"
      BY <1>0, <2>1, <2>3 DEF GateTypeOK
    <3> QED
      BY <1>0, <2>1, <2>2, <3>1, <3>2, <3>3, MessageStep DEF BuffersAgree, SentSoFar
  <2>4. CASE form' = form /\ at' = [at EXCEPT ![m] = "given up"]
    <3>1. /\ "given up" \in Stages /\ Buffers("given up", era[m], reply[m], output[m])
          /\ SentOf("given up", form[m], reply[m], sent[m])
      BY <2>2 DEF Buffers, SentOf, Stages
    <3>2. OnlyOf(m) /\ GateTypeOK'
      BY <1>0, <2>1, <2>4, <3>1 DEF GateTypeOK, OnlyOf
    <3>3. at'[m] = "given up"
      BY <1>0, <2>4 DEF GateTypeOK
    <3> QED
      BY <1>0, <2>1, <2>4, <3>1, <3>2, <3>3, MessageStep DEF BuffersAgree, SentSoFar
  <2> QED
    BY <2>1, <2>3, <2>4
<1> QED
  BY <1>2, <1>3, <1>4, <1>5, <1>6, <1>7, <1>8, <1>9, <1>10, <1>11, <1>12
  DEF Gate!Next, Gate!Answer, Gate!Deliver, Gate!Messages, Messages

\* The gateway begins with the invariant.
LEMMA GateInit == ASSUME Gate!Init PROVE GateInv
<1>1. GateTypeOK /\ QueueIsWaiting
  BY DEF Gate!Init, GateTypeOK, QueueIsWaiting, Stages, Gate!Messages, Messages, Gate!Forms,
      Gate!None
<1>2. ASSUME NEW m \in Messages PROVE BuffersAgree(m) /\ SentSoFar(m)
  BY <1>2 DEF Gate!Init, Gate!Messages, Messages, Gate!Forms, Gate!None, BuffersAgree, Buffers,
      SentSoFar, SentOf, IsStart
<1> QED
  BY <1>1, <1>2 DEF GateInv

\* The invariant says what RepliesAreFinal asks: a piece that was sent is one of the reply, and a
\* piece of the reply an apology or one of the record.
LEMMA GateSays == ASSUME GateInv PROVE Gate!RepliesAreFinal
<1>1. ASSUME NEW m \in Messages, NEW f \in Gate!Forms, NEW i \in DOMAIN sent[m][f],
             sent[m][f][i].kind = "text"
      PROVE  sent[m][f][i].era = era[m]
  <2>1. /\ sent[m][f] \in Seq(Pieces) /\ reply[m] \in Seq(Pieces) /\ output[m] \in Seq(Pieces)
        /\ i \in 1..Len(sent[m][f])
    BY DEF GateInv, GateTypeOK
  <2>2. i \in 1..Len(reply[m]) /\ sent[m][f][i] = reply[m][i]
    <3>1. IsStart(sent[m][f], reply[m])
      BY DEF GateInv, SentSoFar, SentOf
    <3> QED
      BY <2>1, <3>1 DEF IsStart
  <2>3. Buffers(at[m], era[m], reply[m], output[m])
    BY DEF GateInv, BuffersAgree
  <2>4. CASE reply[m] = output[m]
    BY <1>1, <2>1, <2>2, <2>3, <2>4 DEF Buffers
  <2>5. CASE reply[m] = <<Gate!Sorry>> \o output[m]
    <3>1. i # 1
      BY <1>1, <2>1, <2>2, <2>5 DEF Gate!Sorry
    <3>2. i - 1 \in DOMAIN output[m] /\ reply[m][i] = output[m][i - 1]
      BY <2>1, <2>2, <2>5, <3>1, SorryIsPiece
    <3> QED
      BY <1>1, <2>2, <2>3, <3>2 DEF Buffers
  <2> QED
    BY <2>3, <2>4, <2>5 DEF Buffers
<1>2. ASSUME NEW m \in Messages, at[m] = "done"
      PROVE  sent[m][form[m]] \in {output[m], <<Gate!Sorry>> \o output[m]}
  BY <1>2 DEF GateInv, BuffersAgree, Buffers, SentSoFar, SentOf
<1> QED
  BY <1>1, <1>2 DEF Gate!RepliesAreFinal, Gate!SaysTheLast, Gate!SaysTheRecord, Gate!Taken,
      Gate!Messages, Messages

\* What a user is sent holds no text from before the last tool that ended an era, in either form,
\* and a reply sent to its end is what the run was recorded with, but for an apology before it
\* (RepliesAreFinal), for any messages, bindings, policies and capacity of the queue.
THEOREM RepliesSayTheLast == Spec => []RepliesAreFinal
<1> DEFINE Inv == subject = "gateway" => GateInv
<1>1. Init => Inv
  BY GateInit DEF Init
<1>2. Inv /\ [Next]_vars => Inv'
  <2> SUFFICES ASSUME Inv, [Next]_vars, subject' = "gateway" PROVE GateInv'
    OBVIOUS
  <2>1. subject = "gateway" /\ [Gate!Next]_gatewayVars
    BY DEF Next, OfAgent, OfGateway, OfTurn, OfProject, vars
  <2> QED
    BY <2>1, GateStep
<1>3. Inv => RepliesAreFinal
  BY GateSays DEF RepliesAreFinal
<1> QED
  BY <1>1, <1>2, <1>3, PTL DEF Spec

-----------------------------------------------------------------------------
(* The turn and its timer. *)

\* While the turn is active its timer runs behind the quiet time: what has passed on it is quiet,
\* and a callback is on its way only if the whole timeout was.
TimerLags ==
  state = "active" =>
    /\ left \in 0..IdleTimeout => IdleTimeout - left <= quiet
    /\ firing => idled

\* The inductive invariant of a turn.
TurnInv ==
  /\ left \in 0..Clock!Off /\ quiet \in 0..IdleTimeout /\ idled \in BOOLEAN
  /\ quiet = IdleTimeout => idled
  /\ TimerLags /\ Clock!OnlyIdleTimesOut

\* A touch resets the timer of an active turn with the quiet time.
LEMMA TouchedKeeps ==
  ASSUME TurnInv, Clock!Touched, UNCHANGED <<state, firing, idled>>
  PROVE  TurnInv'
BY IdleAssumption DEF TurnInv, TimerLags, Clock!OnlyIdleTimesOut, Clock!Touched, Clock!Reset,
    Clock!Off

\* Every step of a turn keeps the invariant: the clock, the callback, activity, the contexts.
LEMMA TurnStep ==
  ASSUME TurnInv, [Clock!TNext]_turnVars
  PROVE  TurnInv'
<1> USE IdleAssumption DEF TurnInv, TimerLags, Clock!OnlyIdleTimesOut, Clock!Off, Clock!timer,
    Clock!time, Clock!work
<1>1. CASE Clock!Tick
  <2>1. idled' \in BOOLEAN /\ (idled \/ quiet' = IdleTimeout <=> idled')
    BY <1>1 DEF Clock!Tick
  <2>2. /\ left' = IF left \in 1..IdleTimeout THEN left - 1 ELSE left
        /\ quiet' = IF quiet < IdleTimeout THEN quiet + 1 ELSE quiet
        /\ UNCHANGED <<state, firing>>
    BY <1>1 DEF Clock!Tick
  <2> QED
    BY <2>1, <2>2
<1>2. CASE Clock!Fire \/ Clock!HandleTimeout
  BY <1>2 DEF Clock!Fire, Clock!HandleTimeout
<1>3. CASE Clock!RootActs \/ \E t \in Tasks : Clock!TaskActs(t)
  BY <1>3, TouchedKeeps DEF Clock!RootActs, Clock!TaskActs
<1>4. ASSUME NEW t \in Tasks, Clock!Submit(t) PROVE TurnInv'
  <2>1. CASE stored
    BY <1>4, <2>1, TouchedKeeps DEF Clock!Submit
  <2>2. CASE ~stored
    BY <1>4, <2>2 DEF Clock!Submit
  <2> QED
    BY <2>1, <2>2
<1>5. CASE \/ Clock!RootHangs \/ Clock!CancelRun \/ Clock!CancelTurn \/ Clock!ContextEnds
           \/ \E t \in Tasks : Clock!TaskHangs(t)
  BY <1>5 DEF Clock!RootHangs, Clock!CancelRun, Clock!CancelTurn, Clock!ContextEnds, Clock!TaskHangs
<1>6. CASE Clock!Watch \/ Clock!Ends
  BY <1>6 DEF Clock!Watch, Clock!Ends, Clock!RootEnds, Clock!TaskEnds
<1>7. CASE UNCHANGED turnVars
  BY <1>7 DEF turnVars
<1> QED
  BY <1>1, <1>2, <1>3, <1>4, <1>5, <1>6, <1>7 DEF Clock!TNext

\* A turn that timed out was idle for a whole timeout, though its callback may have waited for the
\* lock while activity reset the timer (OnlyIdleTimesOut), for any timeout and any child tasks.
THEOREM TimeoutsAreIdle == Spec => []OnlyIdleTimesOut
<1> DEFINE Inv == subject = "turn" => TurnInv
<1>1. Init => Inv
  <2> SUFFICES ASSUME Init, subject = "turn" PROVE TurnInv
    OBVIOUS
  <2>0. Clock!TInit
    BY DEF Init
  <2>1. /\ left \in 0..Clock!Off /\ quiet \in 0..IdleTimeout
        /\ quiet # IdleTimeout /\ IdleTimeout - left <= quiet
    BY <2>0, IdleAssumption DEF Clock!TInit, Clock!Off
  <2>2. idled \in BOOLEAN /\ ~firing /\ state # "timed_out"
    BY <2>0 DEF Clock!TInit
  <2> QED
    BY <2>1, <2>2 DEF TurnInv, TimerLags, Clock!OnlyIdleTimesOut
<1>2. Inv /\ [Next]_vars => Inv'
  <2> SUFFICES ASSUME Inv, [Next]_vars, subject' = "turn" PROVE TurnInv'
    OBVIOUS
  <2>1. subject = "turn" /\ [Clock!TNext]_turnVars
    BY DEF Next, OfAgent, OfGateway, OfTurn, OfProject, vars
  <2> QED
    BY <2>1, TurnStep
<1>3. Inv => OnlyIdleTimesOut
  BY DEF TurnInv, OnlyIdleTimesOut
<1> QED
  BY <1>1, <1>2, <1>3, PTL DEF Spec

-----------------------------------------------------------------------------
(* The project and its reloads. *)

\* A configuration binds its entry, if it has one.
EntryIsBound(config) == config.entry \subseteq {config.first}

\* The configuration that the reload under way has put, or will put, in force.
Loaded == reloads[1].config

\* The skills are set with the resources.
SkillsFollow == deps.skills = deps.resources
\* The resources are those of the configuration, or its catalogue was not built.
Catalogued == deps.resources = deps.config \/ uncatalogued
\* All parts are of one configuration.
AllAgree ==
  /\ Catalogued
  /\ deps.providers = deps.config /\ result = deps.config /\ SkillsFollow
  /\ router.bound = deps.config.first /\ EntryIsBound(deps.config)

\* What the parts that a reload has already set, and those it has not, are of when it takes a part.
Progress(part) ==
  /\ part \in {"load", "config"} => AllAgree
  /\ part \notin {"load", "config"} => deps.config = Loaded
  /\ part \in {"resources", "skills", "gateway", "result"} => deps.providers = Loaded
  /\ part = "skills" => deps.resources = Loaded
  /\ part \in {"gateway", "result"} => Catalogued
  /\ part # "skills" => SkillsFollow
  /\ part = "result" => router.bound = Loaded.first
  /\ part # "load" => EntryIsBound(Loaded)

\* The parts a reload takes, in order.
Parts == {"load", "config", "providers", "resources", "skills", "gateway", "result"}

\* The inductive invariant: until two reloads have been under way at once there is at most one, and
\* the parts are as far as it is.
ReloadInv ==
  /\ overlapped \in BOOLEAN
  /\ router.fallback = fallback
  /\ deps = [config |-> deps.config, providers |-> deps.providers, resources |-> deps.resources,
      skills |-> deps.skills]
  /\ ~overlapped =>
       \/ reloads = <<>> /\ AllAgree
       \/ /\ \E part \in Parts : \E config, built : reloads = <<Project!Applies(part, config, built)>>
          /\ Progress(reloads[1].part)

\* A project that loads has at most one entry, and its configuration binds it.
LEMMA LoadedBindsItsEntry ==
  ASSUME NEW d, Project!Loadable(d)
  PROVE  EntryIsBound(Project!RuntimeConfig(d))
<1> DEFINE unique == Project!UniqueEntry(d)
           top == Project!RootAgent(d)
           only == Project!OnlyAgent(d)
           entry == IF unique # {} THEN unique ELSE IF only # {} THEN only ELSE top
<1>1. \A x, y \in unique : x = y
  BY DEF Project!UniqueEntry, Project!Loadable, Project!AgentsAccepted
<1>2. \A x, y \in top : x = y
  BY DEF Project!RootAgent
<1>3. only # {} => \A x, y \in Project!AgentFiles(d) : x = y
  BY DEF Project!OnlyAgent
<1>4. only # {} => only = {Project!IdOf(d, at_) : at_ \in Project!AgentFiles(d)}
  BY DEF Project!OnlyAgent
<1>5. only # {} /\ top # {} => only = top
  BY <1>3, <1>4 DEF Project!RootAgent
<1>6. Project!SelectEntry(d) \subseteq entry /\ \A x, y \in entry : x = y
  BY <1>1, <1>2, <1>3, <1>4, <1>5 DEF Project!SelectEntry
<1> HIDE DEF entry
<1>7. entry # {} => entry \subseteq {CHOOSE a \in entry : TRUE}
  BY <1>6
<1> QED
  BY <1>6, <1>7 DEF EntryIsBound, Project!RuntimeConfig, entry
\* Every step of the project keeps the invariant: the edits, the watcher, and each part of a reload.
LEMMA ReloadStep ==
  ASSUME ReloadInv, [Project!Next]_projectVars
  PROVE  ReloadInv'
<1> USE DEF Project!InForce, Project!Watching
<1>1. CASE UNCHANGED <<reloads, deps, uncatalogued, router, result, fallback, overlapped>>
  BY <1>1 DEF ReloadInv, AllAgree, SkillsFollow, Catalogued, Progress, Loaded
<1>2. CASE \/ \E d \in Dirs, content \in Contents : Project!EditAgent(d, content)
           \/ \E content \in Manifests : Project!EditManifest(content)
           \/ \E d \in Dirs : Project!MakeDir(d) \/ Project!RemoveDir(d)
           \/ Project!Notice \/ UNCHANGED projectVars
  BY <1>1, <1>2 DEF Project!EditAgent, Project!EditManifest, Project!MakeDir, Project!RemoveDir,
      Project!Notice, projectVars
<1>3. CASE Project!DebounceEnds
  <2>1. /\ reloads' = Append(reloads, Project!Applies("load", deps.config, FALSE))
        /\ overlapped' = (overlapped \/ reloads # <<>>)
        /\ UNCHANGED <<deps, uncatalogued, router, result, fallback>>
    BY <1>3 DEF Project!DebounceEnds
  <2> DEFINE r == Project!Applies("load", deps.config, FALSE)
  <2>2. CASE overlapped \/ reloads # <<>>
    BY <2>1, <2>2 DEF ReloadInv
  <2>3. CASE ~overlapped /\ reloads = <<>>
    <3>1. reloads' = <<r>> /\ reloads'[1].part = "load"
      BY <2>1, <2>3 DEF Project!Applies
    <3>2. AllAgree' /\ SkillsFollow'
      BY <2>1, <2>3 DEF ReloadInv, AllAgree, SkillsFollow, Catalogued
    <3> QED
      BY <2>1, <2>3, <3>1, <3>2 DEF ReloadInv, Progress, Parts
  <2> QED
    BY <2>2, <2>3
<1>4. CASE Project!SaveConfig
  BY <1>4 DEF Project!SaveConfig, ReloadInv
<1>5. ASSUME NEW i \in DOMAIN reloads, Project!Reloads(i) PROVE ReloadInv'
  <2>1. UNCHANGED <<overlapped,
      fallback>> /\ (UNCHANGED router \/ router' = Project!RouterOf(reloads[i].config))
    BY <1>5 DEF Project!Reloads, Project!LoadFails, Project!LoadSucceeds, Project!UpdateConfig,
        Project!SetProviders,
         Project!SetResources, Project!SetSkills, Project!ApplyRuntimeConfig, Project!Applied
  <2>2. router'.fallback = fallback'
    BY <2>1 DEF ReloadInv, Project!RouterOf
  <2>3. deps' = [config |-> deps'.config, providers |-> deps'.providers,
      resources |-> deps'.resources, skills |-> deps'.skills]
    BY <1>5 DEF ReloadInv, Project!Reloads, Project!LoadFails, Project!LoadSucceeds,
        Project!UpdateConfig, Project!SetProviders,
         Project!SetResources, Project!SetSkills, Project!ApplyRuntimeConfig, Project!Applied
  <2>4. CASE overlapped
    BY <2>1, <2>2, <2>3, <2>4 DEF ReloadInv
  <2>5. CASE ~overlapped
    <3>0. PICK part \in Parts :
              \E config, built : reloads = <<Project!Applies(part, config, built)>>
      BY <1>5, <2>5 DEF ReloadInv
    <3>1. PICK config, built : reloads = <<Project!Applies(part, config, built)>>
      BY <3>0
    <3>2. i = 1 /\ reloads[i] = Project!Applies(part, config, built) /\ Len(reloads) = 1
      BY <1>5, <3>1
    <3>3. /\ Loaded = config /\ reloads[i].config = config
          /\ reloads[i].part = part /\ reloads[i].built = built /\ Progress(part)
      BY <2>5, <3>1, <3>2 DEF ReloadInv, Loaded, Project!Applies
    <3>4. Project!Without(i) = <<>>
      BY <3>1, <3>2 DEF Project!Without, Project!RemoveAt
    <3>5. ASSUME NEW p, Project!GoesOn(i, p)
          PROVE  reloads' = <<Project!Applies(p, config, built)>> /\ Loaded' = config
      BY <3>1, <3>2, <3>5 DEF Project!GoesOn, Project!Applies, Loaded
    <3>6. SUFFICES \/ reloads' = <<>> /\ AllAgree'
                   \/ \E p \in Parts : \E c, b : /\ reloads' = <<Project!Applies(p, c, b)>>
                                                   /\ Progress(p)'
      BY <2>1, <2>2, <2>3 DEF ReloadInv, Project!Applies
    <3>7. CASE Project!LoadFails(i)
      <4>1. part = "load" /\ reloads' = <<>> /\ UNCHANGED <<deps, uncatalogued, router, result>>
        BY <3>3, <3>4, <3>7 DEF Project!LoadFails
      <4> QED
        BY <3>3, <3>6, <4>1 DEF Progress, AllAgree, SkillsFollow, Catalogued
    <3>8. CASE Project!LoadSucceeds(i)
      <4> DEFINE new == Project!RuntimeConfig(disk)
      <4>1. PICK b \in BOOLEAN : reloads' = [reloads EXCEPT ![i] = Project!Applies("config", new,
          b)]
        BY <3>8 DEF Project!LoadSucceeds
      <4>2. part = "load" /\ Project!Loadable(disk) /\ UNCHANGED <<deps, uncatalogued, router, result>>
        BY <3>3, <3>8 DEF Project!LoadSucceeds
      <4>3. EntryIsBound(new)
        BY <4>2, LoadedBindsItsEntry
      <4> HIDE DEF new
      <4>4. reloads' = <<Project!Applies("config", new, b)>> /\ Loaded' = new
        BY <3>1, <3>2, <4>1 DEF Loaded, Project!Applies
      <4>5. AllAgree' /\ SkillsFollow'
        BY <3>3, <4>2 DEF Progress, AllAgree, SkillsFollow, Catalogued
      <4>6. Progress("config")'
        BY <4>3, <4>4, <4>5 DEF Progress
      <4> QED
        BY <3>6, <4>4, <4>6 DEF Parts
    <3>9. CASE Project!UpdateConfig(i)
      <4>1. part = "config" /\ Project!GoesOn(i, "providers") /\ deps'.config = config
            /\ deps'.resources = deps.resources /\ deps'.skills = deps.skills
        BY <3>3, <3>9 DEF Project!UpdateConfig, ReloadInv
      <4>2. Progress("providers")'
        BY <3>3, <3>5, <4>1 DEF Progress, SkillsFollow, Catalogued
      <4> QED
        BY <3>5, <3>6, <4>1, <4>2 DEF Parts
    <3>10. CASE Project!SetProviders(i)
      <4> DEFINE next == IF built THEN "resources" ELSE "gateway"
      <4>1. part = "providers" /\ Project!GoesOn(i, next) /\ deps'.config = deps.config
            /\ deps'.providers = config /\ deps'.resources = deps.resources
            /\ deps'.skills = deps.skills /\ uncatalogued' = ~built
        BY <3>3, <3>10 DEF Project!SetProviders, ReloadInv
      <4>2. next \in {"resources", "gateway"} /\ (next = "gateway" => uncatalogued')
        BY <4>1
      <4> HIDE DEF next
      <4>3. Progress(next)'
        BY <3>3, <3>5, <4>1, <4>2 DEF Progress, SkillsFollow, Catalogued
      <4> QED
        BY <3>5, <3>6, <4>1, <4>2, <4>3 DEF Parts
    <3>11. CASE Project!SetResources(i)
      <4>1. part = "resources" /\ Project!GoesOn(i, "skills") /\ deps'.config = deps.config
            /\ deps'.providers = deps.providers /\ deps'.resources = config
        BY <3>3, <3>11 DEF Project!SetResources, ReloadInv
      <4>2. Progress("skills")'
        BY <3>3, <3>5, <4>1 DEF Progress
      <4> QED
        BY <3>5, <3>6, <4>1, <4>2 DEF Parts
    <3>12. CASE Project!SetSkills(i)
      <4>1. part = "skills" /\ Project!GoesOn(i, "gateway") /\ deps'.config = deps.config
            /\ deps'.providers = deps.providers /\ deps'.resources = deps.resources
            /\ deps'.skills = config /\ UNCHANGED uncatalogued
        BY <3>3, <3>12 DEF Project!SetSkills, ReloadInv
      <4>2. Progress("gateway")'
        BY <3>3, <3>5, <4>1 DEF Progress, SkillsFollow, Catalogued
      <4> QED
        BY <3>5, <3>6, <4>1, <4>2 DEF Parts
    <3>13. CASE Project!ApplyRuntimeConfig(i)
      <4>1. /\ part = "gateway" /\ Project!GoesOn(i, "result") /\ UNCHANGED <<deps, uncatalogued>>
            /\ router'.bound = config.first
        BY <3>3, <3>13 DEF Project!ApplyRuntimeConfig, Project!RouterOf
      <4>2. Progress("result")'
        BY <3>3, <3>5, <4>1 DEF Progress, SkillsFollow, Catalogued
      <4> QED
        BY <3>5, <3>6, <4>1, <4>2 DEF Parts
    <3>14. CASE Project!Applied(i)
      <4>1. part = "result" /\ reloads' = <<>> /\ UNCHANGED <<deps, uncatalogued, router>> /\ result' = config
        BY <3>3, <3>4, <3>14 DEF Project!Applied
      <4> QED
        BY <3>3, <3>6, <4>1 DEF Progress, AllAgree, SkillsFollow, Catalogued
    <3> QED
      BY <1>5, <3>7, <3>8, <3>9, <3>10, <3>11, <3>12, <3>13, <3>14 DEF Project!Reloads
  <2> QED
    BY <2>4, <2>5
<1> QED
  BY <1>2, <1>3, <1>4, <1>5 DEF Project!Next, Project!SomeReload

\* The launch builds every part from one configuration.
LEMMA ReloadInit ==
  ASSUME Project!Init
  PROVE  ReloadInv
<1>1. Project!Loadable(disk)
  BY DEF Project!Init
<1>2. EntryIsBound(Project!RuntimeConfig(disk))
  BY <1>1, LoadedBindsItsEntry
<1> DEFINE config == Project!RuntimeConfig(disk)
<1>3. /\ deps = Project!BuiltFrom(config) /\ result = config /\ reloads = <<>> /\ overlapped = FALSE
      /\ router.bound = config.first /\ router.fallback = fallback /\ uncatalogued = FALSE
  BY DEF Project!Init
<1> HIDE DEF config
<1> QED
  BY <1>2, <1>3 DEF config, ReloadInv, AllAgree, SkillsFollow, Catalogued, Project!BuiltFrom

\* The invariant says what PartsAgree asks between reloads.
LEMMA ReloadAgrees ==
  ASSUME ReloadInv
  PROVE  Project!PartsAgree
BY DEF ReloadInv, AllAgree, SkillsFollow, Catalogued, EntryIsBound, Project!PartsAgree, Project!Applies

\* Between reloads configuration, providers, router and result are of one project, and the
\* router binds its entry; resources and skills are of that project too unless its catalogue
\* could not be built, and then both of one earlier project (PartsAgree): for any directories,
\* edits and contents, as long as no two reloads ran at once.
THEOREM ReloadsKeepPartsTogether == Spec => []PartsAgree
<1> DEFINE Inv == subject = "project" => ReloadInv
<1>1. Init => Inv
  BY ReloadInit DEF Init
<1>2. Inv /\ [Next]_vars => Inv'
  <2> SUFFICES ASSUME Inv, [Next]_vars, subject' = "project" PROVE ReloadInv'
    OBVIOUS
  <2>1. subject = "project" /\ [Project!Next]_projectVars
    BY DEF Next, OfAgent, OfGateway, OfTurn, OfProject, vars
  <2> QED
    BY <2>1, ReloadStep
<1>3. Inv => PartsAgree
  BY ReloadAgrees DEF PartsAgree
<1> QED
  BY <1>1, <1>2, <1>3, PTL DEF Spec
=============================================================================
