-------------------------------- MODULE Surfaces --------------------------------
(***************************************************************************)
(* The components whose work must come to an end, in one specification: an *)
(* agent's run, the gateway's channels, a turn and its timer, the project  *)
(* watcher.  They share nothing here, so a behaviour is of one.            *)
(***************************************************************************)
EXTENDS Integers, Sequences

CONSTANTS MaxTurns, MaxAttempts, MaxAutoSteps, Batches, Plans    \* of AgentRun
CONSTANTS Msg, Capacity, MaxEvents, BindingLists, Fallback, Policies  \* of Gateway
CONSTANTS Tasks, IdleTimeout                                     \* of Turn
CONSTANTS Dirs, Artifacts, Starts, Contents, Manifests, MaxEdits, MaxReloads  \* of Reload

StepStates == {"pending", "running", "completed", "failed", "skipped"}
PlanStates == {"draft", "running", "paused", "completed", "failed"}
PlanSteps == Seq([kind: STRING, state: StepStates, deps: SUBSET Nat])
AllPlans == [state: PlanStates, steps: PlanSteps]

\* An answer calls a list of tools, a plan has a list of steps.
ASSUME BatchesAssumption == Batches \subseteq Seq(STRING)
ASSUME PlansAssumption == Plans \subseteq AllPlans
\* The turn's timeout is not zero.
ASSUME IdleAssumption == IdleTimeout \in Nat \ {0}

VARIABLE subject  \* the component this behaviour is of; the variables of the others are 0

VARIABLES controller, turn, attempt, ctx, agentEnded, loop, goal, todo, plan, calls, place,
          unanswered, autos
VARIABLES bindings, policy, client, reading, inbound, at, routed, reply, era, output,
          emitted, form, sent
VARIABLES state, ended, left, firing, watching, stored, stop, root, task, quiet, idled
VARIABLES disk, watched, noticed, armed, reloads, deps, router, result, fallback, edits,
          uncatalogued, unseen, overlapped

Agent == INSTANCE AgentRun WITH at <- controller, ended <- agentEnded
Gate == INSTANCE Gateway
Clock == INSTANCE Turn WITH Idle <- IdleTimeout
Project == INSTANCE Reload

agentVars == <<controller, turn, attempt, ctx, agentEnded, loop, goal, todo, plan, calls, place,
    unanswered, autos>>
gatewayVars == <<bindings, policy, client, reading, inbound, at, routed, reply, era, output, emitted,
    form, sent>>
turnVars == <<state, ended, left, firing, watching, stored, stop, root, task, quiet, idled>>
projectVars == <<disk, watched, noticed, armed, reloads, deps, router, result, fallback, edits, uncatalogued,
    unseen, overlapped>>

agentIdle == controller = 0 /\ turn = 0 /\ attempt = 0 /\ ctx = 0 /\ agentEnded = 0 /\ loop = 0 /\ goal = 0 /\
    todo = 0 /\ plan = 0 /\ calls = 0 /\ place = 0 /\ unanswered = 0 /\ autos = 0
gatewayIdle == bindings = 0 /\ policy = 0 /\ client = 0 /\ reading = 0 /\ inbound = 0 /\ at = 0 /\ routed = 0 /\
    reply = 0 /\ era = 0 /\ output = 0 /\ emitted = 0 /\ form = 0 /\ sent = 0
turnIdle == state = 0 /\ ended = 0 /\ left = 0 /\ firing = 0 /\ watching = 0 /\ stored = 0 /\ stop = 0 /\
    root = 0 /\ task = 0 /\ quiet = 0 /\ idled = 0
projectIdle == disk = 0 /\ watched = 0 /\ noticed = 0 /\ armed = 0 /\ reloads = 0 /\ deps = 0 /\ router = 0 /\
    result = 0 /\ fallback = 0 /\ edits = 0 /\ uncatalogued = 0 /\ unseen = 0 /\
    overlapped = 0

Init ==
  \/ subject = "agent" /\ Agent!Init /\ gatewayIdle /\ turnIdle /\ projectIdle
  \/ subject = "gateway" /\ Gate!Init /\ agentIdle /\ turnIdle /\ projectIdle
  \/ subject = "turn" /\ Clock!TInit /\ agentIdle /\ gatewayIdle /\ projectIdle
  \/ subject = "project" /\ Project!Init /\ agentIdle /\ gatewayIdle /\ turnIdle

OfAgent(A) == subject = "agent" /\ A /\ UNCHANGED <<subject, gatewayVars, turnVars, projectVars>>
OfGateway(A) == subject = "gateway" /\ A /\ UNCHANGED <<subject, agentVars, turnVars, projectVars>>
OfTurn(A) == subject = "turn" /\ A /\ UNCHANGED <<subject, agentVars, gatewayVars, projectVars>>
OfProject(A) == subject = "project" /\ A /\ UNCHANGED <<subject, agentVars, gatewayVars, turnVars>>

Next ==
  \/ OfAgent(Agent!Next)
  \/ OfGateway(Gate!Next)
  \/ OfTurn(Clock!TNext)
  \/ OfProject(Project!Next)

vars == <<subject, agentVars, gatewayVars, turnVars, projectVars>>
Spec == Init /\ [][Next]_vars
\* The fairness of the components, as their modules state it.
FairSpec ==
  /\ Spec
  /\ WF_vars(OfAgent(Agent!Controller))
  /\ WF_vars(OfGateway(Gate!Goes))
  /\ \A m \in DOMAIN Msg: WF_vars(OfGateway(Gate!MessageGoes(m)))
  /\ WF_vars(OfTurn(Clock!Tick)) /\ WF_vars(OfTurn(Clock!Fire)) /\ WF_vars(OfTurn(Clock!HandleTimeout))
  /\ WF_vars(OfTurn(Clock!Releases)) /\ WF_vars(OfTurn(Clock!Ends))
  /\ WF_vars(OfProject(Project!Notice)) /\ WF_vars(OfProject(Project!DebounceEnds))
  /\ WF_vars(OfProject(Project!SomeReload))

-----------------------------------------------------------------------------
(* The properties of the components, stated in their modules.                *)

\* AgentRun: done is said of a settled goal, and however a run ends its transcript holds a
\* result for every call.
RunsSettle == subject = "agent" => Agent!DoneIsSettled /\ Agent!CallsAnswered
\* Gateway: a reply holds nothing the run said before its last tool, and what the user is
\* sent is what the run is recorded with, but for apologies.
RepliesAreFinal == subject = "gateway" => Gate!RepliesAreFinal
\* Turn: only a turn without activity for the whole timeout times out.
OnlyIdleTimesOut == subject = "turn" => Clock!OnlyIdleTimesOut
\* Reload: between reloads the parts are of one project, but for resources and skills of a
\* project whose catalogue could not be built.
PartsAgree == subject = "project" => Project!PartsAgree

\* The run of an agent ends, whatever the model answers.
EveryRunEnds == <>(subject = "agent" => Agent!Ended)
\* A message the adapter accepted comes to be handled.
MessagesAreHandled ==
  \A m \in DOMAIN Msg:
    (subject = "gateway" /\ Gate!Awaited(m)) ~> (subject = "gateway" /\ Gate!Handled(m))
\* Work that hangs altogether is cut.
HungWorkEnds == (subject = "turn" /\ Clock!Hanging) ~> (subject = "turn" /\ Clock!AllOver)
\* What is on disk in the end is in force in the end.
EditsTakeEffect == <>[](subject = "project" => Project!UpToDate)

\* No work goes on for ever: a run, a message, a turn, an edit of the project.
WorkEnds == EveryRunEnds /\ MessagesAreHandled /\ HungWorkEnds /\ EditsTakeEffect
=============================================================================
