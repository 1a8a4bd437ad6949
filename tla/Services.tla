------------------------------- MODULE Services -------------------------------
(***************************************************************************)
(* The components beside the run, whose promises are of safety, in one     *)
(* specification.  They share nothing here, so a behaviour is of one.      *)
(***************************************************************************)
EXTENDS Naturals, Sequences, FiniteSets

CONSTANTS LaneRequests, NoRequest, LaneConfigs                    \* of SessionLane
CONSTANTS Sessions, Page, Cap, ScreenEvents, MaxSubmits, MaxSwitches  \* of Terminal
CONSTANTS GuardedCalls, Slots, GuardConfigs                       \* of ToolGuard
CONSTANTS Files, Limits, Around, Query, Hunks, MaxHunks, Chunks   \* of FileTools
CONSTANTS Commands                                                \* of Processes
CONSTANTS Servers, Tools, Narrow, McpRuns, MaxEdits               \* of McpServers
CONSTANTS Top, TopAgent, Agents                                   \* of AgentCalls and RunNodes
CONSTANTS Calls, Known, Provided, DepthLimit, MaxParallel, MaxRequests  \* of AgentCalls
CONSTANTS NodeCalls, Absent                                       \* of RunNodes
CONSTANTS Providers, Transcripts, Pieces, MaxAttempts             \* of ModelStream
CONSTANTS Names, Configured, Schedules, MaxWorkers, MaxAdds, MaxChanges  \* of Scheduler
CONSTANTS Kinds, Publishers, MaxEvents, RawCap, OutCap, Ring      \* of Streams
CONSTANTS Runtimes, MaxBytes, MaxBackups, Sizes, MaxLines, MaxFailures  \* of LogFiles

\* The jobs a configuration lists are sequences of the names jobs may have.
ASSUME ConfiguredAssumption == Configured \subseteq Seq(Names)
ASSUME RingAssumption == Ring \in Nat
\* Runtimes are numbered from 1; a line is never empty, and some failures are none.
ASSUME LogsAssumption ==
  0 \notin Runtimes /\ Sizes \subseteq Nat \ {0} /\ MaxBytes \in Nat /\ MaxBackups \in Nat /\ MaxFailures \in Nat
\* The top is none of the calls, which are finitely many; the limits are the configuration's, that
\* of a parallel call by default positive.
ASSUME AgentsAssumption ==
  /\ Top \notin Calls /\ IsFiniteSet(Calls)
  /\ DepthLimit \in Nat /\ MaxParallel \in Nat \ {0} /\ MaxRequests \in Nat
\* The same of the nodes of a run; none of them, and no stage of a task, is named as what is absent.
ASSUME NodesAssumption ==
  Top \notin NodeCalls /\ Absent \notin NodeCalls \cup Agents \cup {Top, TopAgent, "open", "settled"}

VARIABLE subject  \* the component this behaviour is of; the variables of the others are 0

VARIABLES config, laneActive, lanePending, summaries, life, cancelled, laneCfg, batch,
          kept, carried, context, fate, closes, rec
VARIABLES recorded, live, active, loaded, shown, before, loading, pages, pending, baseline,
          outbox, submits, switches, view, raced, full
VARIABLES cfg, history, stage, call, attempt, outcome, ctxDone
VARIABLES fileWork, fileFound, fileFile, fileLimit, fileAt, fileGot, fileEdit, fileState
VARIABLES input, group, exit, command, commandDone, result, killed, cmds, agentRun
VARIABLES files, inherits, catalog, tools, up, manager, changes
VARIABLES node, told
VARIABLES runEntry, runNode, runRecord, runEdges, runActive, runTracker, runTold
VARIABLES provider, purpose, streamStage, transcript, results, built, wire, streamPending, text, handed,
          started, error, streamAttempt, streamShown
VARIABLES jobs, running, latest, stopped, workers, adding, beat, ending, adds, jobChanges
VARIABLES apiKind, apiCount, apiLast, apiSending, apiSub, apiRaw, apiOut, apiRelay,
          apiBacklog, apiSeen, apiHandler, apiUnwritten, apiGiven, apiFrom, apiUpto,
          apiMissed, apiPanicked
VARIABLES logInstalled, logDefault, logRuntimes, logWriters, logDisk, logLines,
          logFailures, logStale

Lane == INSTANCE SessionLane WITH Requests <- LaneRequests, Configs <- LaneConfigs,
        active <- laneActive, pending <- lanePending, cfg <- laneCfg
Screen == INSTANCE Terminal WITH MaxEvents <- ScreenEvents
Guard == INSTANCE ToolGuard WITH Calls <- GuardedCalls, Configs <- GuardConfigs
File == INSTANCE FileTools WITH work <- fileWork, found <- fileFound, file <- fileFile,
        limit <- fileLimit, at <- fileAt, got <- fileGot, edit <- fileEdit, state <- fileState
Proc == INSTANCE Processes WITH call <- command, ctxDone <- commandDone, run <- agentRun
Mcp == INSTANCE McpServers WITH Runs <- McpRuns
Agent == INSTANCE AgentCalls
Nodes == INSTANCE RunNodes WITH Calls <- NodeCalls, None <- Absent, entry <- runEntry,
        node <- runNode, record <- runRecord, edges <- runEdges, active <- runActive,
                tracker <- runTracker,
        told <- runTold
Stream == INSTANCE ModelStream WITH stage <- streamStage, attempt <- streamAttempt,
        shown <- streamShown, pending <- streamPending
Cron == INSTANCE Scheduler WITH changes <- jobChanges
Api == INSTANCE Streams WITH kind <- apiKind, count <- apiCount, last <- apiLast,
        sending <- apiSending, sub <- apiSub, raw <- apiRaw, out <- apiOut, relay <- apiRelay,
        backlog <- apiBacklog, seen <- apiSeen, handler <- apiHandler,
        unwritten <- apiUnwritten, given <- apiGiven, from <- apiFrom, upto <- apiUpto,
        missed <- apiMissed, panicked <- apiPanicked
Log == INSTANCE LogFiles WITH installed <- logInstalled, default <- logDefault,
        runtimes <- logRuntimes, writers <- logWriters, disk <- logDisk, lines <- logLines,
        failures <- logFailures, stale <- logStale

\* The guard's limits are positive, by default if not by the settings.
ASSUME GuardAssumption ==
  IsFiniteSet(Slots) /\ \A c \in GuardConfigs : c.history \in Nat \ {0} /\ c.block \in Nat \ {0}
\* In a transcript those calls are "calls" whose results, and no others, directly follow them.
ASSUME StreamAssumption ==
  /\ Transcripts \subseteq Seq(Stream!Messages) /\ \A t \in Transcripts : Stream!Paired(t)
  /\ Pieces \in Nat

laneVars == <<config, laneActive, lanePending, summaries, life, cancelled, laneCfg, batch, kept,
    carried, context, fate, closes, rec>>
terminalVars == <<recorded, live, active, loaded, shown, before, loading, pages, pending, baseline,
    outbox, submits, switches, view, raced, full>>
guardVars == <<cfg, history, stage, call, attempt, outcome, ctxDone>>
filesVars == <<fileWork, fileFound, fileFile, fileLimit, fileAt, fileGot, fileEdit, fileState>>
processesVars == <<input, group, exit, command, commandDone, result, killed, cmds, agentRun>>
mcpVars == <<files, inherits, catalog, tools, up, manager, changes>>
agentsVars == <<node, told>>
nodesVars == <<runEntry, runNode, runRecord, runEdges, runActive, runTracker, runTold>>
streamVars == <<provider, purpose, streamStage, transcript, results, built, wire, streamPending, text, handed, started,
    error, streamAttempt, streamShown>>
schedulerVars == <<jobs, running, latest, stopped, workers, adding, beat, ending, adds, jobChanges>>
streamsVars == <<apiKind, apiCount, apiLast, apiSending, apiSub, apiRaw, apiOut, apiRelay,
    apiBacklog, apiSeen, apiHandler, apiUnwritten, apiGiven, apiFrom, apiUpto, apiMissed, apiPanicked>>
logsVars == <<logInstalled, logDefault, logRuntimes, logWriters, logDisk, logLines, logFailures,
    logStale>>

laneIdle ==
  /\ config = 0 /\ laneActive = 0 /\ lanePending = 0 /\ summaries = 0 /\ life = 0
  /\ cancelled = 0 /\ laneCfg = 0 /\ batch = 0 /\ kept = 0 /\ carried = 0 /\ context = 0
  /\ fate = 0 /\ closes = 0 /\ rec = 0
terminalIdle ==
  /\ recorded = 0 /\ live = 0 /\ active = 0 /\ loaded = 0 /\ shown = 0 /\ before = 0
  /\ loading = 0 /\ pages = 0 /\ pending = 0 /\ baseline = 0 /\ outbox = 0 /\ submits = 0
  /\ switches = 0 /\ view = 0 /\ raced = 0 /\ full = 0
guardIdle ==
  /\ cfg = 0 /\ history = 0 /\ stage = 0 /\ call = 0 /\ attempt = 0 /\ outcome = 0
  /\ ctxDone = 0
filesIdle ==
  /\ fileWork = 0 /\ fileFound = 0 /\ fileFile = 0 /\ fileLimit = 0 /\ fileAt = 0
  /\ fileGot = 0 /\ fileEdit = 0 /\ fileState = 0
processesIdle ==
  /\ input = 0 /\ group = 0 /\ exit = 0 /\ command = 0 /\ commandDone = 0 /\ result = 0
  /\ killed = 0 /\ cmds = 0 /\ agentRun = 0
mcpIdle ==
  /\ files = 0 /\ inherits = 0 /\ catalog = 0 /\ tools = 0 /\ up = 0 /\ manager = 0
  /\ changes = 0
agentsIdle ==
  /\ node = 0 /\ told = 0
nodesIdle ==
  /\ runEntry = 0 /\ runNode = 0 /\ runRecord = 0 /\ runEdges = 0 /\ runActive = 0
  /\ runTracker = 0 /\ runTold = 0
streamIdle ==
  /\ provider = 0 /\ purpose = 0 /\ streamStage = 0 /\ transcript = 0 /\ results = 0 /\ built = 0 /\ wire = 0
  /\ streamPending = 0 /\ text = 0 /\ handed = 0 /\ started = 0 /\ error = 0
  /\ streamAttempt = 0 /\ streamShown = 0
schedulerIdle ==
  /\ jobs = 0 /\ running = 0 /\ latest = 0 /\ stopped = 0 /\ workers = 0 /\ adding = 0
  /\ beat = 0 /\ ending = 0 /\ adds = 0 /\ jobChanges = 0
streamsIdle ==
  /\ apiKind = 0 /\ apiCount = 0 /\ apiLast = 0 /\ apiSending = 0 /\ apiSub = 0 /\ apiRaw = 0
  /\ apiOut = 0 /\ apiRelay = 0 /\ apiBacklog = 0 /\ apiSeen = 0 /\ apiHandler = 0
  /\ apiUnwritten = 0 /\ apiGiven = 0 /\ apiFrom = 0 /\ apiUpto = 0 /\ apiMissed = 0
  /\ apiPanicked = 0
logsIdle ==
  /\ logInstalled = 0 /\ logDefault = 0 /\ logRuntimes = 0 /\ logWriters = 0 /\ logDisk = 0
  /\ logLines = 0 /\ logFailures = 0 /\ logStale = 0

Init ==
  /\ subject \in {"lane", "terminal", "guard", "files", "processes", "mcp",
                  "agents", "nodes", "stream", "scheduler", "streams", "logs"}
  /\ IF subject = "lane" THEN Lane!Init ELSE laneIdle
  /\ IF subject = "terminal" THEN Screen!Init ELSE terminalIdle
  /\ IF subject = "guard" THEN Guard!Init ELSE guardIdle
  /\ IF subject = "files" THEN File!Init ELSE filesIdle
  /\ IF subject = "processes" THEN Proc!Init ELSE processesIdle
  /\ IF subject = "mcp" THEN Mcp!Init ELSE mcpIdle
  /\ IF subject = "agents" THEN Agent!Init ELSE agentsIdle
  /\ IF subject = "nodes" THEN Nodes!Init ELSE nodesIdle
  /\ IF subject = "stream" THEN Stream!Init ELSE streamIdle
  /\ IF subject = "scheduler" THEN Cron!Init ELSE schedulerIdle
  /\ IF subject = "streams" THEN Api!Init ELSE streamsIdle
  /\ IF subject = "logs" THEN Log!Init ELSE logsIdle

OfLane(A) ==
  /\ subject = "lane" /\ A
  /\ UNCHANGED <<subject, terminalVars, guardVars, filesVars, processesVars, mcpVars, agentsVars,
                nodesVars, streamVars, schedulerVars, streamsVars, logsVars>>
OfTerminal(A) ==
  /\ subject = "terminal" /\ A
  /\ UNCHANGED <<subject, laneVars, guardVars, filesVars, processesVars, mcpVars, agentsVars,
                nodesVars, streamVars, schedulerVars, streamsVars, logsVars>>
OfGuard(A) ==
  /\ subject = "guard" /\ A
  /\ UNCHANGED <<subject, laneVars, terminalVars, filesVars, processesVars, mcpVars, agentsVars,
                nodesVars, streamVars, schedulerVars, streamsVars, logsVars>>
OfFiles(A) ==
  /\ subject = "files" /\ A
  /\ UNCHANGED <<subject, laneVars, terminalVars, guardVars, processesVars, mcpVars, agentsVars,
                nodesVars, streamVars, schedulerVars, streamsVars, logsVars>>
OfProcesses(A) ==
  /\ subject = "processes" /\ A
  /\ UNCHANGED <<subject, laneVars, terminalVars, guardVars, filesVars, mcpVars, agentsVars,
                nodesVars, streamVars, schedulerVars, streamsVars, logsVars>>
OfMcp(A) ==
  /\ subject = "mcp" /\ A
  /\ UNCHANGED <<subject, laneVars, terminalVars, guardVars, filesVars, processesVars,
                agentsVars, nodesVars, streamVars, schedulerVars, streamsVars, logsVars>>
OfAgents(A) ==
  /\ subject = "agents" /\ A
  /\ UNCHANGED <<subject, laneVars, terminalVars, guardVars, filesVars, processesVars, mcpVars,
                nodesVars, streamVars, schedulerVars, streamsVars, logsVars>>
OfNodes(A) ==
  /\ subject = "nodes" /\ A
  /\ UNCHANGED <<subject, laneVars, terminalVars, guardVars, filesVars, processesVars, mcpVars,
                agentsVars, streamVars, schedulerVars, streamsVars, logsVars>>
OfStream(A) ==
  /\ subject = "stream" /\ A
  /\ UNCHANGED <<subject, laneVars, terminalVars, guardVars, filesVars, processesVars, mcpVars,
                agentsVars, nodesVars, schedulerVars, streamsVars, logsVars>>
OfScheduler(A) ==
  /\ subject = "scheduler" /\ A
  /\ UNCHANGED <<subject, laneVars, terminalVars, guardVars, filesVars, processesVars, mcpVars,
                agentsVars, nodesVars, streamVars, streamsVars, logsVars>>
OfStreams(A) ==
  /\ subject = "streams" /\ A
  /\ UNCHANGED <<subject, laneVars, terminalVars, guardVars, filesVars, processesVars, mcpVars,
                agentsVars, nodesVars, streamVars, schedulerVars, logsVars>>
OfLogs(A) ==
  /\ subject = "logs" /\ A
  /\ UNCHANGED <<subject, laneVars, terminalVars, guardVars, filesVars, processesVars, mcpVars,
                agentsVars, nodesVars, streamVars, schedulerVars, streamsVars>>

Next ==
  \/ OfLane(Lane!Next)
  \/ OfTerminal(Screen!Next)
  \/ OfGuard(Guard!Next)
  \/ OfFiles(File!Next)
  \/ OfProcesses(Proc!Next)
  \/ OfMcp(Mcp!Next)
  \/ OfAgents(Agent!Next)
  \/ OfNodes(Nodes!Next)
  \/ OfStream(Stream!Next)
  \/ OfScheduler(Cron!Next)
  \/ OfStreams(Api!Next)
  \/ OfLogs(Log!Next)

vars == <<subject, laneVars, terminalVars, guardVars, filesVars, processesVars, mcpVars,
    agentsVars, nodesVars, streamVars, schedulerVars, streamsVars, logsVars>>
Spec == Init /\ [][Next]_vars

-----------------------------------------------------------------------------
(* The properties of the components, stated in their modules.                *)

\* SessionLane: the queue keeps within its limit, whatever is merged, dropped or summarized.
QueueWithinLimit == subject = "lane" => Lane!QueueWithinLimit
\* ToolGuard: a call is not repeated with one outcome more often than the guard allows.
RepeatsAreBounded == subject = "guard" => Guard!RepeatsAreBounded
\* Terminal, FileTools: the entries shown are a stretch of what the session has recorded, and what
\* is seen stored is not shown as pending beside it; a file is read page by page, patched and
\* written in chunks without loss.
ShownAsStored ==
  /\ subject = "terminal" => Screen!ShownIsAStretch /\ Screen!PendingIsUnstored
  /\ subject = "files" => File!FilesAreTrue
\* Processes, McpServers: the children of commands end with the run that owns them, and not
\* before; the processes of servers are those of runs under way, with the tools allowed.
ChildrenAreOwned ==
  (subject = "processes" => Proc!ChildrenAreOwned) /\ (subject = "mcp" => Mcp!ServersAreReleased)
\* AgentCalls, RunNodes: agents calling agents end, and a cancelled caller takes its calls
\* with it; what they publish is placed below the run that calls, whose record stays its own.
CallsEnd == (subject = "agents" => Agent!CallsEnd) /\ (subject = "nodes" => Nodes!RunIsItsTops)
\* ModelStream: an answer is taken as the model gave it, once, or reported as failed.
AnswersAreTakenWhole == subject = "stream" => Stream!AnswersAreTakenWhole
\* Scheduler: of each job one worker runs.
OneOfEachRuns == subject = "scheduler" => Cron!OneOfEachRuns
\* Streams: what the API streams is whole, and no client's leaving ends the process.
StreamsAreWhole == subject = "streams" => Api!StreamsAreWhole
\* LogFiles: what was logged is kept, whatever is refused and installed.
LogsAreKept == subject = "logs" => Log!LogsAreKept
=============================================================================
