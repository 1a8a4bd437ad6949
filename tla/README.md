# AnyAI in TLA+

A verification development of AnyAI (`src/`, Go): TLA+ modules of its runtime, TLC
configurations that check them on small instances, and TLAPS proofs of what matters most.

AnyAI runs agents. A request reaches the gateway from a channel (CLI, HTTP, Telegram,
WhatsApp) or from the daemon; the execution layer puts it on the *lane* of its session and
starts a *managed run*; the agent's controller loops over requests to a model and tool calls,
and a tool call may start *tasks* (child agents, plan steps, processes) that share the run's
*turn*. A recorder keeps run records and an append-only event log, from which the read models
and the task store can be rebuilt; clients follow a run by snapshot and stream. The session
is a file of its own, from which each request to the model is assembled.

## 1. Inventory

| Component (`src/internal/...`) | State | Operations and partners | What is hard | What makes it correct |
|---|---|---|---|---|
| `runtime/execution/sessionlane.go` | per agent/session: active run, pending queue, dropped summaries | `Submit` (HTTP, channels, daemon), `onRunFinished` (goroutine of each run), `completeQueuedRun` | the batch is filtered, debounced and merged outside the lock; settings change by hot reload; client cancels | no request lost or answered twice, each stream closed once, the queue always has somebody to drain it, each request answered |
| `runtime/task` (`Runtime`, `Store`) | records, cancel functions, subscribers | `DoTask`, attempts with backoff, `Touch`, `Cancel`, `Rebuild` | cancel windows, events emitted after the lock, a turn that times out, a store rebuilt under running tasks | one end per task, told to its parent; cancel reaches the attempt; log and record agree |
| `runtime/task` (`JoinAllSettled`) | places, order counters | children's settle callbacks, waiting caller | overlapping callbacks, double settle | limit, order, the caller returns when all have settled |
| `runtime/agent` (run controller), `runtime/task` (`Goal`), `runtime/plan` | turn, calls of a batch, goal, todo, plan steps | request, answer, batch, retry, idle check, automatic plan step | a cancelled context between any two of them; limits; a goal completed while work is open | every run ends, every call has a result, a run that is done has nothing open |
| `runtime/agent` (context, repair, focus), `runtime/session` (history) | entries of the session | a request built anew from a window, a summary, repairs and directives | runs that failed, were cut off or compacted | what is sent is what was asked, with each result by its call |
| `runtime/session` (store) | file of entries, cached offset index, copies | append, page, compact (run and control), archive, delete, rebuild | copies older than the file, torn lines, a rewrite that fails | no entry lost, no call parted from its result, plan and todos survive |
| `runtime/turn`, `runtime/activity` | turn state, idle timer, contexts | `Touch`, `Complete`, `Cancel`, timeout callback | a fired timer racing `Touch` and `Stop` | only idle work times out, and hung work does |
| `runtime/events`, `runtime/projection` | run records, log files, sidecar index, subscribers | `StartRun` .. `FinishRun`, `AppendEvent`, `AbortActiveRuns`, `RebuildFromStorage`, replay | crashes between file and memory, stale index, slow followers, runs of called agents under one ID | memory is a replay of the log, no active run survives a restart, a follower misses nothing |
| `runtime` (`agent_call.go`, kernel), `task/agentexec` | tree of calls, cancel hooks of runs | call one agent or several, cancel, time out | depth, cycles, a cancelled caller, shared run IDs | calls end with their caller, a run's record is its own |
| `runtime/memory` | Markdown files, a copy per manager | save, recall, promote, forget, clean up | two processes, edits by hand, a recall written over a change | what is shown is in the files, within its scope |
| `runtime/mcp`, `cmd/mcp.go` | configuration files, catalogue, manager of each run | install, reload, connect, list, call, close | a server that connects but does not list, a run cancelled in mid-build | sessions are released with their run |
| `runtime/tool` | process groups, files, loop history | commands, reading, writing, retries | children that outlive their command, pages and windows, parallel calls that share a history | nothing outlives the run, files read and written whole, bounded repetition |
| `runtime/llm` | transcript on the wire, answer in pieces | build, receive, retry, compact | streams cut at any piece, token limit | an answer is taken whole or reported as failed |
| `runtime/daemon`, `cron`, `heartbeat` | jobs, workers, next times | add, pause, resume, reschedule, remove, stop | a worker still running its job when that changes | one worker per job, an end for all |
| `gateway`, `channel` | inbound queue, connection, reply buffer; the terminal's screen | receive, route, follow the run, reply in pieces; page, merge, switch | progress mixed with answers, a full queue, sessions switched while pages load | the last answer is sent, each message is handled, the screen is a stretch of the record |
| `startup` (watcher, updater), `config`, `registry` | files, pending timer, parts in force | notice, debounce, load, apply, save | edits during a reload, directories that come and go, overlapping reloads | the parts in force come from one configuration (but for a catalogue that cannot be built), every edit takes effect |
| `startup/http/api` | one stream per client | snapshot, subscribe, write, leave | the gap between snapshot and subscription, a client that leaves in mid-send | nothing twice, nothing missed, no panic |
| `logging` | installed runtimes, rotated files | install, close, log, rotate, prune | each file operation may fail; a closed runtime still held | lines are kept, in bounded space |

`PROJECT.json` lists every component with what is modelled of it, and the hazards: the lines
where these things bite, with the properties that cover them. Two hazards have no property: a consumer that stops reading
its run's stream (`sessionlane.go:172`), and two parallel calls of one agent, which share a session
(`agent_call.go:289`). Where the code does not prevent a part of a hazard, the modules have it, the
properties are stated short of it, and the hazard's note says so (section 8).

## 2. Plan

Done: everything in section 3, and the proofs of section 6. Left, in this order:

| Module | What for |
|---|---|
| `SessionHistory` | its folds as closed forms, as the recorder's and the log files' have become, for `CallsPaired` and `StateSurvives` of any history |
| `RequestPromise` | what the lane promises one request (accepted, then run or answered, closed once), refined by `SessionLane` |
| `ParallelAgents` | `AgentCalls` over `JoinAllSettled` and `TaskRuntime`, with the sessions that parallel calls of one agent share |

## 3. Modules

Each module models one component; its header says what it abstracts from and each variable
has a comment with the state of the code it stands for. `PROJECT.json` maps every definition to its lines.

### SessionLane

`Coordinator` keeps one `sessionRunState` per agent/session key; keys do not interact, so the
module is one lane. Every critical section under `Coordinator.mu` is an action, and what the
code does between two of them interleaves.

| Module | Code (`execution/sessionlane.go`) |
|---|---|
| `active`, `pending`, `summaries` | `state.active`, `state.pending`, `state.droppedSummaries` (as the requests they summarize); a nil or deleted state is `NoRequest`, `<<>>`, `{}` |
| `life`, `cfg`, `cancelled` | the item and its goroutine: where it is, the `deps.Config` it holds, `item.ctx.Err()` |
| `batch`, `kept`, `carried` | the locals `pending` and `droppedSummaries` of a finishing run's `onRunFinished`, before and after filtering |
| `context`, `fate`, `closes` | what the merged envelope speaks for, why a request left the queue, `close(item.out)` |
| `rec` | `RunRecord.Status` (`events/recorder.go`) |
| `SubmitIdle`, `SubmitEnqueue`, `SubmitInterrupt` | the three ways through `Submit`; the drop loop of `enqueuePendingRun` is `Retained`, `Dropped`, `Overflow` |
| `CompleteClose`, `CompleteRecord` | `completeQueuedRun`: out is closed, then the recorder is told |
| `Start`, `StartFails`, `RunEnds` | the goroutine of `dispatch` and the managed run behind it |
| `ReleaseIdle`, `TakePending` | first critical section of `onRunFinished` |
| `FilterOne`, `NothingKept` | `filterPendingQueuedRuns` item by item, and the return when nothing is left |
| `Merge`, `HandOffCollect`, `HandOffNext` | the two branches after it |
| `Cancel`, `Reload` | `ManagedRun.Cancel` or the end of the request's context; `runtimeUpdater.ApplyConfig` |

Abstractions: run IDs are distinct (the code takes a client's own when it gives one); the
items one `Submit` or one merge answers are completed in any order (the code goes through
them in queue order, in one goroutine: the model has more behaviours); summaries are sets;
consumers drain the 128-slot channels; the debounce is the freedom to interleave before
`Merge`; the merged envelope is fixed before its items are completed, which no other
goroutine can tell.

### TaskRuntime

The tasks of one run, the goroutine of each, one `Cancel` call at a time and one producer of
activity per task, the turn they share, and `Store.Rebuild`.

| Module | Code (`task/`) |
|---|---|
| `store`, `cancels` | `Store.tasks[].Status`, `Store.cancels` |
| `pc`, `attempt`, `outcome`, `told` | the locals of `DoTask` and `executeTask`, and what the callback got |
| `owed`, `logged`, `endings` | an event of a finished transition that has yet to be stamped and appended; the statuses the appended ones tell of, in the order of their stamps; the terminal events appended |
| `snapshot`, `applied` | the list of events `Rebuild` has collected, and how many of each task it has applied |
| `turn`, `turnEnded` | `Turn.state` and `Turn.ctx`, set one after the other |
| `Create`, `Launch` | `DoTask`: `CreateSpec`, then `setCancel` and `go` |
| `Running`, `Refused`, `Return`, `Retry`, `GiveUp`, `Finish`, `Settle`, `ReadBack` | `executeTask` and `runtime_retry.go`, step by step |
| `Touch`, `Cancel`, `Signal` | the activity hook; `CancelWithReason`'s transition and its later call of the cancel function |
| `TurnEnds` .. `WatchContext` | `turn/turn.go` |
| `RebuildCollects`, `RebuildResets` | `Store.Rebuild`: listing and sorting, then `Reset` |
| `RebuildApplies`, `RebuildEnds` | one `applyEvent`, a critical section for each event: between two of them goroutines, `Cancel` and `Touch` act on a half replayed record |

`Next` is `Serve`, all that happens while nobody rebuilds, or `Rebuild`. A rebuild takes
records away under running tasks, which breaks most of what the tasks promise, so
`UnrebuiltSpec` (`Serve` alone) carries those invariants and `Spec` what holds all the same:
`SettledStays` (nobody but a rebuild changes a settled record, and one whose log ends with its
end has that end when the rebuild is through) and, under fairness, `EveryTaskEnds`. That a log
which tells of an end before its last event is rebuilt to an ended task does not hold (section 8).

Abstractions: no code under `src/` sets the retry metadata, so an agent task has three
attempts and any other one, and the backoff is always waited for; all activity of a task
goes through one slot (two hook goroutines would add nothing the `goroutine`, `hook` and
`canceller` slots do not show); a replay takes the tasks in any order and not event by event in
turn, since what acts on one record does not see another; of equal events in a row a log keeps
`Repeats`, and a log that nobody will read any more is not kept; a task's
executor answers with one of five outcomes, chosen freely; subscribers, payloads and
parent/child records are left out, and a task that starts after its turn was removed (it
gets a turn of its own) is not modelled.

### JoinAllSettled and AllSettled

`JoinAllSettled` is the function of that name in `task/runtime.go`: counters under a mutex,
children launched outside it, a `sync.Once` per child (the guard of `Settle`), a caller on a
condition variable. `AllSettled` is what it promises: children settle once each, in any
order, and the caller returns after the last. The refinement maps `open` to the children
not settled and `returned` to the caller's place.

### The history and its store

`SessionHistory` holds the pure functions of `runtime/session`: calls without a result, the
blocks a history may be cut at, its latest plan and todos, a compaction. They use folds and
quantifiers, no recursion, and are shared by the next two.

`SessionStore` is one session file. The run under way has a copy, the control plane loads
another to compact by hand; both rewrite the file. The variables are the lines of the file
(a torn line and one written behind it are lines that cannot be read), the offset index with
whether file size and time would betray a change, the copies, the event log the session can
be rebuilt from, and the archives. `Crash` tears the last line; `RewriteFails` leaves the
old file, as the code restores it.

`Transcript` is what the model is shown: the history grows by runs that succeed, fail, are
aborted or cut off, and `Build` assembles the next request as `context.go`,
`transcript_repair.go`, `transcript_policy.go` and `request_focus.go` do, from a window, a
summary, the repairs and the directive. `Sent` is the request; its properties compare it with
what was asked.

`Memory` has the documents on disk (with what a hand may edit), a copy per manager with
whether its refresh interval is over, and the recalls that a search counts outside the lock.
What a search or a clean-up writes is one function from paths to documents (`Written`), which
is what the proofs argue with.

### Recorder and RunNodes

`Recorder` has run records in memory, the raw log of each run, the sidecar index, the live
tail, and one follower. A crash comes between any two steps; an append fails or is cut;
`Restart` loads the index or the logs, `AbortActive` ends what was active before the process
serves; `RebuildFromStorage` reads in one step and swaps in another. `missed`, `unwritten`,
`misread`, `overrun` and `revived` are history variables: the runs of which memory may know less
than the log, or more than their goroutine left, each for one named reason, which the properties
except. What a replay knows of a log is stated by its entries (the last status, the events not
seen before) and not by the loop that collects it.

`RunNodes` is one run with the agents it calls, all under its ID: its record, the tree of
nodes with their parents, the list of active runs and the hook that cancels it, as kept by
the recorder and the kernel from the same events. An event moves the record only if it is
the top's.

### AgentRun, AgentCalls, Turn, ToolGuard

`AgentRun` is `run_controller.go` with `goal_after_done.go`, the goal of the task package and
the plan engine: `at` is where the controller is, a batch settles call by call, and
`ContextGone` may come at any place. `Batches` bounds what a model may ask for.

`AgentCalls` is the tree of calls. An answer of the model makes one or more calls of the tool, a
segment of the tool batch, each for one agent or for several in parallel (`Batches`). The segment
has a place for every call, so all calls of an answer are under way at once, however many they are;
the parallel limit holds within each parallel call, whose requests `Scheduled` lets go in order.
A request becomes a task, which waits for the run behind it; `Leave` and `Cancel` are what its
executor does when its context ends. A step of a plan, which leaves the agent it calls when its
context is done, is not in this module.
Each run carries its call chain (`line`), from which the guards against cycles and depth read.

`Turn` has time: what is left on the idle timer, and the quiet time a clock outside would
count. `Fire` starts the callback, which takes the lock later; `Watch` is the goroutine that
sees the run's context end.

`ToolGuard` is how a call is carried out: preflight repair, repetition and ping-pong checks,
attempts, the outcome recorded. Parallel calls share the history, whose lock each look takes.

### Gateway, Terminal, Streams

`Gateway` follows three messages from the adapter's queue through routing and the run to the
reply in pieces. The reply buffer and the run's own output are kept side by side, each piece
with its *era*, the tool events before it, so that `RepliesAreFinal` can say which text the
reply must be.

`Terminal` is `cli.go`: pages fetched, live events merged, inputs pending until they are seen
stored, and sessions switched while pages are on their way.

`Streams` is one client of the HTTP API with six kinds of stream (a run with or without its
stored events, its tree, a session, a task, the logs), which differ in the order of snapshot and subscription and in
what ends them. A publisher copies its subscribers under the lock and sends later.

### Reload, McpServers, Scheduler

`Reload` has directories that may hold an agent in six conditions, the watcher with its
debounce, and the parts in force (configuration, providers, resources, skills, router), set
one after the other by a reload or by a saved configuration that runs beside it. When the catalogue
of a project cannot be built, the reload sets configuration, providers and router and leaves the
resources and skills of an earlier project (`uncatalogued`).

`McpServers` goes from configuration files in two scopes to the catalogue a reload builds and
to the manager of each run: connect, list, offer, call, close, with servers that die.

`Scheduler` is the cron scheduler with its workers, each with the context it was started
under, the heartbeat, and the end of the bundle.

### ModelStream, Processes, FileTools, LogFiles

`ModelStream` translates a transcript into the form of four kinds of provider, message by message
(`transcript` is what is left, `results` the tool results Anthropic's builder holds back), takes the
answer piece by piece, which may stop or fail anywhere, and retries as the engine or the compaction
does. Calls whose results are all directly behind them are "calls"; any others, as a failed turn
leaves them (`transcript_split`), are "split".

`Processes` is a run's commands: a shell, the child it may leave, what the tool tells, and
the manager that kills at the run's end what was kept.

`FileTools` is `read_file` (pages of bytes or lines, search with context) and `write_file`
(patch hunks, chunks with an expected offset), on byte sequences in which one character is wide.

`LogFiles` has runtimes installed over one another, a rotating writer whose open, rename and
prune may each be refused, and loggers held after their runtime was closed. A file is the lines it
has, its size, and the time an archive carries in its name.

### Suites

`Surfaces`, `Services`, `Storage` and `MCLive` instantiate several components that share no
state in one specification: the variable `subject` is chosen at the start and a behaviour is
of that component; the variables of the others keep the value 0. A property of a suite is the
conjunction of the properties its components state, each under its subject. `Surfaces`,
`Services` and `Storage` leave the components' constants open, so
that what is proved of them holds for all instances; `MCSurfaces`, `MCServices` and `MCStorage`
give the values TLC runs with.

### Faulty variants

Operators with a comment that begins "Faulty variant" stand before the definition they
corrupt the way a plausible bug would (a dropped guard, a copy where a move was meant, a
stale read); no specification uses them. Putting one in the place of the original must make
a run fail, and `PROJECT.json` pairs each property with at least one.

## 4. Runs

| Run | Instance | Shows |
|---|---|---|
| `lane_reload` | lane, 3 requests, reloads between three settings | `TypeOK`, `HeldOnce`, `ClosedOnce`, `NeverStranded`, `SpokenOnce`, `TerminalRecordStays` with goroutines of different settings |
| `task_settle` | 2 tasks, 2 attempts, a store that nobody rebuilds (`UnrebuiltSpec`) | `ToldTheRecord`, `EndedOnce`, `CancelReaches`, `RunningIsOwned`, `CallbackInvoked` |
| `join` | 6 children, 3 at a time, fair | `WithinLimit`, `KeepsBusy`, `Ordered`, `KeepsPromise` (refinement of `AllSettled`), `Joins` |
| `live` | a lane of 3 requests and 2 settings; a task with 3 attempts and a rebuild; fair | `EveryRequestAnswered`, `LaneDrains`; `EveryTaskEnds` |
| `storage` | `Recorder`, `SessionStore`, `Transcript`, `Memory`, and a task with 2 attempts whose store is rebuilt | see below |
| `surfaces` | `AgentRun`, `Gateway`, `Turn`, `Reload`, fair | see below |
| `services` | the other components, and a lane that collects with a limit of one | see below |

| Property of a suite | Says |
|---|---|
| `RecordsAreTrue` | memory is a replay of the log, sequence numbers rise over restarts, a restarted process has ended what was active, a follower whose channel did not overflow was given every stored event |
| `NothingLost` | a page of a session is what its file holds, what was stored is in the file or an archive, and the next run reads what this one sees unless the file was rewritten under it |
| `CallsPaired` | what a run shows of its session has no result without its call and no open call but those under way, however it was compacted |
| `StateSurvives` | the latest plan and todos survive compactions and rebuilds |
| `RequestIsSound` | each request asks the question to be answered, has results only for calls it shows, in place, and keeps summary and directive |
| `MemoryIsTrue` | what a session remembers for itself is shown to no other, no recall counts twice, and what is promoted was recalled often enough |
| `SettledStays` | nobody but a rebuild changes a settled record, and a task whose log ends with its end has ended that way when the rebuild is through, whatever `Cancel`, activity and results do between two replayed events |
| `RunsSettle` | a run that is done has its goal completed or waits for the user, and no call is left without a result at any end |
| `RepliesAreFinal` | a reply holds no text that a tool call came after, and all that the run is recorded with (but for apologies, section 8) |
| `OnlyIdleTimesOut` | a turn timed out only after a whole timeout without activity of the root or a child |
| `PartsAgree` | between reloads configuration, providers and router are of one project, resources and skills of one, which is the same unless the catalogue of the project in force could not be built; all this unless two reloads have run at once |
| `WorkEnds` | every run ends, every accepted message is handled, hung work is cut, every edit that loads takes effect (not one in a directory before it is watched, nor under overlapping reloads) |
| `QueueWithinLimit` | the lane's queue keeps its limit whatever is dropped, merged or summarized |
| `RepeatsAreBounded` | an outcome is not repeated beyond the guard's limit and one more for each further call of a segment, however looks and records interleave |
| `ShownAsStored` | what the terminal shows is a stretch of the record, and what is seen stored is no longer pending; pages, searches, patches and chunks of files lose and invent nothing |
| `ChildrenAreOwned` | children of commands and sessions of MCP servers end with their run and not before, and a run offers the tools its policy allows of the servers it is connected to |
| `CallsEnd` | no chain of calls is deeper than the limit, of each parallel call no more agents work at once than its limit (the calls of one answer are not limited together), what still works behind an answered call has been told to stop, a completed call is one whose run completed, the run's record is moved by its own events alone and its nodes form a tree |
| `AnswersAreTakenWhole` | a call runs at most once, in its place and with whole arguments (or with none, section 8), text is shown of one answer; calls whose results are directly behind them in the transcript have them so on the wire, whatever else the transcript holds |
| `OneOfEachRuns` | what may still run of a job is the one worker the scheduler knows, with the schedule it lists, and none of a paused job |
| `StreamsAreWhole` | nothing is written twice, a client who has caught up was given what its stream promises but for what a full subscription did not take, and nobody but the task store sends on a closed channel |
| `LogsAreKept` | while no logger outlives its runtime, a line is on disk until enough newer files are beside it, and no file exceeds its size |

Deadlock is not checked: all of these come to rest.

**Bounds of the core.** Two finishing runs of one lane overlap with three requests (one runs,
one is taken, one slips in between). A limit of one makes every second waiting request
overflow; one of the settings of `lane_reload` and `live` has two, which leaves a rest to put
back. One task already races with its canceller, hook, caller and turn; the second shows that
they share nothing but the turn. Two attempts have a first, a last and a backoff; `live` has
all three of an agent task. `Rebuilds` bounds a counter the code does not have: of one rebuild every interleaving is there, and
a second finds a store like the first. `Repeats` bounds how many equal events in a row a log keeps:
three, in `storage`, let a replay pass activity before and after what acts on the record. Six children
with three places let three callbacks overlap with children left to start. The proofs of
section 6 have no bounds.

**Bounds of the suites.** Budgets are drawn at the start, so that each kind of fault meets
each other one without all at once.

| Component | Bound | Why it is enough |
|---|---|---|
| `Recorder` | 2 runs, 2 events; a failure with a crash, 2 crashes, a crash with a rebuild, or a follower with a channel of 1 | an index is stale after one crash and read at the next; one event overflows the channel |
| `SessionStore` | 4 or 5 entries, threshold 3, up to 2 compactions with a failure, a crash, or a deletion with a rebuild | a call, its result and a message on each side of a cut; a compaction of a compacted history |
| `Transcript` | 2 or 3 requests, up to 2 questions each, 2 calls, a plan step, a crash, a window of 4 | a batch of which one call failed, followed by two runs that see it |
| `Memory` | 2 managers, 1 entry, 3 recalls, 2 writes, threshold 2 | a recall beside a change of the other process, and a promotion |
| `AgentRun` | 4 turns, 2 attempts, 2 automatic steps | every limit is reached and a turn is left behind it |
| `Gateway` | 3 messages, a queue of 1, at most 2 events of a run before its end | one message is under way, one waits, one is dropped; text, tool, text |
| `Turn` | 2 child tasks, a timeout of 2 | one acts while the other is idle |
| `Reload` | 3 directories, 2 edits, 2 reloads | an edit during a reload, two reloads overlapping |
| `SessionLane` (collect) | 3 requests, limit 1, summarize | one is dropped and summarized behind an overlap |
| `Terminal` | 2 sessions, pages of 2, 4 shown, 8 events, 2 inputs, 2 switches | a page older than the screen, a trim, an input pending over a switch |
| `ToolGuard` | 2 calls, 2 at once, blocking at 2 | a streak and a ping-pong, each with a parallel look |
| `FileTools` | 4 bytes to patch or page by lines, 7 to search, 3 characters narrow or wide, limits 1 to 3, 2 hunks, 3 chunks | two matches whose windows meet; a page that ends in a wide character |
| `Processes` | 2 commands | one kept, one left over |
| `McpServers` | 2 servers, 2 tools, 2 runs, 1 edit or reload | one run built before and one after |
| `AgentCalls`, `RunNodes` | 3 requests to depth 2, at most 2 by one answer, one place in each parallel call; 2 calls among 3 agents | two single calls that run at once, a parallel one that waits for its place, both also below a call; a call that ends before its run |
| `ModelStream` | 4 providers, arguments in 2 pieces, 2 attempts, transcripts with calls in one or two blocks, one of them split from its results | cut before, between and behind the pieces |
| `Scheduler` | 2 names, 3 workers, 2 additions, 2 changes | an old worker under a changed job |
| `Streams` | 6 kinds, 2 publishers, 3 events, channels of 1, a ring of 2 | an overflow, and an event on each side of snapshot and subscription |
| `LogFiles` | 2 runtimes, 5 lines, 2 to a file, 1 backup, 1 failure | two rotations and a prune |

**Runs that refute.** Each states one sentence of the documentation or of a comment, and TLC
shows a behaviour of the code that breaks it.

| Run | Says | What happens |
|---|---|---|
| `lane_overlap` | one active run per session (`docs/anyai-design.md:1269`) | between release and hand-off a submitted request starts at once; the hand-off starts a second run |
| `agent_left` | unfinished work refuses completion (`docs/anyai-design.md:1128`) | a goal completed without text gets another turn; what that turn opens is not asked about |
| `loop_resumes` | a blocked call stays blocked (`docs/anyai-design.md:874`) | the blocked result counts as a new outcome, and the same call runs again |
| `cron_stop` | "Stop cancels all running jobs" (`cron.go:94`) | a job added later replaced the cancel function; the older workers go on and `Stop` waits for them |
| `transcript_split` | every call has a result in the message that follows, orphans a synthetic one (`agent/context.go:211`) | of two calls one was answered when the turn failed; its notice is stored behind that result and before the one that stands for the other call, which has none directly behind it, real or synthetic |

## 5. Fairness

Weak fairness throughout, of the next step of a goroutine that exists: Go schedules runnable
goroutines. What the environment chooses (requests, cancels, edits, messages, activity,
crashes) is never fair.

`live`: each lane goroutine's next step, and that a started run ends: its turn has an idle
timeout, its goal a bounded number of rounds, and a cancelled context reaches every call. Each
task's goroutine, the return of an attempt included for the same reason, and its event
emission. `join`: the caller and the launches, and that a launched worker settles: the
workers (`agent_call.go`, `agent/tool_batch.go`) submit one task and settle from its callback,
or at once when the submission fails.

`surfaces`: the controller of the run, which includes that a request to the model and a
started call come back (both are bounded by the turn's timeout); the channel manager's loop
and the goroutine of each message; the clock, the fired callback, the goroutines that
release contexts and the ends of work whose context is over (not of work that hangs: that it
ends all the same is what `WorkEnds` says of a turn); the watcher's events, the debounce and
each reload that has begun.

`cron_stop`: the worker and `Stop` go on when they can, which makes its waiting for ever a
refutation and not a pause.

## 6. Proofs

TLAPS proves these for every value of the constants that satisfies the named assumptions
(`RequestsAssumption`, `NoRequestAssumption`, `ConfigsAssumption` of the lane; `CountAssumption`,
`MaxParallelAssumption` of the join; `BatchesAssumption`, `PlansAssumption`, `IdleAssumption` of
`Surfaces`; `ConfiguredAssumption`, `RingAssumption`, `LogsAssumption`, `AgentsAssumption`,
`NodesAssumption`, `GuardAssumption`, `StreamAssumption` of `Services`; `FollowedAssumption`, `PayloadsAssumption`,
`TailAssumption`, `ThresholdAssumption` of `Storage`), or that the theorem states.
Each says what kind of value a constant is. `StreamAssumption` also fixes how a transcript is
written down: calls labelled "calls" have their results, and no others, directly behind them; all other calls are
"split". It excludes no transcript, and not those that `transcript_split` builds.

**SessionLaneProofs.** `TypeCorrect`, `RequestsHeldOnce` (`HeldOnce`), `OutClosedOnce`
(`ClosedOnce`), `QueueNeverStranded` (`NeverStranded`) and `TerminalStays`
(`TerminalRecordStays`), for any set of requests and any settings. None of them is inductive:
`closes` counts up, so its type needs `ClosedOnce`; that a hand-off may write `active`
without stranding the queue needs to know in whose hands a queued request can be. The
invariant `LaneInv` is the conjunction of type, `HeldOnce`, `ClosedOnce`, `NeverStranded` and
what a finisher's hands may hold: nothing outside of its filtering and merging, only queued
requests, exactly the owner while merging. There is one lemma per action. `RecordInv` adds,
for `TerminalStays`, that a record is terminal only where the life of its request has passed
the last write.

`MessagesSpokenOnce` (`SpokenOnce`) is proved on top of `LaneInv`. `SpeechInv` says who may speak for whom: a request that waits
has no fate and nobody speaks for it; what the lane's summaries or a filtering run carry was
dropped; an envelope speaks for dropped or merged requests, and only a request that is
dispatched or the owner of a merging run has one (`Entitled`); no two of these overlap
(`Apart`). Without `Entitled` the merge could not be shown to write into an empty envelope, and
that needs `HeldOnce`: an owner is in the hands of one finisher.

**JoinAllSettledProofs.** `LimitHolds`, `NoPlaceStaysFree` (`KeepsBusy`), `Implements`
(`KeepsPromise`) and `FinishOrder` (`Ordered`), for any number of children and any `MaxParallel`. The counters are shown to
count: `nextIndex` separates the pending children from the others, `inFlight` and `settled`
are the cardinalities of those in flight and settled, and after `Begin` either all places are
taken or no child is pending. `FinishOrder` adds that
the settled children carry exactly the numbers `1..settled`.

**TaskRuntimeProofs.** `ParentIsTold` (`ToldTheRecord`), `CallbackComes`
(`CallbackInvoked`), `RunningHasGoroutine` (`RunningIsOwned`), `OneTerminalEvent`
(`EndedOnce`) and `AttemptIsCancelled` (`CancelReaches`), for any set of tasks, any attempts
and a store that nobody rebuilds. `TaskInv` says for each task what its goroutine may find in
the record at each place (`Placed`: one that settles, reads back or is done finds a terminal
record, and the one it told), who owes the terminal event until it is emitted (`OwedOnce`: one
actor and nobody after), and that an attempt under way can be reached (`Cancellable`: its
cancel function is registered before it begins, and has been called once `Cancel` is through).
`SettledIsKept` proves `SettledStays` of `Spec`, with rebuilds that apply event by event: every
change of a settled record is a `Reset` or an `applyEvent`. `RecordInv` says what a record may be at
each count of applied events: once the last event of a log that ends with an end has been applied, the
record has that end, and no transition that comes after leaves it.

**SurfacesProofs**, each for all values of its component's constants:

* `RunsOfAgentsSettle` (`RunsSettle`): a run says done only of a goal that is completed or awaits
  its user, and every call of its transcript has a result however it ends. `AgentInv` says for
  each place of the controller which calls may be open (`OpenCalls`: none between turns, those of
  the batch during one, one of a plan's step during that) and that it has ended with an outcome
  nowhere but at its end.
* `RepliesSayTheLast` (`RepliesAreFinal`): what is sent is behind what was said. `GateInv` relates
  the reply buffer and the run's output (`Buffers`: the reply is the output or an apology before
  it, and its texts are all of the last era) and what was sent of each form to a beginning of
  the reply (`SentSoFar`).
* `TimeoutsAreIdle` (`OnlyIdleTimesOut`): the timer of an active turn never runs ahead of the quiet
  time, and a callback is on its way only if a whole timeout passed without activity (`TimerLags`);
  a touch that loses to the callback finds the turn ended.
* `ReloadsKeepPartsTogether` (`PartsAgree`): `ReloadInv` says for each step of a reload which parts
  are already of its project and which still of the one before (`Progress`), whatever is saved
  between two of them, as long as no other reload has begun, and that resources and skills of an
  earlier project remain only where the catalogue failed.

**ServicesProofs**, likewise:

* `QueueIsBounded` (`QueueWithinLimit`), for any limit, when the settings a reload may bring all
  collect, which is the default mode (`config.go:31`), and agree on the limit. A hand-off then
  merges all that it kept and puts nothing back, so that only submissions lengthen the queue, and
  `Retained` cuts it each time. In the other modes the rest is put behind what was queued
  meanwhile, without a look at the limit.
* `ChildrenHaveOwners` (`ChildrenAreOwned`), for any commands, servers and runs. `CommandInv`
  says for each command what may live in its group at each point, and that a child left over is
  unwatched, wanted, or registered for the end of the run; `ServerInv` says for each server of a
  manager which session it may have at the manager's stage, and that the tools offered are those
  the policy allows of a server with a session.
* `JobsRunOnce` (`OneOfEachRuns`), for any jobs, names and budgets. The property is inductive
  together with the types: each change of a job cancels the worker it replaces in the same critical
  section. The work is in `Start`, which numbers the goroutines of several jobs at once
  (`StartAllKeeps`), and in the position of a job in a list that may name it twice
  (`PositionIsFirst`).
* `CalledAgentsEnd` (`CallsEnd`), for any finite set of calls and any limits. `AgentInv` gives each
  run its line of callers, which grows by one at each call and names no run twice (`LineInv`), so
  that a line is a set whose size is the depth (`BoundedInv`) and no tree has a cycle; the requests of
  one parallel call have places of their own in it (`PlacesInv`), and one that works had fewer than
  the limit unsettled ahead, so more that work than the limit would need two in one place
  (`WidthIsBounded`); whatever
  works below a run that was told to stop was told as well (`ToldInv`). `NodesInv` says of the same
  calls as the recorder sees them that every node but the top has one parent that is seen
  (`EdgesInv`), that the record is where the top's own events put it (`RecordInv`, `TopInv`), and
  that the hook which cancels the run goes away only at an end (`TrackerInv`).
* `LogsStay` (`LogsAreKept`), for any runtimes, sizes, limits and failures. `LogsInv` says that the
  default logger is that of the runtime installed last; of the disk, as long as no logger outlived its
  runtime, that the lines of each file are where they were put and between those of its neighbours
  (`Placed`), that a file holds more than its limit only as a single line (`Filled`), and that no
  more archives are beside one another than a prune or a refused one leaves (`Pruned`); and of each
  writer that it counts the file it has open (`WriterInv`).
* `GuardHolds` (`RepeatsAreBounded`), for any finite number of parallel calls and any settings. The
  property speaks of the history; a call that has passed the guard will join it whatever happens to
  the others, so `StreaksInv` bounds the streak of a call together with the slots in which that call
  is past the guard (`Past`). A look adds one slot to them and only below the limit, a record
  moves one from the slots to the streak or begins the streak anew, and what leaves the history at
  its old end makes no streak longer (`CutAlike`, `AddAlike`).

**StreamsProofs.** `StreamsKeepWhole` (`StreamsAreWhole`), for any publishers, capacities and size
of the log buffer. The property speaks of the client alone and is far from inductive. `ApiInv`
follows every event stored since the subscription: it is in a publisher's hands, in one of the
channels, held by the relay, streamed, missed by a full subscription, or in the snapshot
(`NoneForgotten`); in the line from the client back to the subscription no event is twice and
log entries are in order (`LineAgrees`, `SendingAgrees`); the client was given the snapshot first
(`GivenAgrees`); and the relay passes nothing before it knows the snapshot (`PhasesAgree`).

`AnswersStayWhole` (`AnswersAreTakenWhole`), for any transcripts, split ones included, pieces and
attempts. Calls run once and in place for every provider; that arguments are whole or none is said
of OpenAI's and Gemini's alone, which is what the code keeps. While a
transcript is translated, what is owed to the calls built last is split between what is built, the
results held back and the head of what is left: `PlainInv` says where for the providers that take a
message at a time, `GroupedInv` for Anthropic's, whose builder must not hold back a result that
belongs to no call. While an answer arrives, what the server has still to send is in line
(`LineOf`: no chunk of a call behind one of a later call, none behind the end of its call, nothing
behind the finish), each call begun lacks the pieces in the line (`OpenInv`), and Anthropic's and
Gemini's calls handed on are those before it, while of OpenAI's none is handed on before all are.

**StorageProofs.** `MemoriesAreTrue` (`MemoryIsTrue`), for any managers, sessions and texts. The
property speaks of what is shown and promoted; `MemInv` says of every copy of a document (in a file,
in what a manager knows, on its way to a file) that it is its owner's and counts no recall that did
not happen, so that a copy older than the file may be written over it without making it false.

`RecordsStayTrue` (`RecordsAreTrue`), for any runs, events, failures, crashes and rebuilds. `RecInv`
says of the files that numbers rise in each log and that an index which is not older than its log
has what the log says (`IsDisk`, `Counts`); that memory is a replay of the log (`Mirrors`) and the
record where its goroutine is (`Tracks`), both but for the runs the history variables name; and of
the follower that each event stored since it subscribed is in its snapshot, was given, or is on its
way (`Served`).

`QueueLemmas` holds what these proofs need of sequences (ranges and injectivity of appended,
cut and split ones) and of natural numbers (`LeastOf`).

**Only model-checked.**

* Liveness under fairness (`EveryRequestAnswered`, `LaneDrains`, `EveryTaskEnds`, `Joins`,
  `WorkEnds`), which is out of the prover's reach, and the refutations.
* `NothingLost`, `CallsPaired`, `RequestIsSound`, `StateSurvives`: they speak of what the folds of
  `SessionHistory` and `Transcript` compute for every history, which needs induction over data.
  So do the file tools and the screen's merge in `ShownAsStored`. No module
  declares a recursive operator.

## 7. Not modelled

* Input, skills and resources: parsed once and replaced whole by a reload, which `Reload` has.
* Prompt texts, titles, the wire formats' fields, schemas of tool inputs, rendering, the
  web UI, decoding of HTTP requests, command line flags: text without shared state.
* Browser and web search tools, HTTP clients, transports of MCP: outside services.
* Lists, summaries and trees for display: read models recomputed at each call.
* Branches and titles of sessions, the index of all sessions, scoring in the memory's search.
* Subscribers of the task store other than those of one task (in `Streams`); run IDs
  given by clients (IDs are distinct in `SessionLane`); consumers that stop reading
  (section 1); a cron interval of zero.

## 8. Observed disagreements without a run

Met while modelling; the models have the code's behaviour, and a property that would say
otherwise is stated in the weaker form the code keeps.

* Lane: in followup and interrupt mode the summaries of dropped requests are taken and thrown
  away (`sessionlane.go:153`); an interrupt may cancel a run that the hand-off has just
  replaced. A run that fails to start leaves its record queued.
* Tasks: a rebuild forgets the cancel functions of running tasks and may leave a callback
  uncalled (`store.go:363`); an event stamped after the terminal one (of activity, or of the creation
  itself, stamped once the lock is released, `store.go:493`) revives the task in a replay, where
  `control/service_test.go:71` expects a cancelled task to be rebuilt as one; a client that leaves closes the channel a sender has copied (`store.go:508`).
* Recorder: a snapshot numbers anew the events a log repeats. A run whose last record could not be
  appended to its log has ended in memory alone: `RebuildFromStorage` revives it as running, with
  no goroutine to end it (`revived` in `Recorder`).
* Run control by event name alone: once a called agent of a run has ended, `CancelRun` is
  refused and streams of the run end (`kernel.go:595`, `handler.go:1072`).
* Streams: the session's stream loses what is published between snapshot and subscription
  (`handler.go:751`); a run's stream does not end when an event follows the end in the
  snapshot; a relay on a full channel outlives its client (`dto_convert.go:117`).
* Requests: `IncompleteTurnConfig{Enabled: false}` is read as true (`run_recovery.go:54`), a
  `transcriptHygiene` of false values as the defaults (`transcript_policy.go:27`);
  `repairToolPairs` is read by nothing; a question that was answered is presented as
  pending (`request_focus.go:91`).
* Memory: a long-term entry that was forgotten is promoted again; `CleanupExpiredMaybe`
  judges the cached copy; `GetScoped` looks at the first entry of an ID alone.
* Reload: when the catalogue of a project cannot be built, its configuration, providers and router are in
  force beside the resources and skills of an earlier one (`runtime_updater.go:60`). A configuration
  saved beside a reload may be mixed with it.
* MCP: the manager a manual compaction builds is never closed; a session that died is not
  replaced; a private entry that is disabled does not hide the shared one.
* Models: a call cut before the first piece of its arguments is executed with `{}`.
* Scheduler: an interval of zero panics; a name may be listed twice; `Start` ignores
  `Job.Paused`.
* Gateway: a failed tool leaves "Sorry, I encountered an error" in front of the later answer
  (`channel_dispatch.go:74`; the comment at 105 says it mirrors the run's buffering); the
  router's comment on priorities differs from its order; `forwardRunTree`, which nothing
  calls today, would never end. Terminal: the trace node of a task whose run never started stays queued.
* Files: a wide character cut by two byte pages is in neither; a `line_count` of 0 does not
  advance; a hunk matches inside a longer line and two overlapping places count as one
  (`writefile.go:460`); a patch of several files that fails leaves the earlier ones changed.
* Logging: `FileLevel` "info" is the zero value and read as the default (`setup.go:205`); a
  failed prune loses the line being written (`core.go:158`).
