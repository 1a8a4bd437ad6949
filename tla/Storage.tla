------------------------------- MODULE Storage -------------------------------
(***************************************************************************)
(* The components that keep records, in one run: the event recorder, the   *)
(* session store, the memory, what the model is shown of a session, and    *)
(* the task store with the tasks it is rebuilt under.  They share nothing  *)
(* here, so a behaviour is of one.                                         *)
(***************************************************************************)
EXTENDS Naturals

CONSTANTS Runs, Followed, RunSessions, Payloads, Budgets, ChanCap, LiveTail, EndTail  \* of Recorder
CONSTANTS Kinds, Keeps, StoreThreshold, Archiving, StoreLimits    \* of SessionStore
CONSTANTS Hygiene, Projections, MaxRecent, TalkThreshold, TalkLimits  \* of Transcript
CONSTANTS Managers, Ids, Texts, Owner, Sessions, RecallThreshold, MaxRecalls, MaxWrites  \* of Memory
CONSTANTS Tasks, Attempts, Rebuilds, Repeats                      \* of TaskRuntime

\* What is followed is a run, and what an event names are sessions.  An ended run keeps no
\* more events in memory than a live one.
ASSUME FollowedAssumption == Followed \in Runs
ASSUME PayloadsAssumption ==
  Payloads \subseteq [session_id: RunSessions \cup {"none"}, child: RunSessions \cup {"none"}]
ASSUME TailAssumption == LiveTail \in Nat \ {0} /\ EndTail \in 1..LiveTail
ASSUME ThresholdAssumption == RecallThreshold \in Nat

VARIABLE subject  \* the component this behaviour is of; the variables of the others are 0

VARIABLES stage, life, runs, seqs, kids, live, raw, index, newer, loaded, sending,
          follower, budget, missed, unwritten, misread, overrun, revived
VARIABLES exists, file, sameTick, offsets, copies, run, events, lastId, limits, archived,
          stored, diverged
VARIABLES talkSetting, talkHistory, talkStage, asked, directive, talkRequest, talkLastId,
          talkLeft, behind
VARIABLES disk, entries, saving, late, recalled, memoryShown, writes
VARIABLES store, cancels, cancelled, pc, attempt, outcome, canceller, owed, logged, endings,
          told, turn, turnEnded, rebuilding, snapshot, applied, rebuilt

Rec == INSTANCE Recorder WITH Sessions <- RunSessions
Store == INSTANCE SessionStore WITH Threshold <- StoreThreshold, Limits <- StoreLimits,
        left <- limits, log <- events
Talk == INSTANCE Transcript WITH Threshold <- TalkThreshold, Limits <- TalkLimits,
        setting <- talkSetting, history <- talkHistory, stage <- talkStage,
        request <- talkRequest, lastId <- talkLastId, left <- talkLeft
Mem == INSTANCE Memory WITH Threshold <- RecallThreshold, shown <- memoryShown
Task == INSTANCE TaskRuntime

recorderVars == <<stage, life, runs, seqs, kids, live, raw, index, newer, loaded, sending, follower,
    budget, missed, unwritten, misread, overrun, revived>>
storeVars == <<exists, file, sameTick, offsets, copies, run, events, lastId, limits, archived, stored,
    diverged>>
transcriptVars == <<talkSetting, talkHistory, talkStage, asked, directive, talkRequest, talkLastId,
    talkLeft, behind>>
memoryVars == <<disk, entries, saving, late, recalled, memoryShown, writes>>
taskVars == <<store, cancels, cancelled, pc, attempt, outcome, canceller, owed, logged, endings,
    told, turn, turnEnded, rebuilding, snapshot, applied, rebuilt>>

recorderIdle == stage = 0 /\ life = 0 /\ runs = 0 /\ seqs = 0 /\ kids = 0 /\ live = 0 /\ raw = 0 /\ index = 0 /\
    newer = 0 /\ loaded = 0 /\ sending = 0 /\ follower = 0 /\ budget = 0 /\ missed = 0 /\
    unwritten = 0 /\ misread = 0 /\ overrun = 0 /\ revived = 0
storeIdle == exists = 0 /\ file = 0 /\ sameTick = 0 /\ offsets = 0 /\ copies = 0 /\ run = 0 /\ events = 0 /\
    lastId = 0 /\ limits = 0 /\ archived = 0 /\ stored = 0 /\ diverged = 0
transcriptIdle == talkSetting = 0 /\ talkHistory = 0 /\ talkStage = 0 /\ asked = 0 /\ directive = 0 /\
    talkRequest = 0 /\ talkLastId = 0 /\ talkLeft = 0 /\ behind = 0
memoryIdle == disk = 0 /\ entries = 0 /\ saving = 0 /\ late = 0 /\ recalled = 0 /\ memoryShown = 0 /\ writes = 0
taskIdle == store = 0 /\ cancels = 0 /\ cancelled = 0 /\ pc = 0 /\ attempt = 0 /\ outcome = 0 /\
    canceller = 0 /\ owed = 0 /\ logged = 0 /\ endings = 0 /\ told = 0 /\ turn = 0 /\ turnEnded = 0 /\
    rebuilding = 0 /\ snapshot = 0 /\ applied = 0 /\ rebuilt = 0

Init ==
  \/ subject = "recorder" /\ Rec!Init /\ storeIdle /\ transcriptIdle /\ memoryIdle /\ taskIdle
  \/ subject = "store" /\ Store!Init /\ recorderIdle /\ transcriptIdle /\ memoryIdle /\ taskIdle
  \/ subject = "transcript" /\ Talk!Init /\ recorderIdle /\ storeIdle /\ memoryIdle /\ taskIdle
  \/ subject = "memory" /\ Mem!Init /\ recorderIdle /\ storeIdle /\ transcriptIdle /\ taskIdle
  \/ subject = "task" /\ Task!Init /\ recorderIdle /\ storeIdle /\ transcriptIdle /\ memoryIdle

OfRecorder(A) == subject = "recorder" /\ A /\ UNCHANGED <<subject, storeVars, transcriptVars, memoryVars, taskVars>>
OfStore(A) == subject = "store" /\ A /\ UNCHANGED <<subject, recorderVars, transcriptVars, memoryVars, taskVars>>
OfTranscript(A) == subject = "transcript" /\ A /\ UNCHANGED <<subject, recorderVars, storeVars, memoryVars, taskVars>>
OfMemory(A) == subject = "memory" /\ A /\ UNCHANGED <<subject, recorderVars, storeVars, transcriptVars, taskVars>>
OfTask(A) == subject = "task" /\ A /\ UNCHANGED <<subject, recorderVars, storeVars, transcriptVars, memoryVars>>

Next ==
  \/ OfRecorder(Rec!Next)
  \/ OfStore(Store!Next)
  \/ OfTranscript(Talk!Next)
  \/ OfMemory(Mem!Next)
  \/ OfTask(Task!Next)

vars == <<subject, recorderVars, storeVars, transcriptVars, memoryVars, taskVars>>
Spec == Init /\ [][Next]_vars

-----------------------------------------------------------------------------
(* The properties of the components, stated in their modules.                *)

\* Recorder: memory holds what a replay of each log gives, whose events are numbered
\* upwards; once a restarted process serves, no run of the last one is called running; and a
\* follower that has caught up was given every stored event of its run.
RecordsAreTrue == subject = "recorder" =>
  /\ Rec!TypeOK /\ Rec!MemoryIsReplay /\ Rec!SequencesRise
  /\ Rec!NothingLeftRunning /\ Rec!FollowerSeesAll

\* SessionStore: a page of a session is what its file holds, compaction removes nothing for
\* good, and the next run sees what this one sees.
NothingLost == subject = "store" => Store!PagesAgree /\ Store!NothingLost /\ Store!ReloadSeesRun
\* SessionStore: compaction never comes between a call and its result.
CallsPaired == subject = "store" => Store!CallsPaired
\* SessionStore: plan and todos survive a compaction and a rebuild.
StateSurvives == [][subject = "store" => Store!StateKept]_vars

\* Memory: what a session is shown is its own, and what is promoted has earned it.
MemoryIsTrue == subject = "memory" => Mem!MemoryIsTrue

\* Transcript: a request holds the run's question, every result with its call, the latest
\* summary, and the directive of the runtime.
RequestIsSound == subject = "transcript" => Talk!RequestIsSound

\* TaskRuntime: nobody but a rebuild changes a settled record, and a task whose log ended
\* with its end has that end when the rebuild is through.
SettledStays ==
  /\ [][subject = "task" => Task!SettledKept]_vars
  /\ [](subject = "task" => Task!RebuiltAsLogged)
=============================================================================
