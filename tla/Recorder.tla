------------------------------ MODULE Recorder ------------------------------
(***************************************************************************)
(* The event recorder (internal/runtime/events): run records in memory, an *)
(* append-only log file per run, the sidecar index a restart reads instead *)
(* of the logs, and a client that follows a run by snapshot and channel    *)
(* (internal/runtime/projection).  A crash may come between any two steps, *)
(* an append to a log or to the index may fail, and RebuildFromStorage may *)
(* be asked for while runs are recorded.                                   *)
(***************************************************************************)
EXTENDS Naturals, SequencesExt, FiniteSetsExt

CONSTANTS Runs, Followed,   \* run IDs; the run somebody follows
          Sessions,         \* sessions an event may name as its child
          Payloads,         \* what the payload of an event names
          Budgets,          \* bounds: events, append failures, crashes, rebuilds of a
                            \* recorder in use, and followers of one behaviour
          ChanCap,          \* slots of a subscriber's channel (64 in the code)
          LiveTail, EndTail \* events kept in memory, of a live and of an ended run (256, 16)

VARIABLES
  stage,     \* the process: "down", "aborting" (startup), "up"
  life,      \* the goroutine that owns a run
  runs,      \* Recorder.runs: the status of a record, "none" without one
  seqs,      \* Recorder.runSequences
  kids,      \* Recorder.sessionChildren: children of a run's session
  live,      \* Recorder.runEvents
  raw,       \* the log file of each run
  index,     \* what a reader takes of each run from the sidecar index
  newer,     \* logs whose modification time is after the index's
  loaded,    \* {the state a rebuild has read and not yet put in place}
  sending,   \* events in the hands of publishers, for the follower
  follower,  \* subscribeReplayStream
  budget,    \* what is left of the bounds
  missed,    \* history: runs with a record the index lacks and does not know to lack
  unwritten, \* history: runs with a record in memory that the log lacks
  misread,   \* history: runs whose state was read from an index that missed a record
  overrun,   \* history: runs recorded between the halves of a rebuild
  revived    \* history: runs that a rebuild took back to a log that lacked a record of theirs

memory == <<runs, seqs, kids, live>>
disk == <<raw, index, newer, missed, unwritten>>
history == <<misread, overrun, revived>>
vars == <<stage, life, memory, disk, loaded, sending, follower, budget, history>>

Active == {"queued", "running"}
Terminal == {"completed", "aborted"}     \* a failed run is recorded as a completed one is
Statuses == {"none"} \cup Active \cup Terminal
Lives == {"new", "queued", "running"} \cup Terminal \cup {"done"}

\* What RecordAgentEvent makes of the events of an agent: the records of one
\* event; text and activity are passed on and not stored, some are neither.
AgentRecords ==
  [text |-> {"delta"}, activity |-> {"delta"}, tool |-> {"note"}, agentcall |-> {"note", "child"},
   retry |-> {"silent"}, fallback |-> {"silent"}, done |-> {"completed"}, aborted |-> {"aborted"}]
AgentNames == UNION {AgentRecords[type] : type \in DOMAIN AgentRecords}
Transient == {"delta"}
Stored == (AgentNames \ {"silent"}) \ Transient
-----------------------------------------------------------------------------
(* Records and what a replay makes of them. *)

RunEntry(status) == [kind |-> "run", status |-> status]

\* The session an event links to its own: payload.session_id, else
\* payload.child_session_id.
ChildOf(payload) ==
  (IF payload.session_id # "none" THEN {payload.session_id} ELSE {payload.child}) \ {"none"}

EventEntry(name, seq, child) == [kind |-> "event", name |-> name, seq |-> seq, child |-> child]

IsRun(e) == e.kind = "run"
IsEvent(e) == e.kind = "event"
EventsIn(log) == {log[i] : i \in {j \in DOMAIN log : IsEvent(log[j])}}
RunsAt(log) == {i \in DOMAIN log : IsRun(log[i])}
StatusIn(log) == IF RunsAt(log) = {} THEN "none" ELSE log[Max(RunsAt(log))].status

\* What recorderState.apply makes of a log: the last run record wins, and the events, each
\* once.  indexRecords writes no more than that, in an order that apply does not look at.
Nothing == [status |-> "none", events |-> {}]
Applied(log) == [status |-> StatusIn(log), events |-> EventsIn(log)]
Noted(known, entry) ==
  IF IsRun(entry) THEN [known EXCEPT !.status = entry.status]
  ELSE [known EXCEPT !.events = @ \cup {entry}]

\* Faulty variant: numbers are counted, though deltas take some and are not stored.
SeqCounted(known) == Cardinality(known.events)
\* Sequence numbers go up, and children add up.
SeqIn(known) == Max({0} \cup {e.seq : e \in known.events})
KidsIn(known) == UNION {e.child : e \in known.events}

Replay(known) == [runs |-> [r \in Runs |-> known[r].status],
                  seqs |-> [r \in Runs |-> SeqIn(known[r])],
                  kids |-> [r \in Runs |-> KidsIn(known[r])]]

\* Faulty variant: the age of the index is not compared.
FreshAtAnyAge == \A r \in Runs: raw[r] # <<>> => index[r] # Nothing

\* The sidecar index is fresh: no log was written after it, and it has a record
\* of each (isSidecarIndexFresh, hasAllIndexSources).
Fresh == newer = {} /\ \A r \in Runs: raw[r] # <<>> => index[r] # Nothing

-----------------------------------------------------------------------------
(* Appending.  "ok": both files; "log only": the index append fails, or    *)
(* the process dies before it; "in the tick": likewise, and the clock of   *)
(* the file system does not tell the two writes apart; "none": the log     *)
(* append fails and the index is not tried.                                *)

Outcomes == {"ok", "log only", "in the tick", "none"}

Store == [raw |-> raw, index |-> index, newer |-> newer, missed |-> missed,
          unwritten |-> unwritten, failed |-> 0, events |-> 0]

Appended(d, r, entry, o) ==
  LET log == [d EXCEPT !.raw[r] = Append(@, entry)] IN
  CASE o = "ok" -> [log EXCEPT !.index[r] = Noted(@, entry),
                               !.missed = @ \cup d.newer, !.newer = {}]
    [] o = "log only" -> [log EXCEPT !.newer = @ \cup {r}, !.failed = @ + 1]
    [] o = "in the tick" -> [log EXCEPT !.missed = @ \cup {r}, !.failed = @ + 1]
    [] o = "none" -> [d EXCEPT !.unwritten = @ \cup {r}, !.failed = @ + 1]

Put(d) ==
  /\ d.failed <= budget.failures
  /\ raw' = d.raw /\ index' = d.index /\ newer' = d.newer
  /\ missed' = d.missed /\ unwritten' = d.unwritten
  /\ budget' = [budget EXCEPT !.failures = @ - d.failed, !.events = @ - d.events]

\* A record written while a rebuild holds an older state is lost with the swap.
Overrun(r) == overrun' = IF loaded = {} THEN overrun ELSE overrun \cup {r}

\* appendLiveRunEventLocked keeps the last ones, fewer of a run that has ended.
TakenLive(r, event) ==
  LET events == Append(live[r], event)
      limit == IF event.name \in Terminal THEN EndTail ELSE LiveTail
  IN [live EXCEPT ![r] = SubSeq(events, Max({1, Len(events) - limit + 1}), Len(events))]

\* The subscribers are copied under the lock, and sent to after it.
Handed(r, name, seq) ==
  IF r = Followed /\ follower.stage # "idle"
  THEN sending \cup {[name |-> name, seq |-> seq]} ELSE sending
-----------------------------------------------------------------------------
(* The recorder's operations, each one critical section. *)

Record(r, status) ==
  \E o \in Outcomes:
    /\ runs' = [runs EXCEPT ![r] = status]
    /\ Put(Appended(Store, r, RunEntry(status), o))
    /\ Overrun(r)

StartRun(r) ==
  /\ stage = "up" /\ life[r] = "new" /\ runs[r] = "none"
  /\ Record(r, "queued")
  /\ life' = [life EXCEPT ![r] = "queued"]
  /\ UNCHANGED <<stage, seqs, kids, live, loaded, sending, follower, misread, revived>>

BeginRun(r) ==
  /\ stage = "up" /\ life[r] = "queued"
  /\ Record(r, "running")
  /\ life' = [life EXCEPT ![r] = "running"]
  /\ UNCHANGED <<stage, seqs, kids, live, loaded, sending, follower, misread, revived>>

\* A run that ended without saying so has completed; one that a rebuild has
\* forgotten is not finished.
FinishRun(r) ==
  /\ stage = "up" /\ life[r] \in {"running"} \cup Terminal
  /\ life' = [life EXCEPT ![r] = "done"]
  /\ IF runs[r] = "none"
     THEN UNCHANGED <<runs, disk, budget, overrun>>
     ELSE Record(r, IF life[r] = "running" THEN "completed" ELSE life[r])
  /\ UNCHANGED <<stage, seqs, kids, live, loaded, sending, follower, misread, revived>>

\* applyRunLifecycleEventLocked: the status an event leaves a record with; a
\* run without one gets one.
Lifecycle == [x \in {"started"} \cup Terminal |-> IF x = "started" THEN "running" ELSE x]

NextSeq(r) == seqs[r] + 1

\* publishEvent with persist: sequence, record, live tail, log and index, and
\* then the sends.
AppendEvent(r, name, payload) ==
  \E o1 \in (IF name \in DOMAIN Lifecycle THEN Outcomes ELSE {"ok"}), o2 \in Outcomes:
    LET event == EventEntry(name, NextSeq(r), ChildOf(payload))
        status == IF name \in DOMAIN Lifecycle THEN Lifecycle[name] ELSE runs[r]
        recorded == IF name \in DOMAIN Lifecycle
                    THEN Appended(Store, r, RunEntry(status), o1) ELSE Store
    IN /\ budget.events > 0
       /\ seqs' = [seqs EXCEPT ![r] = event.seq]
       /\ runs' = [runs EXCEPT ![r] = status]
       /\ kids' = [kids EXCEPT ![r] = @ \cup event.child]
       /\ live' = TakenLive(r, event)
       /\ Put([Appended(recorded, r, event, o2) EXCEPT !.events = 1])
       /\ sending' = Handed(r, name, event.seq)
       /\ Overrun(r)

NoChild == [session_id |-> "none", child |-> "none"]

Log(r) ==
  /\ stage = "up" /\ life[r] = "running"
  /\ \/ AppendEvent(r, "started", NoChild)
     \/ "note" \in Stored /\ AppendEvent(r, "note", NoChild)
     \/ \E payload \in Payloads: "child" \in Stored /\ AppendEvent(r, "child", payload)
  /\ UNCHANGED <<stage, life, loaded, follower, misread, revived>>

LogEnd(r) ==
  /\ stage = "up" /\ life[r] = "running"
  /\ \E name \in Stored \cap Terminal:
       AppendEvent(r, name, NoChild) /\ life' = [life EXCEPT ![r] = name]
  /\ UNCHANGED <<stage, loaded, follower, misread, revived>>

\* publishEvent without persist: a sequence number and the subscribers.
PublishTransient(r) ==
  /\ stage = "up" /\ life[r] = "running" /\ budget.events > 0
  /\ seqs' = [seqs EXCEPT ![r] = NextSeq(r)]
  /\ \E name \in Transient: sending' = Handed(r, name, NextSeq(r))
  /\ budget' = [budget EXCEPT !.events = @ - 1]
  /\ UNCHANGED <<stage, life, runs, kids, live, disk, loaded, follower, history>>
-----------------------------------------------------------------------------
(* Crash, restart and rebuild. *)

Idle == [stage |-> "idle", status |-> "none", output |-> FALSE, snap |-> {}, shown |-> {},
         chan |-> <<>>, backlog |-> {}, got |-> {}, dropped |-> FALSE]

Crash ==
  /\ stage # "down" /\ budget.crashes > 0
  /\ budget' = [budget EXCEPT !.crashes = @ - 1]
  /\ stage' = "down"
  /\ life' = [r \in Runs |-> IF life[r] = "new" THEN "new" ELSE "done"]
  /\ runs' = [r \in Runs |-> "none"] /\ seqs' = [r \in Runs |-> 0]
  /\ kids' = [r \in Runs |-> {}] /\ live' = [r \in Runs |-> <<>>]
  /\ loaded' = {} /\ sending' = {} /\ follower' = Idle
  /\ UNCHANGED <<disk, history>>

\* loadIndex: the sidecar index when it is fresh and knows every log, else the
\* logs, and then the index is rewritten from them.
Rewritten == [r \in Runs |-> Applied(raw[r])]
Loaded == Replay(IF Fresh THEN index ELSE Rewritten)

Reindex ==
  IF Fresh
  THEN misread' = misread \cup missed /\ UNCHANGED <<index, newer, missed>>
  ELSE /\ index' = Rewritten
       /\ newer' = {} /\ missed' = {}
       /\ UNCHANGED misread

\* RebuildFromStorage puts the loaded state in place, events aside.
Replace(state) ==
  /\ runs' = state.runs /\ seqs' = state.seqs /\ kids' = state.kids
  /\ live' = [r \in Runs |-> <<>>]
  /\ unwritten' = {}

\* NewPersistentRecorder.
Open ==
  /\ stage = "down"
  /\ Reindex /\ Replace(Loaded)
  /\ stage' = "aborting" /\ revived' = {}
  /\ UNCHANGED <<life, raw, loaded, sending, follower, budget, overrun>>

\* Faulty variant: only running records are aborted.
ToAbortRunning(r) == runs[r] = "running"

\* AbortActiveRuns, one record after the other; nobody else has the recorder.
ToAbort(r) == runs[r] \in Active

AbortActive(r) ==
  /\ stage = "aborting" /\ ToAbort(r)
  /\ \E o1, o2 \in Outcomes:
       LET event == EventEntry("aborted", seqs[r] + 1, {}) IN
       /\ Put(Appended(Appended(Store, r, RunEntry("aborted"), o1), r, event, o2))
       /\ live' = TakenLive(r, event)
  /\ runs' = [runs EXCEPT ![r] = "aborted"]
  /\ seqs' = [seqs EXCEPT ![r] = @ + 1]
  /\ UNCHANGED <<stage, life, kids, loaded, sending, follower, history>>

Serve ==
  /\ stage = "aborting" /\ \A r \in Runs: ~ToAbort(r)
  /\ stage' = "up"
  /\ UNCHANGED <<life, memory, disk, loaded, sending, follower, budget, history>>

\* RebuildFromStorage of a recorder in use reads without the lock ...
LoadForRebuild ==
  /\ stage = "up" /\ loaded = {} /\ budget.rebuilds > 0
  /\ budget' = [budget EXCEPT !.rebuilds = @ - 1]
  /\ Reindex /\ loaded' = {Loaded}
  /\ UNCHANGED <<stage, life, memory, raw, unwritten, sending, follower, overrun, revived>>

\* ... and replaces what memory holds under it.
SwapForRebuild ==
  /\ stage = "up"
  /\ \E state \in loaded: Replace(state)
  /\ loaded' = {} /\ revived' = revived \cup unwritten
  /\ UNCHANGED <<stage, life, raw, index, newer, missed, sending, follower, budget, misread, overrun>>
-----------------------------------------------------------------------------
(* A client that follows a run: subscribe, read the record, read the file, *)
(* add the live tail, then let the channel through.                        *)

\* sendEventNonBlocking: a full channel drops.
Send(e) ==
  /\ e \in sending /\ sending' = sending \ {e}
  /\ follower' = IF Len(follower.chan) < ChanCap
                 THEN [follower EXCEPT !.chan = Append(@, e)]
                 ELSE [follower EXCEPT !.dropped = TRUE]
  /\ UNCHANGED <<stage, life, memory, disk, loaded, budget, history>>

Follow(from, to) ==
  /\ stage = "up" /\ follower.stage = from
  /\ follower' = to
  /\ UNCHANGED <<stage, life, memory, disk, loaded, sending, budget, history>>

Subscribe == budget.follows > 0 /\ runs[Followed] # "none" /\ Follow("idle", [follower EXCEPT !.stage = "subscribed"])

\* Output is there once the run is finished.
ReadRecord ==
  Follow("subscribed", [follower EXCEPT !.stage = "record", !.status = runs[Followed],
                          !.output = life[Followed] = "done" /\ runs[Followed] = "completed"])

Heads(events) == {[name |-> e.name, seq |-> e.seq] : e \in events}

ReadStored == Follow("record", [follower EXCEPT !.stage = "stored",
                                  !.snap = Heads(EventsIn(raw[Followed]))])

ReadLive == Follow("stored", [follower EXCEPT !.stage = "live",
                                !.snap = @ \cup Heads(ToSet(live[Followed]))])

\* ReplayRunEvents: an ended run without its end in the log is given one, and
\* its output stands for the deltas, which are not stored; then the numbers
\* are dealt anew.
Ended(events) == \E e \in events: e.name \in Terminal

Synthesized(f) ==
  LET ordered == SetToSortSeq(f.snap, LAMBDA a, b: a.seq < b.seq)
      before == SelectSeq(ordered, LAMBDA e: e.name \notin Terminal)
      end == IF Ended(f.snap) THEN SelectSeq(ordered, LAMBDA e: e.name \in Terminal)
             ELSE <<[name |-> f.status, seq |-> 0]>>
      text == IF f.output THEN <<[name |-> "delta", seq |-> 0]>> ELSE <<>>
      all == before \o text \o end
  IN {[name |-> all[i].name, seq |-> i] : i \in DOMAIN all}

Replayed(f) ==
  IF f.status \in Terminal /\ (f.output \/ ~Ended(f.snap)) THEN Synthesized(f) ELSE f.snap

\* Faulty variant: what came before the snapshot is thrown away.
ReleaseForgetting ==
  Follow("live", [follower EXCEPT !.stage = "following", !.shown = Replayed(follower),
                    !.backlog = {}])

\* The goroutine behind the stream keeps a backlog until it knows what the
\* snapshot has shown, and passes on what is in neither.
Release ==
  Follow("live", [follower EXCEPT !.stage = "following", !.shown = Replayed(follower),
                    !.got = follower.backlog \ Replayed(follower), !.backlog = {}])

Pump ==
  /\ follower.chan # <<>>
  /\ LET e == Head(follower.chan) IN
     follower' = IF follower.stage = "following"
                 THEN [follower EXCEPT !.chan = Tail(@), !.got = @ \cup ({e} \ follower.shown)]
                 ELSE [follower EXCEPT !.chan = Tail(@), !.backlog = @ \cup {e}]
  /\ UNCHANGED <<stage, life, memory, disk, loaded, sending, budget, history>>

-----------------------------------------------------------------------------
Init ==
  /\ stage = "up" /\ life = [r \in Runs |-> "new"]
  /\ runs = [r \in Runs |-> "none"] /\ seqs = [r \in Runs |-> 0]
  /\ kids = [r \in Runs |-> {}] /\ live = [r \in Runs |-> <<>>]
  /\ raw = [r \in Runs |-> <<>>] /\ index = [r \in Runs |-> Nothing]
  /\ newer = {} /\ missed = {} /\ unwritten = {} /\ misread = {} /\ overrun = {}
  /\ revived = {}
  /\ loaded = {} /\ sending = {} /\ follower = Idle
  /\ budget \in Budgets

Life(r) == StartRun(r) \/ BeginRun(r) \/ Log(r) \/ LogEnd(r) \/ PublishTransient(r) \/ FinishRun(r)
Restart == Open \/ (\E r \in Runs: AbortActive(r)) \/ Serve
Rebuild == LoadForRebuild \/ SwapForRebuild
Client == Subscribe \/ ReadRecord \/ ReadStored \/ ReadLive \/ Release \/ Pump
Deliver == \E e \in sending: Send(e)

Next == (\E r \in Runs: Life(r)) \/ Crash \/ Restart \/ Rebuild \/ Client \/ Deliver

Spec == Init /\ [][Next]_vars
-----------------------------------------------------------------------------
(* Properties. *)

\* The state keeps its types, and a live buffer its limit.
TypeOK ==
  /\ stage \in {"down", "aborting", "up"} /\ life \in [Runs -> Lives]
  /\ runs \in [Runs -> Statuses] /\ seqs \in [Runs -> Nat]
  /\ kids \in [Runs -> SUBSET Sessions]
  /\ \A r \in Runs: Len(live[r]) <= LiveTail
  /\ UNION {newer, missed, unwritten, misread, overrun, revived} \subseteq Runs

\* A run about which memory can know less than its log does: its state was read
\* from an index that had missed a record, a log append failed, or a rebuild
\* overlapped with a write.
Clouded == misread \cup unwritten \cup overrun

\* Whatever crashes and index failures come between, memory holds what a replay
\* of the log gives: the status of each run and the children of its session
\* (RebuildFromStorage, loadIndex).
MemoryIsReplay ==
  stage # "down" => \A r \in Runs \ Clouded:
    LET log == Applied(raw[r]) IN
    runs[r] = log.status /\ kids[r] = KidsIn(log) /\ seqs[r] >= SeqIn(log)

\* No two events in the log of a run have the same number, over restarts too.
SequencesRise ==
  \A r \in Runs \ (misread \cup overrun): \A i, j \in DOMAIN raw[r]:
    i < j /\ IsEvent(raw[r][i]) /\ IsEvent(raw[r][j]) => raw[r][i].seq < raw[r][j].seq

\* Once a restarted process serves, a run its log still calls queued or running
\* is one of its own (AbortActiveRuns).
NothingLeftRunning ==
  stage = "up" => \A r \in Runs \ (Clouded \cup revived):
    StatusIn(raw[r]) \in Active => life[r] \notin {"new", "done"}

Caught == follower.stage = "following" /\ follower.chan = <<>> /\ sending = {}

\* A follower that has caught up and whose channel never overflowed was given
\* every stored event of the run, by snapshot or by channel (subscribeReplayStream).
FollowerSeesAll ==
  Caught /\ ~follower.dropped /\ Followed \notin Clouded \cup revived =>
    Heads(EventsIn(raw[Followed])) \subseteq follower.snap \cup follower.got
=============================================================================
