---------------------------- MODULE SessionStore ----------------------------
(***************************************************************************)
(* One session and its file (internal/runtime/session): a run that has     *)
(* loaded the session appends to its copy and to the file; a control       *)
(* operation compacts the session through a copy of its own; the file may  *)
(* be deleted, or rebuilt from the event log, under both; a reader pages   *)
(* through the file by a cached offset index.  The store's mutex makes one *)
(* append, rewrite, page or deletion atomic.  A copy has no lock: what it  *)
(* holds may be older than the file.                                       *)
(***************************************************************************)
EXTENDS SessionHistory

CONSTANTS
  Kinds,      \* what a run adds to its session, besides the message it begins with
  Keeps,      \* keep_entries of a manual compaction
  Threshold,  \* entries after which a run compacts by itself
  Archiving,  \* BOOLEAN: runtime.sessions.compaction archive setting
  Limits      \* bounds: entries, compactions, failures, crashes, deletions, rebuilds

VARIABLES
  exists, file,  \* the session file and its lines
  sameTick,      \* the file's modification time is the one the index remembers
  offsets,       \* Store.entryIndex of this session: [ids, size], or None
  copies,        \* the Session objects: of the run, of a manual compaction
  run,           \* the run: its number and stage
  log,           \* the events recorded of the session, in order
  lastId,        \* entry IDs are fresh
  left,          \* what is left of Limits
  archived,      \* history: entries an archive holds
  stored,        \* history: entries that reached the file and nothing removed on purpose
  diverged       \* history: an append of this run was lost, or its file rewritten under it

vars == <<exists, file, sameTick, offsets, copies, run, log, lastId, left, archived, stored, diverged>>
disk == <<exists, file, sameTick>>

None == [none |-> TRUE]
Unreadable(kind) == [kind |-> kind, id |-> 0, parent |-> 0, key |-> 0, text |-> 0]
Torn == Unreadable("torn")        \* a line without an end
Garbled == Unreadable("garbled")  \* that line with the next entry written behind it

TextsIn(entries) == {entries[i].text : i \in DOMAIN entries}
-----------------------------------------------------------------------------
(* The session object: entries and a leaf. *)

\* Load skips a line it cannot parse; the last entry read is the leaf.
Loaded(lines) ==
  LET entries == SelectSeq(lines, LAMBDA e: e \notin {Torn, Garbled})
  IN [entries |-> entries, leaf |-> IF entries = <<>> THEN 0 ELSE Last(entries).id]

\* History walks the parents from the leaf and stops at one that is not there.
\* A parent comes before its children in a copy.
History(copy) ==
  FoldRight(LAMBDA e, path: IF e.id = path.next
                            THEN [next |-> e.parent, seen |-> <<e>> \o path.seen] ELSE path,
            copy.entries, [next |-> copy.leaf, seen |-> <<>>]).seen

Grown(copy, e) == [entries |-> Append(copy.entries, e), leaf |-> e.id]

\* ReplaceHistoryWithOptions: the entries in one line, each the child of the one before.
Linear(entries) ==
  LET chained == [i \in DOMAIN entries |->
                    [entries[i] EXCEPT !.parent = IF i = 1 THEN 0 ELSE entries[i-1].id]]
  IN [entries |-> chained, leaf |-> IF chained = <<>> THEN 0 ELSE Last(chained).id]

-----------------------------------------------------------------------------
(* Compaction; the rest is in SessionHistory. *)

\* shouldCompactSession by entry count.
Due(history) == Len(SubSeq(history, ScopeFrom(history), Len(history))) > Threshold

-----------------------------------------------------------------------------
(* Replay of the events into a session (RebuildFromEvents). *)

Event(kind, key, text) == [run |-> run.number, kind |-> kind, key |-> key, text |-> text]

\* One event after the message a run begins with; replies are put at the run's end.
ReplayEvent(entries, e) ==
  CASE e.kind = "deleted" -> <<>>
    [] e.kind = "compaction" -> Rewritten(entries, Entry(e.text, 0, "compaction", e.key, e.text), e.key)
    [] e.kind \in {"user", "assistant"} -> entries
    [] OTHER -> Append(entries, Entry(e.text, 0, e.kind, e.key, e.text))

\* Of the replies of a run the last is kept.
ReplayRun(entries, events) ==
  LET message == SelectSeq(events, LAMBDA e: e.kind = "user")
      replies == SelectSeq(events, LAMBDA e: e.kind = "assistant")
      begun == IF message = <<>> THEN entries
               ELSE Append(entries, Entry(message[1].text, 0, "user", 0, message[1].text))
      told == FoldLeft(ReplayEvent, begun, events)
  IN IF replies = <<>> THEN told
     ELSE Append(told, Entry(Last(replies).text, 0, "assistant", 0, Last(replies).text))

\* Runs in the order they began; the events of a run in the order they were recorded.
Replayed(events) ==
  FoldLeft(LAMBDA entries, n: ReplayRun(entries, SelectSeq(events, LAMBDA e: e.run = n)),
           <<>>, [n \in 1..run.number |-> n])
-----------------------------------------------------------------------------
(* The store. *)

IdsIn(lines) == [i \in DOMAIN lines |-> lines[i].id]
Size(lines) == Len(lines) + Len(SelectSeq(lines, LAMBDA e: e = Garbled))
TornTail == file # <<>> /\ Last(file) = Torn

\* updateEntryOffsetIndexOnAppendLocked: kept up to date as long as it was.
Indexed(id) ==
  IF offsets = None \/ offsets.size # Size(file) THEN None
  ELSE [ids |-> Append(offsets.ids, id), size |-> Size(file) + 1]

\* AppendEntry.  "lost": the write fails, and that is only logged.  An entry that
\* follows a torn line becomes part of it.
AppendEntry(e, outcome) ==
  CASE outcome = "lost" ->
         /\ left.failures > 0 /\ left' = [left EXCEPT !.failures = @ - 1, !.entries = @ - 1]
         /\ diverged' = TRUE
         /\ UNCHANGED <<disk, offsets, stored>>
    [] outcome = "ok" /\ TornTail ->
         /\ left' = [left EXCEPT !.entries = @ - 1]
         /\ file' = [file EXCEPT ![Len(file)] = Garbled]
         /\ offsets' = Indexed(e.id) /\ sameTick' = (offsets' # None)
         /\ diverged' = TRUE
         /\ UNCHANGED <<exists, stored>>
    [] OTHER ->
         /\ left' = [left EXCEPT !.entries = @ - 1]
         /\ exists' = TRUE /\ file' = Append(file, e)
         /\ offsets' = Indexed(e.id) /\ sameTick' = (offsets' # None)
         /\ stored' = stored \cup {e.text}
         /\ UNCHANGED diverged

\* Faulty variant: the index is kept, and the clock of the file system has not ticked.
WrittenUnseen(entries) ==
  /\ exists' = TRUE /\ file' = entries
  /\ UNCHANGED <<offsets, sameTick>>

\* RewriteWithOptions once the archive is written: the entries of the copy, whatever
\* the file holds by now.
Written(entries) ==
  /\ exists' = TRUE /\ file' = entries
  /\ offsets' = None /\ sameTick' = FALSE

\* Faulty variant: it is made of what the compacting copy holds.
ArchiveOfCopy(copy) == IF Archiving THEN archived \cup TextsIn(copy.entries) ELSE archived

\* The archive is made of the file, under the store's mutex.
ArchiveOf(copy) == IF Archiving THEN archived \cup TextsIn(file) ELSE archived

Rewrite(who, entries) ==
  /\ Written(Linear(entries).entries)
  /\ copies' = [copies EXCEPT ![who] = Linear(entries)]
  /\ archived' = ArchiveOf(copies[who])
  /\ stored' = IF Archiving THEN stored ELSE stored \cap TextsIn(entries)

\* Faulty variant: the copy keeps the history that could not be written.
RewriteFailsUnrestored(who, entries) ==
  /\ copies' = [copies EXCEPT ![who] = Linear(entries)]
  /\ UNCHANGED <<disk, offsets, stored, archived>>
-----------------------------------------------------------------------------
(* The run. *)

\* A failed rewrite: the archive may be there, the copy is as before (restoreEntries).
RewriteFails(who, entries) ==
  /\ archived' \in {archived, ArchiveOf(copies[who])}
  /\ UNCHANGED <<disk, offsets, copies, stored>>

mine == copies["run"]

RunLoads ==
  /\ run.stage = "away" /\ left.entries > 0
  /\ copies' = [copies EXCEPT !["run"] = Loaded(file)]
  /\ run' = [number |-> run.number + 1, stage |-> "guarding"]
  /\ diverged' = FALSE
  /\ UNCHANGED <<disk, offsets, log, lastId, left, archived, stored>>

Adds(kind, key, events) ==
  LET e == Entry(lastId + 1, mine.leaf, kind, key, lastId + 1) IN
  /\ left.entries > 0
  /\ \E outcome \in {"ok", "lost"}: AppendEntry(e, outcome)
  /\ copies' = [copies EXCEPT !["run"] = Grown(mine, e)]
  /\ lastId' = lastId + 1
  /\ log' = log \o events
  /\ UNCHANGED archived

AddsRecorded(kind, key) == Adds(kind, key, <<Event(kind, key, lastId + 1)>>)

\* guardSessionToolResults, whose results are not recorded; then appendUserMessage.
RunGuards ==
  /\ run.stage = "guarding" /\ Pending(History(mine)) # <<>>
  /\ Adds("result", Pending(History(mine))[1].key, <<>>)
  /\ UNCHANGED run

RunAsked ==
  /\ run.stage = "guarding" /\ Pending(History(mine)) = <<>>
  /\ AddsRecorded("user", 0)
  /\ run' = [run EXCEPT !.stage = "talking"]

\* A tool call is closed before anything else is added; the ID of a call is its own.
RunTalks(kind) ==
  /\ run.stage = "talking"
  /\ LET open == Pending(History(mine)) IN
       IF open # <<>> THEN kind = "result" /\ AddsRecorded("result", open[1].key)
       ELSE kind # "result" /\ AddsRecorded(kind, IF kind = "call" THEN lastId + 1 ELSE 0)
  /\ UNCHANGED run

CompactedNow(keep) ==
  /\ left' = [left EXCEPT !.compactions = @ - 1]
  /\ lastId' = lastId + 2
  /\ log' = Append(log, Event("compaction", keep, lastId + 2))
  /\ UNCHANGED run

CompactionFailed ==
  /\ left.failures > 0
  /\ left' = [left EXCEPT !.compactions = @ - 1, !.failures = @ - 1]
  /\ UNCHANGED <<run, lastId, log, diverged>>

\* maybeCompactSession, between two requests to the model.
RunCompacts ==
  LET history == Repaired(History(mine))
      keep == LastTurn(history)
      entries == Compacted(history, keep, lastId + 1) IN
  /\ run.stage = "talking" /\ left.compactions > 0
  /\ history # <<>> /\ Last(history).kind # "control" /\ Pending(history) = <<>>
  /\ Due(history) /\ Compactable(history, keep)
  /\ \/ Rewrite("run", entries) /\ CompactedNow(keep) /\ UNCHANGED diverged
     \/ RewriteFails("run", entries) /\ CompactionFailed

\* The run ends; one that failed or was aborted leaves a meta entry.
RunEnds ==
  /\ run.stage = "talking"
  /\ \/ /\ copies' = [copies EXCEPT !["run"] = None]
        /\ UNCHANGED <<disk, offsets, log, lastId, left, archived, stored, diverged>>
     \/ /\ left.entries > 0
        /\ LET e == Entry(lastId + 1, mine.leaf, "meta", 0, lastId + 1) IN
             \E outcome \in {"ok", "lost"}: AppendEntry(e, outcome) /\ log' = Append(log, Event("meta", 0, e.text))
        /\ lastId' = lastId + 1
        /\ copies' = [copies EXCEPT !["run"] = None]
        /\ UNCHANGED archived
  /\ run' = [run EXCEPT !.stage = "away"]
-----------------------------------------------------------------------------
(* Control operations beside the run. *)

\* CompactSession loads a copy of its own and asks a model for a summary: by the time
\* it rewrites, the file may have grown.
ControlLoads ==
  /\ copies["control"] = None /\ left.compactions > 0
  /\ Compactable(Repaired(History(Loaded(file))), Min(Keeps))
  /\ copies' = [copies EXCEPT !["control"] = Loaded(file)]
  /\ UNCHANGED <<disk, offsets, run, log, lastId, left, archived, stored, diverged>>

ControlCompacts ==
  LET history == Repaired(History(copies["control"])) IN
  /\ copies["control"] # None /\ left.compactions > 0
  /\ \E keep \in Keeps:
       /\ Compactable(history, keep)
       /\ LET entries == Compacted(history, keep, lastId + 1) IN
          /\ Written(Linear(entries).entries)
          /\ archived' = ArchiveOf(copies["control"])
          /\ stored' = IF Archiving THEN stored ELSE stored \cap TextsIn(entries)
       /\ CompactedNow(keep)
  /\ copies' = [copies EXCEPT !["control"] = None]
  /\ diverged' = TRUE

\* The model gives no summary, or the rewrite fails.
ControlGivesUp ==
  /\ copies["control"] # None
  /\ copies' = [copies EXCEPT !["control"] = None]
  /\ UNCHANGED <<disk, offsets, run, log, lastId, left, archived, stored, diverged>>

Delete ==
  /\ exists /\ left.deletions > 0 /\ left' = [left EXCEPT !.deletions = @ - 1]
  /\ exists' = FALSE /\ file' = <<>> /\ sameTick' = FALSE /\ offsets' = None
  /\ stored' = {} /\ diverged' = TRUE
  /\ log' = Append(log, Event("deleted", 0, 0))
  /\ UNCHANGED <<copies, run, lastId, archived>>

\* Rewrite without an archive, from the event log.
RebuildFromEvents ==
  /\ left.rebuilds > 0 /\ left' = [left EXCEPT !.rebuilds = @ - 1]
  /\ log # <<>>
  /\ LET entries == Replayed(log)
         fresh == [i \in DOMAIN entries |-> [entries[i] EXCEPT !.id = lastId + i]] IN
     /\ Written(Linear(fresh).entries)
     /\ stored' = TextsIn(fresh)
     /\ lastId' = lastId + Len(fresh)
  /\ diverged' = TRUE
  /\ UNCHANGED <<copies, run, log, archived>>

\* The process stops, perhaps in the middle of a line, and is started again.
Crash ==
  /\ left.crashes > 0 /\ left' = [left EXCEPT !.crashes = @ - 1]
  /\ \/ UNCHANGED <<exists, file>>
     \/ run.stage = "talking" /\ ~TornTail /\ exists' = TRUE /\ file' = Append(file, Torn)
  /\ copies' = [who \in DOMAIN copies |-> None]
  /\ offsets' = None /\ sameTick' = FALSE
  /\ run' = [run EXCEPT !.stage = "away"]
  /\ UNCHANGED <<log, lastId, archived, stored, diverged>>

\* EntryPage builds the index anew unless size and time are the ones it knows.
EntryPage ==
  /\ exists /\ ~(offsets # None /\ offsets.size = Size(file) /\ sameTick)
  /\ offsets' = [ids |-> IdsIn(file), size |-> Size(file)]
  /\ sameTick' = TRUE
  /\ UNCHANGED <<exists, file, copies, run, log, lastId, left, archived, stored, diverged>>
-----------------------------------------------------------------------------
Init ==
  /\ exists = FALSE /\ file = <<>> /\ sameTick = FALSE /\ offsets = None
  /\ copies = [run |-> None, control |-> None]
  /\ run = [number |-> 0, stage |-> "away"]
  /\ log = <<>> /\ lastId = 0 /\ left \in Limits
  /\ archived = {} /\ stored = {} /\ diverged = FALSE

RunStep ==
  \/ RunLoads \/ RunGuards \/ RunAsked \/ RunCompacts \/ RunEnds
  \/ \E kind \in Kinds \cup {"result"}: RunTalks(kind)
ControlStep == ControlLoads \/ ControlCompacts \/ ControlGivesUp \/ Delete \/ RebuildFromEvents

Next == RunStep \/ ControlStep \/ Crash \/ EntryPage
Spec == Init /\ [][Next]_vars

-----------------------------------------------------------------------------
(* Properties. *)

\* A page is what the file holds: the cached index of an unchanged file is the one a
\* reader would build (entryOffsetIndexLocked, store.go:266).
PagesAgree ==
  offsets # None /\ offsets.size = Size(file) /\ sameTick /\ Garbled \notin ToSet(file)
    => offsets.ids = IdsIn(file)

\* A compaction removes nothing for good, even when the run has appended since the copy
\* it rewrites was loaded: what reached the file is in the file or in an archive.
NothingLost == stored \subseteq TextsIn(file) \cup archived

\* The next run sees what this one sees, unless the file was rewritten under it or an
\* append of its was lost.
ReloadSeesRun ==
  copies["run"] # None /\ ~diverged =>
    LET reloaded == History(Loaded(file))  seen == History(copies["run"]) IN
    [i \in DOMAIN reloaded |-> reloaded[i].text] = [i \in DOMAIN seen |-> seen[i].text]

\* What a run shows a model has no tool result without its call, and no call without
\* a result but those of the turn under way: compaction cuts between turns.  A call that
\* a rebuild has brought back is excepted: the result that closes it comes a turn later.
Rebuilt(history) == \E e \in ToSet(history): e.id # e.text
CallsPaired ==
  run.stage = "talking" =>
    LET history == Repaired(History(copies["run"])) IN
    /\ \A i \in DOMAIN history: history[i].kind = "result" /\ ~Rebuilt(history) =>
         \E j \in 1..(i-1): history[j].kind = "call" /\ history[j].key = history[i].key
    /\ \A e \in ToSet(Pending(history)):
         \A i, j \in DOMAIN history: i < j /\ history[i] = e => history[j].kind # "user"

StateTexts(entries) == {e.text : e \in LatestState(entries)}
\* Plan and todos survive a compaction, and a rebuild from the events brings back
\* the last ones recorded since the session was last deleted.
Told == LET gone == {0} \cup {i \in DOMAIN log: log[i].kind = "deleted"} IN SubSeq(log, Max(gone) + 1, Len(log))
StateKept ==
  /\ RunCompacts /\ diverged' = diverged /\ Len(log') > Len(log) =>
       StateTexts(History(copies'["run"])) = StateTexts(Repaired(History(copies["run"])))
  /\ RebuildFromEvents => StateTexts(file') = StateTexts(Told)
StateSurvives == [][StateKept]_vars
=============================================================================
