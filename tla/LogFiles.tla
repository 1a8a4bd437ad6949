------------------------------ MODULE LogFiles -------------------------------
(***************************************************************************)
(* The log files of a process (internal/runtime/logging): logging runtimes *)
(* are installed one over the other and closed again, each with a writer   *)
(* that rotates the file they share; loggers are held by components, which *)
(* may go on logging when their runtime is closed.                         *)
(*                                                                         *)
(* Lines are numbered as they are written; a file has the lines in it, its *)
(* size, and as its modification time the number of its last line.         *)
(***************************************************************************)
EXTENDS Naturals, Sequences, FiniteSets

CONSTANTS
  Runtimes,    \* 1..n, in the order they are installed
  MaxBytes,    \* of the file that is written
  MaxBackups,  \* files kept beside it
  Sizes,       \* of lines
  MaxLines,    \* bound on the lines
  MaxFailures  \* bound on what the file system refuses

VARIABLES
  installed,  \* activeRuntime.rt, or 0
  default,    \* the runtime of slog's default logger, or 0 for the one before all
  runtimes,   \* per runtime: new, open or closed, and the default logger it found
  writers,    \* per runtime: the file it has open, or 0, and the size it counts
  disk,       \* the lines of each file, the active file or 0, the archives, the files removed
  lines,      \* the lines whose write succeeded, over all writers
  failures,
  stale       \* history: a closed runtime's logger has written

vars == <<installed, default, runtimes, writers, disk, lines, failures, stale>>

None == [file |-> 0, size |-> 0]
-----------------------------------------------------------------------------
(* The file system.  A step of a writer takes and leaves a situation: its writer, the    *)
(* disk, what may still fail, and whether all went well.                                 *)

Sit(w, d, n, ok) == [writer |-> w, disk |-> d, failures |-> n, ok |-> ok]
Disk(files, active, archives, removed) ==
  [files |-> files, active |-> active, archives |-> archives, removed |-> removed]
NewFile == [lines |-> {}, size |-> 0, time |-> 0]
LastLine(d, f) == d.files[f].time

\* Where s has gone well, go on.
Then(situations, Step(_)) == UNION {IF s.ok THEN Step(s) ELSE {s} : s \in situations}
Refused(s) == IF s.failures = 0 THEN {} ELSE {Sit(s.writer, s.disk, s.failures - 1, FALSE)}

\* Faulty variant: the file is taken to be new.
OpenedEmpty(s) == [file |-> s.disk.active, size |-> 0]

Opened(s) == [file |-> s.disk.active, size |-> s.disk.files[s.disk.active].size]

\* openLocked.
Open(s) ==
  LET d == s.disk
      there == IF d.active # 0 THEN s
               ELSE Sit(s.writer, Disk(Append(d.files, NewFile), Len(d.files) + 1, d.archives, d.removed),
                        s.failures, TRUE)
  IN Refused(s) \cup {Sit(Opened(there), there.disk, s.failures, TRUE)}

\* Faulty variant: the newest go.
ExpiredNewest(d) ==
  {f \in d.archives: Cardinality({g \in d.archives: LastLine(d, g) < LastLine(d, f)}) >= MaxBackups}

\* The oldest beyond MaxBackups.
Expired(d) ==
  {f \in d.archives: Cardinality({g \in d.archives: LastLine(d, g) > LastLine(d, f)}) >= MaxBackups}

\* pruneArchivesLocked.
Prune(s) ==
  LET d == s.disk
      gone == Expired(d)
  IN Refused(s) \cup {Sit(s.writer, Disk(d.files, d.active, d.archives \ gone, d.removed \cup gone),
                          s.failures, TRUE)}

\* rotateCurrentLocked looks at the file that is there, not at the one it has open.
Rotate(s) ==
  LET d == s.disk
      closed == Sit(None, d, s.failures, TRUE)
      renamed == Sit(None, Disk(d.files, 0, d.archives \cup {d.active}, d.removed), s.failures, TRUE)
  IN IF d.active = 0 \/ (d.active # 0 /\ d.files[d.active].size = 0) THEN {s}
     ELSE Refused(closed) \cup Prune(renamed)

\* RotatingFileWriter.Write.
Written(s, line) ==
  LET opened == IF s.writer.file = 0 THEN Open(s) ELSE {s}
      Full(o) == o.writer.size > 0 /\ o.writer.size + line.size > MaxBytes
      Rolled(o) == IF Full(o) THEN Then(Rotate(o), Open) ELSE {o}
      Grown(file) == [lines |-> file.lines \cup {line.n}, size |-> file.size + line.size, time |-> line.n]
      Put(o) ==
        LET d == o.disk IN
        {Sit([o.writer EXCEPT !.size = @ + line.size],
             Disk([d.files EXCEPT ![o.writer.file] = Grown(@)], d.active, d.archives, d.removed),
             o.failures, TRUE)}
  IN Then(Then(opened, Rolled), Put)
-----------------------------------------------------------------------------
(* The runtimes. *)

Now(writer) == Sit(writer, disk, failures, TRUE)

\* Faulty variant: whatever logger is the default is found.
PreviousDefault == default

\* A runtime that takes the place of another restores what that one would have restored.
Previous == IF installed # 0 THEN runtimes[installed].previous ELSE default

\* Install; a failing writer is the end of it.
Install(rt) ==
  /\ runtimes[rt].stage = "new" /\ \A earlier \in 1..(rt - 1): runtimes[earlier].stage # "new"
  /\ \E s \in Then(Rotate(Now(None)), Open) :
       /\ disk' = s.disk /\ failures' = s.failures
       /\ IF s.ok
          THEN /\ runtimes' = [r \in Runtimes |->
                    CASE r = rt -> [stage |-> "open", previous |-> Previous]
                      [] r = installed -> [runtimes[r] EXCEPT !.stage = "closed"]
                      [] OTHER -> runtimes[r]]
               /\ writers' = [r \in Runtimes |-> CASE r = rt -> s.writer [] r = installed -> None [] OTHER -> writers[r]]
               /\ installed' = rt /\ default' = rt
          ELSE UNCHANGED <<runtimes, writers, installed, default>>
  /\ UNCHANGED <<lines, stale>>

\* Runtime.Close, as often as it is called.
Close(rt) ==
  /\ runtimes[rt].stage # "new"
  /\ runtimes' = [runtimes EXCEPT ![rt].stage = "closed"]
  /\ writers' = IF runtimes[rt].stage = "open" THEN [writers EXCEPT ![rt] = None] ELSE writers
  /\ IF installed = rt THEN default' = runtimes[rt].previous /\ installed' = 0
                       ELSE UNCHANGED <<default, installed>>
  /\ UNCHANGED <<disk, lines, failures, stale>>

\* A component logs; a writer that is closed opens the file again.
Log(rt) ==
  /\ runtimes[rt].stage # "new" /\ Len(lines) < MaxLines
  /\ \E size \in Sizes :
       LET line == [n |-> Len(lines) + 1, size |-> size] IN
       \E s \in Written(Now(writers[rt]), line) :
         /\ writers' = [writers EXCEPT ![rt] = s.writer]
         /\ disk' = s.disk /\ failures' = s.failures
         /\ lines' = IF s.ok THEN Append(lines, size) ELSE lines
  /\ stale' = (stale \/ runtimes[rt].stage = "closed")
  /\ UNCHANGED <<installed, default, runtimes>>

Init ==
  /\ installed = 0 /\ default = 0
  /\ runtimes = [rt \in Runtimes |-> [stage |-> "new", previous |-> 0]]
  /\ writers = [rt \in Runtimes |-> None]
  /\ disk = Disk(<<>>, 0, {}, {})
  /\ lines = <<>> /\ failures = MaxFailures /\ stale = FALSE

Next == \E rt \in Runtimes: Install(rt) \/ Close(rt) \/ Log(rt)
Spec == Init /\ [][Next]_vars
-----------------------------------------------------------------------------
(* Properties. *)

\* The default logger is never one of a runtime that is closed.
DefaultIsOpen == default = 0 \/ runtimes[default].stage = "open"

NumbersIn(f) == disk.files[f].lines
Kept == ({disk.active} \ {0}) \cup disk.archives

\* A line that was written is on disk until MaxBackups newer files are beside the active one.
LinesKept ==
  /\ UNION {NumbersIn(f) : f \in Kept \cup disk.removed} = 1..Len(lines)
  /\ disk.removed # {} => Cardinality(disk.archives) >= MaxBackups
  /\ \A f \in disk.removed, g \in Kept: \A n \in NumbersIn(f), m \in NumbersIn(g): n < m

\* A file holds no more than MaxBytes, or a single line.
WithinSize ==
  \A f \in DOMAIN disk.files: disk.files[f].size <= MaxBytes \/ \E n \in NumbersIn(f): NumbersIn(f) = {n}

\* Logs are kept whatever is refused and installed, as long as no logger outlives its runtime.
LogsAreKept == DefaultIsOpen /\ (~stale => LinesKept /\ WithinSize)
=============================================================================
