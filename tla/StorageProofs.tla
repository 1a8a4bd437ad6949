----------------------------- MODULE StorageProofs -----------------------------
(***************************************************************************)
(* Proofs about the components that keep records, for any runs, sessions,  *)
(* texts and bounds: every copy of a memory is true, and the recorder's    *)
(* memory, logs and followers agree however crashes, failing appends and   *)
(* rebuilds interleave.                                                    *)
(***************************************************************************)
EXTENDS Storage, QueueLemmas

-----------------------------------------------------------------------------
(* The memory.  Every copy of a document, in a file, in what a manager knows or on its way    *)
(* there, is of the session that owns its text and counts no recall that did not happen.      *)

Documents ==
  [text : Texts, session : {Owner[t] : t \in Texts}, lifecycle : {"none", "episodic", "long-term"},
   expires : BOOLEAN, recalls : Nat, promoted : BOOLEAN, earned : BOOLEAN]

\* A document that is true when its text has been recalled that often.
TrueOf(doc, counts) ==
  /\ doc \in Documents /\ doc.session = Owner[doc.text]
  /\ doc.recalls <= counts[doc.text] /\ (doc.earned => doc.recalls >= RecallThreshold)

TrueFiles(files, counts) ==
  /\ files = [p \in Mem!Paths |-> files[p]]
  /\ \A p \in Mem!Paths : files[p] = Mem!Nothing \/ TrueOf(files[p], counts)

MemInv ==
  /\ recalled \in [Texts -> Nat]
  /\ TrueFiles(disk, recalled)
  /\ entries = [m \in Managers |-> entries[m]] /\ \A m \in Managers : TrueFiles(entries[m], recalled)
  /\ \A s \in saving : s.path \in Mem!Paths /\ TrueOf(s.doc, recalled)
  /\ Mem!ScopeIsKept

\* Recalls only add up.
LEMMA StaysTrue ==
  ASSUME NEW counts \in [Texts -> Nat], NEW more \in [Texts -> Nat],
         \A t \in Texts : counts[t] <= more[t]
  PROVE  /\ \A doc : TrueOf(doc, counts) => TrueOf(doc, more)
         /\ \A files : TrueFiles(files, counts) => TrueFiles(files, more)
<1>1. ASSUME NEW doc, TrueOf(doc, counts) PROVE TrueOf(doc, more)
  <2>1. doc.text \in Texts /\ doc.recalls \in Nat
    BY <1>1 DEF TrueOf, Documents
  <2>2. counts[doc.text] <= more[doc.text] /\ counts[doc.text] \in Nat /\ more[doc.text] \in Nat
    BY <2>1
  <2> QED
    BY <1>1, <2>1, <2>2 DEF TrueOf
<1> QED
  BY <1>1 DEF TrueFiles

\* What is saved, or put into a file by hand, has never been recalled.
LEMMA NewIsTrue ==
  ASSUME NEW doc \in Mem!Documents, NEW counts \in [Texts -> Nat]
  PROVE  TrueOf(doc, counts)
<1>1. PICK t \in Texts, kind \in {"none", "episodic"}, due \in BOOLEAN :
        doc = [text |-> t, session |-> Owner[t], lifecycle |-> kind, expires |-> due,
               recalls |-> 0, promoted |-> FALSE, earned |-> FALSE]
  BY DEF Mem!Documents
<1> QED
  BY <1>1 DEF TrueOf, Documents

\* What is written of true documents is true: they are marked, and the copies are of those
\* that were recalled often enough.
LEMMA WrittenIsTrue ==
  ASSUME NEW counts \in [Texts -> Nat],
         NEW docs, DOMAIN docs \subseteq Mem!Paths, \A p \in DOMAIN docs : TrueOf(docs[p], counts),
         NEW raised, \A p \in raised : p \in DOMAIN docs /\ Mem!PromotionTarget(p, docs[p]),
         NEW marked, NEW failing
  PROVE  \A q \in DOMAIN Mem!Written(docs, raised, marked, failing) :
           TrueOf(Mem!Written(docs, raised, marked, failing)[q], counts)
<1> DEFINE written == Mem!Written(docs, raised, marked, failing)
           places == (DOMAIN docs \ failing) \cup {Mem!Target(p) : p \in raised}
<1>1. written = [q \in places |-> IF q \in DOMAIN docs THEN [docs[q] EXCEPT !.promoted = @ \/ q \in marked]
                                  ELSE Mem!Promoted(docs[Mem!Source(q)])]
  BY DEF Mem!Written
<1> SUFFICES ASSUME NEW q \in places PROVE TrueOf(written[q], counts)
  BY <1>1
<1> HIDE DEF written
<1>2. CASE q \in DOMAIN docs
  <2>1. TrueOf(docs[q], counts) /\ written[q] = [docs[q] EXCEPT !.promoted = @ \/ q \in marked]
    BY <1>1, <1>2
  <2> QED
    BY <2>1 DEF TrueOf, Documents
<1>3. CASE q \notin DOMAIN docs
  <2>1. PICK p \in raised : q = Mem!Target(p)
    BY <1>3
  <2>2. p \in DOMAIN docs /\ Mem!PromotionTarget(p, docs[p]) /\ p \in Mem!Layers \X Ids
    BY DEF Mem!Paths
  <2>3. Mem!Source(q) = p
    BY <2>1, <2>2 DEF Mem!Source, Mem!Target, Mem!PromotionTarget
  <2>4. written[q] = Mem!Promoted(docs[p]) /\ TrueOf(docs[p], counts)
    BY <1>1, <1>3, <2>2, <2>3
  <2>5. docs[p].recalls >= RecallThreshold
    BY <2>2 DEF Mem!PromotionTarget
  <2> QED
    BY <2>4, <2>5 DEF TrueOf, Documents, Mem!Promoted
<1> QED
  BY <1>2, <1>3

\* Files and knowledge over which true documents are written are true.
LEMMA WritesAreTrue ==
  ASSUME MemInv, NEW m \in Managers, NEW known, TrueFiles(known, recalled),
         NEW counts \in [Texts -> Nat], \A t \in Texts : recalled[t] <= counts[t],
         NEW written, \A q \in DOMAIN written : TrueOf(written[q], counts),
         Mem!Writes(m, known, written), recalled' = counts, saving' = saving, Mem!ScopeIsKept'
  PROVE  MemInv'
<1>1. ASSUME NEW files, TrueFiles(files, recalled) PROVE TrueFiles(Mem!With(files, written), counts)
  BY <1>1, StaysTrue DEF MemInv, TrueFiles, Mem!With
<1>2. TrueFiles(disk', counts)
  BY <1>1 DEF MemInv, Mem!Writes
<1>3. entries' = [n \in Managers |-> entries'[n]] /\ \A n \in Managers : TrueFiles(entries'[n], counts)
  BY <1>1, StaysTrue DEF MemInv, Mem!Writes
<1>4. \A s \in saving' : s.path \in Mem!Paths /\ TrueOf(s.doc, counts)
  BY StaysTrue DEF MemInv
<1> QED
  BY <1>2, <1>3, <1>4 DEF MemInv

\* Counting the recall of what was found keeps every copy true.
LEMMA RecallIsTrue ==
  ASSUME MemInv, NEW m \in Managers, NEW known, TrueFiles(known, recalled),
         NEW found, \A p \in found : p \in Mem!Paths /\ known[p] # Mem!Nothing, NEW failing,
         Mem!RecordRecall(m, known, found, failing), saving' = saving, Mem!ScopeIsKept'
  PROVE  MemInv'
<1> DEFINE managed == {p \in found : known[p].lifecycle # "none"}
           docs    == [p \in managed |-> [known[p] EXCEPT !.recalls = @ + 1]]
           raised  == Mem!Raised(known, docs, failing)
<1>1. /\ Mem!Writes(m, known, Mem!Written(docs, raised, raised, failing))
      /\ recalled' = [t \in Texts |->
           IF \E p \in managed : known[p].text = t THEN recalled[t] + 1 ELSE recalled[t]]
  BY DEF Mem!RecordRecall
<1>2. recalled' \in [Texts -> Nat] /\ \A t \in Texts : recalled[t] <= recalled'[t]
  BY <1>1 DEF MemInv
<1>3. ASSUME NEW p \in managed PROVE TrueOf(docs[p], recalled')
  <2>1. TrueOf(known[p], recalled)
    BY DEF TrueFiles
  <2>2. recalled'[known[p].text] = recalled[known[p].text] + 1 /\ recalled[known[p].text] \in Nat
    BY <1>1, <2>1 DEF TrueOf, Documents, MemInv
  <2>3. docs[p] = [known[p] EXCEPT !.recalls = @ + 1]
    OBVIOUS
  <2>4. docs[p] \in Documents /\ docs[p].recalls = known[p].recalls + 1 /\ known[p].recalls \in Nat
        /\ docs[p].text = known[p].text /\ docs[p].session = known[p].session
        /\ docs[p].earned = known[p].earned
    BY <2>1, <2>3 DEF TrueOf, Documents
  <2> QED
    BY <2>1, <2>2, <2>4, ThresholdAssumption DEF TrueOf
<1>4. DOMAIN docs \subseteq Mem!Paths /\ \A p \in DOMAIN docs : TrueOf(docs[p], recalled')
  BY <1>3
<1>5. \A p \in raised : p \in DOMAIN docs /\ Mem!PromotionTarget(p, docs[p])
  BY DEF Mem!Raised
<1> HIDE DEF managed, docs, raised
<1>6. \A q \in DOMAIN Mem!Written(docs, raised, raised, failing) :
        TrueOf(Mem!Written(docs, raised, raised, failing)[q], recalled')
  BY <1>2, <1>4, <1>5, WrittenIsTrue
<1> QED
  BY <1>1, <1>2, <1>6, WritesAreTrue

\* Every step of the memory keeps its copies true.
LEMMA MemStep ==
  ASSUME MemInv, [Mem!Next]_memoryVars
  PROVE  MemInv'
<1>0. /\ recalled \in [Texts -> Nat] /\ TrueFiles(disk, recalled)
      /\ \A m \in Managers : \A known \in Mem!Refreshed(m) : TrueFiles(known, recalled)
  BY DEF MemInv, Mem!Refreshed
<1>1. ASSUME NEW m \in Managers, Mem!Search(m) PROVE MemInv'
  <2>1. PICK known \in Mem!Refreshed(m), session \in Sessions :
        \E found \in SUBSET {p \in Mem!Present(known) : Mem!Allows(session, known[p])} :
          /\ \E failing \in {{}} \cup {{p} : p \in Mem!Paths} : Mem!RecordRecall(m, known, found, failing)
          /\ memoryShown' = memoryShown \cup {<<known[p].text, session>> : p \in found}
          /\ UNCHANGED <<saving, late, writes>>
    BY <1>1 DEF Mem!Search
  <2>2. PICK found \in SUBSET {p \in Mem!Present(known) : Mem!Allows(session, known[p])} :
          /\ \E failing \in {{}} \cup {{p} : p \in Mem!Paths} : Mem!RecordRecall(m, known, found, failing)
          /\ memoryShown' = memoryShown \cup {<<known[p].text, session>> : p \in found}
          /\ UNCHANGED <<saving, late, writes>>
    BY <2>1
  <2>3. \A p \in found : p \in Mem!Paths /\ known[p] # Mem!Nothing /\ Mem!Allows(session, known[p])
    BY DEF Mem!Present
  <2>4. \A p \in found : Owner[known[p].text] \in {"all", session}
    BY <1>0, <2>3 DEF TrueFiles, TrueOf, Mem!Allows
  <2>5. Mem!ScopeIsKept'
    BY <2>2, <2>4 DEF MemInv, Mem!ScopeIsKept
  <2> QED
    BY <1>0, <2>2, <2>3, <2>5, RecallIsTrue
<1>2. ASSUME NEW m \in Managers, Mem!GetScoped(m) PROVE MemInv'
  <2>1. PICK known \in Mem!Refreshed(m), session \in Sessions, id \in Ids :
          LET p == Mem!Resolved(known, id) IN
          /\ known[p] # Mem!Nothing /\ Mem!Allows(session, known[p])
          /\ Mem!RecordRecall(m, known, {p}, {})
          /\ memoryShown' = memoryShown \cup {<<known[p].text, session>>}
          /\ UNCHANGED <<saving, late, writes>>
    BY <1>2 DEF Mem!GetScoped
  <2> DEFINE p == Mem!Resolved(known, id)
  <2>2. p \in Mem!Paths
    BY DEF Mem!Resolved, Mem!Paths, Mem!Layers
  <2> HIDE DEF p
  <2>3. Owner[known[p].text] \in {"all", session}
    BY <1>0, <2>1, <2>2 DEF TrueFiles, TrueOf, Mem!Allows, p
  <2>4. Mem!ScopeIsKept'
    BY <2>1, <2>3 DEF MemInv, Mem!ScopeIsKept, p
  <2>5. Mem!RecordRecall(m, known, {p}, {}) /\ known[p] # Mem!Nothing /\ saving' = saving
    BY <2>1 DEF p
  <2> QED
    BY <1>0, <2>2, <2>4, <2>5, RecallIsTrue
<1>3. ASSUME NEW m \in Managers, Mem!SaveWrites(m) PROVE MemInv'
  <2>1. PICK p \in Mem!Paths, doc \in Mem!Documents :
          /\ disk' = [disk EXCEPT ![p] = doc]
          /\ saving' = saving \cup {[manager |-> m, path |-> p, doc |-> doc]}
          /\ UNCHANGED <<entries, late, recalled, memoryShown>>
    BY <1>3 DEF Mem!SaveWrites
  <2>2. TrueOf(doc, recalled)
    BY <1>0, NewIsTrue
  <2> QED
    BY <2>1, <2>2 DEF MemInv, TrueFiles, Mem!ScopeIsKept
<1>4. ASSUME NEW m \in Managers, Mem!SavePublishes(m) PROVE MemInv'
  <2>1. PICK s \in saving :
          /\ entries' = [entries EXCEPT ![m] = [@ EXCEPT ![s.path] = s.doc]]
          /\ saving' = saving \ {s} /\ UNCHANGED <<disk, late, recalled, memoryShown, writes>>
    BY <1>4 DEF Mem!SavePublishes
  <2>2. TrueFiles([entries[m] EXCEPT ![s.path] = s.doc], recalled)
    BY DEF MemInv, TrueFiles
  <2> QED
    BY <2>1, <2>2 DEF MemInv, Mem!ScopeIsKept
<1>5. ASSUME NEW m \in Managers, Mem!Delete(m) PROVE MemInv'
  <2>1. PICK known \in Mem!Refreshed(m), id \in Ids :
          LET p == Mem!Resolved(known, id) IN
          /\ disk' = [disk EXCEPT ![p] = Mem!Nothing]
          /\ entries' = [entries EXCEPT ![m] = [known EXCEPT ![p] = Mem!Nothing]]
          /\ UNCHANGED <<saving, late, recalled, memoryShown, writes>>
    BY <1>5 DEF Mem!Delete
  <2> DEFINE p == Mem!Resolved(known, id)
  <2>2. ASSUME NEW files, TrueFiles(files, recalled)
        PROVE  TrueFiles([files EXCEPT ![p] = Mem!Nothing], recalled)
    BY <2>2 DEF TrueFiles
  <2> QED
    BY <1>0, <2>1, <2>2 DEF MemInv, Mem!ScopeIsKept
<1>6. ASSUME NEW m \in Managers, Mem!Cleanup(m) PROVE MemInv'
  <2>1. PICK known \in Mem!Refreshed(m) :
          LET expired == {p \in Mem!Present(known) : known[p].expires /\ late} IN
          /\ disk' = [p \in Mem!Paths |-> IF p \in expired THEN Mem!Nothing ELSE disk[p]]
          /\ entries' = [entries EXCEPT ![m] =
               [p \in Mem!Paths |-> IF p \in expired THEN Mem!Nothing ELSE known[p]]]
          /\ UNCHANGED <<saving, late, recalled, memoryShown, writes>>
    BY <1>6 DEF Mem!Cleanup
  <2> DEFINE expired == {p \in Mem!Present(known) : known[p].expires /\ late}
  <2>2. ASSUME NEW files, TrueFiles(files, recalled)
        PROVE  TrueFiles([p \in Mem!Paths |-> IF p \in expired THEN Mem!Nothing ELSE files[p]], recalled)
    BY <2>2 DEF TrueFiles
  <2> QED
    BY <1>0, <2>1, <2>2 DEF MemInv, Mem!ScopeIsKept
<1>7. ASSUME NEW m \in Managers, Mem!Reload(m) PROVE MemInv'
  BY <1>0, <1>7 DEF Mem!Reload, MemInv, Mem!ScopeIsKept
<1>8. ASSUME NEW m \in Managers, Mem!PromoteEligible(m) PROVE MemInv'
  <2> DEFINE due  == {p \in Mem!Present(disk) : Mem!PromotionTarget(p, disk[p])}
             docs == [p \in due |-> disk[p]]
             raised == Mem!Raised(disk, docs, {})
  <2>1. /\ Mem!Writes(m, disk, Mem!Written(docs, raised, due, {}))
        /\ UNCHANGED <<saving, late, recalled, memoryShown, writes>>
    BY <1>8 DEF Mem!PromoteEligible
  <2>2. DOMAIN docs \subseteq Mem!Paths /\ \A p \in DOMAIN docs : TrueOf(docs[p], recalled)
    BY <1>0 DEF TrueFiles, Mem!Present
  <2>3. \A p \in raised : p \in DOMAIN docs /\ Mem!PromotionTarget(p, docs[p])
    BY DEF Mem!Raised
  <2> HIDE DEF due, docs, raised
  <2>4. \A q \in DOMAIN Mem!Written(docs, raised, due, {}) :
          TrueOf(Mem!Written(docs, raised, due, {})[q], recalled)
    BY <1>0, <2>2, <2>3, WrittenIsTrue
  <2>5. recalled' = recalled /\ saving' = saving /\ Mem!ScopeIsKept'
    BY <2>1 DEF MemInv, Mem!ScopeIsKept
  <2>6. \A t \in Texts : recalled[t] <= recalled[t]
    BY <1>0
  <2> QED
    BY <1>0, <2>1, <2>4, <2>5, <2>6, WritesAreTrue
<1>9. CASE Mem!Edit
  <2>1. PICK p \in Mem!Paths, doc \in Mem!Documents \cup {Mem!Nothing} :
          disk' = [disk EXCEPT ![p] = doc] /\ UNCHANGED <<entries, saving, late, recalled, memoryShown>>
    BY <1>9 DEF Mem!Edit
  <2>2. doc = Mem!Nothing \/ TrueOf(doc, recalled)
    BY <1>0, NewIsTrue
  <2> QED
    BY <2>1, <2>2 DEF MemInv, TrueFiles, Mem!ScopeIsKept
<1>10. CASE Mem!Expire \/ UNCHANGED memoryVars
  <2>1. UNCHANGED <<disk, entries, saving, recalled, memoryShown>>
    BY <1>10 DEF Mem!Expire, memoryVars
  <2> QED
    BY <2>1 DEF MemInv, Mem!ScopeIsKept
<1> QED
  BY <1>1, <1>2, <1>3, <1>4, <1>5, <1>6, <1>7, <1>8, <1>9, <1>10 DEF Mem!Next

\* However old the copies that two managers write back, and whatever people do to the files, what
\* a session is shown is its own, and what is promoted was recalled as often as the threshold says
\* (MemoryIsTrue), for any texts, owners, layers of entries and threshold.
THEOREM MemoriesAreTrue == Spec => []MemoryIsTrue
<1> DEFINE Inv == subject = "memory" => MemInv
<1>1. Init => Inv
  <2> SUFFICES ASSUME Mem!Init PROVE MemInv
    BY DEF Init
  <2> QED
    BY DEF Mem!Init, MemInv, TrueFiles, Mem!ScopeIsKept
<1>2. Inv /\ [Next]_vars => Inv'
  <2>1. ASSUME subject' = "memory", [Next]_vars
        PROVE  subject = "memory" /\ [Mem!Next]_memoryVars
    BY <2>1 DEF Next, vars, OfRecorder, OfStore, OfTranscript, OfMemory, OfTask
  <2> QED
    BY <2>1, MemStep
<1>3. Inv => MemoryIsTrue
  <2> SUFFICES ASSUME MemInv PROVE Mem!ScopeIsKept /\ Mem!PromotionIsEarned
    BY DEF MemoryIsTrue, Mem!MemoryIsTrue
  <2>1. \A doc \in Mem!Copies : TrueOf(doc, recalled)
    BY DEF MemInv, TrueFiles, Mem!Copies, Mem!Present
  <2> QED
    BY <2>1 DEF MemInv, TrueOf, Mem!PromotionIsEarned
<1> QED
  BY <1>1, <1>2, <1>3, PTL DEF Spec

-----------------------------------------------------------------------------
(* The recorder.  Lists of entries are only argued about by what a replay makes of them: an   *)
(* entry appended is an entry noted.                                                          *)

EventNames == {"started", "note", "child"} \cup Rec!Terminal
RunEntries == [kind : {"run"}, status : Rec!Statuses]
Events == [kind : {"event"}, name : EventNames, seq : Nat, child : SUBSET RunSessions]
Entries == RunEntries \cup Events
Messages == [name : EventNames \cup Rec!Transient, seq : Nat]
States == [runs : [Runs -> Rec!Statuses], seqs : [Runs -> Nat], kids : [Runs -> SUBSET RunSessions]]

Numbers(known) == {0} \cup {e.seq : e \in known.events}
HasTop(T) == \E n \in T : \A k \in T : k <= n

\* What is known of a run, by a replay of its log or from the index.
IsKnown(known) ==
  /\ known = [status |-> known.status, events |-> known.events]
  /\ known.status \in Rec!Statuses /\ known.events \subseteq Events /\ HasTop(Numbers(known))

\* The log of a run: its last status can be found, and its numbers go up.
IsLog(log) ==
  /\ log \in Seq(Entries) /\ IsKnown(Rec!Applied(log))
  /\ Rec!RunsAt(log) # {} => HasTop(Rec!RunsAt(log))
Rising(log) ==
  \A i, j \in DOMAIN log : i < j /\ Rec!IsEvent(log[i]) /\ Rec!IsEvent(log[j]) => log[i].seq < log[j].seq

\* The files: what the index has of a log it is not behind is what the log says.
IsDisk(d) ==
  /\ d = [raw |-> d.raw, index |-> d.index, newer |-> d.newer, missed |-> d.missed,
          unwritten |-> d.unwritten, failed |-> d.failed, events |-> d.events]
  /\ d.raw = [r \in Runs |-> d.raw[r]] /\ d.index = [r \in Runs |-> d.index[r]]
  /\ d.newer \subseteq Runs /\ d.missed \subseteq Runs /\ d.unwritten \subseteq Runs
  /\ \A r \in Runs : /\ IsLog(d.raw[r]) /\ IsKnown(d.index[r])
                     /\ r \notin d.newer \cup d.missed => d.index[r] = Rec!Applied(d.raw[r])

\* No number is ahead of what is counted from.
Covers(n, log) == \A e \in Rec!EventsIn(log) : e.seq <= n

\* Runs whose memory can only have been ahead of the log.
Followable == Runs \ (misread \cup overrun)
Sound == Runs \ (Rec!Clouded \cup revived)

\* Numbers rise in the log of a run, in memory are past it, and stay so when a rebuild swaps.
Counts(r) ==
  r \in Followable =>
    /\ Rising(raw[r]) /\ (stage # "down" => Covers(seqs[r], raw[r]))
    /\ \A state \in loaded : /\ state.runs[r] = Rec!StatusIn(raw[r])
                             /\ state.kids[r] = Rec!KidsIn(Rec!Applied(raw[r]))
                             /\ Covers(state.seqs[r], raw[r])

\* Memory holds what the log says.
Mirrors(r) ==
  stage # "down" /\ r \notin Rec!Clouded =>
    runs[r] = Rec!StatusIn(raw[r]) /\ kids[r] = Rec!KidsIn(Rec!Applied(raw[r]))

\* A recorded run is where its goroutine is.
Tracks(r) ==
  stage = "up" /\ r \in Sound =>
    /\ life[r] \in {"queued", "running"} => runs[r] = life[r]
    /\ life[r] \in {"new", "done"} => runs[r] \notin Rec!Active

\* Nothing is said of a run before it is started.
Unsaid(r) ==
  life[r] = "new" => /\ raw[r] = <<>> /\ index[r] = Rec!Nothing /\ runs[r] = "none"
                     /\ \A state \in loaded : state.runs[r] = "none"

RecTypeOK ==
  /\ stage \in {"down", "aborting", "up"} /\ life \in [Runs -> Rec!Lives]
  /\ runs \in [Runs -> Rec!Statuses] /\ seqs \in [Runs -> Nat] /\ kids \in [Runs -> SUBSET RunSessions]
  /\ live = [r \in Runs |-> live[r]]
  /\ \A r \in Runs : live[r] \in Seq(Events) /\ Len(live[r]) <= LiveTail
  /\ misread \subseteq Runs /\ overrun \subseteq Runs /\ revived \subseteq Runs
  /\ loaded \subseteq States
  /\ stage # "up" => loaded = {} /\ \A r \in Runs : life[r] \in {"new", "done"}

\* The client's stream: what it lacks of a run under way is on its way, and of a run that has
\* ended it lacks nothing.
Reached == {"stored", "live", "following"}
Told == follower.snap \cup follower.got \cup follower.backlog \cup sending \cup Range(follower.chan)
Over == life[Followed] \in Rec!Terminal \cup {"done"}

FollowerOK ==
  /\ follower = [stage |-> follower.stage, status |-> follower.status, output |-> follower.output,
                 snap |-> follower.snap, shown |-> follower.shown, chan |-> follower.chan,
                 backlog |-> follower.backlog, got |-> follower.got, dropped |-> follower.dropped]
  /\ follower.chan \in Seq(Messages) /\ sending \subseteq Messages
  /\ (stage # "up" => follower = Rec!Idle /\ sending = {})
  /\ (follower.stage = "following" => follower.backlog = {})
  /\ (follower.stage # "following" => follower.got = {})

Served ==
  Followed \in Sound /\ ~follower.dropped =>
    IF follower.status \in Rec!Terminal
    THEN Over /\ (follower.stage \in Reached => Rec!Heads(Rec!EventsIn(raw[Followed])) \subseteq follower.snap)
    ELSE /\ follower.stage \in Reached => Rec!Heads(Rec!EventsIn(raw[Followed])) \subseteq Told
         /\ follower.stage = "following" => follower.shown = follower.snap

RecInv ==
  /\ RecTypeOK /\ IsDisk(Rec!Store)
  /\ \A r \in Runs : Counts(r) /\ Mirrors(r) /\ Tracks(r) /\ Unsaid(r)
  /\ FollowerOK /\ Served

\* The greatest of the numbers that have one.
LEMMA GreatestIs ==
  ASSUME NEW T, T \subseteq Nat, HasTop(T)
  PROVE  Rec!Max(T) \in T /\ \A k \in T : k <= Rec!Max(T)
<1>1. PICK n \in T : \A k \in T : n >= k
  BY DEF HasTop
<1>2. Rec!Max(T) \in T /\ \A k \in T : Rec!Max(T) >= k
  BY <1>1 DEF Rec!Max
<1> QED
  BY <1>2

\* The entry that was appended comes last, after those of before.
LEMMA LastEntry ==
  ASSUME NEW log \in Seq(Entries), NEW entry \in Entries
  PROVE  /\ Append(log, entry) \in Seq(Entries)
         /\ Len(log) \in Nat /\ DOMAIN log = 1..Len(log)
         /\ DOMAIN Append(log, entry) = 1..(Len(log) + 1)
         /\ \A i \in 1..Len(log) : Append(log, entry)[i] = log[i]
         /\ Append(log, entry)[Len(log) + 1] = entry
OBVIOUS

\* A replay of a longer log notes one entry more: the status of a run's record, or an event.
LEMMA AppendNotes ==
  ASSUME NEW log, IsLog(log), NEW entry \in Entries
  PROVE  /\ Rec!Applied(Append(log, entry)) = Rec!Noted(Rec!Applied(log), entry)
         /\ Rec!RunsAt(Append(log, entry)) # {} => HasTop(Rec!RunsAt(Append(log, entry)))
<1> DEFINE more == Append(log, entry)
           last == Len(log) + 1
<1>1. /\ log \in Seq(Entries) /\ more \in Seq(Entries) /\ Len(log) \in Nat /\ DOMAIN log = 1..Len(log)
      /\ DOMAIN more = 1..last /\ \A i \in 1..Len(log) : more[i] = log[i]
      /\ more[last] = entry
  BY LastEntry DEF IsLog
<1>2. Rec!RunsAt(log) \subseteq 1..Len(log)
  BY <1>1 DEF Rec!RunsAt
<1> HIDE DEF more
<1>3. CASE Rec!IsRun(entry)
  <2>1. Rec!RunsAt(more) = Rec!RunsAt(log) \cup {last}
    BY <1>1, <1>3 DEF Rec!RunsAt
  <2>2. \A k \in Rec!RunsAt(more) : k <= last /\ k \in Nat
    BY <1>1, <1>2, <2>1
  <2>3. HasTop(Rec!RunsAt(more))
    BY <2>1, <2>2 DEF HasTop
  <2>4. Rec!Max(Rec!RunsAt(more)) = last
    <3>1. /\ Rec!Max(Rec!RunsAt(more)) \in Rec!RunsAt(more)
          /\ \A k \in Rec!RunsAt(more) : k <= Rec!Max(Rec!RunsAt(more))
      BY <2>2, <2>3, GreatestIs
    <3>2. last \in Nat /\ last \in Rec!RunsAt(more)
      BY <1>1, <2>1
    <3>3. last <= Rec!Max(Rec!RunsAt(more))
      BY <3>1, <3>2
    <3>4. Rec!Max(Rec!RunsAt(more)) <= last /\ Rec!Max(Rec!RunsAt(more)) \in Nat
      BY <2>2, <3>1
    <3> HIDE DEF last
    <3> QED
      BY <3>2, <3>3, <3>4
  <2>5. Rec!StatusIn(more) = entry.status
    BY <1>1, <2>1, <2>4 DEF Rec!StatusIn
  <2>6. Rec!EventsIn(more) = Rec!EventsIn(log)
    <3>1. ~Rec!IsEvent(entry)
      BY <1>3 DEF Rec!IsRun, Rec!IsEvent
    <3>2. {i \in DOMAIN more : Rec!IsEvent(more[i])} = {i \in DOMAIN log : Rec!IsEvent(log[i])}
      BY <1>1, <3>1
    <3> QED
      BY <1>1, <3>2 DEF Rec!EventsIn
  <2> QED
    BY <1>3, <2>3, <2>5, <2>6 DEF Rec!Applied, Rec!Noted, more
<1>4. CASE ~Rec!IsRun(entry)
  <2>1. Rec!IsEvent(entry)
    BY <1>4 DEF Rec!IsRun, Rec!IsEvent, Entries, RunEntries, Events
  <2>2. Rec!RunsAt(more) = Rec!RunsAt(log)
    BY <1>1, <1>4 DEF Rec!RunsAt
  <2>3. Rec!StatusIn(more) = Rec!StatusIn(log)
    <3>1. CASE Rec!RunsAt(log) = {}
      BY <2>2, <3>1 DEF Rec!StatusIn
    <3>2. CASE Rec!RunsAt(log) # {}
      <4>1. Rec!Max(Rec!RunsAt(log)) \in Rec!RunsAt(log)
        BY <1>2, <3>2, GreatestIs DEF IsLog
      <4> QED
        BY <1>1, <1>2, <2>2, <3>2, <4>1 DEF Rec!StatusIn
    <3> QED
      BY <3>1, <3>2
  <2>4. Rec!EventsIn(more) = Rec!EventsIn(log) \cup {entry}
    <3>1. {i \in DOMAIN more : Rec!IsEvent(more[i])} = {i \in DOMAIN log : Rec!IsEvent(log[i])} \cup {last}
      BY <1>1, <2>1
    <3> QED
      BY <1>1, <3>1 DEF Rec!EventsIn
  <2> QED
    BY <1>4, <2>2, <2>3, <2>4 DEF Rec!Applied, Rec!Noted, IsLog, more
<1> QED
  BY <1>3, <1>4

\* What is known stays known, and a log a log, with one entry more.
LEMMA NotedIsKnown ==
  ASSUME NEW known, IsKnown(known), NEW entry \in Entries
  PROVE  IsKnown(Rec!Noted(known, entry))
<1>1. CASE Rec!IsRun(entry)
  <2>1. entry.status \in Rec!Statuses
    BY <1>1 DEF Rec!IsRun, Entries, RunEntries, Events
  <2> QED
    BY <1>1, <2>1 DEF Rec!Noted, IsKnown, Numbers
<1>2. CASE ~Rec!IsRun(entry)
  <2>1. entry \in Events
    BY <1>2 DEF Rec!IsRun, Entries, RunEntries
  <2>2. Rec!Noted(known, entry) = [status |-> known.status, events |-> known.events \cup {entry}]
    BY <1>2 DEF Rec!Noted, IsKnown
  <2>3. PICK n \in Numbers(known) : \A k \in Numbers(known) : k <= n
    BY DEF IsKnown, HasTop
  <2>4. Numbers(Rec!Noted(known, entry)) = Numbers(known) \cup {entry.seq}
    BY <2>2 DEF Numbers
  <2>5. Numbers(known) \subseteq Nat /\ entry.seq \in Nat
    BY <2>1 DEF Numbers, IsKnown, Events
  <2>6. HasTop(Numbers(known) \cup {entry.seq})
    <3>1. CASE entry.seq <= n
      BY <2>3, <3>1 DEF HasTop
    <3>2. CASE ~(entry.seq <= n)
      <4>1. \A k \in Numbers(known) \cup {entry.seq} : k <= entry.seq
        BY <2>3, <2>5, <3>2
      <4> QED
        BY <4>1 DEF HasTop
    <3> QED
      BY <3>1, <3>2
  <2> QED
    BY <2>1, <2>2, <2>4, <2>6 DEF IsKnown
<1> QED
  BY <1>1, <1>2

LEMMA AppendedIsLog ==
  ASSUME NEW log, IsLog(log), NEW entry \in Entries
  PROVE  IsLog(Append(log, entry))
BY AppendNotes, NotedIsKnown, LastEntry DEF IsLog

\* An empty log says nothing.
LEMMA EmptyLog == IsLog(<<>>) /\ IsKnown(Rec!Nothing) /\ Rec!Applied(<<>>) = Rec!Nothing /\ Rising(<<>>)
<1>1. Rec!RunsAt(<<>>) = {} /\ Rec!EventsIn(<<>>) = {}
  BY DEF Rec!RunsAt, Rec!EventsIn
<1>2. Rec!Applied(<<>>) = Rec!Nothing
  BY <1>1 DEF Rec!Applied, Rec!StatusIn, Rec!Nothing
<1>3. HasTop(Numbers(Rec!Nothing))
  <2>1. Numbers(Rec!Nothing) = {0}
    BY DEF Numbers, Rec!Nothing
  <2> QED
    BY <2>1 DEF HasTop
<1>4. IsKnown(Rec!Nothing)
  BY <1>3 DEF IsKnown, Rec!Nothing, Rec!Statuses
<1> QED
  BY <1>1, <1>2, <1>4 DEF IsLog, Rising

\* The last number of what is known of a run.
LEMMA LastNumber ==
  ASSUME NEW known, IsKnown(known)
  PROVE  /\ Rec!SeqIn(known) \in Nat /\ \A e \in known.events : e.seq <= Rec!SeqIn(known)
         /\ \A n \in Nat : (\A e \in known.events : e.seq <= n) => Rec!SeqIn(known) <= n
<1>1. Numbers(known) \subseteq Nat
  BY DEF Numbers, IsKnown, Events
<1>2. /\ Rec!Max(Numbers(known)) \in Numbers(known)
      /\ \A k \in Numbers(known) : k <= Rec!Max(Numbers(known))
  BY <1>1, GreatestIs DEF IsKnown
<1>3. Rec!SeqIn(known) = Rec!Max(Numbers(known))
  BY DEF Rec!SeqIn, Numbers
<1> QED
  BY <1>1, <1>2, <1>3 DEF Numbers

-----------------------------------------------------------------------------
\* The files of one run alone are different.
OnlyOf(r, d, e) ==
  /\ \A q \in Runs \ {r} : e.raw[q] = d.raw[q] /\ e.index[q] = d.index[q]
  /\ d.unwritten \subseteq e.unwritten /\ e.unwritten \subseteq d.unwritten \cup {r}

\* Whatever becomes of an append, the index knows the logs it is not behind, and a record that
\* the log lacks is one that is known to be unwritten.
LEMMA AppendedIsDisk ==
  ASSUME NEW d, IsDisk(d), NEW r \in Runs, NEW entry \in Entries, NEW o \in Rec!Outcomes
  PROVE  LET e == Rec!Appended(d, r, entry, o) IN
         /\ IsDisk(e) /\ OnlyOf(r, d, e)
         /\ \/ e.raw[r] = Append(d.raw[r], entry)
            \/ e.raw[r] = d.raw[r] /\ r \in e.unwritten
<1> DEFINE log == [d EXCEPT !.raw[r] = Append(@, entry)]
           e == Rec!Appended(d, r, entry, o)
<1> DEFINE longer == [d.raw EXCEPT ![r] = Append(@, entry)]
<1>0. PICK a, b, c, m, u, f, v :
        d = [raw |-> a, index |-> b, newer |-> c, missed |-> m, unwritten |-> u, failed |-> f, events |-> v]
  BY DEF IsDisk
<1>1. /\ log = [raw |-> longer, index |-> b, newer |-> c, missed |-> m, unwritten |-> u, failed |-> f,
                events |-> v]
      /\ longer = [q \in Runs |-> IF q = r THEN Append(d.raw[r], entry) ELSE d.raw[q]]
  <2>1. d.raw = a /\ d.raw = [q \in Runs |-> d.raw[q]]
    BY <1>0 DEF IsDisk
  <2>2. log = [raw |-> longer, index |-> b, newer |-> c, missed |-> m, unwritten |-> u, failed |-> f,
               events |-> v]
    BY <1>0
  <2> QED
    BY <2>1, <2>2
<1>2. \A q \in Runs : IsLog(longer[q])
  BY <1>1, AppendedIsLog DEF IsDisk
<1>3. Rec!Applied(longer[r]) = Rec!Noted(Rec!Applied(d.raw[r]), entry)
  BY <1>1, AppendNotes DEF IsDisk
<1>4. /\ IsKnown(Rec!Noted(d.index[r], entry))
      /\ d.index = [q \in Runs |-> d.index[q]] /\ \A q \in Runs : IsKnown(d.index[q])
      /\ \A q \in Runs : q \notin d.newer \cup d.missed => d.index[q] = Rec!Applied(d.raw[q])
      /\ d.newer \subseteq Runs /\ d.missed \subseteq Runs /\ d.unwritten \subseteq Runs
  BY NotedIsKnown DEF IsDisk
<1> HIDE DEF log, longer
<1>5. CASE o = "ok"
  <2>1. e = [log EXCEPT !.index[r] = Rec!Noted(@, entry), !.missed = @ \cup d.newer, !.newer = {}]
    BY <1>5 DEF Rec!Appended, log
  <2>2. e = [raw |-> longer, index |-> [b EXCEPT ![r] = Rec!Noted(@, entry)], newer |-> {},
             missed |-> m \cup d.newer, unwritten |-> u, failed |-> f, events |-> v]
    BY <1>1, <2>1
  <2> HIDE DEF e
  <2>3. \A q \in Runs : /\ e.index[q] = IF q = r THEN Rec!Noted(d.index[r], entry) ELSE d.index[q]
                        /\ IsKnown(e.index[q])
    BY <1>0, <1>4, <2>2
  <2>4. \A q \in Runs : q \notin e.newer \cup e.missed => e.index[q] = Rec!Applied(e.raw[q])
    BY <1>0, <1>1, <1>3, <1>4, <2>2, <2>3
  <2>5. IsDisk(e)
    BY <1>0, <1>1, <1>2, <1>4, <2>2, <2>3, <2>4 DEF IsDisk
  <2>6. OnlyOf(r, d, e) /\ e.raw[r] = Append(d.raw[r], entry)
    BY <1>0, <1>1, <2>2, <2>3 DEF OnlyOf
  <2> QED
    BY <2>5, <2>6 DEF e
<1>6. CASE o \in {"log only", "in the tick"}
  <2>1. /\ e = [raw |-> e.raw, index |-> e.index, newer |-> e.newer, missed |-> e.missed,
                unwritten |-> e.unwritten, failed |-> e.failed, events |-> e.events]
        /\ e.raw = longer /\ e.index = d.index /\ e.unwritten = d.unwritten
        /\ e.newer \subseteq Runs /\ e.missed \subseteq Runs
        /\ d.newer \cup d.missed \cup {r} \subseteq e.newer \cup e.missed
    <3>1. CASE o = "log only"
      <4>1. e = [log EXCEPT !.newer = @ \cup {r}, !.failed = @ + 1]
        BY <3>1 DEF Rec!Appended, log
      <4>2. e = [raw |-> longer, index |-> b, newer |-> c \cup {r}, missed |-> m, unwritten |-> u,
                 failed |-> f + 1, events |-> v]
        BY <1>1, <4>1
      <4> HIDE DEF e
      <4> QED
        BY <1>0, <1>4, <4>2
    <3>2. CASE o = "in the tick"
      <4>1. e = [log EXCEPT !.missed = @ \cup {r}, !.failed = @ + 1]
        BY <3>2 DEF Rec!Appended, log
      <4>2. e = [raw |-> longer, index |-> b, newer |-> c, missed |-> m \cup {r}, unwritten |-> u,
                 failed |-> f + 1, events |-> v]
        BY <1>1, <4>1
      <4> HIDE DEF e
      <4> QED
        BY <1>0, <1>4, <4>2
    <3> QED
      BY <1>6, <3>1, <3>2
  <2> HIDE DEF e
  <2>2. IsDisk(e)
    BY <1>1, <1>2, <1>4, <2>1 DEF IsDisk
  <2>3. OnlyOf(r, d, e) /\ e.raw[r] = Append(d.raw[r], entry)
    BY <1>1, <2>1 DEF OnlyOf
  <2> QED
    BY <2>2, <2>3 DEF e
<1>7. CASE o = "none"
  <2>1. e = [d EXCEPT !.unwritten = @ \cup {r}, !.failed = @ + 1]
    BY <1>7 DEF Rec!Appended
  <2>2. e = [raw |-> d.raw, index |-> d.index, newer |-> d.newer, missed |-> d.missed,
             unwritten |-> d.unwritten \cup {r}, failed |-> d.failed + 1, events |-> d.events]
    BY <2>1 DEF IsDisk
  <2> HIDE DEF e
  <2>3. IsDisk(e)
    BY <1>4, <2>2 DEF IsDisk
  <2>4. OnlyOf(r, d, e) /\ e.raw[r] = d.raw[r] /\ r \in e.unwritten
    BY <2>2 DEF OnlyOf
  <2> QED
    BY <2>3, <2>4 DEF e
<1> QED
  BY <1>5, <1>6, <1>7 DEF Rec!Outcomes

\* A record of a run in the log says no more of its events, and is the last there is.
LEMMA RunRecorded ==
  ASSUME NEW d, IsDisk(d), NEW r \in Runs, NEW status \in Rec!Statuses, NEW o \in Rec!Outcomes
  PROVE  LET e == Rec!Appended(d, r, Rec!RunEntry(status), o) IN
         /\ IsDisk(e) /\ OnlyOf(r, d, e)
         /\ Rec!EventsIn(e.raw[r]) = Rec!EventsIn(d.raw[r]) /\ (Rising(d.raw[r]) => Rising(e.raw[r]))
         /\ r \notin e.unwritten => Rec!StatusIn(e.raw[r]) = status
<1> DEFINE entry == Rec!RunEntry(status)
           e == Rec!Appended(d, r, entry, o)
           log == d.raw[r]
<1>1. entry \in Entries /\ Rec!IsRun(entry) /\ ~Rec!IsEvent(entry) /\ entry.status = status
  BY DEF Rec!RunEntry, Entries, RunEntries, Rec!IsRun, Rec!IsEvent
<1> HIDE DEF entry
<1>2. /\ IsDisk(e) /\ OnlyOf(r, d, e)
      /\ e.raw[r] = Append(log, entry) \/ (e.raw[r] = log /\ r \in e.unwritten)
  BY <1>1, AppendedIsDisk
<1>3. IsLog(log)
  BY DEF IsDisk
<1> HIDE DEF e, log
<1>4. Rec!StatusIn(Append(log, entry)) = status /\ Rec!EventsIn(Append(log, entry)) = Rec!EventsIn(log)
  <2>1. Rec!Applied(Append(log, entry)) = [Rec!Applied(log) EXCEPT !.status = status]
    BY <1>1, <1>3, AppendNotes DEF Rec!Noted
  <2> QED
    BY <2>1 DEF Rec!Applied
<1>5. ASSUME Rising(log) PROVE Rising(Append(log, entry))
  BY <1>1, <1>3, <1>5, LastEntry DEF Rising, IsLog
<1>6. Rec!EventsIn(e.raw[r]) = Rec!EventsIn(log) /\ (Rising(log) => Rising(e.raw[r]))
      /\ (r \notin e.unwritten => Rec!StatusIn(e.raw[r]) = status)
  BY <1>2, <1>4, <1>5
<1> QED
  BY <1>2, <1>6 DEF e, log, entry

\* An event in the log is one more, and changes no status; its number goes after those of before.
LEMMA EventRecorded ==
  ASSUME NEW d, IsDisk(d), NEW r \in Runs, NEW event \in Events, NEW o \in Rec!Outcomes
  PROVE  LET e == Rec!Appended(d, r, event, o) IN
         /\ IsDisk(e) /\ OnlyOf(r, d, e)
         /\ Rec!EventsIn(e.raw[r]) \subseteq Rec!EventsIn(d.raw[r]) \cup {event}
         /\ Rec!StatusIn(e.raw[r]) = Rec!StatusIn(d.raw[r])
         /\ (\A b \in Rec!EventsIn(d.raw[r]) : b.seq < event.seq) /\ Rising(d.raw[r]) => Rising(e.raw[r])
         /\ r \notin e.unwritten => Rec!EventsIn(e.raw[r]) = Rec!EventsIn(d.raw[r]) \cup {event}
<1> DEFINE e == Rec!Appended(d, r, event, o)
           log == d.raw[r]
<1>1. event \in Entries /\ Rec!IsEvent(event) /\ ~Rec!IsRun(event)
  BY DEF Entries, Events, Rec!IsRun, Rec!IsEvent
<1>2. /\ IsDisk(e) /\ OnlyOf(r, d, e)
      /\ e.raw[r] = Append(log, event) \/ (e.raw[r] = log /\ r \in e.unwritten)
  BY <1>1, AppendedIsDisk
<1>3. IsLog(log)
  BY DEF IsDisk
<1> HIDE DEF e, log
<1>4. /\ Rec!StatusIn(Append(log, event)) = Rec!StatusIn(log)
      /\ Rec!EventsIn(Append(log, event)) = Rec!EventsIn(log) \cup {event}
  <2>1. Rec!Applied(Append(log, event)) = [Rec!Applied(log) EXCEPT !.events = @ \cup {event}]
    BY <1>1, <1>3, AppendNotes DEF Rec!Noted
  <2> QED
    BY <2>1 DEF Rec!Applied
<1>5. ASSUME \A b \in Rec!EventsIn(log) : b.seq < event.seq, Rising(log)
      PROVE  Rising(Append(log, event))
  <2>1. \A i \in DOMAIN log : Rec!IsEvent(log[i]) => log[i].seq < event.seq
    BY <1>5 DEF Rec!EventsIn
  <2> QED
    BY <1>1, <1>3, <1>5, <2>1, LastEntry DEF Rising, IsLog
<1>6. /\ Rec!EventsIn(e.raw[r]) \subseteq Rec!EventsIn(log) \cup {event}
      /\ Rec!StatusIn(e.raw[r]) = Rec!StatusIn(log)
      /\ (\A b \in Rec!EventsIn(log) : b.seq < event.seq) /\ Rising(log) => Rising(e.raw[r])
      /\ r \notin e.unwritten => Rec!EventsIn(e.raw[r]) = Rec!EventsIn(log) \cup {event}
  BY <1>2, <1>4, <1>5
<1> QED
  BY <1>2, <1>6 DEF e, log

\* What a restart or a rebuild loads, from the index or the logs, is what the logs say of all runs
\* but those it misreads.
LEMMA LoadedIsLogs ==
  ASSUME IsDisk(Rec!Store), Rec!Reindex, raw' = raw, unwritten' \subseteq Runs
  PROVE  /\ IsDisk(Rec!Store)'
         /\ Rec!Loaded \in States /\ misread \subseteq misread' /\ misread' \subseteq misread \cup Runs
         /\ \A r \in Runs \ misread' :
              /\ Rec!Loaded.runs[r] = Rec!StatusIn(raw[r])
              /\ Rec!Loaded.kids[r] = Rec!KidsIn(Rec!Applied(raw[r]))
              /\ Covers(Rec!Loaded.seqs[r], raw[r])
         /\ \A r \in Runs : raw[r] = <<>> /\ index[r] = Rec!Nothing =>
              index'[r] = Rec!Nothing /\ Rec!Loaded.runs[r] = "none"
<1> DEFINE source == IF Rec!Fresh THEN index ELSE Rec!Rewritten
<1>1. /\ raw = [r \in Runs |-> raw[r]] /\ index = [r \in Runs |-> index[r]]
      /\ newer \subseteq Runs /\ missed \subseteq Runs /\ unwritten \subseteq Runs
      /\ \A r \in Runs : /\ IsLog(raw[r]) /\ IsKnown(index[r])
                         /\ r \notin newer \cup missed => index[r] = Rec!Applied(raw[r])
  BY DEF IsDisk, Rec!Store
<1>2. \A r \in Runs : /\ IsKnown(source[r])
                      /\ r \notin misread' => source[r] = Rec!Applied(raw[r])
                      /\ raw[r] = <<>> /\ index[r] = Rec!Nothing => source[r] = Rec!Nothing
  BY <1>1, EmptyLog DEF Rec!Fresh, Rec!Reindex, Rec!Rewritten, IsLog
<1>3. Rec!Loaded = Rec!Replay(source)
  BY DEF Rec!Loaded
<1> HIDE DEF source
<1>4. \A r \in Runs : /\ Rec!Loaded.runs[r] = source[r].status
                      /\ Rec!Loaded.seqs[r] = Rec!SeqIn(source[r])
                      /\ Rec!Loaded.kids[r] = Rec!KidsIn(source[r])
  BY <1>3 DEF Rec!Replay
<1>5. Rec!Loaded \in States
  <2>1. \A r \in Runs : /\ source[r].status \in Rec!Statuses /\ Rec!SeqIn(source[r]) \in Nat
                        /\ Rec!KidsIn(source[r]) \subseteq RunSessions
    BY <1>2, LastNumber DEF IsKnown, Rec!KidsIn, Events
  <2> QED
    BY <1>3, <2>1 DEF Rec!Replay, States
<1>6. \A r \in Runs \ misread' :
        /\ Rec!Loaded.runs[r] = Rec!StatusIn(raw[r])
        /\ Rec!Loaded.kids[r] = Rec!KidsIn(Rec!Applied(raw[r]))
        /\ Covers(Rec!Loaded.seqs[r], raw[r])
  BY <1>2, <1>4, LastNumber DEF Rec!Applied, Covers
<1>7. \A r \in Runs : raw[r] = <<>> /\ index[r] = Rec!Nothing =>
        index'[r] = Rec!Nothing /\ Rec!Loaded.runs[r] = "none"
  <2>1. ASSUME NEW r \in Runs, raw[r] = <<>>, index[r] = Rec!Nothing
        PROVE  index'[r] = Rec!Nothing /\ Rec!Loaded.runs[r] = "none"
    <3>1. Rec!Loaded.runs[r] = "none"
      BY <1>2, <1>4, <2>1 DEF Rec!Nothing
    <3>2. CASE Rec!Fresh
      BY <2>1, <3>1, <3>2 DEF Rec!Reindex
    <3>3. CASE ~Rec!Fresh
      <4>1. index' = Rec!Rewritten
        BY <3>3 DEF Rec!Reindex
      <4>2. index'[r] = Rec!Applied(raw[r])
        BY <4>1 DEF Rec!Rewritten
      <4> QED
        BY <2>1, <3>1, <4>2, EmptyLog
    <3> QED
      BY <3>2, <3>3
  <2> QED
    BY <2>1
<1>8. misread \subseteq misread' /\ misread' \subseteq misread \cup Runs
  BY <1>1 DEF Rec!Reindex
<1>9. IsDisk(Rec!Store)'
  <2>1. /\ index' = [r \in Runs |-> index'[r]] /\ newer' \subseteq Runs /\ missed' \subseteq Runs
        /\ \A r \in Runs : /\ IsKnown(index'[r])
                           /\ r \notin newer' \cup missed' => index'[r] = Rec!Applied(raw[r])
    BY <1>1 DEF Rec!Reindex, Rec!Rewritten, IsLog
  <2> QED
    BY <1>1, <2>1 DEF IsDisk, Rec!Store
<1> QED
  BY <1>5, <1>6, <1>7, <1>8, <1>9

-----------------------------------------------------------------------------
\* The files are those of d.
Saved(d) ==
  raw' = d.raw /\ index' = d.index /\ newer' = d.newer /\ missed' = d.missed /\ unwritten' = d.unwritten

\* A live tail keeps its limit.
LEMMA TailIsKept ==
  ASSUME NEW tails, NEW r \in Runs, tails = [q \in Runs |-> tails[q]],
         \A q \in Runs : tails[q] \in Seq(Events) /\ Len(tails[q]) <= LiveTail,
         NEW event \in Events, NEW limit \in 1..LiveTail,
         NEW more, more = Append(tails[r], event),
         NEW next, next = [tails EXCEPT ![r] = SubSeq(more, Rec!Max({1, Len(more) - limit + 1}), Len(more))]
  PROVE  next = [q \in Runs |-> next[q]] /\ \A q \in Runs : next[q] \in Seq(Events) /\ Len(next[q]) <= LiveTail
<1> DEFINE from == Rec!Max({1, Len(more) - limit + 1})
<1>1. more \in Seq(Events) /\ Len(more) \in Nat \ {0} /\ \A i \in 1..Len(more) : more[i] \in Events
  OBVIOUS
<1>2. limit \in Nat \ {0} /\ limit <= LiveTail /\ LiveTail \in Nat
  BY TailAssumption
<1>3. from \in Int /\ from >= 1 /\ from >= Len(more) - limit + 1 /\ from <= Len(more)
  <2>1. CASE Len(more) - limit + 1 <= 1
    <3>1. 1 \in {1, Len(more) - limit + 1} /\ \A y \in {1, Len(more) - limit + 1} : 1 >= y
      BY <1>1, <1>2, <2>1
    <3>2. from \in {1, Len(more) - limit + 1} /\ \A y \in {1, Len(more) - limit + 1} : from >= y
      BY <3>1 DEF Rec!Max
    <3> HIDE DEF from
    <3> QED
      BY <1>1, <1>2, <2>1, <3>2
  <2>2. CASE ~(Len(more) - limit + 1 <= 1)
    <3>1. \A y \in {1, Len(more) - limit + 1} : Len(more) - limit + 1 >= y
      BY <1>1, <1>2, <2>2
    <3>2. from \in {1, Len(more) - limit + 1} /\ \A y \in {1, Len(more) - limit + 1} : from >= y
      BY <3>1 DEF Rec!Max
    <3> HIDE DEF from
    <3> QED
      BY <1>1, <1>2, <2>2, <3>2
  <2> QED
    BY <2>1, <2>2
<1> HIDE DEF from
<1>4. SubSeq(more, from, Len(more)) \in Seq(Events) /\ Len(SubSeq(more, from, Len(more))) = Len(more) - from + 1
  <2>1. \A i \in from..Len(more) : more[i] \in Events
    BY <1>1, <1>3
  <2> QED
    BY <1>1, <1>3, <2>1, SubSeqProperties
<1>5. Len(SubSeq(more, from, Len(more))) <= LiveTail
  <2>1. Len(more) - from + 1 <= limit
    BY <1>1, <1>2, <1>3
  <2> QED
    BY <1>1, <1>2, <1>3, <1>4, <2>1
<1> QED
  BY <1>4, <1>5 DEF from

\* What is recorded of one run leaves what is known of the others.
LEMMA OthersAreKept ==
  ASSUME RecInv, NEW r \in Runs, NEW d, IsDisk(d), OnlyOf(r, Rec!Store, d), Saved(d),
         \A q \in Runs \ {r} : runs'[q] = runs[q] /\ seqs'[q] = seqs[q] /\ kids'[q] = kids[q] /\ life'[q] = life[q],
         UNCHANGED <<stage, loaded, misread, revived>>,
         overrun' \in {overrun, overrun \cup {r}}
  PROVE  /\ IsDisk(Rec!Store)'
         /\ \A q \in Runs \ {r} : Counts(q)' /\ Mirrors(q)' /\ Tracks(q)' /\ Unsaid(q)'
         /\ Sound' \subseteq Sound /\ Followable' \subseteq Followable
<1>1. IsDisk(Rec!Store)'
  BY DEF IsDisk, Rec!Store, Saved
<1>2. /\ \A q \in Runs \ {r} : raw'[q] = raw[q] /\ index'[q] = index[q]
      /\ unwritten \subseteq unwritten' /\ unwritten' \subseteq unwritten \cup {r}
  BY DEF OnlyOf, Saved, Rec!Store
<1>3. /\ Sound' \subseteq Sound /\ Followable' \subseteq Followable
      /\ \A q \in Runs \ {r} : /\ q \in Sound' <=> q \in Sound
                               /\ q \in Followable' <=> q \in Followable
                               /\ q \in Rec!Clouded' <=> q \in Rec!Clouded
  BY <1>2 DEF Sound, Followable, Rec!Clouded
<1>4. ASSUME NEW q \in Runs \ {r} PROVE Counts(q)' /\ Mirrors(q)' /\ Tracks(q)' /\ Unsaid(q)'
  <2>1. Counts(q) /\ Mirrors(q) /\ Tracks(q) /\ Unsaid(q)
    BY DEF RecInv
  <2>2. /\ raw'[q] = raw[q] /\ index'[q] = index[q] /\ runs'[q] = runs[q] /\ seqs'[q] = seqs[q]
        /\ kids'[q] = kids[q] /\ life'[q] = life[q] /\ stage' = stage /\ loaded' = loaded
    BY <1>2
  <2>3. Counts(q)'
    BY <1>3, <2>1, <2>2 DEF Counts, Rising, Covers
  <2>4. Mirrors(q)'
    BY <1>3, <2>1, <2>2 DEF Mirrors
  <2>5. Tracks(q)' /\ Unsaid(q)'
    BY <1>3, <2>1, <2>2 DEF Tracks, Unsaid
  <2> QED
    BY <2>3, <2>4, <2>5
<1> QED
  BY <1>1, <1>3, <1>4

\* A stream lacks no more than before while the log of its run has no more events.
LEMMA StreamIsKept ==
  ASSUME RecInv, UNCHANGED <<follower, sending>>, stage' # "up" => stage # "up",
         Sound' \subseteq Sound, Over => Over',
         Followed \in Sound' => Rec!EventsIn(raw'[Followed]) \subseteq Rec!EventsIn(raw[Followed])
  PROVE  FollowerOK' /\ Served'
<1>1. FollowerOK'
  BY DEF RecInv, FollowerOK, Rec!Idle
<1>2. Served'
  <2> SUFFICES ASSUME Followed \in Sound', ~follower.dropped PROVE Served'
    BY DEF Served
  <2>1. Followed \in Sound /\ Served
    BY DEF RecInv
  <2>2. Rec!Heads(Rec!EventsIn(raw'[Followed])) \subseteq Rec!Heads(Rec!EventsIn(raw[Followed]))
    BY DEF Rec!Heads
  <2> QED
    BY <2>1, <2>2 DEF Served, Told
<1> QED
  BY <1>1, <1>2

\* The record of a run is written, in memory and in its log, by its owner.
LEMMA RecordKeeps ==
  ASSUME RecInv, NEW r \in Runs, NEW status \in Rec!Statuses, NEW place \in Rec!Lives \ {"new"},
         stage = "up", Rec!Record(r, status), life' = [life EXCEPT ![r] = place],
         UNCHANGED <<stage, seqs, kids, live, loaded, sending, follower, misread, revived>>,
         place \in {"queued", "running"} => status = place,
         place = "done" => status \notin Rec!Active,
         life[r] \in Rec!Terminal \cup {"done"} => place \in Rec!Terminal \cup {"done"}
  PROVE  RecInv'
<1>1. PICK o \in Rec!Outcomes :
        /\ runs' = [runs EXCEPT ![r] = status]
        /\ Rec!Put(Rec!Appended(Rec!Store, r, Rec!RunEntry(status), o))
        /\ Rec!Overrun(r)
  BY DEF Rec!Record
<1> DEFINE d == Rec!Appended(Rec!Store, r, Rec!RunEntry(status), o)
<1>2. /\ IsDisk(d) /\ OnlyOf(r, Rec!Store, d)
      /\ Rec!EventsIn(d.raw[r]) = Rec!EventsIn(raw[r]) /\ (Rising(raw[r]) => Rising(d.raw[r]))
      /\ r \notin d.unwritten => Rec!StatusIn(d.raw[r]) = status
  <2>1. IsDisk(Rec!Store) /\ Rec!Store.raw = raw
    BY DEF RecInv, Rec!Store
  <2> QED
    BY <2>1, RunRecorded
<1> HIDE DEF d
<1>3. Saved(d)
  BY <1>1 DEF Saved, Rec!Put, d
<1>4. RecTypeOK /\ Counts(r) /\ Mirrors(r) /\ Unsaid(r)
  BY DEF RecInv
<1>5. RecTypeOK'
  <2>1. overrun' \subseteq Runs
    BY <1>1, <1>4 DEF RecTypeOK, Rec!Overrun
  <2>2. runs' \in [Runs -> Rec!Statuses] /\ life' \in [Runs -> Rec!Lives]
    BY <1>1, <1>4 DEF RecTypeOK
  <2> QED
    BY <1>4, <2>1, <2>2 DEF RecTypeOK
<1>6. overrun' \in {overrun, overrun \cup {r}} /\ (loaded # {} => r \in overrun')
  BY <1>1 DEF Rec!Overrun
<1>7. \A q \in Runs \ {r} : runs'[q] = runs[q] /\ seqs'[q] = seqs[q] /\ kids'[q] = kids[q] /\ life'[q] = life[q]
  BY <1>1, <1>4 DEF RecTypeOK
<1>8. /\ IsDisk(Rec!Store)' /\ Sound' \subseteq Sound /\ Followable' \subseteq Followable
      /\ \A q \in Runs \ {r} : Counts(q)' /\ Mirrors(q)' /\ Tracks(q)' /\ Unsaid(q)'
  BY <1>2, <1>3, <1>6, <1>7, OthersAreKept
<1>9. Rec!EventsIn(raw'[r]) = Rec!EventsIn(raw[r]) /\ runs'[r] = status /\ life'[r] = place
  BY <1>1, <1>2, <1>3, <1>4 DEF Saved, RecTypeOK
<1>10. Counts(r)'
  <2> SUFFICES ASSUME r \in Followable' PROVE Counts(r)'
    BY DEF Counts
  <2>1. r \in Followable /\ loaded' = {}
    BY <1>6, <1>8 DEF Followable
  <2>2. Rising(raw'[r]) /\ Covers(seqs'[r], raw'[r])
    BY <1>2, <1>3, <1>4, <1>9, <2>1 DEF Counts, Covers, Saved
  <2>3. Rising(raw[r])' /\ Covers(seqs[r], raw[r])'
    BY <2>2 DEF Rising, Covers
  <2> QED
    BY <2>1, <2>3 DEF Counts
<1>11. Mirrors(r)'
  <2> SUFFICES ASSUME r \notin Rec!Clouded' PROVE Mirrors(r)'
    BY DEF Mirrors
  <2>1. r \notin Rec!Clouded /\ r \notin d.unwritten
    BY <1>2, <1>3, <1>6 DEF Rec!Clouded, Saved, OnlyOf, Rec!Store
  <2>2. Rec!StatusIn(raw'[r]) = status
    BY <1>2, <1>3, <2>1 DEF Saved
  <2>3. Rec!KidsIn(Rec!Applied(raw'[r])) = Rec!KidsIn(Rec!Applied(raw[r]))
    BY <1>9 DEF Rec!KidsIn, Rec!Applied
  <2>4. kids[r] = Rec!KidsIn(Rec!Applied(raw[r]))
    BY <1>4, <2>1 DEF Mirrors
  <2> QED
    BY <1>9, <2>2, <2>3, <2>4 DEF Mirrors
<1>12. Tracks(r)' /\ Unsaid(r)'
  BY <1>9 DEF Tracks, Unsaid
<1>13. FollowerOK' /\ Served'
  <2>1. Over => Over'
    BY <1>4, FollowedAssumption DEF Over, RecTypeOK
  <2>2. \A q \in Runs \ {r} : raw'[q] = raw[q]
    BY <1>2, <1>3 DEF OnlyOf, Saved, Rec!Store
  <2>3. Rec!EventsIn(raw'[Followed]) \subseteq Rec!EventsIn(raw[Followed])
    BY <1>9, <2>2, FollowedAssumption
  <2> QED
    BY <1>8, <2>1, <2>3, StreamIsKept
<1> QED
  BY <1>5, <1>8, <1>10, <1>11, <1>12, <1>13 DEF RecInv

\* An event of a run is recorded, in memory and in its log, after what d has of the run's record.
LEMMA EventKeeps ==
  ASSUME RecInv, NEW r \in Runs, stage # "down",
         NEW event \in Events, event.seq = seqs[r] + 1, NEW status \in Rec!Statuses,
         NEW d, IsDisk(d), OnlyOf(r, Rec!Store, d),
         Rec!EventsIn(d.raw[r]) = Rec!EventsIn(raw[r]), Rising(raw[r]) => Rising(d.raw[r]),
         r \notin d.unwritten /\ r \notin Rec!Clouded => Rec!StatusIn(d.raw[r]) = status,
         NEW o \in Rec!Outcomes, Saved(Rec!Appended(d, r, event, o)),
         runs' = [runs EXCEPT ![r] = status], seqs' = [seqs EXCEPT ![r] = event.seq],
         kids' = [kids EXCEPT ![r] = @ \cup event.child], live' = Rec!TakenLive(r, event),
         NEW place \in Rec!Lives \ {"new"}, life' = [life EXCEPT ![r] = place],
         UNCHANGED <<stage, loaded, misread, revived>>, stage # "up" => place = "done",
         overrun' \in {overrun, overrun \cup {r}}, loaded # {} => r \in overrun',
         stage = "up" /\ r \in Sound => (place \in {"queued", "running"} => status = place)
                                        /\ (place = "done" => status \notin Rec!Active)
  PROVE  /\ RecTypeOK' /\ IsDisk(Rec!Store)' /\ Sound' \subseteq Sound
         /\ \A q \in Runs : Counts(q)' /\ Mirrors(q)' /\ Tracks(q)' /\ Unsaid(q)'
         /\ Rec!EventsIn(raw'[r]) \subseteq Rec!EventsIn(raw[r]) \cup {event}
         /\ \A q \in Runs \ {r} : raw'[q] = raw[q]
<1> DEFINE e == Rec!Appended(d, r, event, o)
<1>1. /\ IsDisk(e) /\ OnlyOf(r, d, e)
      /\ Rec!EventsIn(e.raw[r]) \subseteq Rec!EventsIn(raw[r]) \cup {event}
      /\ Rec!StatusIn(e.raw[r]) = Rec!StatusIn(d.raw[r])
      /\ (\A b \in Rec!EventsIn(raw[r]) : b.seq < event.seq) /\ Rising(raw[r]) => Rising(e.raw[r])
      /\ r \notin e.unwritten => Rec!EventsIn(e.raw[r]) = Rec!EventsIn(raw[r]) \cup {event}
  <2>1. /\ IsDisk(e) /\ OnlyOf(r, d, e)
        /\ Rec!EventsIn(e.raw[r]) \subseteq Rec!EventsIn(d.raw[r]) \cup {event}
        /\ Rec!StatusIn(e.raw[r]) = Rec!StatusIn(d.raw[r])
        /\ (\A b \in Rec!EventsIn(d.raw[r]) : b.seq < event.seq) /\ Rising(d.raw[r]) => Rising(e.raw[r])
        /\ r \notin e.unwritten => Rec!EventsIn(e.raw[r]) = Rec!EventsIn(d.raw[r]) \cup {event}
    BY EventRecorded
  <2> HIDE DEF e
  <2> QED
    BY <2>1
<1>2. Saved(e)
  OBVIOUS
<1> HIDE DEF e
<1>3. OnlyOf(r, Rec!Store, e) /\ (r \notin e.unwritten => r \notin d.unwritten)
  BY <1>1 DEF OnlyOf
<1>4. RecTypeOK /\ Counts(r) /\ Mirrors(r) /\ Unsaid(r)
  BY DEF RecInv
<1>5. RecTypeOK'
  <2>1. overrun' \subseteq Runs
    BY <1>4 DEF RecTypeOK
  <2>2. /\ runs' \in [Runs -> Rec!Statuses] /\ life' \in [Runs -> Rec!Lives]
        /\ event.seq \in Nat /\ event.child \subseteq RunSessions
    BY <1>4 DEF RecTypeOK, Events
  <2>3. seqs' \in [Runs -> Nat] /\ kids' \in [Runs -> SUBSET RunSessions]
    BY <1>4, <2>2 DEF RecTypeOK
  <2>4. live' = [q \in Runs |-> live'[q]] /\ \A q \in Runs : live'[q] \in Seq(Events) /\ Len(live'[q]) <= LiveTail
    <3>1. (IF event.name \in Rec!Terminal THEN EndTail ELSE LiveTail) \in 1..LiveTail
      BY TailAssumption
    <3> QED
      BY <1>4, <3>1, TailIsKept DEF RecTypeOK, Rec!TakenLive
  <2>5. stage # "up" => \A q \in Runs : life'[q] \in {"new", "done"}
    BY <1>4 DEF RecTypeOK
  <2> QED
    BY <1>4, <2>1, <2>2, <2>3, <2>4, <2>5 DEF RecTypeOK
<1>6. \A q \in Runs \ {r} : runs'[q] = runs[q] /\ seqs'[q] = seqs[q] /\ kids'[q] = kids[q] /\ life'[q] = life[q]
  BY <1>4 DEF RecTypeOK
<1>7. /\ IsDisk(Rec!Store)' /\ Sound' \subseteq Sound /\ Followable' \subseteq Followable
      /\ \A q \in Runs \ {r} : Counts(q)' /\ Mirrors(q)' /\ Tracks(q)' /\ Unsaid(q)'
  BY <1>1, <1>2, <1>3, <1>6, OthersAreKept
<1>8. /\ runs'[r] = status /\ life'[r] = place /\ seqs'[r] = seqs[r] + 1 /\ seqs[r] \in Nat
      /\ kids'[r] = kids[r] \cup event.child /\ raw' = e.raw /\ unwritten' = e.unwritten
  BY <1>2, <1>4 DEF Saved, RecTypeOK
<1>9. Counts(r)'
  <2> SUFFICES ASSUME r \in Followable' PROVE Counts(r)'
    BY DEF Counts
  <2>1. r \in Followable /\ loaded' = {}
    BY <1>7 DEF Followable
  <2>2. \A b \in Rec!EventsIn(raw[r]) : b.seq \in Nat /\ b.seq <= seqs[r]
    <3>1. Rec!EventsIn(raw[r]) \subseteq Events
      BY DEF RecInv, IsDisk, IsLog, IsKnown, Rec!Applied, Rec!Store
    <3> QED
      BY <1>4, <2>1, <3>1 DEF Counts, Covers, Events
  <2>3. \A b \in Rec!EventsIn(raw[r]) : b.seq < event.seq
    BY <1>8, <2>2
  <2>4. Rising(raw'[r])
    BY <1>1, <1>4, <1>8, <2>1, <2>3 DEF Counts
  <2>5. Covers(seqs'[r], raw'[r])
    BY <1>1, <1>8, <2>2 DEF Covers
  <2>6. Rising(raw[r])' /\ Covers(seqs[r], raw[r])'
    BY <2>4, <2>5 DEF Rising, Covers
  <2> QED
    BY <2>1, <2>6 DEF Counts
<1>10. Mirrors(r)'
  <2> SUFFICES ASSUME r \notin Rec!Clouded' PROVE Mirrors(r)'
    BY DEF Mirrors
  <2>1. r \notin Rec!Clouded /\ r \notin e.unwritten
    BY <1>3, <1>8 DEF Rec!Clouded, OnlyOf, Rec!Store
  <2>2. Rec!StatusIn(raw'[r]) = status
    BY <1>1, <1>3, <1>8, <2>1
  <2>3. Rec!EventsIn(raw'[r]) = Rec!EventsIn(raw[r]) \cup {event}
    BY <1>1, <1>8, <2>1
  <2>4. Rec!KidsIn(Rec!Applied(raw'[r])) = Rec!KidsIn(Rec!Applied(raw[r])) \cup event.child
    BY <2>3 DEF Rec!KidsIn, Rec!Applied
  <2>5. kids[r] = Rec!KidsIn(Rec!Applied(raw[r]))
    BY <1>4, <2>1 DEF Mirrors
  <2> QED
    BY <1>8, <2>2, <2>4, <2>5 DEF Mirrors
<1>11. Tracks(r)' /\ Unsaid(r)'
  BY <1>7, <1>8 DEF Tracks, Unsaid
<1>12. \A q \in Runs \ {r} : raw'[q] = raw[q]
  BY <1>3, <1>8 DEF OnlyOf, Rec!Store
<1> QED
  BY <1>1, <1>5, <1>7, <1>8, <1>9, <1>10, <1>11, <1>12

\* The files do not depend on how many events of the bound are used up.
LEMMA PutIsSaved ==
  ASSUME NEW d, IsDisk(d), Rec!Put([d EXCEPT !.events = 1])
  PROVE  Saved(d)
<1>1. PICK a, b, c, m, u, f, v :
        d = [raw |-> a, index |-> b, newer |-> c, missed |-> m, unwritten |-> u, failed |-> f, events |-> v]
  BY DEF IsDisk
<1>2. [d EXCEPT !.events = 1] =
        [raw |-> a, index |-> b, newer |-> c, missed |-> m, unwritten |-> u, failed |-> f, events |-> 1]
  BY <1>1
<1> QED
  BY <1>1, <1>2 DEF Rec!Put, Saved

\* An event of a run under way, after which it is where its name says.
LEMMA AppendEventKeeps ==
  ASSUME RecInv, NEW r \in Runs, stage = "up", life[r] = "running",
         NEW name \in EventNames, NEW payload, Rec!ChildOf(payload) \subseteq RunSessions,
         Rec!AppendEvent(r, name, payload),
         life' = IF name \in Rec!Terminal THEN [life EXCEPT ![r] = name] ELSE life,
         UNCHANGED <<stage, loaded, follower, misread, revived>>
  PROVE  RecInv'
<1> DEFINE event == Rec!EventEntry(name, Rec!NextSeq(r), Rec!ChildOf(payload))
           status == IF name \in DOMAIN Rec!Lifecycle THEN Rec!Lifecycle[name] ELSE runs[r]
           place == IF name \in Rec!Terminal THEN name ELSE "running"
<1>1. PICK o1 \in (IF name \in DOMAIN Rec!Lifecycle THEN Rec!Outcomes ELSE {"ok"}), o2 \in Rec!Outcomes :
        LET recorded == IF name \in DOMAIN Rec!Lifecycle
                        THEN Rec!Appended(Rec!Store, r, Rec!RunEntry(status), o1) ELSE Rec!Store
        IN /\ seqs' = [seqs EXCEPT ![r] = event.seq]
           /\ runs' = [runs EXCEPT ![r] = status]
           /\ kids' = [kids EXCEPT ![r] = @ \cup event.child]
           /\ live' = Rec!TakenLive(r, event)
           /\ Rec!Put([Rec!Appended(recorded, r, event, o2) EXCEPT !.events = 1])
           /\ sending' = Rec!Handed(r, name, event.seq)
           /\ Rec!Overrun(r)
  BY DEF Rec!AppendEvent
<1> DEFINE d == IF name \in DOMAIN Rec!Lifecycle
                THEN Rec!Appended(Rec!Store, r, Rec!RunEntry(status), o1) ELSE Rec!Store
<1>2. RecTypeOK /\ IsDisk(Rec!Store) /\ Mirrors(r) /\ Tracks(r) /\ FollowerOK /\ Served
  BY DEF RecInv
<1>3. /\ event \in Events /\ event.seq = seqs[r] + 1 /\ event.name = name
  <2>1. seqs[r] + 1 \in Nat
    BY <1>2 DEF RecTypeOK
  <2> QED
    BY <2>1 DEF Rec!EventEntry, Events, Rec!NextSeq
<1>4. status \in Rec!Statuses /\ (place = "running" => status = "running" \/ status = runs[r])
  BY <1>2 DEF Rec!Lifecycle, Rec!Statuses, Rec!Active, Rec!Terminal, RecTypeOK
<1>5. /\ IsDisk(d) /\ OnlyOf(r, Rec!Store, d)
      /\ Rec!EventsIn(d.raw[r]) = Rec!EventsIn(raw[r]) /\ (Rising(raw[r]) => Rising(d.raw[r]))
      /\ r \notin d.unwritten /\ r \notin Rec!Clouded => Rec!StatusIn(d.raw[r]) = status
  <2>1. Rec!Store.raw = raw
    BY DEF Rec!Store
  <2>2. CASE name \in DOMAIN Rec!Lifecycle
    BY <1>2, <1>4, <2>1, <2>2, RunRecorded
  <2>3. CASE name \notin DOMAIN Rec!Lifecycle
    BY <1>2, <2>1, <2>3 DEF OnlyOf, Mirrors
  <2> QED
    BY <2>2, <2>3
<1> DEFINE e == Rec!Appended(d, r, event, o2)
<1> HIDE DEF d, event, status
<1>6. Saved(e)
  <2>1. IsDisk(e)
    BY <1>3, <1>5, EventRecorded
  <2>2. Rec!Put([e EXCEPT !.events = 1])
    BY <1>1 DEF d, event, status
  <2> HIDE DEF e
  <2> QED
    BY <2>1, <2>2, PutIsSaved
<1>7. /\ seqs' = [seqs EXCEPT ![r] = event.seq] /\ runs' = [runs EXCEPT ![r] = status]
      /\ kids' = [kids EXCEPT ![r] = @ \cup event.child] /\ live' = Rec!TakenLive(r, event)
      /\ sending' = Rec!Handed(r, name, event.seq)
      /\ overrun' \in {overrun, overrun \cup {r}} /\ (loaded # {} => r \in overrun')
  BY <1>1 DEF event, status, Rec!Overrun
<1>8. place \in Rec!Lives \ {"new"} /\ life' = [life EXCEPT ![r] = place] /\ place # "done" /\ place # "queued"
  BY <1>2 DEF RecTypeOK, Rec!Lives, Rec!Terminal
<1>9. stage = "up" /\ r \in Sound => (place \in {"queued", "running"} => status = place)
                                     /\ (place = "done" => status \notin Rec!Active)
  BY <1>2, <1>4, <1>8 DEF Tracks
<1> HIDE DEF place
<1>10. /\ RecTypeOK' /\ IsDisk(Rec!Store)' /\ Sound' \subseteq Sound
       /\ \A q \in Runs : Counts(q)' /\ Mirrors(q)' /\ Tracks(q)' /\ Unsaid(q)'
       /\ Rec!EventsIn(raw'[r]) \subseteq Rec!EventsIn(raw[r]) \cup {event}
       /\ \A q \in Runs \ {r} : raw'[q] = raw[q]
  BY <1>3, <1>4, <1>5, <1>6, <1>7, <1>8, <1>9, EventKeeps
<1> HIDE DEF e
<1>11. FollowerOK' /\ Served'
  <2> DEFINE message == [name |-> name, seq |-> event.seq]
  <2>1. message \in Messages
    BY <1>3 DEF Messages, Events
  <2>2. sending \subseteq sending' /\ sending' \subseteq sending \cup {message}
        /\ (r = Followed /\ follower.stage \in Reached => message \in sending')
    BY <1>7 DEF Rec!Handed, Reached
  <2>3. FollowerOK'
    BY <1>2, <2>1, <2>2 DEF FollowerOK
  <2>4. Served'
    <3> SUFFICES ASSUME Followed \in Sound', ~follower.dropped PROVE Served'
      BY DEF Served
    <3>1. Followed \in Sound
      BY <1>10
    <3>2. CASE r # Followed
      <4>1. raw'[Followed] = raw[Followed] /\ (Over => Over')
        BY <1>2, <1>8, <1>10, <3>2, FollowedAssumption DEF Over, RecTypeOK
      <4>2. Told \subseteq Told'
        BY <2>2 DEF Told
      <4> QED
        BY <1>2, <3>1, <4>1, <4>2 DEF Served
    <3>3. CASE r = Followed
      <4>1. follower.status \notin Rec!Terminal
        BY <1>2, <3>1, <3>3 DEF Served, Over, Rec!Terminal
      <4>2. Rec!Heads(Rec!EventsIn(raw'[Followed])) \subseteq Rec!Heads(Rec!EventsIn(raw[Followed])) \cup {message}
        BY <1>3, <1>10, <3>3 DEF Rec!Heads
      <4>3. follower.stage \in Reached => Told \cup {message} \subseteq Told'
        BY <2>2, <3>3 DEF Told
      <4> QED
        BY <1>2, <3>1, <4>1, <4>2, <4>3 DEF Served
    <3> QED
      BY <3>2, <3>3
  <2> QED
    BY <2>3, <2>4
<1> QED
  BY <1>10, <1>11 DEF RecInv

\* A record is aborted at startup, with an event that nobody is sent.
LEMMA AbortKeeps ==
  ASSUME RecInv, NEW r \in Runs, Rec!AbortActive(r)
  PROVE  RecInv'
<1> DEFINE event == Rec!EventEntry("aborted", seqs[r] + 1, {})
<1>1. PICK o1 \in Rec!Outcomes, o2 \in Rec!Outcomes :
        /\ Rec!Put(Rec!Appended(Rec!Appended(Rec!Store, r, Rec!RunEntry("aborted"), o1), r, event, o2))
        /\ live' = Rec!TakenLive(r, event)
  BY DEF Rec!AbortActive
<1>2. /\ stage = "aborting" /\ Rec!ToAbort(r)
      /\ runs' = [runs EXCEPT ![r] = "aborted"] /\ seqs' = [seqs EXCEPT ![r] = @ + 1]
      /\ UNCHANGED <<stage, life, kids, loaded, sending, follower, misread, overrun, revived>>
  BY DEF Rec!AbortActive, Rec!history
<1>3. RecTypeOK /\ IsDisk(Rec!Store) /\ Unsaid(r) /\ FollowerOK
  BY DEF RecInv
<1>4. event \in Events /\ event.seq = seqs[r] + 1 /\ event.child = {}
  <2>1. seqs[r] + 1 \in Nat
    BY <1>3 DEF RecTypeOK
  <2> QED
    BY <2>1 DEF Rec!EventEntry, Events, EventNames, Rec!Terminal
<1> DEFINE d == Rec!Appended(Rec!Store, r, Rec!RunEntry("aborted"), o1)
<1>5. /\ IsDisk(d) /\ OnlyOf(r, Rec!Store, d)
      /\ Rec!EventsIn(d.raw[r]) = Rec!EventsIn(raw[r]) /\ (Rising(raw[r]) => Rising(d.raw[r]))
      /\ r \notin d.unwritten => Rec!StatusIn(d.raw[r]) = "aborted"
  <2>1. Rec!Store.raw = raw /\ "aborted" \in Rec!Statuses
    BY DEF Rec!Store, Rec!Statuses, Rec!Terminal
  <2> QED
    BY <1>3, <2>1, RunRecorded
<1>6. Saved(Rec!Appended(d, r, event, o2))
  BY <1>1 DEF Saved, Rec!Put
<1> HIDE DEF d, event
<1>7. life[r] = "done"
  BY <1>2, <1>3 DEF RecTypeOK, Unsaid, Rec!ToAbort, Rec!Active
<1>8. /\ life' = [life EXCEPT ![r] = "done"] /\ kids' = [kids EXCEPT ![r] = @ \cup event.child]
      /\ seqs' = [seqs EXCEPT ![r] = event.seq] /\ "done" \in Rec!Lives \ {"new"} /\ loaded = {}
      /\ "aborted" \in Rec!Statuses
  BY <1>2, <1>3, <1>4, <1>7 DEF RecTypeOK, Rec!Lives, Rec!Statuses, Rec!Terminal
<1>9. /\ RecTypeOK' /\ IsDisk(Rec!Store)' /\ Sound' \subseteq Sound
      /\ \A q \in Runs : Counts(q)' /\ Mirrors(q)' /\ Tracks(q)' /\ Unsaid(q)'
  BY <1>1, <1>2, <1>4, <1>5, <1>6, <1>8, EventKeeps
<1>10. FollowerOK' /\ Served'
  <2>1. follower' = Rec!Idle /\ sending' = {} /\ follower = follower' /\ sending = sending'
    BY <1>2, <1>3 DEF FollowerOK
  <2> QED
    BY <1>2, <1>3, <2>1 DEF FollowerOK, Served, Reached, Rec!Idle, Rec!Terminal
<1> QED
  BY <1>9, <1>10 DEF RecInv

\* A step of the files and memory as a whole, under which no log changes.
LEMMA LogsStay ==
  ASSUME RecInv, raw' = raw, RecTypeOK', IsDisk(Rec!Store)',
         \A r \in Runs : /\ Counts(r)' /\ Mirrors(r)' /\ Tracks(r)' /\ Unsaid(r)',
         FollowerOK', Served'
  PROVE  RecInv'
BY DEF RecInv

\* A crash takes memory and what it was about to send.
LEMMA CrashKeeps == ASSUME RecInv, Rec!Crash PROVE RecInv'
<1>1. /\ stage' = "down" /\ life' = [r \in Runs |-> IF life[r] = "new" THEN "new" ELSE "done"]
      /\ runs' = [r \in Runs |-> "none"] /\ seqs' = [r \in Runs |-> 0]
      /\ kids' = [r \in Runs |-> {}] /\ live' = [r \in Runs |-> <<>>]
      /\ loaded' = {} /\ sending' = {} /\ follower' = Rec!Idle
      /\ UNCHANGED <<raw, index, newer, missed, unwritten, misread, overrun, revived>>
  BY DEF Rec!Crash, Rec!disk, Rec!history
<1>2. RecTypeOK /\ IsDisk(Rec!Store) /\ \A r \in Runs : Counts(r) /\ Unsaid(r)
  BY DEF RecInv
<1>3. RecTypeOK'
  <2>1. \A r \in Runs : live'[r] \in Seq(Events) /\ Len(live'[r]) <= LiveTail
    BY <1>1, TailAssumption
  <2> QED
    BY <1>1, <1>2, <2>1 DEF RecTypeOK, Rec!Lives, Rec!Statuses
<1>4. IsDisk(Rec!Store)'
  BY <1>1, <1>2 DEF IsDisk, Rec!Store
<1>5. ASSUME NEW r \in Runs PROVE Counts(r)' /\ Mirrors(r)' /\ Tracks(r)' /\ Unsaid(r)'
  <2>1. Counts(r)'
    BY <1>1, <1>2 DEF Counts, Followable, Rising
  <2>2. Mirrors(r)' /\ Tracks(r)'
    BY <1>1 DEF Mirrors, Tracks
  <2>3. Unsaid(r)'
    BY <1>1, <1>2 DEF Unsaid
  <2> QED
    BY <2>1, <2>2, <2>3
<1>6. FollowerOK' /\ Served'
  BY <1>1 DEF FollowerOK, Served, Reached, Rec!Idle, Rec!Terminal
<1> QED
  BY <1>1, <1>3, <1>4, <1>5, <1>6, LogsStay

\* A restart has in memory what it has read.
LEMMA OpenKeeps == ASSUME RecInv, Rec!Open PROVE RecInv'
<1>1. /\ stage = "down" /\ Rec!Reindex /\ stage' = "aborting" /\ revived' = {} /\ unwritten' = {}
      /\ runs' = Rec!Loaded.runs /\ seqs' = Rec!Loaded.seqs /\ kids' = Rec!Loaded.kids
      /\ live' = [r \in Runs |-> <<>>]
      /\ UNCHANGED <<life, raw, loaded, sending, follower, overrun>>
  BY DEF Rec!Open, Rec!Replace
<1>2. RecTypeOK /\ IsDisk(Rec!Store) /\ FollowerOK /\ \A r \in Runs : Counts(r) /\ Unsaid(r)
  BY DEF RecInv
<1>3. /\ IsDisk(Rec!Store)' /\ Rec!Loaded \in States
      /\ misread \subseteq misread' /\ misread' \subseteq misread \cup Runs
      /\ \A r \in Runs \ misread' :
           /\ Rec!Loaded.runs[r] = Rec!StatusIn(raw[r])
           /\ Rec!Loaded.kids[r] = Rec!KidsIn(Rec!Applied(raw[r]))
           /\ Covers(Rec!Loaded.seqs[r], raw[r])
      /\ \A r \in Runs : raw[r] = <<>> /\ index[r] = Rec!Nothing =>
           index'[r] = Rec!Nothing /\ Rec!Loaded.runs[r] = "none"
  BY <1>1, <1>2, LoadedIsLogs
<1>4. RecTypeOK'
  <2>1. \A r \in Runs : live'[r] \in Seq(Events) /\ Len(live'[r]) <= LiveTail
    BY <1>1, TailAssumption
  <2>2. /\ runs' \in [Runs -> Rec!Statuses] /\ seqs' \in [Runs -> Nat]
        /\ kids' \in [Runs -> SUBSET RunSessions]
    BY <1>1, <1>3 DEF States
  <2> QED
    BY <1>1, <1>2, <1>3, <2>1, <2>2 DEF RecTypeOK
<1>5. ASSUME NEW r \in Runs PROVE Counts(r)' /\ Mirrors(r)' /\ Tracks(r)' /\ Unsaid(r)'
  <2>1. Counts(r)'
    <3> SUFFICES ASSUME r \in Followable' PROVE Counts(r)'
      BY DEF Counts
    <3>1. r \in Followable /\ r \notin misread' /\ loaded' = {}
      BY <1>1, <1>2, <1>3 DEF Followable, RecTypeOK
    <3>2. Rising(raw[r])' /\ Covers(seqs[r], raw[r])'
      BY <1>1, <1>2, <1>3, <3>1 DEF Counts, Rising, Covers
    <3> QED
      BY <3>1, <3>2 DEF Counts
  <2>2. Mirrors(r)'
    <3>1. r \notin Rec!Clouded' => r \notin misread'
      BY DEF Rec!Clouded
    <3> QED
      BY <1>1, <1>3, <3>1 DEF Mirrors
  <2>3. Tracks(r)'
    BY <1>1 DEF Tracks
  <2>4. Unsaid(r)'
    BY <1>1, <1>2, <1>3 DEF Unsaid
  <2> QED
    BY <2>1, <2>2, <2>3, <2>4
<1>6. FollowerOK' /\ Served'
  BY <1>1, <1>2 DEF FollowerOK, Served, Reached, Rec!Idle, Rec!Terminal
<1> QED
  BY <1>1, <1>3, <1>4, <1>5, <1>6, LogsStay

\* Once nothing is left to abort, no record of a run that is over is active.
LEMMA ServeKeeps == ASSUME RecInv, Rec!Serve PROVE RecInv'
<1>1. /\ stage = "aborting" /\ (\A r \in Runs : ~Rec!ToAbort(r)) /\ stage' = "up"
      /\ UNCHANGED <<life, runs, seqs, kids, live, raw, index, newer, missed, unwritten, loaded, sending,
            follower, misread, overrun, revived>>
  BY DEF Rec!Serve, Rec!memory, Rec!disk, Rec!history
<1>2. /\ RecTypeOK /\ IsDisk(Rec!Store) /\ FollowerOK /\ Served
      /\ \A r \in Runs : Counts(r) /\ Mirrors(r) /\ Unsaid(r)
  BY DEF RecInv
<1>3. RecTypeOK'
  BY <1>1, <1>2 DEF RecTypeOK
<1>4. IsDisk(Rec!Store)'
  BY <1>1, <1>2 DEF IsDisk, Rec!Store
<1>5. ASSUME NEW r \in Runs PROVE Counts(r)' /\ Mirrors(r)' /\ Tracks(r)' /\ Unsaid(r)'
  <2>1. Counts(r)' /\ Mirrors(r)' /\ Unsaid(r)'
    <3>1. Counts(r)'
      BY <1>1, <1>2 DEF Counts, Followable, Rising, Covers
    <3>2. Mirrors(r)' /\ Unsaid(r)'
      BY <1>1, <1>2 DEF Mirrors, Rec!Clouded, Unsaid
    <3> QED
      BY <3>1, <3>2
  <2>2. life[r] \in {"new", "done"} /\ runs[r] \notin Rec!Active
    BY <1>1, <1>2 DEF RecTypeOK, Rec!ToAbort
  <2>3. Tracks(r)'
    BY <1>1, <2>2 DEF Tracks
  <2> QED
    BY <2>1, <2>3
<1>6. FollowerOK' /\ Served'
  <2>1. follower = Rec!Idle /\ sending = {}
    BY <1>1, <1>2 DEF FollowerOK
  <2> QED
    BY <1>1, <1>2, <2>1 DEF FollowerOK, Served, Reached, Rec!Idle, Rec!Terminal
<1> QED
  BY <1>1, <1>3, <1>4, <1>5, <1>6, LogsStay

\* What a rebuild has read is what the logs say.
LEMMA LoadKeeps == ASSUME RecInv, Rec!LoadForRebuild PROVE RecInv'
<1>1. /\ stage = "up" /\ loaded = {} /\ Rec!Reindex /\ loaded' = {Rec!Loaded}
      /\ UNCHANGED <<stage, life, runs, seqs, kids, live, raw, unwritten, sending, follower, overrun, revived>>
  BY DEF Rec!LoadForRebuild, Rec!memory
<1>2. /\ RecTypeOK /\ IsDisk(Rec!Store) /\ \A r \in Runs : Counts(r) /\ Mirrors(r) /\ Tracks(r) /\ Unsaid(r)
  BY DEF RecInv
<1>3. /\ IsDisk(Rec!Store)' /\ Rec!Loaded \in States
      /\ misread \subseteq misread' /\ misread' \subseteq misread \cup Runs
      /\ \A r \in Runs \ misread' :
           /\ Rec!Loaded.runs[r] = Rec!StatusIn(raw[r])
           /\ Rec!Loaded.kids[r] = Rec!KidsIn(Rec!Applied(raw[r]))
           /\ Covers(Rec!Loaded.seqs[r], raw[r])
      /\ \A r \in Runs : raw[r] = <<>> /\ index[r] = Rec!Nothing =>
           index'[r] = Rec!Nothing /\ Rec!Loaded.runs[r] = "none"
  <2>1. unwritten' \subseteq Runs
    BY <1>1, <1>2 DEF IsDisk, Rec!Store
  <2> QED
    BY <1>1, <1>2, <2>1, LoadedIsLogs
<1>4. RecTypeOK'
  BY <1>1, <1>2, <1>3 DEF RecTypeOK
<1>5. ASSUME NEW r \in Runs PROVE Counts(r)' /\ Mirrors(r)' /\ Tracks(r)' /\ Unsaid(r)'
  <2>1. Counts(r)'
    <3> SUFFICES ASSUME r \in Followable' PROVE Counts(r)'
      BY DEF Counts
    <3>1. r \in Followable /\ r \notin misread'
      BY <1>1, <1>3 DEF Followable
    <3>2. Rising(raw[r])' /\ Covers(seqs[r], raw[r])'
      BY <1>1, <1>2, <3>1 DEF Counts, Rising, Covers
    <3>3. \A state \in loaded' : Covers(state.seqs[r], raw'[r])
      BY <1>1, <1>3, <3>1
    <3>4. \A state \in loaded' : /\ state.runs[r] = Rec!StatusIn(raw'[r])
                                 /\ state.kids[r] = Rec!KidsIn(Rec!Applied(raw'[r]))
                                 /\ Covers(state.seqs[r], raw[r])'
      BY <1>1, <1>3, <3>1 DEF Covers
    <3> QED
      BY <3>2, <3>4 DEF Counts
  <2>2. Mirrors(r)' /\ Tracks(r)'
    BY <1>1, <1>2, <1>3 DEF Mirrors, Tracks, Sound, Rec!Clouded
  <2>3. Unsaid(r)'
    BY <1>1, <1>2, <1>3 DEF Unsaid
  <2> QED
    BY <2>1, <2>2, <2>3
<1>6. FollowerOK' /\ Served'
  <2>1. Sound' \subseteq Sound /\ (Over => Over')
    BY <1>1, <1>3 DEF Sound, Rec!Clouded, Over
  <2> QED
    BY <1>1, <2>1, StreamIsKept
<1> QED
  BY <1>1, <1>3, <1>4, <1>5, <1>6, LogsStay

\* What is put in place of memory is what the logs still say, of all that was not recorded since
\* it was read; what memory knew better is gone, and known to be.
LEMMA SwapKeeps == ASSUME RecInv, Rec!SwapForRebuild PROVE RecInv'
<1>1. PICK state \in loaded : Rec!Replace(state)
  BY DEF Rec!SwapForRebuild
<1>2. /\ stage = "up" /\ loaded' = {} /\ revived' = revived \cup unwritten /\ unwritten' = {}
      /\ runs' = state.runs /\ seqs' = state.seqs /\ kids' = state.kids
      /\ live' = [r \in Runs |-> <<>>]
      /\ UNCHANGED <<stage, life, raw, index, newer, missed, sending, follower, misread, overrun>>
  BY <1>1 DEF Rec!Replace, Rec!SwapForRebuild
<1>3. /\ RecTypeOK /\ IsDisk(Rec!Store) /\ \A r \in Runs : Counts(r) /\ Mirrors(r) /\ Tracks(r) /\ Unsaid(r)
      /\ state \in States /\ unwritten \subseteq Runs
  BY <1>1 DEF RecInv, RecTypeOK, IsDisk, Rec!Store
<1>4. RecTypeOK'
  <2>1. \A r \in Runs : live'[r] \in Seq(Events) /\ Len(live'[r]) <= LiveTail
    BY <1>2, TailAssumption
  <2>2. /\ runs' \in [Runs -> Rec!Statuses] /\ seqs' \in [Runs -> Nat]
        /\ kids' \in [Runs -> SUBSET RunSessions]
    BY <1>2, <1>3 DEF States
  <2> QED
    BY <1>2, <1>3, <2>1, <2>2 DEF RecTypeOK
<1>5. IsDisk(Rec!Store)'
  BY <1>2, <1>3 DEF IsDisk, Rec!Store
<1>6. Sound' \subseteq Sound
  BY <1>2 DEF Sound, Rec!Clouded
<1>7. ASSUME NEW r \in Runs PROVE Counts(r)' /\ Mirrors(r)' /\ Tracks(r)' /\ Unsaid(r)'
  <2>1. Counts(r)'
    BY <1>1, <1>2, <1>3 DEF Counts, Followable, Rising, Covers
  <2>2. Mirrors(r)'
    BY <1>1, <1>2, <1>3 DEF Mirrors, Counts, Followable, Rec!Clouded
  <2>3. Tracks(r)'
    <3> SUFFICES ASSUME r \in Sound' PROVE Tracks(r)'
      BY DEF Tracks
    <3>1. r \in Sound /\ r \notin Rec!Clouded /\ r \in Followable
      BY <1>6 DEF Sound, Followable, Rec!Clouded
    <3>2. runs'[r] = Rec!StatusIn(raw[r]) /\ runs[r] = Rec!StatusIn(raw[r])
      BY <1>1, <1>2, <1>3, <3>1 DEF Counts, Mirrors
    <3> QED
      BY <1>2, <1>3, <3>1, <3>2 DEF Tracks
  <2>4. Unsaid(r)'
    BY <1>1, <1>2, <1>3 DEF Unsaid
  <2> QED
    BY <2>1, <2>2, <2>3, <2>4
<1>8. FollowerOK' /\ Served'
  <2>1. Over => Over'
    BY <1>2 DEF Over
  <2> QED
    BY <1>2, <1>6, <2>1, StreamIsKept
<1> QED
  BY <1>2, <1>4, <1>5, <1>7, <1>8, LogsStay

\* A piece that is not stored takes a number and goes to the subscribers.
LEMMA TransientKeeps == ASSUME RecInv, NEW r \in Runs, Rec!PublishTransient(r) PROVE RecInv'
<1>1. PICK name \in Rec!Transient : sending' = Rec!Handed(r, name, Rec!NextSeq(r))
  BY DEF Rec!PublishTransient
<1>2. /\ stage = "up" /\ seqs' = [seqs EXCEPT ![r] = seqs[r] + 1]
      /\ UNCHANGED <<stage, life, runs, kids, live, raw, index, newer, missed, unwritten, loaded, follower,
            misread, overrun, revived>>
  BY DEF Rec!PublishTransient, Rec!NextSeq, Rec!disk, Rec!history
<1>3. /\ RecTypeOK /\ IsDisk(Rec!Store) /\ FollowerOK /\ Served
      /\ \A q \in Runs : Counts(q) /\ Mirrors(q) /\ Tracks(q) /\ Unsaid(q)
  BY DEF RecInv
<1>4. RecTypeOK' /\ seqs[r] \in Nat
  BY <1>2, <1>3 DEF RecTypeOK
<1>5. IsDisk(Rec!Store)'
  BY <1>2, <1>3 DEF IsDisk, Rec!Store
<1>6. ASSUME NEW q \in Runs PROVE Counts(q)' /\ Mirrors(q)' /\ Tracks(q)' /\ Unsaid(q)'
  <2>1. Covers(seqs[q], raw[q]) => Covers(seqs[q], raw[q])'
    <3>1. Rec!EventsIn(raw[q]) \subseteq Events
      BY <1>3 DEF IsDisk, IsLog, IsKnown, Rec!Applied, Rec!Store
    <3>2. seqs[q] \in Nat /\ seqs'[q] \in {seqs[q], seqs[q] + 1}
      BY <1>2, <1>3 DEF RecTypeOK
    <3>3. \A n \in Nat : n <= seqs[q] => n <= seqs'[q]
      BY <3>2
    <3> QED
      BY <1>2, <3>1, <3>3 DEF Covers, Events
  <2>2. Counts(q)'
    <3>1. Rising(raw[q]) => Rising(raw[q])'
      BY <1>2 DEF Rising
    <3>2. \A state \in loaded : Covers(state.seqs[q], raw[q]) <=> Covers(state.seqs[q], raw'[q])
      BY <1>2
    <3> QED
      BY <1>2, <1>3, <2>1, <3>1, <3>2 DEF Counts, Followable
  <2>3. Mirrors(q)' /\ Tracks(q)' /\ Unsaid(q)'
    BY <1>2, <1>3 DEF Mirrors, Tracks, Unsaid, Sound, Rec!Clouded
  <2> QED
    BY <2>2, <2>3
<1>7. FollowerOK' /\ Served'
  <2>1. sending \subseteq sending' /\ sending' \subseteq sending \cup {[name |-> name, seq |-> seqs[r] + 1]}
    BY <1>1 DEF Rec!Handed, Rec!NextSeq
  <2>2. [name |-> name, seq |-> seqs[r] + 1] \in Messages
    BY <1>4 DEF Messages
  <2>3. Told \subseteq Told' /\ Sound' = Sound /\ Over' = Over
    BY <1>2, <2>1 DEF Told, Sound, Rec!Clouded, Over
  <2>4. FollowerOK'
    BY <1>2, <1>3, <2>1, <2>2 DEF FollowerOK
  <2> QED
    BY <1>2, <1>3, <2>3, <2>4 DEF Served
<1> QED
  BY <1>2, <1>4, <1>5, <1>6, <1>7, LogsStay

-----------------------------------------------------------------------------
\* The client's steps change what it holds alone.
LEMMA ClientKeeps ==
  ASSUME RecInv, UNCHANGED <<stage, life, runs, seqs, kids, live, raw, index, newer, missed, unwritten,
                             loaded, misread, overrun, revived>>,
         FollowerOK', Served'
  PROVE  RecInv'
<1>1. /\ RecTypeOK /\ IsDisk(Rec!Store)
      /\ \A q \in Runs : Counts(q) /\ Mirrors(q) /\ Tracks(q) /\ Unsaid(q)
  BY DEF RecInv
<1>2. RecTypeOK'
  BY <1>1 DEF RecTypeOK
<1>3. IsDisk(Rec!Store)'
  BY <1>1 DEF IsDisk, Rec!Store
<1>4. ASSUME NEW q \in Runs PROVE Counts(q)' /\ Mirrors(q)' /\ Tracks(q)' /\ Unsaid(q)'
  BY <1>1 DEF Counts, Followable, Rising, Covers, Mirrors, Tracks, Unsaid, Sound, Rec!Clouded
<1> QED
  BY <1>2, <1>3, <1>4, LogsStay

\* What makes a client's stream one.
LEMMA FollowerIsOK ==
  ASSUME NEW st, NEW status, NEW output, NEW snap, NEW shown, NEW chan, NEW backlog, NEW got, NEW dropped,
         follower' = [stage |-> st, status |-> status, output |-> output, snap |-> snap, shown |-> shown,
                      chan |-> chan, backlog |-> backlog, got |-> got, dropped |-> dropped],
         chan \in Seq(Messages), sending' \subseteq Messages, stage' = "up",
         st = "following" => backlog = {}, st # "following" => got = {}
  PROVE  FollowerOK'
<1>1. /\ follower'.stage = st /\ follower'.status = status /\ follower'.output = output
      /\ follower'.snap = snap /\ follower'.shown = shown /\ follower'.chan = chan
      /\ follower'.backlog = backlog /\ follower'.got = got /\ follower'.dropped = dropped
  OBVIOUS
<1>2. follower' = [stage |-> follower'.stage, status |-> follower'.status, output |-> follower'.output,
        snap |-> follower'.snap, shown |-> follower'.shown, chan |-> follower'.chan,
        backlog |-> follower'.backlog, got |-> follower'.got, dropped |-> follower'.dropped]
  BY <1>1, Zenon
<1> QED
  BY <1>1, <1>2 DEF FollowerOK

\* A message that was handed on goes into the channel, or is dropped.
LEMMA SendKeeps == ASSUME RecInv, NEW e \in sending, Rec!Send(e) PROVE RecInv'
<1>1. /\ sending' = sending \ {e}
      /\ follower' = IF Len(follower.chan) < ChanCap
                     THEN [follower EXCEPT !.chan = Append(@, e)]
                     ELSE [follower EXCEPT !.dropped = TRUE]
      /\ UNCHANGED <<stage, life, runs, seqs, kids, live, raw, index, newer, missed, unwritten,
            loaded, misread, overrun, revived>>
  BY DEF Rec!Send, Rec!memory, Rec!disk, Rec!history
<1>2. FollowerOK /\ Served /\ e \in Messages
  BY DEF RecInv, FollowerOK
<1>3. stage = "up"
  BY <1>2 DEF FollowerOK
<1>4. Sound' = Sound /\ Over' = Over
  BY <1>1 DEF Sound, Rec!Clouded, Over
<1>5. CASE Len(follower.chan) < ChanCap
  <2>1. follower' = [follower EXCEPT !.chan = Append(follower.chan, e)]
    BY <1>1, <1>5
  <2>2. /\ Append(follower.chan, e) \in Seq(Messages)
        /\ Range(Append(follower.chan, e)) = Range(follower.chan) \cup {e}
    BY <1>2, AppendElements DEF FollowerOK
  <2>3. follower' = [stage |-> follower.stage, status |-> follower.status, output |-> follower.output,
                     snap |-> follower.snap, shown |-> follower.shown, chan |-> Append(follower.chan, e),
                     backlog |-> follower.backlog, got |-> follower.got, dropped |-> follower.dropped]
    BY <1>2, <2>1 DEF FollowerOK
  <2>4. FollowerOK'
    BY <1>1, <1>2, <1>3, <2>2, <2>3 DEF FollowerOK
  <2>5. Told \subseteq Told'
    BY <1>1, <2>2, <2>3 DEF Told
  <2>6. Served'
    BY <1>1, <1>2, <1>4, <2>3, <2>5 DEF Served
  <2> QED
    BY <1>1, <2>4, <2>6, ClientKeeps
<1>6. CASE ~(Len(follower.chan) < ChanCap)
  <2>1. follower' = [stage |-> follower.stage, status |-> follower.status, output |-> follower.output,
                     snap |-> follower.snap, shown |-> follower.shown, chan |-> follower.chan,
                     backlog |-> follower.backlog, got |-> follower.got, dropped |-> TRUE]
    BY <1>1, <1>2, <1>6 DEF FollowerOK
  <2>2. FollowerOK'
    <3>1. /\ follower.chan \in Seq(Messages) /\ sending' \subseteq Messages /\ stage' = "up"
          /\ follower.stage = "following" => follower.backlog = {}
          /\ follower.stage # "following" => follower.got = {}
      BY <1>1, <1>2, <1>3 DEF FollowerOK
    <3> QED
      BY <2>1, <3>1, FollowerIsOK
  <2>3. Served'
    BY <2>1 DEF Served
  <2> QED
    BY <1>1, <2>2, <2>3, ClientKeeps
<1> QED
  BY <1>5, <1>6

\* What is taken out of the channel is kept for later, passed on, or was shown already.
LEMMA PumpKeeps == ASSUME RecInv, Rec!Pump PROVE RecInv'
<1> DEFINE e == Head(follower.chan)
           rest == Tail(follower.chan)
<1>1. /\ follower.chan # <<>>
      /\ follower' = IF follower.stage = "following"
                     THEN [follower EXCEPT !.chan = rest, !.got = @ \cup ({e} \ follower.shown)]
                     ELSE [follower EXCEPT !.chan = rest, !.backlog = @ \cup {e}]
      /\ UNCHANGED <<stage, life, runs, seqs, kids, live, raw, index, newer, missed, unwritten,
            loaded, sending, misread, overrun, revived>>
  BY DEF Rec!Pump, Rec!memory, Rec!disk, Rec!history
<1>2. FollowerOK /\ Served
  BY DEF RecInv
<1>3. rest \in Seq(Messages) /\ Range(follower.chan) = {e} \cup Range(rest)
  BY <1>1, <1>2, HeadTailElements DEF FollowerOK
<1>4. stage = "up"
  BY <1>1, <1>2 DEF FollowerOK, Rec!Idle
<1>5. Sound' = Sound /\ Over' = Over
  BY <1>1 DEF Sound, Rec!Clouded, Over
<1> HIDE DEF e, rest
<1>6. CASE follower.stage = "following"
  <2>1. follower' = [stage |-> follower.stage, status |-> follower.status, output |-> follower.output,
                     snap |-> follower.snap, shown |-> follower.shown, chan |-> rest,
                     backlog |-> follower.backlog, got |-> follower.got \cup ({e} \ follower.shown),
                     dropped |-> follower.dropped]
    BY <1>1, <1>2, <1>6 DEF FollowerOK
  <2>2. FollowerOK'
    BY <1>1, <1>2, <1>3, <1>4, <2>1 DEF FollowerOK
  <2>3. follower.shown = follower.snap => Told \subseteq Told'
    BY <1>1, <1>3, <2>1 DEF Told
  <2>4. Served'
    BY <1>1, <1>2, <1>5, <1>6, <2>1, <2>3 DEF Served
  <2> QED
    BY <1>1, <2>2, <2>4, ClientKeeps
<1>7. CASE follower.stage # "following"
  <2>1. follower' = [stage |-> follower.stage, status |-> follower.status, output |-> follower.output,
                     snap |-> follower.snap, shown |-> follower.shown, chan |-> rest,
                     backlog |-> follower.backlog \cup {e}, got |-> follower.got,
                     dropped |-> follower.dropped]
    BY <1>1, <1>2, <1>7 DEF FollowerOK
  <2>2. FollowerOK'
    BY <1>1, <1>2, <1>3, <1>4, <1>7, <2>1 DEF FollowerOK
  <2>3. Told \subseteq Told'
    <3>1. /\ follower'.snap = follower.snap /\ follower'.got = follower.got /\ follower'.chan = rest
          /\ follower'.backlog = follower.backlog \cup {e}
      BY <2>1
    <3> QED
      BY <1>1, <1>3, <3>1 DEF Told
  <2>4. Served'
    BY <1>1, <1>2, <1>5, <1>7, <2>1, <2>3 DEF Served
  <2> QED
    BY <1>1, <2>2, <2>4, ClientKeeps
<1> QED
  BY <1>6, <1>7

\* Subscribing, reading the record, the file and memory, and letting the channel through.
LEMMA FollowKeeps ==
  ASSUME RecInv, Rec!Subscribe \/ Rec!ReadRecord \/ Rec!ReadStored \/ Rec!ReadLive \/ Rec!Release
  PROVE  RecInv'
<1>1. /\ stage = "up"
      /\ UNCHANGED <<stage, life, runs, seqs, kids, live, raw, index, newer, missed, unwritten,
            loaded, sending, misread, overrun, revived>>
  BY DEF Rec!Subscribe, Rec!ReadRecord, Rec!ReadStored, Rec!ReadLive, Rec!Release, Rec!Follow,
      Rec!memory, Rec!disk, Rec!history
<1>2. FollowerOK /\ Served
  BY DEF RecInv
<1>3. Sound' = Sound /\ Over' = Over
  BY <1>1 DEF Sound, Rec!Clouded, Over
<1>4. PICK st, status, output, snap, shown, chan, backlog, got, dropped :
        follower = [stage |-> st, status |-> status, output |-> output, snap |-> snap, shown |-> shown,
                    chan |-> chan, backlog |-> backlog, got |-> got, dropped |-> dropped]
  BY <1>2 DEF FollowerOK
<1>0. chan \in Seq(Messages) /\ sending' \subseteq Messages /\ (st # "following" => got = {})
  BY <1>1, <1>2, <1>4 DEF FollowerOK
<1>5. CASE Rec!Subscribe
  <2>1. st = "idle" /\ follower' = [follower EXCEPT !.stage = "subscribed"]
    BY <1>4, <1>5 DEF Rec!Subscribe, Rec!Follow
  <2>2. follower' = [stage |-> "subscribed", status |-> status, output |-> output, snap |-> snap,
                     shown |-> shown, chan |-> chan, backlog |-> backlog, got |-> got, dropped |-> dropped]
    BY <1>4, <2>1
  <2>3. FollowerOK'
    <3>1. chan \in Seq(Messages) /\ sending' \subseteq Messages /\ stage' = "up" /\ got = {}
      BY <1>0, <1>1, <2>1
    <3> QED
      BY <2>2, <3>1, FollowerIsOK
  <2>4. Served'
    BY <1>2, <1>3, <1>4, <2>1, <2>2 DEF Served, Reached
  <2> QED
    BY <1>1, <2>3, <2>4, ClientKeeps
<1>6. CASE Rec!ReadRecord
  <2>1. /\ st = "subscribed"
        /\ follower' = [follower EXCEPT !.stage = "record", !.status = runs[Followed],
                          !.output = life[Followed] = "done" /\ runs[Followed] = "completed"]
    BY <1>4, <1>6 DEF Rec!ReadRecord, Rec!Follow
  <2>2. PICK o : follower' = [stage |-> "record", status |-> runs[Followed], output |-> o, snap |-> snap,
                     shown |-> shown, chan |-> chan, backlog |-> backlog, got |-> got, dropped |-> dropped]
    BY <1>4, <2>1
  <2>3. Followed \in Sound /\ runs[Followed] \in Rec!Terminal => Over
    <3>1. Tracks(Followed) /\ Unsaid(Followed) /\ life[Followed] \in Rec!Lives
      BY FollowedAssumption DEF RecInv, RecTypeOK
    <3> QED
      BY <1>1, <3>1 DEF Tracks, Unsaid, Over, Rec!Lives, Rec!Terminal
  <2>4. FollowerOK'
    <3>1. chan \in Seq(Messages) /\ sending' \subseteq Messages /\ stage' = "up" /\ got = {}
      BY <1>0, <1>1, <2>1
    <3> QED
      BY <2>2, <3>1, FollowerIsOK
  <2>5. Served'
    BY <1>3, <2>2, <2>3 DEF Served, Reached
  <2> QED
    BY <1>1, <2>4, <2>5, ClientKeeps
<1>7. CASE Rec!ReadStored
  <2>1. /\ st = "record"
        /\ follower' = [follower EXCEPT !.stage = "stored", !.snap = Rec!Heads(Rec!EventsIn(raw[Followed]))]
    BY <1>4, <1>7 DEF Rec!ReadStored, Rec!Follow
  <2>2. follower' = [stage |-> "stored", status |-> status, output |-> output,
                     snap |-> Rec!Heads(Rec!EventsIn(raw[Followed])),
                     shown |-> shown, chan |-> chan, backlog |-> backlog, got |-> got, dropped |-> dropped]
    BY <1>4, <2>1
  <2>3. FollowerOK'
    <3>1. chan \in Seq(Messages) /\ sending' \subseteq Messages /\ stage' = "up" /\ got = {}
      BY <1>0, <1>1, <2>1
    <3> QED
      BY <2>2, <3>1, FollowerIsOK
  <2>4. Served'
    BY <1>1, <1>2, <1>3, <1>4, <2>2 DEF Served, Told
  <2> QED
    BY <1>1, <2>3, <2>4, ClientKeeps
<1>8. CASE Rec!ReadLive
  <2>1. /\ st = "stored"
        /\ follower' = [follower EXCEPT !.stage = "live", !.snap = @ \cup Rec!Heads(Rec!ToSet(live[Followed]))]
    BY <1>4, <1>8 DEF Rec!ReadLive, Rec!Follow
  <2>2. PICK more : /\ snap \subseteq more
                    /\ follower' = [stage |-> "live", status |-> status, output |-> output, snap |-> more,
                         shown |-> shown, chan |-> chan, backlog |-> backlog, got |-> got, dropped |-> dropped]
    BY <1>4, <2>1
  <2>3. FollowerOK'
    <3>1. chan \in Seq(Messages) /\ sending' \subseteq Messages /\ stage' = "up" /\ got = {}
      BY <1>0, <1>1, <2>1
    <3> QED
      BY <2>2, <3>1, FollowerIsOK
  <2>4. Told \subseteq Told'
    BY <1>1, <1>4, <2>2 DEF Told
  <2>5. Served'
    BY <1>1, <1>2, <1>3, <1>4, <2>1, <2>2, <2>4 DEF Served, Reached
  <2> QED
    BY <1>1, <2>3, <2>5, ClientKeeps
<1>9. CASE Rec!Release
  <2>1. /\ st = "live"
        /\ follower' = [follower EXCEPT !.stage = "following", !.shown = Rec!Replayed(follower),
                          !.got = follower.backlog \ Rec!Replayed(follower), !.backlog = {}]
    BY <1>4, <1>9 DEF Rec!Release, Rec!Follow
  <2>2. follower' = [stage |-> "following", status |-> status, output |-> output, snap |-> snap,
                     shown |-> Rec!Replayed(follower), chan |-> chan, backlog |-> {},
                     got |-> backlog \ Rec!Replayed(follower), dropped |-> dropped]
    BY <1>4, <2>1
  <2>3. FollowerOK'
    <3>1. chan \in Seq(Messages) /\ sending' \subseteq Messages /\ stage' = "up"
      BY <1>0, <1>1
    <3> QED
      BY <2>2, <3>1, FollowerIsOK
  <2>4. status \notin Rec!Terminal => Rec!Replayed(follower) = snap
    BY <1>4 DEF Rec!Replayed
  <2>5. got = {}
    BY <1>2, <1>4, <2>1 DEF FollowerOK
  <2>6. status \notin Rec!Terminal => Told \subseteq Told'
    BY <1>1, <1>4, <2>2, <2>4, <2>5 DEF Told
  <2>7. Served'
    BY <1>1, <1>2, <1>3, <1>4, <2>1, <2>2, <2>4, <2>6 DEF Served, Reached
  <2> QED
    BY <1>1, <2>3, <2>7, ClientKeeps
<1> QED
  BY <1>5, <1>6, <1>7, <1>8, <1>9

-----------------------------------------------------------------------------
\* The names and children of events that runs record.
LEMMA PayloadsLink ==
  /\ Rec!ChildOf(Rec!NoChild) = {}
  /\ \A payload \in Payloads : Rec!ChildOf(payload) \subseteq RunSessions
<1>1. Rec!ChildOf(Rec!NoChild) = {}
  BY DEF Rec!ChildOf, Rec!NoChild
<1>2. ASSUME NEW payload \in Payloads PROVE Rec!ChildOf(payload) \subseteq RunSessions
  <2>1. payload.session_id \in RunSessions \cup {"none"} /\ payload.child \in RunSessions \cup {"none"}
    BY PayloadsAssumption
  <2> QED
    BY <2>1 DEF Rec!ChildOf
<1> QED
  BY <1>1, <1>2

\* Every step of the recorder keeps its invariant.
LEMMA RecStep ==
  ASSUME RecInv, [Rec!Next]_recorderVars
  PROVE  RecInv'
<1>1. ASSUME NEW r \in Runs, Rec!StartRun(r) PROVE RecInv'
  <2>1. "queued" \in Rec!Statuses /\ "queued" \in Rec!Lives \ {"new"} /\ life[r] = "new"
    BY <1>1 DEF Rec!StartRun, Rec!Statuses, Rec!Active, Rec!Lives
  <2> QED
    BY <1>1, <2>1, RecordKeeps DEF Rec!StartRun, Rec!Terminal
<1>2. ASSUME NEW r \in Runs, Rec!BeginRun(r) PROVE RecInv'
  <2>1. "running" \in Rec!Statuses /\ "running" \in Rec!Lives \ {"new"} /\ life[r] = "queued"
    BY <1>2 DEF Rec!BeginRun, Rec!Statuses, Rec!Active, Rec!Lives
  <2> QED
    BY <1>2, <2>1, RecordKeeps DEF Rec!BeginRun, Rec!Terminal
<1>3. ASSUME NEW r \in Runs, Rec!FinishRun(r) PROVE RecInv'
  <2>1. /\ stage = "up" /\ life[r] \in {"running"} \cup Rec!Terminal /\ life' = [life EXCEPT ![r] = "done"]
        /\ UNCHANGED <<stage, seqs, kids, live, loaded, sending, follower, misread, revived>>
        /\ "done" \in Rec!Lives \ {"new"}
    BY <1>3 DEF Rec!FinishRun, Rec!Lives, Rec!Terminal
  <2>2. CASE runs[r] # "none"
    <3> DEFINE status == IF life[r] = "running" THEN "completed" ELSE life[r]
    <3>1. status \in Rec!Statuses /\ status \notin Rec!Active
      BY <2>1 DEF Rec!Statuses, Rec!Terminal, Rec!Active
    <3>2. Rec!Record(r, status)
      BY <1>3, <2>2 DEF Rec!FinishRun
    <3> HIDE DEF status
    <3> QED
      BY <2>1, <3>1, <3>2, RecordKeeps
  <2>3. CASE runs[r] = "none"
    <3>1. UNCHANGED <<runs, raw, index, newer, missed, unwritten, overrun>>
      BY <1>3, <2>3 DEF Rec!FinishRun, Rec!disk
    <3>2. /\ RecTypeOK /\ IsDisk(Rec!Store)
          /\ \A q \in Runs : Counts(q) /\ Mirrors(q) /\ Tracks(q) /\ Unsaid(q)
      BY DEF RecInv
    <3>3. \A q \in Runs : life'[q] = IF q = r THEN "done" ELSE life[q]
      BY <2>1, <3>2 DEF RecTypeOK
    <3>4. RecTypeOK'
      BY <2>1, <3>1, <3>2 DEF RecTypeOK
    <3>5. IsDisk(Rec!Store)'
      BY <3>1, <3>2 DEF IsDisk, Rec!Store
    <3>6. ASSUME NEW q \in Runs PROVE Counts(q)' /\ Mirrors(q)' /\ Tracks(q)' /\ Unsaid(q)'
      <4>1. Counts(q)' /\ Mirrors(q)'
        BY <2>1, <3>1, <3>2 DEF Counts, Followable, Rising, Covers, Mirrors, Rec!Clouded
      <4>2. Tracks(q)' /\ Unsaid(q)'
        BY <2>1, <2>3, <3>1, <3>2, <3>3 DEF Tracks, Unsaid, Sound, Rec!Clouded, Rec!Active
      <4> QED
        BY <4>1, <4>2
    <3>7. FollowerOK' /\ Served'
      <4>1. Sound' \subseteq Sound /\ (Over => Over')
        BY <2>1, <3>1, <3>3, FollowedAssumption DEF Sound, Rec!Clouded, Over
      <4> QED
        BY <2>1, <3>1, <4>1, StreamIsKept
    <3> QED
      BY <3>1, <3>4, <3>5, <3>6, <3>7, LogsStay
  <2> QED
    BY <2>2, <2>3
<1>4. ASSUME NEW r \in Runs, Rec!Log(r) PROVE RecInv'
  <2>1. /\ stage = "up" /\ life[r] = "running" /\ life' = life
        /\ UNCHANGED <<stage, loaded, follower, misread, revived>>
    BY <1>4 DEF Rec!Log
  <2>2. \A name \in {"started", "note", "child"} : name \in EventNames /\ name \notin Rec!Terminal
    BY DEF EventNames, Rec!Terminal
  <2>3. ASSUME NEW name \in {"started", "note", "child"}, NEW payload,
               Rec!ChildOf(payload) \subseteq RunSessions, Rec!AppendEvent(r, name, payload)
        PROVE  RecInv'
    BY <2>1, <2>2, <2>3, AppendEventKeeps
  <2> QED
    BY <1>4, <2>3, PayloadsLink DEF Rec!Log
<1>5. ASSUME NEW r \in Runs, Rec!LogEnd(r) PROVE RecInv'
  <2>1. PICK name \in Rec!Stored \cap Rec!Terminal :
          Rec!AppendEvent(r, name, Rec!NoChild) /\ life' = [life EXCEPT ![r] = name]
    BY <1>5 DEF Rec!LogEnd
  <2>2. /\ stage = "up" /\ life[r] = "running" /\ UNCHANGED <<stage, loaded, follower, misread, revived>>
        /\ name \in EventNames /\ name \in Rec!Terminal
    BY <1>5 DEF Rec!LogEnd, EventNames
  <2>3. Rec!ChildOf(Rec!NoChild) \subseteq RunSessions
    BY PayloadsLink
  <2> QED
    BY <2>1, <2>2, <2>3, AppendEventKeeps
<1>6. CASE UNCHANGED recorderVars
  <2>1. UNCHANGED <<stage, life, runs, seqs, kids, live, raw, index, newer, missed, unwritten,
                    loaded, sending, follower, misread, overrun, revived>>
    BY <1>6 DEF recorderVars
  <2>2. Sound' \subseteq Sound /\ (Over => Over')
    BY <2>1 DEF Sound, Rec!Clouded, Over
  <2>3. FollowerOK' /\ Served'
    BY <2>1, <2>2, StreamIsKept
  <2> QED
    BY <2>1, <2>3, ClientKeeps
<1>7. ASSUME NEW r \in Runs, Rec!PublishTransient(r) \/ Rec!AbortActive(r) PROVE RecInv'
  BY <1>7, TransientKeeps, AbortKeeps
<1>8. CASE \/ Rec!Crash \/ Rec!Open \/ Rec!Serve \/ Rec!LoadForRebuild \/ Rec!SwapForRebuild
  BY <1>8, CrashKeeps, OpenKeeps, ServeKeeps, LoadKeeps, SwapKeeps
<1>9. CASE Rec!Client \/ Rec!Deliver
  BY <1>9, FollowKeeps, PumpKeeps, SendKeeps DEF Rec!Client, Rec!Deliver
<1> QED
  BY <1>1, <1>2, <1>3, <1>4, <1>5, <1>6, <1>7, <1>8, <1>9
     DEF Rec!Next, Rec!Life, Rec!Restart, Rec!Rebuild

\* The recorder starts in its invariant.
LEMMA RecInit == Rec!Init => RecInv
<1> SUFFICES ASSUME Rec!Init PROVE RecInv
  OBVIOUS
<1>1. /\ stage = "up" /\ life = [r \in Runs |-> "new"]
      /\ runs = [r \in Runs |-> "none"] /\ seqs = [r \in Runs |-> 0]
      /\ kids = [r \in Runs |-> {}] /\ live = [r \in Runs |-> <<>>]
      /\ raw = [r \in Runs |-> <<>>] /\ index = [r \in Runs |-> Rec!Nothing]
      /\ newer = {} /\ missed = {} /\ unwritten = {} /\ misread = {} /\ overrun = {} /\ revived = {}
      /\ loaded = {} /\ sending = {} /\ follower = Rec!Idle
  BY DEF Rec!Init
<1>2. RecTypeOK
  <2>1. \A r \in Runs : live[r] \in Seq(Events) /\ Len(live[r]) <= LiveTail
    <3>1. live = [r \in Runs |-> <<>>]
      BY <1>1
    <3>2. <<>> \in Seq(Events) /\ Len(<<>>) = 0 /\ 0 <= LiveTail
      BY TailAssumption
    <3> QED
      BY <3>1, <3>2
  <2> QED
    BY <1>1, <2>1 DEF RecTypeOK, Rec!Lives, Rec!Statuses
<1>3. IsDisk(Rec!Store)
  BY <1>1, EmptyLog DEF IsDisk, Rec!Store
<1>4. ASSUME NEW r \in Runs PROVE Counts(r) /\ Mirrors(r) /\ Tracks(r) /\ Unsaid(r)
  <2>1. Rec!EventsIn(<<>>) = {} /\ Rec!StatusIn(<<>>) = "none" /\ Rising(<<>>)
    BY EmptyLog DEF Rec!Applied, Rec!Nothing
  <2>2. Counts(r)
    BY <1>1, <2>1 DEF Counts, Covers
  <2>3. Mirrors(r)
    BY <1>1, <2>1 DEF Mirrors, Rec!KidsIn, Rec!Applied
  <2>4. Tracks(r) /\ Unsaid(r)
    BY <1>1 DEF Tracks, Unsaid, Rec!Active
  <2> QED
    BY <2>2, <2>3, <2>4
<1>5. FollowerOK /\ Served
  <2>1. follower.chan \in Seq(Messages)
    BY <1>1 DEF Rec!Idle
  <2> QED
    BY <1>1, <2>1 DEF FollowerOK, Served, Reached, Rec!Idle, Rec!Terminal
<1> QED
  BY <1>2, <1>3, <1>4, <1>5 DEF RecInv

\* What the recorder promises follows.
LEMMA RecordsHold ==
  ASSUME RecInv
  PROVE  Rec!TypeOK /\ Rec!MemoryIsReplay /\ Rec!SequencesRise /\ Rec!NothingLeftRunning /\ Rec!FollowerSeesAll
<1>1. /\ RecTypeOK /\ IsDisk(Rec!Store) /\ FollowerOK /\ Served
      /\ \A r \in Runs : Counts(r) /\ Mirrors(r) /\ Tracks(r)
  BY DEF RecInv
<1>2. Rec!TypeOK
  BY <1>1 DEF Rec!TypeOK, RecTypeOK, IsDisk, Rec!Store
<1>3. Rec!MemoryIsReplay
  <2> SUFFICES ASSUME stage # "down", NEW r \in Runs \ Rec!Clouded
               PROVE  /\ runs[r] = Rec!Applied(raw[r]).status /\ kids[r] = Rec!KidsIn(Rec!Applied(raw[r]))
                      /\ seqs[r] >= Rec!SeqIn(Rec!Applied(raw[r]))
    BY DEF Rec!MemoryIsReplay
  <2>1. runs[r] = Rec!StatusIn(raw[r]) /\ kids[r] = Rec!KidsIn(Rec!Applied(raw[r]))
    BY <1>1 DEF Mirrors
  <2>2. Covers(seqs[r], raw[r]) /\ seqs[r] \in Nat
    BY <1>1 DEF Counts, Followable, Rec!Clouded, RecTypeOK
  <2>3. IsKnown(Rec!Applied(raw[r]))
    BY <1>1 DEF IsDisk, IsLog, Rec!Store
  <2>4. Rec!SeqIn(Rec!Applied(raw[r])) <= seqs[r] /\ Rec!SeqIn(Rec!Applied(raw[r])) \in Nat
    <3>1. \A e \in Rec!Applied(raw[r]).events : e.seq <= seqs[r]
      BY <2>2 DEF Covers, Rec!Applied
    <3> QED
      BY <2>2, <2>3, <3>1, LastNumber
  <2> QED
    BY <2>1, <2>2, <2>4 DEF Rec!Applied
<1>4. Rec!SequencesRise
  BY <1>1 DEF Rec!SequencesRise, Counts, Followable, Rising
<1>5. Rec!NothingLeftRunning
  BY <1>1 DEF Rec!NothingLeftRunning, Mirrors, Tracks, Sound
<1>6. Rec!FollowerSeesAll
  <2> SUFFICES ASSUME Rec!Caught, ~follower.dropped, Followed \notin Rec!Clouded \cup revived
               PROVE  Rec!Heads(Rec!EventsIn(raw[Followed])) \subseteq follower.snap \cup follower.got
    BY DEF Rec!FollowerSeesAll
  <2>1. Followed \in Sound /\ follower.stage = "following" /\ sending = {} /\ follower.backlog = {}
    BY <1>1, FollowedAssumption DEF Sound, Rec!Caught, FollowerOK
  <2>2. Range(follower.chan) = {}
    BY EmptyElements DEF Rec!Caught
  <2> QED
    BY <1>1, <2>1, <2>2 DEF Served, Told, Reached
<1> QED
  BY <1>2, <1>3, <1>4, <1>5, <1>6

\* Whatever crashes, failing appends and rebuilds come between: memory holds what a replay of the
\* logs gives, whose events are numbered upwards; once a restarted process serves, no run of the
\* last one is called running; and a client that has caught up was given every stored event of
\* its run (RecordsAreTrue), for any runs, sessions, payloads, capacities and bounds.
THEOREM RecordsStayTrue == Spec => []RecordsAreTrue
<1> DEFINE Inv == subject = "recorder" => RecInv
<1>1. Init => Inv
  BY RecInit DEF Init
<1>2. Inv /\ [Next]_vars => Inv'
  <2>1. ASSUME subject' = "recorder", [Next]_vars
        PROVE  subject = "recorder" /\ [Rec!Next]_recorderVars
    BY <2>1 DEF Next, vars, OfRecorder, OfStore, OfTranscript, OfMemory, OfTask
  <2> QED
    BY <2>1, RecStep
<1>3. Inv => RecordsAreTrue
  BY RecordsHold DEF RecordsAreTrue
<1> QED
  BY <1>1, <1>2, <1>3, PTL DEF Spec
=============================================================================
