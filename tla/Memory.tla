------------------------------- MODULE Memory -------------------------------
(***************************************************************************)
(* The memory of a project (internal/runtime/memory): Markdown files, each *)
(* manager's copy of them, at most a refresh interval old or as old as its *)
(* last write, the recalls that searching counts in the files, and the     *)
(* promotion of what is recalled often.  Two processes may have the        *)
(* project open, and people edit the files.                                *)
(***************************************************************************)
EXTENDS Naturals

CONSTANTS
  Managers,    \* one per process
  Ids,         \* the logical IDs of entries
  Texts,       \* what may be remembered
  Owner,       \* text -> the session it is of, or "all" (the entry's Scope and Session)
  Sessions,    \* the sessions that ask
  Threshold,   \* "Promote After Recall Count"
  MaxRecalls,  \* bound on the recalls of a text
  MaxWrites    \* bound on the files written by saves and by hand

VARIABLES
  disk,     \* the files: <<layer, id>> -> an entry or Nothing
  entries,  \* Manager.entries, of each manager
  saving,   \* the saves that have written their file and not yet taken the lock
  late,     \* has the time passed at which entries expire
  recalled, \* how often each text has been recalled
  shown,    \* <<text, session>>: what has been returned to whom
  writes    \* how often files have been written by saves and by hand

vars == <<disk, entries, saving, late, recalled, shown, writes>>

Layers  == {"episodic", "long-term"}
Paths   == Layers \X Ids
Nothing == [text |-> "nothing"]

\* A plain document has no lifecycle; a managed one may be of the episodic, and expire.
Documents ==
  {doc \in {[text |-> t, session |-> Owner[t], lifecycle |-> kind, expires |-> due, recalls |-> 0,
             promoted |-> FALSE, earned |-> FALSE] :
               t \in Texts, kind \in {"none", "episodic"}, due \in BOOLEAN} :
     doc.expires => doc.lifecycle = "episodic"}

Present(files) == {p \in Paths : files[p] # Nothing}

Init ==
  /\ disk = [p \in Paths |-> Nothing] /\ entries = [m \in Managers |-> disk]
  /\ saving = {} /\ late = FALSE /\ recalled = [t \in Texts |-> 0] /\ shown = {} /\ writes = 0

-----------------------------------------------------------------------------
(* Recall and promotion.                                                                         *)

\* Faulty variant: a document that has been promoted needs no more recalls.
PromotionTargetMarked(p, doc) ==
  p[1] = "episodic" /\ doc.lifecycle = "episodic" /\ (doc.recalls >= Threshold \/ recalled[doc.text] > 0)

\* promotionTarget: an episodic document of the episodic layer, recalled often enough.
PromotionTarget(p, doc) == p[1] = "episodic" /\ doc.lifecycle = "episodic" /\ doc.recalls >= Threshold

\* The document a promotion writes: it keeps the metadata but for the expiry and the threshold.
Promoted(doc) == [doc EXCEPT !.lifecycle = "long-term", !.expires = FALSE, !.earned = TRUE]

Target(p) == <<"long-term", p[2]>>
Source(q) == <<"episodic", q[2]>>

\* promoteOnRecallLocked: those of the documents that are raised, unless the manager knows a
\* long-term entry of that ID, or the file cannot be written.
Raised(known, docs, failing) ==
  {p \in DOMAIN docs : PromotionTarget(p, docs[p]) /\ known[Target(p)] = Nothing /\ Target(p) \notin failing}

\* What is written: the documents, some of them marked as promoted, and the copies of those
\* raised.  Nothing is known where a copy goes, so that their order is no matter.
Written(docs, raised, marked, failing) ==
  [q \in (DOMAIN docs \ failing) \cup {Target(p) : p \in raised} |->
     IF q \in DOMAIN docs THEN [docs[q] EXCEPT !.promoted = @ \/ q \in marked]
     ELSE Promoted(docs[Source(q)])]

\* The files, and what the manager knew, become those with what was written.
With(files, written) == [p \in Paths |-> IF p \in DOMAIN written THEN written[p] ELSE files[p]]
Writes(m, known, written) ==
  disk' = With(disk, written) /\ entries' = [entries EXCEPT ![m] = With(known, written)]

\* recordRecallLocked, of what was found: what the manager knows of it is written back, with
\* one recall more, unless its file cannot be written.
RecordRecall(m, known, found, failing) ==
  LET managed == {p \in found : known[p].lifecycle # "none"}
      docs    == [p \in managed |-> [known[p] EXCEPT !.recalls = @ + 1]]
      raised  == Raised(known, docs, failing)
  IN /\ Writes(m, known, Written(docs, raised, raised, failing))
     /\ recalled' = [t \in Texts |->
          IF \E p \in managed : known[p].text = t THEN recalled[t] + 1 ELSE recalled[t]]

-----------------------------------------------------------------------------
(* The operations.  Reading ones first rescan the files when the interval is over.               *)

\* refreshMaybe: what the manager knows when it reads.
Refreshed(m) == {entries[m], disk}

\* SearchScope.allows: a session's entry is for that session only.
Allows(session, doc) == doc.session \in {"all", session}

CanRecall(known, found) == \A p \in found : recalled[known[p].text] < MaxRecalls

\* searchMatchesLocked: of what matches and may be shown, what says the same once.
Distinct(known, found) == \A p, q \in found : known[p].text = known[q].text => p = q

\* SearchExplainedScoped: the matches are returned as they were, and then recalled.
Search(m) ==
  \E known \in Refreshed(m), session \in Sessions :
  \E found \in SUBSET {p \in Present(known) : Allows(session, known[p])} :
    /\ found # {} /\ Distinct(known, found) /\ CanRecall(known, found)
    /\ \E failing \in {{}} \cup {{p} : p \in Paths} : RecordRecall(m, known, found, failing)
    /\ shown' = shown \cup {<<known[p].text, session>> : p \in found}
    /\ UNCHANGED <<saving, late, writes>>

\* resolveIDLocked: an ID without its layer is looked for in the long-term layer first.
Resolved(known, id) ==
  IF known[<<"long-term", id>>] # Nothing THEN <<"long-term", id>> ELSE <<"episodic", id>>

\* GetScoped: only the first entry of that ID is considered.
GetScoped(m) ==
  \E known \in Refreshed(m), session \in Sessions, id \in Ids :
    LET p == Resolved(known, id) IN
    /\ known[p] # Nothing /\ Allows(session, known[p]) /\ CanRecall(known, {p})
    /\ RecordRecall(m, known, {p}, {})
    /\ shown' = shown \cup {<<known[p].text, session>>}
    /\ UNCHANGED <<saving, late, writes>>

\* SaveToLayer writes the file before it takes the lock.
SaveWrites(m) ==
  \E p \in Paths, doc \in Documents :
    /\ \A s \in saving : s.manager # m
    /\ writes < MaxWrites /\ writes' = writes + 1
    /\ disk' = [disk EXCEPT ![p] = doc] /\ saving' = saving \cup {[manager |-> m, path |-> p, doc |-> doc]}
    /\ UNCHANGED <<entries, late, recalled, shown>>

SavePublishes(m) ==
  \E s \in saving :
    /\ s.manager = m
    /\ entries' = [entries EXCEPT ![m] = [@ EXCEPT ![s.path] = s.doc]] /\ saving' = saving \ {s}
    /\ UNCHANGED <<disk, late, recalled, shown, writes>>

Delete(m) ==
  \E known \in Refreshed(m), id \in Ids :
    LET p == Resolved(known, id) IN
    /\ known[p] # Nothing
    /\ disk' = [disk EXCEPT ![p] = Nothing] /\ entries' = [entries EXCEPT ![m] = [known EXCEPT ![p] = Nothing]]
    /\ UNCHANGED <<saving, late, recalled, shown, writes>>

\* CleanupExpired rescans the files first, CleanupExpiredMaybe, at the end of a session, does not.
Cleanup(m) ==
  \E known \in Refreshed(m) :
    LET expired == {p \in Present(known) : known[p].expires /\ late} IN
    /\ expired # {}
    /\ disk' = [p \in Paths |-> IF p \in expired THEN Nothing ELSE disk[p]]
    /\ entries' = [entries EXCEPT ![m] = [p \in Paths |-> IF p \in expired THEN Nothing ELSE known[p]]]
    /\ UNCHANGED <<saving, late, recalled, shown, writes>>

\* Load, Sync and Reindex.
Reload(m) == entries' = [entries EXCEPT ![m] = disk] /\ UNCHANGED <<disk, saving, late, recalled, shown, writes>>

\* PromoteEligible: every source is marked, whether its target is new or not.
PromoteEligible(m) ==
  LET due  == {p \in Present(disk) : PromotionTarget(p, disk[p])}
      docs == [p \in due |-> disk[p]]
  IN /\ Writes(m, disk, Written(docs, Raised(disk, docs, {}), due, {}))
     /\ UNCHANGED <<saving, late, recalled, shown, writes>>

\* Somebody edits or removes a file.
Edit ==
  \E p \in Paths, doc \in Documents \cup {Nothing} :
    /\ writes < MaxWrites /\ writes' = writes + 1
    /\ disk' = [disk EXCEPT ![p] = doc]
    /\ UNCHANGED <<entries, saving, late, recalled, shown>>

Expire == late' = TRUE /\ UNCHANGED <<disk, entries, saving, recalled, shown, writes>>

Next ==
  \/ \E m \in Managers : \/ Search(m) \/ GetScoped(m) \/ SaveWrites(m) \/ SavePublishes(m) \/ Delete(m)
                         \/ Cleanup(m) \/ Reload(m) \/ PromoteEligible(m)
  \/ Edit \/ Expire

Spec == Init /\ [][Next]_vars

-----------------------------------------------------------------------------
(* Properties. *)

Copies == {disk[p] : p \in Present(disk)} \cup UNION {{entries[m][p] : p \in Present(entries[m])} : m \in Managers}

\* What a session remembers for itself is shown to no other, however it is copied between
\* layers, managers and files.
ScopeIsKept == \A s \in shown : Owner[s[1]] \in {"all", s[2]}

\* However old the copies that are written back: no recall counts twice, so that what is
\* promoted has been recalled as often as its threshold says.
PromotionIsEarned ==
  \A doc \in Copies : doc.recalls <= recalled[doc.text] /\ (doc.earned => doc.recalls >= Threshold)

MemoryIsTrue == ScopeIsKept /\ PromotionIsEarned
=============================================================================
