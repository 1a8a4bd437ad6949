--------------------------- MODULE SessionHistory ---------------------------
(***************************************************************************)
(* What is computed from the history of a session, a sequence of entries:  *)
(* the calls without a result, the blocks a history is cut at, its latest  *)
(* state and what a compaction makes of it (internal/runtime/session:      *)
(* tool_pairing.go, compaction_blocks.go, compaction_rewrite.go,           *)
(* state_view.go; internal/runtime/agent/compaction.go).                   *)
(***************************************************************************)
EXTENDS Naturals, Sequences, FiniteSets, SequencesExt, FiniteSetsExt

Entry(id, parent, kind, key, text) ==
  [id |-> id, parent |-> parent, kind |-> kind, key |-> key, text |-> text]

\* PendingToolCalls: calls without a result, in the order they were made.
Pending(history) ==
  SelectSeq(history, LAMBDA e: e.kind = "call" /\
     \A i \in DOMAIN history: ~(history[i].kind = "result" /\ history[i].key = e.key))
-----------------------------------------------------------------------------
(* Compaction: a summary, the latest state, and a suffix of whole turns. *)

StartsBlock(e) == e.kind \in {"user", "control", "compaction"}
Starts(history) == {1} \cup {i \in DOMAIN history: StartsBlock(history[i])}

\* Faulty variant: the suffix is cut at the entry, in the middle of a turn.
RecentFromEntry(history, keep) == Max({1, Len(history) - keep + 1})

\* SelectRecentBlocksByMinEntries: where the shortest suffix of whole blocks begins
\* that has keep entries.
RecentFrom(history, keep) ==
  Max({1} \cup {i \in Starts(history): Len(history) - i + 1 >= keep})

\* RepairLeadingFragment: before the first user message or summary only state stays.
Repaired(history) ==
  LET firsts == {i \in DOMAIN history: history[i].kind \in {"user", "compaction"}}
      from == IF firsts = {} THEN Len(history) + 1 ELSE Min(firsts)
      leading == SelectSeq(SubSeq(history, 1, from - 1),
                           LAMBDA e: e.kind \in {"control", "meta", "focus", "plan", "todo"})
  IN leading \o SubSeq(history, from, Len(history))

Stripped(history) == SelectSeq(history, LAMBDA e: e.kind \notin {"compaction", "meta", "focus"})

\* The last plan, and the last entry of each todo.
IsLatest(history, i) ==
  /\ history[i].kind \in {"plan", "todo"}
  /\ \A j \in (i + 1)..Len(history):
       ~(history[j].kind = history[i].kind /\ history[j].key = history[i].key)
LatestState(history) == {history[i] : i \in {j \in DOMAIN history: IsLatest(history, j)}}

\* Faulty variant: the first entry of a todo is kept instead of its last.
StateToKeepFirst(history, recent) ==
  LET First(i) == \A j \in 1..(i - 1): ~(history[j].kind = history[i].kind /\ history[j].key = history[i].key)
      state == {i \in DOMAIN history: history[i].kind \in {"plan", "todo"} /\ First(i)}
  IN SetToSortSeq({e \in {history[i] : i \in state}: e.id \notin {recent[i].id : i \in DOMAIN recent}},
                  LAMBDA a, b: a.id < b.id)

\* latestStateEntries: those the suffix does not have, by age.
StateToKeep(history, recent) ==
  SetToSortSeq({e \in LatestState(history): e.id \notin {recent[i].id : i \in DOMAIN recent}},
               LAMBDA a, b: a.id < b.id)

\* RewriteHistoryWithCompactionData.
Rewritten(given, summary, keep) ==
  LET history == Repaired(given)
      suffix == Stripped(SubSeq(history, RecentFrom(history, keep), Len(history)))
      recent == IF suffix = <<>> THEN Stripped(history) ELSE suffix
  IN IF history = <<>> THEN <<>>
     ELSE Repaired(<<summary>> \o StateToKeep(history, recent) \o recent)

\* buildCompactionScope: leading meta entries are not compacted; of the focus
\* entries among them a new one takes the place.
ScopeFrom(history) ==
  Min({i \in DOMAIN history: history[i].kind \notin {"meta", "focus"}} \cup {Len(history) + 1})

\* executeCompaction with the summary's and the focus's IDs.
Compacted(history, keep, id) ==
  LET from == ScopeFrom(history)
      prefix == SelectSeq(SubSeq(history, 1, from - 1), LAMBDA e: e.kind # "focus")
  IN prefix \o <<Entry(id, 0, "focus", 0, id)>>
            \o Rewritten(SubSeq(history, from, Len(history)), Entry(id + 1, 0, "compaction", keep, id + 1), keep)

\* Compaction does nothing unless some whole turn is older than the suffix.
Compactable(history, keep) ==
  LET scope == SubSeq(history, ScopeFrom(history), Len(history))
  IN scope # <<>> /\ Cardinality(Starts(scope)) >= 2 /\ RecentFrom(scope, keep) > 1

\* selectRecentCompactionBlocks with one turn to keep: the entries of the last turn.
LastTurn(history) ==
  LET users == {i \in DOMAIN history: history[i].kind = "user"}
  IN IF users = {} THEN Len(history) ELSE Len(history) - Max(users) + 1
=============================================================================
