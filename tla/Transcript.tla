----------------------------- MODULE Transcript ------------------------------
(***************************************************************************)
(* What the model is shown of a session (internal/runtime/agent:           *)
(* context.go, transcript_repair.go, transcript_policy.go,                 *)
(* request_focus.go, runtime_control.go, session_guard.go): the runs of a  *)
(* session append to its history, fail, are aborted or cut off by a crash; *)
(* each request is built anew from what the history then holds.            *)
(*                                                                         *)
(* The text of a user entry is the sequence of questions it asks: more     *)
(* than one if the lane has collected them, the last being the one to      *)
(* answer.  The text of a result says what became of its call.             *)
(***************************************************************************)
EXTENDS SessionHistory

CONSTANTS
  Hygiene,      \* sets of switches: the transcriptHygiene settings a project may have
  Projections,  \* among {"recent", "state_aware"}
  MaxRecent,    \* maxModelContextRecentEntries
  Threshold,    \* entries after which a run compacts
  Limits        \* bounds: questions, requests of the session, calls of an answer, steps, crashes

\* "pairs", repairToolPairs, is read and decides nothing.
Switches == {"enabled", "users", "pairs", "orphans", "meta"}

VARIABLES
  setting,    \* hygiene and projection
  history,    \* the session's entries
  stage,      \* of its run
  asked,      \* the questions so far; the run's is the last
  directive,  \* runController.pendingRuntimeControlID
  request,    \* what the model has been sent: messages, and the focus of the prompt; or None
  lastId,     \* entry IDs are fresh
  left,       \* what is left of Limits
  behind      \* history: an assistant's notice was put behind calls without a result

vars == <<setting, history, stage, asked, directive, request, lastId, left, behind>>
-----------------------------------------------------------------------------
(* The context: which entries a request is made of (modelContextHistory). *)

\* ModelVisibleEntries.
Visible(entries) == SelectSeq(entries, LAMBDA e: e.kind # "control")

\* Faulty variant: the suffix is cut by entries.
SuffixOfEntries(entries, room) ==
  SubSeq(entries, Max({1, Len(entries) - room + 1}), Len(entries))

\* The blocks from the end that fit, the last one whatever its size.
Suffix(entries, room) ==
  LET fitting == {i \in Starts(entries): Len(entries) - i + 1 <= room}
  IN IF entries = <<>> THEN <<>>
     ELSE SubSeq(entries, Min(fitting \cup {Max(Starts(entries))}), Len(entries))

Summarizes(e) == e.kind \in {"compaction", "meta", "focus"}

\* preservedContextPrefix.
Prefix(entries) ==
  SubSeq(entries, 1, Min({i \in DOMAIN entries: ~Summarizes(entries[i])} \cup {Len(entries) + 1}) - 1)

\* contextEntryKey.
IdsOf(entries) == {entries[i].id : i \in DOMAIN entries}

\* pinnedContextEntries: the prefix, from the end the focus entries up to the latest
\* summary, and the latest state.
Pinned(entries) ==
  LET from == Max({i \in DOMAIN entries: entries[i].kind = "compaction"} \cup {1})
      later == {i \in from..Len(entries): entries[i].kind \in {"compaction", "focus"}}
      found == Prefix(entries) \o Reverse([i \in DOMAIN SetToSortSeq(later, <) |->
                                             entries[SetToSortSeq(later, <)[i]]])
                               \o StateToKeep(entries, <<>>)
  IN FoldLeft(LAMBDA seen, e: IF e.id \in IdsOf(seen) THEN seen ELSE Append(seen, e), <<>>, found)

ContextHistory(entries, projection) ==
  LET visible == Repaired(Visible(entries))
      kept == IF projection = "recent" THEN Prefix(visible) ELSE Pinned(visible)
      others == SelectSeq(visible, LAMBDA e: e.id \notin IdsOf(kept))
  IN IF Len(visible) <= MaxRecent THEN visible
     ELSE Repaired(kept \o Suffix(others, MaxRecent - Len(kept)))
-----------------------------------------------------------------------------
(* The messages (assembleMessages). *)

None == [none |-> TRUE]
Message(role, calls, key, text) == [role |-> role, calls |-> calls, key |-> key, text |-> text]

\* injectMissingToolResults: if the last message still calls for results.
Injected(msgs) ==
  IF msgs = <<>> \/ Last(msgs).role # "assistant" THEN msgs
  ELSE msgs \o [i \in DOMAIN Last(msgs).calls |->
                  Message("result", <<>>, Last(msgs).calls[i], "interrupted")]

Assembled(msgs, e) ==
  CASE e.kind \in {"meta", "focus"} -> Append(msgs, Message("meta", <<>>, 0, e.text))
    [] e.kind = "compaction" -> Append(msgs, Message("summary", <<>>, 0, e.text))
    [] e.kind \in {"user", "assistant"} -> Append(Injected(msgs), Message(e.kind, <<>>, 0, e.text))
    [] e.kind = "call" ->
         IF msgs # <<>> /\ Last(msgs).role = "assistant"
         THEN [msgs EXCEPT ![Len(msgs)].calls = Append(@, e.key)]
         ELSE Append(msgs, Message("assistant", <<e.key>>, 0, <<>>))
    [] e.kind = "result" ->
         IF \E i \in DOMAIN msgs: e.key \in ToSet(msgs[i].calls)
         THEN Append(msgs, Message("result", <<>>, e.key, e.text))
         ELSE Append(msgs, Message(IF e.text = "done" THEN "orphan" ELSE "failed_orphan", <<>>, 0, <<>>))
    [] OTHER -> msgs

Messages(entries) == Injected(FoldLeft(Assembled, <<>>, Visible(Repaired(entries))))
-----------------------------------------------------------------------------
(* Repair of the messages (prepareTranscript). *)

\* Runtime.transcriptPolicy: all switches off is the zero value and means the defaults.
Policy(switches) == IF switches = {} THEN Switches ELSE switches

\* isPlainUserMessage: results, failures and summaries are user messages too, but not plain.
Plain(m) == m.role \in {"user", "meta", "orphan"}

\* Faulty variant: the first of a group stays the one to answer.
MergeUserFirst(msgs, m) ==
  IF msgs # <<>> /\ Plain(Last(msgs)) /\ Plain(m)
  THEN [msgs EXCEPT ![Len(msgs)] = [m EXCEPT !.text = m.text \o Last(msgs).text]]
  ELSE Append(msgs, m)

\* mergeConsecutiveUserTurns: the last of a group is the one to answer, and the others
\* come before it as context.
MergeUser(msgs, m) ==
  IF msgs # <<>> /\ Plain(Last(msgs)) /\ Plain(m)
  THEN [msgs EXCEPT ![Len(msgs)] = [m EXCEPT !.text = Last(msgs).text \o m.text]]
  ELSE Append(msgs, m)

\* mergeConsecutiveAssistantTurns.
MergeAssistant(msgs, m) ==
  IF msgs # <<>> /\ Last(msgs).role = "assistant" /\ m.role = "assistant" /\ Last(msgs).calls = <<>> /\ m.calls = <<>>
  THEN [msgs EXCEPT ![Len(msgs)].text = @ \o m.text]
  ELSE Append(msgs, m)

Prepared(msgs, policy) ==
  LET dropped == (IF "meta" \in policy THEN {"meta"} ELSE {})
                 \cup (IF "orphans" \in policy THEN {"orphan", "failed_orphan"} ELSE {})
      filtered == SelectSeq(msgs, LAMBDA m: m.role \notin dropped)
      merged == IF "users" \in policy THEN FoldLeft(MergeUser, <<>>, filtered) ELSE filtered
  IN IF "enabled" \in policy THEN FoldLeft(MergeAssistant, <<>>, merged) ELSE msgs
-----------------------------------------------------------------------------
(* The focus of the prompt (deriveRequestFocus). *)

\* summarizeTailUserTurns: the user messages nearest to the end, three at the most,
\* with nothing else between them.
TailUsers(entries) ==
  LET users == {i \in DOMAIN entries: entries[i].kind = "user"}
      run == {i \in users: i..Max(users) \subseteq users /\ i > Max(users) - 3}
  IN IF users = {} THEN <<>> ELSE FoldLeft(LAMBDA all, e: all \o e.text, <<>>, SubSeq(entries, Min(run), Max(run)))

Focus(entries, fallback) ==
  LET visible == Visible(entries)
      users == {i \in DOMAIN visible: visible[i].kind = "user"}
      found == visible[Max(users)].text
  IN IF users = {} THEN [current |-> fallback, context |-> <<>>]
     ELSE [current |-> Last(found),
           context |-> IF Len(found) > 1 THEN Front(found) ELSE TailUsers(SubSeq(visible, 1, Max(users) - 1))]
-----------------------------------------------------------------------------
(* The runs. *)

New(kind, key, text) == [kind |-> kind, key |-> key, text |-> text]
Recorded(entries) == [i \in DOMAIN entries |-> Entry(lastId + i, 0, entries[i].kind, entries[i].key, entries[i].text)]

\* The entries are appended one by one, and a crash may come between any two of them.
Put(entries, next) ==
  /\ lastId' = lastId + Len(entries)
  /\ \/ history' = history \o Recorded(entries) /\ stage' = next /\ UNCHANGED left
     \/ \E n \in 0..Len(entries):
          /\ left.crashes > 0 /\ left' = [left EXCEPT !.crashes = @ - 1]
          /\ history' = history \o SubSeq(Recorded(entries), 1, n)
          /\ stage' = "idle"

\* Faulty variant: the guard is left to assembleMessages.
Unguarded == <<>>

\* guardSessionToolResults: what stands for the results that are missing.
Guard == [i \in DOMAIN Pending(history) |-> New("result", Pending(history)[i].key, "interrupted")]

\* run: missing results first, then the message, which may hold questions collected
\* while another run was under way.
Begin ==
  /\ stage = "idle"
  /\ \E n \in 1..2 :
       LET questions == [i \in 1..n |-> asked + i] IN
       /\ asked + n <= left.questions /\ asked' = asked + n
       /\ Put(Append(Guard, New("user", 0, questions)), "asks")
  /\ directive' = 0
  /\ UNCHANGED <<setting, request, behind>>

EndsWithControl == Last(history).kind = "control"
CompactsFirst ==
  LET repaired == Repaired(history)
      scope == SubSeq(repaired, ScopeFrom(repaired), Len(repaired))
  IN ~EndsWithControl /\ Len(scope) > Threshold /\ Compactable(repaired, LastTurn(repaired))

\* maybeCompactSession, whose failure ends the run.
Compact ==
  /\ stage = "asks" /\ CompactsFirst
  /\ \/ /\ history' = Compacted(Repaired(history), LastTurn(Repaired(history)), lastId + 1)
        /\ lastId' = lastId + 2 /\ stage' = "builds"
     \/ stage' = "fails" /\ UNCHANGED <<history, lastId>>
  /\ UNCHANGED <<setting, asked, directive, request, left, behind>>

\* buildChatRequest: the directive pending is taken, whatever becomes of the request.
Directed == IF directive \in IdsOf(history) THEN <<Message("runtime", <<>>, 0, <<directive>>)>>
            ELSE <<>>
Build ==
  /\ stage = "builds" \/ (stage = "asks" /\ ~CompactsFirst)
  /\ left.requests > 0 /\ left' = [left EXCEPT !.requests = @ - 1]
  /\ request' = [messages |-> Prepared(Messages(ContextHistory(history, setting.projection)), Policy(setting.hygiene))
                                \o Directed,
                 focus |-> Focus(history, asked)]
  /\ directive' = 0 /\ stage' = "waits"
  /\ UNCHANGED <<setting, history, asked, lastId, behind>>

\* runTurn with an answer of n calls, with or without text.  Without calls the run ends or goes
\* on with a directive; it fails if a call began and was not completed, or if there is no text
\* when a visible reply was asked for.
Answer ==
  /\ stage = "waits"
  /\ \E n \in 0..left.calls, says \in BOOLEAN :
       \E next \in IF n = 0 THEN {"ends", "fails"} ELSE IF says THEN {"works"} ELSE {"works_unsaid"} :
         Put((IF says THEN <<New("assistant", 0, <<>>)>> ELSE <<>>)
               \o [i \in 1..n |-> New("call", lastId + i, <<>>)], next)
  /\ request' = None /\ UNCHANGED <<setting, asked, directive, behind>>

\* maybeSurfaceIncompleteTurn: a notice, unless the answer's text has been saved.
Notice(unsaid) == IF unsaid THEN <<New("assistant", 0, <<>>)>> ELSE <<>>

\* collectLLMResponse fails, before or after a part of the answer.
AnswerFails ==
  /\ stage = "waits"
  /\ \E partial \in BOOLEAN : Put(Notice(partial), "fails")
  /\ request' = None /\ UNCHANGED <<setting, asked, directive, behind>>

\* handleToolBatchCompletion.  Tools record plans and todos while they run; a batch that
\* fails or is aborted leaves calls without a result (appendToolBatchResults).
ToolsEnd ==
  LET calls == Pending(history) IN
  /\ stage \in {"works", "works_unsaid"}
  /\ \E done \in SUBSET DOMAIN calls, planned \in BOOLEAN, next \in {"asks", "ends", "fails"} :
       LET results == SelectSeq([i \in DOMAIN calls |-> New("result", calls[i].key, IF i \in done THEN "done" ELSE "none")],
                                LAMBDA e: e.text = "done")
           state == IF planned THEN <<New("plan", 0, <<>>)>> ELSE <<>>
           notice == Notice(next = "fails" /\ stage = "works_unsaid") IN
       /\ next # "fails" => done = DOMAIN calls
       /\ Put(state \o results \o notice, next)
       /\ behind' = (behind \/ (notice # <<>> /\ done # DOMAIN calls))
  /\ UNCHANGED <<setting, asked, directive, request>>

\* advanceGoalAfterDone executes a step of the plan by a tool (plan_executor.go).
PlanStep ==
  /\ stage = "ends" /\ left.steps > 0
  /\ Put(<<New("call", lastId + 1, <<>>), New("result", lastId + 1, "done"), New("meta", 0, <<>>)>>, "stepped")
  /\ UNCHANGED <<setting, asked, directive, request, behind>>

\* advanceGoalAfterDone, or a visible reply that is asked for: appendRuntimeControl and
\* another turn.
Continue ==
  /\ stage \in {"ends", "stepped"}
  /\ Put(<<New("control", 0, <<>>)>>, "asks")
  /\ directive' = IF stage' = "asks" THEN lastId' ELSE 0
  /\ UNCHANGED <<setting, asked, request, behind>>

Done ==
  /\ stage \in {"ends", "stepped"} /\ stage' = "idle"
  /\ UNCHANGED <<setting, history, asked, directive, request, lastId, left, behind>>

\* finalize after an error or an abort, and appendSessionTerminalMeta.
Fail ==
  /\ stage = "fails"
  /\ Put(Append(Guard, New("meta", 0, <<>>)), "idle")
  /\ UNCHANGED <<setting, asked, directive, request, behind>>

\* The user aborts the run between two turns.
Abort ==
  /\ stage = "asks" /\ stage' = "fails"
  /\ UNCHANGED <<setting, history, asked, directive, request, lastId, left, behind>>

Init ==
  /\ setting \in [hygiene: Hygiene, projection: Projections]
  /\ history = <<>> /\ stage = "idle" /\ asked = 0 /\ directive = 0
  /\ request = None
  /\ lastId = 0 /\ left \in Limits /\ behind = FALSE

Next ==
  \/ Begin \/ Compact \/ Build \/ Answer \/ AnswerFails
  \/ ToolsEnd \/ PlanStep \/ Continue \/ Done \/ Fail \/ Abort
Spec == Init /\ [][Next]_vars

-----------------------------------------------------------------------------
(* Properties. *)

Sent == request.messages

\* The question of the run is the one the model is told to answer, in the messages and in
\* the focus of its prompt, whatever has been asked, failed or compacted before it.
QuestionIsAsked ==
  LET users == {i \in DOMAIN Sent: Sent[i].role = "user"} IN
  /\ users # {} /\ Last(Sent[Max(users)].text) = asked
  /\ request.focus.current = asked

CallsOf(i) == ToSet(Sent[i].calls)
ResultsOf(i) == {j \in DOMAIN Sent: j > i /\ Sent[j].role = "result" /\ Sent[j].key \in CallsOf(i)}

\* Every result in a request is of a call before it, and every call has a result.
ResultsAreCalled ==
  LET calling == {i \in DOMAIN Sent: Sent[i].calls # <<>>} IN
  /\ {j \in DOMAIN Sent: Sent[j].role = "result"} = UNION {ResultsOf(i) : i \in calling}
  /\ \A i \in calling: {Sent[j].key : j \in ResultsOf(i)} = CallsOf(i)

\* The results of an assistant's calls are what follows it, one for each.
ResultsAreInPlace ==
  \A i \in DOMAIN Sent: ResultsOf(i) = {i + n : n \in DOMAIN Sent[i].calls}

\* The latest summary is in the request.
SummaryIsKept ==
  LET summaries == {i \in DOMAIN history: history[i].kind = "compaction"} IN
  summaries # {} => \E i \in DOMAIN Sent: Sent[i].role = "summary" /\ Sent[i].text = history[Max(summaries)].text

\* A directive of the runtime is the last message of the one request that follows it.
DirectiveIsGiven ==
  {i \in DOMAIN Sent: Sent[i].role = "runtime" /\ Sent[i].text = <<Last(history).id>>}
    = IF EndsWithControl THEN {Len(Sent)} ELSE {}

\* A request is sound however the runs before it ended, and whatever of the history is
\* left out of it.
RequestIsSound ==
  stage = "waits" =>
    /\ QuestionIsAsked /\ ResultsAreCalled /\ SummaryIsKept /\ DirectiveIsGiven
    /\ ~behind => ResultsAreInPlace

\* context.go:210: "It ensures that every tool_use block in an assistant message has a
\* corresponding tool_result in the next user message", a real or a synthetic one: each call has
\* a result among those that directly follow its message.  Further results are not ruled out.
ResultsFollowCalls ==
  stage = "waits" =>
    \A i \in DOMAIN Sent: \A key \in CallsOf(i):
      \E j \in ResultsOf(i): Sent[j].key = key /\ \A n \in (i + 1)..j: Sent[n].role = "result"
=============================================================================
