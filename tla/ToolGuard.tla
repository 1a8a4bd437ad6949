----------------------------- MODULE ToolGuard ------------------------------
(***************************************************************************)
(* How a tool call is carried out (internal/runtime/agent/tool_recovery.go *)
(* and tool_preflight.go): its spelling is repaired, the loop guard looks  *)
(* at the calls of the run so far and may block one, attempts that         *)
(* fail for a passing reason are repeated, and the outcome joins the       *)
(* history.  The calls of a parallel segment run at once and share the     *)
(* history, whose lock each look takes anew.                               *)
(*                                                                         *)
(* A call is a tool with its arguments; the model may spell it sloppily.   *)
(***************************************************************************)
EXTENDS Naturals, Sequences, FiniteSets, SequencesExt

CONSTANTS
  Calls,
  Slots,          \* the calls of a parallel segment
  Configs         \* [history, block, attempts, preflight, enabled]

VARIABLES
  cfg,            \* the tool settings of the run
  history,        \* toolLoopState.history: [call, outcome]
  stage,          \* slot -> where its call is
  call,           \* slot -> its call: [name, sloppy]
  attempt,        \* slot -> the attempt under way
  outcome,        \* slot -> the outcome of the last attempt
  ctxDone         \* the run was cancelled

vars == <<cfg, history, stage, call, attempt, outcome, ctxDone>>

Requests == [name: Calls, sloppy: BOOLEAN]

\* What an attempt can come back with; two outcomes are the same when their texts are.
Outcome(kind) == [kind |-> kind, count |-> 0]
Blocked(count) == [kind |-> "blocked", count |-> count]
Outcomes == {Outcome(k) : k \in {"same", "news", "passing"}}
Unknown == Outcome("unknown")

-----------------------------------------------------------------------------
(* What the guard reads. *)

\* A sloppy spelling that names a tool is made the call it means.
Repaired(request) == IF cfg.preflight THEN [request EXCEPT !.sloppy = FALSE] ELSE request

Max0(set) == CHOOSE n \in set \cup {0}: \A m \in set: m <= n

\* Where the records of one call are.
RecordsOf(c) == {i \in DOMAIN history: history[i].call = c}

\* The latest records of the call that have the outcome of the very latest.
LatestAlike(c) ==
  {i \in RecordsOf(c): \A j \in RecordsOf(c): j > i => history[j].outcome = history[i].outcome}
NoProgressStreak(c) == Cardinality(LatestAlike(c))

\* The call before the latest records' call: the other one of an alternation.
Other ==
  LET differ == {i \in DOMAIN history: history[i].call # Last(history).call} IN
  IF differ = {} THEN Last(history).call ELSE history[Max0(differ)].call

\* The n latest records alternate between two calls.
Alternate(n) ==
  \A j \in 0..n - 1:
    history[Len(history) - j].call = IF j % 2 = 0 THEN Last(history).call ELSE Other
AltCount == Max0({n \in 1..Len(history): Alternate(n)})

\* Neither call of the alternation has told anything new.
Unchanged(n) ==
  \A i, j \in Len(history) - n + 1..Len(history):
    history[i].call = history[j].call => history[i].outcome = history[j].outcome

\* The length of the alternation this call would continue.
PingPongStreak(c) ==
  IF Len(history) < 2 \/ Other = Last(history).call \/ c # Other \/ AltCount < 2 THEN 0
  ELSE AltCount + 1
NoProgressPingPong(c) == PingPongStreak(c) > 0 /\ Unchanged(AltCount)

\* The history keeps the latest records.
Recorded(h, r) ==
  LET longer == Append(h, r) IN
  IF Len(longer) > cfg.history THEN SubSeq(longer, Len(longer) - cfg.history + 1, Len(longer))
  ELSE longer

-----------------------------------------------------------------------------
NoCall == [name |-> CHOOSE c \in Calls: TRUE, sloppy |-> FALSE]

Init ==
  /\ cfg \in Configs
  /\ history = <<>>
  /\ stage = [s \in Slots |-> "idle"]
  /\ call = [s \in Slots |-> NoCall]
  /\ attempt = [s \in Slots |-> 0]
  /\ outcome = [s \in Slots |-> Unknown]
  /\ ctxDone = FALSE

\* The model's calls of the next segment: any of the slots, all at once.  Each is repaired
\* before the guard sees it.
Segment(chosen) ==
  /\ \A s \in Slots: stage[s] = "idle"
  /\ chosen # {} /\ ~ctxDone
  /\ \E requests \in [chosen -> Requests]:
       /\ call' = [s \in Slots |-> IF s \in chosen THEN Repaired(requests[s]) ELSE NoCall]
       /\ stage' = [s \in Slots |->
                      IF s \notin chosen THEN "idle"
                      ELSE IF cfg.enabled THEN "repeated?" ELSE "run"]
  /\ attempt' = [s \in Slots |-> IF s \in chosen THEN 1 ELSE 0]
  /\ UNCHANGED <<cfg, history, outcome, ctxDone>>

\* The blocked call's result is recorded as an outcome of it.
Block(s, count) ==
  /\ outcome' = [outcome EXCEPT ![s] = Blocked(count)]
  /\ stage' = [stage EXCEPT ![s] = "over"]

\* Faulty variant: the streak already recorded must itself have reached the threshold.
RepeatsBeyond(s) == NoProgressStreak(call[s]) >= cfg.block
\* This call would be the one that reaches the threshold.
Repeats(s) == NoProgressStreak(call[s]) + 1 >= cfg.block

\* detectToolLoop, under one lock after the other.
LookForRepeat(s) ==
  /\ stage[s] = "repeated?"
  /\ IF Repeats(s) THEN Block(s, NoProgressStreak(call[s]) + 1)
     ELSE stage' = [stage EXCEPT ![s] = "alternating?"] /\ UNCHANGED outcome
  /\ UNCHANGED <<cfg, history, call, attempt, ctxDone>>

\* A warning, given here or by the count of the recent calls, lets the call go on.
LookForPingPong(s) ==
  /\ stage[s] = "alternating?"
  /\ IF NoProgressPingPong(call[s]) /\ PingPongStreak(call[s]) >= cfg.block
     THEN Block(s, PingPongStreak(call[s]))
     ELSE stage' = [stage EXCEPT ![s] = "run"] /\ UNCHANGED outcome
  /\ UNCHANGED <<cfg, history, call, attempt, ctxDone>>

\* An attempt comes back; a passing failure is waited out while attempts are left.  A call
\* whose name was not repaired finds no tool.
Execute(s) ==
  /\ stage[s] = "run"
  /\ \E o \in Outcomes:
       /\ outcome' = [outcome EXCEPT ![s] = IF call[s].sloppy THEN Unknown ELSE o]
       /\ stage' = [stage EXCEPT ![s] =
                      IF outcome'[s].kind = "passing" /\ attempt[s] < cfg.attempts
                      THEN "wait" ELSE "over"]
  /\ UNCHANGED <<cfg, history, call, attempt, ctxDone>>

\* The backoff is over, or the run was cancelled during it.
WaitForToolRetry(s) ==
  /\ stage[s] = "wait"
  /\ \/ /\ stage' = [stage EXCEPT ![s] = "run"]
        /\ attempt' = [attempt EXCEPT ![s] = @ + 1]
     \/ /\ ctxDone
        /\ stage' = [stage EXCEPT ![s] = "over"]
        /\ UNCHANGED attempt
  /\ UNCHANGED <<cfg, history, call, outcome, ctxDone>>

Record(s) ==
  /\ stage[s] = "over"
  /\ history' = Recorded(history, [call |-> call[s], outcome |-> outcome[s]])
  /\ stage' = [stage EXCEPT ![s] = "idle"]
  /\ call' = [call EXCEPT ![s] = NoCall]
  /\ attempt' = [attempt EXCEPT ![s] = 0]
  /\ outcome' = [outcome EXCEPT ![s] = Unknown]
  /\ UNCHANGED <<cfg, ctxDone>>

RunCancelled == ~ctxDone /\ ctxDone' = TRUE
                /\ UNCHANGED <<cfg, history, stage, call, attempt, outcome>>

Next ==
  \/ \E chosen \in SUBSET Slots: Segment(chosen)
  \/ \E s \in Slots: LookForRepeat(s) \/ LookForPingPong(s)
                     \/ Execute(s) \/ WaitForToolRetry(s) \/ Record(s)
  \/ RunCancelled

Spec == Init /\ [][Next]_vars

-----------------------------------------------------------------------------
(* Properties. *)

\* What the run remembers never shows more calls in a row with one and the same outcome than
\* the guard allows, however the model spells the call and whatever lies between; the calls
\* of one segment, which look before any of them is recorded, can exceed it by one each.
RepeatsAreBounded ==
  cfg.enabled =>
    \A c \in Requests:
      \A i \in LatestAlike(c): history[i].outcome.kind # "blocked"
        => NoProgressStreak(c) <= cfg.block - 1 + Cardinality(Slots) - 1

\* A call that was blocked is blocked again when it comes next.
BlockedStaysBlocked ==
  \A i \in DOMAIN history \ {1}:
    history[i].call = history[i - 1].call /\ history[i - 1].outcome.kind = "blocked"
      => history[i].outcome.kind = "blocked"
=============================================================================
