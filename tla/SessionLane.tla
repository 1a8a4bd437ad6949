------------------------------ MODULE SessionLane ------------------------------
(***************************************************************************)
(* The lane of one agent/session key of execution.Coordinator              *)
(* (src/internal/runtime/execution/sessionlane.go): the requests of one    *)
(* session, the run the lane calls active, the queue behind it, and the    *)
(* goroutines that carry the runs and hand the lane on when they end.      *)
(*                                                                         *)
(* Every critical section under Coordinator.mu is one action; what the     *)
(* code does between two critical sections is left to interleave.          *)
(***************************************************************************)
EXTENDS Integers, Sequences, FiniteSets, Functions

CONSTANTS
  Requests,     \* the ingress requests of this key, each submitted once
  NoRequest,    \* state.active == nil
  Configs       \* the runtime.sessions settings a hot reload may install

QueueModes   == {"collect", "followup", "interrupt"}
DropPolicies == {"summarize", "drop_oldest", "drop_newest"}

\* max = 0 is a lane without a limit: enqueuePendingRun called without a config.
SessionConfig == [mode : QueueModes, drop : DropPolicies, max : Nat]

ASSUME RequestsAssumption == IsFiniteSet(Requests)
ASSUME NoRequestAssumption == NoRequest \notin Requests
ASSUME ConfigsAssumption   == Configs \subseteq SessionConfig

VARIABLES
  config,     \* the settings in force, replaced by a reload
  active,     \* state.active
  pending,    \* state.pending
  summaries,  \* state.droppedSummaries, as the requests they summarize
  life,       \* per request: where it and its goroutine are
  cancelled,  \* per request: item.ctx.Err() != nil
  cfg,        \* per request: deps.Config of the goroutine that holds it
  batch,      \* per finished run: what onRunFinished took and has yet to filter
  kept,       \* per finished run: the requests filterPendingQueuedRuns kept
  carried,    \* per finished run: the droppedSummaries onRunFinished took
  context,    \* per request: the other requests its envelope speaks for
  fate,       \* per request: how it left the queue
  closes,     \* per request: how often its out channel was closed
  rec         \* per request: RunRecord.Status in the recorder

lane     == <<active, pending, summaries>>
finisher == <<batch, kept, carried>>
vars     == <<config, lane, life, cancelled, cfg, finisher, context, fate, closes, rec>>

\* queued: waiting in pending or in a finisher's hands; retired: taken out of
\* the queue, completeQueuedRun owed; closed: its out is closed, the recorder not
\* yet told; answered: settled without a run.  starting .. done: the goroutine of
\* a dispatched request.
Lives == {"new", "queued", "retired", "closed", "answered",
          "starting", "running", "finished", "filtering", "merging", "done"}
Fates == {"none", "dropped", "superseded", "merged", "cancelled", "dispatched"}
Statuses == {"none", "queued", "running", "completed", "failed", "aborted"}

Terminal == {"completed", "failed", "aborted"}

--------------------------------------------------------------------------------
Init ==
  /\ config \in Configs
  /\ active = NoRequest /\ pending = <<>> /\ summaries = {}
  /\ life = [r \in Requests |-> "new"]
  /\ cancelled = [r \in Requests |-> FALSE]
  /\ cfg = [r \in Requests |-> config]
  /\ batch = [r \in Requests |-> <<>>]
  /\ kept = [r \in Requests |-> <<>>]
  /\ carried = [r \in Requests |-> {}]
  /\ context = [r \in Requests |-> {}]
  /\ fate = [r \in Requests |-> "none"]
  /\ closes = [r \in Requests |-> 0]
  /\ rec = [r \in Requests |-> "none"]

\* runtimeUpdater.ApplyConfig: later calls are handed the new settings, requests
\* and goroutines under way keep the ones they were given.
Reload ==
  /\ config' \in Configs \ {config}
  /\ UNCHANGED <<lane, life, cancelled, cfg, finisher, context, fate, closes, rec>>

\* Coordinator.dispatch: a goroutine is started for r, with d for its deps.
Dispatch(r, d, lives) ==
  /\ life' = [lives EXCEPT ![r] = "starting"]
  /\ fate' = [fate EXCEPT ![r] = "dispatched"]
  /\ cfg'  = [cfg EXCEPT ![r] = d]

--------------------------------------------------------------------------------
(* Submit: one critical section.                                           *)

\* The route decision recorded just before Submit, or StartRun and run.queued in
\* it, leave the run in the recorder as queued.
Accept(r) ==
  /\ life[r] = "new"
  /\ rec' = [rec EXCEPT ![r] = "queued"]
  /\ UNCHANGED <<config, finisher, context, closes>>

SubmitIdle(r) ==
  /\ Accept(r)
  /\ active = NoRequest
  /\ active' = r
  /\ Dispatch(r, config, life)
  /\ UNCHANGED <<pending, summaries, cancelled>>

\* Faulty variant: the limit is noticed one request late.
OverflowLate(q) == IF config.max = 0 \/ Len(q) <= config.max + 1 THEN 0 ELSE Len(q) - config.max

\* How many requests the drop loop of enqueuePendingRun takes off queue q.
Overflow(q) == IF config.max = 0 \/ Len(q) <= config.max THEN 0 ELSE Len(q) - config.max

\* The drop loop: what stays in the queue, and what is dropped from which end.
Retained(q) == IF config.drop = "drop_newest"
               THEN SubSeq(q, 1, Len(q) - Overflow(q))
               ELSE SubSeq(q, Overflow(q) + 1, Len(q))
Dropped(q)  == IF config.drop = "drop_newest"
               THEN SubSeq(q, Len(q) - Overflow(q) + 1, Len(q))
               ELSE SubSeq(q, 1, Overflow(q))

\* The requests a Submit answers without a run: completeQueuedRun is owed to them.
Retire(out, why, lives) ==
  /\ life' = [q \in Requests |-> IF q \in out THEN "retired" ELSE lives[q]]
  /\ fate' = [q \in Requests |-> IF q \in out THEN why ELSE fate[q]]

SubmitEnqueue(r) ==
  /\ Accept(r)
  /\ active # NoRequest
  /\ config.mode # "interrupt"
  /\ LET q == Append(pending, r) IN
       /\ pending' = Retained(q)
       /\ summaries' = summaries \cup
                         IF config.drop = "summarize" THEN Range(Dropped(q)) ELSE {}
       /\ Retire(Range(Dropped(q)), "dropped", [life EXCEPT ![r] = "queued"])
  /\ cfg' = [cfg EXCEPT ![r] = config]
  /\ UNCHANGED <<active, cancelled>>

\* Faulty variant: the superseded requests stay in the queue.
SubmitInterruptKeeping(r) ==
  /\ Accept(r)
  /\ active # NoRequest
  /\ config.mode = "interrupt"
  /\ pending' = Append(pending, r)
  /\ Retire(Range(pending), "superseded", [life EXCEPT ![r] = "queued"])
  /\ cancelled' = [cancelled EXCEPT ![active] = TRUE]
  /\ cfg' = [cfg EXCEPT ![r] = config]
  /\ UNCHANGED <<active, summaries>>

SubmitInterrupt(r) ==
  /\ Accept(r)
  /\ active # NoRequest
  /\ config.mode = "interrupt"
  /\ pending' = <<r>>
  /\ Retire(Range(pending), "superseded", [life EXCEPT ![r] = "queued"])
  /\ cancelled' = [cancelled EXCEPT ![active] = TRUE]
  /\ cfg' = [cfg EXCEPT ![r] = config]
  /\ UNCHANGED <<active, summaries>>

Submit(r) == SubmitIdle(r) \/ SubmitEnqueue(r) \/ SubmitInterrupt(r)

\* ManagedRun.Cancel, or the end of the context the request came with.
Cancel(r) ==
  /\ life[r] \in {"queued", "starting", "running"}
  /\ ~cancelled[r]
  /\ cancelled' = [cancelled EXCEPT ![r] = TRUE]
  /\ UNCHANGED <<config, lane, life, cfg, finisher, context, fate, closes, rec>>

--------------------------------------------------------------------------------
(* completeQueuedRun: the out channel is closed before the recorder hears. *)

CompleteClose(r) ==
  /\ life[r] = "retired"
  /\ life' = [life EXCEPT ![r] = "closed"]
  /\ closes' = [closes EXCEPT ![r] = @ + 1]
  /\ UNCHANGED <<config, lane, cancelled, cfg, finisher, context, fate, rec>>

CompleteRecord(r) ==
  /\ life[r] = "closed"
  /\ life' = [life EXCEPT ![r] = "answered"]
  /\ rec' = [rec EXCEPT ![r] = "completed"]
  /\ UNCHANGED <<config, lane, cancelled, cfg, finisher, context, fate, closes>>

--------------------------------------------------------------------------------
(* The goroutine of a dispatched request.                                  *)

Start(r) ==
  /\ life[r] = "starting"
  /\ life' = [life EXCEPT ![r] = "running"]
  /\ rec' = [rec EXCEPT ![r] = "running"]
  /\ UNCHANGED <<config, lane, cancelled, cfg, finisher, context, fate, closes>>

\* StartManagedRun returns an error before BeginRun: run.failed goes to the out
\* channel and not to the recorder.
StartFails(r) ==
  /\ life[r] = "starting"
  /\ life' = [life EXCEPT ![r] = "finished"]
  /\ closes' = [closes EXCEPT ![r] = @ + 1]
  /\ UNCHANGED <<config, lane, cancelled, cfg, finisher, context, fate, rec>>

\* The managed run ends: FinishRun, then its event stream and out are closed.
RunEnds(r) ==
  /\ life[r] = "running"
  /\ life' = [life EXCEPT ![r] = "finished"]
  /\ \E status \in Terminal : rec' = [rec EXCEPT ![r] = status]
  /\ closes' = [closes EXCEPT ![r] = @ + 1]
  /\ UNCHANGED <<config, lane, cancelled, cfg, finisher, context, fate>>

\* First critical section of onRunFinished.  A state that is nil, or deleted
\* here, is a lane with no active run and nothing pending (and, by NeverStranded,
\* no summaries).
Released(r) == IF active = r THEN NoRequest ELSE active

\* Faulty variant: the lane is released without a look at the queue.
ReleaseBlindly(r) ==
  /\ life[r] = "finished"
  /\ active' = Released(r)
  /\ life' = [life EXCEPT ![r] = "done"]
  /\ UNCHANGED <<config, pending, summaries, cancelled, cfg, finisher, context, fate,
                 closes, rec>>

\* Faulty variant: the finished run stays the active one.
ReleaseNothing(r) ==
  /\ life[r] = "finished"
  /\ pending = <<>>
  /\ life' = [life EXCEPT ![r] = "done"]
  /\ UNCHANGED <<config, lane, cancelled, cfg, finisher, context, fate, closes, rec>>

ReleaseIdle(r) ==
  /\ life[r] = "finished"
  /\ pending = <<>>
  /\ active' = Released(r)
  /\ life' = [life EXCEPT ![r] = "done"]
  /\ UNCHANGED <<config, pending, summaries, cancelled, cfg, finisher, context, fate,
                 closes, rec>>

\* Faulty variant: the queue is copied and left as it is.
TakeCopy(r) ==
  /\ life[r] = "finished"
  /\ pending # <<>>
  /\ active' = Released(r)
  /\ batch' = [batch EXCEPT ![r] = pending]
  /\ carried' = [carried EXCEPT ![r] = summaries] /\ summaries' = {}
  /\ life' = [life EXCEPT ![r] = "filtering"]
  /\ UNCHANGED <<config, pending, cancelled, cfg, kept, context, fate, closes, rec>>

TakePending(r) ==
  /\ life[r] = "finished"
  /\ pending # <<>>
  /\ active' = Released(r)
  /\ batch' = [batch EXCEPT ![r] = pending] /\ pending' = <<>>
  /\ carried' = [carried EXCEPT ![r] = summaries] /\ summaries' = {}
  /\ life' = [life EXCEPT ![r] = "filtering"]
  /\ UNCHANGED <<config, cancelled, cfg, kept, context, fate, closes, rec>>

\* Faulty variant: a cancelled request is closed and kept.
FilterKeepingAll(r) ==
  /\ life[r] = "filtering" /\ batch[r] # <<>>
  /\ batch' = [batch EXCEPT ![r] = Tail(@)]
  /\ LET q == Head(batch[r]) IN
       /\ kept' = [kept EXCEPT ![r] = Append(@, q)]
       /\ closes' = [closes EXCEPT ![q] = IF cancelled[q] THEN @ + 1 ELSE @]
  /\ UNCHANGED <<config, lane, life, cancelled, cfg, carried, context, fate, rec>>

\* filterPendingQueuedRuns, outside the lock: one request of the batch.
FilterOne(r) ==
  /\ life[r] = "filtering" /\ batch[r] # <<>>
  /\ batch' = [batch EXCEPT ![r] = Tail(@)]
  /\ LET q == Head(batch[r]) IN
       \/ /\ cancelled[q]
          /\ life' = [life EXCEPT ![q] = "answered"]
          /\ fate' = [fate EXCEPT ![q] = "cancelled"]
          /\ closes' = [closes EXCEPT ![q] = @ + 1]
          /\ rec' = [rec EXCEPT ![q] = "aborted"]
          /\ UNCHANGED kept
       \/ /\ ~cancelled[q]
          /\ kept' = [kept EXCEPT ![r] = Append(@, q)]
          /\ UNCHANGED <<life, fate, closes, rec>>
  /\ UNCHANGED <<config, lane, cancelled, cfg, carried, context>>

\* Everything taken was cancelled: onRunFinished returns, and what was carried
\* goes with it.
NothingKept(r) ==
  /\ life[r] = "filtering" /\ batch[r] = <<>> /\ kept[r] = <<>>
  /\ life' = [life EXCEPT ![r] = "done"]
  /\ carried' = [carried EXCEPT ![r] = {}]
  /\ UNCHANGED <<config, lane, cancelled, cfg, batch, kept, context, fate, closes, rec>>

Owner(r)  == kept[r][Len(kept[r])]
\* Faulty variant: the owner is among the merged.
MergedAll(r) == Range(kept[r])
Merged(r) == Range(kept[r]) \ {Owner(r)}

\* Faulty variant: the envelope of the owner is built from the summaries alone.
MergeForgetting(r) ==
  /\ life[r] = "filtering" /\ batch[r] = <<>> /\ kept[r] # <<>>
  /\ cfg[r].mode = "collect"
  /\ Retire(Merged(r), "merged", [life EXCEPT ![r] = "merging"])
  /\ context' = [context EXCEPT ![Owner(r)] = carried[r]]
  /\ carried' = [carried EXCEPT ![r] = {}]
  /\ kept' = [kept EXCEPT ![r] = <<Owner(r)>>]
  /\ UNCHANGED <<config, lane, cancelled, cfg, batch, closes, rec>>

\* collect, after the debounce: the newest request of the batch becomes the owner
\* of a run that speaks for the others, which are completed as merged, and for
\* the carried summaries.
Merge(r) ==
  /\ life[r] = "filtering" /\ batch[r] = <<>> /\ kept[r] # <<>>
  /\ cfg[r].mode = "collect"
  /\ Retire(Merged(r), "merged", [life EXCEPT ![r] = "merging"])
  /\ context' = [context EXCEPT ![Owner(r)] = carried[r] \cup Merged(r)]
  /\ carried' = [carried EXCEPT ![r] = {}]
  /\ kept' = [kept EXCEPT ![r] = <<Owner(r)>>]
  /\ UNCHANGED <<config, lane, cancelled, cfg, batch, closes, rec>>

\* Once they are completed the owner is dispatched.  The lane's active run is
\* overwritten, whatever it is.
HandOffCollect(r) ==
  /\ life[r] = "merging"
  /\ \A q \in context[Owner(r)] : fate[q] = "merged" => life[q] = "answered"
  /\ active' = Owner(r)
  /\ Dispatch(Owner(r), cfg[r], [life EXCEPT ![r] = "done"])
  /\ kept' = [kept EXCEPT ![r] = <<>>]
  /\ UNCHANGED <<config, pending, summaries, cancelled, batch, carried, context, closes, rec>>

\* followup and interrupt: the first kept request runs, the others go behind
\* whatever was submitted since the batch was taken.
HandOffNext(r) ==
  /\ life[r] = "filtering" /\ batch[r] = <<>> /\ kept[r] # <<>>
  /\ cfg[r].mode # "collect"
  /\ active' = Head(kept[r])
  /\ pending' = pending \o Tail(kept[r])
  /\ Dispatch(Head(kept[r]), cfg[r], [life EXCEPT ![r] = "done"])
  /\ kept' = [kept EXCEPT ![r] = <<>>]
  /\ carried' = [carried EXCEPT ![r] = {}]
  /\ UNCHANGED <<config, summaries, cancelled, batch, context, closes, rec>>

--------------------------------------------------------------------------------
Complete(r) == CompleteClose(r) \/ CompleteRecord(r)
Run(r)      == Start(r) \/ StartFails(r) \/ RunEnds(r)
Finisher(r) == ReleaseIdle(r) \/ TakePending(r) \/ FilterOne(r) \/ NothingKept(r)
                 \/ Merge(r) \/ HandOffCollect(r) \/ HandOffNext(r)

Next == Reload \/ \E r \in Requests : Submit(r) \/ Cancel(r) \/ Complete(r) \/ Run(r) \/ Finisher(r)

\* Goroutines that can move are scheduled, and a run that has started ends: its
\* turn has an idle timeout and its goal a turn limit.
Fairness ==
  \A r \in Requests : WF_vars(Complete(r)) /\ WF_vars(Run(r)) /\ WF_vars(Finisher(r))

Spec == Init /\ [][Next]_vars
FairSpec == Spec /\ Fairness

--------------------------------------------------------------------------------
(* Properties.                                                             *)

\* The state keeps its types; no out channel is closed more than once.
TypeOK ==
  /\ config \in Configs
  /\ active \in Requests \cup {NoRequest}
  /\ pending \in Seq(Requests)
  /\ summaries \in SUBSET Requests
  /\ life \in [Requests -> Lives]
  /\ cancelled \in [Requests -> BOOLEAN]
  /\ cfg \in [Requests -> Configs]
  /\ batch \in [Requests -> Seq(Requests)]
  /\ kept \in [Requests -> Seq(Requests)]
  /\ carried \in [Requests -> SUBSET Requests]
  /\ context \in [Requests -> SUBSET Requests]
  /\ fate \in [Requests -> Fates]
  /\ closes \in [Requests -> 0..1]
  /\ rec \in [Requests -> Statuses]

Live(r)     == life[r] \in {"starting", "running"}
Accepted(r) == life[r] # "new"

\* A request that waits is in the queue or in the hands of exactly one finishing
\* run, once: no interleaving of Submit with the unlocked part of onRunFinished
\* loses a request or lets it be answered twice.
Holds(r) == Range(batch[r]) \cup Range(kept[r])

NoneLost ==
  \A q \in Requests :
    life[q] = "queued" <=> q \in Range(pending) \/ \E r \in Requests : q \in Holds(r)

NoneTwice ==
  /\ IsInjective(pending)
  /\ \A r \in Requests :
       /\ IsInjective(batch[r]) /\ IsInjective(kept[r])
       /\ Range(batch[r]) \cap Range(kept[r]) = {}
       /\ Range(pending) \cap Holds(r) = {}
       /\ \A s \in Requests \ {r} : Holds(r) \cap Holds(s) = {}

HeldOnce == NoneLost /\ NoneTwice

\* The out channel of a request is closed by exactly one of completeQueuedRun,
\* filterPendingQueuedRuns and its own goroutine; a second close would panic.
ClosedOnce ==
  \A r \in Requests :
    closes[r] = IF life[r] \in {"new", "queued", "retired"} \/ Live(r) THEN 0 ELSE 1

\* A queue is never left with nobody to drain it: while a request is pending,
\* the lane names an active run that has yet to pass through onRunFinished; and
\* summaries never outlive the queue, where deleting the entry would lose them.
NeverStranded ==
  /\ summaries # {} => pending # <<>>
  /\ pending # <<>> => active # NoRequest
  /\ active # NoRequest => Live(active) \/ life[active] = "finished"

\* No message reaches an agent twice: at most one place speaks for a request,
\* only for one that was merged or dropped, never for one that runs itself; and
\* a merged one is spoken for by a run that is dispatched or about to be.
Speakers(q) == (IF q \in summaries THEN {NoRequest} ELSE {})
                 \cup {r \in Requests : q \in carried[r] \cup context[r]}

SpokenOnce ==
  \A q \in Requests :
    /\ \A s, t \in Speakers(q) : s = t
    /\ Speakers(q) # {} => fate[q] \in {"merged", "dropped"}
    /\ fate[q] = "merged" =>
         \E r \in Requests : /\ q \in context[r]
                             /\ \/ fate[r] = "dispatched"
                                \/ \E f \in Requests : life[f] = "merging" /\ kept[f] = <<r>>

\* The limit on pending requests holds in every mode that never puts requests
\* back behind newer ones.
QueueWithinLimit == config.max > 0 => Len(pending) <= config.max

\* FinishRun and BeginRun overwrite a status without looking at it; the lane
\* still never moves a run out of a terminal status.
TerminalRecordStays ==
  [][\A r \in Requests : rec[r] \in Terminal => rec'[r] = rec[r]]_vars

\* Every accepted request has its event stream ended.
EveryRequestAnswered == \A r \in Requests : Accepted(r) ~> closes[r] = 1

\* The lane comes to rest: the entry of the key is deleted and no goroutine of it
\* is left.
Resting(r) == life[r] \in {"new", "answered", "done"}
AtRest == active = NoRequest /\ pending = <<>> /\ \A r \in Requests : Resting(r)
LaneDrains == <>[]AtRest

\* docs/anyai-design.md:1269: one session has at most one active run at a time.
OneActiveRun == Cardinality({r \in Requests : Live(r)}) <= 1
================================================================================
