--------------------------- MODULE SessionLaneProofs ---------------------------
(***************************************************************************)
(* Proofs about SessionLane: its type invariant, that a waiting request is *)
(* held in exactly one place, that an out channel is closed once, that a   *)
(* queue is never left without an active run, and that no message reaches  *)
(* an agent twice.                                                         *)
(***************************************************************************)
EXTENDS SessionLane, QueueLemmas

\* Only a finishing run between TakePending and its hand-off holds requests.
HandsFree ==
  \A r \in Requests :
    /\ life[r] \notin {"filtering", "merging"} => batch[r] = <<>> /\ kept[r] = <<>>
    /\ life[r] = "merging" => batch[r] = <<>> /\ \E o \in Requests : kept[r] = <<o>>

LaneInv == TypeOK /\ HeldOnce /\ ClosedOnce /\ HandsFree /\ NeverStranded

--------------------------------------------------------------------------------
USE NoRequestAssumption, ConfigsAssumption

\* The lane starts in its invariant.
LEMMA LaneInit == Init => LaneInv
<1> SUFFICES ASSUME Init PROVE LaneInv
  OBVIOUS
<1>1. TypeOK
  BY DEF Init, TypeOK, Lives, Fates, Statuses
<1>2. HeldOnce
  BY EmptyElements DEF Init, HeldOnce, NoneLost, NoneTwice, Holds
<1>3. ClosedOnce /\ HandsFree /\ NeverStranded
  BY DEF Init, ClosedOnce, HandsFree, NeverStranded, Live
<1> QED
  BY <1>1, <1>2, <1>3 DEF LaneInv

\* A step that moves no request into or out of the queue keeps every waiting
\* request where it was.
LEMMA Untouched ==
  ASSUME HeldOnce, UNCHANGED <<pending, batch, kept>>,
         \A q \in Requests : life'[q] = "queued" <=> life[q] = "queued"
  PROVE  HeldOnce'
BY DEF HeldOnce, NoneLost, NoneTwice, Holds

\* The lane's own goroutines and completeQueuedRun, outside the queue.
LEMMA QuietSteps ==
  ASSUME LaneInv, NEW r \in Requests,
         Cancel(r) \/ CompleteClose(r) \/ CompleteRecord(r) \/ Start(r) \/ StartFails(r)
           \/ RunEnds(r) \/ ReleaseIdle(r) \/ NothingKept(r)
  PROVE  LaneInv'
<1> USE DEF LaneInv
<1>1. CASE Cancel(r)
  <2>1. TypeOK' /\ ClosedOnce' /\ HandsFree' /\ NeverStranded'
    BY <1>1 DEF Cancel, TypeOK, ClosedOnce, HandsFree, NeverStranded, Live, lane, finisher
  <2> QED
    BY <1>1, <2>1, Untouched DEF Cancel, TypeOK, lane, finisher
<1>2. CASE CompleteClose(r)
  <2>1. TypeOK' /\ ClosedOnce' /\ HandsFree' /\ NeverStranded'
    BY <1>2 DEF CompleteClose, TypeOK, ClosedOnce, HandsFree, NeverStranded, Live, lane,
                finisher, Lives
  <2> QED
    BY <1>2, <2>1, Untouched DEF CompleteClose, TypeOK, lane, finisher
<1>3. CASE CompleteRecord(r)
  <2>1. TypeOK' /\ ClosedOnce' /\ HandsFree' /\ NeverStranded'
    BY <1>3 DEF CompleteRecord, TypeOK, ClosedOnce, HandsFree, NeverStranded, Live, lane,
                finisher, Lives, Statuses
  <2> QED
    BY <1>3, <2>1, Untouched DEF CompleteRecord, TypeOK, lane, finisher
<1>4. CASE Start(r)
  <2>1. TypeOK' /\ ClosedOnce' /\ HandsFree' /\ NeverStranded'
    BY <1>4 DEF Start, TypeOK, ClosedOnce, HandsFree, NeverStranded, Live, lane, finisher,
                Lives, Statuses
  <2> QED
    BY <1>4, <2>1, Untouched DEF Start, TypeOK, lane, finisher
<1>5. CASE StartFails(r)
  <2>1. TypeOK' /\ ClosedOnce' /\ HandsFree' /\ NeverStranded'
    BY <1>5 DEF StartFails, TypeOK, ClosedOnce, HandsFree, NeverStranded, Live, lane,
                finisher, Lives
  <2> QED
    BY <1>5, <2>1, Untouched DEF StartFails, TypeOK, lane, finisher
<1>6. CASE RunEnds(r)
  <2>1. TypeOK' /\ ClosedOnce' /\ HandsFree' /\ NeverStranded'
    BY <1>6 DEF RunEnds, TypeOK, ClosedOnce, HandsFree, NeverStranded, Live, lane, finisher,
                Lives, Statuses, Terminal
  <2> QED
    BY <1>6, <2>1, Untouched DEF RunEnds, TypeOK, lane, finisher
<1>7. CASE ReleaseIdle(r)
  <2>1. TypeOK' /\ ClosedOnce' /\ HandsFree' /\ NeverStranded'
    BY <1>7 DEF ReleaseIdle, Released, TypeOK, ClosedOnce, HandsFree, NeverStranded, Live,
                finisher, Lives
  <2> QED
    BY <1>7, <2>1, Untouched DEF ReleaseIdle, TypeOK, finisher
<1>8. CASE NothingKept(r)
  <2>1. TypeOK' /\ ClosedOnce' /\ HandsFree' /\ NeverStranded'
    BY <1>8 DEF NothingKept, TypeOK, ClosedOnce, HandsFree, NeverStranded, Live, lane, Lives
  <2> QED
    BY <1>8, <2>1, Untouched DEF NothingKept, TypeOK, lane
<1> QED
  BY <1>1, <1>2, <1>3, <1>4, <1>5, <1>6, <1>7, <1>8

\* A waiting request is nobody's active run and is not being completed.
LEMMA HeldAreQueued ==
  ASSUME LaneInv
  PROVE  /\ \A q \in Range(pending) : q \in Requests /\ life[q] = "queued"
         /\ \A r \in Requests : \A q \in Holds(r) : q \in Requests /\ life[q] = "queued"
<1>1. Range(pending) \subseteq Requests
  BY RangeIsElements DEF LaneInv, TypeOK
<1>2. ASSUME NEW r \in Requests PROVE Holds(r) \subseteq Requests
  BY RangeIsElements DEF LaneInv, TypeOK, Holds
<1> QED
  BY <1>1, <1>2 DEF LaneInv, HeldOnce, NoneLost

\* Submit to an idle lane: the request becomes the active run.
LEMMA SubmitIdleStep ==
  ASSUME LaneInv, NEW r \in Requests, SubmitIdle(r)
  PROVE  LaneInv'
<1> USE DEF LaneInv
<1>1. TypeOK'
  BY DEF SubmitIdle, Accept, Dispatch, TypeOK, Lives, Fates, Statuses, finisher
<1>2. ClosedOnce' /\ HandsFree' /\ NeverStranded'
  BY DEF SubmitIdle, Accept, Dispatch, TypeOK, ClosedOnce, HandsFree, NeverStranded, Live, finisher
<1>3. HeldOnce'
  BY Untouched DEF SubmitIdle, Accept, Dispatch, TypeOK, finisher
<1> QED
  BY <1>1, <1>2, <1>3

\* The drop loop cuts the queue in two.
LEMMA DropLoop ==
  ASSUME config \in SessionConfig, NEW q \in Seq(Requests)
  PROVE  /\ Retained(q) \in Seq(Requests) /\ Dropped(q) \in Seq(Requests)
         /\ Range(q) = Range(Retained(q)) \cup Range(Dropped(q))
         /\ q # <<>> => Retained(q) # <<>>
         /\ IsInjective(q) => /\ IsInjective(Retained(q))
                              /\ Range(Retained(q)) \cap Range(Dropped(q)) = {}
<1>1. Len(q) \in Nat /\ config.max \in Nat
  BY DEF SessionConfig
<1>2. Overflow(q) \in 0..Len(q) /\ Len(q) - Overflow(q) \in 0..Len(q)
  BY <1>1 DEF Overflow
<1>3. /\ Retained(q) \in Seq(Requests) /\ Dropped(q) \in Seq(Requests)
      /\ Range(q) = Range(Retained(q)) \cup Range(Dropped(q))
      /\ IsInjective(q) => /\ IsInjective(Retained(q))
                           /\ Range(Retained(q)) \cap Range(Dropped(q)) = {}
  BY <1>2, CutElements DEF Retained, Dropped
<1>4. q # <<>> => Retained(q) # <<>>
  <2>1. q # <<>> => Len(q) - Overflow(q) > 0
    BY <1>1 DEF Overflow
  <2>2. Len(Retained(q)) = Len(q) - Overflow(q)
    BY <1>1, <1>2 DEF Retained
  <2> QED
    BY <1>3, <2>1, <2>2
<1> QED
  BY <1>3, <1>4

\* Submit behind an active run: the request waits, and what the drop loop takes
\* off the queue is retired.
LEMMA SubmitEnqueueStep ==
  ASSUME LaneInv, NEW r \in Requests, SubmitEnqueue(r)
  PROVE  LaneInv'
<1> USE DEF LaneInv
<1> DEFINE q == Append(pending, r)
           D == Range(Dropped(q))
<1>1. life[r] = "new" /\ r \notin Range(pending) /\ \A s \in Requests : r \notin Holds(s)
  BY HeldAreQueued DEF SubmitEnqueue, Accept
<1>2. q \in Seq(Requests) /\ q # <<>> /\ Range(q) = Range(pending) \cup {r} /\ IsInjective(q)
  <2>1. pending \in Seq(Requests) /\ IsInjective(pending)
    BY DEF TypeOK, HeldOnce, NoneTwice
  <2> QED
    BY <1>1, <2>1, AppendElements
<1>3. config \in SessionConfig
  BY DEF TypeOK
<1>4. /\ Retained(q) \in Seq(Requests) /\ Dropped(q) \in Seq(Requests)
      /\ Range(q) = Range(Retained(q)) \cup D
      /\ Retained(q) # <<>>
      /\ IsInjective(Retained(q)) /\ Range(Retained(q)) \cap D = {}
  BY <1>2, <1>3, DropLoop
<1>5. D \subseteq Requests
  BY <1>4, RangeIsElements
<1>6. /\ pending' = Retained(q)
      /\ life' = [s \in Requests |-> IF s \in D THEN "retired" ELSE [life EXCEPT ![r] = "queued"][s]]
      /\ fate' = [s \in Requests |-> IF s \in D THEN "dropped" ELSE fate[s]]
      /\ summaries' \in SUBSET Requests
      /\ active # NoRequest
      /\ UNCHANGED <<config, active, cancelled, batch, kept, carried, context, closes>>
      /\ cfg' = [cfg EXCEPT ![r] = config] /\ rec' = [rec EXCEPT ![r] = "queued"]
  BY <1>5 DEF SubmitEnqueue, Accept, Retire, finisher, TypeOK
<1> HIDE DEF q, D
<1>7. TypeOK'
  BY <1>4, <1>6 DEF TypeOK, Lives, Fates, Statuses
<1>8. \A s \in Requests :
        \/ life'[s] = life[s] /\ s # r /\ s \notin D
        \/ s \in D /\ life'[s] = "retired" /\ (s = r \/ life[s] = "queued")
        \/ s = r /\ s \notin D /\ life'[s] = "queued"
  BY <1>1, <1>2, <1>4, <1>6, HeldAreQueued DEF TypeOK
<1>9. ClosedOnce'
  BY <1>1, <1>6, <1>8 DEF ClosedOnce, Live, TypeOK
<1>10. HandsFree'
  BY <1>1, <1>6, <1>8 DEF HandsFree, TypeOK
<1>11. NeverStranded'
  BY <1>1, <1>4, <1>6, <1>8 DEF NeverStranded, Live, TypeOK
<1>12. NoneLost'
  BY <1>1, <1>2, <1>4, <1>6, <1>8, HeldAreQueued DEF HeldOnce, NoneLost, NoneTwice, Holds
<1>13. NoneTwice'
  <2>1. IsInjective(pending') /\ Range(pending') \subseteq Range(pending) \cup {r}
    BY <1>2, <1>4, <1>6
  <2>2. \A s \in Requests : Holds(s)' = Holds(s)
    BY <1>6 DEF Holds
  <2> QED
    BY <1>1, <1>6, <2>1, <2>2 DEF HeldOnce, NoneTwice
<1> QED
  BY <1>7, <1>9, <1>10, <1>11, <1>12, <1>13 DEF HeldOnce

\* Submit in interrupt mode: the request replaces the queue, which is retired.
LEMMA SubmitInterruptStep ==
  ASSUME LaneInv, NEW r \in Requests, SubmitInterrupt(r)
  PROVE  LaneInv'
<1> USE DEF LaneInv
<1> DEFINE D == Range(pending)
<1>1. life[r] = "new" /\ r \notin D /\ \A s \in Requests : r \notin Holds(s)
  BY HeldAreQueued DEF SubmitInterrupt, Accept
<1>2. /\ pending' \in Seq(Requests) /\ Range(pending') = {r} /\ IsInjective(pending')
      /\ pending' # <<>>
  BY SingletonElements DEF SubmitInterrupt
<1>3. /\ life' = [s \in Requests |-> IF s \in D THEN "retired" ELSE [life EXCEPT ![r] = "queued"][s]]
      /\ fate' = [s \in Requests |-> IF s \in D THEN "superseded" ELSE fate[s]]
      /\ active # NoRequest
      /\ UNCHANGED <<config, active, summaries, batch, kept, carried, context, closes>>
      /\ cfg' = [cfg EXCEPT ![r] = config] /\ rec' = [rec EXCEPT ![r] = "queued"]
      /\ cancelled' = [cancelled EXCEPT ![active] = TRUE]
  BY DEF SubmitInterrupt, Accept, Retire, finisher
<1> HIDE DEF D
<1>4. TypeOK'
  BY <1>2, <1>3 DEF TypeOK, Lives, Fates, Statuses
<1>5. \A s \in Requests :
        \/ life'[s] = life[s] /\ s # r /\ s \notin D
        \/ s \in D /\ life'[s] = "retired" /\ life[s] = "queued"
        \/ s = r /\ s \notin D /\ life'[s] = "queued"
  BY <1>1, <1>3, HeldAreQueued DEF TypeOK, D
<1>6. ClosedOnce'
  BY <1>1, <1>3, <1>5 DEF ClosedOnce, Live, TypeOK
<1>7. HandsFree'
  BY <1>1, <1>3, <1>5 DEF HandsFree, TypeOK
<1>8. NeverStranded'
  BY <1>1, <1>2, <1>3, <1>5 DEF NeverStranded, Live, TypeOK
<1>9. NoneLost'
  BY <1>1, <1>2, <1>3, <1>5, HeldAreQueued DEF HeldOnce, NoneLost, NoneTwice, Holds, D
<1>10. NoneTwice'
  BY <1>1, <1>2, <1>3 DEF HeldOnce, NoneTwice, Holds
<1> QED
  BY <1>4, <1>6, <1>7, <1>8, <1>9, <1>10 DEF HeldOnce

\* A finishing run takes the whole queue into its hands.
LEMMA TakePendingStep ==
  ASSUME LaneInv, NEW r \in Requests, TakePending(r)
  PROVE  LaneInv'
<1> USE DEF LaneInv
<1>1. batch[r] = <<>> /\ kept[r] = <<>>
  BY DEF TakePending, HandsFree
<1>2. /\ batch' = [batch EXCEPT ![r] = pending] /\ pending' = <<>>
      /\ life' = [life EXCEPT ![r] = "filtering"] /\ life[r] = "finished"
      /\ active' = IF active = r THEN NoRequest ELSE active
      /\ summaries' = {}
      /\ UNCHANGED <<kept, closes>>
  BY DEF TakePending, Released
<1>3. TypeOK'
  BY DEF TakePending, Released, TypeOK, Lives
<1>4. ClosedOnce' /\ HandsFree' /\ NeverStranded'
  BY <1>1, <1>2 DEF ClosedOnce, HandsFree, NeverStranded, Live, TypeOK
<1>5. Range(pending') = {} /\ IsInjective(pending') /\ Range(batch[r]) = {} /\ Range(kept[r]) = {}
  BY <1>1, <1>2, EmptyElements
<1>6. /\ Range(batch'[r]) = Range(pending) /\ IsInjective(batch'[r])
      /\ \A s \in Requests \ {r} : batch'[s] = batch[s]
  BY <1>2 DEF TypeOK, HeldOnce, NoneTwice
<1>7. NoneLost'
  <2>1. Holds(r) = {} /\ Holds(r)' = Range(pending)
    BY <1>2, <1>5, <1>6 DEF Holds
  <2>2. \A s \in Requests \ {r} : Holds(s)' = Holds(s)
    BY <1>2, <1>6 DEF Holds
  <2>3. \A q \in Requests : life'[q] = "queued" <=> life[q] = "queued"
    BY <1>2 DEF TypeOK
  <2> QED
    BY <1>5, <2>1, <2>2, <2>3 DEF HeldOnce, NoneLost
<1>8. NoneTwice'
  BY <1>2, <1>5, <1>6 DEF HeldOnce, NoneTwice, Holds
<1> QED
  BY <1>3, <1>4, <1>7, <1>8 DEF HeldOnce

\* One request of the batch is answered as cancelled, or kept.
LEMMA FilterOneStep ==
  ASSUME LaneInv, NEW r \in Requests, FilterOne(r)
  PROVE  LaneInv'
<1> USE DEF LaneInv
<1> DEFINE q == Head(batch[r])
<1>1. /\ life[r] = "filtering" /\ batch[r] \in Seq(Requests) /\ batch[r] # <<>>
      /\ kept[r] \in Seq(Requests) /\ IsInjective(batch[r]) /\ IsInjective(kept[r])
      /\ Range(batch[r]) \cap Range(kept[r]) = {}
  BY DEF FilterOne, TypeOK, HeldOnce, NoneTwice
<1>2. /\ q \in Requests /\ Tail(batch[r]) \in Seq(Requests)
      /\ Range(batch[r]) = {q} \cup Range(Tail(batch[r]))
      /\ IsInjective(Tail(batch[r])) /\ q \notin Range(Tail(batch[r]))
  BY <1>1, HeadTailElements
<1>3. /\ batch' = [batch EXCEPT ![r] = Tail(batch[r])]
      /\ UNCHANGED <<config, active, pending, summaries, cancelled, cfg, carried, context>>
  BY DEF FilterOne, lane
<1>4. /\ q \in Holds(r) /\ q \notin Range(kept[r]) /\ life[q] = "queued" /\ q # r
      /\ q \notin Range(pending)
      /\ \A s \in Requests \ {r} : q \notin Holds(s)
  <2>1. q \in Holds(r) /\ q \notin Range(kept[r])
    BY <1>1, <1>2 DEF Holds
  <2>2. life[q] = "queued"
    BY <2>1, HeldAreQueued
  <2>3. q \notin Range(pending) /\ \A s \in Requests \ {r} : q \notin Holds(s)
    BY <2>1 DEF HeldOnce, NoneTwice
  <2> QED
    BY <1>1, <2>1, <2>2, <2>3
<1> HIDE DEF q
<1>5. CASE cancelled[q]
  <2>1. /\ life' = [life EXCEPT ![q] = "answered"] /\ fate' = [fate EXCEPT ![q] = "cancelled"]
        /\ closes' = [closes EXCEPT ![q] = @ + 1] /\ rec' = [rec EXCEPT ![q] = "aborted"]
        /\ kept' = kept
    BY <1>5 DEF FilterOne, q
  <2>2. TypeOK' /\ ClosedOnce'
    BY <1>2, <1>3, <1>4, <2>1 DEF TypeOK, ClosedOnce, Live, Lives, Fates, Statuses
  <2>3. HandsFree' /\ NeverStranded'
    BY <1>1, <1>2, <1>3, <1>4, <2>1 DEF HandsFree, NeverStranded, Live, TypeOK
  <2>4. /\ Holds(r)' = Holds(r) \ {q}
        /\ \A s \in Requests \ {r} : Holds(s)' = Holds(s)
    BY <1>2, <1>3, <1>4, <2>1 DEF Holds, TypeOK
  <2>5. NoneLost'
    <3>1. ~ q \in Range(pending') /\ ~ \E s \in Requests : q \in Holds(s)'
      BY <1>3, <1>4, <2>4
    <3>2. life'[q] # "queued" /\ \A t \in Requests \ {q} : life'[t] = life[t]
      BY <1>2, <2>1 DEF TypeOK
    <3>3. \A t \in Requests \ {q}, s \in Requests : t \in Holds(s)' <=> t \in Holds(s)
      BY <2>4
    <3> QED
      BY <1>3, <3>1, <3>2, <3>3 DEF HeldOnce, NoneLost
  <2>6. \A s \in Requests : /\ IsInjective(batch'[s]) /\ IsInjective(kept'[s])
                            /\ Range(batch'[s]) \cap Range(kept'[s]) = {}
    BY <1>1, <1>2, <1>3, <2>1 DEF HeldOnce, NoneTwice, TypeOK
  <2>7. NoneTwice'
    BY <1>3, <2>4, <2>6 DEF HeldOnce, NoneTwice
  <2> QED
    BY <2>2, <2>3, <2>5, <2>7 DEF HeldOnce
<1>6. CASE ~cancelled[q]
  <2>1. kept' = [kept EXCEPT ![r] = Append(kept[r], q)] /\ UNCHANGED <<life, fate, closes, rec>>
    BY <1>6 DEF FilterOne, q
  <2>2. /\ Append(kept[r], q) \in Seq(Requests) /\ IsInjective(Append(kept[r], q))
        /\ Range(Append(kept[r], q)) = Range(kept[r]) \cup {q}
    BY <1>1, <1>2, <1>4, AppendElements
  <2>3. TypeOK' /\ ClosedOnce'
    BY <1>2, <1>3, <2>1, <2>2 DEF TypeOK, ClosedOnce, Live
  <2>4. HandsFree' /\ NeverStranded'
    BY <1>1, <1>3, <2>1 DEF HandsFree, NeverStranded, Live, TypeOK
  <2>5. \A s \in Requests : Holds(s)' = Holds(s)
    BY <1>2, <1>3, <2>1, <2>2 DEF Holds, TypeOK
  <2>6. NoneLost'
    BY <1>3, <2>1, <2>5 DEF HeldOnce, NoneLost
  <2>7. \A s \in Requests : /\ IsInjective(batch'[s]) /\ IsInjective(kept'[s])
                            /\ Range(batch'[s]) \cap Range(kept'[s]) = {}
    BY <1>1, <1>2, <1>3, <2>1, <2>2 DEF HeldOnce, NoneTwice, TypeOK
  <2>8. NoneTwice'
    BY <1>3, <2>5, <2>7 DEF HeldOnce, NoneTwice
  <2> QED
    BY <2>3, <2>4, <2>6, <2>8 DEF HeldOnce
<1> QED
  BY <1>5, <1>6

\* The owner of a batch is one of its requests.
LEMMA OwnerIsKept ==
  ASSUME NEW r \in Requests, kept[r] \in Seq(Requests), kept[r] # <<>>
  PROVE  Owner(r) \in Range(kept[r]) /\ Owner(r) \in Requests
<1>1. Len(kept[r]) \in 1..Len(kept[r])
  BY EmptySeq
<1> QED
  BY <1>1, RangeIsElements DEF Owner

\* collect: all kept requests but the owner are retired.
LEMMA MergeStep ==
  ASSUME LaneInv, NEW r \in Requests, Merge(r)
  PROVE  LaneInv'
<1> USE DEF LaneInv
<1> DEFINE o == Owner(r)
           M == Merged(r)
<1>1. /\ life[r] = "filtering" /\ batch[r] = <<>> /\ kept[r] # <<>> /\ kept[r] \in Seq(Requests)
      /\ Range(batch[r]) = {} /\ IsInjective(batch[r])
  BY EmptyElements DEF Merge, TypeOK
<1>2. /\ o \in Range(kept[r]) /\ o \in Requests /\ M = Range(kept[r]) \ {o}
      /\ M \subseteq Requests
  BY <1>1, OwnerIsKept, RangeIsElements DEF Merged
<1>3. /\ <<o>> \in Seq(Requests) /\ Range(<<o>>) = {o} /\ IsInjective(<<o>>) /\ <<o>> # <<>>
  BY <1>2, SingletonElements
<1>4. /\ life' = [s \in Requests |-> IF s \in M THEN "retired" ELSE [life EXCEPT ![r] = "merging"][s]]
      /\ fate' = [s \in Requests |-> IF s \in M THEN "merged" ELSE fate[s]]
      /\ kept' = [kept EXCEPT ![r] = <<o>>]
      /\ context' = [context EXCEPT ![o] = carried[r] \cup M]
      /\ carried' = [carried EXCEPT ![r] = {}]
      /\ UNCHANGED <<config, active, pending, summaries, cancelled, cfg, batch, closes, rec>>
  BY DEF Merge, Retire, lane
<1> HIDE DEF o, M
<1>5. /\ \A s \in M \cup {o} : life[s] = "queued" /\ s # r
      /\ Holds(r) = M \cup {o} /\ o \notin M
  <2>1. Holds(r) = M \cup {o} /\ o \notin M
    BY <1>1, <1>2 DEF Holds
  <2> QED
    BY <1>1, <2>1, HeldAreQueued
<1>6. TypeOK'
  BY <1>2, <1>3, <1>4 DEF TypeOK, Lives, Fates
<1>7. \A s \in Requests :
        \/ s = r /\ life'[s] = "merging"
        \/ s \in M /\ life'[s] = "retired" /\ life[s] = "queued"
        \/ s # r /\ s \notin M /\ life'[s] = life[s]
  BY <1>4, <1>5 DEF TypeOK
<1>8. ClosedOnce'
  BY <1>1, <1>4, <1>7 DEF ClosedOnce, Live, TypeOK
<1>9. HandsFree'
  BY <1>1, <1>2, <1>3, <1>4, <1>7 DEF HandsFree, TypeOK
<1>10. NeverStranded'
  BY <1>1, <1>4, <1>7 DEF NeverStranded, Live, TypeOK
<1>11. Holds(r)' = {o} /\ \A s \in Requests \ {r} : Holds(s)' = Holds(s)
  BY <1>1, <1>3, <1>4 DEF Holds, TypeOK
<1>12. NoneLost'
  <2>1. \A s \in M : s \notin Range(pending) /\ \A t \in Requests \ {r} : s \notin Holds(t)
    BY <1>5 DEF HeldOnce, NoneTwice
  <2>2. \A s \in Requests \ (M \cup {r}) : s \in Holds(r)' <=> s \in Holds(r)
    BY <1>5, <1>11
  <2>3. life'[o] = "queued" /\ life'[r] # "queued" /\ life[r] # "queued"
    BY <1>1, <1>2, <1>5, <1>7
  <2> QED
    BY <1>4, <1>5, <1>7, <1>11, <2>1, <2>2, <2>3 DEF HeldOnce, NoneLost
<1>13. \A s \in Requests : /\ IsInjective(batch'[s]) /\ IsInjective(kept'[s])
                           /\ Range(batch'[s]) \cap Range(kept'[s]) = {}
  BY <1>1, <1>3, <1>4 DEF HeldOnce, NoneTwice, TypeOK
<1>14. NoneTwice'
  BY <1>4, <1>5, <1>11, <1>13 DEF HeldOnce, NoneTwice
<1> QED
  BY <1>6, <1>8, <1>9, <1>10, <1>12, <1>14 DEF HeldOnce

\* collect: the owner leaves the finisher's hands and becomes the active run.
LEMMA HandOffCollectStep ==
  ASSUME LaneInv, NEW r \in Requests, HandOffCollect(r)
  PROVE  LaneInv'
<1> USE DEF LaneInv
<1> DEFINE o == Owner(r)
<1>1. /\ life[r] = "merging" /\ batch[r] = <<>> /\ Range(batch[r]) = {}
      /\ IsInjective(batch[r])
  BY EmptyElements DEF HandOffCollect, HandsFree
<1>2. /\ o \in Requests /\ Range(kept[r]) = {o}
  <2>1. PICK x \in Requests : kept[r] = <<x>>
    BY <1>1 DEF HandsFree
  <2>2. o = x
    BY <2>1 DEF Owner
  <2> QED
    BY <2>1, <2>2, SingletonElements
<1>3. Holds(r) = {o} /\ life[o] = "queued" /\ o # r
  <2>1. Holds(r) = {o}
    BY <1>1, <1>2 DEF Holds
  <2> QED
    BY <1>1, <2>1, HeldAreQueued
<1>4. /\ o \notin Range(pending)
      /\ \A s \in Requests \ {r} : o \notin Holds(s)
  BY <1>3 DEF HeldOnce, NoneTwice
<1>5. /\ active' = o
      /\ life' = [[life EXCEPT ![r] = "done"] EXCEPT ![o] = "starting"]
      /\ fate' = [fate EXCEPT ![o] = "dispatched"] /\ cfg' = [cfg EXCEPT ![o] = cfg[r]]
      /\ kept' = [kept EXCEPT ![r] = <<>>]
      /\ UNCHANGED <<config, pending, summaries, cancelled, batch, carried, context, closes, rec>>
  BY DEF HandOffCollect, Dispatch
<1> HIDE DEF o
<1>6. TypeOK'
  BY <1>2, <1>5, EmptySeq DEF TypeOK, Lives, Fates
<1>7. \A s \in Requests : life'[s] = IF s = o THEN "starting" ELSE IF s = r THEN "done" ELSE life[s]
  BY <1>2, <1>3, <1>5 DEF TypeOK
<1>8. ClosedOnce' /\ HandsFree' /\ NeverStranded'
  <2>1. ClosedOnce'
    <3>1. \A s \in Requests :
            life'[s] \in {"new", "queued", "retired", "starting", "running"}
              <=> life[s] \in {"new", "queued", "retired", "starting", "running"}
      BY <1>1, <1>2, <1>3, <1>7
    <3> QED
      BY <1>5, <3>1 DEF ClosedOnce, Live
  <2>2. HandsFree'
    BY <1>1, <1>2, <1>3, <1>5, <1>7 DEF HandsFree, TypeOK
  <2>3. NeverStranded'
    BY <1>2, <1>5, <1>7, NoRequestAssumption DEF NeverStranded, Live
  <2> QED
    BY <2>1, <2>2, <2>3
<1>9. Holds(r)' = {} /\ \A s \in Requests \ {r} : Holds(s)' = Holds(s)
  BY <1>1, <1>5, EmptyElements DEF Holds, TypeOK
<1>10. NoneLost'
  <2>1. ~ o \in Range(pending') /\ ~ \E s \in Requests : o \in Holds(s)'
    BY <1>4, <1>5, <1>9
  <2>2. \A s \in Requests \ {o} : life'[s] = "queued" <=> life[s] = "queued"
    BY <1>1, <1>7
  <2>3. ASSUME NEW s \in Requests \ {o}
        PROVE  (s \in Range(pending') \/ \E t \in Requests : s \in Holds(t)')
                 <=> (s \in Range(pending) \/ \E t \in Requests : s \in Holds(t))
    BY <1>3, <1>5, <1>9
  <2> QED
    BY <1>2, <1>7, <2>1, <2>2, <2>3 DEF HeldOnce, NoneLost
<1>11. \A s \in Requests : /\ IsInjective(batch'[s]) /\ IsInjective(kept'[s])
                           /\ Range(batch'[s]) \cap Range(kept'[s]) = {}
  BY <1>1, <1>5, EmptyElements DEF HeldOnce, NoneTwice, TypeOK
<1>12. NoneTwice'
  BY <1>5, <1>9, <1>11 DEF HeldOnce, NoneTwice
<1> QED
  BY <1>6, <1>8, <1>10, <1>12 DEF HeldOnce

\* followup and interrupt: the first kept request becomes the active run, the
\* others return to the queue.
LEMMA HandOffNextStep ==
  ASSUME LaneInv, NEW r \in Requests, HandOffNext(r)
  PROVE  LaneInv'
<1> USE DEF LaneInv
<1> DEFINE n == Head(kept[r])
           T == Tail(kept[r])
<1>1. /\ life[r] = "filtering" /\ batch[r] = <<>> /\ kept[r] # <<>> /\ kept[r] \in Seq(Requests)
      /\ pending \in Seq(Requests) /\ IsInjective(pending) /\ IsInjective(kept[r])
      /\ Range(batch[r]) = {} /\ IsInjective(batch[r])
  BY EmptyElements DEF HandOffNext, TypeOK, HeldOnce, NoneTwice
<1>2. /\ n \in Requests /\ T \in Seq(Requests) /\ IsInjective(T)
      /\ Range(kept[r]) = {n} \cup Range(T) /\ n \notin Range(T)
  BY <1>1, HeadTailElements
<1>3. /\ Holds(r) = {n} \cup Range(T) /\ life[n] = "queued" /\ n # r
      /\ n \notin Range(pending) /\ Range(pending) \cap Range(T) = {}
      /\ \A s \in Requests \ {r} : Holds(r) \cap Holds(s) = {}
  <2>1. Holds(r) = {n} \cup Range(T)
    BY <1>1, <1>2 DEF Holds
  <2>2. life[n] = "queued"
    BY <2>1, HeldAreQueued
  <2>3. Range(pending) \cap Holds(r) = {} /\ \A s \in Requests \ {r} : Holds(r) \cap Holds(s) = {}
    BY DEF HeldOnce, NoneTwice
  <2> QED
    BY <1>1, <2>1, <2>2, <2>3
<1>4. /\ active' = n /\ pending' = pending \o T
      /\ life' = [[life EXCEPT ![r] = "done"] EXCEPT ![n] = "starting"]
      /\ fate' = [fate EXCEPT ![n] = "dispatched"] /\ cfg' = [cfg EXCEPT ![n] = cfg[r]]
      /\ kept' = [kept EXCEPT ![r] = <<>>] /\ carried' = [carried EXCEPT ![r] = {}]
      /\ UNCHANGED <<config, summaries, cancelled, batch, context, closes, rec>>
  BY DEF HandOffNext, Dispatch
<1> HIDE DEF n, T
<1>5. /\ pending \o T \in Seq(Requests) /\ IsInjective(pending \o T)
      /\ Range(pending \o T) = Range(pending) \cup Range(T)
  BY <1>1, <1>2, <1>3, ConcatElements
<1>6. TypeOK'
  BY <1>2, <1>4, <1>5, EmptySeq DEF TypeOK, Lives, Fates
<1>7. \A s \in Requests : life'[s] = IF s = n THEN "starting" ELSE IF s = r THEN "done" ELSE life[s]
  BY <1>2, <1>3, <1>4 DEF TypeOK
<1>8. ClosedOnce' /\ HandsFree' /\ NeverStranded'
  <2>1. ClosedOnce'
    <3>1. \A s \in Requests :
            life'[s] \in {"new", "queued", "retired", "starting", "running"}
              <=> life[s] \in {"new", "queued", "retired", "starting", "running"}
      BY <1>1, <1>2, <1>3, <1>7
    <3> QED
      BY <1>4, <3>1 DEF ClosedOnce, Live
  <2>2. HandsFree'
    BY <1>1, <1>2, <1>3, <1>4, <1>7 DEF HandsFree, TypeOK
  <2>3. NeverStranded'
    <3>1. summaries' # {} => pending' # <<>>
      BY <1>1, <1>4, <1>5, RangeIsElements, EmptyElements DEF NeverStranded
    <3> QED
      BY <1>2, <1>4, <1>7, <3>1, NoRequestAssumption DEF NeverStranded, Live
  <2> QED
    BY <2>1, <2>2, <2>3
<1>9. Holds(r)' = {} /\ \A s \in Requests \ {r} : Holds(s)' = Holds(s)
  BY <1>1, <1>4, EmptyElements DEF Holds, TypeOK
<1>10. NoneLost'
  <2>1. ~ n \in Range(pending') /\ ~ \E s \in Requests : n \in Holds(s)'
    BY <1>2, <1>3, <1>4, <1>5, <1>9
  <2>2. \A s \in Requests \ {n} : life'[s] = "queued" <=> life[s] = "queued"
    BY <1>1, <1>7
  <2>3. ASSUME NEW s \in Requests \ {n}
        PROVE  (s \in Range(pending') \/ \E t \in Requests : s \in Holds(t)')
                 <=> (s \in Range(pending) \/ \E t \in Requests : s \in Holds(t))
    BY <1>3, <1>4, <1>5, <1>9
  <2> QED
    BY <1>2, <1>7, <2>1, <2>2, <2>3 DEF HeldOnce, NoneLost
<1>11. \A s \in Requests : /\ IsInjective(batch'[s]) /\ IsInjective(kept'[s])
                           /\ Range(batch'[s]) \cap Range(kept'[s]) = {}
  BY <1>1, <1>4, EmptyElements DEF HeldOnce, NoneTwice, TypeOK
<1>12. NoneTwice'
  <2>1. \A s \in Requests : Range(pending') \cap Holds(s)' = {}
    BY <1>3, <1>4, <1>5, <1>9 DEF HeldOnce, NoneTwice
  <2>2. \A s, t \in Requests : s # t => Holds(s)' \cap Holds(t)' = {}
    BY <1>9 DEF HeldOnce, NoneTwice
  <2> QED
    BY <1>4, <1>5, <1>11, <2>1, <2>2 DEF NoneTwice
<1> QED
  BY <1>6, <1>8, <1>10, <1>12 DEF HeldOnce

--------------------------------------------------------------------------------
\* Every step keeps the lane's invariant.
LEMMA LaneNext == LaneInv /\ [Next]_vars => LaneInv'
<1> SUFFICES ASSUME LaneInv, [Next]_vars PROVE LaneInv'
  OBVIOUS
<1>1. CASE Reload
  BY <1>1, Untouched DEF Reload, LaneInv, TypeOK, ClosedOnce, HandsFree, NeverStranded, Live,
                         lane, finisher
<1>2. CASE UNCHANGED vars
  BY <1>2, Untouched DEF vars, LaneInv, TypeOK, ClosedOnce, HandsFree, NeverStranded, Live,
                         lane, finisher
<1>3. ASSUME NEW r \in Requests,
             Submit(r) \/ Cancel(r) \/ Complete(r) \/ Run(r) \/ Finisher(r)
      PROVE  LaneInv'
  <2>1. CASE SubmitIdle(r) \/ SubmitEnqueue(r) \/ SubmitInterrupt(r)
    BY <2>1, SubmitIdleStep, SubmitEnqueueStep, SubmitInterruptStep
  <2>2. CASE \/ Cancel(r) \/ CompleteClose(r) \/ CompleteRecord(r)
             \/ Start(r) \/ StartFails(r) \/ RunEnds(r) \/ ReleaseIdle(r) \/ NothingKept(r)
    BY <2>2, QuietSteps
  <2>3. CASE TakePending(r) \/ FilterOne(r) \/ Merge(r)
    BY <2>3, TakePendingStep, FilterOneStep, MergeStep
  <2>4. CASE HandOffCollect(r) \/ HandOffNext(r)
    BY <2>4, HandOffCollectStep, HandOffNextStep
  <2> QED
    BY <1>3, <2>1, <2>2, <2>3, <2>4 DEF Submit, Complete, Run, Finisher
<1> QED
  BY <1>1, <1>2, <1>3 DEF Next

\* The strengthened invariant the theorems below follow from.
THEOREM LaneInvariant == Spec => []LaneInv
BY LaneInit, LaneNext, PTL DEF Spec

\* The variables keep their types; closes stays below 2 only because no request
\* is ever answered by two of the lane's three ways to close its out channel.
THEOREM TypeCorrect == Spec => []TypeOK
BY LaneInvariant, PTL DEF LaneInv

\* However Submit interleaves with the hand-off of onRunFinished, a waiting
\* request is held in exactly one place.
THEOREM RequestsHeldOnce == Spec => []HeldOnce
BY LaneInvariant, PTL DEF LaneInv

\* No out channel is closed twice.
THEOREM OutClosedOnce == Spec => []ClosedOnce
BY LaneInvariant, PTL DEF LaneInv

\* A queue always has an active run that has yet to drain it.
THEOREM QueueNeverStranded == Spec => []NeverStranded
BY LaneInvariant, PTL DEF LaneInv

--------------------------------------------------------------------------------
\* What the recorder holds while a request still has a status to reach.
RecordInv ==
  \A r \in Requests :
    /\ life[r] = "new" => rec[r] = "none"
    /\ life[r] \in {"queued", "retired", "closed", "starting"} => rec[r] = "queued"
    /\ life[r] = "running" => rec[r] = "running"

\* Only the request that moves changes its status, and it had none of the
\* terminal ones.
LEMMA RecordStep ==
  ASSUME LaneInv, RecordInv, [Next]_vars
  PROVE  RecordInv' /\ \A r \in Requests : rec[r] \in Terminal => rec'[r] = rec[r]
<1> DEFINE Keeps == RecordInv' /\ \A r \in Requests : rec[r] \in Terminal => rec'[r] = rec[r]
<1> USE DEF RecordInv, Terminal
<1>0. TypeOK
  BY DEF LaneInv
<1>1. CASE Reload \/ UNCHANGED vars
  BY <1>1 DEF Reload, vars
<1>2. ASSUME NEW r \in Requests, Submit(r) PROVE Keeps
  <2>1. life[r] = "new" /\ rec' = [rec EXCEPT ![r] = "queued"]
    BY <1>2 DEF Submit, SubmitIdle, SubmitEnqueue, SubmitInterrupt, Accept
  <2>2. CASE SubmitIdle(r)
    BY <1>0, <2>1, <2>2 DEF SubmitIdle, Dispatch, TypeOK
  <2>3. CASE SubmitEnqueue(r)
    <3> DEFINE q == Append(pending, r)
               D == Range(Dropped(q))
    <3>1. q \in Seq(Requests) /\ Range(q) = Range(pending) \cup {r} /\ config \in SessionConfig
      BY <1>0, AppendElements DEF TypeOK
    <3>2. D \subseteq Range(pending) \cup {r}
      BY <3>1, DropLoop
    <3>3. life' = [s \in Requests |-> IF s \in D THEN "retired" ELSE [life EXCEPT ![r] = "queued"][s]]
      BY <2>3 DEF SubmitEnqueue, Retire
    <3> HIDE DEF q, D
    <3>4. \A s \in Requests \ {r} : life'[s] = life[s] \/ (life[s] = "queued" /\ life'[s] = "retired")
      BY <1>0, <3>2, <3>3, HeldAreQueued DEF TypeOK
    <3>5. life'[r] \in {"queued", "retired"}
      BY <1>0, <3>3 DEF TypeOK
    <3> QED
      BY <1>0, <2>1, <3>4, <3>5 DEF TypeOK
  <2>4. CASE SubmitInterrupt(r)
    <3>1. life' = [s \in Requests |->
                     IF s \in Range(pending) THEN "retired" ELSE [life EXCEPT ![r] = "queued"][s]]
      BY <2>4 DEF SubmitInterrupt, Retire
    <3>2. \A s \in Requests \ {r} : life'[s] = life[s] \/ (life[s] = "queued" /\ life'[s] = "retired")
      BY <1>0, <3>1, HeldAreQueued DEF TypeOK
    <3>3. life'[r] \in {"queued", "retired"}
      BY <1>0, <3>1 DEF TypeOK
    <3> QED
      BY <1>0, <2>1, <3>2, <3>3 DEF TypeOK
  <2> QED
    BY <1>2, <2>2, <2>3, <2>4 DEF Submit
<1>3. ASSUME NEW r \in Requests, Cancel(r) \/ Complete(r) \/ Run(r) PROVE Keeps
  <2>1. CASE Cancel(r)
    BY <2>1 DEF Cancel
  <2>2. CASE CompleteClose(r)
    BY <1>0, <2>2 DEF CompleteClose, TypeOK
  <2>3. CASE CompleteRecord(r)
    BY <1>0, <2>3 DEF CompleteRecord, TypeOK
  <2>4. CASE Start(r)
    BY <1>0, <2>4 DEF Start, TypeOK
  <2>5. CASE StartFails(r)
    BY <1>0, <2>5 DEF StartFails, TypeOK
  <2>6. CASE RunEnds(r)
    BY <1>0, <2>6 DEF RunEnds, TypeOK
  <2> QED
    BY <1>3, <2>1, <2>2, <2>3, <2>4, <2>5, <2>6 DEF Complete, Run
<1>4. ASSUME NEW r \in Requests, Finisher(r) PROVE Keeps
  <2>1. CASE ReleaseIdle(r) \/ TakePending(r) \/ NothingKept(r)
    BY <1>0, <2>1 DEF ReleaseIdle, TakePending, NothingKept, TypeOK
  <2>2. CASE FilterOne(r)
    <3> DEFINE q == Head(batch[r])
    <3>1. batch[r] \in Seq(Requests) /\ batch[r] # <<>>
      BY <1>0, <2>2 DEF FilterOne, TypeOK
    <3>2. q \in Requests /\ q \in Holds(r)
      BY <3>1, HeadTailElements DEF Holds
    <3>3. life[q] = "queued"
      BY <3>2, HeldAreQueued
    <3>4. \/ life' = [life EXCEPT ![q] = "answered"] /\ rec' = [rec EXCEPT ![q] = "aborted"]
          \/ UNCHANGED <<life, rec>>
      BY <2>2 DEF FilterOne
    <3> HIDE DEF q
    <3> QED
      BY <1>0, <3>2, <3>3, <3>4 DEF TypeOK
  <2>3. CASE Merge(r)
    <3>1. Merged(r) \subseteq Holds(r)
      BY DEF Merged, Holds
    <3>2. life' = [s \in Requests |->
                     IF s \in Merged(r) THEN "retired" ELSE [life EXCEPT ![r] = "merging"][s]]
      BY <2>3 DEF Merge, Retire
    <3>3. \A s \in Requests \ {r} : life'[s] = life[s] \/ (life[s] = "queued" /\ life'[s] = "retired")
      BY <1>0, <3>1, <3>2, HeldAreQueued DEF TypeOK
    <3>4. life'[r] = "merging" /\ rec' = rec
      <4>1. life[r] = "filtering" /\ rec' = rec
        BY <2>3 DEF Merge
      <4>2. r \notin Merged(r)
        BY <3>1, <4>1, HeldAreQueued
      <4> QED
        BY <1>0, <3>2, <4>1, <4>2 DEF TypeOK
    <3> QED
      BY <3>3, <3>4
  <2>4. CASE HandOffCollect(r) \/ HandOffNext(r)
    <3>1. PICK o \in Holds(r) :
            /\ life' = [[life EXCEPT ![r] = "done"] EXCEPT ![o] = "starting"]
            /\ rec' = rec
      <4>1. CASE HandOffCollect(r)
        <5>1. kept[r] \in Seq(Requests) /\ kept[r] # <<>>
          BY <1>0, <4>1, SingletonElements DEF HandOffCollect, TypeOK, LaneInv, HandsFree
        <5>2. Owner(r) \in Holds(r)
          BY <5>1, OwnerIsKept DEF Holds
        <5> QED
          BY <4>1, <5>2 DEF HandOffCollect, Dispatch
      <4>2. CASE HandOffNext(r)
        <5>1. kept[r] \in Seq(Requests) /\ kept[r] # <<>>
          BY <1>0, <4>2 DEF HandOffNext, TypeOK
        <5>2. Head(kept[r]) \in Holds(r)
          BY <5>1, HeadTailElements DEF Holds
        <5> QED
          BY <4>2, <5>2 DEF HandOffNext, Dispatch
      <4> QED
        BY <2>4, <4>1, <4>2
    <3>2. o \in Requests /\ life[o] = "queued"
      BY HeldAreQueued
    <3> QED
      BY <1>0, <3>1, <3>2 DEF TypeOK
  <2> QED
    BY <1>4, <2>1, <2>2, <2>3, <2>4 DEF Finisher
<1> QED
  BY <1>1, <1>2, <1>3, <1>4 DEF Next

\* FinishRun overwrites whatever status it finds, and is still never called for a
\* run that already has a terminal one.
THEOREM TerminalStays == Spec => TerminalRecordStays
<1>1. Init => RecordInv
  BY DEF Init, RecordInv
<1>2. LaneInv /\ RecordInv /\ [Next]_vars => RecordInv'
  BY RecordStep
<1>3. LaneInv /\ RecordInv /\ [Next]_vars
        => [\A r \in Requests : rec[r] \in Terminal => rec'[r] = rec[r]]_vars
  BY RecordStep
<1> QED
  BY LaneInvariant, <1>1, <1>2, <1>3, PTL DEF Spec, TerminalRecordStays

--------------------------------------------------------------------------------
(* No message reaches an agent twice, however submissions drop requests while  *)
(* finishing runs carry summaries and merge what they took.                    *)

Unfated(q) == life[q] \in {"new", "queued"}

\* The run of r is dispatched, or about to be.
Speaks(r) ==
  fate[r] = "dispatched" \/ \E f \in Requests : life[f] = "merging" /\ kept[f] = <<r>>

\* Who speaks for whom: the lane's summaries and what a filtering run carries are
\* dropped requests, an envelope's context those that were dropped or merged.
Entitled ==
  /\ \A q \in Requests : Unfated(q) => fate[q] = "none"
  /\ \A q \in summaries : fate[q] = "dropped"
  /\ \A r \in Requests : \A q \in carried[r] : fate[q] = "dropped" /\ life[r] = "filtering"
  /\ \A r \in Requests : \A q \in context[r] : fate[q] \in {"merged", "dropped"} /\ Speaks(r)

\* No two of them speak for one request.
Apart ==
  \A r \in Requests :
    /\ summaries \cap carried[r] = {} /\ summaries \cap context[r] = {}
    /\ \A s \in Requests : carried[r] \cap context[s] = {}
    /\ \A s \in Requests \ {r} : carried[r] \cap carried[s] = {} /\ context[r] \cap context[s] = {}

MergedIsSpoken == \A q \in Requests : fate[q] = "merged" => \E r \in Requests : q \in context[r]

SpeechInv == Entitled /\ Apart /\ MergedIsSpoken

--------------------------------------------------------------------------------
\* Nobody speaks before anything is submitted.
LEMMA SpeechInit == Init => SpeechInv
BY DEF Init, SpeechInv, Entitled, Apart, MergedIsSpoken, Unfated

\* A step after which nobody speaks for more than before, in which requests leave the
\* queue for anything but a merge, and a merging run hands its owner on.
LEMMA NothingSaid ==
  ASSUME TypeOK, SpeechInv, UNCHANGED <<summaries, context>>,
         \A r \in Requests : /\ carried'[r] \subseteq carried[r]
                             /\ carried'[r] # {} /\ life[r] = "filtering" => life'[r] = "filtering",
         \A q \in Requests : fate'[q] # fate[q] => fate[q] = "none" /\ fate'[q] # "merged",
         \A q \in Requests : Unfated(q)' => Unfated(q) /\ fate'[q] = fate[q],
         \A r \in Requests : Speaks(r) => Speaks(r)'
  PROVE  SpeechInv'
<1> USE DEF SpeechInv
<1>1. Entitled'
  <2>1. \A q \in Requests : Unfated(q)' => fate'[q] = "none"
    BY DEF Entitled
  <2>2. \A q \in summaries' : fate'[q] = "dropped"
    BY DEF Entitled, TypeOK
  <2>3. \A r \in Requests : \A q \in carried'[r] : fate'[q] = "dropped" /\ life'[r] = "filtering"
    <3> SUFFICES ASSUME NEW r \in Requests, NEW q \in carried'[r]
                 PROVE  fate'[q] = "dropped" /\ life'[r] = "filtering"
      OBVIOUS
    <3>1. q \in carried[r] /\ q \in Requests
      BY DEF TypeOK
    <3> QED
      BY <3>1 DEF Entitled
  <2>4. \A r \in Requests : \A q \in context'[r] : fate'[q] \in {"merged", "dropped"} /\ Speaks(r)'
    <3> SUFFICES ASSUME NEW r \in Requests, NEW q \in context'[r]
                 PROVE  fate'[q] \in {"merged", "dropped"} /\ Speaks(r)'
      OBVIOUS
    <3>1. q \in context[r] /\ q \in Requests
      BY DEF TypeOK
    <3> QED
      BY <3>1 DEF Entitled
  <2> QED
    BY <2>1, <2>2, <2>3, <2>4 DEF Entitled
<1>2. Apart'
  BY DEF Apart
<1>3. MergedIsSpoken'
  BY DEF MergedIsSpoken
<1> QED
  BY <1>1, <1>2, <1>3

\* Whoever speaks goes on speaking while no merging run moves and no fate is undone.
LEMMA SpeaksOn ==
  ASSUME \A q \in Requests : fate[q] = "dispatched" => fate'[q] = "dispatched",
         \A f \in Requests : life[f] = "merging" => life'[f] = "merging" /\ kept'[f] = kept[f],
         NEW r \in Requests, Speaks(r)
  PROVE  Speaks(r)'
BY DEF Speaks

\* Cancel, completeQueuedRun, a run, and a finisher that finds nothing to do.
LEMMA QuietSpeech ==
  ASSUME LaneInv, SpeechInv, NEW r \in Requests,
         Cancel(r) \/ Complete(r) \/ Run(r) \/ ReleaseIdle(r) \/ NothingKept(r)
  PROVE  SpeechInv'
<1>1. TypeOK
  BY DEF LaneInv
<1>2. UNCHANGED <<summaries, context, fate, kept>>
  BY DEF Cancel, Complete, CompleteClose, CompleteRecord, Run, Start, StartFails, RunEnds,
         ReleaseIdle, NothingKept, lane, finisher
<1>3. \/ life' = life /\ carried' = carried
      \/ /\ life[r] \in {"retired", "closed", "starting", "running", "finished"}
         /\ \E l \in {"closed", "answered", "running", "finished", "done"} :
              life' = [life EXCEPT ![r] = l]
         /\ carried' = carried
      \/ /\ life[r] = "filtering" /\ life' = [life EXCEPT ![r] = "done"]
         /\ carried' = [carried EXCEPT ![r] = {}]
  BY DEF Cancel, Complete, CompleteClose, CompleteRecord, Run, Start, StartFails, RunEnds,
         ReleaseIdle, NothingKept, finisher
<1>4. \A q \in Requests : Unfated(q)' => Unfated(q)
  BY <1>1, <1>3 DEF TypeOK, Unfated
<1>5. \A s \in Requests : /\ carried'[s] \subseteq carried[s]
                          /\ carried'[s] # {} /\ life[s] = "filtering" => life'[s] = "filtering"
  BY <1>1, <1>3 DEF TypeOK
<1>6. \A f \in Requests : life[f] = "merging" => life'[f] = "merging"
  BY <1>1, <1>3 DEF TypeOK
<1>7. \A s \in Requests : Speaks(s) => Speaks(s)'
  BY <1>2, <1>6, SpeaksOn
<1> QED
  BY <1>1, <1>2, <1>4, <1>5, <1>7, NothingSaid

\* Submit to an idle lane.
LEMMA SubmitIdleSpeech ==
  ASSUME LaneInv, SpeechInv, NEW r \in Requests, SubmitIdle(r)
  PROVE  SpeechInv'
<1>1. TypeOK
  BY DEF LaneInv
<1>2. /\ life[r] = "new" /\ life' = [life EXCEPT ![r] = "starting"]
      /\ fate' = [fate EXCEPT ![r] = "dispatched"]
      /\ UNCHANGED <<summaries, context, carried, kept>>
  BY DEF SubmitIdle, Accept, Dispatch, finisher
<1>3. fate[r] = "none"
  BY <1>2 DEF SpeechInv, Entitled, Unfated
<1>4. \A q \in Requests : Unfated(q)' => Unfated(q) /\ fate'[q] = fate[q]
  BY <1>1, <1>2 DEF TypeOK, Unfated
<1>5. \A q \in Requests : fate'[q] # fate[q] => fate[q] = "none" /\ fate'[q] # "merged"
  BY <1>1, <1>2, <1>3 DEF TypeOK
<1>6. \A s \in Requests : life[s] \in {"filtering", "merging"} => life'[s] = life[s]
  BY <1>1, <1>2 DEF TypeOK
<1>7. \A s \in Requests : Speaks(s) => Speaks(s)'
  BY <1>2, <1>5, <1>6, SpeaksOn
<1> QED
  BY <1>1, <1>2, <1>4, <1>5, <1>6, <1>7, NothingSaid

\* Requests that wait and those that have just come are retired from the queue.
LEMMA RetireMoves ==
  ASSUME LaneInv, SpeechInv, NEW r \in Requests, NEW D \in SUBSET Requests, NEW why,
         why \in {"dropped", "superseded"},
         life[r] = "new", D \subseteq Range(pending) \cup {r},
         Retire(D, why, [life EXCEPT ![r] = "queued"]), UNCHANGED kept
  PROVE  /\ \A q \in Requests : Unfated(q)' => Unfated(q) /\ fate'[q] = fate[q]
         /\ \A q \in Requests : fate'[q] = IF q \in D THEN why ELSE fate[q]
         /\ \A q \in D : fate[q] = "none"
         /\ \A s \in Requests : life[s] = "filtering" => life'[s] = "filtering"
         /\ \A s \in Requests : Speaks(s) => Speaks(s)'
<1>1. TypeOK
  BY DEF LaneInv
<1>2. /\ life' = [q \in Requests |-> IF q \in D THEN "retired" ELSE [life EXCEPT ![r] = "queued"][q]]
      /\ fate' = [q \in Requests |-> IF q \in D THEN why ELSE fate[q]]
  BY DEF Retire
<1>3. \A q \in D : Unfated(q)
  BY HeldAreQueued DEF Unfated
<1>4. \A q \in D : fate[q] = "none"
  BY <1>3 DEF SpeechInv, Entitled
<1>5. \A q \in Requests : Unfated(q)' => Unfated(q) /\ fate'[q] = fate[q]
  BY <1>1, <1>2 DEF TypeOK, Unfated
<1>6. \A s \in Requests : life[s] \in {"filtering", "merging"} => life'[s] = life[s]
  BY <1>1, <1>2, <1>3 DEF TypeOK, Unfated
<1>7. \A q \in Requests : fate[q] = "dispatched" => fate'[q] = "dispatched"
  BY <1>2, <1>4
<1>8. \A s \in Requests : Speaks(s) => Speaks(s)'
  BY <1>6, <1>7, SpeaksOn
<1> QED
  BY <1>2, <1>4, <1>5, <1>6, <1>8

\* Submit in interrupt mode: nobody speaks for those that are superseded.
LEMMA SubmitInterruptSpeech ==
  ASSUME LaneInv, SpeechInv, NEW r \in Requests, SubmitInterrupt(r)
  PROVE  SpeechInv'
<1>1. TypeOK
  BY DEF LaneInv
<1> DEFINE D == Range(pending)
<1>2. D \in SUBSET Requests
  BY <1>1, RangeIsElements DEF TypeOK
<1>3. /\ life[r] = "new" /\ Retire(D, "superseded", [life EXCEPT ![r] = "queued"])
      /\ UNCHANGED <<summaries, context, carried, kept>>
  BY DEF SubmitInterrupt, Accept, finisher
<1> HIDE DEF D
<1>4. D \subseteq Range(pending) \cup {r}
  BY DEF D
<1>5. /\ \A q \in Requests : Unfated(q)' => Unfated(q) /\ fate'[q] = fate[q]
      /\ \A q \in Requests : fate'[q] = IF q \in D THEN "superseded" ELSE fate[q]
      /\ \A q \in D : fate[q] = "none"
      /\ \A s \in Requests : life[s] = "filtering" => life'[s] = "filtering"
      /\ \A s \in Requests : Speaks(s) => Speaks(s)'
  BY <1>2, <1>3, <1>4, RetireMoves
<1>6. \A q \in Requests : fate'[q] # fate[q] => fate[q] = "none" /\ fate'[q] # "merged"
  BY <1>5
<1> QED
  BY <1>1, <1>3, <1>5, <1>6, NothingSaid

\* The drop loop: the lane's summaries speak for what it takes, or nobody does.
LEMMA SubmitEnqueueSpeech ==
  ASSUME LaneInv, SpeechInv, NEW r \in Requests, SubmitEnqueue(r)
  PROVE  SpeechInv'
<1>1. TypeOK
  BY DEF LaneInv
<1> DEFINE q == Append(pending, r)
           D == Range(Dropped(q))
<1>2. q \in Seq(Requests) /\ Range(q) = Range(pending) \cup {r} /\ config \in SessionConfig
  <2>1. pending \in Seq(Requests) /\ config \in Configs
    BY <1>1 DEF TypeOK
  <2> QED
    BY <2>1, AppendElements, ConfigsAssumption
<1>3. Dropped(q) \in Seq(Requests) /\ D \subseteq Range(pending) \cup {r}
  BY <1>2, DropLoop
<1>4. D \in SUBSET Requests
  BY <1>3, RangeIsElements
<1>5. /\ life[r] = "new" /\ Retire(D, "dropped", [life EXCEPT ![r] = "queued"])
      /\ summaries' = summaries \/ summaries' = summaries \cup D
      /\ UNCHANGED <<context, carried, kept>>
  BY DEF SubmitEnqueue, Accept, finisher
<1> HIDE DEF D, q
<1>6. /\ \A s \in Requests : Unfated(s)' => Unfated(s) /\ fate'[s] = fate[s]
      /\ \A s \in Requests : fate'[s] = IF s \in D THEN "dropped" ELSE fate[s]
      /\ \A s \in D : fate[s] = "none"
      /\ \A s \in Requests : life[s] = "filtering" => life'[s] = "filtering"
      /\ \A s \in Requests : Speaks(s) => Speaks(s)'
  BY <1>3, <1>4, <1>5, RetireMoves
<1>7. \A s \in Requests : fate'[s] # fate[s] => fate[s] = "none" /\ fate'[s] # "merged"
  BY <1>6
<1>8. CASE summaries' = summaries
  BY <1>1, <1>5, <1>6, <1>7, <1>8, NothingSaid
<1>9. CASE summaries' = summaries \cup D
  <2>1. \A s \in Requests : D \cap carried[s] = {} /\ D \cap context[s] = {}
    BY <1>6 DEF SpeechInv, Entitled
  <2>2. Apart'
    BY <1>5, <1>9, <2>1 DEF SpeechInv, Apart
  <2>3. MergedIsSpoken'
    BY <1>5, <1>6 DEF SpeechInv, MergedIsSpoken
  <2>4. \A s \in Requests : Unfated(s)' => fate'[s] = "none"
    BY <1>6 DEF SpeechInv, Entitled
  <2>5. \A s \in summaries' : fate'[s] = "dropped"
    BY <1>1, <1>4, <1>6, <1>9 DEF SpeechInv, Entitled, TypeOK
  <2>6. \A s \in Requests : \A t \in carried'[s] : fate'[t] = "dropped" /\ life'[s] = "filtering"
    BY <1>1, <1>5, <1>6 DEF SpeechInv, Entitled, TypeOK
  <2>7. \A s \in Requests : \A t \in context'[s] : fate'[t] \in {"merged", "dropped"} /\ Speaks(s)'
    <3> SUFFICES ASSUME NEW s \in Requests, NEW t \in context'[s]
                 PROVE  fate'[t] \in {"merged", "dropped"} /\ Speaks(s)'
      OBVIOUS
    <3>1. t \in context[s] /\ t \in Requests
      BY <1>1, <1>5 DEF TypeOK
    <3> QED
      BY <1>6, <3>1 DEF SpeechInv, Entitled
  <2> QED
    BY <2>2, <2>3, <2>4, <2>5, <2>6, <2>7 DEF SpeechInv, Entitled
<1> QED
  BY <1>5, <1>8, <1>9

\* A finishing run takes the summaries with the queue.
LEMMA TakePendingSpeech ==
  ASSUME LaneInv, SpeechInv, NEW r \in Requests, TakePending(r)
  PROVE  SpeechInv'
<1>1. TypeOK
  BY DEF LaneInv
<1>2. /\ life[r] = "finished" /\ life' = [life EXCEPT ![r] = "filtering"]
      /\ carried' = [carried EXCEPT ![r] = summaries] /\ summaries' = {}
      /\ UNCHANGED <<fate, context, kept>>
  BY DEF TakePending
<1>3. \A s \in Requests : Speaks(s) => Speaks(s)'
  <2>1. \A f \in Requests : life[f] = "merging" => life'[f] = "merging" /\ kept'[f] = kept[f]
    BY <1>1, <1>2 DEF TypeOK
  <2> QED
    BY <1>2, <2>1, SpeaksOn
<1>4. Entitled'
  <2>1. \A s \in Requests : Unfated(s)' => fate'[s] = "none"
    BY <1>1, <1>2 DEF SpeechInv, Entitled, Unfated, TypeOK
  <2>2. \A s \in Requests : \A t \in carried'[s] : fate'[t] = "dropped" /\ life'[s] = "filtering"
    BY <1>1, <1>2 DEF SpeechInv, Entitled, TypeOK
  <2>3. \A s \in Requests : \A t \in context'[s] : fate'[t] \in {"merged", "dropped"} /\ Speaks(s)'
    BY <1>2, <1>3 DEF SpeechInv, Entitled
  <2> QED
    BY <1>2, <2>1, <2>2, <2>3 DEF Entitled
<1>5. Apart'
  BY <1>1, <1>2 DEF SpeechInv, Apart, TypeOK
<1>6. MergedIsSpoken'
  BY <1>2 DEF SpeechInv, MergedIsSpoken
<1> QED
  BY <1>4, <1>5, <1>6 DEF SpeechInv

\* A cancelled request of the batch is answered: nobody spoke for it.
LEMMA FilterOneSpeech ==
  ASSUME LaneInv, SpeechInv, NEW r \in Requests, FilterOne(r)
  PROVE  SpeechInv'
<1>1. TypeOK
  BY DEF LaneInv
<1> DEFINE q == Head(batch[r])
<1>2. life[r] = "filtering" /\ batch[r] \in Seq(Requests) /\ batch[r] # <<>>
  BY <1>1 DEF FilterOne, TypeOK
<1>3. q \in Requests /\ q \in Holds(r)
  BY <1>2, HeadTailElements DEF Holds
<1>4. life[q] = "queued"
  BY <1>3, HeldAreQueued
<1>5. /\ \/ life' = [life EXCEPT ![q] = "answered"] /\ fate' = [fate EXCEPT ![q] = "cancelled"]
         \/ UNCHANGED <<life, fate>>
      /\ kept' = [kept EXCEPT ![r] = Append(kept[r], q)] \/ kept' = kept
      /\ UNCHANGED <<summaries, context, carried>>
  BY DEF FilterOne, lane
<1> HIDE DEF q
<1>6. fate[q] = "none"
  BY <1>3, <1>4 DEF SpeechInv, Entitled, Unfated
<1>7. \A s \in Requests : Unfated(s)' => Unfated(s) /\ fate'[s] = fate[s]
  BY <1>1, <1>3, <1>5 DEF TypeOK, Unfated
<1>8. \A s \in Requests : fate'[s] # fate[s] => fate[s] = "none" /\ fate'[s] # "merged"
  BY <1>1, <1>3, <1>5, <1>6 DEF TypeOK
<1>9. \A s \in Requests : life[s] \in {"filtering", "merging"} => life'[s] = life[s]
  BY <1>1, <1>3, <1>4, <1>5 DEF TypeOK
<1>10. \A f \in Requests : life[f] = "merging" => kept'[f] = kept[f]
  BY <1>1, <1>2, <1>5 DEF TypeOK
<1>11. \A s \in Requests : Speaks(s) => Speaks(s)'
  BY <1>8, <1>9, <1>10, SpeaksOn
<1> QED
  BY <1>1, <1>5, <1>7, <1>8, <1>9, <1>11, NothingSaid

\* collect: the owner, for whose envelope nobody has written yet, speaks for the merged
\* requests and for what was carried.
LEMMA MergeSpeech ==
  ASSUME LaneInv, SpeechInv, NEW r \in Requests, Merge(r)
  PROVE  SpeechInv'
<1>1. TypeOK
  BY DEF LaneInv
<1> DEFINE M == Merged(r)
<1>2. life[r] = "filtering" /\ kept[r] # <<>> /\ kept[r] \in Seq(Requests)
  BY <1>1 DEF Merge, TypeOK
<1>owner. PICK o \in Requests : o = Owner(r)
  BY <1>2, OwnerIsKept
<1>3. /\ o \in Holds(r) /\ o \notin M
      /\ M \subseteq Holds(r) /\ M \subseteq Requests
  BY <1>owner, <1>2, OwnerIsKept, RangeIsElements DEF Merged, Holds
<1>4. /\ life' = [s \in Requests |-> IF s \in M THEN "retired" ELSE [life EXCEPT ![r] = "merging"][s]]
      /\ fate' = [s \in Requests |-> IF s \in M THEN "merged" ELSE fate[s]]
      /\ kept' = [kept EXCEPT ![r] = <<o>>]
      /\ context' = [context EXCEPT ![o] = carried[r] \cup M]
      /\ carried' = [carried EXCEPT ![r] = {}]
      /\ summaries' = summaries
  BY <1>owner DEF Merge, Retire, lane
<1> HIDE DEF M
<1>5. \A s \in M \cup {o} : life[s] = "queued" /\ fate[s] = "none"
  <2>1. \A s \in M \cup {o} : life[s] = "queued"
    BY <1>3, HeldAreQueued
  <2> QED
    BY <1>3, <2>1 DEF SpeechInv, Entitled, Unfated
<1>6. context[o] = {}
  <2>1. ASSUME NEW f \in Requests, life[f] = "merging", kept[f] = <<o>> PROVE FALSE
    <3>1. o \in Holds(f)
      BY <1>3, <2>1, SingletonElements DEF Holds
    <3>2. f # r
      BY <1>2, <2>1
    <3> QED
      BY <1>3, <3>1, <3>2 DEF LaneInv, HeldOnce, NoneTwice
  <2>2. ~Speaks(o)
    BY <1>5, <2>1 DEF Speaks
  <2> QED
    BY <1>3, <2>2 DEF SpeechInv, Entitled
<1>7. /\ r # o /\ carried[o] = {}
      /\ M \cap summaries = {}
      /\ \A s \in Requests : M \cap carried[s] = {} /\ M \cap context[s] = {}
  BY <1>2, <1>3, <1>5 DEF SpeechInv, Entitled
<1>8. \A s \in Requests : Speaks(s) => Speaks(s)'
  <2>1. \A f \in Requests : life[f] = "merging" => life'[f] = "merging" /\ kept'[f] = kept[f]
    BY <1>1, <1>2, <1>4, <1>5 DEF TypeOK
  <2> QED
    BY <1>4, <1>5, <2>1, SpeaksOn
<1>9. Speaks(o)'
  <2>1. r \notin M
    BY <1>2, <1>5
  <2>2. life'[r] = "merging" /\ kept'[r] = <<o>>
    BY <1>1, <1>4, <2>1 DEF TypeOK
  <2> QED
    BY <2>2 DEF Speaks
<1>10. Entitled'
  <2>1. \A s \in Requests : Unfated(s)' => fate'[s] = "none"
    BY <1>1, <1>4 DEF SpeechInv, Entitled, Unfated, TypeOK
  <2>2. \A s \in summaries' : fate'[s] = "dropped"
    BY <1>1, <1>4, <1>7 DEF SpeechInv, Entitled, TypeOK
  <2>3. ASSUME NEW s \in Requests, NEW t \in carried'[s]
        PROVE  fate'[t] = "dropped" /\ life'[s] = "filtering"
    <3>1. s # r /\ t \in carried[s] /\ t \in Requests
      BY <1>1, <1>4, <2>3 DEF TypeOK
    <3>2. fate[t] = "dropped" /\ life[s] = "filtering" /\ t \notin M
      BY <1>7, <3>1 DEF SpeechInv, Entitled
    <3> QED
      BY <1>1, <1>4, <1>5, <3>1, <3>2 DEF TypeOK
  <2>4. ASSUME NEW s \in Requests, NEW t \in context'[s]
        PROVE  fate'[t] \in {"merged", "dropped"} /\ Speaks(s)'
    <3>1. CASE s = o
      <4>1. t \in carried[r] \cup M /\ t \in Requests
        BY <1>1, <1>3, <1>4, <2>4, <3>1 DEF TypeOK
      <4>2. t \in carried[r] => fate[t] = "dropped"
        BY DEF SpeechInv, Entitled
      <4> QED
        BY <1>4, <1>9, <3>1, <4>1, <4>2
    <3>2. CASE s # o
      <4>1. t \in context[s] /\ t \in Requests /\ t \notin M
        BY <1>1, <1>4, <1>7, <2>4, <3>2 DEF TypeOK
      <4>2. fate[t] \in {"merged", "dropped"} /\ Speaks(s)
        BY <4>1 DEF SpeechInv, Entitled
      <4> QED
        BY <1>4, <1>8, <4>1, <4>2
    <3> QED
      BY <3>1, <3>2
  <2> QED
    BY <2>1, <2>2, <2>3, <2>4 DEF Entitled
<1>11. Apart'
  <2>1. /\ \A s \in Requests : context'[s] = IF s = o THEN carried[r] \cup M ELSE context[s]
        /\ \A s \in Requests : carried'[s] = IF s = r THEN {} ELSE carried[s]
    BY <1>1, <1>4 DEF TypeOK
  <2>2. \A s \in Requests : summaries' \cap carried'[s] = {} /\ summaries' \cap context'[s] = {}
    BY <1>4, <1>7, <2>1 DEF SpeechInv, Apart
  <2>3. \A s, t \in Requests : carried'[s] \cap context'[t] = {}
    BY <1>7, <2>1 DEF SpeechInv, Apart
  <2>4. \A s, t \in Requests : s # t => carried'[s] \cap carried'[t] = {}
    BY <2>1 DEF SpeechInv, Apart
  <2>5. \A s, t \in Requests : s # t => context'[s] \cap context'[t] = {}
    BY <1>7, <2>1 DEF SpeechInv, Apart
  <2> QED
    BY <2>2, <2>3, <2>4, <2>5 DEF Apart
<1>12. MergedIsSpoken'
  <2>1. ASSUME NEW s \in Requests, fate'[s] = "merged" PROVE \E t \in Requests : s \in context'[t]
    <3>1. CASE s \in M
      BY <1>1, <1>3, <1>4, <3>1 DEF TypeOK
    <3>2. CASE s \notin M
      <4>1. PICK t \in Requests : s \in context[t]
        BY <1>4, <2>1, <3>2 DEF SpeechInv, MergedIsSpoken
      <4>2. t # o
        BY <1>6, <4>1
      <4> QED
        BY <1>1, <1>4, <4>1, <4>2 DEF TypeOK
    <3> QED
      BY <3>1, <3>2
  <2> QED
    BY <2>1 DEF MergedIsSpoken
<1> QED
  BY <1>10, <1>11, <1>12 DEF SpeechInv

\* A hand-off dispatches one request that was held; a merging run's owner speaks on as a run.
LEMMA HandOffSpeech ==
  ASSUME LaneInv, SpeechInv, NEW r \in Requests, HandOffCollect(r) \/ HandOffNext(r)
  PROVE  SpeechInv'
<1>1. TypeOK
  BY DEF LaneInv
<1>2. PICK o \in Holds(r) :
        /\ life' = [[life EXCEPT ![r] = "done"] EXCEPT ![o] = "starting"]
        /\ fate' = [fate EXCEPT ![o] = "dispatched"]
        /\ life[r] = "merging" => kept[r] = <<o>>
  <2>1. CASE HandOffCollect(r)
    <3>1. PICK x \in Requests : kept[r] = <<x>>
      BY <2>1 DEF HandOffCollect, LaneInv, HandsFree
    <3>2. Owner(r) = x /\ x \in Holds(r)
      BY <3>1, SingletonElements DEF Owner, Holds
    <3> QED
      BY <2>1, <3>1, <3>2 DEF HandOffCollect, Dispatch
  <2>2. CASE HandOffNext(r)
    <3>1. kept[r] \in Seq(Requests) /\ kept[r] # <<>> /\ life[r] = "filtering"
      BY <1>1, <2>2 DEF HandOffNext, TypeOK
    <3>2. Head(kept[r]) \in Holds(r)
      BY <3>1, HeadTailElements DEF Holds
    <3> QED
      BY <2>2, <3>1, <3>2 DEF HandOffNext, Dispatch
  <2> QED
    BY <2>1, <2>2
<1>3. o \in Requests /\ life[o] = "queued" /\ life[r] \in {"merging", "filtering"}
  BY HeldAreQueued DEF HandOffCollect, HandOffNext
<1>4. fate[o] = "none"
  BY <1>3 DEF SpeechInv, Entitled, Unfated
<1>5. /\ UNCHANGED <<summaries, context>> /\ kept' = [kept EXCEPT ![r] = <<>>]
      /\ \/ carried' = carried /\ life[r] = "merging"
         \/ carried' = [carried EXCEPT ![r] = {}]
  BY DEF HandOffCollect, HandOffNext
<1>6. \A s \in Requests : life'[s] = IF s = o THEN "starting" ELSE IF s = r THEN "done" ELSE life[s]
  BY <1>1, <1>2, <1>3 DEF TypeOK
<1>7. \A s \in Requests : Unfated(s)' => Unfated(s) /\ fate'[s] = fate[s]
  BY <1>1, <1>2, <1>6 DEF TypeOK, Unfated
<1>8. \A s \in Requests : fate'[s] = IF s = o THEN "dispatched" ELSE fate[s]
  BY <1>1, <1>2 DEF TypeOK
<1>9. \A s \in Requests : /\ carried'[s] \subseteq carried[s]
                          /\ carried'[s] # {} /\ life[s] = "filtering" => life'[s] = "filtering"
  BY <1>1, <1>3, <1>5, <1>6 DEF TypeOK
<1>10. ASSUME NEW s \in Requests, Speaks(s) PROVE Speaks(s)'
  <2>1. CASE s = o \/ fate[s] = "dispatched"
    BY <1>8, <2>1 DEF Speaks
  <2>2. CASE s # o /\ fate[s] # "dispatched"
    <3>1. PICK f \in Requests : life[f] = "merging" /\ kept[f] = <<s>>
      BY <1>10, <2>2 DEF Speaks
    <3>2. f # r
      BY <1>2, <2>2, <3>1
    <3>3. life'[f] = "merging" /\ kept'[f] = <<s>>
      BY <1>1, <1>3, <1>5, <1>6, <3>1, <3>2 DEF TypeOK
    <3> QED
      BY <3>3 DEF Speaks
  <2> QED
    BY <2>1, <2>2
<1> QED
  BY <1>1, <1>4, <1>5, <1>7, <1>8, <1>9, <1>10, NothingSaid

--------------------------------------------------------------------------------
\* Every step keeps it.
LEMMA SpeechNext ==
  ASSUME LaneInv, SpeechInv, [Next]_vars
  PROVE  SpeechInv'
<1>1. CASE Reload \/ UNCHANGED vars
  <2>1. UNCHANGED <<summaries, carried, context, fate, life, kept>>
    BY <1>1 DEF Reload, vars, lane, finisher
  <2> QED
    BY <2>1 DEF SpeechInv, Entitled, Apart, MergedIsSpoken, Unfated, Speaks
<1>2. ASSUME NEW r \in Requests,
             Submit(r) \/ Cancel(r) \/ Complete(r) \/ Run(r) \/ Finisher(r)
      PROVE  SpeechInv'
  <2>1. CASE SubmitIdle(r) \/ SubmitEnqueue(r) \/ SubmitInterrupt(r)
    BY <2>1, SubmitIdleSpeech, SubmitEnqueueSpeech, SubmitInterruptSpeech
  <2>2. CASE Cancel(r) \/ Complete(r) \/ Run(r) \/ ReleaseIdle(r) \/ NothingKept(r)
    BY <2>2, QuietSpeech
  <2>3. CASE TakePending(r) \/ FilterOne(r) \/ Merge(r)
    BY <2>3, TakePendingSpeech, FilterOneSpeech, MergeSpeech
  <2>4. CASE HandOffCollect(r) \/ HandOffNext(r)
    BY <2>4, HandOffSpeech
  <2> QED
    BY <1>2, <2>1, <2>2, <2>3, <2>4 DEF Submit, Finisher
<1> QED
  BY <1>1, <1>2 DEF Next

\* What is entitled and apart speaks once, whether it is the lane, a carrying run or an
\* envelope that does.
LEMMA SpeechSuffices ==
  ASSUME TypeOK, SpeechInv
  PROVE  SpokenOnce
<1> SUFFICES ASSUME NEW q \in Requests
             PROVE  /\ \A s, t \in Speakers(q) : s = t
                    /\ Speakers(q) # {} => fate[q] \in {"merged", "dropped"}
                    /\ fate[q] = "merged" => \E r \in Requests : q \in context[r] /\ Speaks(r)
  BY DEF SpokenOnce, Speaks
<1>1. \A s \in Speakers(q) :
        \/ s = NoRequest /\ q \in summaries
        \/ s \in Requests /\ q \in carried[s] \cup context[s]
  BY DEF Speakers
<1>2. \A s, t \in Speakers(q) : s = t
  BY <1>1, NoRequestAssumption DEF SpeechInv, Apart
<1>3. Speakers(q) # {} => fate[q] \in {"merged", "dropped"}
  BY <1>1 DEF SpeechInv, Entitled
<1>4. fate[q] = "merged" => \E r \in Requests : q \in context[r] /\ Speaks(r)
  BY DEF SpeechInv, MergedIsSpoken, Entitled
<1> QED
  BY <1>2, <1>3, <1>4

\* However drops, carried summaries and merges interleave, at most one place speaks for a
\* request, and a merged one is spoken for by a run that comes (SpokenOnce).
THEOREM MessagesSpokenOnce == Spec => []SpokenOnce
<1>1. Init => SpeechInv
  BY SpeechInit
<1>2. LaneInv /\ SpeechInv /\ [Next]_vars => SpeechInv'
  BY SpeechNext
<1>3. LaneInv /\ SpeechInv => SpokenOnce
  BY SpeechSuffices DEF LaneInv
<1> QED
  BY LaneInvariant, <1>1, <1>2, <1>3, PTL DEF Spec
================================================================================
