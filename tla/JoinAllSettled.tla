----------------------------- MODULE JoinAllSettled -----------------------------
(***************************************************************************)
(* Runtime.JoinAllSettled (src/internal/runtime/task/runtime.go): children *)
(* started in submission order, at most limit of them at a time, each      *)
(* settle callback starting the next ones, and a caller that waits on a    *)
(* condition variable until all have settled.                              *)
(*                                                                         *)
(* startedSeq always equals nextIndex and finishedSeq settled, so each     *)
(* pair is one variable.  A critical section under mu is one action.       *)
(***************************************************************************)
EXTENDS Integers, FiniteSets

CONSTANTS
  Count,        \* JoinSpec.Count, after the early returns
  MaxParallel   \* JoinSpec.MaxParallel

ASSUME CountAssumption == Count \in Nat \ {0}
ASSUME MaxParallelAssumption == MaxParallel \in Int

Children == 1..Count

VARIABLES
  caller,     \* starting, waiting or returned
  nextIndex,  \* the children scheduled so far
  inFlight,   \* the children that take one of the limit's places
  settled,    \* the children that have settled
  stage,      \* per child: pending, scheduled, running or settled
  finish      \* per child: results[i].FinishOrder, 0 before it settles

vars == <<caller, nextIndex, inFlight, settled, stage, finish>>

limit == IF MaxParallel <= 0 \/ MaxParallel > Count THEN Count ELSE MaxParallel

Init ==
  /\ caller = "starting"
  /\ nextIndex = 0 /\ inFlight = 0 /\ settled = 0
  /\ stage = [i \in Children |-> "pending"]
  /\ finish = [i \in Children |-> 0]

\* How many children the loop of scheduleLocked starts when flight are in flight.
Startable(flight) ==
  IF limit - flight <= Count - nextIndex THEN limit - flight ELSE Count - nextIndex

\* scheduleLocked: the next children in submission order take the free places.
Schedule(flight, stages) ==
  /\ nextIndex' = nextIndex + Startable(flight)
  /\ inFlight' = flight + Startable(flight)
  /\ stage' = [i \in Children |-> IF i > nextIndex /\ i <= nextIndex + Startable(flight)
                                  THEN "scheduled" ELSE stages[i]]

Begin ==
  /\ caller = "starting"
  /\ caller' = "waiting"
  /\ Schedule(0, stage)
  /\ UNCHANGED <<settled, finish>>

\* launch: the caller or a settling child starts the worker's goroutine, after it
\* has released the lock.
Launch(i) ==
  /\ stage[i] = "scheduled"
  /\ stage' = [stage EXCEPT ![i] = "running"]
  /\ UNCHANGED <<caller, nextIndex, inFlight, settled, finish>>

\* Faulty variant: without the sync.Once a second call of settle counts again.
SettleTwice(i) ==
  /\ stage[i] \in {"running", "settled"}
  /\ settled' = settled + 1
  /\ finish' = [finish EXCEPT ![i] = settled + 1]
  /\ Schedule(inFlight - 1, [stage EXCEPT ![i] = "settled"])
  /\ UNCHANGED caller

\* Faulty variant: the freed place is given to nobody.
SettleIdly(i) ==
  /\ stage[i] = "running"
  /\ settled' = settled + 1
  /\ finish' = [finish EXCEPT ![i] = settled + 1]
  /\ inFlight' = inFlight - 1
  /\ stage' = [stage EXCEPT ![i] = "settled"]
  /\ UNCHANGED <<caller, nextIndex>>

\* Faulty variant: the order is read before it is advanced.
SettleStale(i) ==
  /\ stage[i] = "running"
  /\ settled' = settled + 1
  /\ finish' = [finish EXCEPT ![i] = settled]
  /\ Schedule(inFlight - 1, [stage EXCEPT ![i] = "settled"])
  /\ UNCHANGED caller

\* The first call of a child's settle; sync.Once makes the later ones do nothing.
Settle(i) ==
  /\ stage[i] = "running"
  /\ settled' = settled + 1
  /\ finish' = [finish EXCEPT ![i] = settled + 1]
  /\ Schedule(inFlight - 1, [stage EXCEPT ![i] = "settled"])
  /\ UNCHANGED caller

\* Faulty variant: the caller is woken by the last child but one.
ReturnEarly ==
  /\ caller = "waiting"
  /\ settled >= Count - 1
  /\ caller' = "returned"
  /\ UNCHANGED <<nextIndex, inFlight, settled, stage, finish>>

\* cond.Wait in a loop: every settle broadcasts.
Return ==
  /\ caller = "waiting"
  /\ settled >= Count
  /\ caller' = "returned"
  /\ UNCHANGED <<nextIndex, inFlight, settled, stage, finish>>

Next == Begin \/ Return \/ \E i \in Children : Launch(i) \/ Settle(i)

Spec == Init /\ [][Next]_vars

\* The caller and the launches are scheduled, and a worker that was started settles:
\* it does from the callback of the task it submits, or at once when it cannot submit.
Fairness ==
  /\ WF_vars(Begin) /\ WF_vars(Return)
  /\ \A i \in Children : WF_vars(Launch(i)) /\ WF_vars(Settle(i))
FairSpec == Spec /\ Fairness

--------------------------------------------------------------------------------
(* Properties.                                                             *)

\* The counters stay within the number of children.
TypeOK ==
  /\ caller \in {"starting", "waiting", "returned"}
  /\ nextIndex \in 0..Count
  /\ inFlight \in 0..Count
  /\ settled \in 0..Count
  /\ stage \in [Children -> {"pending", "scheduled", "running", "settled"}]
  /\ finish \in [Children -> 0..Count]

In(places) == {i \in Children : stage[i] \in places}

\* Never more workers than the limit, whichever settle calls overlap.
WithinLimit == Cardinality(In({"scheduled", "running"})) <= limit

\* No place is left free while a child waits for one: a join can only be waiting
\* for children that run.
KeepsBusy ==
  caller # "starting" /\ In({"pending"}) # {} => Cardinality(In({"scheduled", "running"})) = limit

\* The finish orders of the settled children are 1 to their number, each once, and
\* children start in submission order.
Ordered ==
  /\ \A i \in Children : (finish[i] # 0) <=> (stage[i] = "settled")
  /\ {finish[i] : i \in In({"settled"})} = 1..Cardinality(In({"settled"}))
  /\ \A i, j \in Children : i < j /\ stage[i] = "pending" => stage[j] = "pending"

\* The join keeps its promise: the caller is given its results when every child has
\* settled, not before.
Promise == INSTANCE AllSettled WITH open <- Children \ In({"settled"}),
                                    returned <- caller = "returned"
KeepsPromise == Promise!Spec

\* A caller whose workers settle is given its results: no child waits for ever for a
\* place, however the settle callbacks that hand the places on overlap.
Joins == <>(caller = "returned")
================================================================================
