-------------------------- MODULE JoinAllSettledProofs --------------------------
(***************************************************************************)
(* Proofs about JoinAllSettled: the limit on parallel workers, that no     *)
(* place stays free, and that the join implements AllSettled.  The counters *)
(* are shown to count what they are named for.                             *)
(***************************************************************************)
EXTENDS JoinAllSettled, FiniteSetTheorems, TLAPS

\* Children are scheduled in order, and the counters count.
Counted ==
  /\ \A i \in Children : stage[i] = "pending" <=> i > nextIndex
  /\ inFlight = Cardinality(In({"scheduled", "running"}))
  /\ settled = Cardinality(In({"settled"}))

\* The places are all taken, or there is no child left to take one.
Filled ==
  /\ inFlight <= limit
  /\ IF caller = "starting" THEN nextIndex = 0 ELSE inFlight = limit \/ nextIndex = Count

JoinInv == TypeOK /\ Counted /\ Filled

--------------------------------------------------------------------------------
USE CountAssumption, MaxParallelAssumption

\* The limit is between 1 and the number of children, whatever MaxParallel is.
LEMMA LimitRange == limit \in 1..Count
BY DEF limit

\* Any set of children is finite, with at most Count of them.
LEMMA ChildrenFinite ==
  ASSUME NEW S \in SUBSET Children
  PROVE  /\ IsFiniteSet(S) /\ Cardinality(S) \in 0..Count
         /\ Cardinality(S) = Count => S = Children
<1>1. IsFiniteSet(Children) /\ Cardinality(Children) = Count
  BY FS_Interval DEF Children
<1>2. IsFiniteSet(S) /\ Cardinality(S) <= Count /\ (Cardinality(S) = Count => S = Children)
  BY <1>1, FS_Subset
<1> QED
  BY <1>2, FS_CardinalityType

\* What scheduleLocked does when flight < limit places are taken by the children
\* of F: it gives free places to the next children until one of both runs out.
LEMMA Scheduled ==
  ASSUME TypeOK, NEW flight \in 0..limit
  PROVE  LET n == Startable(flight) IN
         /\ n \in Nat /\ nextIndex + n \in 0..Count /\ flight + n <= limit
         /\ flight + n = limit \/ nextIndex + n = Count
<1>1. nextIndex \in 0..Count /\ limit \in 1..Count
  BY LimitRange DEF TypeOK
<1> QED
  BY <1>1 DEF Startable

\* The children that scheduleLocked starts are new to the set of those in flight.
LEMMA InFlightGrows ==
  ASSUME NEW F \in SUBSET Children, NEW k \in Nat, NEW n \in Nat, k + n <= Count,
         \A i \in F : i <= k
  PROVE  /\ F \cup (k + 1 .. k + n) \in SUBSET Children
         /\ Cardinality(F \cup (k + 1 .. k + n)) = Cardinality(F) + n
<1> DEFINE G == k + 1 .. k + n
<1>1. IsFiniteSet(G) /\ Cardinality(G) = n
  <2>1. k + 1 \in Int /\ k + n \in Int
    OBVIOUS
  <2>2. IsFiniteSet(G) /\ Cardinality(G) = IF k + 1 > k + n THEN 0 ELSE (k + n) - (k + 1) + 1
    BY <2>1, FS_Interval
  <2> QED
    BY <2>2
<1>2. F \cap G = {} /\ G \subseteq Children
  BY DEF Children
<1>3. IsFiniteSet(F) /\ Cardinality(F) \in Nat
  BY ChildrenFinite
<1>4. Cardinality(F \cup G) = Cardinality(F) + Cardinality(G) - Cardinality(F \cap G)
  BY <1>1, <1>3, FS_Union
<1>5. Cardinality(F \cap G) = 0
  BY <1>2, FS_EmptySet
<1> QED
  BY <1>1, <1>2, <1>3, <1>4, <1>5

\* Nothing is scheduled before the caller begins.
LEMMA JoinInit == Init => JoinInv
<1> SUFFICES ASSUME Init PROVE JoinInv
  OBVIOUS
<1>1. TypeOK
  <2>1. 0 \in 0..Count
    OBVIOUS
  <2> QED
    BY <2>1 DEF Init, TypeOK
<1>2. In({"scheduled", "running"}) = {} /\ In({"settled"}) = {}
  BY DEF Init, In
<1>3. Counted
  <2>1. Cardinality({}) = 0
    BY FS_EmptySet
  <2>2. \A i \in Children : stage[i] = "pending" <=> i > nextIndex
    BY DEF Init, Children
  <2>3. inFlight = 0 /\ settled = 0
    BY DEF Init
  <2>4. Cardinality(In({"scheduled", "running"})) = 0 /\ Cardinality(In({"settled"})) = 0
    BY <1>2, <2>1
  <2> QED
    BY <2>2, <2>3, <2>4 DEF Counted
<1>4. Filled
  BY LimitRange DEF Init, Filled
<1> QED
  BY <1>1, <1>3, <1>4 DEF JoinInv

\* The caller takes the first places.
LEMMA BeginStep ==
  ASSUME JoinInv, Begin
  PROVE  JoinInv'
<1> USE DEF JoinInv
<1> DEFINE n == Startable(0)
<1>1. nextIndex = 0 /\ caller = "starting" /\ limit \in 1..Count
  BY LimitRange DEF Begin, Filled
<1>2. n \in Nat /\ nextIndex + n \in 0..Count /\ n <= limit /\ (n = limit \/ nextIndex + n = Count)
  BY <1>1, Scheduled
<1>3. /\ nextIndex' = nextIndex + n /\ inFlight' = n /\ caller' = "waiting"
      /\ stage' = [i \in Children |-> IF i > nextIndex /\ i <= nextIndex + n
                                      THEN "scheduled" ELSE stage[i]]
      /\ UNCHANGED <<settled, finish>>
  BY <1>2 DEF Begin, Schedule
<1> HIDE DEF n
<1>4. TypeOK'
  <2>1. nextIndex' \in 0..Count /\ inFlight' \in 0..Count
    BY <1>1, <1>2, <1>3 DEF TypeOK
  <2>2. stage' \in [Children -> {"pending", "scheduled", "running", "settled"}]
    BY <1>3 DEF TypeOK
  <2> QED
    BY <1>3, <2>1, <2>2 DEF TypeOK
<1>5. \A i \in Children : stage[i] = "pending"
  BY <1>1 DEF Counted, Children
<1>6. In({"scheduled", "running"})' = {} \cup (0 + 1 .. 0 + n) /\ In({"settled"})' = In({"settled"})
  BY <1>1, <1>2, <1>3, <1>5 DEF In, Children, TypeOK
<1>7. Cardinality(In({"scheduled", "running"})') = n
  <2>1. Cardinality({}) = 0
    BY FS_EmptySet
  <2>2. Cardinality({} \cup (0 + 1 .. 0 + n)) = Cardinality({}) + n
    <3>1. 0 + n <= Count
      BY <1>1, <1>2
    <3> QED
      BY <1>2, <3>1, InFlightGrows
  <2> QED
    BY <1>2, <1>6, <2>1, <2>2
<1>8. Counted'
  BY <1>1, <1>2, <1>3, <1>5, <1>6, <1>7 DEF Counted, TypeOK, Children
<1>9. Filled'
  BY <1>1, <1>2, <1>3 DEF Filled, limit
<1> QED
  BY <1>4, <1>8, <1>9

\* A launch changes no count.
LEMMA LaunchStep ==
  ASSUME JoinInv, NEW i \in Children, Launch(i)
  PROVE  JoinInv'
<1> USE DEF JoinInv
<1>1. TypeOK'
  BY DEF Launch, TypeOK
<1>2. /\ In({"scheduled", "running"})' = In({"scheduled", "running"})
      /\ In({"settled"})' = In({"settled"})
      /\ \A j \in Children : stage'[j] = "pending" <=> stage[j] = "pending"
  BY DEF Launch, In, TypeOK
<1>3. Counted' /\ Filled'
  BY <1>2 DEF Launch, Counted, Filled, limit
<1> QED
  BY <1>1, <1>3

\* A child gives its place back, and the next children take the free ones.
LEMMA SettleStep ==
  ASSUME JoinInv, NEW i \in Children, Settle(i)
  PROVE  JoinInv'
<1> USE DEF JoinInv
<1> DEFINE S == In({"scheduled", "running"})
           T == In({"settled"})
           n == Startable(inFlight - 1)
<1>1. /\ stage[i] = "running" /\ i \in S /\ i \notin T /\ S \subseteq Children /\ T \subseteq Children
      /\ S \cap T = {} /\ i <= nextIndex /\ limit \in 1..Count
  BY LimitRange DEF Settle, In, Counted, Children, TypeOK
<1>2. IsFiniteSet(S) /\ IsFiniteSet(T) /\ Cardinality(S) \in Nat /\ Cardinality(T) \in Nat
  BY <1>1, ChildrenFinite
<1>3. Cardinality(S \ {i}) = inFlight - 1 /\ inFlight - 1 \in 0..limit
  <2>1. IsFiniteSet(S \ {i}) /\ Cardinality(S \ {i}) = Cardinality(S) - 1
    BY <1>1, <1>2, FS_RemoveElement
  <2>2. Cardinality(S \ {i}) \in Nat
    BY <2>1, FS_CardinalityType
  <2> QED
    BY <1>1, <1>2, <2>1, <2>2 DEF Counted, Filled, TypeOK
<1>4. /\ n \in Nat /\ nextIndex + n \in 0..Count /\ inFlight - 1 + n <= limit
      /\ inFlight - 1 + n = limit \/ nextIndex + n = Count
  BY <1>3, Scheduled
<1>5. caller # "starting"
  BY <1>1 DEF Filled, Children
<1>6. /\ nextIndex' = nextIndex + n /\ inFlight' = inFlight - 1 + n /\ settled' = settled + 1
      /\ finish' = [finish EXCEPT ![i] = settled + 1]
      /\ stage' = [j \in Children |-> IF j > nextIndex /\ j <= nextIndex + n
                                      THEN "scheduled" ELSE [stage EXCEPT ![i] = "settled"][j]]
      /\ caller' = caller
  BY DEF Settle, Schedule
<1> HIDE DEF n
<1>7. \A j \in Children :
        \/ j = i /\ stage'[j] = "settled"
        \/ j # i /\ j > nextIndex /\ j <= nextIndex + n /\ stage'[j] = "scheduled"
        \/ j # i /\ ~(j > nextIndex /\ j <= nextIndex + n) /\ stage'[j] = stage[j]
  BY <1>1, <1>4, <1>6 DEF TypeOK, Children
<1>8. S' = (S \ {i}) \cup (nextIndex + 1 .. nextIndex + n)
  <2>1. \A j \in Children : j > nextIndex => j \notin S
    BY DEF Counted, In
  <2>2. \A j \in Children : j \in S' <=> j \in S \ {i} \/ (j > nextIndex /\ j <= nextIndex + n)
    BY <1>1, <1>7, <2>1 DEF In, TypeOK
  <2>3. nextIndex + 1 .. nextIndex + n \subseteq Children
    BY <1>4 DEF Children, TypeOK
  <2> QED
    BY <1>1, <1>4, <2>2, <2>3 DEF In, Children, TypeOK
<1>9. T' = T \cup {i}
  <2>1. \A j \in Children : j > nextIndex => j \notin T
    BY DEF Counted, In
  <2> QED
    BY <1>1, <1>7, <2>1 DEF In, TypeOK
<1>10. Cardinality(T') = settled + 1
  BY <1>1, <1>2, <1>9, FS_AddElement DEF Counted
<1>11. settled + 1 \in 0..Count
  <2>1. T' \in SUBSET Children
    BY DEF In
  <2> QED
    BY <1>10, <2>1, ChildrenFinite
<1>12. Cardinality(S') = inFlight - 1 + n
  <2>1. \A j \in S \ {i} : j <= nextIndex
    BY <1>1 DEF Counted, In, Children, TypeOK
  <2>2. nextIndex \in Nat /\ nextIndex + n <= Count
    BY <1>4 DEF TypeOK
  <2>3. Cardinality((S \ {i}) \cup (nextIndex + 1 .. nextIndex + n)) = Cardinality(S \ {i}) + n
    BY <1>1, <1>4, <2>1, <2>2, InFlightGrows
  <2> QED
    BY <1>3, <1>8, <2>3
<1>13. TypeOK'
  BY <1>1, <1>3, <1>4, <1>6, <1>11 DEF TypeOK
<1>14. \A j \in Children : stage'[j] = "pending" <=> j > nextIndex'
  BY <1>1, <1>4, <1>6, <1>7 DEF Counted, Children, TypeOK
<1>15. Counted'
  BY <1>6, <1>10, <1>12, <1>14 DEF Counted
<1>16. Filled'
  BY <1>3, <1>4, <1>5, <1>6 DEF Filled, limit
<1> QED
  BY <1>13, <1>15, <1>16

\* Every step keeps the counters right and the places taken.
LEMMA JoinNext == JoinInv /\ [Next]_vars => JoinInv'
<1> SUFFICES ASSUME JoinInv, [Next]_vars PROVE JoinInv'
  OBVIOUS
<1>1. CASE Return
  BY <1>1 DEF Return, JoinInv, TypeOK, Counted, Filled, In, limit
<1>2. CASE UNCHANGED vars
  BY <1>2 DEF vars, JoinInv, TypeOK, Counted, Filled, In, limit
<1> QED
  BY <1>1, <1>2, BeginStep, LaunchStep, SettleStep DEF Next

\* The counters count and the places are taken, always.
THEOREM JoinInvariant == Spec => []JoinInv
BY JoinInit, JoinNext, PTL DEF Spec

\* Never more workers than JoinSpec.MaxParallel allows, for any number of children.
THEOREM LimitHolds == Spec => []WithinLimit
<1>1. JoinInv => WithinLimit
  BY DEF JoinInv, Counted, Filled, WithinLimit
<1> QED
  BY JoinInvariant, <1>1, PTL

\* A child only waits when the limit is reached, so a join never waits for nothing.
THEOREM NoPlaceStaysFree == Spec => []KeepsBusy
<1>1. JoinInv => KeepsBusy
  <2> SUFFICES ASSUME JoinInv, caller # "starting", NEW i \in In({"pending"})
               PROVE  Cardinality(In({"scheduled", "running"})) = limit
    BY DEF KeepsBusy
  <2>1. i > nextIndex /\ i <= Count /\ i \in Nat /\ nextIndex \in Nat
    BY DEF JoinInv, Counted, In, Children, TypeOK
  <2>2. inFlight = limit
    <3>1. nextIndex # Count
      BY <2>1
    <3> QED
      BY <3>1 DEF JoinInv, Filled
  <2> QED
    BY <2>2 DEF JoinInv, Counted
<1> QED
  BY JoinInvariant, <1>1, PTL

\* The finish orders number the settled children.
Numbered ==
  /\ \A i \in Children : finish[i] # 0 <=> stage[i] = "settled"
  /\ \A i \in Children : stage[i] = "settled" => finish[i] \in 1..settled
  /\ \A k \in 1..settled : \E i \in Children : stage[i] = "settled" /\ finish[i] = k

\* A settling child gets the next number; the others keep theirs.
LEMMA SettleNumbers ==
  ASSUME JoinInv, Numbered, NEW i \in Children, Settle(i)
  PROVE  Numbered'
<1>1. stage[i] = "running" /\ settled \in Nat /\ settled' = settled + 1
  BY DEF Settle, JoinInv, TypeOK
<1>2. finish'[i] = settled + 1 /\ \A j \in Children \ {i} : finish'[j] = finish[j]
  BY DEF Settle, JoinInv, TypeOK
<1>3. \A j \in Children : j > nextIndex => stage[j] = "pending"
  BY DEF JoinInv, Counted
<1>4. stage'[i] = "settled" /\ \A j \in Children \ {i} : stage'[j] = "settled" <=> stage[j] = "settled"
  BY <1>1, <1>3 DEF Settle, Schedule, JoinInv, TypeOK
<1>5. \A j \in Children : finish'[j] # 0 <=> stage'[j] = "settled"
  BY <1>1, <1>2, <1>4 DEF Numbered
<1>6. \A j \in Children : stage'[j] = "settled" => finish'[j] \in 1..settled'
  BY <1>1, <1>2, <1>4 DEF Numbered
<1>7. ASSUME NEW k \in 1..settled' PROVE \E j \in Children : stage'[j] = "settled" /\ finish'[j] = k
  <2>1. CASE k = settled + 1
    BY <1>2, <1>4, <2>1
  <2>2. CASE k # settled + 1
    <3>1. PICK j \in Children : stage[j] = "settled" /\ finish[j] = k
      BY <1>1, <2>2 DEF Numbered
    <3>2. j # i
      BY <1>1, <3>1
    <3> QED
      BY <1>2, <1>4, <3>1, <3>2
  <2> QED
    BY <2>1, <2>2
<1> QED
  BY <1>5, <1>6, <1>7 DEF Numbered

\* No other step settles a child.
LEMMA NumberedStep == JoinInv /\ Numbered /\ [Next]_vars => Numbered'
<1> SUFFICES ASSUME JoinInv, Numbered, [Next]_vars PROVE Numbered'
  OBVIOUS
<1>1. CASE Begin
  <2>1. \A j \in Children : stage[j] = "pending"
    BY <1>1 DEF Begin, JoinInv, Counted, Filled, Children
  <2>2. \A j \in Children : stage'[j] # "settled"
    BY <1>1, <2>1 DEF Begin, Schedule
  <2> QED
    BY <1>1, <2>1, <2>2 DEF Begin, Numbered
<1>2. ASSUME NEW i \in Children, Launch(i) PROVE Numbered'
  BY <1>2 DEF Launch, Numbered, JoinInv, TypeOK
<1>3. CASE Return \/ UNCHANGED vars
  BY <1>3 DEF Return, vars, Numbered
<1> QED
  BY <1>1, <1>2, <1>3, SettleNumbers DEF Next

\* However settle callbacks overlap, the finish orders of the settled children are 1 to
\* their number, each once, and children start in the order of submission (Ordered).
THEOREM FinishOrder == Spec => []Ordered
<1>1. Init => Numbered
  BY DEF Init, Numbered
<1>2. JoinInv /\ Numbered => Ordered
  <2> SUFFICES ASSUME JoinInv, Numbered PROVE Ordered
    OBVIOUS
  <2>1. {finish[i] : i \in In({"settled"})} = 1..Cardinality(In({"settled"}))
    BY DEF JoinInv, Counted, Numbered, In
  <2>2. \A i, j \in Children : i < j /\ stage[i] = "pending" => stage[j] = "pending"
    BY DEF JoinInv, TypeOK, Counted, Children
  <2> QED
    BY <2>1, <2>2 DEF Ordered, Numbered
<1> QED
  BY JoinInvariant, NumberedStep, <1>1, <1>2, PTL DEF Spec

\* The join implements AllSettled: the caller goes on only when every child has
\* settled, and each settles once.
THEOREM Implements == Spec => KeepsPromise
<1>1. Init => Promise!Init
  BY DEF Init, Promise!Init, In
<1>2. JoinInv /\ [Next]_vars => [Promise!Next]_Promise!vars
  <2> SUFFICES ASSUME JoinInv, [Next]_vars PROVE [Promise!Next]_Promise!vars
    OBVIOUS
  <2> USE DEF Promise!vars
  <2>1. CASE Begin
    <3>1. \A i \in Children : stage[i] = "pending"
      BY <2>1 DEF Begin, JoinInv, Counted, Filled, Children
    <3>2. In({"settled"})' = In({"settled"})
      BY <2>1, <3>1 DEF Begin, Schedule, In
    <3> QED
      BY <2>1, <3>2 DEF Begin
  <2>2. CASE Return
    <3>1. Cardinality(In({"settled"})) = Count
      BY <2>2 DEF Return, JoinInv, Counted, TypeOK
    <3>2. In({"settled"}) \in SUBSET Children
      BY DEF In
    <3>3. In({"settled"}) = Children
      BY <3>1, <3>2, ChildrenFinite
    <3>4. In({"settled"})' = In({"settled"})
      BY <2>2 DEF Return, In
    <3> QED
      BY <2>2, <3>3, <3>4 DEF Return, Promise!Next, Promise!Return
  <2>3. ASSUME NEW i \in Children, Launch(i) PROVE UNCHANGED Promise!vars
    BY <2>3 DEF Launch, In, JoinInv, TypeOK
  <2>4. ASSUME NEW i \in Children, Settle(i) PROVE Promise!Next
    <3>1. \A j \in Children : j > nextIndex => stage[j] = "pending"
      BY DEF JoinInv, Counted
    <3>2. stage[i] = "running" /\ caller' = caller
      BY <2>4 DEF Settle
    <3>3. \A j \in Children : j # i => (stage'[j] = "settled" <=> stage[j] = "settled")
      BY <2>4, <3>1 DEF Settle, Schedule, JoinInv, TypeOK
    <3>4. stage'[i] = "settled"
      BY <2>4, <3>1, <3>2 DEF Settle, Schedule, JoinInv, TypeOK
    <3>5. Children \ In({"settled"})' = (Children \ In({"settled"})) \ {i}
      BY <3>3, <3>4 DEF In
    <3>6. i \in Children \ In({"settled"})
      BY <3>2 DEF In
    <3> QED
      BY <3>2, <3>5, <3>6 DEF Promise!Next, Promise!Settle
  <2>5. CASE UNCHANGED vars
    BY <2>5 DEF vars, In
  <2> QED
    BY <2>1, <2>2, <2>3, <2>4, <2>5 DEF Next
<1> QED
  BY JoinInvariant, <1>1, <1>2, PTL DEF Spec, KeepsPromise, Promise!Spec
================================================================================
