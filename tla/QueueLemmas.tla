------------------------------ MODULE QueueLemmas ------------------------------
(***************************************************************************)
(* What the operations of a queue kept as a sequence do to the set of its  *)
(* elements and to their being distinct.  The proofs about queues argue    *)
(* with these sets and never with positions, of which all that is said is  *)
(* that there is a first one.                                              *)
(***************************************************************************)
EXTENDS SequenceTheorems, WellFoundedInduction, TLAPS

\* A set of natural numbers that is not empty has a least one.
LEMMA LeastOf ==
  ASSUME NEW T, T \subseteq Nat, T # {}
  PROVE  \E m \in T : \A k \in T : m <= k
<1>1. PICK m \in T : \A k \in T : ~ (<<k, m>> \in OpToRel(<, Nat))
  BY WFMin, NatLessThanWellFounded
<1>2. \A k \in T : ~ (k < m)
  BY <1>1 DEF OpToRel
<1> QED
  BY <1>2

\* The range of a sequence is the set of its elements.
LEMMA RangeIsElements ==
  ASSUME NEW S, NEW s \in Seq(S)
  PROVE  /\ Range(s) \subseteq S
         /\ Range(s) = {s[k] : k \in 1..Len(s)}
         /\ Range(s) = {} <=> s = <<>>
         /\ \A k \in 1..Len(s) : s[k] \in Range(s)
<1>1. DOMAIN s = 1..Len(s) /\ Len(s) \in Nat /\ \A k \in 1..Len(s) : s[k] \in S
  OBVIOUS
<1>2. Range(s) = {s[k] : k \in 1..Len(s)}
  BY <1>1 DEF Range
<1>3. ASSUME s # <<>> PROVE s[1] \in Range(s)
  <2>1. Len(s) # 0
    BY <1>3, EmptySeq
  <2> QED
    BY <1>1, <1>2, <2>1
<1>4. ASSUME s = <<>> PROVE Range(s) = {}
  BY <1>4, <1>2
<1> QED
  BY <1>1, <1>2, <1>3, <1>4

\* An injective sequence is one without repetitions.
LEMMA InjectiveMeans ==
  ASSUME NEW S, NEW s \in Seq(S)
  PROVE  IsInjective(s) <=> \A k, l \in 1..Len(s) : s[k] = s[l] => k = l
BY DEF IsInjective

\* The empty sequence has no elements and no repetitions.
LEMMA EmptyElements ==
  Range(<<>>) = {} /\ IsInjective(<<>>)
BY DEF Range, IsInjective

\* A sequence of one element.
LEMMA SingletonElements ==
  ASSUME NEW S, NEW e \in S
  PROVE  <<e>> \in Seq(S) /\ Range(<<e>>) = {e} /\ IsInjective(<<e>>) /\ <<e>> # <<>>
BY DEF Range, IsInjective

\* Appending adds one element, and no repetition when the element is new.
LEMMA AppendElements ==
  ASSUME NEW S, NEW s \in Seq(S), NEW e \in S
  PROVE  /\ Append(s, e) \in Seq(S)
         /\ Append(s, e) # <<>>
         /\ Range(Append(s, e)) = Range(s) \cup {e}
         /\ IsInjective(s) /\ e \notin Range(s) => IsInjective(Append(s, e))
<1> DEFINE t == Append(s, e)
<1>1. /\ t \in Seq(S) /\ t # <<>> /\ Len(t) = Len(s) + 1 /\ Len(s) \in Nat
      /\ \A k \in 1..Len(s) : t[k] = s[k]
      /\ t[Len(s) + 1] = e
  BY AppendProperties
<1> HIDE DEF t
<1>2. Range(t) = Range(s) \cup {e}
  BY <1>1, RangeIsElements
<1>3. ASSUME IsInjective(s), e \notin Range(s) PROVE IsInjective(t)
  BY <1>1, <1>3, RangeIsElements, InjectiveMeans
<1> QED
  BY <1>1, <1>2, <1>3 DEF t

\* Taking the head off removes one element, which a sequence without repetitions does not
\* hold again.
LEMMA HeadTailElements ==
  ASSUME NEW S, NEW s \in Seq(S), s # <<>>
  PROVE  /\ Head(s) \in S /\ Tail(s) \in Seq(S)
         /\ Range(s) = {Head(s)} \cup Range(Tail(s))
         /\ IsInjective(s) => IsInjective(Tail(s)) /\ Head(s) \notin Range(Tail(s))
<1> DEFINE t == Tail(s)
<1>1. /\ Head(s) \in S /\ t \in Seq(S) /\ Len(t) = Len(s) - 1
      /\ Len(s) \in Nat \ {0}
      /\ \A k \in 1..Len(t) : t[k] = s[k + 1]
      /\ Head(s) = s[1]
  BY HeadTailProperties, EmptySeq
<1> HIDE DEF t
<1>2. Range(s) = {Head(s)} \cup Range(t)
  <2>1. ASSUME NEW k \in 1..Len(s) PROVE s[k] \in {Head(s)} \cup Range(t)
    <3>1. CASE k = 1
      BY <3>1, <1>1
    <3>2. CASE k # 1
      <4>1. k - 1 \in 1..Len(t) /\ t[k - 1] = s[k]
        BY <3>2, <1>1
      <4> QED
        BY <4>1, <1>1, RangeIsElements
    <3> QED
      BY <3>1, <3>2
  <2>2. ASSUME NEW k \in 1..Len(t) PROVE t[k] \in Range(s)
    <3>1. k + 1 \in 1..Len(s) /\ t[k] = s[k + 1]
      BY <1>1
    <3> QED
      BY <3>1, RangeIsElements
  <2>3. Head(s) \in Range(s)
    BY <1>1, RangeIsElements
  <2> QED
    BY <1>1, <2>1, <2>2, <2>3, RangeIsElements
<1>3. ASSUME IsInjective(s) PROVE IsInjective(t) /\ Head(s) \notin Range(t)
  <2>1. \A k, l \in 1..Len(s) : s[k] = s[l] => k = l
    BY <1>3, InjectiveMeans
  <2>2. ASSUME NEW k \in 1..Len(t)
        PROVE  k + 1 \in 1..Len(s) /\ 1 \in 1..Len(s) /\ t[k] = s[k + 1] /\ t[k] # Head(s)
    <3>1. k + 1 \in 1..Len(s) /\ 1 \in 1..Len(s) /\ k + 1 # 1
      BY <1>1
    <3> QED
      BY <1>1, <2>1, <3>1
  <2>3. IsInjective(t)
    <3>1. ASSUME NEW k \in 1..Len(t), NEW l \in 1..Len(t), t[k] = t[l] PROVE k = l
      <4>1. k + 1 = l + 1
        BY <2>1, <2>2, <3>1
      <4> QED
        BY <4>1, <1>1
    <3> QED
      BY <3>1, <1>1, InjectiveMeans
  <2> QED
    BY <1>1, <2>2, <2>3, RangeIsElements
<1> QED
  BY <1>1, <1>2, <1>3 DEF t

\* Cutting a sequence in two, as the drop loop does.
LEMMA CutElements ==
  ASSUME NEW S, NEW s \in Seq(S), NEW n \in 0..Len(s)
  PROVE  /\ SubSeq(s, 1, n) \in Seq(S) /\ SubSeq(s, n + 1, Len(s)) \in Seq(S)
         /\ Range(s) = Range(SubSeq(s, 1, n)) \cup Range(SubSeq(s, n + 1, Len(s)))
         /\ IsInjective(s) =>
              /\ IsInjective(SubSeq(s, 1, n)) /\ IsInjective(SubSeq(s, n + 1, Len(s)))
              /\ Range(SubSeq(s, 1, n)) \cap Range(SubSeq(s, n + 1, Len(s))) = {}
<1> DEFINE a == SubSeq(s, 1, n)
           b == SubSeq(s, n + 1, Len(s))
<1>1. /\ a \in Seq(S) /\ Len(a) = n /\ \A k \in 1..n : a[k] = s[k]
      /\ n \in Nat /\ Len(s) \in Nat /\ n <= Len(s)
  BY SubSeqProperties
<1>2. b \in Seq(S) /\ Len(b) = Len(s) - n /\ \A k \in 1..Len(s) - n : b[k] = s[n + k]
  <2>1. \A k \in (n + 1)..Len(s) : s[k] \in S
    BY <1>1
  <2> QED
    BY <1>1, <2>1, SubSeqProperties
<1> HIDE DEF a, b
<1>3. Range(s) = Range(a) \cup Range(b)
  <2>1. ASSUME NEW k \in 1..Len(s) PROVE s[k] \in Range(a) \cup Range(b)
    <3>1. CASE k <= n
      <4>1. k \in 1..Len(a) /\ a[k] = s[k]
        BY <3>1, <1>1
      <4> QED
        BY <4>1, <1>1, RangeIsElements
    <3>2. CASE k > n
      <4>1. k - n \in 1..Len(b) /\ b[k - n] = s[k]
        BY <3>2, <1>1, <1>2
      <4> QED
        BY <4>1, <1>2, RangeIsElements
    <3> QED
      BY <1>1, <3>1, <3>2
  <2>2. ASSUME NEW k \in 1..Len(a) PROVE a[k] \in Range(s)
    BY <1>1, RangeIsElements
  <2>3. ASSUME NEW k \in 1..Len(b) PROVE b[k] \in Range(s)
    <3>1. n + k \in 1..Len(s) /\ b[k] = s[n + k]
      BY <1>1, <1>2
    <3> QED
      BY <3>1, RangeIsElements
  <2>4. Range(s) \subseteq Range(a) \cup Range(b)
    BY <2>1, RangeIsElements
  <2>5. Range(a) \subseteq Range(s)
    BY <1>1, <2>2, RangeIsElements
  <2>6. Range(b) \subseteq Range(s)
    BY <1>2, <2>3, RangeIsElements
  <2> QED
    BY <2>4, <2>5, <2>6
<1>4. ASSUME IsInjective(s)
      PROVE  IsInjective(a) /\ IsInjective(b) /\ Range(a) \cap Range(b) = {}
  <2>1. \A k, l \in 1..Len(s) : s[k] = s[l] => k = l
    BY <1>4, InjectiveMeans
  <2>2. IsInjective(a)
    BY <1>1, <2>1, InjectiveMeans
  <2>3. IsInjective(b)
    <3>1. ASSUME NEW k \in 1..Len(b), NEW l \in 1..Len(b), b[k] = b[l] PROVE k = l
      <4>1. n + k \in 1..Len(s) /\ n + l \in 1..Len(s) /\ s[n + k] = s[n + l]
        BY <1>1, <1>2, <3>1
      <4>2. n + k = n + l
        BY <2>1, <4>1
      <4> QED
        BY <4>2, <1>1, <1>2
    <3> QED
      BY <3>1, <1>2, InjectiveMeans
  <2>4. ASSUME NEW k \in 1..Len(a), NEW l \in 1..Len(b) PROVE a[k] # b[l]
    <3>1. k \in 1..Len(s) /\ n + l \in 1..Len(s) /\ k # n + l /\ a[k] = s[k] /\ b[l] = s[n + l]
      BY <1>1, <1>2
    <3> QED
      BY <2>1, <3>1
  <2> QED
    BY <1>1, <1>2, <2>2, <2>3, <2>4, RangeIsElements
<1> QED
  BY <1>1, <1>2, <1>3, <1>4 DEF a, b

\* Concatenating two sequences joins their elements, without repetitions when they are
\* disjoint.
LEMMA ConcatElements ==
  ASSUME NEW S, NEW s \in Seq(S), NEW t \in Seq(S)
  PROVE  /\ s \o t \in Seq(S)
         /\ Range(s \o t) = Range(s) \cup Range(t)
         /\ IsInjective(s) /\ IsInjective(t) /\ Range(s) \cap Range(t) = {} => IsInjective(s \o t)
<1> DEFINE u == s \o t
<1>1. /\ u \in Seq(S) /\ Len(u) = Len(s) + Len(t) /\ Len(s) \in Nat /\ Len(t) \in Nat
      /\ \A k \in 1..Len(s) + Len(t) : u[k] = IF k <= Len(s) THEN s[k] ELSE t[k - Len(s)]
  BY ConcatProperties
<1>2. Range(u) = Range(s) \cup Range(t)
  BY RangeConcatenation
<1> HIDE DEF u
<1>3. ASSUME NEW j \in 1..Len(u)
      PROVE  \/ j \in 1..Len(s) /\ u[j] = s[j]
             \/ j > Len(s) /\ j - Len(s) \in 1..Len(t) /\ u[j] = t[j - Len(s)]
  <2>1. CASE j <= Len(s)
    BY <1>1, <2>1
  <2>2. CASE j > Len(s)
    <3>1. j - Len(s) \in 1..Len(t)
      BY <1>1, <2>2
    <3>2. ~(j <= Len(s)) /\ j \in 1..Len(s) + Len(t)
      BY <1>1, <2>2
    <3> QED
      BY <1>1, <2>2, <3>1, <3>2
  <2> QED
    BY <1>1, <2>1, <2>2
<1>4. ASSUME IsInjective(s), IsInjective(t), Range(s) \cap Range(t) = {}
      PROVE  IsInjective(u)
  <2>0. \A i \in 1..Len(s), j \in 1..Len(t) : s[i] # t[j]
    BY <1>4, RangeIsElements
  <2> SUFFICES ASSUME NEW k \in 1..Len(u), NEW l \in 1..Len(u), u[k] = u[l] PROVE k = l
    BY <1>1, InjectiveMeans
  <2>1. CASE k \in 1..Len(s) /\ u[k] = s[k]
    <3>1. l \in 1..Len(s) /\ u[l] = s[l]
      BY <1>3, <2>0, <2>1
    <3> QED
      BY <1>4, <2>1, <3>1, InjectiveMeans
  <2>2. CASE k > Len(s) /\ k - Len(s) \in 1..Len(t) /\ u[k] = t[k - Len(s)]
    <3>1. l - Len(s) \in 1..Len(t) /\ u[l] = t[l - Len(s)]
      BY <1>3, <2>0, <2>2
    <3>2. k - Len(s) = l - Len(s)
      BY <1>4, <2>2, <3>1, InjectiveMeans
    <3> QED
      BY <3>2, <1>1
  <2> QED
    BY <1>3, <2>1, <2>2
<1> QED
  BY <1>1, <1>2, <1>4 DEF u
================================================================================
