----------------------------- MODULE StreamsProofs -----------------------------
(***************************************************************************)
(* What is streamed is whole, for every value of the constants: what a     *)
(* client of the API is given, and what a model answers.                   *)
(*                                                                         *)
(* The API's streams first.  An event goes from the goroutine that stored  *)
(* it through a line of channels to the client, behind what the snapshot   *)
(* holds; the invariant says where each event since the subscription is.   *)
(***************************************************************************)
EXTENDS Services, QueueLemmas, FiniteSetTheorems

\* How much of what the client is given is the snapshot; the events streamed to it after that.
SnapLen == IF apiKind = "logs" /\ apiUpto > Ring THEN Ring ELSE apiUpto
Streamed == {apiGiven[i] : i \in {k \in 1..Len(apiGiven) : k > SnapLen}}

\* The events copied for the client's subscription and not sent yet.
InFlight == {apiSending[p].event : p \in {q \in Publishers : apiSending[q].to}}
InLine   == Streamed \cup Range(apiOut) \cup Range(apiBacklog) \cup Range(apiRaw)

\* In the line no event is twice, and logs are in order.
Follows(x, y)  == x # y /\ (apiKind = "logs" => x < y)
Precede(S, T)  == \A x \in S, y \in T : Follows(x, y)
Ordered(s)     == \A i, j \in 1..Len(s) : i < j => Follows(s[i], s[j])

ApiTypeOK ==
  /\ apiCount \in Nat /\ apiFrom \in Nat /\ apiUpto \in Nat
  /\ apiSending \in [Publishers -> [event : Nat, to : BOOLEAN]]
  /\ apiRaw \in Seq(Nat) /\ apiOut \in Seq(Nat) /\ apiBacklog \in Seq(Nat)
  /\ apiUnwritten \in Seq(Nat) /\ apiGiven \in Seq(Nat)

\* Where the handler is, its subscription is open, its snapshot read or its relay holding.
PhasesAgree ==
  /\ apiHandler \in {"subscribed", "streaming"} => apiSub = "open"
  /\ apiHandler = "writing" /\ apiKind # "session" => apiSub = "open"
  /\ apiHandler \in {"new", "subscribed"} => apiGiven = <<>> /\ apiUnwritten = <<>> /\ apiUpto = 0
  /\ apiHandler = "new" => apiSub = "none"
  /\ apiHandler = "written" => apiKind = "session"
  /\ apiHandler \in {"writing", "written"} /\ apiKind = "session" => apiSub = "none"
  /\ apiSub = "none" => InLine = {} /\ InFlight = {} /\ apiRelay = "none"
  /\ apiHandler = "subscribed" => apiKind \in Api!WithSnapshot \ {"session"}
  /\ apiHandler = "subscribed" /\ apiKind \in Api!Replayed => apiRelay = "holding"
  /\ apiRelay = "holding" => apiKind \in Api!Replayed /\ apiOut = <<>>
  /\ apiKind \notin Api!Replayed => apiBacklog = <<>>
  /\ apiKind \in Api!Replayed /\ apiRelay = "passing" => 1..apiUpto \subseteq apiSeen

\* What was stored when the handler subscribed and when it read the snapshot.
HistoryAgrees ==
  /\ apiFrom <= apiCount /\ apiUpto <= apiCount
  /\ apiKind = "session" /\ apiSub # "none" => apiUpto <= apiFrom
  /\ apiKind \notin Api!WithSnapshot => apiUpto = 0
  /\ apiKind \in Api!WithSnapshot \ {"session"} /\ apiHandler \in {"writing", "streaming"} =>
       apiFrom <= apiUpto

\* The client is given the snapshot first, and after it the events in the order of the line.
GivenAgrees ==
  /\ \A i \in 1..Len(apiGiven) : i <= SnapLen => apiGiven[i] = apiUpto - SnapLen + i
  /\ apiHandler = "writing" =>
       /\ Len(apiGiven) + Len(apiUnwritten) = SnapLen
       /\ \A k \in 1..Len(apiUnwritten) :
            apiUnwritten[k] = apiUpto - SnapLen + Len(apiGiven) + k
  /\ apiHandler \in {"written", "streaming"} => Len(apiGiven) >= SnapLen
  /\ \A i, j \in 1..Len(apiGiven) : SnapLen < i /\ i < j => Follows(apiGiven[i], apiGiven[j])

LineAgrees ==
  /\ Ordered(apiOut) /\ Ordered(apiBacklog) /\ Ordered(apiRaw)
  /\ Precede(Streamed, Range(apiOut)) /\ Precede(Streamed, Range(apiBacklog))
  /\ Precede(Streamed, Range(apiRaw)) /\ Precede(Range(apiOut), Range(apiBacklog))
  /\ Precede(Range(apiOut), Range(apiRaw)) /\ Precede(Range(apiBacklog), Range(apiRaw))
  /\ apiKind \in Api!Replayed => \A e \in Streamed \cup Range(apiOut) : e > apiUpto
  /\ apiKind \in Api!Replayed => apiSeen \subseteq 1..apiUpto \cup Streamed \cup Range(apiOut)

\* What is sent is of after the subscription, and of one publisher.
SendingAgrees ==
  /\ \A e \in InLine \cup InFlight : apiFrom < e /\ e <= apiCount
  /\ InLine \cap InFlight = {}
  /\ \A p \in Publishers : apiSending[p].event <= apiCount
  /\ \A p, q \in Publishers :
       p # q /\ apiSending[p].event = apiSending[q].event => apiSending[p].event = 0
  /\ apiKind = "logs" => \A p \in Publishers : apiSending[p].event = 0

\* While the client is subscribed, an event stored since is somewhere on its way, if it was not
\* missed and the snapshot does not hold it.
NoneForgotten ==
  apiHandler \in {"subscribed", "writing", "streaming"} /\ apiSub = "open" =>
    \A n \in (apiFrom + 1)..apiCount :
      n \in apiMissed \cup InFlight \cup InLine \/ (apiKind \in Api!Replayed /\ n <= apiUpto)

ApiInv ==
  /\ ApiTypeOK /\ PhasesAgree /\ HistoryAgrees /\ GivenAgrees /\ LineAgrees /\ SendingAgrees
  /\ NoneForgotten /\ Api!NoPanic
-----------------------------------------------------------------------------
\* Taking the head of an ordered line leaves an ordered one, all of which follows the head.
LEMMA TailOrdered ==
  ASSUME NEW s \in Seq(Nat), s # <<>>, Ordered(s)
  PROVE  Ordered(Tail(s)) /\ Precede({Head(s)}, Range(Tail(s)))
<1> DEFINE t == Tail(s)
<1>1. /\ t \in Seq(Nat) /\ Len(t) = Len(s) - 1 /\ Len(s) \in Nat \ {0}
      /\ \A k \in 1..Len(t) : t[k] = s[k + 1]
      /\ Head(s) = s[1]
  BY HeadTailProperties, EmptySeq
<1> HIDE DEF t
<1>2. ASSUME NEW i \in 1..Len(t), NEW j \in 1..Len(t), i < j PROVE Follows(t[i], t[j])
  <2>1. i + 1 \in 1..Len(s) /\ j + 1 \in 1..Len(s) /\ i + 1 < j + 1
    BY <1>1, <1>2
  <2> QED
    BY <1>1, <2>1 DEF Ordered
<1>3. ASSUME NEW j \in 1..Len(t) PROVE Follows(Head(s), t[j])
  <2>1. 1 \in 1..Len(s) /\ j + 1 \in 1..Len(s) /\ 1 < j + 1
    BY <1>1
  <2> QED
    BY <1>1, <2>1 DEF Ordered
<1>4. Precede({Head(s)}, Range(t))
  <2>1. Range(t) = {t[k] : k \in 1..Len(t)}
    BY <1>1, RangeIsElements
  <2> QED
    BY <1>3, <2>1 DEF Precede
<1> QED
  BY <1>2, <1>4 DEF Ordered, t

\* A line stays ordered when what is appended follows all that it holds.
LEMMA AppendOrdered ==
  ASSUME NEW s \in Seq(Nat), NEW e \in Nat, Ordered(s), Precede(Range(s), {e})
  PROVE  Ordered(Append(s, e))
<1> DEFINE t == Append(s, e)
<1>1. /\ Len(t) = Len(s) + 1 /\ Len(s) \in Nat
      /\ \A k \in 1..Len(s) : t[k] = s[k]
      /\ t[Len(s) + 1] = e
  BY AppendProperties
<1> HIDE DEF t
<1>2. ASSUME NEW i \in 1..Len(t), NEW j \in 1..Len(t), i < j PROVE Follows(t[i], t[j])
  <2>1. i \in 1..Len(s)
    BY <1>1, <1>2
  <2>2. CASE j \in 1..Len(s)
    BY <1>1, <1>2, <2>1, <2>2 DEF Ordered
  <2>3. CASE j = Len(s) + 1
    BY <1>1, <2>1, <2>3, RangeIsElements DEF Precede
  <2> QED
    BY <1>1, <2>2, <2>3
<1> QED
  BY <1>2 DEF Ordered, t

\* The next event of the relay is the first it holds, or else the first it is sent.
LEMMA NextOfTwo ==
  ASSUME NEW s \in Seq(Nat), NEW t \in Seq(Nat)
  PROVE  /\ s \o t = <<>> <=> s = <<>> /\ t = <<>>
         /\ s # <<>> => Head(s \o t) = Head(s)
         /\ s = <<>> => Head(s \o t) = Head(t)
<1> DEFINE u == s \o t
<1>1. /\ u \in Seq(Nat) /\ Len(u) = Len(s) + Len(t) /\ Len(s) \in Nat /\ Len(t) \in Nat
      /\ \A k \in 1..Len(s) + Len(t) : u[k] = IF k <= Len(s) THEN s[k] ELSE t[k - Len(s)]
  BY ConcatProperties
<1>2. ASSUME s = <<>> PROVE u = t
  BY <1>2
<1> HIDE DEF u
<1>3. u = <<>> <=> s = <<>> /\ t = <<>>
  BY <1>1, EmptySeq
<1>4. ASSUME s # <<>> PROVE Head(u) = Head(s)
  <2>1. Len(s) # 0
    BY <1>4, EmptySeq
  <2>2. u # <<>> /\ 1 \in 1..Len(s) + Len(t) /\ 1 <= Len(s)
    BY <1>1, <1>3, <1>4, <2>1
  <2>3. u[1] = s[1]
    BY <1>1, <2>2
  <2> QED
    BY <1>1, <1>4, <2>2, <2>3, HeadTailProperties
<1> QED
  BY <1>2, <1>3, <1>4 DEF u

\* What is streamed are the elements given after the snapshot.
LEMMA StreamedMeans ==
  ASSUME ApiTypeOK
  PROVE  /\ SnapLen \in Nat /\ SnapLen <= apiUpto
         /\ Len(apiGiven) \in Nat /\ \A k \in 1..Len(apiGiven) : apiGiven[k] \in Nat
         /\ \A e : e \in Streamed <=> \E i \in 1..Len(apiGiven) : SnapLen < i /\ e = apiGiven[i]
         /\ InLine \subseteq Nat
<1>1. SnapLen \in Nat /\ SnapLen <= apiUpto
  BY RingAssumption DEF ApiTypeOK, SnapLen
<1>2. Len(apiGiven) \in Nat /\ \A k \in 1..Len(apiGiven) : apiGiven[k] \in Nat
  BY DEF ApiTypeOK
<1>3. ASSUME NEW e PROVE e \in Streamed <=> \E i \in 1..Len(apiGiven) : SnapLen < i /\ e = apiGiven[i]
  BY <1>1, <1>2 DEF Streamed
<1>4. Streamed \subseteq Nat
  BY <1>2, <1>3
<1>5. Range(apiOut) \subseteq Nat /\ Range(apiBacklog) \subseteq Nat /\ Range(apiRaw) \subseteq Nat
  BY RangeIsElements DEF ApiTypeOK
<1> QED
  BY <1>1, <1>2, <1>3, <1>4, <1>5 DEF InLine

\* The invariant says what the API promises.
LEMMA WholeFollows ==
  ASSUME ApiInv PROVE Api!StreamsAreWhole
<1> USE DEF ApiInv
<1>1. /\ SnapLen \in Nat /\ apiUpto \in Nat /\ apiFrom \in Nat /\ apiCount \in Nat /\ SnapLen <= apiUpto
      /\ Len(apiGiven) \in Nat /\ \A k \in 1..Len(apiGiven) : apiGiven[k] \in Nat
      /\ DOMAIN apiGiven = 1..Len(apiGiven)
  BY StreamedMeans DEF ApiTypeOK
<1>2. \A e : e \in Streamed <=> \E i \in 1..Len(apiGiven) : SnapLen < i /\ e = apiGiven[i]
  BY StreamedMeans
<1>3. \A i \in 1..Len(apiGiven) : i <= SnapLen => apiGiven[i] = apiUpto - SnapLen + i
  BY DEF GivenAgrees
<1>4. \A i, j \in 1..Len(apiGiven) : SnapLen < i /\ i < j => Follows(apiGiven[i], apiGiven[j])
  BY DEF GivenAgrees
<1>5. ASSUME NEW e \in Streamed
      PROVE  /\ apiFrom < e /\ apiSub # "none"
             /\ apiKind \in Api!Replayed => apiUpto < e
             /\ apiKind = "session" => apiUpto < e
  <2>1. e \in InLine
    BY DEF InLine
  <2>2. apiFrom < e /\ apiSub # "none"
    BY <2>1 DEF SendingAgrees, PhasesAgree
  <2>3. apiKind \in Api!Replayed => apiUpto < e
    BY <1>1 DEF LineAgrees
  <2>4. apiKind = "session" => apiUpto <= apiFrom
    BY <2>2 DEF HistoryAgrees
  <2>5. e \in Nat
    BY <1>1, <1>2
  <2> QED
    BY <1>1, <2>2, <2>3, <2>4, <2>5
<1>6. Api!NothingTwice
  <2> SUFFICES ASSUME NEW i \in 1..Len(apiGiven), NEW j \in 1..Len(apiGiven),
                      i < j, apiGiven[i] = apiGiven[j]
               PROVE  apiKind = "logs" /\ apiGiven[i] > apiFrom /\ apiGiven[i] <= apiUpto
    BY <1>1 DEF Api!NothingTwice
  <2>1. ~ (SnapLen < i)
    BY <1>4 DEF Follows
  <2>2. apiGiven[i] = apiUpto - SnapLen + i /\ apiGiven[i] <= apiUpto /\ SnapLen > 0
    BY <1>1, <1>3, <2>1
  <2>3. SnapLen < j
    <3>1. SUFFICES ASSUME j <= SnapLen PROVE FALSE
      BY <1>1
    <3>2. apiGiven[j] = apiUpto - SnapLen + j
      BY <1>3, <3>1
    <3>3. apiUpto - SnapLen + i = apiUpto - SnapLen + j
      BY <2>2, <3>2
    <3>4. SnapLen \in Int /\ apiUpto \in Int /\ i \in Int /\ j \in Int /\ i < j
      BY <1>1
    <3> HIDE DEF ApiInv
    <3> QED
      BY <3>3, <3>4
  <2>4. apiGiven[j] \in Streamed
    BY <1>2, <2>3
  <2>5. apiFrom < apiGiven[i] /\ apiKind \notin Api!Replayed /\ apiKind # "session"
    BY <1>1, <1>5, <2>2, <2>4
  <2>6. apiKind \in Api!WithSnapshot
    BY <1>1, <2>2 DEF HistoryAgrees
  <2> QED
    BY <1>1, <2>2, <2>5, <2>6 DEF Api!WithSnapshot
<1>7. Api!LogsInOrder
  <2>1. CASE apiKind = "logs"
    <3>1. SnapLen = IF apiUpto > Ring THEN Ring ELSE apiUpto
      BY <2>1 DEF SnapLen
    <3> QED
      BY <1>1, <1>4, <2>1, <3>1 DEF Api!LogsInOrder, Follows
  <2> QED
    BY <2>1 DEF Api!LogsInOrder
<1>8. ASSUME Api!CaughtUp PROVE Api!Promised \ apiMissed \subseteq Api!Given
  <2>1. apiHandler = "streaming" /\ apiSub = "open" /\ Len(apiGiven) >= SnapLen
    BY <1>8 DEF Api!CaughtUp, PhasesAgree, GivenAgrees
  <2>2. InLine = Streamed
    <3>1. apiRaw = <<>> /\ apiBacklog = <<>> /\ apiOut = <<>>
      <4>1. apiRaw \in Seq(Nat) /\ apiBacklog \in Seq(Nat) /\ apiOut \in Seq(Nat)
        BY DEF ApiTypeOK
      <4>2. apiRaw \o apiBacklog \in Seq(Nat) /\ (apiRaw \o apiBacklog) \o apiOut = <<>>
        BY <1>8, <4>1, ConcatProperties DEF Api!CaughtUp
      <4>3. apiRaw \o apiBacklog = <<>> /\ apiOut = <<>>
        BY <4>1, <4>2, NextOfTwo
      <4> QED
        BY <4>1, <4>3, NextOfTwo
    <3> QED
      BY <3>1, EmptyElements DEF InLine
  <2>3. InFlight = {}
    <3>1. 0 \notin InFlight
      BY <1>1 DEF SendingAgrees
    <3> QED
      BY <1>8, <3>1 DEF Api!CaughtUp, InFlight
  <2>4. ASSUME NEW n \in Nat, apiFrom < n, n <= apiCount, n \notin apiMissed,
               ~ (apiKind \in Api!Replayed /\ n <= apiUpto)
        PROVE  n \in Api!Given
    <3>1. n \in (apiFrom + 1)..apiCount
      BY <1>1, <2>4
    <3>2. n \in Streamed
      BY <2>1, <2>2, <2>3, <2>4, <3>1 DEF NoneForgotten
    <3> QED
      BY <1>1, <1>2, <3>2 DEF Api!Given
  <2>5. ASSUME NEW n \in Nat, n <= apiUpto, apiUpto - SnapLen < n PROVE n \in Api!Given
    <3>1. n - (apiUpto - SnapLen) \in 1..Len(apiGiven) /\ n - (apiUpto - SnapLen) <= SnapLen
      BY <1>1, <2>1, <2>5
    <3>2. apiGiven[n - (apiUpto - SnapLen)] = n
      BY <1>1, <1>3, <2>5, <3>1
    <3> QED
      BY <1>1, <3>1, <3>2 DEF Api!Given
  <2>6. CASE apiKind \in Api!Replayed
    <3>1. Api!Promised = 1..apiCount /\ SnapLen = apiUpto /\ apiFrom <= apiUpto
      BY <2>1, <2>6 DEF Api!Promised, Api!Replayed, Api!WithSnapshot, SnapLen, HistoryAgrees
    <3> QED
      BY <1>1, <2>4, <2>5, <3>1
  <2>7. CASE apiKind = "logs"
    <3>1. apiKind \notin Api!Replayed
      BY <2>7 DEF Api!Replayed
    <3>2. Api!Promised = {n \in 1..apiCount : n + Ring > apiUpto}
      BY <2>7, <3>1 DEF Api!Promised
    <3>3. SnapLen = (IF apiUpto > Ring THEN Ring ELSE apiUpto) /\ apiFrom <= apiUpto
      BY <2>1, <2>7, <3>1 DEF SnapLen, HistoryAgrees, Api!WithSnapshot
    <3>4. ASSUME NEW n \in 1..apiCount, n + Ring > apiUpto, n \notin apiMissed PROVE n \in Api!Given
      <4>1. CASE n <= apiUpto
        <5>1. apiUpto - SnapLen < n
          BY <1>1, <3>3, <3>4, RingAssumption
        <5> QED
          BY <1>1, <2>5, <4>1, <5>1
      <4>2. CASE n > apiUpto
        BY <1>1, <2>4, <3>1, <3>3, <3>4, <4>2
      <4> QED
        BY <1>1, <4>1, <4>2
    <3> QED
      BY <3>2, <3>4
  <2>8. CASE apiKind = "session"
    <3>1. apiKind \notin Api!Replayed /\ SnapLen = apiUpto
      BY <2>8 DEF SnapLen, Api!Replayed
    <3>2. Api!Promised = (1..apiUpto) \cup ((apiFrom + 1)..apiCount)
      BY <2>8, <3>1 DEF Api!Promised
    <3> QED
      BY <1>1, <2>4, <2>5, <3>1, <3>2
  <2>9. CASE apiKind \notin Api!Replayed /\ apiKind # "logs" /\ apiKind # "session"
    <3>1. Api!Promised = (apiFrom + 1)..apiCount
      BY <2>9 DEF Api!Promised
    <3> QED
      BY <1>1, <2>4, <2>9, <3>1
  <2> QED
    BY <2>6, <2>7, <2>8, <2>9
<1> QED
  BY <1>6, <1>7, <1>8 DEF Api!StreamsAreWhole

\* What only moves the handler, the subscription or the relay leaves the line as it is.
LEMMA LineKept ==
  ASSUME ApiInv, apiFrom' \in Nat,
         UNCHANGED <<apiKind, apiCount, apiSending, apiRaw, apiOut, apiBacklog, apiSeen,
                     apiUnwritten, apiGiven, apiUpto, apiMissed, apiPanicked>>
  PROVE  /\ ApiTypeOK' /\ LineAgrees' /\ (Api!NoPanic)'
         /\ SnapLen' = SnapLen /\ InLine' = InLine /\ InFlight' = InFlight
<1>1. Streamed' = Streamed /\ SnapLen' = SnapLen /\ InFlight' = InFlight
  BY DEF Streamed, SnapLen, InFlight
<1>2. InLine' = InLine
  BY <1>1 DEF InLine
<1>3. LineAgrees'
  BY <1>1 DEF ApiInv, LineAgrees, Ordered, Precede, Follows
<1> QED
  BY <1>1, <1>2, <1>3 DEF ApiInv, ApiTypeOK, Api!NoPanic

LEMMA SubscribeStep ==
  ASSUME ApiInv, Api!Subscribe PROVE ApiInv'
<1> USE DEF Api!ReadsFirst, Api!stored
<1>0. apiFrom' \in Nat /\ apiFrom' = apiCount /\ apiCount \in Nat
  BY DEF Api!Subscribe, ApiInv, ApiTypeOK
<1>1. /\ ApiTypeOK' /\ LineAgrees' /\ (Api!NoPanic)'
      /\ SnapLen' = SnapLen /\ InLine' = InLine /\ InFlight' = InFlight
  BY <1>0, LineKept DEF Api!Subscribe
<1>2. apiSub = "none"
  BY DEF Api!Subscribe, ApiInv, PhasesAgree
<1>3. InLine = {} /\ InFlight = {} /\ apiRelay = "none"
  BY <1>2 DEF ApiInv, PhasesAgree
<1>4. PhasesAgree'
  <2>1. apiOut = <<>> /\ apiBacklog = <<>>
    BY <1>3, RangeIsElements DEF InLine, ApiInv, ApiTypeOK
  <2> QED
    BY <1>1, <1>2, <2>1 DEF Api!Subscribe, ApiInv, PhasesAgree, Api!Replayed, Api!WithSnapshot
<1>5. HistoryAgrees'
  BY <1>0, <1>2 DEF Api!Subscribe, ApiInv, HistoryAgrees, PhasesAgree
<1>6. GivenAgrees'
  <2>1. apiHandler' = "streaming" => Len(apiGiven) >= SnapLen
    <3>1. CASE apiHandler = "written"
      BY <3>1 DEF ApiInv, GivenAgrees
    <3>2. CASE apiHandler = "new"
      BY <3>2, StreamedMeans DEF ApiInv, ApiTypeOK, PhasesAgree
    <3> QED
      BY <3>1, <3>2 DEF Api!Subscribe
  <2> QED
    BY <1>1, <2>1 DEF Api!Subscribe, ApiInv, GivenAgrees, Follows
<1>7. SendingAgrees'
  BY <1>0, <1>1, <1>3 DEF Api!Subscribe, ApiInv, SendingAgrees
<1>8. NoneForgotten'
  BY <1>0 DEF Api!Subscribe, NoneForgotten
<1> QED
  BY <1>1, <1>4, <1>5, <1>6, <1>7, <1>8 DEF ApiInv

LEMMA ControlSteps ==
  ASSUME ApiInv,
         \/ Api!NotFound \/ Api!Written \/ Api!Leave \/ Api!Unsubscribe \/ Api!CloseChannel
         \/ Api!RelayEnds
  PROVE  ApiInv'
<1> USE DEF Api!ReadsFirst, Api!stored, Api!relaying, Api!client
<1>0. UNCHANGED <<apiKind, apiCount, apiSending, apiRaw, apiOut, apiBacklog, apiSeen,
                  apiUnwritten, apiGiven, apiFrom, apiUpto, apiMissed, apiPanicked>>
  BY DEF Api!NotFound, Api!Written, Api!Leave, Api!Unsubscribe, Api!CloseChannel, Api!RelayEnds
<1>1. /\ ApiTypeOK' /\ LineAgrees' /\ (Api!NoPanic)'
      /\ SnapLen' = SnapLen /\ InLine' = InLine /\ InFlight' = InFlight
  BY <1>0, LineKept DEF ApiInv, ApiTypeOK
<1>2. SendingAgrees'
  BY <1>0, <1>1 DEF ApiInv, SendingAgrees
<1>3. ASSUME apiSub' = apiSub, apiRelay' = apiRelay,
             \/ apiHandler' \in {"leaving", "gone"}
             \/ /\ apiHandler = "writing" /\ apiUnwritten = <<>>
                /\ apiHandler' = IF apiKind = "session" THEN "written" ELSE "streaming"
      PROVE  PhasesAgree' /\ HistoryAgrees' /\ GivenAgrees' /\ NoneForgotten'
  <2>1. PhasesAgree'
    BY <1>0, <1>1, <1>3 DEF ApiInv, PhasesAgree
  <2>2. HistoryAgrees'
    BY <1>0, <1>3 DEF ApiInv, HistoryAgrees
  <2>3. GivenAgrees'
    BY <1>0, <1>1, <1>3 DEF ApiInv, GivenAgrees, Follows
  <2>4. NoneForgotten'
    BY <1>0, <1>1, <1>3 DEF ApiInv, NoneForgotten
  <2> QED
    BY <2>1, <2>2, <2>3, <2>4
<1>4. ASSUME apiSub # "none", apiSub' \in {"dropped", "closed"}, apiRelay' = apiRelay,
             apiHandler \notin {"subscribed", "streaming"} \/ apiHandler' = "gone",
             apiHandler' \in {"leaving", "gone"}
      PROVE  PhasesAgree' /\ HistoryAgrees' /\ GivenAgrees' /\ NoneForgotten'
  <2>1. PhasesAgree'
    BY <1>0, <1>1, <1>4 DEF ApiInv, PhasesAgree
  <2>2. HistoryAgrees'
    BY <1>0, <1>4 DEF ApiInv, HistoryAgrees
  <2>3. GivenAgrees'
    BY <1>0, <1>1, <1>4 DEF ApiInv, GivenAgrees, Follows
  <2>4. NoneForgotten'
    BY <1>0, <1>1, <1>4 DEF ApiInv, NoneForgotten
  <2> QED
    BY <2>1, <2>2, <2>3, <2>4
<1>5. ASSUME Api!RelayEnds PROVE PhasesAgree' /\ HistoryAgrees' /\ GivenAgrees' /\ NoneForgotten'
  <2>1. apiRelay' = "ended" /\ apiSub # "none" /\ UNCHANGED <<apiSub, apiHandler>>
    BY <1>5 DEF Api!RelayEnds, ApiInv, PhasesAgree
  <2>2. apiHandler = "subscribed" => ~ (apiKind \in Api!Replayed)
    BY <1>5 DEF Api!RelayEnds, ApiInv, PhasesAgree
  <2>3. PhasesAgree'
    BY <1>0, <1>1, <2>1, <2>2 DEF ApiInv, PhasesAgree
  <2>4. HistoryAgrees'
    BY <1>0, <2>1 DEF ApiInv, HistoryAgrees
  <2>5. GivenAgrees'
    BY <1>0, <1>1, <2>1 DEF ApiInv, GivenAgrees, Follows
  <2>6. NoneForgotten'
    BY <1>0, <1>1, <2>1 DEF ApiInv, NoneForgotten
  <2> QED
    BY <2>3, <2>4, <2>5, <2>6
<1>6. PhasesAgree' /\ HistoryAgrees' /\ GivenAgrees' /\ NoneForgotten'
  <2>1. CASE Api!NotFound
    BY <1>3, <2>1 DEF Api!NotFound
  <2>2. CASE Api!Written
    BY <1>3, <2>2 DEF Api!Written
  <2>3. CASE Api!Leave
    BY <1>3, <2>3 DEF Api!Leave
  <2>4. CASE Api!Unsubscribe
    BY <1>4, <2>4 DEF Api!Unsubscribe
  <2>5. CASE Api!CloseChannel
    BY <1>4, <2>5 DEF Api!CloseChannel
  <2> QED
    BY <1>5, <2>1, <2>2, <2>3, <2>4, <2>5
<1> QED
  BY <1>1, <1>2, <1>6 DEF ApiInv

LEMMA ReadStep ==
  ASSUME ApiInv, Api!Read PROVE ApiInv'
<1> USE DEF Api!ReadsFirst, Api!stored
<1>0. /\ apiGiven = <<>> /\ apiUnwritten = <<>> /\ apiUpto = 0 /\ apiUpto' = apiCount
      /\ apiHandler' = "writing" /\ apiKind \in Api!WithSnapshot
      /\ apiCount \in Nat /\ apiFrom \in Nat /\ apiFrom <= apiCount /\ Len(apiGiven) = 0
      /\ UNCHANGED <<apiKind, apiCount, apiSending, apiSub, apiRaw, apiOut, apiBacklog, apiGiven,
                     apiFrom, apiMissed, apiPanicked>>
  BY DEF Api!Read, ApiInv, ApiTypeOK, PhasesAgree, HistoryAgrees
<1>1. /\ apiKind \in Api!Replayed =>
           apiSeen' = 1..apiCount /\ apiRelay' = "passing" /\ apiOut = <<>> /\ apiSub = "open"
      /\ apiKind \notin Api!Replayed => UNCHANGED <<apiSeen, apiRelay>>
      /\ apiKind = "session" => apiSub = "none"
      /\ apiKind # "session" => apiSub = "open"
  <2>1. "session" \notin Api!Replayed
    BY DEF Api!Replayed
  <2> QED
    BY <2>1 DEF Api!Read, ApiInv, PhasesAgree
<1>2. /\ apiUnwritten' = Api!Snapshot /\ Api!Snapshot \in Seq(Nat) /\ Len(Api!Snapshot) = SnapLen'
      /\ SnapLen' \in Nat
      /\ \A k \in 1..SnapLen' : Api!Snapshot[k] = apiUpto' - SnapLen' + k
  <2> DEFINE n == IF apiKind = "logs" /\ apiCount > Ring THEN Ring ELSE apiCount
             e(k) == IF apiKind = "logs" /\ apiCount > Ring THEN apiCount - Ring + k ELSE k
  <2>1. n \in Nat /\ SnapLen' = n /\ Api!Snapshot = [k \in 1..n |-> e(k)]
    BY <1>0, RingAssumption DEF SnapLen, Api!Snapshot
  <2>2. \A k \in 1..n : e(k) \in Nat /\ e(k) = apiUpto' - n + k
    BY <1>0, RingAssumption
  <2> HIDE DEF n, e
  <2>3. Api!Snapshot \in [1..n -> Nat] /\ \A k \in 1..n : Api!Snapshot[k] = e(k)
    BY <2>1, <2>2
  <2>4. Api!Snapshot \in Seq(Nat) /\ Len(Api!Snapshot) = n
    BY <2>1, <2>3
  <2> QED
    BY <2>1, <2>2, <2>3, <2>4 DEF Api!Read
<1>3. Streamed = {} /\ Streamed' = {} /\ InLine' = InLine /\ InFlight' = InFlight
  BY <1>0 DEF Streamed, InLine, InFlight
<1>4. ApiTypeOK' /\ (Api!NoPanic)'
  BY <1>0, <1>2 DEF ApiInv, ApiTypeOK, Api!NoPanic
<1>5. PhasesAgree'
  <2>1. apiKind \notin Api!Replayed => apiRelay # "holding"
    BY DEF ApiInv, PhasesAgree
  <2>2. apiSub = "none" => apiRelay' = "none" /\ InLine = {} /\ InFlight = {}
    BY <1>1 DEF ApiInv, PhasesAgree
  <2> QED
    BY <1>0, <1>1, <1>3, <2>1, <2>2 DEF ApiInv, PhasesAgree
<1>6. HistoryAgrees'
  BY <1>0, <1>1 DEF ApiInv, HistoryAgrees
<1>7. GivenAgrees'
  <2>1. /\ apiGiven' = apiGiven /\ Len(apiGiven') = 0 /\ 1..Len(apiGiven') = {}
        /\ apiUpto' \in Nat /\ Len(apiUnwritten') = SnapLen'
    BY <1>0, <1>2
  <2>2. \A k \in 1..Len(apiUnwritten') : apiUnwritten'[k] = apiUpto' - SnapLen' + Len(apiGiven') + k
    BY <1>2, <2>1
  <2>3. ~ (apiHandler' \in {"written", "streaming"})
    BY <1>0
  <2>4. Len(apiGiven') + Len(apiUnwritten') = SnapLen'
    <3>1. Len(apiGiven') = 0 /\ Len(apiUnwritten') = SnapLen' /\ Len(apiUnwritten') \in Nat
      BY <1>2, <2>1
    <3>2. \A a, b \in Nat : a = 0 => a + b = b
      OBVIOUS
    <3>3. Len(apiGiven') + Len(apiUnwritten') = Len(apiUnwritten')
      BY <3>1, <3>2
    <3> QED
      BY <3>1, <3>3
  <2> QED
    BY <2>1, <2>2, <2>3, <2>4 DEF GivenAgrees
<1>8. LineAgrees'
  <2>1. apiKind \in Api!Replayed => Range(apiOut) = {}
    BY <1>1, EmptyElements
  <2>2. apiKind \in Api!Replayed => Streamed' \cup Range(apiOut') = {} /\ apiSeen' \subseteq 1..apiUpto'
    BY <1>0, <1>1, <1>3, <2>1
  <2> QED
    BY <1>0, <1>3, <2>2 DEF ApiInv, LineAgrees, Ordered, Precede, Follows
<1>9. SendingAgrees'
  BY <1>0, <1>3 DEF ApiInv, SendingAgrees
<1>10. NoneForgotten'
  <2>1. CASE apiKind \in Api!Replayed
    BY <1>0, <2>1 DEF NoneForgotten
  <2>2. CASE apiHandler = "subscribed" /\ apiKind \notin Api!Replayed
    BY <1>0, <1>3, <2>2 DEF ApiInv, NoneForgotten
  <2>3. CASE apiHandler = "new"
    BY <1>0, <2>3 DEF ApiInv, NoneForgotten, PhasesAgree
  <2> QED
    BY <2>1, <2>2, <2>3 DEF Api!Read
<1> QED
  BY <1>4, <1>5, <1>6, <1>7, <1>8, <1>9, <1>10 DEF ApiInv

LEMMA WriteStep ==
  ASSUME ApiInv, Api!Write PROVE ApiInv'
<1> USE DEF Api!stored, Api!relaying
<1> DEFINE e == Head(apiUnwritten)
<1>0. /\ apiHandler = "writing" /\ apiUnwritten # <<>> /\ apiUnwritten \in Seq(Nat) /\ apiGiven \in Seq(Nat)
      /\ apiGiven' = Append(apiGiven, e) /\ apiUnwritten' = Tail(apiUnwritten)
      /\ UNCHANGED <<apiKind, apiCount, apiSending, apiSub, apiRaw, apiOut, apiRelay, apiBacklog,
                     apiSeen, apiHandler, apiFrom, apiUpto, apiMissed, apiPanicked>>
  BY DEF Api!Write, ApiInv, ApiTypeOK
<1>1. /\ apiUnwritten' \in Seq(Nat) /\ Len(apiUnwritten') = Len(apiUnwritten) - 1
      /\ Len(apiUnwritten) \in Nat \ {0} /\ e = apiUnwritten[1] /\ e \in Nat
      /\ \A k \in 1..Len(apiUnwritten') : apiUnwritten'[k] = apiUnwritten[k + 1]
  BY <1>0, HeadTailProperties, EmptySeq
<1>2. /\ apiGiven' \in Seq(Nat) /\ Len(apiGiven') = Len(apiGiven) + 1 /\ Len(apiGiven) \in Nat
      /\ \A k \in 1..Len(apiGiven) : apiGiven'[k] = apiGiven[k]
      /\ apiGiven'[Len(apiGiven) + 1] = e
  BY <1>0, <1>1, AppendProperties
<1> HIDE DEF e
<1>3. /\ SnapLen \in Nat /\ SnapLen' = SnapLen /\ apiUpto \in Nat /\ SnapLen <= apiUpto
      /\ Len(apiGiven) + Len(apiUnwritten) = SnapLen
      /\ \A k \in 1..Len(apiUnwritten) : apiUnwritten[k] = apiUpto - SnapLen + Len(apiGiven) + k
      /\ \A k \in 1..Len(apiGiven) : k <= SnapLen => apiGiven[k] = apiUpto - SnapLen + k
  <2>1. SnapLen' = SnapLen
    BY <1>0 DEF SnapLen
  <2> QED
    BY <1>0, <2>1, StreamedMeans DEF ApiInv, GivenAgrees, ApiTypeOK
<1>4. Streamed = {} /\ Streamed' = {}
  <2>1. \A k \in 1..Len(apiGiven) + 1 : ~ (k > SnapLen)
    BY <1>1, <1>2, <1>3
  <2>2. \A k \in 1..Len(apiGiven) : ~ (k > SnapLen)
    BY <1>2, <2>1
  <2> QED
    BY <1>2, <1>3, <2>1, <2>2 DEF Streamed
<1>5. InLine' = InLine /\ InFlight' = InFlight
  BY <1>0, <1>4 DEF InLine, InFlight
<1>6. ApiTypeOK' /\ (Api!NoPanic)' /\ PhasesAgree' /\ HistoryAgrees'
  BY <1>0, <1>1, <1>2, <1>5 DEF ApiInv, ApiTypeOK, Api!NoPanic, PhasesAgree, HistoryAgrees
<1>7. GivenAgrees'
  <2>1. ASSUME NEW i \in 1..Len(apiGiven') PROVE i <= SnapLen /\ apiGiven'[i] = apiUpto - SnapLen + i
    <3>1. CASE i \in 1..Len(apiGiven)
      BY <1>1, <1>2, <1>3, <3>1
    <3>2. CASE i = Len(apiGiven) + 1
      <4>1. e = apiUpto - SnapLen + Len(apiGiven) + 1
        BY <1>1, <1>3
      <4> QED
        BY <1>1, <1>2, <1>3, <3>2, <4>1
    <3> QED
      BY <1>2, <3>1, <3>2
  <2>2. ASSUME NEW k \in 1..Len(apiUnwritten')
        PROVE  apiUnwritten'[k] = apiUpto - SnapLen + Len(apiGiven') + k
    <3>1. k + 1 \in 1..Len(apiUnwritten) /\ k \in Nat
      BY <1>1
    <3>2. apiUnwritten'[k] = apiUpto - SnapLen + Len(apiGiven) + (k + 1)
      BY <1>1, <1>3, <3>1
    <3> QED
      BY <1>2, <1>3, <3>1, <3>2
  <2>3. Len(apiGiven') + Len(apiUnwritten') = SnapLen
    <3>1. /\ Len(apiGiven') = Len(apiGiven) + 1 /\ Len(apiUnwritten') = Len(apiUnwritten) - 1
          /\ Len(apiGiven) \in Nat /\ Len(apiUnwritten) \in Nat
      BY <1>1, <1>2
    <3> QED
      BY <1>3, <3>1
  <2>4. \A i \in 1..Len(apiGiven') : ~ (SnapLen < i)
    BY <1>3, <1>2, <2>1
  <2> QED
    BY <1>0, <1>3, <2>1, <2>2, <2>3, <2>4 DEF GivenAgrees
<1>8. LineAgrees'
  BY <1>0, <1>4 DEF ApiInv, LineAgrees, Ordered, Precede, Follows
<1>9. SendingAgrees' /\ NoneForgotten'
  BY <1>0, <1>5 DEF ApiInv, SendingAgrees, NoneForgotten
<1> QED
  BY <1>6, <1>7, <1>8, <1>9 DEF ApiInv

\* Once the snapshot is written, what is written is streamed.
LEMMA StreamedGrows ==
  ASSUME ApiInv, Len(apiGiven) >= SnapLen, NEW e \in Nat,
         apiGiven' = Append(apiGiven, e), UNCHANGED <<apiKind, apiUpto>>, Precede(Streamed, {e})
  PROVE  /\ apiGiven' \in Seq(Nat) /\ SnapLen' = SnapLen /\ Len(apiGiven') >= SnapLen
         /\ Streamed' = Streamed \cup {e}
         /\ \A i \in 1..Len(apiGiven') : i <= SnapLen => apiGiven'[i] = apiUpto - SnapLen + i
         /\ \A i, j \in 1..Len(apiGiven') : SnapLen < i /\ i < j => Follows(apiGiven'[i], apiGiven'[j])
<1> DEFINE n == Len(apiGiven)
<1>1. /\ apiGiven' \in Seq(Nat) /\ Len(apiGiven') = n + 1 /\ n \in Nat
      /\ \A k \in 1..n : apiGiven'[k] = apiGiven[k]
      /\ apiGiven'[n + 1] = e
  BY AppendProperties DEF ApiInv, ApiTypeOK
<1>2. SnapLen' = SnapLen /\ SnapLen \in Nat /\ n >= SnapLen
  BY <1>1, StreamedMeans DEF ApiInv, SnapLen
<1>3. \A i \in 1..n + 1 : i \in 1..n \/ i = n + 1
  BY <1>1
<1>4. /\ \A x : x \in Streamed <=> \E i \in 1..n : SnapLen < i /\ x = apiGiven[i]
      /\ \A x : x \in Streamed' <=> \E i \in 1..Len(apiGiven') : SnapLen' < i /\ x = apiGiven'[i]
  <2>1. Streamed' = {apiGiven'[i] : i \in {k \in 1..Len(apiGiven') : k > SnapLen'}}
    BY DEF Streamed
  <2> QED
    BY <1>1, <1>2, <2>1, StreamedMeans DEF ApiInv
<1> HIDE DEF n
<1>5. Streamed' = Streamed \cup {e}
  <2>1. ASSUME NEW x \in Streamed PROVE x \in Streamed'
    <3>1. PICK i \in 1..n : SnapLen < i /\ x = apiGiven[i]
      BY <1>4
    <3>2. i \in 1..Len(apiGiven') /\ x = apiGiven'[i]
      BY <1>1, <3>1
    <3> QED
      BY <1>2, <1>4, <3>1, <3>2
  <2>2. e \in Streamed'
    <3>1. n + 1 \in 1..Len(apiGiven') /\ SnapLen < n + 1
      BY <1>1, <1>2
    <3> QED
      BY <1>1, <1>2, <1>4, <3>1
  <2>3. ASSUME NEW x \in Streamed' PROVE x \in Streamed \cup {e}
    <3>1. PICK i \in 1..n + 1 : SnapLen < i /\ x = apiGiven'[i]
      BY <1>1, <1>2, <1>4
    <3> QED
      BY <1>1, <1>3, <1>4, <3>1
  <2> QED
    BY <2>1, <2>2, <2>3
<1>6. ASSUME NEW i \in 1..n + 1, i <= SnapLen PROVE apiGiven'[i] = apiUpto - SnapLen + i
  <2>1. i \in 1..n
    BY <1>1, <1>2, <1>6
  <2> QED
    BY <1>1, <1>6, <2>1 DEF ApiInv, GivenAgrees, n
<1>7. ASSUME NEW i \in 1..n + 1, NEW j \in 1..n + 1, SnapLen < i, i < j
      PROVE  Follows(apiGiven'[i], apiGiven'[j])
  <2>1. i \in 1..n /\ apiGiven'[i] = apiGiven[i]
    BY <1>1, <1>7
  <2>2. CASE j \in 1..n
    BY <1>1, <1>7, <2>1, <2>2 DEF ApiInv, GivenAgrees, n
  <2>3. CASE j = n + 1
    <3>1. apiGiven[i] \in Streamed
      BY <1>4, <1>7, <2>1
    <3> QED
      BY <1>1, <2>1, <2>3, <3>1 DEF Precede
  <2> QED
    BY <1>3, <2>2, <2>3
<1> QED
  BY <1>1, <1>2, <1>5, <1>6, <1>7 DEF n

LEMMA StreamStep ==
  ASSUME ApiInv, Api!Stream PROVE ApiInv'
<1> USE DEF Api!stored
<1> DEFINE e == Head(apiOut)
<1>0. /\ apiHandler = "streaming" /\ apiOut # <<>> /\ apiOut \in Seq(Nat)
      /\ apiGiven' = Append(apiGiven, e) /\ apiOut' = Tail(apiOut)
      /\ apiHandler' \in {"streaming", "leaving"}
      /\ UNCHANGED <<apiKind, apiCount, apiSending, apiSub, apiRaw, apiRelay, apiBacklog,
                     apiSeen, apiUnwritten, apiFrom, apiUpto, apiMissed, apiPanicked>>
  BY DEF Api!Stream, ApiInv, ApiTypeOK
<1>1. /\ e \in Nat /\ apiOut' \in Seq(Nat) /\ Range(apiOut) = {e} \cup Range(apiOut')
      /\ Ordered(apiOut') /\ Precede({e}, Range(apiOut'))
  BY <1>0, HeadTailElements, TailOrdered DEF ApiInv, LineAgrees
<1> HIDE DEF e
<1>2. /\ Precede(Streamed, {e} \cup Range(apiOut')) /\ Precede({e} \cup Range(apiOut'), Range(apiBacklog))
      /\ Precede({e} \cup Range(apiOut'), Range(apiRaw)) /\ Len(apiGiven) >= SnapLen
  BY <1>0, <1>1 DEF ApiInv, LineAgrees, GivenAgrees
<1>3. /\ apiGiven' \in Seq(Nat) /\ SnapLen' = SnapLen /\ Len(apiGiven') >= SnapLen
      /\ Streamed' = Streamed \cup {e}
      /\ \A i \in 1..Len(apiGiven') : i <= SnapLen => apiGiven'[i] = apiUpto - SnapLen + i
      /\ \A i, j \in 1..Len(apiGiven') : SnapLen < i /\ i < j => Follows(apiGiven'[i], apiGiven'[j])
  <2>1. Precede(Streamed, {e})
    BY <1>2 DEF Precede
  <2> QED
    BY <1>0, <1>1, <1>2, <2>1, StreamedGrows
<1>4. InLine' = InLine /\ InFlight' = InFlight
  BY <1>0, <1>1, <1>3 DEF InLine, InFlight
<1>5. ApiTypeOK' /\ (Api!NoPanic)' /\ HistoryAgrees'
  BY <1>0, <1>1, <1>3 DEF ApiInv, ApiTypeOK, Api!NoPanic, HistoryAgrees
<1>6. PhasesAgree'
  <2>1. apiRelay # "holding"
    BY <1>0 DEF ApiInv, PhasesAgree
  <2> QED
    BY <1>0, <1>4, <2>1 DEF ApiInv, PhasesAgree
<1>7. GivenAgrees'
  BY <1>0, <1>3 DEF GivenAgrees, Follows
<1>8. LineAgrees'
  <2>1. Streamed' \cup Range(apiOut') = Streamed \cup Range(apiOut)
    BY <1>1, <1>3
  <2>2. /\ Precede(Streamed', Range(apiOut')) /\ Precede(Range(apiOut'), Range(apiBacklog))
        /\ Precede(Range(apiOut'), Range(apiRaw))
        /\ Precede(Streamed', Range(apiBacklog)) /\ Precede(Streamed', Range(apiRaw))
    BY <1>1, <1>2, <1>3 DEF ApiInv, LineAgrees, Precede
  <2>3. apiKind \in Api!Replayed =>
          /\ \A x \in Streamed' \cup Range(apiOut') : x > apiUpto
          /\ apiSeen \subseteq 1..apiUpto \cup Streamed' \cup Range(apiOut')
    BY <2>1 DEF ApiInv, LineAgrees
  <2>4. Ordered(apiBacklog) /\ Ordered(apiRaw) /\ Precede(Range(apiBacklog), Range(apiRaw))
    BY DEF ApiInv, LineAgrees
  <2> HIDE DEF ApiInv
  <2> QED
    BY <1>0, <1>1, <2>2, <2>3, <2>4 DEF LineAgrees, Ordered, Precede, Follows
<1>9. SendingAgrees' /\ NoneForgotten'
  BY <1>0, <1>4 DEF ApiInv, SendingAgrees, NoneForgotten
<1> QED
  BY <1>5, <1>6, <1>7, <1>8, <1>9 DEF ApiInv

\* Events taken from the subscription's channel are its first, and all the others follow them.
LEMMA HoldStep ==
  ASSUME ApiInv, Api!Hold PROVE ApiInv'
<1> USE DEF Api!stored, Api!client
<1> DEFINE e == Head(apiRaw)
<1>0. /\ apiRelay = "holding" /\ apiRaw # <<>> /\ apiRaw \in Seq(Nat) /\ apiBacklog \in Seq(Nat)
      /\ apiBacklog' = Append(apiBacklog, e) /\ apiRaw' = Tail(apiRaw)
      /\ UNCHANGED <<apiKind, apiCount, apiSending, apiSub, apiOut, apiRelay, apiSeen, apiHandler,
                     apiUnwritten, apiGiven, apiFrom, apiUpto, apiMissed, apiPanicked>>
  BY DEF Api!Hold, ApiInv, ApiTypeOK
<1>1. /\ e \in Nat /\ apiRaw' \in Seq(Nat) /\ Range(apiRaw) = {e} \cup Range(apiRaw')
      /\ Ordered(apiRaw') /\ Precede({e}, Range(apiRaw'))
  BY <1>0, HeadTailElements, TailOrdered DEF ApiInv, LineAgrees
<1> HIDE DEF e
<1>2. /\ Precede(Streamed, {e} \cup Range(apiRaw')) /\ Precede(Range(apiOut), {e} \cup Range(apiRaw'))
      /\ Precede(Range(apiBacklog), {e} \cup Range(apiRaw'))
  BY <1>0, <1>1 DEF ApiInv, LineAgrees
<1>3. /\ apiBacklog' \in Seq(Nat) /\ Range(apiBacklog') = Range(apiBacklog) \cup {e}
      /\ Ordered(apiBacklog')
  <2>1. Precede(Range(apiBacklog), {e}) /\ Ordered(apiBacklog)
    BY <1>2 DEF Precede, ApiInv, LineAgrees
  <2>2. apiBacklog' \in Seq(Nat) /\ Range(apiBacklog') = Range(apiBacklog) \cup {e}
    BY <1>0, <1>1, AppendElements
  <2>3. Ordered(apiBacklog')
    BY <1>0, <1>1, <2>1, AppendOrdered
  <2> QED
    BY <2>2, <2>3
<1>4. Streamed' = Streamed /\ SnapLen' = SnapLen /\ InFlight' = InFlight
  BY <1>0 DEF Streamed, SnapLen, InFlight
<1>5. InLine' = InLine
  BY <1>0, <1>1, <1>3, <1>4 DEF InLine
<1>6. ApiTypeOK' /\ (Api!NoPanic)' /\ HistoryAgrees'
  BY <1>0, <1>1, <1>3 DEF ApiInv, ApiTypeOK, Api!NoPanic, HistoryAgrees
<1>7. PhasesAgree' /\ GivenAgrees'
  <2>1. apiSub # "none" /\ apiKind \in Api!Replayed
    BY <1>0 DEF ApiInv, PhasesAgree
  <2> QED
    BY <1>0, <1>4, <1>5, <2>1 DEF ApiInv, PhasesAgree, GivenAgrees, Follows
<1>8. LineAgrees'
  <2>1. /\ Precede(Streamed', Range(apiOut')) /\ Precede(Streamed', Range(apiBacklog'))
        /\ Precede(Streamed', Range(apiRaw')) /\ Precede(Range(apiOut'), Range(apiBacklog'))
        /\ Precede(Range(apiOut'), Range(apiRaw')) /\ Precede(Range(apiBacklog'), Range(apiRaw'))
    BY <1>0, <1>1, <1>2, <1>3, <1>4 DEF ApiInv, LineAgrees, Precede
  <2>2. Ordered(apiOut)
    BY DEF ApiInv, LineAgrees
  <2>3. apiKind \in Api!Replayed =>
          /\ \A x \in Streamed' \cup Range(apiOut') : x > apiUpto
          /\ apiSeen \subseteq 1..apiUpto \cup Streamed' \cup Range(apiOut')
    BY <1>0, <1>4 DEF ApiInv, LineAgrees
  <2> HIDE DEF ApiInv
  <2> QED
    BY <1>0, <1>1, <1>3, <2>1, <2>2, <2>3 DEF LineAgrees, Ordered, Precede, Follows
<1>9. SendingAgrees' /\ NoneForgotten'
  BY <1>0, <1>4, <1>5 DEF ApiInv, SendingAgrees, NoneForgotten
<1> QED
  BY <1>6, <1>7, <1>8, <1>9 DEF ApiInv

\* What is passed on is the first of what is held, or else of what was sent; it is not passed on
\* if the snapshot holds it.
LEMMA PassStep ==
  ASSUME ApiInv, Api!Pass PROVE ApiInv'
<1> USE DEF Api!stored, Api!client
<1> DEFINE e == Head(apiBacklog \o apiRaw)
<1>0. /\ apiRelay = "passing" /\ apiBacklog \o apiRaw # <<>>
      /\ apiRaw \in Seq(Nat) /\ apiBacklog \in Seq(Nat) /\ apiOut \in Seq(Nat)
      /\ IF Api!Fresh(e) THEN apiOut' = Append(apiOut, e) ELSE apiOut' = apiOut
      /\ apiSeen' = IF apiKind \in Api!Replayed THEN apiSeen \cup {e} ELSE apiSeen
      /\ IF apiBacklog # <<>> THEN apiBacklog' = Tail(apiBacklog) /\ apiRaw' = apiRaw
                              ELSE apiRaw' = Tail(apiRaw) /\ apiBacklog' = apiBacklog
      /\ UNCHANGED <<apiKind, apiCount, apiSending, apiSub, apiRelay, apiHandler,
                     apiUnwritten, apiGiven, apiFrom, apiUpto, apiMissed, apiPanicked>>
  BY DEF Api!Pass, ApiInv, ApiTypeOK
<1>1. /\ e \in Nat /\ apiRaw' \in Seq(Nat) /\ apiBacklog' \in Seq(Nat)
      /\ Ordered(apiBacklog') /\ Ordered(apiRaw')
      /\ Precede(Range(apiBacklog'), Range(apiRaw'))
      /\ Precede({e}, Range(apiBacklog')) /\ Precede({e}, Range(apiRaw'))
      /\ Range(apiBacklog) \cup Range(apiRaw) = {e} \cup Range(apiBacklog') \cup Range(apiRaw')
      /\ apiBacklog = <<>> => apiBacklog' = <<>>
  <2>0. Ordered(apiBacklog) /\ Ordered(apiRaw) /\ Precede(Range(apiBacklog), Range(apiRaw))
    BY DEF ApiInv, LineAgrees
  <2>1. CASE apiBacklog # <<>>
    <3>1. e = Head(apiBacklog) /\ apiBacklog' = Tail(apiBacklog) /\ apiRaw' = apiRaw
      BY <1>0, <2>1, NextOfTwo
    <3>2. /\ e \in Nat /\ apiBacklog' \in Seq(Nat) /\ Range(apiBacklog) = {e} \cup Range(apiBacklog')
          /\ Ordered(apiBacklog') /\ Precede({e}, Range(apiBacklog'))
      BY <1>0, <2>0, <2>1, <3>1, HeadTailElements, TailOrdered
    <3>3. Precede({e}, Range(apiRaw)) /\ Precede(Range(apiBacklog'), Range(apiRaw))
      BY <2>0, <3>2 DEF Precede
    <3> HIDE DEF e
    <3> QED
      BY <1>0, <2>0, <2>1, <3>1, <3>2, <3>3
  <2>2. CASE apiBacklog = <<>>
    <3>1. e = Head(apiRaw) /\ apiRaw' = Tail(apiRaw) /\ apiBacklog' = <<>> /\ apiRaw # <<>>
      BY <1>0, <2>2, NextOfTwo
    <3>2. /\ e \in Nat /\ apiRaw' \in Seq(Nat) /\ Range(apiRaw) = {e} \cup Range(apiRaw')
          /\ Ordered(apiRaw') /\ Precede({e}, Range(apiRaw'))
      BY <1>0, <2>0, <3>1, HeadTailElements, TailOrdered
    <3>3. Range(apiBacklog) = {} /\ Range(apiBacklog') = {}
      BY <2>2, <3>1, EmptyElements
    <3>4. Precede({e}, Range(apiBacklog')) /\ Precede(Range(apiBacklog'), Range(apiRaw'))
      BY <3>3 DEF Precede
    <3> HIDE DEF e
    <3> QED
      BY <1>0, <2>0, <2>2, <3>1, <3>2, <3>3, <3>4
  <2> QED
    BY <2>1, <2>2
<1> HIDE DEF e
<1>2. /\ Precede(Streamed, {e}) /\ Precede(Streamed, Range(apiBacklog')) /\ Precede(Streamed, Range(apiRaw'))
      /\ Precede(Range(apiOut), {e}) /\ Precede(Range(apiOut), Range(apiBacklog'))
      /\ Precede(Range(apiOut), Range(apiRaw'))
  <2>1. \A x \in {e} \cup Range(apiBacklog') \cup Range(apiRaw') : x \in Range(apiBacklog) \cup Range(apiRaw)
    BY <1>1
  <2> QED
    BY <2>1 DEF Precede, ApiInv, LineAgrees
<1>3. Streamed' = Streamed /\ SnapLen' = SnapLen /\ InFlight' = InFlight
  BY <1>0 DEF Streamed, SnapLen, InFlight
<1>4. apiFrom < e /\ e <= apiCount /\ apiSub # "none" /\ apiFrom \in Nat
  <2>1. e \in InLine
    BY <1>1 DEF InLine
  <2> QED
    BY <2>1 DEF ApiInv, SendingAgrees, PhasesAgree, ApiTypeOK
<1>5. ASSUME Api!Fresh(e)
      PROVE  /\ apiOut' \in Seq(Nat) /\ Range(apiOut') = Range(apiOut) \cup {e} /\ Ordered(apiOut')
             /\ apiKind \in Api!Replayed => e > apiUpto
             /\ InLine' = InLine
  <2>1. apiOut \in Seq(Nat) /\ apiOut' = Append(apiOut, e) /\ Ordered(apiOut)
    BY <1>0, <1>5 DEF ApiInv, LineAgrees
  <2>2. apiOut' \in Seq(Nat) /\ Range(apiOut') = Range(apiOut) \cup {e} /\ Ordered(apiOut')
    BY <1>1, <1>2, <2>1, AppendElements, AppendOrdered
  <2>3. ASSUME apiKind \in Api!Replayed PROVE e > apiUpto
    <3>1. e \notin apiSeen /\ 1..apiUpto \subseteq apiSeen /\ apiUpto \in Nat
      BY <1>0, <1>5, <2>3 DEF Api!Fresh, ApiInv, PhasesAgree, ApiTypeOK
    <3> QED
      BY <1>1, <1>4, <3>1
  <2>4. InLine' = InLine
    BY <1>1, <1>3, <2>2 DEF InLine
  <2> QED
    BY <2>2, <2>3, <2>4
<1>6. ASSUME ~ Api!Fresh(e)
      PROVE  /\ apiOut' = apiOut /\ apiOut' \in Seq(Nat) /\ Ordered(apiOut')
             /\ apiKind \in Api!Replayed /\ e <= apiUpto /\ e \in 1..apiUpto
             /\ InLine = InLine' \cup {e}
  <2>1. apiKind \in Api!Replayed /\ e \in apiSeen /\ apiOut' = apiOut /\ apiOut \in Seq(Nat) /\ Ordered(apiOut)
    BY <1>0, <1>6 DEF Api!Fresh, ApiInv, LineAgrees
  <2>2. e \notin Streamed /\ e \notin Range(apiOut)
    BY <1>2 DEF Precede, Follows
  <2>3. e \in 1..apiUpto
    BY <2>1, <2>2 DEF ApiInv, LineAgrees
  <2>4. InLine = InLine' \cup {e}
    BY <1>1, <1>3, <2>1 DEF InLine
  <2> QED
    BY <1>1, <2>1, <2>3, <2>4
<1>7. /\ apiOut' \in Seq(Nat) /\ Ordered(apiOut') /\ InLine' \subseteq InLine
      /\ Range(apiOut) \subseteq Range(apiOut') /\ Range(apiOut') \subseteq Range(apiOut) \cup {e}
      /\ apiKind \in Api!Replayed => e \in 1..apiUpto \cup Range(apiOut')
      /\ apiKind \in Api!Replayed => \A x \in Range(apiOut') : x > apiUpto
  <2>1. apiKind \in Api!Replayed => \A x \in Range(apiOut) : x > apiUpto
    BY DEF ApiInv, LineAgrees
  <2> QED
    BY <1>5, <1>6, <2>1
<1>8. ApiTypeOK' /\ (Api!NoPanic)' /\ HistoryAgrees' /\ GivenAgrees'
  BY <1>0, <1>1, <1>3, <1>7
     DEF ApiInv, ApiTypeOK, Api!NoPanic, HistoryAgrees, GivenAgrees, Follows
<1>9. PhasesAgree'
  <2>1. apiKind \in Api!Replayed => 1..apiUpto \subseteq apiSeen'
    BY <1>0 DEF ApiInv, PhasesAgree
  <2>2. apiKind \notin Api!Replayed => apiBacklog' = <<>>
    BY <1>1 DEF ApiInv, PhasesAgree
  <2> QED
    BY <1>0, <1>4, <2>1, <2>2 DEF ApiInv, PhasesAgree
<1>10. LineAgrees'
  <2>1. /\ Precede(Streamed', Range(apiOut')) /\ Precede(Streamed', Range(apiBacklog'))
        /\ Precede(Streamed', Range(apiRaw')) /\ Precede(Range(apiOut'), Range(apiBacklog'))
        /\ Precede(Range(apiOut'), Range(apiRaw')) /\ Precede(Range(apiBacklog'), Range(apiRaw'))
    <3>1. Precede(Streamed, Range(apiOut))
      BY DEF ApiInv, LineAgrees
    <3> HIDE DEF ApiInv
    <3> QED
      BY <1>1, <1>2, <1>3, <1>7, <3>1 DEF Precede
  <2>2. apiKind \in Api!Replayed =>
          /\ \A x \in Streamed' \cup Range(apiOut') : x > apiUpto
          /\ apiSeen' \subseteq 1..apiUpto \cup Streamed' \cup Range(apiOut')
    BY <1>0, <1>3, <1>7 DEF ApiInv, LineAgrees
  <2> HIDE DEF ApiInv
  <2> QED
    BY <1>0, <1>1, <1>7, <2>1, <2>2 DEF LineAgrees, Ordered, Precede, Follows
<1>11. SendingAgrees'
  BY <1>0, <1>3, <1>7 DEF ApiInv, SendingAgrees
<1>12. NoneForgotten'
  BY <1>0, <1>3, <1>5, <1>6 DEF ApiInv, NoneForgotten
<1> QED
  BY <1>8, <1>9, <1>10, <1>11, <1>12 DEF ApiInv

\* An event that follows all of the line goes to its end.
LEMMA LineGrows ==
  ASSUME ApiInv, NEW e \in Nat, Precede(InLine, {e}), apiRaw' = Append(apiRaw, e),
         UNCHANGED <<apiKind, apiOut, apiBacklog, apiSeen, apiGiven, apiUpto>>
  PROVE  apiRaw' \in Seq(Nat) /\ LineAgrees' /\ SnapLen' = SnapLen /\ InLine' = InLine \cup {e}
<1>1. Streamed' = Streamed /\ SnapLen' = SnapLen
  BY DEF Streamed, SnapLen
<1>2. /\ Precede(Streamed, {e}) /\ Precede(Range(apiOut), {e}) /\ Precede(Range(apiBacklog), {e})
      /\ Precede(Range(apiRaw), {e})
  BY DEF InLine, Precede
<1>3. apiRaw \in Seq(Nat) /\ Ordered(apiRaw)
  BY DEF ApiInv, ApiTypeOK, LineAgrees
<1>4. apiRaw' \in Seq(Nat) /\ Range(apiRaw') = Range(apiRaw) \cup {e}
  BY <1>3, AppendElements
<1>5. Ordered(apiRaw')
  BY <1>2, <1>3, AppendOrdered
<1>6. /\ Precede(Streamed, Range(apiRaw')) /\ Precede(Range(apiOut), Range(apiRaw'))
      /\ Precede(Range(apiBacklog), Range(apiRaw'))
  BY <1>2, <1>4 DEF ApiInv, LineAgrees, Precede
<1>7. LineAgrees'
  BY <1>1, <1>5, <1>6 DEF ApiInv, LineAgrees, Ordered, Precede, Follows
<1> QED
  BY <1>1, <1>4, <1>7 DEF InLine

LEMMA LineStays ==
  ASSUME ApiInv, UNCHANGED <<apiKind, apiRaw, apiOut, apiBacklog, apiSeen, apiGiven, apiUpto>>
  PROVE  apiRaw' \in Seq(Nat) /\ LineAgrees' /\ SnapLen' = SnapLen /\ InLine' = InLine
<1>1. Streamed' = Streamed /\ SnapLen' = SnapLen
  BY DEF Streamed, SnapLen
<1>2. LineAgrees'
  BY <1>1 DEF ApiInv, LineAgrees, Ordered, Precede, Follows
<1> QED
  BY <1>1, <1>2 DEF ApiInv, ApiTypeOK, InLine

\* An event is sent to an open subscription, which takes or misses it; a closed one takes none.
LEMMA DeliverMeans ==
  ASSUME ApiInv, NEW e \in Nat, Precede(InLine, {e}), apiSub # "none", Api!Deliver(e),
         apiKind = "logs" => apiSub = "open",
         UNCHANGED <<apiKind, apiSub, apiOut, apiBacklog, apiSeen, apiGiven, apiUpto>>
  PROVE  /\ apiRaw' \in Seq(Nat) /\ LineAgrees' /\ SnapLen' = SnapLen /\ (Api!NoPanic)'
         /\ InLine \subseteq InLine' /\ InLine' \subseteq InLine \cup {e}
         /\ apiMissed \subseteq apiMissed'
         /\ apiSub = "open" => e \in InLine' \cup apiMissed'
<1>1. CASE apiSub = "closed"
  <2>1. apiRaw' = apiRaw /\ apiMissed' = apiMissed /\ apiPanicked' = (apiKind \in {"task", "logs"})
    BY <1>1 DEF Api!Deliver, Api!Recovers
  <2> QED
    BY <1>1, <2>1, LineStays DEF Api!NoPanic
<1>2. CASE apiSub # "closed"
  <2>1. (Api!NoPanic)'
    BY <1>2 DEF Api!Deliver, ApiInv, Api!NoPanic
  <2>2. CASE apiRaw' = Append(apiRaw, e) /\ apiMissed' = apiMissed
    BY <2>1, <2>2, LineGrows
  <2>3. CASE apiMissed' = apiMissed \cup {e} /\ apiRaw' = apiRaw
    BY <2>1, <2>3, LineStays
  <2> QED
    BY <1>2, <2>2, <2>3 DEF Api!Deliver
<1> QED
  BY <1>1, <1>2

\* Who has nothing to send was not told of the client.
LEMMA IdlePublishers ==
  ASSUME ApiInv, NEW p \in Publishers, apiSending[p].event = 0
  PROVE  ~ apiSending[p].to
<1>1. 0 \notin InFlight
  BY DEF ApiInv, ApiTypeOK, SendingAgrees
<1> QED
  BY <1>1 DEF InFlight

LEMMA PublishStep ==
  ASSUME ApiInv, NEW p \in Publishers, Api!Publish(p) PROVE ApiInv'
<1> USE DEF Api!client, Api!relaying
<1> DEFINE e == apiCount + 1
<1>0. /\ apiCount' = e /\ e \in Nat /\ apiCount \in Nat /\ apiFrom \in Nat /\ apiFrom <= apiCount
      /\ apiSending[p].event = 0 /\ ~ apiSending[p].to
      /\ UNCHANGED <<apiKind, apiSub, apiOut, apiRelay, apiBacklog, apiSeen, apiHandler,
                     apiUnwritten, apiGiven, apiFrom, apiUpto>>
  BY IdlePublishers DEF Api!Publish, ApiInv, ApiTypeOK, HistoryAgrees
<1>1. Precede(InLine, {e})
  <2>1. \A x \in InLine : x <= apiCount /\ x \in Nat
    BY StreamedMeans DEF ApiInv, SendingAgrees
  <2> QED
    BY <1>0, <2>1 DEF Precede, Follows
<1>2. /\ apiRaw' \in Seq(Nat) /\ LineAgrees' /\ SnapLen' = SnapLen /\ (Api!NoPanic)'
      /\ InLine \subseteq InLine' /\ InLine' \subseteq InLine \cup {e}
      /\ apiMissed \subseteq apiMissed'
      /\ apiSub = "none" => InLine' = InLine
      /\ apiKind # "logs" => InLine' = InLine
      /\ apiKind = "logs" /\ apiSub = "open" => e \in InLine' \cup apiMissed'
  <2>1. CASE apiKind = "logs" /\ apiSub = "open"
    <3>1. Api!Deliver(e)
      BY <2>1 DEF Api!Publish, Api!SendsAtOnce
    <3> HIDE DEF e
    <3> QED
      BY <1>0, <1>1, <2>1, <3>1, DeliverMeans
  <2>2. CASE ~ (apiKind = "logs" /\ apiSub = "open")
    <3>1. UNCHANGED <<apiRaw, apiMissed, apiPanicked>>
      BY <2>2 DEF Api!Publish, Api!SendsAtOnce
    <3> QED
      BY <1>0, <2>2, <3>1, LineStays DEF ApiInv, Api!NoPanic
  <2> QED
    BY <2>1, <2>2
<1>3. /\ apiSending' \in [Publishers -> [event : Nat, to : BOOLEAN]]
      /\ \A q \in Publishers : q # p => apiSending'[q] = apiSending[q]
      /\ apiKind = "logs" => apiSending' = apiSending
      /\ apiKind # "logs" => apiSending'[p] = [event |-> e, to |-> apiSub = "open"]
  <2>1. [event |-> e, to |-> apiSub = "open"] \in [event : Nat, to : BOOLEAN]
    BY <1>0
  <2>2. apiSending \in [Publishers -> [event : Nat, to : BOOLEAN]]
    BY DEF ApiInv, ApiTypeOK
  <2> QED
    BY <2>1, <2>2 DEF Api!Publish, Api!SendsAtOnce
<1>4. /\ InFlight \subseteq InFlight' /\ InFlight' \subseteq InFlight \cup {e}
      /\ apiSub = "none" => InFlight' = InFlight
      /\ apiKind = "logs" => InFlight' = InFlight
      /\ apiKind # "logs" /\ apiSub = "open" => e \in InFlight'
  BY <1>0, <1>3 DEF InFlight
<1> HIDE DEF e
<1>5. ApiTypeOK' /\ HistoryAgrees' /\ GivenAgrees'
  <2>1. e >= apiCount
    BY <1>0 DEF e
  <2>2. ApiTypeOK' /\ GivenAgrees'
    BY <1>0, <1>2, <1>3 DEF ApiInv, ApiTypeOK, GivenAgrees, Follows
  <2>3. HistoryAgrees'
    BY <1>0, <2>1 DEF ApiInv, ApiTypeOK, HistoryAgrees
  <2> QED
    BY <2>2, <2>3
<1>6. PhasesAgree'
  BY <1>0, <1>2, <1>4 DEF ApiInv, PhasesAgree
<1>7. SendingAgrees'
  <2>0. e > apiCount /\ apiFrom < e /\ \A x \in Nat : x <= apiCount => x <= e /\ x # e
    BY <1>0 DEF e
  <2>1. ASSUME NEW x \in InLine' \cup InFlight' PROVE apiFrom' < x /\ x <= apiCount'
    <3>1. CASE x = e
      BY <1>0, <2>0, <3>1
    <3>2. CASE x \in InLine \cup InFlight
      <4>1. apiFrom < x /\ x <= apiCount /\ x \in Nat
        BY <3>2, StreamedMeans DEF ApiInv, SendingAgrees, InFlight, ApiTypeOK
      <4> QED
        BY <1>0, <2>0, <4>1
    <3> QED
      BY <1>2, <1>4, <3>1, <3>2
  <2>2. InLine' \cap InFlight' = {}
    <3>1. e \notin InLine /\ e \notin InFlight /\ InLine \cap InFlight = {}
      BY <1>0, <2>0 DEF ApiInv, SendingAgrees
    <3>2. apiKind = "logs" => e \notin InFlight'
      BY <1>4, <3>1
    <3>3. apiKind # "logs" => e \notin InLine'
      BY <1>2, <3>1
    <3> QED
      BY <1>2, <1>4, <3>1, <3>2, <3>3
  <2>3. \A q \in Publishers : apiSending[q].event \in Nat /\ apiSending[q].event <= apiCount
    BY DEF ApiInv, ApiTypeOK, SendingAgrees
  <2>4. \A q \in Publishers :
          \/ apiSending'[q].event = apiSending[q].event
          \/ q = p /\ apiSending'[q].event = e
    <3>1. apiSending'[p].event = apiSending[p].event \/ apiSending'[p].event = e
      BY <1>3
    <3> QED
      BY <1>3, <3>1
  <2>5. \A q \in Publishers : apiSending'[q].event <= apiCount'
    BY <1>0, <2>0, <2>3, <2>4
  <2>6. ASSUME NEW q \in Publishers, NEW r \in Publishers, q # r,
               apiSending'[q].event = apiSending'[r].event
        PROVE  apiSending'[q].event = 0
    BY <1>0, <2>0, <2>3, <2>4, <2>6 DEF ApiInv, SendingAgrees
  <2>7. apiKind' = "logs" => \A q \in Publishers : apiSending'[q].event = 0
    BY <1>0, <1>3 DEF ApiInv, SendingAgrees
  <2> QED
    BY <2>1, <2>2, <2>5, <2>6, <2>7 DEF SendingAgrees
<1>8. NoneForgotten'
  <2> SUFFICES ASSUME apiHandler \in {"subscribed", "writing", "streaming"}, apiSub = "open",
                      NEW n \in (apiFrom + 1)..apiCount'
               PROVE  \/ n \in apiMissed' \cup InFlight' \cup InLine'
                      \/ apiKind \in Api!Replayed /\ n <= apiUpto
    BY <1>0 DEF NoneForgotten
  <2>1. CASE n = e
    BY <1>2, <1>4, <2>1
  <2>2. CASE n \in (apiFrom + 1)..apiCount
    BY <1>2, <1>4, <2>2 DEF ApiInv, NoneForgotten
  <2> QED
    BY <1>0, <2>1, <2>2 DEF e
<1> QED
  BY <1>2, <1>5, <1>6, <1>7, <1>8 DEF ApiInv

LEMMA SendStep ==
  ASSUME ApiInv, NEW p \in Publishers, Api!Send(p) PROVE ApiInv'
<1> USE DEF Api!client, Api!relaying, Api!stored
<1> DEFINE e == apiSending[p].event
<1>0. /\ e # 0 /\ e \in Nat /\ apiKind # "logs"
      /\ IF apiSending[p].to THEN Api!Deliver(e) ELSE UNCHANGED <<apiRaw, apiMissed, apiPanicked>>
      /\ apiSending' = [apiSending EXCEPT ![p] = [event |-> 0, to |-> FALSE]]
      /\ UNCHANGED <<apiKind, apiCount, apiSub, apiOut, apiRelay, apiBacklog, apiSeen, apiHandler,
                     apiUnwritten, apiGiven, apiFrom, apiUpto>>
  BY DEF Api!Send, ApiInv, ApiTypeOK, SendingAgrees
<1>1. ASSUME apiSending[p].to PROVE e \in InFlight /\ e \notin InLine /\ apiSub # "none"
  <2>1. e \in InFlight
    BY <1>1 DEF InFlight
  <2> QED
    BY <2>1 DEF ApiInv, SendingAgrees, PhasesAgree
<1>2. /\ apiRaw' \in Seq(Nat) /\ LineAgrees' /\ SnapLen' = SnapLen /\ (Api!NoPanic)'
      /\ InLine \subseteq InLine' /\ apiMissed \subseteq apiMissed'
      /\ InLine' \subseteq IF apiSending[p].to THEN InLine \cup {e} ELSE InLine
      /\ apiSending[p].to /\ apiSub = "open" => e \in InLine' \cup apiMissed'
  <2>1. CASE apiSending[p].to
    <3>1. Precede(InLine, {e})
      BY <1>0, <1>1, <2>1 DEF Precede, Follows
    <3> HIDE DEF e
    <3> QED
      BY <1>0, <1>1, <2>1, <3>1, DeliverMeans
  <2>2. CASE ~ apiSending[p].to
    BY <1>0, <2>2, LineStays DEF ApiInv, Api!NoPanic
  <2> QED
    BY <2>1, <2>2
<1>3. /\ apiSending' \in [Publishers -> [event : Nat, to : BOOLEAN]]
      /\ \A q \in Publishers : q # p => apiSending'[q] = apiSending[q]
      /\ apiSending'[p].event = 0 /\ apiSending'[p].to = FALSE
  <2>1. [event |-> 0, to |-> FALSE] \in [event : Nat, to : BOOLEAN]
    OBVIOUS
  <2>2. apiSending \in [Publishers -> [event : Nat, to : BOOLEAN]]
    BY DEF ApiInv, ApiTypeOK
  <2> QED
    BY <1>0, <2>1, <2>2
<1>4. /\ InFlight' \subseteq InFlight
      /\ e \notin InFlight'
      /\ InFlight \subseteq InFlight' \cup {e}
      /\ ~ apiSending[p].to => InFlight' = InFlight
  <2>1. \A q \in Publishers : q # p => apiSending[q].event # e
    BY <1>0 DEF ApiInv, SendingAgrees
  <2> QED
    BY <1>3, <2>1 DEF InFlight
<1> HIDE DEF e
<1>5. ApiTypeOK' /\ HistoryAgrees' /\ GivenAgrees'
  BY <1>0, <1>2, <1>3 DEF ApiInv, ApiTypeOK, GivenAgrees, HistoryAgrees, Follows
<1>6. PhasesAgree'
  <2>1. apiSub = "none" => InLine' = {} /\ InFlight' = {}
    BY <1>1, <1>2, <1>4 DEF ApiInv, PhasesAgree
  <2> QED
    BY <1>0, <2>1 DEF ApiInv, PhasesAgree
<1>7. SendingAgrees'
  <2>1. InLine' \cup InFlight' \subseteq InLine \cup InFlight
    BY <1>1, <1>2, <1>4
  <2>2. InLine' \cap InFlight' = {}
    BY <1>2, <1>4 DEF ApiInv, SendingAgrees
  <2>3. \A q \in Publishers : apiSending'[q].event = 0 \/ apiSending'[q] = apiSending[q]
    BY <1>3
  <2>4. apiCount \in Nat
    BY DEF ApiInv, ApiTypeOK
  <2>5. \A q \in Publishers : apiSending'[q].event <= apiCount
    BY <2>3, <2>4 DEF ApiInv, SendingAgrees
  <2>6. \A q, r \in Publishers :
          q # r /\ apiSending'[q].event = apiSending'[r].event => apiSending'[q].event = 0
    BY <2>3 DEF ApiInv, SendingAgrees
  <2>7. \A x \in InLine' \cup InFlight' : apiFrom < x /\ x <= apiCount
    BY <2>1 DEF ApiInv, SendingAgrees
  <2> HIDE DEF ApiInv
  <2> QED
    BY <1>0, <2>2, <2>5, <2>6, <2>7 DEF SendingAgrees
<1>8. NoneForgotten'
  <2>1. apiSub = "open" =>
          apiMissed \cup InFlight \cup InLine \subseteq apiMissed' \cup InFlight' \cup InLine'
    BY <1>2, <1>4
  <2> QED
    BY <1>0, <2>1 DEF ApiInv, NoneForgotten
<1> QED
  BY <1>2, <1>5, <1>6, <1>7, <1>8 DEF ApiInv

\* For any capacities, publishers and size of the log buffer, and wherever the client leaves:
\* the stream the API gives a client holds nothing twice and, when he has caught up, all that was
\* promised but for what a full subscription did not take; and no leaving ends the process.
THEOREM StreamsKeepWhole == Spec => []StreamsAreWhole
<1> DEFINE Inv == subject = "streams" => ApiInv
<1>1. Init => Inv
  <2>1. ASSUME Api!Init PROVE ApiInv
    <3> USE <2>1 DEF Api!Init
    <3>1. Len(apiGiven) = 0 /\ 1..0 = {} /\ Len(apiOut) = 0 /\ Len(apiBacklog) = 0 /\ Len(apiRaw) = 0
      OBVIOUS
    <3>2. SnapLen = 0 /\ Streamed = {} /\ InLine = {} /\ InFlight = {} /\ Range(<<>>) = {}
      BY <3>1, EmptyElements, RingAssumption DEF SnapLen, Streamed, InLine, InFlight
    <3>3. ApiTypeOK
      <4>1. [event |-> 0, to |-> FALSE] \in [event : Nat, to : BOOLEAN]
        OBVIOUS
      <4> QED
        BY <4>1 DEF ApiTypeOK
    <3>4. PhasesAgree /\ HistoryAgrees /\ GivenAgrees
      BY <3>1, <3>2 DEF PhasesAgree, HistoryAgrees, GivenAgrees
    <3>5. LineAgrees
      BY <3>1, <3>2 DEF LineAgrees, Ordered, Precede
    <3>6. SendingAgrees /\ NoneForgotten /\ Api!NoPanic
      BY <3>2 DEF SendingAgrees, NoneForgotten, Api!NoPanic
    <3> QED
      BY <3>3, <3>4, <3>5, <3>6 DEF ApiInv
  <2> QED
    BY <2>1 DEF Init
<1>2. Inv /\ [Next]_vars => Inv'
  <2> SUFFICES ASSUME Inv, [Next]_vars, subject' = "streams" PROVE ApiInv'
    OBVIOUS
  <2>1. subject = "streams" /\ [Api!Next]_streamsVars
    BY DEF Next, vars, OfLane, OfTerminal, OfGuard, OfFiles, OfProcesses, OfMcp, OfAgents, OfNodes,
           OfStream, OfScheduler, OfStreams, OfLogs
  <2>2. ApiInv
    BY <2>1
  <2>3. CASE UNCHANGED streamsVars
    <3>0. SnapLen' = SnapLen /\ Streamed' = Streamed /\ InLine' = InLine /\ InFlight' = InFlight
      BY <2>3 DEF streamsVars, InLine, InFlight, Streamed, SnapLen
    <3>1. ApiTypeOK' /\ PhasesAgree' /\ HistoryAgrees' /\ NoneForgotten'
      BY <2>2, <2>3, <3>0 DEF streamsVars, ApiInv, ApiTypeOK, PhasesAgree, HistoryAgrees, NoneForgotten
    <3>2. GivenAgrees' /\ LineAgrees' /\ SendingAgrees' /\ (Api!NoPanic)'
      BY <2>2, <2>3, <3>0 DEF streamsVars, ApiInv, GivenAgrees, LineAgrees, SendingAgrees,
                             Api!NoPanic, Ordered, Precede, Follows
    <3> QED
      BY <3>1, <3>2 DEF ApiInv
  <2>4. CASE Api!Next
    BY <2>2, <2>4, PublishStep, SendStep, SubscribeStep, ReadStep, WriteStep, StreamStep, HoldStep,
       PassStep, ControlSteps DEF Api!Next
  <2> QED
    BY <2>1, <2>3, <2>4
<1>3. Inv => StreamsAreWhole
  BY WholeFollows DEF StreamsAreWhole
<1> QED
  BY <1>1, <1>2, <1>3, PTL DEF Spec

-----------------------------------------------------------------------------
(* ModelStream.  What a server has still to send of an answer is in order: no chunk of a call *)
(* comes behind one of a later call, no piece behind a later piece, none behind the end of    *)
(* its call, and nothing behind the finish.                                                   *)

CallKinds == {"start", "piece", "stop", "call"}
ChunkType == [kind : CallKinds \cup {"text", "limit", "finish"}, slot : {0, 1, 2}, piece : Nat]

ChunkBefore(x, y) ==
  /\ x.kind \notin {"limit", "finish"}
  /\ x.kind \in CallKinds /\ y.kind \in CallKinds => x.slot <= y.slot
  /\ x.kind \in {"stop", "call"} /\ y.kind \in CallKinds => x.slot < y.slot
  /\ x.kind = "piece" /\ y.kind = "piece" /\ x.slot = y.slot => x.piece < y.piece

Lined(s) == \A i, j \in 1..Len(s) : i < j => ChunkBefore(s[i], s[j])

\* A chunk a server of protocol p may send.
ChunkOf(p, x) ==
  /\ x \in ChunkType
  /\ x.kind \in CallKinds => x.slot # 0
  /\ x.kind = "piece" => x.piece \in 1..Pieces
  /\ x.kind = "call" => p = "gemini"
  /\ x.kind = "stop" => p = "anthropic"

LineOf(p, s) == s \in Seq(ChunkType) /\ Lined(s) /\ \A x \in Range(s) : ChunkOf(p, x)

\* Two lines one behind the other.
LEMMA LinesJoin ==
  ASSUME NEW p, NEW s, NEW t, LineOf(p, s), LineOf(p, t),
         \A x \in Range(s), y \in Range(t) : ChunkBefore(x, y)
  PROVE  LineOf(p, s \o t) /\ Range(s \o t) = Range(s) \cup Range(t)
<1>1. s \in Seq(ChunkType) /\ t \in Seq(ChunkType) /\ s \o t \in Seq(ChunkType)
  BY DEF LineOf
<1>2. Range(s \o t) = Range(s) \cup Range(t)
  BY <1>1, ConcatElements
<1>3. /\ Len(s) \in Nat /\ Len(t) \in Nat /\ Len(s \o t) = Len(s) + Len(t)
      /\ \A i \in 1..Len(s \o t) : (s \o t)[i] = IF i <= Len(s) THEN s[i] ELSE t[i - Len(s)]
  BY <1>1
<1>4. (\A i \in 1..Len(s) : s[i] \in Range(s)) /\ \A i \in 1..Len(t) : t[i] \in Range(t)
  BY <1>1, RangeIsElements
<1>5. ASSUME NEW i \in 1..Len(s \o t), NEW j \in 1..Len(s \o t), i < j
      PROVE  ChunkBefore((s \o t)[i], (s \o t)[j])
  <2>1. CASE j <= Len(s)
    <3>1. i \in 1..Len(s) /\ j \in 1..Len(s) /\ (s \o t)[i] = s[i] /\ (s \o t)[j] = s[j]
      BY <1>3, <1>5, <2>1
    <3> QED
      BY <1>5, <3>1 DEF LineOf, Lined
  <2>2. CASE i <= Len(s) /\ j > Len(s)
    <3>1. i \in 1..Len(s) /\ j - Len(s) \in 1..Len(t) /\ (s \o t)[i] = s[i] /\ (s \o t)[j] = t[j - Len(s)]
      BY <1>3, <1>5, <2>2
    <3> QED
      BY <1>4, <3>1
  <2>3. CASE i > Len(s)
    <3>1. /\ i - Len(s) \in 1..Len(t) /\ j - Len(s) \in 1..Len(t) /\ i - Len(s) < j - Len(s)
          /\ (s \o t)[i] = t[i - Len(s)] /\ (s \o t)[j] = t[j - Len(s)]
      BY <1>3, <1>5, <2>3
    <3> QED
      BY <3>1 DEF LineOf, Lined
  <2> QED
    BY <1>3, <1>5, <2>1, <2>2, <2>3
<1> QED
  BY <1>1, <1>2, <1>5 DEF LineOf, Lined

\* Lines of no chunk and of one.
LEMMA ShortLines ==
  ASSUME NEW p
  PROVE  /\ LineOf(p, <<>>) /\ Range(<<>>) = {}
         /\ \A x : ChunkOf(p, x) => LineOf(p, <<x>>) /\ Range(<<x>>) = {x}
<1>1. LineOf(p, <<>>) /\ Range(<<>>) = {}
  BY EmptyElements DEF LineOf, Lined
<1>2. ASSUME NEW x, ChunkOf(p, x) PROVE LineOf(p, <<x>>) /\ Range(<<x>>) = {x}
  <2>1. x \in ChunkType /\ <<x>> \in Seq(ChunkType) /\ Range(<<x>>) = {x} /\ Len(<<x>>) = 1
    BY <1>2, SingletonElements DEF ChunkOf
  <2> QED
    BY <1>2, <2>1 DEF LineOf, Lined
<1> QED
  BY <1>1, <1>2

\* The rest of a line is one.
LEMMA LinesGoOn ==
  ASSUME NEW p, NEW s, LineOf(p, s), s # <<>>
  PROVE  /\ LineOf(p, Tail(s)) /\ ChunkOf(p, Head(s)) /\ Range(s) = {Head(s)} \cup Range(Tail(s))
         /\ \A y \in Range(Tail(s)) : ChunkBefore(Head(s), y)
<1> DEFINE t == Tail(s)
<1>1. s \in Seq(ChunkType)
  BY DEF LineOf
<1>2. /\ t \in Seq(ChunkType) /\ Len(t) = Len(s) - 1 /\ Len(s) \in Nat \ {0}
      /\ \A k \in 1..Len(t) : t[k] = s[k + 1]
      /\ Head(s) = s[1]
  BY <1>1, HeadTailProperties, EmptySeq
<1>3. Range(s) = {s[k] : k \in 1..Len(s)} /\ Range(t) = {t[k] : k \in 1..Len(t)}
  BY <1>1, <1>2, RangeIsElements
<1> HIDE DEF t
<1>4. Range(s) = {Head(s)} \cup Range(t)
  <2>1. \A k \in 1..Len(s) : s[k] \in {Head(s)} \cup Range(t)
    <3> TAKE k \in 1..Len(s)
    <3>1. CASE k = 1
      BY <1>2, <3>1
    <3>2. CASE k # 1
      <4>1. k - 1 \in 1..Len(t) /\ t[k - 1] = s[k]
        BY <1>2, <3>2
      <4> QED
        BY <1>3, <4>1
    <3> QED
      BY <3>1, <3>2
  <2>2. \A k \in 1..Len(t) : t[k] \in Range(s)
    BY <1>2, <1>3
  <2>3. Head(s) \in Range(s)
    BY <1>2, <1>3
  <2> QED
    BY <1>3, <2>1, <2>2, <2>3
<1>5. Lined(t)
  <2> SUFFICES ASSUME NEW i \in 1..Len(t), NEW j \in 1..Len(t), i < j PROVE ChunkBefore(t[i], t[j])
    BY DEF Lined
  <2>1. i + 1 \in 1..Len(s) /\ j + 1 \in 1..Len(s) /\ i + 1 < j + 1 /\ t[i] = s[i + 1] /\ t[j] = s[j + 1]
    BY <1>2
  <2> QED
    BY <2>1 DEF LineOf, Lined
<1>6. \A k \in 1..Len(t) : ChunkBefore(Head(s), t[k])
  <2> TAKE k \in 1..Len(t)
  <2>1. 1 \in 1..Len(s) /\ k + 1 \in 1..Len(s) /\ 1 < k + 1 /\ t[k] = s[k + 1]
    BY <1>2
  <2> QED
    BY <1>2, <2>1 DEF LineOf, Lined
<1> QED
  BY <1>2, <1>3, <1>4, <1>5, <1>6 DEF LineOf, t

\* The chunks of a call are in order, and of this call.
LEMMA CallInLine ==
  ASSUME NEW p, NEW i \in {1, 2}, NEW n \in 0..Pieces
  PROVE  /\ LineOf(p, Stream!CallChunks(p, i, n))
         /\ \A x \in Range(Stream!CallChunks(p, i, n)) : x.kind \in CallKinds /\ x.slot = i
<1> USE StreamAssumption
<1> DEFINE C(kind) == Stream!Chunk(kind, i, 0)
           pieces == [k \in 1..n |-> Stream!Chunk("piece", i, k)]
           stop == IF p = "anthropic" THEN <<C("stop")>> ELSE <<>>
<1>1. /\ \A kind \in CallKinds : C(kind) \in ChunkType /\ C(kind).kind = kind /\ C(kind).slot = i
      /\ \A k \in Nat : /\ Stream!Chunk("piece", i, k) \in ChunkType /\ Stream!Chunk("piece", i, k).kind = "piece"
                        /\ Stream!Chunk("piece", i, k).slot = i /\ Stream!Chunk("piece", i, k).piece = k
  BY DEF Stream!Chunk, ChunkType, CallKinds
<1>2. ChunkOf(p, C("start")) /\ (p = "gemini" => ChunkOf(p, C("call"))) /\ (p = "anthropic" => ChunkOf(p, C("stop")))
  BY <1>1 DEF ChunkOf, CallKinds
<1> HIDE DEF C
<1>3. /\ LineOf(p, pieces) /\ Range(pieces) = {Stream!Chunk("piece", i, k) : k \in 1..n}
  <2>1. n \in Nat /\ pieces \in Seq(ChunkType) /\ Len(pieces) = n /\ \A k \in 1..n : pieces[k] = Stream!Chunk("piece", i, k)
    BY <1>1
  <2> HIDE DEF pieces
  <2>2. Range(pieces) = {Stream!Chunk("piece", i, k) : k \in 1..n}
    BY <2>1, RangeIsElements
  <2>3. Lined(pieces)
    BY <1>1, <2>1 DEF Lined, ChunkBefore, CallKinds
  <2>4. \A k \in 1..n : ChunkOf(p, Stream!Chunk("piece", i, k))
    BY <1>1 DEF ChunkOf, CallKinds
  <2> QED
    BY <2>1, <2>2, <2>3, <2>4 DEF LineOf
<1> HIDE DEF pieces
<1>4. CASE p = "gemini"
  <2>1. Stream!CallChunks(p, i, n) = <<C("call")>>
    BY <1>4 DEF Stream!CallChunks, C
  <2> QED
    BY <1>1, <1>2, <1>4, <2>1, ShortLines DEF CallKinds
<1>5. CASE p # "gemini"
  <2>1. Stream!CallChunks(p, i, n) = (<<C("start")>> \o pieces) \o stop
    BY <1>5 DEF Stream!CallChunks, C, pieces
  <2>2. /\ LineOf(p, <<C("start")>>) /\ Range(<<C("start")>>) = {C("start")}
        /\ LineOf(p, stop) /\ Range(stop) \subseteq {C("stop")}
    BY <1>2, ShortLines
  <2> HIDE DEF stop
  <2>3. LineOf(p, <<C("start")>> \o pieces) /\ Range(<<C("start")>> \o pieces) = {C("start")} \cup Range(pieces)
    <3>1. \A x \in {C("start")}, y \in Range(pieces) : ChunkBefore(x, y)
      BY <1>1, <1>3 DEF ChunkBefore, CallKinds
    <3> QED
      BY <1>3, <2>2, <3>1, LinesJoin
  <2>4. \A x \in {C("start")} \cup Range(pieces), y \in {C("stop")} : ChunkBefore(x, y)
    BY <1>1, <1>3 DEF ChunkBefore, CallKinds
  <2>5. LineOf(p, (<<C("start")>> \o pieces) \o stop)
        /\ Range((<<C("start")>> \o pieces) \o stop) = {C("start")} \cup Range(pieces) \cup Range(stop)
    BY <2>2, <2>3, <2>4, LinesJoin
  <2>6. \A x \in {C("start")} \cup Range(pieces) \cup {C("stop")} : x.kind \in CallKinds /\ x.slot = i
    BY <1>1, <1>3 DEF CallKinds
  <2> QED
    BY <2>1, <2>2, <2>5, <2>6
<1> QED
  BY <1>4, <1>5

\* Text, a call, another call and the end are one line.
LEMMA LinesInARow ==
  ASSUME NEW p, NEW w, NEW a, NEW b, NEW z,
         LineOf(p, w), LineOf(p, a), LineOf(p, b), LineOf(p, <<z>>), Range(<<z>>) = {z},
         \A x \in Range(w) : x.kind = "text",
         \A x \in Range(a) : x.kind \in CallKinds /\ x.slot = 1,
         \A x \in Range(b) : x.kind \in CallKinds /\ x.slot = 2,
         z.kind \in {"limit", "finish"}
  PROVE  LineOf(p, ((w \o a) \o b) \o <<z>>)
<1>1. LineOf(p, w \o a) /\ Range(w \o a) = Range(w) \cup Range(a)
  <2>1. \A x \in Range(w), y \in Range(a) : ChunkBefore(x, y)
    BY DEF ChunkBefore, CallKinds
  <2>2. LineOf(p, w) /\ LineOf(p, a)
    OBVIOUS
  <2> QED
    BY <2>1, <2>2, LinesJoin
<1>2. LineOf(p, (w \o a) \o b) /\ Range((w \o a) \o b) = Range(w) \cup Range(a) \cup Range(b)
  <2>1. \A x \in Range(w) \cup Range(a), y \in Range(b) : ChunkBefore(x, y)
    BY DEF ChunkBefore, CallKinds
  <2>2. LineOf(p, w \o a) /\ LineOf(p, b) /\ \A x \in Range(w \o a), y \in Range(b) : ChunkBefore(x, y)
    BY <1>1, <2>1
  <2>3. LineOf(p, (w \o a) \o b) /\ Range((w \o a) \o b) = Range(w \o a) \cup Range(b)
    BY <2>2, LinesJoin
  <2> QED
    BY <1>1, <2>3
<1>3. LineOf(p, ((w \o a) \o b) \o <<z>>)
  <2>1. \A x \in Range(w) \cup Range(a) \cup Range(b), y \in {z} : ChunkBefore(x, y)
    BY DEF ChunkBefore, CallKinds
  <2> QED
    BY <1>2, <2>1, LinesJoin
<1> QED
  BY <1>3

\* So are those of an answer.
LEMMA AnswerInLine ==
  ASSUME NEW p, NEW says \in BOOLEAN, NEW n \in 0..2, NEW sent \in 0..Pieces
  PROVE  LineOf(p, Stream!Answer(p, says, n, sent))
<1> USE StreamAssumption
<1> DEFINE w == IF says THEN <<Stream!Chunk("text", 0, 0)>> ELSE <<>>
           a == IF n > 0 THEN Stream!CallChunks(p, 1, IF n = 1 THEN sent ELSE Pieces) ELSE <<>>
           b == IF n > 1 THEN Stream!CallChunks(p, 2, sent) ELSE <<>>
           z == Stream!Chunk(IF n > 0 /\ sent < Pieces THEN "limit" ELSE "finish", 0, 0)
<1>2. Stream!Answer(p, says, n, sent) = ((w \o a) \o b) \o <<z>>
  BY DEF Stream!Answer
<1>3. LineOf(p, w) /\ \A x \in Range(w) : x.kind = "text"
  <2>1. ChunkOf(p, Stream!Chunk("text", 0, 0)) /\ Stream!Chunk("text", 0, 0).kind = "text"
    BY DEF ChunkOf, ChunkType, CallKinds, Stream!Chunk
  <2> QED
    BY <2>1, ShortLines
<1>4. LineOf(p, a) /\ \A x \in Range(a) : x.kind \in CallKinds /\ x.slot = 1
  <2>1. (IF n = 1 THEN sent ELSE Pieces) \in 0..Pieces
    OBVIOUS
  <2> QED
    BY <2>1, ShortLines, CallInLine
<1>5. LineOf(p, b) /\ \A x \in Range(b) : x.kind \in CallKinds /\ x.slot = 2
  BY ShortLines, CallInLine
<1>6. LineOf(p, <<z>>) /\ Range(<<z>>) = {z}
  <2>1. ChunkOf(p, z)
    BY DEF ChunkOf, ChunkType, CallKinds, Stream!Chunk
  <2> QED
    BY <2>1, ShortLines
<1>7. z.kind \in {"limit", "finish"}
  BY DEF Stream!Chunk
<1> HIDE DEF w, a, b, z
<1> QED
  BY <1>2, <1>3, <1>4, <1>5, <1>6, <1>7, LinesInARow
-----------------------------------------------------------------------------
(* ModelStream.  What holds of the messages while they are translated. *)

Groups == Seq(Stream!Messages) \ {<<>>}
Answered(n) == [i \in 1..n |-> <<"result", i>>]

\* One message each: what is owed to a call is next in what is built, and then at the head of
\* what is left.
PlainInv ==
  /\ results = <<>>
  /\ \A k \in 1..Len(built) : built[k][1][1] = "calls" =>
       \A i \in 1..built[k][1][2] :
         IF k + i <= Len(built) THEN built[k + i] = <<<<"result", i>>>>
         ELSE k + i - Len(built) \in 1..Len(transcript) /\ transcript[k + i - Len(built)] = <<"result", i>>

\* Of the calls built last, the results so far are the first and the others are at the head of
\* what is left, with no other result behind them.
Owing(n) ==
  /\ n # 0 /\ Len(results) <= n /\ results = Answered(Len(results))
  /\ \A i \in 1..(n - Len(results)) : i \in 1..Len(transcript) /\ transcript[i] = <<"result", Len(results) + i>>
  /\ n - Len(results) + 1 \in 1..Len(transcript) => ~ Stream!IsResult(transcript[n - Len(results) + 1])

GroupedInv ==
  /\ \A i \in 1..Len(results) : Stream!IsResult(results[i])
  /\ \A k \in 1..Len(built) : built[k][1][1] = "calls" =>
       IF k < Len(built) THEN built[k + 1] = Answered(built[k][1][2]) ELSE Owing(built[k][1][2])

MessagesInv ==
  /\ transcript \in Seq(Stream!Messages) /\ Stream!Paired(transcript)
  /\ results \in Seq(Stream!Messages) /\ built \in Seq(Groups)
  /\ streamStage = "idle" => built = <<>> /\ results = <<>>
  /\ streamStage = "building" => IF provider = "anthropic" THEN GroupedInv ELSE PlainInv
  /\ Stream!ResultsFollow

(* And of the answer. *)
Handed == {1, 2} \X Nat
Increasing(h) == \A i, j \in 1..Len(h) : i < j => h[i][1] < h[j][1]

HandedInv ==
  /\ handed \in Seq(Handed) /\ Increasing(handed)
  /\ provider \in {"openai", "gemini"} => \A i \in 1..Len(handed) : handed[i][2] \in {0, Pieces}

PendingInv ==
  /\ streamPending = [i \in Stream!Begun |-> streamPending[i]] /\ Stream!Begun \subseteq {1, 2}
  /\ \A i \in Stream!Begun : streamPending[i] \in 0..Pieces

OpenInv ==
  /\ LineOf(provider, wire)
  /\ \A x \in Range(wire) : x.kind = "piece" /\ x.slot \in Stream!Begun => streamPending[x.slot] < x.piece
  /\ provider = "openai" => handed = <<>> \/ (wire = <<>> /\ Stream!Begun = {})
  /\ provider # "openai" => \A i \in 1..Len(handed), x \in Range(wire) : x.kind \in CallKinds => handed[i][1] < x.slot

AnswerInv ==
  /\ HandedInv /\ PendingInv
  /\ streamStage = "open" => OpenInv
  /\ streamAttempt \in Nat /\ streamShown \subseteq {streamAttempt}

StreamInv == MessagesInv /\ AnswerInv

-----------------------------------------------------------------------------
\* What is left when its head is translated is paired too.
LEMMA TailPaired ==
  ASSUME NEW t \in Seq(Stream!Messages), t # <<>>, Stream!Paired(t)
  PROVE  /\ Tail(t) \in Seq(Stream!Messages) /\ Stream!Paired(Tail(t))
         /\ Head(t) = t[1] /\ Head(t) \in Stream!Messages
         /\ Len(t) \in Nat \ {0} /\ Len(Tail(t)) = Len(t) - 1
         /\ \A k \in 1..Len(Tail(t)) : Tail(t)[k] = t[k + 1]
<1> DEFINE r == Tail(t)
<1>1. /\ r \in Seq(Stream!Messages) /\ Len(r) = Len(t) - 1 /\ Len(t) \in Nat \ {0}
      /\ \A k \in 1..Len(r) : r[k] = t[k + 1]
      /\ Head(t) = t[1] /\ Head(t) \in Stream!Messages
  BY HeadTailProperties, EmptySeq
<1> HIDE DEF r
<1>2. Stream!Paired(r)
  <2> SUFFICES ASSUME NEW k \in 1..Len(r), r[k][1] = "calls"
               PROVE  /\ r[k][2] # 0
                      /\ \A i \in 1..r[k][2] : k + i \in 1..Len(r) /\ r[k + i] = <<"result", i>>
                      /\ k + r[k][2] + 1 \in 1..Len(r) => ~ Stream!IsResult(r[k + r[k][2] + 1])
    BY <1>1 DEF Stream!Paired
  <2>1. k + 1 \in 1..Len(t) /\ t[k + 1] = r[k] /\ r[k] \in Stream!Messages
    BY <1>1
  <2>2. r[k][2] \in Nat
    BY <2>1 DEF Stream!Messages
  <2>3. /\ r[k][2] # 0
        /\ \A i \in 1..r[k][2] : k + 1 + i \in 1..Len(t) /\ t[k + 1 + i] = <<"result", i>>
        /\ k + 1 + r[k][2] + 1 \in 1..Len(t) => ~ Stream!IsResult(t[k + 1 + r[k][2] + 1])
    BY <2>1 DEF Stream!Paired
  <2>4. ASSUME NEW i \in 1..r[k][2] PROVE k + i \in 1..Len(r) /\ r[k + i] = <<"result", i>>
    <3>1. i \in Nat \ {0} /\ k + 1 + i \in 1..Len(t) /\ t[k + 1 + i] = <<"result", i>>
      <4> DEFINE n == r[k][2]
                 ResultAt(j) == k + 1 + j \in 1..Len(t) /\ t[k + 1 + j] = <<"result", j>>
      <4>1. n \in Nat /\ i \in 1..n /\ \A j \in 1..n : ResultAt(j)
        BY <2>2, <2>3, <2>4
      <4> HIDE DEF n, ResultAt
      <4>2. i \in Nat \ {0} /\ ResultAt(i)
        BY <4>1
      <4> QED
        BY <4>2 DEF ResultAt
    <3>2. k + i \in 1..Len(r) /\ k + i + 1 = k + 1 + i
      BY <1>1, <3>1
    <3> QED
      BY <1>1, <3>1, <3>2
  <2>5. ASSUME k + r[k][2] + 1 \in 1..Len(r) PROVE ~ Stream!IsResult(r[k + r[k][2] + 1])
    <3>1. k + 1 + r[k][2] + 1 \in 1..Len(t) /\ k + r[k][2] + 1 + 1 = k + 1 + r[k][2] + 1
      BY <1>1, <2>2, <2>5
    <3> QED
      BY <1>1, <2>3, <2>5, <3>1
  <2> QED
    BY <2>3, <2>4, <2>5
<1> QED
  BY <1>1, <1>2 DEF r

\* A group added at the end of what is built.
LEMMA GroupAdded ==
  ASSUME NEW b \in Seq(Groups), NEW g \in Groups
  PROVE  /\ Append(b, g) \in Seq(Groups) /\ Len(Append(b, g)) = Len(b) + 1 /\ Len(b) \in Nat
         /\ Append(b, g)[Len(b) + 1] = g /\ \A k \in 1..Len(b) : Append(b, g)[k] = b[k]
BY AppendProperties

\* A group has a first message.
LEMMA FirstOfGroup ==
  ASSUME NEW g \in Groups
  PROVE  g[1] \in Stream!Messages /\ g[1][2] \in Nat
<1>1. g \in Seq(Stream!Messages) /\ Len(g) \in Nat \ {0}
  BY EmptySeq DEF Groups
<1> QED
  BY <1>1 DEF Stream!Messages

LEMMA OneIsAGroup ==
  ASSUME NEW m \in Stream!Messages
  PROVE  <<m>> \in Groups /\ <<m>>[1] = m
BY DEF Groups

\* A message translated on its own keeps the results owed in their places.
LEMMA PlainSound ==
  ASSUME MessagesInv, streamStage = "building", provider # "anthropic", transcript # <<>>,
         transcript' = Tail(transcript), results' = results,
         (built' = built /\ Head(transcript)[1] = "control") \/ built' = Append(built, <<Head(transcript)>>)
  PROVE  built' \in Seq(Groups) /\ PlainInv'
<1> DEFINE m == Head(transcript)
           w == Tail(transcript)
<1>1. /\ w \in Seq(Stream!Messages) /\ m = transcript[1] /\ m \in Stream!Messages /\ m[2] \in Nat
      /\ Len(transcript) \in Nat \ {0} /\ Len(w) = Len(transcript) - 1
      /\ \A k \in 1..Len(w) : w[k] = transcript[k + 1]
  BY TailPaired DEF MessagesInv, Stream!Messages
<1>2. built \in Seq(Groups) /\ Len(built) \in Nat /\ PlainInv /\ results' = <<>>
  BY DEF MessagesInv, PlainInv
<1>3. ASSUME NEW k \in 1..Len(built), built[k][1][1] = "calls", NEW i \in 1..built[k][1][2], k + i > Len(built)
      PROVE  /\ built[k][1][2] \in Nat
             /\ transcript[1] = <<"result", Len(built) + 1 - k>>
             /\ k + i - Len(built) \in 1..Len(transcript) /\ transcript[k + i - Len(built)] = <<"result", i>>
  <2>1. built[k] \in Groups /\ built[k][1][2] \in Nat
    BY <1>2, FirstOfGroup
  <2>2. \A j \in 1..built[k][1][2] : k + j > Len(built) =>
          k + j - Len(built) \in 1..Len(transcript) /\ transcript[k + j - Len(built)] = <<"result", j>>
    BY <1>2, <1>3, <2>1 DEF PlainInv
  <2> DEFINE n == built[k][1][2]
             j == Len(built) + 1 - k
  <2>3. n \in Nat /\ i \in 1..n /\ n = built[k][1][2]
    BY <2>1
  <2> HIDE DEF n
  <2>4. j \in 1..n /\ k + j > Len(built) /\ k + j - Len(built) = 1
    BY <1>2, <1>3, <2>3
  <2>5. transcript[1] = <<"result", j>>
    <3> HIDE DEF j
    <3> QED
      BY <2>2, <2>3, <2>4
  <2> QED
    BY <1>3, <2>1, <2>2, <2>5
<1>4. CASE built' = built /\ m[1] = "control"
  <2>1. \A k \in 1..Len(built) : built[k][1][1] = "calls" =>
          \A i \in 1..built[k][1][2] : k + i <= Len(built) /\ built[k + i] = <<<<"result", i>>>>
    <3> TAKE k \in 1..Len(built)
    <3> HAVE built[k][1][1] = "calls"
    <3> TAKE i \in 1..built[k][1][2]
    <3>1. built[k] \in Groups /\ built[k][1][2] \in Nat
      BY <1>2, FirstOfGroup
    <3>2. k + i <= Len(built)
      BY <1>1, <1>2, <1>3, <1>4, <3>1
    <3> QED
      BY <1>2, <3>2 DEF PlainInv
  <2> QED
    BY <1>2, <1>4, <2>1 DEF PlainInv
<1>5. CASE built' = Append(built, <<m>>)
  <2> DEFINE b == Append(built, <<m>>)
  <2>1. <<m>> \in Groups /\ <<m>>[1] = m
    BY <1>1, OneIsAGroup
  <2>2. /\ b \in Seq(Groups) /\ Len(b) = Len(built) + 1 /\ b[Len(built) + 1] = <<m>>
        /\ \A k \in 1..Len(built) : b[k] = built[k]
    BY <1>2, <2>1, GroupAdded
  <2> HIDE DEF b, m, w
  <2>3. ASSUME NEW k \in 1..Len(b), b[k][1][1] = "calls", NEW i \in 1..b[k][1][2]
        PROVE  IF k + i <= Len(b) THEN b[k + i] = <<<<"result", i>>>>
               ELSE k + i - Len(b) \in 1..Len(w) /\ w[k + i - Len(b)] = <<"result", i>>
    <3>1. CASE k = Len(b)
      <4>1. m[1] = "calls" /\ i \in 1..m[2] /\ b[k] = <<m>>
        BY <1>2, <2>1, <2>2, <2>3, <3>1
      <4>2. 1 + i \in 1..Len(transcript) /\ transcript[1 + i] = <<"result", i>>
        <5>1. 1 \in DOMAIN transcript /\ transcript[1][1] = "calls" /\ i \in 1..transcript[1][2]
          BY <1>1, <4>1 DEF MessagesInv, m
        <5> QED
          BY <5>1 DEF MessagesInv, Stream!Paired
      <4>3. ~ (k + i <= Len(b)) /\ k + i - Len(b) = i /\ i \in 1..Len(w) /\ i + 1 = 1 + i
        BY <1>1, <1>2, <2>2, <3>1, <4>1, <4>2
      <4> QED
        BY <1>1, <4>2, <4>3
    <3>2. CASE k # Len(b)
      <4>1. k \in 1..Len(built) /\ b[k] = built[k] /\ built[k] \in Groups
        BY <1>2, <2>2, <3>2
      <4>2. /\ built[k][1][2] \in Nat /\ i \in 1..built[k][1][2] /\ built[k][1][1] = "calls"
            /\ i \in Nat /\ k \in Nat
        BY <2>3, <4>1, FirstOfGroup
      <4>3. CASE k + i <= Len(built)
        <5>1. k + i \in 1..Len(built) /\ k + i <= Len(b)
          BY <1>2, <2>2, <4>1, <4>2, <4>3
        <5> QED
          BY <1>2, <2>2, <4>1, <4>2, <4>3, <5>1 DEF PlainInv
      <4>4. CASE k + i = Len(built) + 1
        <5>1. /\ transcript[k + i - Len(built)] = <<"result", i>> /\ k + i - Len(built) = 1
              /\ k + i <= Len(b) /\ b[k + i] = <<m>>
          BY <1>2, <1>3, <2>2, <4>1, <4>2, <4>4
        <5> QED
          BY <1>1, <5>1
      <4>5. CASE k + i > Len(built) + 1
        <5>1. /\ transcript[k + i - Len(built)] = <<"result", i>> /\ k + i - Len(built) \in 1..Len(transcript)
          <6>1. k + i > Len(built)
            BY <1>2, <4>2, <4>5
          <6> QED
            BY <1>3, <4>1, <4>2, <6>1
        <5>2. /\ ~ (k + i <= Len(b)) /\ k + i - Len(b) \in 1..Len(w)
              /\ (k + i - Len(b)) + 1 = k + i - Len(built)
          BY <1>1, <1>2, <2>2, <4>1, <4>2, <4>5, <5>1
        <5> QED
          BY <1>1, <5>1, <5>2
      <4>6. k + i <= Len(built) \/ k + i = Len(built) + 1 \/ k + i > Len(built) + 1
        <5>1. k \in Nat /\ i \in Nat /\ Len(built) \in Nat
          BY <1>2, <4>2
        <5> QED
          BY ONLY <5>1
      <4> QED
        BY <4>3, <4>4, <4>5, <4>6
    <3> QED
      BY <3>1, <3>2
  <2>4. built' = b /\ transcript' = w
    BY <1>5 DEF b, m, w
  <2>5. b \in Seq(Groups) /\ results' = <<>>
    BY <1>2, <2>2
  <2> QED
    BY <2>3, <2>4, <2>5 DEF PlainInv
<1> QED
  BY <1>4, <1>5

\* The results one behind the other are a sequence.
LEMMA AnsweredIsOne ==
  ASSUME NEW n \in Nat
  PROVE  /\ Answered(n) \in Seq(Stream!Messages) /\ Len(Answered(n)) = n
         /\ \A i \in 1..n : Answered(n)[i] = <<"result", i>>
         /\ Append(Answered(n), <<"result", n + 1>>) = Answered(n + 1)
         /\ n # 0 => Answered(n) \in Groups
<1>1. /\ Answered(n) \in Seq(Stream!Messages) /\ Len(Answered(n)) = n
      /\ \A i \in 1..n : Answered(n)[i] = <<"result", i>>
  BY DEF Answered, Stream!Messages
<1>2. Append(Answered(n), <<"result", n + 1>>) = Answered(n + 1)
  <2> DEFINE s == Append(Answered(n), <<"result", n + 1>>)
             t == Answered(n + 1)
  <2>1. n + 1 \in Nat /\ <<"result", n + 1>> \in Stream!Messages
    BY DEF Stream!Messages
  <2>2. t \in Seq(Stream!Messages) /\ Len(t) = n + 1 /\ \A i \in 1..(n + 1) : t[i] = <<"result", i>>
    BY <2>1 DEF Answered, Stream!Messages
  <2>3. s \in Seq(Stream!Messages) /\ Len(s) = n + 1 /\ s[n + 1] = <<"result", n + 1>>
        /\ \A i \in 1..n : s[i] = Answered(n)[i]
    BY <1>1, <2>1, AppendProperties
  <2> HIDE DEF s, t
  <2>4. \A i \in 1..(n + 1) : s[i] = t[i]
    <3> TAKE i \in 1..(n + 1)
    <3>1. i = n + 1 \/ i \in 1..n
      OBVIOUS
    <3> QED
      BY <1>1, <2>2, <2>3, <3>1
  <2>5. s = t
    BY <2>2, <2>3, <2>4, SeqEqual
  <2> QED
    BY <2>5 DEF s, t
<1>3. n # 0 => Answered(n) \in Groups
  BY <1>1, EmptySeq DEF Groups
<1> QED
  BY <1>1, <1>2, <1>3

\* What is owed to the calls built last is complete when no result comes, and goes on with
\* the result that comes.
LEMMA OwingSound ==
  ASSUME NEW n \in Nat, Owing(n), results \in Seq(Stream!Messages), transcript \in Seq(Stream!Messages)
  PROVE  IF transcript # <<>> /\ Stream!IsResult(transcript[1])
         THEN Len(results) < n /\ transcript[1] = <<"result", Len(results) + 1>>
         ELSE Len(results) = n
<1> DEFINE l == Len(results)
<1>1. /\ l \in Nat /\ l <= n /\ n # 0
      /\ \A i \in 1..(n - l) : i \in 1..Len(transcript) /\ transcript[i] = <<"result", l + i>>
      /\ n - l + 1 \in 1..Len(transcript) => ~ Stream!IsResult(transcript[n - l + 1])
  BY DEF Owing
<1> HIDE DEF l
<1>2. l < n => 1 \in 1..Len(transcript) /\ transcript[1] = <<"result", l + 1>>
  <2>1. l < n => 1 \in 1..(n - l)
    BY <1>1
  <2> QED
    BY <1>1, <2>1
<1>3. ASSUME transcript = <<>> PROVE l = n
  BY <1>1, <1>2, <1>3
<1>4. ASSUME transcript # <<>>, ~ Stream!IsResult(transcript[1]) PROVE l = n
  BY <1>1, <1>2, <1>4 DEF Stream!IsResult
<1>5. ASSUME transcript # <<>>, Stream!IsResult(transcript[1]) PROVE l < n
  <2>1. Len(transcript) \in Nat \ {0}
    BY <1>5, EmptySeq
  <2>2. l = n => n - l + 1 = 1 /\ 1 \in 1..Len(transcript)
    BY <1>1, <2>1
  <2> QED
    BY <1>1, <1>5, <2>2
<1> QED
  BY <1>2, <1>3, <1>4, <1>5 DEF l

\* The results so far become a message, and no calls are owed anything any more.
LEMMA FlushedSound ==
  ASSUME MessagesInv, GroupedInv,
         transcript = <<>> \/ ~ Stream!IsResult(Head(transcript))
  PROVE  /\ Stream!Flushed \in Seq(Groups) /\ Len(Stream!Flushed) \in Nat
         /\ \A k \in 1..Len(Stream!Flushed) : Stream!Flushed[k][1][1] = "calls" =>
              k < Len(Stream!Flushed) /\ Stream!Flushed[k + 1] = Answered(Stream!Flushed[k][1][2])
<1> DEFINE f == Stream!Flushed
<1>1. /\ built \in Seq(Groups) /\ Len(built) \in Nat /\ results \in Seq(Stream!Messages) /\ Len(results) \in Nat
      /\ transcript \in Seq(Stream!Messages)
      /\ transcript # <<>> => Head(transcript) = transcript[1]
  BY HeadTailProperties DEF MessagesInv
<1>2. ASSUME NEW k \in 1..Len(built), built[k][1][1] = "calls"
      PROVE  IF k < Len(built) THEN built[k + 1] = Answered(built[k][1][2])
             ELSE Len(results) = built[k][1][2] /\ results = Answered(built[k][1][2]) /\ results # <<>>
  <2>1. built[k] \in Groups /\ built[k][1][2] \in Nat
    BY <1>1, FirstOfGroup
  <2>2. CASE k < Len(built)
    BY <1>2, <2>2 DEF GroupedInv
  <2>3. CASE ~ (k < Len(built))
    <3>1. Owing(built[k][1][2])
      BY <1>2, <2>3 DEF GroupedInv
    <3>2. Len(results) = built[k][1][2]
      <4>1. ~ (transcript # <<>> /\ Stream!IsResult(transcript[1]))
        BY <1>1
      <4> QED
        BY <1>1, <2>1, <3>1, <4>1, OwingSound
    <3>3. results = Answered(Len(results)) /\ Len(results) # 0
      BY <3>1, <3>2 DEF Owing
    <3> QED
      BY <1>1, <2>3, <3>2, <3>3, EmptySeq
  <2> QED
    BY <2>2, <2>3
<1>3. CASE results = <<>>
  <2>1. f = built
    BY <1>3 DEF Stream!Flushed
  <2> HIDE DEF f
  <2> QED
    BY <1>1, <1>2, <1>3, <2>1 DEF f
<1>4. CASE results # <<>>
  <2>1. f = Append(built, results) /\ results \in Groups /\ results[1][1] = "result"
    <3>1. results \in Groups /\ 1 \in 1..Len(results)
      BY <1>1, <1>4, EmptySeq DEF Groups
    <3> QED
      BY <1>4, <3>1 DEF Stream!Flushed, GroupedInv, Stream!IsResult
  <2> HIDE DEF f
  <2>2. /\ f \in Seq(Groups) /\ Len(f) = Len(built) + 1 /\ f[Len(built) + 1] = results
        /\ \A k \in 1..Len(built) : f[k] = built[k]
    BY <1>1, <2>1, GroupAdded
  <2>3. ASSUME NEW k \in 1..Len(f), f[k][1][1] = "calls"
        PROVE  k < Len(f) /\ f[k + 1] = Answered(f[k][1][2])
    <3>1. k \in 1..Len(built) /\ f[k] = built[k] /\ k < Len(f)
      BY <1>1, <2>1, <2>2, <2>3
    <3>2. CASE k < Len(built)
      <4>1. k + 1 \in 1..Len(built)
        BY <1>1, <3>1, <3>2
      <4> QED
        BY <1>2, <2>2, <2>3, <3>1, <3>2, <4>1
    <3>3. CASE ~ (k < Len(built))
      <4>1. k + 1 = Len(built) + 1
        BY <1>1, <3>1, <3>3
      <4> QED
        BY <1>2, <2>2, <2>3, <3>1, <3>3, <4>1
    <3> QED
      BY <3>2, <3>3
  <2> QED
    BY <1>1, <2>2, <2>3 DEF f
<1> QED
  BY <1>3, <1>4

\* A message of Anthropic's translation keeps what is owed.
LEMMA GroupSound ==
  ASSUME MessagesInv, streamStage = "building", provider = "anthropic", transcript # <<>>,
         transcript' = Tail(transcript), Stream!Group(Head(transcript))
  PROVE  built' \in Seq(Groups) /\ results' \in Seq(Stream!Messages) /\ GroupedInv'
<1> DEFINE m == Head(transcript)
           w == Tail(transcript)
<1>1. /\ w \in Seq(Stream!Messages) /\ m = transcript[1] /\ m \in Stream!Messages /\ m[2] \in Nat
      /\ Len(transcript) \in Nat \ {0} /\ Len(w) = Len(transcript) - 1
      /\ \A k \in 1..Len(w) : w[k] = transcript[k + 1]
      /\ transcript \in Seq(Stream!Messages) /\ transcript' = w
  BY TailPaired DEF MessagesInv, Stream!Messages
<1>2. /\ built \in Seq(Groups) /\ Len(built) \in Nat /\ GroupedInv
      /\ results \in Seq(Stream!Messages) /\ Len(results) \in Nat
  BY DEF MessagesInv
<1>3. CASE Stream!IsResult(m)
  <2>1. results' = Append(results, m) /\ built' = built
    BY <1>3 DEF Stream!Group
  <2> HIDE DEF m, w
  <2>2. /\ results' \in Seq(Stream!Messages) /\ Len(results') = Len(results) + 1
        /\ results'[Len(results) + 1] = m /\ \A i \in 1..Len(results) : results'[i] = results[i]
    BY <1>1, <1>2, <2>1, AppendProperties
  <2>3. \A i \in 1..Len(results') : Stream!IsResult(results'[i])
    <3> TAKE i \in 1..Len(results')
    <3>1. i \in 1..Len(results) \/ i = Len(results) + 1
      BY <1>2, <2>2
    <3> QED
      BY <1>2, <1>3, <2>2, <3>1 DEF GroupedInv
  <2>4. ASSUME NEW k \in 1..Len(built), built[k][1][1] = "calls", ~ (k < Len(built))
        PROVE  Owing(built[k][1][2])'
    <3> DEFINE n == built[k][1][2]
               l == Len(results)
    <3>1. built[k] \in Groups /\ n \in Nat
      BY <1>2, FirstOfGroup
    <3>2. Owing(n)
      BY <1>2, <2>4 DEF GroupedInv
    <3> HIDE DEF n
    <3>3. l < n /\ m = <<"result", l + 1>>
      BY <1>1, <1>2, <1>3, <3>1, <3>2, OwingSound
    <3>4. results = Answered(l)
      BY <3>2 DEF Owing
    <3>5. /\ n # 0 /\ \A i \in 1..(n - l) : i \in 1..Len(transcript) /\ transcript[i] = <<"result", l + i>>
          /\ n - l + 1 \in 1..Len(transcript) => ~ Stream!IsResult(transcript[n - l + 1])
      BY <3>2 DEF Owing
    <3> HIDE DEF l
    <3>6. l \in Nat /\ Len(results') = l + 1 /\ results' = Answered(l + 1)
      BY <1>2, <2>1, <2>2, <3>3, <3>4, AnsweredIsOne DEF l
    <3>7. \A i \in 1..(n - (l + 1)) : i \in 1..Len(w) /\ w[i] = <<"result", (l + 1) + i>>
      <4> TAKE i \in 1..(n - (l + 1))
      <4>1. i + 1 \in 1..(n - l) /\ (l + 1) + i = l + (i + 1)
        BY <3>1, <3>6
      <4>2. i + 1 \in 1..Len(transcript) /\ transcript[i + 1] = <<"result", (l + 1) + i>>
        BY <3>5, <4>1
      <4>3. i \in 1..Len(w)
        BY <1>1, <4>2
      <4> QED
        BY <1>1, <4>2, <4>3
    <3>8. n - (l + 1) + 1 \in 1..Len(w) => ~ Stream!IsResult(w[n - (l + 1) + 1])
      <4>1. n - (l + 1) + 1 = n - l
        BY <3>1, <3>6
      <4>2. n - l \in 1..Len(w) => n - l + 1 \in 1..Len(transcript) /\ w[n - l] = transcript[n - l + 1]
        BY <1>1, <3>1, <3>6
      <4> QED
        BY <3>5, <4>1, <4>2
    <3>9. n - (l + 1) \in Nat /\ l + 1 <= n
      BY <3>1, <3>3, <3>6
    <3>10. (n = built[k][1][2])'
      BY <2>1 DEF n
    <3> QED
      BY <1>1, <3>5, <3>6, <3>7, <3>8, <3>9, <2>1 DEF Owing, n
  <2>5. \A k \in 1..Len(built) : built[k][1][1] = "calls" /\ k < Len(built) => built[k + 1] = Answered(built[k][1][2])
    BY <1>2 DEF GroupedInv
  <2> QED
    BY <1>2, <2>1, <2>2, <2>3, <2>4, <2>5 DEF GroupedInv
<1>4. CASE ~ Stream!IsResult(m)
  <2> DEFINE f == Stream!Flushed
  <2>1. /\ f \in Seq(Groups) /\ Len(f) \in Nat
        /\ \A k \in 1..Len(f) : f[k][1][1] = "calls" => k < Len(f) /\ f[k + 1] = Answered(f[k][1][2])
    BY <1>2, <1>4, FlushedSound
  <2>2. results' = <<>> /\ built' = IF m[1] = "control" THEN f ELSE Append(f, <<m>>)
    BY <1>4 DEF Stream!Group
  <2> HIDE DEF m, w, f
  <2>3. results' \in Seq(Stream!Messages) /\ Len(results') = 0
    BY <2>2
  <2>4. CASE m[1] = "control"
    <3>1. built' = f
      BY <2>2, <2>4
    <3> QED
      BY <2>1, <2>3, <3>1 DEF GroupedInv
  <2>5. CASE m[1] # "control"
    <3>1. <<m>> \in Groups /\ <<m>>[1] = m
      BY <1>1, OneIsAGroup
    <3>2. /\ built' \in Seq(Groups) /\ Len(built') = Len(f) + 1 /\ built'[Len(f) + 1] = <<m>>
          /\ \A k \in 1..Len(f) : built'[k] = f[k]
      BY <2>1, <2>2, <2>5, <3>1, GroupAdded
    <3>3. ASSUME m[1] = "calls"
          PROVE  /\ m[2] # 0 /\ Len(results') <= m[2] /\ results' = Answered(Len(results'))
                 /\ \A i \in 1..(m[2] - Len(results')) :
                      i \in 1..Len(transcript') /\ transcript'[i] = <<"result", Len(results') + i>>
                 /\ m[2] - Len(results') + 1 \in 1..Len(transcript')
                      => ~ Stream!IsResult(transcript'[m[2] - Len(results') + 1])
      <4>1. /\ m[2] # 0
            /\ \A i \in 1..m[2] : 1 + i \in 1..Len(transcript) /\ transcript[1 + i] = <<"result", i>>
            /\ 1 + m[2] + 1 \in 1..Len(transcript) => ~ Stream!IsResult(transcript[1 + m[2] + 1])
        <5>1. 1 \in DOMAIN transcript /\ transcript[1][1] = "calls" /\ m = transcript[1] /\ DOMAIN transcript = 1..Len(transcript)
          BY <1>1, <3>3
        <5> QED
          BY <5>1 DEF MessagesInv, Stream!Paired
      <4> DEFINE n == m[2]
      <4>2. n \in Nat
        BY <1>1
      <4> HIDE DEF n
      <4>3. \A i \in 1..n : i \in 1..Len(w) /\ w[i] = <<"result", i>>
        <5> TAKE i \in 1..n
        <5>1. 1 + i \in 1..Len(transcript) /\ transcript[1 + i] = <<"result", i>> /\ 1 + i = i + 1
          BY <4>1, <4>2 DEF n
        <5>2. i \in 1..Len(w)
          BY <1>1, <4>2, <5>1
        <5> QED
          BY <1>1, <5>1, <5>2
      <4>4. n + 1 \in 1..Len(w) => ~ Stream!IsResult(w[n + 1])
        <5>1. n + 1 \in 1..Len(w) => 1 + n + 1 \in 1..Len(transcript) /\ w[n + 1] = transcript[1 + n + 1]
          BY <1>1, <4>2
        <5> QED
          BY <4>1, <5>1 DEF n
      <4>5. Answered(0) = <<>>
        BY AnsweredIsOne, EmptySeq
      <4>6. \A i \in 1..n : 0 + i = i
        BY <4>2
      <4>7. n - 0 = n /\ 0 <= n /\ n # 0
        BY <4>1, <4>2 DEF n
      <4>8. /\ \A i \in 1..(n - 0) : i \in 1..Len(w) /\ w[i] = <<"result", 0 + i>>
            /\ n - 0 + 1 \in 1..Len(w) => ~ Stream!IsResult(w[n - 0 + 1])
        BY <4>3, <4>4, <4>6, <4>7
      <4>9. results' = Answered(0) /\ Len(results') = 0 /\ transcript' = w
        BY <1>1, <2>2, <2>3, <4>5
      <4>10. /\ n # 0 /\ Len(results') <= n /\ results' = Answered(Len(results'))
             /\ \A i \in 1..(n - Len(results')) : i \in 1..Len(transcript') /\ transcript'[i] = <<"result", Len(results') + i>>
             /\ n - Len(results') + 1 \in 1..Len(transcript') => ~ Stream!IsResult(transcript'[n - Len(results') + 1])
        BY <4>7, <4>8, <4>9
      <4> QED
        BY <4>10 DEF n
    <3>4. ASSUME NEW k \in 1..Len(built'), built'[k][1][1] = "calls"
          PROVE  IF k < Len(built') THEN built'[k + 1] = Answered(built'[k][1][2]) ELSE Owing(built[k][1][2])'
      <4>1. CASE k = Len(built')
        <5>1. built'[k] = <<m>> /\ built'[k][1] = m /\ m[1] = "calls"
          BY <2>1, <3>1, <3>2, <3>4, <4>1
        <5>2. Owing(built[k][1][2])'
          BY <3>3, <5>1 DEF Owing, Stream!IsResult
        <5> QED
          BY <2>1, <3>2, <4>1, <5>2
      <4>2. CASE k # Len(built')
        <5>1. k \in 1..Len(f) /\ k < Len(built')
          BY <2>1, <3>2, <4>2
        <5>2. k < Len(f) /\ f[k + 1] = Answered(f[k][1][2])
          BY <2>1, <3>2, <3>4, <5>1
        <5>3. k + 1 \in 1..Len(f)
          BY <2>1, <5>1, <5>2
        <5> QED
          BY <3>2, <5>1, <5>2, <5>3
      <4> QED
        BY <4>1, <4>2
    <3> QED
      BY <2>3, <3>2, <3>4 DEF GroupedInv
  <2> QED
    BY <2>3, <2>4, <2>5
<1> QED
  BY <1>3, <1>4

\* Translating a message, and the last of them, keep the messages' invariant.
LEMMA TranslateSound ==
  ASSUME MessagesInv, Stream!Translate
  PROVE  MessagesInv'
<1>1. /\ streamStage = "building" /\ streamStage' = "building" /\ transcript # <<>>
      /\ Stream!Translated(Head(transcript)) /\ transcript' = Tail(transcript) /\ provider' = provider
  BY DEF Stream!Translate, Stream!chosen
<1>2. Tail(transcript) \in Seq(Stream!Messages) /\ Stream!Paired(Tail(transcript))
  BY <1>1, TailPaired DEF MessagesInv
<1>3. Stream!Paired(transcript)'
  BY <1>1, <1>2 DEF Stream!Paired, Stream!IsResult
<1>4. Stream!ResultsFollow'
  BY <1>1 DEF Stream!ResultsFollow
<1>5. CASE provider = "anthropic"
  <2>1. Stream!Group(Head(transcript))
    BY <1>1, <1>5 DEF Stream!Translated
  <2>2. built' \in Seq(Groups) /\ results' \in Seq(Stream!Messages) /\ GroupedInv'
    BY <1>1, <1>5, <2>1, GroupSound
  <2> QED
    BY <1>1, <1>2, <1>3, <1>4, <1>5, <2>2 DEF MessagesInv
<1>6. CASE provider # "anthropic"
  <2>1. /\ results' = results
        /\ (built' = built /\ Head(transcript)[1] = "control") \/ built' = Append(built, <<Head(transcript)>>)
    BY <1>1, <1>6 DEF Stream!Translated, Stream!Instruct, Stream!OneEach
  <2>2. built' \in Seq(Groups) /\ PlainInv'
    BY <1>1, <1>6, <2>1, PlainSound
  <2>3. results \in Seq(Stream!Messages)
    BY DEF MessagesInv
  <2> QED
    BY <1>1, <1>2, <1>3, <1>4, <1>6, <2>1, <2>2, <2>3 DEF MessagesInv
<1> QED
  BY <1>5, <1>6

LEMMA BuiltSound ==
  ASSUME MessagesInv, Stream!Built
  PROVE  MessagesInv'
<1>1. /\ streamStage = "building" /\ streamStage' = "built" /\ transcript = <<>> /\ transcript' = transcript
      /\ built' = Stream!Flushed /\ results' = <<>> /\ provider' = provider
  BY DEF Stream!Built, Stream!chosen
<1>2. /\ transcript' \in Seq(Stream!Messages) /\ Stream!Paired(transcript)' /\ results' \in Seq(Stream!Messages)
      /\ built \in Seq(Groups) /\ Len(built) \in Nat
  BY <1>1 DEF MessagesInv, Stream!Paired, Stream!IsResult
<1> DEFINE f == Stream!Flushed
<1>3. CASE provider = "anthropic"
  <2>1. /\ f \in Seq(Groups) /\ Len(f) \in Nat
        /\ \A k \in 1..Len(f) : f[k][1][1] = "calls" => k < Len(f) /\ f[k + 1] = Answered(f[k][1][2])
    <3>1. GroupedInv
      BY <1>1, <1>3 DEF MessagesInv
    <3> QED
      BY <1>1, <3>1, FlushedSound
  <2> HIDE DEF f
  <2>2. Stream!ResultsFollow'
    BY <1>1, <1>3, <2>1 DEF Stream!ResultsFollow, Answered, f
  <2> QED
    BY <1>1, <1>2, <2>1, <2>2 DEF MessagesInv, f
<1>4. CASE provider # "anthropic"
  <2>1. PlainInv
    BY <1>1, <1>4 DEF MessagesInv
  <2>2. f = built
    BY <2>1 DEF PlainInv, Stream!Flushed
  <2> HIDE DEF f
  <2>3. \A k \in 1..Len(built) : built[k][1][1] = "calls" =>
          \A i \in 1..built[k][1][2] : k + i <= Len(built) /\ built[k + i] = <<<<"result", i>>>>
    <3> TAKE k \in 1..Len(built)
    <3> HAVE built[k][1][1] = "calls"
    <3> TAKE i \in 1..built[k][1][2]
    <3>1. k + i - Len(built) \notin 1..Len(transcript)
      BY <1>1
    <3> QED
      BY <2>1, <3>1 DEF PlainInv
  <2>4. built' = built
    BY <1>1, <2>2 DEF f
  <2>5. Stream!ResultsFollow'
    BY <1>1, <1>2, <1>4, <2>3, <2>4 DEF Stream!ResultsFollow
  <2> QED
    BY <1>1, <1>2, <2>4, <2>5 DEF MessagesInv
<1> QED
  BY <1>3, <1>4

\* Every step keeps the messages' invariant.
LEMMA MessagesStep ==
  ASSUME MessagesInv, [Stream!Next]_streamVars
  PROVE  MessagesInv'
<1> USE StreamAssumption
<1>1. CASE UNCHANGED streamVars
  BY <1>1 DEF streamVars, MessagesInv, GroupedInv, Owing, PlainInv, Stream!ResultsFollow, Stream!Paired, Stream!IsResult
<1>2. CASE Stream!Begin
  <2>1. /\ streamStage = "idle" /\ streamStage' = "building" /\ transcript' \in Transcripts
        /\ built' = built /\ results' = results
    BY <1>2 DEF Stream!Begin
  <2>2. built = <<>> /\ results = <<>>
    BY <2>1 DEF MessagesInv
  <2>3. transcript' \in Seq(Stream!Messages) /\ Stream!Paired(transcript)'
    BY <2>1 DEF Stream!Paired, Stream!IsResult
  <2>4. Len(built') = 0 /\ Len(results') = 0 /\ built' \in Seq(Groups) /\ results' \in Seq(Stream!Messages)
    BY <2>1, <2>2
  <2> QED
    BY <2>1, <2>2, <2>3, <2>4 DEF MessagesInv, GroupedInv, PlainInv, Stream!ResultsFollow
<1>3. CASE Stream!Translate
  BY <1>3, TranslateSound
<1>4. CASE Stream!Built
  BY <1>4, BuiltSound
<1>5. CASE \/ Stream!CompactNatively \/ Stream!Open \/ Stream!ReceiveWhole \/ Stream!ReceiveText
           \/ Stream!ReceiveStart \/ Stream!ReceivePiece \/ Stream!ReceiveStop \/ Stream!ReceiveCall
           \/ Stream!ReceiveFinish \/ Stream!StreamCloses \/ Stream!Truncated \/ Stream!StreamFails
           \/ Stream!Retry \/ Stream!Close
  <2>1. /\ transcript' = transcript /\ results' = results /\ provider' = provider
        /\ built' = built \/ built' = <<>>
        /\ streamStage' \notin {"idle", "building", "built"}
    BY <1>5 DEF Stream!CompactNatively, Stream!Open, Stream!ReceiveWhole, Stream!ReceiveText,
      Stream!ReceiveStart, Stream!ReceivePiece, Stream!ReceiveStop, Stream!ReceiveCall, Stream!ReceiveFinish,
      Stream!StreamCloses, Stream!Truncated, Stream!StreamFails, Stream!Retry, Stream!Close, Stream!Receive,
      Stream!kept, Stream!chosen, Stream!GoesOn, Stream!Ends
  <2>2. built' \in Seq(Groups)
    <3>1. built \in Seq(Groups)
      BY DEF MessagesInv
    <3>2. CASE built' = built
      BY <3>1, <3>2
    <3>3. CASE built' = <<>>
      BY <3>3
    <3> QED
      BY <2>1, <3>2, <3>3
  <2> QED
    BY <2>1, <2>2 DEF MessagesInv, Stream!Paired, Stream!IsResult, Stream!ResultsFollow
<1> QED
  BY <1>1, <1>2, <1>3, <1>4, <1>5 DEF Stream!Next

-----------------------------------------------------------------------------
\* The calls handed on together, each with its pieces.
LEMMA ListedCalls ==
  ASSUME NEW calls \in SUBSET {1, 2}, NEW g, \A i \in calls : g[i] \in Nat
  PROVE  /\ Stream!Listed(calls, g) \in Seq(Handed) /\ Increasing(Stream!Listed(calls, g))
         /\ \A k \in 1..Len(Stream!Listed(calls, g)) : \E i \in calls : Stream!Listed(calls, g)[k] = <<i, g[i]>>
         /\ calls = {} => Stream!Listed(calls, g) = <<>>
<1> DEFINE o == Stream!InOrder(calls)
           s == Stream!Listed(calls, g)
<1>1. /\ o \in Seq({1, 2}) /\ Len(o) \in Nat /\ DOMAIN o = 1..Len(o)
      /\ \A k \in 1..Len(o) : o[k] \in calls
      /\ \A k, l \in 1..Len(o) : k < l => o[k] < o[l]
      /\ calls = {} => o = <<>>
  <2>1. calls = {} \/ calls = {1} \/ calls = {2} \/ calls = {1, 2}
    OBVIOUS
  <2>2. CASE calls = {}
    <3>1. o = <<>>
      BY <2>2 DEF Stream!InOrder
    <3> HIDE DEF o
    <3> QED
      BY <3>1
  <2>3. CASE calls = {1}
    <3>1. o = <<1>>
      BY <2>3 DEF Stream!InOrder
    <3> HIDE DEF o
    <3> QED
      BY <2>3, <3>1
  <2>4. CASE calls = {2}
    <3>1. o = <<2>>
      BY <2>4 DEF Stream!InOrder
    <3> HIDE DEF o
    <3> QED
      BY <2>4, <3>1
  <2>5. CASE calls = {1, 2}
    <3>1. o = <<1>> \o <<2>>
      BY <2>5 DEF Stream!InOrder
    <3> HIDE DEF o
    <3>2. o \in Seq({1, 2}) /\ Len(o) = 2 /\ o[1] = 1 /\ o[2] = 2
      <4>1. <<1>> \in Seq({1, 2}) /\ <<2>> \in Seq({1, 2}) /\ Len(<<1>>) = 1 /\ Len(<<2>>) = 1
        OBVIOUS
      <4> QED
        BY <3>1, <4>1
    <3> QED
      BY <2>5, <3>2
  <2> QED
    BY <2>1, <2>2, <2>3, <2>4, <2>5
<1>2. s = [k \in 1..Len(o) |-> <<o[k], g[o[k]]>>]
  BY <1>1 DEF Stream!Listed
<1> HIDE DEF o
<1>3. \A k \in 1..Len(o) : <<o[k], g[o[k]]>> \in Handed
  BY <1>1 DEF Handed
<1> HIDE DEF s
<1>4. s \in Seq(Handed) /\ Len(s) = Len(o) /\ \A k \in 1..Len(s) : s[k] = <<o[k], g[o[k]]>>
  BY <1>1, <1>2, <1>3
<1>5. Increasing(s)
  BY <1>1, <1>4 DEF Increasing
<1>6. \A k \in 1..Len(s) : \E i \in calls : s[k] = <<i, g[i]>>
  BY <1>1, <1>4
<1>7. calls = {} => s = <<>>
  BY <1>1, <1>4, EmptySeq
<1> QED
  BY <1>4, <1>5, <1>6, <1>7 DEF s

\* Calls handed on behind those handed on before.
LEMMA HandedBehind ==
  ASSUME NEW h \in Seq(Handed), Increasing(h), NEW s \in Seq(Handed), Increasing(s),
         \A i \in 1..Len(h), j \in 1..Len(s) : h[i][1] < s[j][1]
  PROVE  /\ h \o s \in Seq(Handed) /\ Increasing(h \o s)
         /\ \A k \in 1..Len(h \o s) : (\E i \in 1..Len(h) : (h \o s)[k] = h[i]) \/ \E j \in 1..Len(s) : (h \o s)[k] = s[j]
<1> DEFINE t == h \o s
<1>1. /\ t \in Seq(Handed) /\ Len(t) = Len(h) + Len(s) /\ Len(h) \in Nat /\ Len(s) \in Nat
      /\ \A i \in 1..Len(t) : t[i] = IF i <= Len(h) THEN h[i] ELSE s[i - Len(h)]
  OBVIOUS
<1> HIDE DEF t
<1>2. ASSUME NEW i \in 1..Len(t), NEW j \in 1..Len(t), i < j PROVE t[i][1] < t[j][1]
  <2>1. CASE j <= Len(h)
    <3>1. i \in 1..Len(h) /\ j \in 1..Len(h) /\ t[i] = h[i] /\ t[j] = h[j]
      BY <1>1, <1>2, <2>1
    <3> QED
      BY <1>2, <3>1 DEF Increasing
  <2>2. CASE i <= Len(h) /\ j > Len(h)
    <3>1. i \in 1..Len(h) /\ j - Len(h) \in 1..Len(s) /\ t[i] = h[i] /\ t[j] = s[j - Len(h)]
      BY <1>1, <1>2, <2>2
    <3> QED
      BY <3>1
  <2>3. CASE i > Len(h)
    <3>1. /\ i - Len(h) \in 1..Len(s) /\ j - Len(h) \in 1..Len(s) /\ i - Len(h) < j - Len(h)
          /\ t[i] = s[i - Len(h)] /\ t[j] = s[j - Len(h)]
      BY <1>1, <1>2, <2>3
    <3> QED
      BY <3>1 DEF Increasing
  <2> QED
    BY <1>1, <1>2, <2>1, <2>2, <2>3
<1>3. ASSUME NEW k \in 1..Len(t)
      PROVE  (\E i \in 1..Len(h) : t[k] = h[i]) \/ \E j \in 1..Len(s) : t[k] = s[j]
  <2>1. k \in 1..Len(h) \/ k - Len(h) \in 1..Len(s)
    BY <1>1
  <2> QED
    BY <1>1, <2>1
<1> QED
  BY <1>1, <1>2, <1>3 DEF t, Increasing

\* Handing on calls that begin behind those handed on before.
LEMMA HandOnSound ==
  ASSUME HandedInv, PendingInv, NEW calls \in SUBSET Stream!Begun, Stream!HandOn(calls), provider' = provider,
         \A i \in 1..Len(handed), c \in calls : handed[i][1] < c,
         provider \in {"openai", "gemini"} => \A c \in calls : streamPending[c] \in {0, Pieces}
  PROVE  /\ HandedInv'
         /\ \A k \in 1..Len(handed') : (\E i \in 1..Len(handed) : handed'[k] = handed[i]) \/ handed'[k][1] \in calls
         /\ calls = {} => handed' = handed
<1> USE StreamAssumption
<1> DEFINE s == Stream!Listed(calls, streamPending)
<1>1. /\ handed \in Seq(Handed) /\ Increasing(handed) /\ Len(handed) \in Nat
      /\ provider \in {"openai", "gemini"} => \A i \in 1..Len(handed) : handed[i][2] \in {0, Pieces}
  BY DEF HandedInv
<1>2. calls \subseteq {1, 2} /\ \A c \in calls : streamPending[c] \in Nat
  BY DEF PendingInv
<1>3. /\ s \in Seq(Handed) /\ Increasing(s)
      /\ \A k \in 1..Len(s) : \E c \in calls : s[k] = <<c, streamPending[c]>>
      /\ calls = {} => s = <<>>
  BY <1>2, ListedCalls
<1>4. handed' = handed \o s
  BY DEF Stream!HandOn
<1> HIDE DEF s
<1>5. \A i \in 1..Len(handed), j \in 1..Len(s) : handed[i][1] < s[j][1]
  BY <1>3
<1>6. /\ handed' \in Seq(Handed) /\ Increasing(handed')
      /\ \A k \in 1..Len(handed') : (\E i \in 1..Len(handed) : handed'[k] = handed[i]) \/ \E j \in 1..Len(s) : handed'[k] = s[j]
  BY <1>1, <1>3, <1>4, <1>5, HandedBehind
<1>7. ASSUME provider \in {"openai", "gemini"}, NEW k \in 1..Len(handed') PROVE handed'[k][2] \in {0, Pieces}
  <2>1. \A j \in 1..Len(s) : s[j][2] \in {0, Pieces}
    BY <1>3, <1>7
  <2> QED
    BY <1>1, <1>6, <1>7, <2>1
<1>8. \A k \in 1..Len(handed') : (\E i \in 1..Len(handed) : handed'[k] = handed[i]) \/ handed'[k][1] \in calls
  BY <1>3, <1>6
<1>9. calls = {} => handed' = handed
  BY <1>1, <1>3, <1>4
<1> QED
  BY <1>6, <1>7, <1>8, <1>9 DEF HandedInv, Increasing

\* The end of OpenAI's calls: all that are begun, or none.
LEMMA FinalizeSound ==
  ASSUME HandedInv, PendingInv, Stream!Finalize, provider' = provider,
         handed = <<>> \/ Stream!Begun = {}
  PROVE  HandedInv' /\ PendingInv' /\ (~ Stream!Malformed => Stream!Begun' = {})
<1> USE StreamAssumption
<1>1. CASE Stream!Malformed
  BY <1>1 DEF Stream!Finalize, HandedInv, PendingInv, Stream!Begun, Increasing
<1>2. CASE ~ Stream!Malformed
  <2>1. Stream!HandOn(Stream!Begun) /\ streamPending' = Stream!NoCalls
    BY <1>2 DEF Stream!Finalize
  <2>2. \A i \in 1..Len(handed), c \in Stream!Begun : handed[i][1] < c
    OBVIOUS
  <2>3. \A c \in Stream!Begun : streamPending[c] \in {0, Pieces}
    BY <1>2 DEF Stream!Malformed, Stream!Partial, PendingInv
  <2>4. HandedInv'
    BY <2>1, <2>2, <2>3, HandOnSound
  <2>5. PendingInv' /\ Stream!Begun' = {}
    BY <2>1 DEF PendingInv, Stream!Begun, Stream!NoCalls
  <2> QED
    BY <2>4, <2>5
<1> QED
  BY <1>1, <1>2

\* What arrives is a chunk of the provider's, before all that is still to come.
LEMMA ArrivedSound ==
  ASSUME OpenInv, Stream!Receive
  PROVE  /\ ChunkOf(provider, Head(wire)) /\ LineOf(provider, Tail(wire))
         /\ Head(wire) \in Range(wire) /\ Range(Tail(wire)) \subseteq Range(wire)
         /\ \A y \in Range(Tail(wire)) : ChunkBefore(Head(wire), y)
         /\ \A y \in Range(wire) : ChunkOf(provider, y)
         /\ provider # "openai" \/ handed = <<>>
<1>1. LineOf(provider, wire) /\ wire # <<>>
  BY DEF OpenInv, Stream!Receive
<1>2. /\ LineOf(provider, Tail(wire)) /\ ChunkOf(provider, Head(wire))
      /\ Range(wire) = {Head(wire)} \cup Range(Tail(wire))
      /\ \A y \in Range(Tail(wire)) : ChunkBefore(Head(wire), y)
  BY <1>1, LinesGoOn
<1>3. \A y \in Range(wire) : ChunkOf(provider, y)
  BY <1>1 DEF LineOf
<1>4. provider # "openai" \/ handed = <<>>
  BY <1>1 DEF OpenInv
<1> QED
  BY <1>2, <1>3, <1>4

\* A chunk goes by that leaves the calls alone.
LEMMA PassingSound ==
  ASSUME AnswerInv, streamStage = "open", Stream!Receive, Stream!GoesOn,
         UNCHANGED <<provider, handed, streamPending, streamAttempt>>, streamShown' \subseteq {streamAttempt}
  PROVE  AnswerInv'
<1>1. OpenInv
  BY DEF AnswerInv
<1>2. LineOf(provider, Tail(wire)) /\ Range(Tail(wire)) \subseteq Range(wire) /\ wire # <<>>
  BY <1>1, ArrivedSound DEF Stream!Receive
<1>3. wire' = Tail(wire)
  BY DEF Stream!GoesOn
<1>4. OpenInv'
  <2> DEFINE w == Tail(wire)
  <2>1. provider # "openai" \/ handed = <<>>
    BY <1>1, <1>2 DEF OpenInv
  <2>2. \A x \in Range(w) : x.kind = "piece" /\ x.slot \in Stream!Begun => streamPending[x.slot] < x.piece
    BY <1>1, <1>2 DEF OpenInv
  <2>3. provider # "openai" => \A i \in 1..Len(handed), x \in Range(w) : x.kind \in CallKinds => handed[i][1] < x.slot
    BY <1>1, <1>2 DEF OpenInv
  <2>4. wire' = w /\ LineOf(provider, w)
    BY <1>2, <1>3
  <2> HIDE DEF w
  <2> QED
    BY <2>1, <2>2, <2>3, <2>4 DEF OpenInv, Stream!Begun, Range
<1> QED
  BY <1>4 DEF AnswerInv, HandedInv, PendingInv, Stream!Begun, Increasing

\* A call begins.
LEMMA StartSound ==
  ASSUME AnswerInv, Stream!ReceiveStart
  PROVE  AnswerInv'
<1> USE StreamAssumption
<1> DEFINE h == Head(wire)
<1>1. /\ OpenInv /\ Stream!Receive /\ streamStage = "open" /\ h.kind = "start"
      /\ streamPending' = [i \in Stream!Begun \cup {h.slot} |-> IF i = h.slot THEN 0 ELSE streamPending[i]]
      /\ wire' = Tail(wire) /\ streamStage' = streamStage
      /\ streamShown' = streamShown \cup {streamAttempt} /\ handed' = handed /\ provider' = provider
      /\ streamAttempt' = streamAttempt
  BY DEF Stream!ReceiveStart, Stream!Receive, AnswerInv, Stream!Arrived, Stream!Slot, Stream!GoesOn, Stream!kept,
    Stream!chosen
<1>2. /\ ChunkOf(provider, h) /\ LineOf(provider, Tail(wire)) /\ Range(Tail(wire)) \subseteq Range(wire)
      /\ \A y \in Range(wire) : ChunkOf(provider, y)
      /\ provider # "openai" \/ handed = <<>>
  BY <1>1, ArrivedSound
<1>3. h.slot \in {1, 2}
  BY <1>1, <1>2 DEF ChunkOf, ChunkType, CallKinds
<1>4. PendingInv'
  BY <1>1, <1>3 DEF AnswerInv, PendingInv, Stream!Begun
<1>5. \A x \in Range(Tail(wire)) : x.kind = "piece" /\ x.slot \in Stream!Begun' => streamPending'[x.slot] < x.piece
  <2> TAKE x \in Range(Tail(wire))
  <2> HAVE x.kind = "piece" /\ x.slot \in Stream!Begun'
  <2>1. x.piece \in 1..Pieces /\ x \in Range(wire)
    BY <1>2 DEF ChunkOf
  <2>2. Stream!Begun' = Stream!Begun \cup {h.slot}
    BY <1>1 DEF Stream!Begun
  <2> QED
    BY <1>1, <2>1, <2>2 DEF OpenInv
<1>6. OpenInv'
  <2>1. provider = "openai" => handed' = <<>>
    BY <1>1, <1>2
  <2>2. \A i \in 1..Len(handed), x \in Range(Tail(wire)) : provider # "openai" /\ x.kind \in CallKinds => handed[i][1] < x.slot
    BY <1>1, <1>2 DEF OpenInv
  <2> HIDE DEF h
  <2> QED
    BY <1>1, <1>2, <1>5, <2>1, <2>2 DEF OpenInv, Range
<1> QED
  BY <1>1, <1>4, <1>6 DEF AnswerInv, HandedInv, Increasing

\* A piece of a call: those behind it are later ones.
LEMMA PieceSound ==
  ASSUME AnswerInv, Stream!ReceivePiece
  PROVE  AnswerInv'
<1> USE StreamAssumption
<1> DEFINE h == Head(wire)
<1>1. /\ OpenInv /\ Stream!Receive /\ streamStage = "open" /\ h.kind = "piece"
      /\ streamPending' = [streamPending EXCEPT ![h.slot] = @ + 1]
      /\ wire' = Tail(wire) /\ streamStage' = streamStage
      /\ streamShown' = streamShown /\ handed' = handed /\ provider' = provider
      /\ streamAttempt' = streamAttempt
  BY DEF Stream!ReceivePiece, Stream!Receive, AnswerInv, Stream!Arrived, Stream!Slot, Stream!GoesOn, Stream!kept,
    Stream!chosen
<1>2. /\ ChunkOf(provider, h) /\ LineOf(provider, Tail(wire)) /\ Range(Tail(wire)) \subseteq Range(wire)
      /\ h \in Range(wire) /\ \A y \in Range(wire) : ChunkOf(provider, y)
      /\ \A y \in Range(Tail(wire)) : ChunkBefore(h, y)
      /\ provider # "openai" \/ handed = <<>>
  BY <1>1, ArrivedSound
<1>3. /\ h.piece \in 1..Pieces
      /\ \A i \in Stream!Begun : streamPending[i] \in 0..Pieces
      /\ h.slot \in Stream!Begun => streamPending[h.slot] < h.piece
  BY <1>1, <1>2 DEF ChunkOf, OpenInv, AnswerInv, PendingInv
<1> HIDE DEF h
<1>4. /\ Stream!Begun' = Stream!Begun
      /\ \A i \in Stream!Begun : streamPending'[i] = IF i = h.slot THEN streamPending[i] + 1 ELSE streamPending[i]
  BY <1>1 DEF Stream!Begun
<1>5. PendingInv'
  <2>1. \A i \in Stream!Begun : streamPending'[i] \in 0..Pieces
    BY <1>3, <1>4
  <2>2. streamPending' = [i \in DOMAIN streamPending' |-> streamPending'[i]]
    BY <1>1
  <2> QED
    BY <1>4, <2>1, <2>2 DEF AnswerInv, PendingInv, Stream!Begun
<1>6. \A x \in Range(Tail(wire)) : x.kind = "piece" /\ x.slot \in Stream!Begun' => streamPending'[x.slot] < x.piece
  <2> TAKE x \in Range(Tail(wire))
  <2> HAVE x.kind = "piece" /\ x.slot \in Stream!Begun'
  <2>1. x.piece \in 1..Pieces /\ x \in Range(wire) /\ streamPending[x.slot] < x.piece
    BY <1>1, <1>2, <1>4 DEF ChunkOf, OpenInv
  <2>2. CASE x.slot = h.slot
    <3>1. h.piece < x.piece
      BY <1>1, <1>2, <2>2 DEF ChunkBefore
    <3> QED
      BY <1>3, <1>4, <2>1, <2>2, <3>1
  <2>3. CASE x.slot # h.slot
    BY <1>4, <2>1, <2>3
  <2> QED
    BY <2>2, <2>3
<1>7. OpenInv'
  <2>1. provider = "openai" => handed' = <<>>
    BY <1>1, <1>2
  <2> QED
    BY <1>1, <1>2, <1>6, <2>1 DEF OpenInv, Range
<1> QED
  BY <1>1, <1>5, <1>7 DEF AnswerInv, HandedInv, Increasing

\* The end of a call of Anthropic's, which hands it on.
LEMMA StopSound ==
  ASSUME AnswerInv, Stream!ReceiveStop
  PROVE  AnswerInv'
<1> USE StreamAssumption
<1> DEFINE h == Head(wire)
           calls == Stream!Begun \cap {h.slot}
<1>1. /\ OpenInv /\ Stream!Receive /\ streamStage = "open" /\ h.kind = "stop"
      /\ streamPending' = [i \in Stream!Begun \ {h.slot} |-> streamPending[i]]
      /\ streamShown' = streamShown /\ provider' = provider /\ streamAttempt' = streamAttempt
      /\ \/ Stream!HandOn(calls) /\ wire' = Tail(wire) /\ streamStage' = streamStage
         \/ handed' = handed /\ streamStage' = "ended"
  BY DEF Stream!ReceiveStop, Stream!Receive, AnswerInv, Stream!Arrived, Stream!Slot, Stream!GoesOn, Stream!Ends,
    Stream!kept, Stream!chosen
<1>2. /\ ChunkOf(provider, h) /\ LineOf(provider, Tail(wire)) /\ Range(Tail(wire)) \subseteq Range(wire)
      /\ h \in Range(wire) /\ \A y \in Range(Tail(wire)) : ChunkBefore(h, y)
  BY <1>1, ArrivedSound
<1>3. provider = "anthropic"
  BY <1>1, <1>2 DEF ChunkOf
<1>4. h.kind \in CallKinds /\ \A i \in 1..Len(handed) : handed[i][1] < h.slot
  BY <1>1, <1>2, <1>3 DEF OpenInv, CallKinds
<1> HIDE DEF h
<1>5. PendingInv'
  BY <1>1 DEF AnswerInv, PendingInv, Stream!Begun
<1>6. CASE Stream!HandOn(calls) /\ wire' = Tail(wire) /\ streamStage' = streamStage
  <2>1. HandedInv /\ PendingInv /\ calls \in SUBSET Stream!Begun /\ handed \in Seq(Handed)
    BY DEF AnswerInv, HandedInv
  <2>2. \A i \in 1..Len(handed), c \in calls : handed[i][1] < c
    BY <1>4
  <2> HIDE DEF calls
  <2>3. /\ HandedInv'
        /\ \A k \in 1..Len(handed') : (\E i \in 1..Len(handed) : handed'[k] = handed[i]) \/ handed'[k][1] \in calls
    BY <1>1, <1>3, <1>6, <2>1, <2>2, HandOnSound
  <2>4. ASSUME NEW k \in 1..Len(handed'), NEW x \in Range(Tail(wire)), x.kind \in CallKinds
        PROVE  handed'[k][1] < x.slot
    <3>1. h.slot < x.slot
      BY <1>1, <1>2, <1>4, <2>4 DEF ChunkBefore
    <3>2. CASE handed'[k][1] \in calls
      BY <3>1, <3>2 DEF calls
    <3>3. CASE \E i \in 1..Len(handed) : handed'[k] = handed[i]
      BY <1>2, <1>3, <1>1, <2>4, <3>3 DEF OpenInv
    <3> QED
      BY <2>3, <3>2, <3>3
  <2>5. \A x \in Range(Tail(wire)) : x.kind = "piece" /\ x.slot \in Stream!Begun' => streamPending'[x.slot] < x.piece
    BY <1>1, <1>2 DEF OpenInv, Stream!Begun
  <2>6. OpenInv'
    BY <1>1, <1>2, <1>3, <1>6, <2>4, <2>5 DEF OpenInv, Range
  <2> QED
    BY <1>1, <1>5, <2>3, <2>6 DEF AnswerInv
<1>7. CASE handed' = handed /\ streamStage' = "ended"
  BY <1>1, <1>5, <1>7 DEF AnswerInv, HandedInv, Increasing
<1> QED
  BY <1>1, <1>6, <1>7

\* A whole call of Gemini's.
LEMMA CallSound ==
  ASSUME AnswerInv, Stream!ReceiveCall
  PROVE  AnswerInv'
<1> USE StreamAssumption
<1> DEFINE h == Head(wire)
           c == <<h.slot, Pieces>>
<1>1. /\ OpenInv /\ Stream!Receive /\ streamStage = "open" /\ h.kind = "call"
      /\ handed' = Append(handed, c) /\ streamPending' = streamPending
      /\ streamShown' = streamShown \cup {streamAttempt} /\ provider' = provider /\ streamAttempt' = streamAttempt
      /\ wire' = Tail(wire) /\ streamStage' = streamStage
  BY DEF Stream!ReceiveCall, Stream!Receive, AnswerInv, Stream!Arrived, Stream!Slot, Stream!GoesOn,
    Stream!kept, Stream!chosen
<1>2. /\ ChunkOf(provider, h) /\ LineOf(provider, Tail(wire)) /\ Range(Tail(wire)) \subseteq Range(wire)
      /\ h \in Range(wire) /\ \A y \in Range(Tail(wire)) : ChunkBefore(h, y)
  BY <1>1, ArrivedSound
<1>3. provider = "gemini" /\ h.slot \in {1, 2} /\ h.kind \in CallKinds
  BY <1>1, <1>2 DEF ChunkOf, ChunkType, CallKinds
<1>4. \A i \in 1..Len(handed) : handed[i][1] < h.slot
  BY <1>1, <1>2, <1>3 DEF OpenInv
<1>5. c \in Handed /\ c[1] = h.slot /\ c[2] = Pieces /\ handed \in Seq(Handed) /\ Increasing(handed)
  BY <1>3 DEF Handed, AnswerInv, HandedInv
<1> HIDE DEF c, h
<1>6. /\ handed' \in Seq(Handed) /\ Len(handed') = Len(handed) + 1 /\ Len(handed) \in Nat
      /\ handed'[Len(handed) + 1] = c /\ \A k \in 1..Len(handed) : handed'[k] = handed[k]
  BY <1>1, <1>5, AppendProperties
<1>7. \A k \in 1..Len(handed') : k \in 1..Len(handed) \/ k = Len(handed) + 1
  BY <1>6
<1>8. Increasing(handed')
  <2> SUFFICES ASSUME NEW i \in 1..Len(handed'), NEW j \in 1..Len(handed'), i < j PROVE handed'[i][1] < handed'[j][1]
    BY DEF Increasing
  <2>1. i \in 1..Len(handed)
    BY <1>6
  <2>2. CASE j \in 1..Len(handed)
    BY <1>5, <1>6, <2>1, <2>2 DEF Increasing
  <2>3. CASE j = Len(handed) + 1
    BY <1>4, <1>5, <1>6, <2>1, <2>3
  <2> QED
    BY <1>7, <2>2, <2>3
<1>9. \A k \in 1..Len(handed') : handed'[k][2] \in {0, Pieces}
  <2>1. \A k \in 1..Len(handed) : handed[k][2] \in {0, Pieces}
    BY <1>3 DEF AnswerInv, HandedInv
  <2> QED
    BY <1>5, <1>6, <1>7, <2>1
<1>10. HandedInv'
  BY <1>6, <1>8, <1>9 DEF HandedInv, Increasing
<1>11. ASSUME NEW k \in 1..Len(handed'), NEW x \in Range(Tail(wire)), x.kind \in CallKinds
       PROVE  handed'[k][1] < x.slot
  <2>1. CASE k = Len(handed) + 1
    BY <1>1, <1>2, <1>3, <1>5, <1>6, <1>11, <2>1 DEF ChunkBefore
  <2>2. CASE k \in 1..Len(handed)
    BY <1>1, <1>2, <1>3, <1>6, <1>11, <2>2 DEF OpenInv
  <2> QED
    BY <1>7, <2>1, <2>2
<1>12. OpenInv'
  <2>1. \A x \in Range(Tail(wire)) : x.kind = "piece" /\ x.slot \in Stream!Begun' => streamPending'[x.slot] < x.piece
    BY <1>1, <1>2 DEF OpenInv, Stream!Begun
  <2> QED
    BY <1>1, <1>2, <1>3, <1>11, <2>1 DEF OpenInv, Range
<1> QED
  BY <1>1, <1>10, <1>12 DEF AnswerInv, PendingInv, Stream!Begun

\* The finish, behind which nothing comes.
LEMMA FinishSound ==
  ASSUME AnswerInv, Stream!ReceiveFinish
  PROVE  AnswerInv'
<1> DEFINE h == Head(wire)
<1>1. /\ OpenInv /\ Stream!Receive /\ streamStage = "open" /\ h.kind \in {"finish", "limit"}
      /\ streamShown' = streamShown /\ provider' = provider /\ streamAttempt' = streamAttempt
      /\ streamShown \subseteq {streamAttempt} /\ HandedInv /\ PendingInv /\ streamAttempt \in Nat
  BY DEF Stream!ReceiveFinish, Stream!Receive, AnswerInv, Stream!Arrived, Stream!kept, Stream!chosen
<1>2. /\ LineOf(provider, Tail(wire)) /\ \A y \in Range(Tail(wire)) : ChunkBefore(h, y)
      /\ provider # "openai" \/ handed = <<>>
  BY <1>1, ArrivedSound
<1>3. CASE provider = "openai" /\ h.kind = "finish"
  <2>1. /\ Stream!Finalize
        /\ \/ Stream!Malformed /\ streamStage' = "ended"
           \/ ~ Stream!Malformed /\ wire' = Tail(wire) /\ streamStage' = streamStage
    BY <1>3 DEF Stream!ReceiveFinish, Stream!Arrived, Stream!GoesOn, Stream!Ends
  <2>2. HandedInv' /\ PendingInv' /\ (~ Stream!Malformed => Stream!Begun' = {})
    BY <1>1, <1>2, <1>3, <2>1, FinalizeSound
  <2>3. Tail(wire) = <<>>
    <3>1. Range(Tail(wire)) = {}
      BY <1>1, <1>2 DEF ChunkBefore
    <3> DEFINE t == Tail(wire)
    <3>2. t \in Seq(ChunkType) /\ Range(t) = {}
      BY <1>2, <3>1 DEF LineOf
    <3> HIDE DEF t
    <3>3. t = <<>>
      BY <3>2, HeadTailElements
    <3> QED
      BY <3>3 DEF t
  <2>4. CASE streamStage' = "ended"
    BY <1>1, <2>2, <2>4 DEF AnswerInv
  <2>5. CASE ~ Stream!Malformed /\ wire' = Tail(wire)
    <3>1. wire' = <<>> /\ Range(wire') = {} /\ Stream!Begun' = {}
      BY <2>2, <2>3, <2>5, EmptyElements
    <3>2. OpenInv'
      BY <1>1, <1>2, <1>3, <2>3, <3>1 DEF OpenInv, Range
    <3> QED
      BY <1>1, <2>2, <3>2 DEF AnswerInv
  <2> QED
    BY <2>1, <2>4, <2>5
<1>4. CASE ~ (provider = "openai" /\ h.kind = "finish")
  <2>1. Stream!GoesOn /\ handed' = handed /\ streamPending' = streamPending
    BY <1>4 DEF Stream!ReceiveFinish, Stream!Arrived
  <2> QED
    BY <1>1, <2>1, PassingSound
<1> QED
  BY <1>3, <1>4

\* The end of a stream, wherever it comes.
LEMMA EndSound ==
  ASSUME AnswerInv, Stream!StreamCloses \/ Stream!Truncated \/ Stream!StreamFails
  PROVE  AnswerInv'
<1>1. /\ OpenInv /\ HandedInv /\ PendingInv /\ streamShown \subseteq {streamAttempt} /\ streamAttempt \in Nat
      /\ streamShown' = streamShown /\ provider' = provider /\ streamAttempt' = streamAttempt
      /\ streamStage' = "ended"
      /\ (provider = "openai" /\ Stream!Finalize) \/ (handed' = handed /\ streamPending' = streamPending)
  BY DEF Stream!StreamCloses, Stream!Truncated, Stream!StreamFails, Stream!Receive, Stream!Ends, AnswerInv,
    Stream!kept, Stream!chosen
<1>2. HandedInv' /\ PendingInv'
  <2>1. CASE provider = "openai" /\ Stream!Finalize
    <3>1. handed = <<>> \/ Stream!Begun = {}
      BY <1>1, <2>1 DEF OpenInv
    <3> QED
      BY <1>1, <2>1, <3>1, FinalizeSound
  <2>2. CASE handed' = handed /\ streamPending' = streamPending
    BY <1>1, <2>2 DEF HandedInv, PendingInv, Stream!Begun, Increasing
  <2> QED
    BY <1>1, <2>1, <2>2
<1> QED
  BY <1>1, <1>2 DEF AnswerInv

\* An answer that comes whole.
LEMMA WholeSound ==
  ASSUME AnswerInv, Stream!ReceiveWhole
  PROVE  AnswerInv'
<1> DEFINE count(kind, i) == Stream!Cardinality({k \in DOMAIN wire : wire[k].kind = kind /\ wire[k].slot = i})
           calls == {i \in {1, 2} : count("start", i) > 0}
           g == [i \in calls |-> count("piece", i)]
<1>1. /\ OpenInv /\ HandedInv /\ PendingInv /\ streamShown \subseteq {streamAttempt} /\ streamAttempt \in Nat
      /\ provider = "whole" /\ provider' = provider /\ streamAttempt' = streamAttempt
      /\ streamStage' = "ended" /\ streamPending' = streamPending
      /\ streamShown' \subseteq streamShown \cup {streamAttempt}
      /\ handed' = Stream!Listed(calls, g)
  BY DEF Stream!ReceiveWhole, Stream!Ends, AnswerInv, Stream!kept, Stream!chosen
<1>2. \A i \in calls : g[i] \in Nat
  <2> TAKE i \in calls
  <2>1. DOMAIN wire = 1..Len(wire) /\ Len(wire) \in Nat
    BY <1>1 DEF OpenInv, LineOf
  <2> DEFINE pieces == {k \in DOMAIN wire : wire[k].kind = "piece" /\ wire[k].slot = i}
  <2>2. IsFiniteSet(1..Len(wire))
    BY <2>1, FS_Interval
  <2>3. pieces \subseteq 1..Len(wire)
    BY <2>1
  <2>4. Cardinality(pieces) \in Nat
    BY <2>2, <2>3, FS_Subset, FS_CardinalityType
  <2>5. Stream!Cardinality(pieces) = Cardinality(pieces)
    BY DEF Stream!Cardinality, Cardinality
  <2> QED
    BY <2>4, <2>5
<1>3. calls \in SUBSET {1, 2}
  OBVIOUS
<1> HIDE DEF g, calls
<1>4. handed' \in Seq(Handed) /\ Increasing(handed')
  BY <1>1, <1>2, <1>3, ListedCalls
<1>5. HandedInv'
  BY <1>1, <1>4 DEF HandedInv, Increasing
<1>6. PendingInv'
  BY <1>1 DEF PendingInv, Stream!Begun
<1> QED
  BY <1>1, <1>5, <1>6 DEF AnswerInv

\* A request: nothing of its answer has arrived.
LEMMA RequestSound ==
  ASSUME AnswerInv, Stream!Open
  PROVE  AnswerInv'
<1>1. /\ handed' = <<>> /\ streamPending' = Stream!NoCalls /\ provider' = provider
      /\ streamAttempt' = streamAttempt /\ streamShown' = streamShown
      /\ streamStage' = "ended" \/
         \E says \in BOOLEAN, n \in 0..2, sent \in 0..Pieces : wire' = Stream!Answer(provider, says, n, sent)
  BY DEF Stream!Open, Stream!kept, Stream!chosen
<1>2. HandedInv'
  BY <1>1 DEF HandedInv, Increasing
<1>3. PendingInv' /\ Stream!Begun' = {}
  BY <1>1 DEF PendingInv, Stream!Begun, Stream!NoCalls
<1>4. CASE \E says \in BOOLEAN, n \in 0..2, sent \in 0..Pieces : wire' = Stream!Answer(provider, says, n, sent)
  <2>1. LineOf(provider, wire')
    BY <1>4, AnswerInLine
  <2>2. Len(handed') = 0
    BY <1>1
  <2> QED
    BY <1>1, <1>2, <1>3, <2>1, <2>2 DEF AnswerInv, OpenInv
<1>5. CASE streamStage' = "ended"
  BY <1>1, <1>2, <1>3, <1>5 DEF AnswerInv
<1> QED
  BY <1>1, <1>4, <1>5

\* Every step keeps the answer's invariant.
LEMMA AnswerStep ==
  ASSUME AnswerInv, [Stream!Next]_streamVars
  PROVE  AnswerInv'
<1>1. CASE UNCHANGED streamVars
  BY <1>1 DEF streamVars, AnswerInv, HandedInv, PendingInv, OpenInv, Stream!Begun, Increasing, Range
<1>2. CASE Stream!Begin \/ Stream!Translate \/ Stream!Built \/ Stream!CompactNatively \/ Stream!Retry \/ Stream!Close
  <2>1. /\ handed' = handed /\ streamPending' = streamPending /\ provider' = provider
        /\ streamStage' # "open" /\ streamShown' = streamShown
        /\ streamAttempt' = streamAttempt \/ (streamAttempt' = streamAttempt + 1 /\ streamAttempt \notin streamShown)
    BY <1>2 DEF Stream!Begin, Stream!Translate, Stream!Built, Stream!CompactNatively, Stream!Retry, Stream!Close,
      Stream!Retries, Stream!kept, Stream!chosen
  <2> QED
    BY <2>1 DEF AnswerInv, HandedInv, PendingInv, Stream!Begun, Increasing
<1>3. CASE Stream!ReceiveText
  <2>1. /\ Stream!Receive /\ streamStage = "open" /\ Stream!GoesOn
        /\ UNCHANGED <<provider, handed, streamPending, streamAttempt>>
        /\ streamShown' = streamShown \cup {streamAttempt}
    BY <1>3 DEF Stream!ReceiveText, Stream!Receive, Stream!kept, Stream!chosen
  <2> QED
    BY <2>1, PassingSound DEF AnswerInv
<1> QED
  BY <1>1, <1>2, <1>3, RequestSound, WholeSound, StartSound, PieceSound, StopSound, CallSound, FinishSound, EndSound
  DEF Stream!Next

\* At the beginning both hold.
LEMMA StreamInitially ==
  ASSUME Stream!Init
  PROVE  StreamInv
<1>1. MessagesInv
  BY DEF Stream!Init, MessagesInv, Stream!Paired, Stream!ResultsFollow
<1>2. AnswerInv
  BY DEF Stream!Init, AnswerInv, HandedInv, PendingInv, Increasing, Stream!Begun, Stream!NoCalls
<1> QED
  BY <1>1, <1>2 DEF StreamInv

\* The invariant gives the promise.
LEMMA StreamPromise ==
  ASSUME StreamInv
  PROVE  Stream!AnswersAreTakenWhole
<1>1. Stream!CallsAreWhole
  <2>1. HandedInv /\ DOMAIN handed = 1..Len(handed)
    BY DEF StreamInv, AnswerInv, HandedInv
  <2> QED
    BY <2>1 DEF Stream!CallsAreWhole, HandedInv, Increasing
<1>2. Stream!ShownOnce
  BY DEF StreamInv, AnswerInv, Stream!ShownOnce
<1>3. Stream!ResultsFollow
  BY DEF StreamInv, MessagesInv
<1> QED
  BY <1>1, <1>2, <1>3 DEF Stream!AnswersAreTakenWhole

\* However an answer of a model is cut or ends, each call of it runs at most once and with all
\* its arguments, the user sees one answer of a turn, and in what is sent the results of an
\* assistant's calls are what follows it.
THEOREM AnswersStayWhole == Spec => []AnswersAreTakenWhole
<1> DEFINE Inv == subject = "stream" => StreamInv
<1>1. Init => Inv
  BY StreamInitially DEF Init
<1>2. Inv /\ [Next]_vars => Inv'
  <2>1. ASSUME subject' = "stream", [Next]_vars
        PROVE  subject = "stream" /\ [Stream!Next]_streamVars
    BY <2>1 DEF Next, vars, OfLane, OfTerminal, OfGuard, OfFiles, OfProcesses, OfMcp, OfAgents,
        OfNodes, OfStream, OfScheduler, OfStreams, OfLogs
  <2> QED
    BY <2>1, MessagesStep, AnswerStep DEF StreamInv
<1>3. Inv => AnswersAreTakenWhole
  BY StreamPromise DEF AnswersAreTakenWhole
<1> QED
  BY <1>1, <1>2, <1>3, PTL DEF Spec
===============================================================================
