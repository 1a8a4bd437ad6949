------------------------------- MODULE Streams -------------------------------
(***************************************************************************)
(* The event streams of the HTTP API (internal/startup/http/api): one      *)
(* client follows a run, its tree, a session, a task or the logs, while    *)
(* goroutines publish and the client may leave at any moment.  A handler   *)
(* subscribes at the recorder, the task store or the log buffer; a         *)
(* goroutine of the gateway relays what is sent to it.                     *)
(*                                                                         *)
(* Events are numbered as they are stored; those that are not stored, the  *)
(* pieces of a text, are left out.                                         *)
(***************************************************************************)
EXTENDS Naturals, Sequences

CONSTANTS
  Kinds,       \* of stream: among the kinds below
  Publishers,  \* goroutines that publish
  MaxEvents,   \* bound on what they publish
  RawCap,      \* capacity of a subscription
  OutCap,      \* capacity of the gateway's channel
  Ring         \* log entries the log buffer holds

\* replay=1 is the default: "run" and "tree"; "live" is a run's stream without it.
Replayed == {"run", "tree"}
WithSnapshot == Replayed \cup {"session", "logs"}
EndsWithRun == {"run", "live"}

VARIABLES
  kind,
  count,      \* events stored
  last,       \* the event that ends the run, or 0
  sending,    \* per publisher: the event it has to send, 0 if none, and whether the client's
              \* subscription was among those it copied
  sub,        \* none, open; dropped from the subscribers, closed
  raw, out,   \* the channels of the subscription and of the gateway
  relay,      \* the relaying goroutine: none, holding until the snapshot is read, passing, ended
  backlog,    \* what it holds
  seen,       \* what it has passed on or is in the snapshot
  handler,    \* new, subscribed, writing, written, streaming, leaving, gone
  unwritten,  \* of the snapshot
  given,      \* what the client has been written
  from, upto, \* history: what was stored when the handler subscribed, and read the snapshot
  missed,     \* history: events a full subscription did not take
  panicked    \* a send on a closed channel has ended the process

vars == <<kind, count, last, sending, sub, raw, out, relay, backlog, seen, handler, unwritten, given,
          from, upto, missed, panicked>>
stored   == <<kind, count, last>>
client   == <<handler, unwritten, given, from, upto>>
relaying == <<out, relay, backlog, seen>>
-----------------------------------------------------------------------------
(* Publishing. *)

\* sendEventNonBlocking recovers from a send on a closed channel, the others do not.
Recovers == kind \notin {"task", "logs"}

\* A send that does not block.
Deliver(event) ==
  IF sub = "closed" THEN panicked' = ~Recovers /\ UNCHANGED <<raw, missed>>
  ELSE /\ IF Len(raw) < RawCap THEN raw' = Append(raw, event) /\ UNCHANGED missed
                               ELSE missed' = missed \cup {event} /\ UNCHANGED raw
       /\ UNCHANGED panicked

\* Faulty variant: the log buffer too sends after its lock.
AlwaysLater == FALSE

\* LogBuffer.Handle sends to its subscribers under the lock.
SendsAtOnce == kind = "logs"

\* The event is stored and the subscribers are copied in one critical section, the sends
\* follow it; a run's goroutines may send in another order than they stored.
Publish(p) ==
  /\ sending[p].event = 0 /\ count < MaxEvents
  /\ count' = count + 1
  /\ \/ UNCHANGED last
     \/ last = 0 /\ kind \in EndsWithRun /\ last' = count + 1
  /\ IF SendsAtOnce
     THEN /\ IF sub = "open" THEN Deliver(count + 1) ELSE UNCHANGED <<raw, missed, panicked>>
          /\ UNCHANGED sending
     ELSE /\ sending' = [sending EXCEPT ![p] = [event |-> count + 1, to |-> sub = "open"]]
          /\ UNCHANGED <<raw, missed, panicked>>
  /\ UNCHANGED <<kind, sub, client, relaying>>

Send(p) ==
  /\ sending[p].event # 0
  /\ IF sending[p].to THEN Deliver(sending[p].event) ELSE UNCHANGED <<raw, missed, panicked>>
  /\ sending' = [sending EXCEPT ![p] = [event |-> 0, to |-> FALSE]]
  /\ UNCHANGED <<stored, sub, client, relaying>>
-----------------------------------------------------------------------------
(* The handler. *)

\* Faulty variant: the log handler too writes what there is before it subscribes.
ReadsFirstLogs == kind \in {"session", "logs"}

\* handleSessionEvents writes its snapshot before it subscribes, the others subscribe first.
ReadsFirst == kind = "session"

Subscribe ==
  /\ handler = IF ReadsFirst THEN "written" ELSE "new"
  /\ handler' = IF kind \in WithSnapshot /\ ~ReadsFirst THEN "subscribed" ELSE "streaming"
  /\ sub' = "open" /\ from' = count
  /\ relay' = IF kind \in Replayed THEN "holding" ELSE "passing"
  /\ UNCHANGED <<stored, sending, raw, out, backlog, seen, unwritten, given, upto, missed, panicked>>

\* What the log buffer still holds, or all that is stored.
Snapshot == [i \in 1..(IF kind = "logs" /\ count > Ring THEN Ring ELSE count) |->
               IF kind = "logs" /\ count > Ring THEN count - Ring + i ELSE i]

\* subscribeReplayStream gives the relay the snapshot's events, so that it passes none twice.
Read ==
  /\ kind \in WithSnapshot /\ handler = IF ReadsFirst THEN "new" ELSE "subscribed"
  /\ kind \in Replayed => count > 0
  /\ handler' = "writing"
  /\ unwritten' = Snapshot /\ upto' = count
  /\ IF kind \in Replayed THEN seen' = 1..count /\ relay' = "passing" ELSE UNCHANGED <<seen, relay>>
  /\ UNCHANGED <<stored, sending, sub, raw, out, backlog, given, from, missed, panicked>>

\* There is no such run: nothing is streamed.
NotFound ==
  /\ kind \in Replayed /\ handler = "subscribed" /\ count = 0
  /\ handler' = "leaving"
  /\ UNCHANGED <<stored, sending, sub, raw, relaying, unwritten, given, from, upto, missed, panicked>>

Write ==
  /\ handler = "writing" /\ unwritten # <<>>
  /\ given' = Append(given, Head(unwritten)) /\ unwritten' = Tail(unwritten)
  /\ UNCHANGED <<stored, sending, sub, raw, relaying, handler, from, upto, missed, panicked>>

\* A run's stream is over if the snapshot ends with the run's end.
Written ==
  /\ handler = "writing" /\ unwritten = <<>>
  /\ handler' = CASE ReadsFirst -> "written"
                  [] kind = "run" /\ upto = last -> "leaving"
                  [] OTHER -> "streaming"
  /\ UNCHANGED <<stored, sending, sub, raw, relaying, unwritten, given, from, upto, missed, panicked>>

\* An event of the stream; a run's ends with it.
Stream ==
  /\ handler = "streaming" /\ out # <<>>
  /\ given' = Append(given, Head(out)) /\ out' = Tail(out)
  /\ handler' = IF kind \in EndsWithRun /\ Head(out) = last THEN "leaving" ELSE "streaming"
  /\ UNCHANGED <<stored, sending, sub, raw, relay, backlog, seen, unwritten, from, upto, missed, panicked>>

\* The client goes, or a write to it fails.
Leave ==
  /\ handler \in {"writing", "streaming"}
  /\ handler' = IF sub = "none" THEN "gone" ELSE "leaving"
  /\ UNCHANGED <<stored, sending, sub, raw, relaying, unwritten, given, from, upto, missed, panicked>>

\* The cancel function: out of the subscribers under the lock, then the channel is closed.
Unsubscribe ==
  /\ handler = "leaving" /\ sub = "open" /\ sub' = "dropped"
  /\ UNCHANGED <<stored, sending, raw, relaying, client, missed, panicked>>

CloseChannel ==
  /\ sub = "dropped" /\ sub' = "closed" /\ handler' = "gone"
  /\ UNCHANGED <<stored, sending, raw, relaying, unwritten, given, from, upto, missed, panicked>>
-----------------------------------------------------------------------------
(* The relay: gatewayEventChannel, with the goroutine of subscribeReplayStream before it. *)

Hold ==
  /\ relay = "holding" /\ raw # <<>>
  /\ backlog' = Append(backlog, Head(raw)) /\ raw' = Tail(raw)
  /\ UNCHANGED <<stored, sending, sub, out, relay, seen, client, missed, panicked>>

\* Faulty variant: what the snapshot holds is passed again.
FreshAlways(event) == TRUE

Fresh(event) == kind \notin Replayed \/ event \notin seen

\* What is next is passed on when there is room for it.
Pass ==
  LET next == Head(backlog \o raw) IN
  /\ relay = "passing" /\ backlog \o raw # <<>>
  /\ IF Fresh(next) THEN Len(out) < OutCap /\ out' = Append(out, next) ELSE UNCHANGED out
  /\ seen' = IF kind \in Replayed THEN seen \cup {next} ELSE seen
  /\ IF backlog # <<>> THEN backlog' = Tail(backlog) /\ UNCHANGED raw ELSE raw' = Tail(raw) /\ UNCHANGED backlog
  /\ UNCHANGED <<stored, sending, sub, relay, client, missed, panicked>>

\* A replay ends with the handler; the others when they have passed on what was sent.
RelayEnds ==
  /\ relay \in {"holding", "passing"}
  /\ \/ kind \in Replayed /\ handler \in {"leaving", "gone"}
     \/ sub = "closed" /\ backlog \o raw = <<>>
  /\ relay' = "ended"
  /\ UNCHANGED <<stored, sending, sub, raw, out, backlog, seen, client, missed, panicked>>

Init ==
  /\ kind \in Kinds /\ count = 0 /\ last = 0
  /\ sending = [p \in Publishers |-> [event |-> 0, to |-> FALSE]]
  /\ sub = "none" /\ raw = <<>> /\ out = <<>> /\ relay = "none" /\ backlog = <<>> /\ seen = {}
  /\ handler = "new" /\ unwritten = <<>> /\ given = <<>> /\ from = 0 /\ upto = 0
  /\ missed = {} /\ panicked = FALSE

Next ==
  /\ ~panicked
  /\ \/ \E p \in Publishers: Publish(p) \/ Send(p)
     \/ Subscribe \/ Read \/ NotFound \/ Write \/ Written \/ Stream \/ Leave \/ Unsubscribe \/ CloseChannel
     \/ Hold \/ Pass \/ RelayEnds
Spec == Init /\ [][Next]_vars
-----------------------------------------------------------------------------
(* Properties. *)

Given == {given[i] : i \in DOMAIN given}

\* No event is given twice, but for log entries that were logged between the subscription
\* and the snapshot.
NothingTwice ==
  \A i, j \in DOMAIN given:
    i < j /\ given[i] = given[j] => kind = "logs" /\ given[i] > from /\ given[i] <= upto

\* What a client who has caught up should have been given: all that was stored, without what
\* the log buffer no longer held; live, from the subscription on; of a session, not
\* what came between its snapshot and its subscription.
Promised ==
  CASE kind \in Replayed -> 1..count
    [] kind = "logs" -> {n \in 1..count: n + Ring > upto}
    [] kind = "session" -> (1..upto) \cup ((from + 1)..count)
    [] OTHER -> (from + 1)..count

CaughtUp ==
  /\ handler = "streaming" /\ raw \o backlog \o out = <<>>
  /\ \A p \in Publishers: sending[p].event = 0

\* A publisher never sends to a client who is gone: the recorder recovers and the log buffer
\* holds its lock.  The task store does neither.
NoPanic == panicked => kind = "task"

\* Logs arrive in the order they were logged in.
LogsInOrder ==
  LET streamed == {i \in DOMAIN given: i > (IF upto > Ring THEN Ring ELSE upto)} IN
  kind = "logs" => \A i, j \in streamed: i < j => given[i] < given[j]

\* What the API streams is whole: nothing twice, nothing missing once the client has caught
\* up, but for what a full subscription did not take; and no client's leaving ends the process.
StreamsAreWhole ==
  /\ NothingTwice /\ LogsInOrder /\ NoPanic
  /\ CaughtUp => Promised \ missed \subseteq Given
=============================================================================
