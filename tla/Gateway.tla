-------------------------------- MODULE Gateway --------------------------------
(***************************************************************************)
(* The way of a message through the gateway (src/internal/gateway): a      *)
(* channel adapter (src/internal/channel) hands what a chat platform sends *)
(* to its inbound queue, the channel manager starts a goroutine per        *)
(* message, the dispatcher judges and routes it, follows the run it starts *)
(* and sends the final text back in pieces.                                *)
(*                                                                         *)
(* The text of a reply is the sequence of its pieces, each with the number *)
(* of tool events that came before it (its era).  What a run emits is its  *)
(* own choice, at most MaxEvents events before it ends.                    *)
(***************************************************************************)
EXTENDS Integers, Sequences, FiniteSetsExt

CONSTANTS
  Msg,          \* the messages of the platform: a function from names to what they say
  Capacity,     \* of the adapter's inbound channel
  MaxEvents,    \* bound on the events of a run before it ends
  BindingLists, \* the bindings the project file may hold
  Fallback,     \* the agent of the router when no binding matches
  Policies      \* the values of dmPolicy

VARIABLES
  bindings, policy, \* as configured
  client,           \* the adapter's connection to the platform
  reading,          \* whether processChannel runs for the adapter
  inbound,          \* the adapter's inbound channel
  at,               \* where each message is
  routed,           \* the agent a message was routed to
  reply, era,       \* the response buffer of a message, and the tool events so far
  output,           \* what the run will be recorded with: managedRunOutputBuffer
  emitted,          \* the events of its run so far
  form, sent        \* how the reply is being sent, and the pieces the platform took in each form

settings == <<bindings, policy>>
run == <<routed, reply, era, output, emitted, form>>
vars == <<bindings, policy, client, reading, inbound, at, routed, reply, era, output, emitted, form, sent>>

Messages == DOMAIN Msg
None == "none"

Forms == {None, "html", "plain"}

Sorry == [kind |-> "sorry", era |-> 0]

Init ==
  /\ bindings \in BindingLists /\ policy \in Policies
  /\ client = "none" /\ reading = FALSE /\ inbound = <<>>
  /\ at = [m \in Messages |-> "away"]
  /\ routed = [m \in Messages |-> None]
  /\ reply = [m \in Messages |-> <<>>]
  /\ era = [m \in Messages |-> 0]
  /\ output = [m \in Messages |-> <<>>]
  /\ emitted = [m \in Messages |-> 0]
  /\ form = [m \in Messages |-> None]
  /\ sent = [m \in Messages |-> [f \in Forms |-> <<>>]]

----------------------------------------------------------------------------
(* The router and the policy for direct messages. *)

OnChannel(b, m) == b.channel \in {None, m.channel}

ByPeer(b, m)    == b.peer # None /\ b.peer = m.sender /\ OnChannel(b, m)
ByKind(b, m)    == b.kind # None /\ b.kind = m.chat /\ OnChannel(b, m)
ByAccount(b, m) == b.account # None /\ b.account = m.account /\ OnChannel(b, m)
ByChannel(b, m) == b.channel = m.channel /\ b.peer = None /\ b.kind = None /\ b.account = None
Narrow(b, m)    == ByPeer(b, m) \/ ByKind(b, m) \/ ByAccount(b, m)

Matching(m, Rule(_, _)) == {i \in DOMAIN bindings : Rule(bindings[i], m)}

\* The first binding that names the peer, the kind of chat or the account wins, else the
\* last one that names just the channel.
Route(m) ==
  IF Matching(m, Narrow) # {} THEN bindings[Min(Matching(m, Narrow))].agent
  ELSE IF Matching(m, ByChannel) # {} THEN bindings[Max(Matching(m, ByChannel))].agent
  ELSE Fallback

\* IsKnownPeer: a binding names the sender, on whatever channel.
KnownPeer(m) == \E i \in DOMAIN bindings : bindings[i].peer = m.sender

\* EvaluateMessagePolicy.
Accepted(m) == m.chat = "group" \/ policy = "respond" \/ KnownPeer(m)

----------------------------------------------------------------------------
(* The adapter. *)

\* Start: an adapter that does not connect in time is skipped, though its goroutine
\* goes on connecting; one that fails is skipped too.
Connect ==
  /\ client = "none"
  /\ \/ client' = "up" /\ reading' = TRUE
     \/ client' \in {"failed", "connecting"} /\ UNCHANGED reading
  /\ UNCHANGED <<settings, inbound, at, run, sent>>

ConnectLate ==
  /\ client = "connecting"
  /\ client' \in {"up", "failed"}
  /\ UNCHANGED <<settings, reading, inbound, at, run, sent>>

\* What the adapter drops: a group message that does not mention the bot, where the
\* channel asks for it, one of a sender it does not know, and one without text or caption.
Dropped(m) == (m.chat = "group" /\ ~m.mentioned) \/ ~m.allowed \/ m.text = ""

\* defaultHandler and handleMessage; Telegram answers /start itself.
Arrive(m) ==
  /\ client = "up" /\ at[m] = "away"
  /\ at' = [at EXCEPT ![m] = CASE Dropped(Msg[m]) -> "ignored"
                               [] Msg[m].text = "/start" /\ Msg[m].channel = "telegram" -> "done"
                               [] OTHER -> "adapter"]
  /\ UNCHANGED <<settings, client, reading, inbound, run, sent>>

\* The handler blocks while the queue is full.
Enqueue(m) ==
  /\ at[m] = "adapter" /\ Len(inbound) < Capacity
  /\ inbound' = Append(inbound, m)
  /\ at' = [at EXCEPT ![m] = "queued"]
  /\ UNCHANGED <<settings, client, reading, run, sent>>

\* Stop of the manager cancels the context and disconnects the adapters.
Stop ==
  /\ client # "stopped" /\ client' = "stopped"
  /\ UNCHANGED <<settings, reading, inbound, at, run, sent>>

----------------------------------------------------------------------------
(* The manager. *)

\* processChannel: each message gets a goroutine, so the next one does not wait.
Take ==
  /\ reading /\ inbound # <<>>
  /\ at' = [at EXCEPT ![Head(inbound)] = "taken"]
  /\ inbound' = Tail(inbound)
  /\ UNCHANGED <<settings, client, reading, run, sent>>

StopReading ==
  /\ reading /\ client = "stopped" /\ reading' = FALSE
  /\ UNCHANGED <<settings, client, inbound, at, run, sent>>

----------------------------------------------------------------------------
(* The dispatcher. *)

\* handle up to the start of the run; a run that cannot start gets an apology.
Ignore(m) ==
  /\ at[m] = "taken" /\ ~Accepted(Msg[m])
  /\ at' = [at EXCEPT ![m] = "ignored"]
  /\ UNCHANGED <<settings, client, reading, inbound, run, sent>>

StartRun(m, refused) ==
  /\ at[m] = "taken" /\ Accepted(Msg[m])
  /\ routed' = [routed EXCEPT ![m] = Route(Msg[m])]
  /\ at' = [at EXCEPT ![m] = IF refused THEN "sending" ELSE "running"]
  /\ reply' = [reply EXCEPT ![m] = IF refused THEN <<Sorry>> ELSE <<>>]
  /\ form' = [form EXCEPT ![m] = "html"]
  /\ UNCHANGED <<settings, client, reading, inbound, era, output, emitted, sent>>

\* Faulty variant: the buffer is a plain transcript of the run.
AfterToolKeeping(text) == text

\* channelResponseBuffer.Observe: what was said before a tool or agent call is progress.
AfterTool(text) == <<>>

\* SetFallbackIfEmpty.
Apologising(text) == IF text = <<>> THEN <<Sorry>> ELSE text

\* The run says something.
ObserveText(m) ==
  /\ at[m] = "running" /\ emitted[m] < MaxEvents
  /\ LET text == [kind |-> "text", era |-> era[m]] IN
       /\ reply' = [reply EXCEPT ![m] = Append(@, text)]
       /\ output' = [output EXCEPT ![m] = Append(@, text)]
  /\ emitted' = [emitted EXCEPT ![m] = @ + 1]
  /\ UNCHANGED <<settings, client, reading, inbound, at, routed, era, form, sent>>

\* Faulty variant: what is said before a tool is recorded.
OutputAfterToolKeeping(text, keeps) == text

\* shouldResetManagedRunOutputForTool: the run's own buffer goes by the tool alone.
OutputAfterTool(text, keeps) == IF keeps THEN text ELSE <<>>

\* A tool or another agent is called or answers; a failed tool leaves an apology, which
\* later text follows.  goal_complete and await_user_input keep what was said.
ObserveTool(m, failed, keeps) ==
  /\ at[m] = "running" /\ emitted[m] < MaxEvents
  /\ LET text == IF keeps THEN reply[m] ELSE AfterTool(reply[m])
     IN reply' = [reply EXCEPT ![m] = IF failed THEN Apologising(text) ELSE text]
  /\ output' = [output EXCEPT ![m] = OutputAfterTool(@, keeps)]
  /\ era' = [era EXCEPT ![m] = IF keeps THEN @ ELSE @ + 1]
  /\ emitted' = [emitted EXCEPT ![m] = @ + 1]
  /\ UNCHANGED <<settings, client, reading, inbound, at, routed, form, sent>>

\* The run's stream ends: a failed run leaves an apology unless it said something.
RunEnds(m, failed) ==
  LET final == IF failed THEN Apologising(reply[m]) ELSE reply[m] IN
  /\ at[m] = "running"
  /\ reply' = [reply EXCEPT ![m] = final]
  /\ at' = [at EXCEPT ![m] = IF final = <<>> THEN "done" ELSE "sending"]
  /\ UNCHANGED <<settings, client, reading, inbound, routed, era, output, emitted, form, sent>>

\* The pieces the platform has taken in this form.
Taken(m) == sent[m][form[m]]

\* sendChunked: piece after piece.
SendPiece(m) ==
  LET n == Len(Taken(m)) + 1 IN
  /\ at[m] = "sending"
  /\ sent' = [sent EXCEPT ![m][form[m]] = Append(@, reply[m][n])]
  /\ at' = [at EXCEPT ![m] = IF n = Len(reply[m]) THEN "done" ELSE "sending"]
  /\ UNCHANGED <<settings, client, reading, inbound, run>>

\* Telegram tries the whole text again without markup when a piece is refused; a second
\* refusal, or one of WhatsApp, is logged and gives the reply up.
SendFails(m) ==
  /\ at[m] = "sending"
  /\ IF form[m] = "html" /\ Msg[m].channel = "telegram"
       THEN form' = [form EXCEPT ![m] = "plain"] /\ UNCHANGED at
       ELSE at' = [at EXCEPT ![m] = "given up"] /\ UNCHANGED form
  /\ UNCHANGED <<settings, client, reading, inbound, routed, reply, era, output, emitted, sent>>

----------------------------------------------------------------------------
Deliver(m) == SendPiece(m) \/ SendFails(m)
Answer(m) == \E failed \in BOOLEAN : StartRun(m, failed) \/ RunEnds(m, failed)

Next ==
  \/ Connect \/ ConnectLate \/ Stop \/ Take \/ StopReading
  \/ \E m \in Messages :
       \/ Arrive(m) \/ Enqueue(m) \/ Ignore(m) \/ Answer(m) \/ Deliver(m)
       \/ ObserveText(m)
       \/ \E failed, keeps \in BOOLEAN : ObserveTool(m, failed, keeps)

Spec == Init /\ [][Next]_vars

\* The manager's loop and a message's goroutine go on; a run ends (the lane's promise).
Goes == Take \/ \E m \in Messages : Enqueue(m)
MessageGoes(m) == Ignore(m) \/ Answer(m) \/ Deliver(m)
FairSpec == Spec /\ WF_vars(Goes) /\ \A m \in Messages : WF_vars(MessageGoes(m))

----------------------------------------------------------------------------
(* Properties. *)

\* A reply holds nothing the run said before its last tool or agent call: the progress
\* notes of channelResponseBuffer are not sent to the user as an answer.
SaysTheLast ==
  \A m \in Messages, f \in Forms : \A i \in DOMAIN sent[m][f] :
     sent[m][f][i].kind = "text" => sent[m][f][i].era = era[m]

\* The two buffers agree: what the user is sent is what the run is recorded with, in its
\* order and all of it, but for one apology, which a failed tool leaves even before an answer.
SaysTheRecord ==
  \A m \in Messages : at[m] = "done" => Taken(m) \in {output[m], <<Sorry>> \o output[m]}

RepliesAreFinal == SaysTheLast /\ SaysTheRecord

\* While the manager reads a channel, a message the adapter accepted comes to be answered,
\* ignored by the policy or given up: no message waits for another one.
Awaited(m) == at[m] = "adapter" /\ reading
Handled(m)  == at[m] \in {"done", "ignored", "given up"} \/ client = "stopped"
MessagesAreHandled == \A m \in Messages : Awaited(m) ~> Handled(m)
=============================================================================
