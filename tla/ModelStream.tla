---------------------------- MODULE ModelStream ----------------------------
(***************************************************************************)
(* A request to a model (internal/runtime/llm, agent/engine.go): the       *)
(* transcript in the provider's form, the answer that arrives in pieces    *)
(* and may be cut or stop at the token limit anywhere, what each protocol  *)
(* makes of such an answer, and the retries of the agent or the summary of *)
(* a compaction.                                                           *)
(***************************************************************************)
EXTENDS Naturals, Sequences, FiniteSets

CONSTANTS
  Providers,     \* among Streamed \cup {"gemini", "whole"}
  Transcripts,   \* what a request may hold: sequences of messages
  Pieces,        \* the pieces in which the arguments of a call come
  MaxAttempts    \* Runtime.llmMaxAttempts

VARIABLES
  provider,  \* the protocol: OpenAI's (also Qwen's), Anthropic's, Gemini's, or a whole answer
  purpose,   \* "turn" of an agent, or "compact"
  stage,     \* "idle", "building", "built", "open", "ended", "waiting", "replied", "failed"
  transcript,\* the messages that are not in the provider's form yet
  results,   \* pendingToolResults
  built,     \* the messages in the provider's form
  wire,      \* what the server has still to send
  pending,   \* the calls begun, each with the pieces of its arguments so far
  text,      \* has there been any text
  handed,    \* the calls handed on, each with the pieces it has
  started,   \* turnProgress.StartedToolCalls
  error,     \* has the stream reported an error
  attempt,   \* the number of the request
  shown      \* the attempts whose output the user has seen

vars == <<provider, purpose, stage, transcript, results, built, wire, pending, text, handed, started, error, attempt, shown>>
chosen == <<provider, purpose>>
kept == <<chosen, transcript, results>>

Streamed  == {"openai", "anthropic"}
NoCalls   == [i \in {} |-> 0]

-----------------------------------------------------------------------------
(* The transcript.  A message is of a user or of the runtime, text or n calls of the assistant, *)
(* or the i-th result of calls before.  Calls with their results directly behind them, and no   *)
(* others, are "calls"; those whose results are elsewhere or missing are "split", as after a    *)
(* failed turn (Transcript).                                                                    *)

Messages == {"user", "control", "says", "calls", "split", "result"} \X Nat
IsResult(m) == m[1] = "result"

\* The calls of a transcript are rightly called so: any transcript can be written this way.
Paired(t) ==
  \A k \in DOMAIN t : t[k][1] = "calls" =>
    /\ t[k][2] # 0
    /\ \A i \in 1..t[k][2] : k + i \in DOMAIN t /\ t[k + i] = <<"result", i>>
    /\ k + t[k][2] + 1 \in DOMAIN t => ~ IsResult(t[k + t[k][2] + 1])

\* The results so far become one message.
Flushed == IF results = <<>> THEN built ELSE Append(built, results)

\* buildAnthropicMessages: results that follow each other are one user message, and control
\* messages go to the system prompt, after the results so far.
Group(m) ==
  IF IsResult(m) THEN results' = Append(results, m) /\ UNCHANGED built
  ELSE /\ built' = IF m[1] = "control" THEN Flushed ELSE Append(Flushed, <<m>>)
       /\ results' = <<>>

\* GeminiProvider.ChatStream: control messages go to the instruction.
Instruct(m) == UNCHANGED results /\ built' = IF m[1] = "control" THEN built ELSE Append(built, <<m>>)

\* OpenAIProvider.ChatStream, and Qwen's: one message each, in place.
OneEach(m) == UNCHANGED results /\ built' = Append(built, <<m>>)

Translated(m) ==
  IF provider = "anthropic" THEN Group(m) ELSE IF provider = "gemini" THEN Instruct(m) ELSE OneEach(m)

-----------------------------------------------------------------------------
(* The answer. *)

Chunk(kind, slot, piece) == [kind |-> kind, slot |-> slot, piece |-> piece]

\* What a server sends for a call: its name, the pieces, and, for Anthropic, its end.
CallChunks(p, i, pieces) ==
  IF p = "gemini" THEN <<Chunk("call", i, 0)>>
  ELSE <<Chunk("start", i, 0)>> \o [k \in 1..pieces |-> Chunk("piece", i, k)]
         \o (IF p = "anthropic" THEN <<Chunk("stop", i, 0)>> ELSE <<>>)

\* An answer: perhaps text, up to two calls, and the finish.  At the token limit the last call
\* lacks pieces, and the finish says so.
Answer(p, says, n, sent) ==
  (IF says THEN <<Chunk("text", 0, 0)>> ELSE <<>>)
    \o (IF n > 0 THEN CallChunks(p, 1, IF n = 1 THEN sent ELSE Pieces) ELSE <<>>)
    \o (IF n > 1 THEN CallChunks(p, 2, sent) ELSE <<>>)
    \o <<Chunk(IF n > 0 /\ sent < Pieces THEN "limit" ELSE "finish", 0, 0)>>

Init ==
  /\ provider \in Providers /\ purpose \in {"turn", "compact"} /\ stage = "idle"
  /\ transcript = <<>> /\ results = <<>> /\ built = <<>> /\ wire = <<>> /\ pending = NoCalls /\ text = FALSE /\ handed = <<>>
  /\ started = 0 /\ error = FALSE /\ attempt = 1 /\ shown = {}

\* A request is made of a transcript, message by message.
Begin ==
  /\ stage = "idle" /\ stage' = "building"
  /\ transcript' \in Transcripts
  /\ UNCHANGED <<chosen, results, built, wire, pending, text, handed, started, error, attempt, shown>>

Translate ==
  /\ stage = "building" /\ transcript # <<>>
  /\ Translated(Head(transcript)) /\ transcript' = Tail(transcript)
  /\ UNCHANGED <<chosen, stage, wire, pending, text, handed, started, error, attempt, shown>>

Built ==
  /\ stage = "building" /\ transcript = <<>> /\ stage' = "built"
  /\ built' = Flushed /\ results' = <<>>
  /\ UNCHANGED <<chosen, transcript, wire, pending, text, handed, started, error, attempt, shown>>

\* compactNative: Anthropic's own compaction of a history long enough; when it fails, or returns
\* no compaction block, the request is made as a chat.
CompactNatively ==
  /\ stage = "built" /\ provider = "anthropic" /\ purpose = "compact" /\ built # <<>>
  /\ built' = <<>> /\ text' = TRUE /\ stage' = "ended" /\ error' = FALSE
  /\ UNCHANGED <<kept, wire, pending, handed, started, attempt, shown>>

\* ChatStream: the server accepts the request or not.
Open ==
  /\ stage \in {"built", "waiting"}
  /\ \/ \E says \in BOOLEAN, n \in 0..2, sent \in 0..Pieces :
          /\ purpose = "compact" => n = 0
          /\ wire' = Answer(provider, says, n, sent) /\ stage' = "open" /\ error' = FALSE
     \/ wire' = <<>> /\ stage' = "ended" /\ error' = TRUE
  /\ built' = <<>> /\ pending' = NoCalls /\ text' = FALSE /\ handed' = <<>>
  /\ UNCHANGED <<kept, started, attempt, shown>>

-----------------------------------------------------------------------------
(* The events of a stream. *)

Arrived == Head(wire).kind
Slot    == Head(wire).slot
Begun   == DOMAIN pending
Partial(i) == pending[i] \in 1..(Pieces - 1)
InOrder(calls) == (IF 1 \in calls THEN <<1>> ELSE <<>>) \o (IF 2 \in calls THEN <<2>> ELSE <<>>)
Listed(calls, pieces) == [k \in DOMAIN InOrder(calls) |-> <<InOrder(calls)[k], pieces[InOrder(calls)[k]]>>]
HandOn(calls) == handed' = handed \o Listed(calls, pending)

Ends(failed) == stage' = "ended" /\ error' = failed /\ wire' = <<>>
GoesOn       == wire' = Tail(wire) /\ UNCHANGED <<stage, error>>

\* A whole answer, unchecked: chatNonStreaming.
ReceiveWhole ==
  /\ stage = "open" /\ provider = "whole"
  /\ LET count(kind, i) == Cardinality({k \in DOMAIN wire : wire[k].kind = kind /\ wire[k].slot = i})
         calls == {i \in {1, 2} : count("start", i) > 0}
     IN /\ text' = (count("text", 0) > 0)
        /\ started' = started + count("start", 1) + count("start", 2)
        /\ handed' = Listed(calls, [i \in calls |-> count("piece", i)])
  /\ shown' = IF text' \/ handed' # <<>> THEN shown \cup {attempt} ELSE shown
  /\ Ends(FALSE)
  /\ UNCHANGED <<kept, built, pending, attempt>>

Receive == stage = "open" /\ provider # "whole" /\ wire # <<>>

ReceiveText ==
  /\ Receive /\ Arrived = "text"
  /\ text' = TRUE /\ shown' = shown \cup {attempt} /\ GoesOn
  /\ UNCHANGED <<kept, built, pending, handed, started, attempt>>

\* The name of a call is shown at once.
ReceiveStart ==
  /\ Receive /\ Arrived = "start"
  /\ pending' = [i \in Begun \cup {Slot} |-> IF i = Slot THEN 0 ELSE pending[i]] /\ started' = started + 1
  /\ shown' = shown \cup {attempt} /\ GoesOn
  /\ UNCHANGED <<kept, built, text, handed, attempt>>

ReceivePiece ==
  /\ Receive /\ Arrived = "piece"
  /\ pending' = [pending EXCEPT ![Slot] = @ + 1] /\ GoesOn
  /\ UNCHANGED <<kept, built, text, handed, started, attempt, shown>>

\* stopWithRepair, of a call that is begun: no argument at all means none are needed; an object left open may be
\* closed; what stays malformed ends the stream.
ReceiveStop ==
  /\ Receive /\ Arrived = "stop"
  /\ pending' = [i \in Begun \ {Slot} |-> pending[i]]
  /\ \/ HandOn(Begun \cap {Slot}) /\ GoesOn
     \/ Slot \in Begun /\ Partial(Slot) /\ Ends(TRUE) /\ UNCHANGED handed
  /\ UNCHANGED <<kept, built, text, started, attempt, shown>>

\* Gemini's calls come whole.
ReceiveCall ==
  /\ Receive /\ Arrived = "call"
  /\ handed' = Append(handed, <<Slot, Pieces>>) /\ started' = started + 1
  /\ shown' = shown \cup {attempt} /\ GoesOn
  /\ UNCHANGED <<kept, built, pending, text, attempt>>

Malformed == \E i \in Begun : Partial(i)

\* Faulty variant: the calls handed on are kept, and handed on again when the stream ends.
FinalizeKeeping == UNCHANGED pending /\ IF Malformed THEN UNCHANGED handed ELSE HandOn(Begun)

\* finalizeOpenAICompatibleToolCalls: all or none; the calls handed on are forgotten.
Finalize ==
  IF Malformed THEN UNCHANGED <<handed, pending>> ELSE HandOn(Begun) /\ pending' = NoCalls

ReceiveFinish ==
  /\ Receive /\ Arrived \in {"finish", "limit"}
  /\ IF provider = "openai" /\ Arrived = "finish" 
     THEN Finalize /\ IF Malformed THEN Ends(TRUE) ELSE GoesOn
     ELSE GoesOn /\ UNCHANGED <<handed, pending>>
  /\ UNCHANGED <<kept, built, text, started, attempt, shown>>

\* The end of the stream, in its place or too early: OpenAI's finalizes what is begun,
\* Anthropic's may have no call open.
StreamCloses ==
  /\ stage = "open" /\ provider # "whole"
  /\ IF provider = "openai" THEN Finalize /\ Ends(Malformed)
     ELSE Ends(Begun # {}) /\ UNCHANGED <<handed, pending>>
  /\ UNCHANGED <<kept, built, text, started, attempt, shown>>

\* recoverOpenAICompatibleStream: an answer cut in mid-frame is taken as complete when every
\* call begun has valid arguments or there is text and no call.
Truncated ==
  /\ Receive
  /\ IF provider # "openai" THEN Ends(TRUE) /\ UNCHANGED <<handed, pending>>
     ELSE IF Begun # {} THEN Finalize /\ Ends(Malformed)
     ELSE Ends(~text) /\ UNCHANGED <<handed, pending>>
  /\ UNCHANGED <<kept, built, text, started, attempt, shown>>

\* Any other error, or an error event.
StreamFails ==
  /\ Receive /\ Ends(TRUE)
  /\ UNCHANGED <<kept, built, pending, text, handed, started, attempt, shown>>

-----------------------------------------------------------------------------
(* collectLLMResponse and compactViaChatStream. *)

\* A request is repeated when nothing of its answer has been shown.
Retries == purpose = "turn" /\ error /\ attempt \notin shown /\ attempt < MaxAttempts

Retry ==
  /\ stage = "ended" /\ Retries
  /\ \/ stage' = "waiting" /\ attempt' = attempt + 1
     \/ stage' = "failed" /\ UNCHANGED attempt      \* the context is done during the wait
  /\ UNCHANGED <<kept, built, wire, pending, text, handed, started, error, shown>>

\* incompleteToolCallError: every call whose name was shown must have been handed on.  A
\* summary needs text.
Succeeds == ~error /\ IF purpose = "turn" THEN started <= Len(handed) ELSE text

Close ==
  /\ stage = "ended" /\ ~Retries
  /\ stage' = IF Succeeds THEN "replied" ELSE "failed"
  /\ UNCHANGED <<kept, built, wire, pending, text, handed, started, error, attempt, shown>>

Next ==
  \/ Begin \/ Translate \/ Built \/ CompactNatively \/ Open \/ ReceiveWhole \/ ReceiveText \/ ReceiveStart \/ ReceivePiece
  \/ ReceiveStop \/ ReceiveCall \/ ReceiveFinish \/ StreamCloses \/ Truncated \/ StreamFails \/ Retry \/ Close

Spec == Init /\ [][Next]_vars

-----------------------------------------------------------------------------
(* Properties. *)

\* However an answer is cut: each call of it runs at most once and in its place, and none with
\* some of its arguments only, unless Anthropic's tracker has closed its JSON.  (A call cut
\* before the first piece runs without arguments; chatNonStreaming leaves the check to the
\* tool's preparation.)
CallsAreWhole ==
  stage = "replied" =>
    /\ \A i, j \in DOMAIN handed : i < j => handed[i][1] < handed[j][1]
    /\ provider \in {"openai", "gemini"} => \A i \in DOMAIN handed : handed[i][2] \in {0, Pieces}

\* What the user sees of a turn is of one answer.
ShownOnce == (\A i, j \in shown : i = j) /\ (stage = "replied" => shown \subseteq {attempt})

\* Calls that have their results behind them in the transcript have them there in what is sent,
\* for Anthropic as one message.
ResultsFollow ==
  stage = "built" => \A k \in DOMAIN built : built[k][1][1] = "calls" =>
    IF provider = "anthropic"
    THEN k < Len(built) /\ built[k + 1] = [i \in 1..built[k][1][2] |-> <<"result", i>>]
    ELSE \A i \in 1..built[k][1][2] : k + i <= Len(built) /\ built[k + i] = <<<<"result", i>>>>

AnswersAreTakenWhole == CallsAreWhole /\ ShownOnce /\ ResultsFollow
=============================================================================
