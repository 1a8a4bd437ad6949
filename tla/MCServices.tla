------------------------------ MODULE MCServices ------------------------------
(***************************************************************************)
(* Services on small instances of its components.                          *)
(***************************************************************************)
EXTENDS Services, SequencesExt

LaneSettings == {[mode |-> "collect", drop |-> "summarize", max |-> 1]}
\* A threshold of two on short histories, one of which is too short for it.
GuardConfig(history_, preflight, enabled) ==
  [history |-> history_, block |-> 2, attempts |-> 2, preflight |-> preflight, enabled |-> enabled]
GuardSettings == {GuardConfig(3, TRUE, TRUE), GuardConfig(1, TRUE, TRUE), GuardConfig(2, FALSE, TRUE),
                 GuardConfig(1, TRUE, FALSE)}

\* Short files: with wide characters to page through, of many lines to search, to patch with
\* one line, or with one and its context, and one to write in three chunks.
ShortTexts(n, bytes) == UNION {[1..k -> bytes] : k \in 0..n}
WideTexts == {FlattenSeq(t) : t \in ShortTexts(3, {<<"a">>, <<"w1", "w2">>})}
FileTexts == [bytes |-> WideTexts, lines |-> ShortTexts(4, {"a", "nl"}), search |-> ShortTexts(7, {"a", "nl"}),
              patch |-> ShortTexts(4, {"a", "b", "nl"}), chunks |-> {<<>>}]
HunkLines(marks) == {<<[mark |-> m, text |-> <<b>>]>> : m \in marks, b \in {"a", "b"}}
FileHunks == HunkLines({"-", "+"}) \cup {x \o y : x \in HunkLines({" ", "-"}), y \in HunkLines({"-", "+"})}
FileChunks == <<<<"a", "nl">>, <<"b">>, <<"a", "b">>>>

\* A user message and three more blocks: messages, directives, answers with one or two calls, and
\* one with two calls whose second result comes after the notice of a failed turn.
User == <<"user", 0>>
CallsWithResults(n) == <<<<"calls", n>>>> \o [i \in 1..n |-> <<"result", i>>]
Blocks == {<<User>>, <<<<"control", 0>>>>, <<<<"says", 0>>>>, CallsWithResults(1), CallsWithResults(2),
           <<<<"split", 2>>, <<"result", 1>>, <<"says", 0>>, <<"result", 2>>>>}
Talks == {<<User>> \o a \o b \o c : a \in Blocks, b \in Blocks, c \in Blocks}

JobLists == {<<>>, <<"j1">>}
=============================================================================
