---------------------------- MODULE MCTranscript ----------------------------
(* Instances of Transcript for TLC. *)
EXTENDS Transcript
Bounds(questions, requests, calls, steps, crashes) ==
  [questions |-> questions, requests |-> requests, calls |-> calls, steps |-> steps, crashes |-> crashes]
TwoRuns == {Bounds(2, 2, 2, 0, 0)}
Defaults == {Switches}
=============================================================================
