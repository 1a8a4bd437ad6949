------------------------------ MODULE MCStorage ------------------------------
(***************************************************************************)
(* Storage on small instances of its components.                           *)
(***************************************************************************)
EXTENDS Storage

\* What an event may name: its session and a child of it.
RecordedPayloads == {[session_id |-> "s1", child |-> "s2"]}

\* Failures with crashes, two restarts, an overlapping rebuild, one after a failure, and a follower.
RecorderBudgets ==
  {[events |-> 2, failures |-> 1, crashes |-> 1, rebuilds |-> 0, follows |-> 0],
   [events |-> 2, failures |-> 0, crashes |-> 2, rebuilds |-> 0, follows |-> 0],
   [events |-> 2, failures |-> 0, crashes |-> 1, rebuilds |-> 1, follows |-> 0],
   [events |-> 1, failures |-> 1, crashes |-> 0, rebuilds |-> 1, follows |-> 0],
   [events |-> 2, failures |-> 0, crashes |-> 0, rebuilds |-> 0, follows |-> 1]}

Bounds(appends, compactions, failures, crashes, deletions, rebuilds) ==
  [entries |-> appends, compactions |-> compactions, failures |-> failures,
   crashes |-> crashes, deletions |-> deletions, rebuilds |-> rebuilds]
StoreBounds == {Bounds(5, 2, 1, 0, 0, 0), Bounds(5, 1, 0, 1, 0, 0), Bounds(5, 1, 0, 0, 1, 1),
                Bounds(4, 1, 0, 1, 0, 1)}

TalkBounds(questions, requests, calls, steps, crashes) ==
  [questions |-> questions, requests |-> requests, calls |-> calls, steps |-> steps, crashes |-> crashes]
TalkBudgets == {TalkBounds(2, 2, 2, 0, 0), TalkBounds(2, 2, 1, 1, 1), TalkBounds(2, 3, 1, 0, 0)}

HygieneSettings == {{}, {"meta"}}
TwiceEach == [t \in {"task"} |-> 2]
OwnerOf == [t \in {"t1"} |-> "s1"]
=============================================================================
