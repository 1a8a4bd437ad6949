------------------------------ MODULE MCSessionLane ------------------------------
(* Instances of SessionLane for TLC: three requests of one session.              *)
EXTENDS SessionLane, TLC

Settings(mode, drop, max) == [mode |-> mode, drop |-> drop, max |-> max]

Followup == {Settings("followup", "summarize", 1)}
Reloaded == {Settings("collect", "summarize", 1),
             Settings("followup", "drop_newest", 2),
             Settings("interrupt", "drop_oldest", 1)}

\* The requests of the runs that check safety alone are interchangeable.
Symmetry == Permutations(Requests)
================================================================================
