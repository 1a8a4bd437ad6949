----------------------------- MODULE MCTaskRuntime -----------------------------
(* Instances of TaskRuntime for TLC: two tasks of a run.                      *)
EXTENDS TaskRuntime, TLC

TwiceEach  == [t \in Tasks |-> 2]

\* The tasks of the runs that check safety alone are interchangeable.
Symmetry == Permutations(Tasks)
================================================================================
