------------------------------- MODULE AllSettled -------------------------------
(***************************************************************************)
(* What a join promises its caller (docs of Runtime.JoinAllSettled,        *)
(* src/internal/runtime/task/runtime.go): every child settles once, in any *)
(* order, and the caller goes on once all of them have.                    *)
(***************************************************************************)
CONSTANT Children

VARIABLES
  open,      \* the children that have not settled
  returned   \* the caller has its results

vars == <<open, returned>>

Init == open = Children /\ returned = FALSE

Settle(i) == open' = open \ {i} /\ UNCHANGED returned

Return == open = {} /\ returned' = TRUE /\ UNCHANGED open

Next == (\E i \in open : Settle(i)) \/ Return

Spec == Init /\ [][Next]_vars
================================================================================
