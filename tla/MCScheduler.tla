---------------------------- MODULE MCScheduler -----------------------------
(* Instances of Scheduler for TLC: jobs of one name. *)
EXTENDS Scheduler
NoneOrOne == {<<>>, <<"j1">>}
=============================================================================
