------------------------------ MODULE MCAgentRun ------------------------------
(***************************************************************************)
(* Four turns, two attempts, and the plans whose steps differ in kind.     *)
(***************************************************************************)
EXTENDS AgentRun

Step(kind, state, deps) == [kind |-> kind, state |-> state, deps |-> deps]
Running(steps) == [state |-> "running", steps |-> steps]

MCPlans == {Running(<<Step("tool", "pending", {}), Step("tool", "pending", {1})>>),
            Running(<<Step("user_input", "pending", {})>>),
            Running(<<Step("manual", "pending", {}), Step("checkpoint", "pending", {1})>>),
            Running(<<Step("manual", "skipped", {}), Step("tool", "pending", {1})>>),
            Running(<<Step("manual", "running", {})>>),
            [state |-> "paused", steps |-> <<Step("tool", "pending", {})>>]}

MCBatches == {<<>>, <<"goal_complete">>, <<"await_user_input">>, <<"todo">>, <<"update_plan">>,
              <<"read", "read">>, <<"read", "goal_complete">>, <<"await_user_input", "todo">>}
=============================================================================
