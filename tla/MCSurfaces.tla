------------------------------ MODULE MCSurfaces ------------------------------
(***************************************************************************)
(* Surfaces on small instances of its components.                          *)
(***************************************************************************)
EXTENDS Surfaces, TLC

\* Plans whose steps differ in kind, and the batches of tools an answer may call.
Step(kind, status, needs) == [kind |-> kind, state |-> status, deps |-> needs]
Running(steps) == [state |-> "running", steps |-> steps]
AgentPlans == {Running(<<Step("tool", "pending", {}), Step("tool", "pending", {1})>>),
               Running(<<Step("user_input", "pending", {})>>),
               Running(<<Step("manual", "pending", {}), Step("checkpoint", "pending", {1})>>),
               Running(<<Step("manual", "skipped", {}), Step("tool", "pending", {1})>>),
               Running(<<Step("manual", "running", {})>>),
               [state |-> "paused", steps |-> <<Step("tool", "pending", {})>>]}
AgentBatches == {<<>>, <<"goal_complete">>, <<"await_user_input">>, <<"todo">>, <<"update_plan">>,
                 <<"read", "read">>, <<"read", "goal_complete">>, <<"await_user_input", "todo">>}

\* Two messages that make runs, of two senders, and one the adapter drops.
Message(sender, chat, mentioned, text) ==
  [channel |-> "telegram", sender |-> sender, chat |-> chat,
   account |-> IF chat = "group" THEN "chat2" ELSE "chat1",
   mentioned |-> mentioned, allowed |-> TRUE, text |-> text]
ChannelMessages ==
     "m1" :> Message("ann", "direct", FALSE, "hello") @@ "m2" :> Message("bob", "group", TRUE, "hello")
  @@ "m3" :> Message("bob", "group", FALSE, "hello")
Binding(agent, channel, peer, kind, account) ==
  [agent |-> agent, channel |-> channel, peer |-> peer, kind |-> kind, account |-> account]
RouteBindings ==
  {<<>>, <<Binding("a", "none", "none", "none", "chat1"), Binding("b", "telegram", "ann", "none", "none")>>}

\* Three directories; the last is one of the program's own.
ProjectAt(manifest, top, other, own) == [manifest |-> manifest, agent |-> <<top, other, own>>]
ProjectStarts == {ProjectAt("default", "plain", "gone", "gone"), ProjectAt("none", "empty", "plain", "plain"),
                  ProjectAt("default", "bare", "entry", "gone")}

=============================================================================
