----------------------------- MODULE Processes ------------------------------
(***************************************************************************)
(* The commands one agent run executes (internal/runtime/tool/             *)
(* process_exec.go).  A command is a shell in a process group of its own,  *)
(* which may leave a child behind; the tool then has to decide whether the *)
(* child is a service for later calls of the run or a leftover, and the    *)
(* BackgroundProcessManager kills at the end of the run what was kept.     *)
(***************************************************************************)
EXTENDS Naturals, FiniteSets

CONSTANTS Commands

VARIABLES
  input,        \* command -> its [background, ampersand, waits, cleanup]
  group,        \* command -> what lives in its process group: "shell", "child"
  exit,         \* command -> how its shell ended
  call,         \* command -> where the tool call is
  ctxDone,      \* command -> its context is done: timeout or cancelled run
  result,       \* command -> what the model was told
  killed,       \* the commands whose group was killed
  cmds,         \* BackgroundProcessManager.cmds
  run           \* the agent run: "on", "cancelled", "over"

vars == <<input, group, exit, call, ctxDone, result, killed, cmds, run>>

Inputs == [background: BOOLEAN, ampersand: BOOLEAN, waits: BOOLEAN, cleanup: {"run_end", "none"}]
Foreground == [background |-> FALSE, ampersand |-> FALSE, waits |-> FALSE, cleanup |-> "run_end"]

\* The call asks for it, or the command line shows it.
MayDetach(c) == input[c].background \/ input[c].ampersand

Init ==
  /\ input = [c \in Commands |-> Foreground]
  /\ group = [c \in Commands |-> {}]
  /\ exit = [c \in Commands |-> "none"]
  /\ call = [c \in Commands |-> "none"]
  /\ ctxDone = [c \in Commands |-> FALSE]
  /\ result = [c \in Commands |-> "none"]
  /\ killed = {} /\ cmds = {} /\ run = "on"

Underway == {c \in Commands: call[c] \in {"running", "exited", "ready?"}}

\* Commands are external I/O: a run executes them one after the other.
Start(c) ==
  /\ run = "on" /\ call[c] = "none" /\ Underway = {}
  /\ \E in \in Inputs: input' = [input EXCEPT ![c] = in]
  /\ group' = [group EXCEPT ![c] = {"shell"}]
  /\ call' = [call EXCEPT ![c] = "running"]
  /\ UNCHANGED <<exit, ctxDone, result, killed, cmds, run>>

-----------------------------------------------------------------------------
(* The processes. *)

ShellSpawns(c) ==
  /\ "shell" \in group[c] /\ "child" \notin group[c]
  /\ group' = [group EXCEPT ![c] = @ \cup {"child"}]
  /\ UNCHANGED <<input, exit, call, ctxDone, result, killed, cmds, run>>

ChildEnds(c) ==
  /\ "child" \in group[c]
  /\ group' = [group EXCEPT ![c] = @ \ {"child"}]
  /\ UNCHANGED <<input, exit, call, ctxDone, result, killed, cmds, run>>

ShellExits(c) ==
  /\ "shell" \in group[c]
  /\ group' = [group EXCEPT ![c] = @ \ {"shell"}]
  /\ \E e \in {"ok", "failed"}: exit' = [exit EXCEPT ![c] = e]
  /\ call' = [call EXCEPT ![c] = "exited"]
  /\ UNCHANGED <<input, ctxDone, result, killed, cmds, run>>

\* Faulty variant: only the shell is killed.
KillShell(set) ==
  /\ group' = [c \in Commands |-> IF c \in set THEN group[c] \ {"shell"} ELSE group[c]]
  /\ killed' = killed \cup set
\* killManagedProcessGroup
Kill(set) ==
  /\ group' = [c \in Commands |-> IF c \in set THEN {} ELSE group[c]]
  /\ killed' = killed \cup set

\* The contexts of the commands end; a shell that still runs is killed with its group.
ContextsEnd(set) ==
  LET running == {c \in set: "shell" \in group[c]} IN
  /\ ctxDone' = [c \in Commands |-> ctxDone[c] \/ c \in set]
  /\ Kill(running)
  /\ exit' = [c \in Commands |-> IF c \in running THEN "killed" ELSE exit[c]]
  /\ call' = [c \in Commands |-> IF c \in running THEN "exited" ELSE call[c]]

TimesOut(c) ==
  /\ c \in Underway /\ ~ctxDone[c]
  /\ ContextsEnd({c})
  /\ UNCHANGED <<input, result, cmds, run>>

RunCancelled ==
  /\ run = "on" /\ run' = "cancelled"
  /\ ContextsEnd(Underway)
  /\ UNCHANGED <<input, result, cmds>>

-----------------------------------------------------------------------------
(* handleManagedCommandCompletion *)

Told(c, r) == call' = [call EXCEPT ![c] = "over"] /\ result' = [result EXCEPT ![c] = r]

\* The child is kept: for good, or under the run's manager.
Detach(c) ==
  /\ Told(c, "detached")
  /\ cmds' = IF input[c].cleanup = "none" THEN cmds ELSE cmds \cup {c}
  /\ UNCHANGED <<group, killed>>

\* Nothing is looked for behind a command that failed or does not show a background process.
Unwatched(c) == exit[c] # "ok" \/ ~MayDetach(c)

Complete(c) ==
  /\ call[c] = "exited"
  /\ CASE Unwatched(c) \/ group[c] = {} ->
            /\ Told(c, IF exit[c] = "ok" THEN "ok" ELSE "error")
            /\ UNCHANGED <<group, killed, cmds>>
       [] ~Unwatched(c) /\ group[c] # {} /\ ctxDone[c] ->
            Told(c, "ok") /\ Kill({c}) /\ UNCHANGED cmds
       [] ~Unwatched(c) /\ group[c] # {} /\ ~ctxDone[c] /\ input[c].waits ->
            call' = [call EXCEPT ![c] = "ready?"] /\ UNCHANGED <<group, killed, cmds, result>>
       [] OTHER -> Detach(c)
  /\ UNCHANGED <<input, exit, ctxDone, run>>

\* The readiness check passes, whoever answers it.
Ready(c) ==
  /\ call[c] = "ready?"
  /\ Detach(c)
  /\ UNCHANGED <<input, exit, ctxDone, run>>

\* It does not pass in time, or the context ends.
NotReady(c) ==
  /\ call[c] = "ready?"
  /\ Kill({c}) /\ Told(c, "error")
  /\ UNCHANGED <<input, exit, ctxDone, cmds, run>>

-----------------------------------------------------------------------------
\* finalize: the run waits for its calls, then the manager's groups are killed.
Cleanup ==
  /\ run # "over" /\ run' = "over"
  /\ Underway = {}
  /\ Kill(cmds) /\ cmds' = {}
  /\ UNCHANGED <<input, exit, call, ctxDone, result>>

Next ==
  \/ \E c \in Commands:
       \/ Start(c) \/ ShellSpawns(c) \/ ChildEnds(c) \/ ShellExits(c) \/ TimesOut(c)
       \/ Complete(c) \/ Ready(c) \/ NotReady(c)
  \/ RunCancelled \/ Cleanup

Spec == Init /\ [][Next]_vars

-----------------------------------------------------------------------------
(* Properties. *)

\* Of the processes that a command may be seen to leave behind, none outlives the run unless
\* the call asked for it, and none the model was told of is killed while the run goes on.
ChildrenAreOwned ==
  \A c \in Commands:
    /\ run = "over" /\ group[c] # {} => input[c].cleanup = "none" \/ Unwatched(c)
    /\ run # "over" /\ result[c] = "detached" => c \notin killed
    /\ result[c] = "error" /\ exit[c] # "failed" => group[c] = {}
=============================================================================
