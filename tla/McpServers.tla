----------------------------- MODULE McpServers -----------------------------
(***************************************************************************)
(* MCP servers (internal/runtime/mcp, cmd/mcp.go): configuration files in  *)
(* a shared and a private directory, the catalog a reload builds of them,  *)
(* and the manager of each run of the agent, which connects to the servers *)
(* one after the other while the run is built, offers their tools, and     *)
(* closes the sessions when the run ends.                                  *)
(***************************************************************************)
EXTENDS Naturals, FiniteSets

CONSTANTS
  Servers,   \* names, as mergeServerLayers compares them: trimmed, in lower case
  Tools,     \* what each server offers
  Narrow,    \* what a narrow policy allows of them
  Runs,      \* builds of the agent's runtime, for a run or for a manual compaction
  MaxEdits   \* bound on changes of the files and of the servers

VARIABLES
  files,     \* scope -> server -> what its file holds
  inherits,  \* AgentConfig.InheritSharedMCPs
  catalog,   \* Catalog.agentServers of the agent
  tools,     \* Catalog.toolsByAgent of the agent
  up,        \* the servers that answer
  manager,   \* per run: its Manager
  changes    \* how many changes there have been

vars == <<files, inherits, catalog, tools, up, manager, changes>>

Scopes   == {"shared", "private"}
Policies == {"open", "narrow"}
Contents == Policies \cup {"absent", "garbled", "invalid", "disabled"}

\* serverAllowsTool, the same when tools are listed and when one is called.
Allowed(policy) == IF policy = "open" THEN Tools ELSE Narrow

\* LoadDir skips what it cannot parse, what validateServerConfig refuses and what is disabled.
LoadDir(scope) == [s \in Servers |-> IF files[scope][s] \in Policies THEN files[scope][s] ELSE "none"]

\* mergeServerLayers: the later layer replaces the earlier one, server by server.  A disabled
\* private file is skipped, so the shared server stays.
Merged(earlier, later) == [s \in Servers |-> IF later[s] # "none" THEN later[s] ELSE earlier[s]]

NoServers == [s \in Servers |-> "none"]
BuildCatalog == Merged(IF inherits THEN LoadDir("shared") ELSE NoServers, LoadDir("private"))

NewManager == [stage |-> "none", servers |-> NoServers, todo |-> {},
               session |-> [s \in Servers |-> "none"], offered |-> {}]

Init ==
  /\ files \in {[shared |-> [s \in Servers |-> "open"], private |-> private] :
                  private \in [Servers -> {"absent", "narrow"}]}
  /\ inherits \in BOOLEAN
  /\ catalog = BuildCatalog
  /\ tools = {} /\ up = Servers
  /\ manager = [r \in Runs |-> NewManager]
  /\ changes = 0

-----------------------------------------------------------------------------
(* Files and servers. *)

Change == changes < MaxEdits /\ changes' = changes + 1

\* runMCPInstallWithOptions: over an existing file only by force; what it writes has no
\* policy.
Install(scope, s, force) ==
  /\ Change
  /\ force \/ files[scope][s] = "absent"
  /\ files' = [files EXCEPT ![scope][s] = "open"]
  /\ UNCHANGED <<inherits, catalog, tools, up, manager>>

\* Somebody edits a file.
Edit(scope, s, content) ==
  /\ Change /\ files[scope][s] # content
  /\ files' = [files EXCEPT ![scope][s] = content]
  /\ UNCHANGED <<inherits, catalog, tools, up, manager>>

\* A reload replaces the catalog; the runs keep the manager they were built with.
Reload ==
  /\ catalog # BuildCatalog
  /\ catalog' = BuildCatalog /\ tools' = {}
  /\ UNCHANGED <<files, inherits, up, manager, changes>>

\* A server that goes down takes its sessions along.
ServerDies(s) ==
  /\ Change /\ s \in up /\ up' = up \ {s}
  /\ manager' = [r \in Runs |-> [manager[r] EXCEPT !.session[s] = IF @ = "live" THEN "dead" ELSE @]]
  /\ UNCHANGED <<files, inherits, catalog, tools>>

ServerReturns(s) ==
  /\ Change /\ s \notin up /\ up' = up \cup {s}
  /\ UNCHANGED <<files, inherits, catalog, tools, manager>>

-----------------------------------------------------------------------------
(* BuildAgentRuntimeFromDeps. *)

At(r, stage) == manager[r].stage = stage
Set(r, new) == manager' = [manager EXCEPT ![r] = new]

\* ManagerForAgent; then ListTools, which asks one server after the other.
Build(r) ==
  /\ At(r, "none")
  /\ LET todo == {s \in Servers : catalog[s] # "none"} IN
     Set(r, [NewManager EXCEPT !.stage = "listing", !.servers = catalog, !.todo = todo])
  /\ UNCHANGED <<files, inherits, catalog, tools, up, changes>>

Connecting(r) == \E s \in Servers : manager[r].session[s] = "connected"

\* ensureSession: a transport is opened, within the startup timeout.
Connect(r, s) ==
  /\ At(r, "listing") /\ s \in manager[r].todo /\ ~Connecting(r) /\ s \in up
  /\ Set(r, [manager[r] EXCEPT !.session[s] = "connected"])
  /\ UNCHANGED <<files, inherits, catalog, tools, up, changes>>

\* A server that cannot be reached in time is left out.
ConnectFails(r, s) ==
  /\ At(r, "listing") /\ s \in manager[r].todo /\ ~Connecting(r)
  /\ Set(r, [manager[r] EXCEPT !.todo = @ \ {s}])
  /\ UNCHANGED <<files, inherits, catalog, tools, up, changes>>

\* The rest of ensureSession: the tools the policy allows, under the name of the server.
ListServerTools(r, s) ==
  /\ manager[r].session[s] = "connected" /\ s \in up
  /\ Set(r, [manager[r] EXCEPT !.session[s] = "live", !.todo = @ \ {s},
               !.offered = @ \cup ({s} \X Allowed(manager[r].servers[s]))])
  /\ UNCHANGED <<files, inherits, catalog, tools, up, changes>>

\* Faulty variant: the session of a server that does not list its tools stays open.
ListFailsOpen(r, s) ==
  /\ manager[r].session[s] = "connected"
  /\ Set(r, [manager[r] EXCEPT !.session[s] = "live", !.todo = @ \ {s}])
  /\ UNCHANGED <<files, inherits, catalog, tools, up, changes>>

\* A session whose tools cannot be listed is closed.
ListFails(r, s) ==
  /\ manager[r].session[s] = "connected"
  /\ Set(r, [manager[r] EXCEPT !.session[s] = "none", !.todo = @ \ {s}])
  /\ UNCHANGED <<files, inherits, catalog, tools, up, changes>>

\* The tools go to the catalog and to the run's registry.  Nothing runs what a manual
\* compaction builds, nor a runtime that cannot be configured: its end never comes.
BuildEnds(r) ==
  /\ At(r, "listing") /\ manager[r].todo = {}
  /\ tools' = manager[r].offered
  /\ \E stage \in {"on", "never run"} : Set(r, [manager[r] EXCEPT !.stage = stage])
  /\ UNCHANGED <<files, inherits, catalog, up, changes>>

-----------------------------------------------------------------------------
(* The run. *)

\* Manager.CallTool: the server is looked up in the manager's own list, the policy asked
\* again, and the session of the build used, dead or alive.
CanCall(r, s, t) ==
  /\ manager[r].servers[s] # "none" /\ t \in Allowed(manager[r].servers[s])
  /\ manager[r].session[s] \in {"live", "dead"}

\* The AgentEnd hook: Manager.Close.
Close(r) ==
  /\ At(r, "on")
  /\ Set(r, [manager[r] EXCEPT !.stage = "over", !.session = [s \in Servers |-> "none"]])
  /\ UNCHANGED <<files, inherits, catalog, tools, up, changes>>

Next ==
  \/ \E scope \in Scopes, s \in Servers :
       \/ \E force \in BOOLEAN : Install(scope, s, force)
       \/ \E content \in Contents : Edit(scope, s, content)
  \/ Reload
  \/ \E s \in Servers : ServerDies(s) \/ ServerReturns(s)
  \/ \E r \in Runs :
       \/ Build(r) \/ BuildEnds(r) \/ Close(r)
       \/ \E s \in Servers : Connect(r, s) \/ ConnectFails(r, s) \/ ListServerTools(r, s) \/ ListFails(r, s)

Spec == Init /\ [][Next]_vars

-----------------------------------------------------------------------------
(* Properties. *)

\* Every tool a run offers has a session behind it and passes the policy of the moment the
\* run was built, whatever the files, the catalog and the servers have become since; a
\* server the run offers no tool of has no process on its account; and when the run is
\* over none is left.
ServersAreReleased ==
  \A r \in Runs :
    LET m == manager[r] IN
    /\ m.stage = "on" => \A s \in Servers, t \in Tools : <<s, t>> \in m.offered <=> CanCall(r, s, t)
    /\ m.stage = "over" => \A s \in Servers : m.session[s] = "none"
=============================================================================
