------------------------------- MODULE Reload -------------------------------
(***************************************************************************)
(* The hot reload of a project: the directory on disk, the watcher that    *)
(* sees it change (startup/project_watcher.go), the load of a project      *)
(* (registry, config), and the updater that puts it in force part by part  *)
(* (startup/runtime_updater.go, runtime/spec.go).  A configuration saved   *)
(* through the gateway takes the same updater, beside the watcher.         *)
(*                                                                         *)
(* Directory 1 is the project's root.  A directory holds no agent.md       *)
(* ("empty"), or one that is "plain", an "entry", a "twin" that gives the  *)
(* root agent's ID, "bare" of a model, or "broken"; "gone" is a directory  *)
(* that is not there.                                                      *)
(***************************************************************************)
EXTENDS Naturals, Sequences, SequencesExt, FiniteSetsExt

CONSTANTS
  Dirs,         \* 1..n
  Artifacts,    \* those whose names the program keeps to itself: anyai, dist, artifacts-...
  Starts,       \* what the project may look like when the program starts
  Contents,     \* what an edit may leave in a directory
  Manifests,    \* and in the manifest
  MaxEdits,     \* edits of the project and saves of the configuration, in all
  MaxReloads    \* reloads under way at once

Root == 1

VARIABLES
  disk,         \* [manifest |-> content, agent |-> [Dirs -> content]]
  watched,      \* the directories inotify watches
  noticed,      \* the events the watcher has not taken
  armed,        \* the debounce timer runs
  reloads,      \* the reloads under way, oldest first
  deps,         \* the DependencySet: config, providers, resources, skills
  router,       \* the gateway's bindings and fallback
  result,       \* what Result.Config answers
  fallback,     \* the entry agent the launch named
  edits,        \* how much has been done
  uncatalogued, \* the last project put in force came without its catalogue
  unseen,       \* a file was put where no watch was yet
  overlapped    \* two reloads have been under way at once, or a save was made

vars == <<disk, watched, noticed, armed, reloads, deps, router, result, fallback,
          edits, uncatalogued, unseen, overlapped>>

-----------------------------------------------------------------------------
(* Loading a project. *)

ScanSkips(at) == at \in Artifacts
AgentFiles(d) == {at \in Dirs: d.agent[at] \notin {"gone", "empty"} /\ ~ScanSkips(at)}
IdOf(d, at) == IF d.agent[at] = "twin" THEN Root ELSE at

\* The manifest parses, the values it leaves out take their defaults, and the others are
\* known to the program.
ManifestRead(d) == d.manifest # "garbled"
ManifestAccepted(d) == d.manifest # "refused"
ProvidersBuilt(d) == d.manifest # "headers"
HasDefaultModel(d) == d.manifest = "default"

\* Every agent parses, has a model and an ID of its own, and one at most is the entry.
AgentsAccepted(d) ==
  /\ \A at \in AgentFiles(d): d.agent[at] # "broken" /\ (d.agent[at] = "bare" => HasDefaultModel(d))
  /\ \A a, b \in AgentFiles(d): a # b => IdOf(d, a) # IdOf(d, b)
  /\ \A a, b \in AgentFiles(d): d.agent[a] = "entry" /\ d.agent[b] = "entry" => a = b

Loadable(d) ==
  /\ ManifestRead(d) /\ ManifestAccepted(d)
  /\ AgentFiles(d) # {} /\ AgentsAccepted(d)
  /\ ProvidersBuilt(d)

UniqueEntry(d) == {IdOf(d, at) : at \in {b \in AgentFiles(d): d.agent[b] = "entry"}}
RootAgent(d) == {IdOf(d, Root) : at \in AgentFiles(d) \cap {Root}}
OnlyAgent(d) == {IdOf(d, at) : at \in {only \in Dirs: AgentFiles(d) = {only}}}

\* The agent that answers a launch that names none.
SelectEntry(d) ==
  IF UniqueEntry(d) # {} THEN UniqueEntry(d)
  ELSE IF RootAgent(d) # {} THEN RootAgent(d) ELSE OnlyAgent(d)

\* The entry comes first, or the least ID; cli and http are bound to the first.
RuntimeConfig(d) ==
  LET ids == {IdOf(d, at) : at \in AgentFiles(d)}
      entry == IF UniqueEntry(d) # {} THEN UniqueEntry(d)
               ELSE IF OnlyAgent(d) # {} THEN OnlyAgent(d) ELSE RootAgent(d)
  IN [agents |-> ids, first |-> IF entry # {} THEN CHOOSE a \in entry: TRUE ELSE Min(ids),
      manifest |-> d.manifest, from |-> [at \in AgentFiles(d) |-> d.agent[at]], entry |-> SelectEntry(d)]

-----------------------------------------------------------------------------
(* The file system and the watcher. *)

Event(kind, at) == [kind |-> kind, at |-> at]
Applies(part, config, built) == [part |-> part, config |-> config, built |-> built]

\* The directories among these that inotify is asked to watch.
ShouldIgnore(at) == at \in Artifacts
Watchable(dirs, d) == {at \in dirs: d.agent[at] # "gone" /\ ~ShouldIgnore(at)}

BuiltFrom(config) == [config |-> config, providers |-> config, resources |-> config, skills |-> config]

\* The launch reads the project, names its entry and builds every part from it.
Init ==
  /\ disk \in {d \in Starts: Loadable(d) /\ SelectEntry(d) # {}}
  /\ watched = Watchable(Dirs, disk)
  /\ noticed = <<>> /\ armed = FALSE /\ reloads = <<>>
  /\ LET config == RuntimeConfig(disk) IN
       /\ deps = BuiltFrom(config)
       /\ router = [bound |-> config.first, fallback |-> CHOOSE a \in SelectEntry(disk): TRUE]
       /\ result = config
       /\ fallback = CHOOSE a \in SelectEntry(disk): TRUE
  /\ edits = 0 /\ uncatalogued = FALSE /\ unseen = FALSE /\ overlapped = FALSE

Edits == edits < MaxEdits /\ edits' = edits + 1
InForce == <<deps, uncatalogued, router, result, fallback>>
Watching == <<watched, noticed, armed>>

\* An agent.md is written or removed; inotify tells of it if its directory is watched.
EditAgent(at, content) ==
  /\ Edits
  /\ disk.agent[at] # "gone" /\ disk.agent[at] # content
  /\ disk' = [disk EXCEPT !.agent[at] = content]
  /\ noticed' = IF at \in watched THEN Append(noticed, Event("file", at)) ELSE noticed
  /\ unseen' = (unseen \/ (at \notin watched /\ ~ShouldIgnore(at)))
  /\ UNCHANGED <<watched, armed, reloads, InForce, overlapped>>

EditManifest(content) ==
  /\ Edits /\ disk.manifest # content
  /\ disk' = [disk EXCEPT !.manifest = content]
  /\ noticed' = Append(noticed, Event("file", Root))
  /\ UNCHANGED <<watched, armed, reloads, InForce, unseen, overlapped>>

\* A new directory is told of by its parent's watch.
MakeDir(at) ==
  /\ Edits /\ disk.agent[at] = "gone"
  /\ disk' = [disk EXCEPT !.agent[at] = "empty"]
  /\ noticed' = Append(noticed, Event("mkdir", at))
  /\ UNCHANGED <<watched, armed, reloads, InForce, unseen, overlapped>>

\* A directory that goes takes its watch with it.
RemoveDir(at) ==
  /\ Edits /\ at # Root /\ disk.agent[at] # "gone"
  /\ disk' = [disk EXCEPT !.agent[at] = "gone"]
  /\ watched' = watched \ {at}
  /\ noticed' = Append(noticed, Event("gone", at))
  /\ UNCHANGED <<armed, reloads, InForce, unseen, overlapped>>

TriggersReload(event) == event.kind \in {"file", "gone"}

\* The watcher's loop takes an event: a new directory is watched, what it holds already
\* is not looked at; anything else starts the debounce again.
Notice ==
  /\ noticed # <<>>
  /\ LET event == Head(noticed) IN
       /\ watched' = IF event.kind = "mkdir" THEN watched \cup Watchable({event.at}, disk) ELSE watched
       /\ armed' = (armed \/ (~ShouldIgnore(event.at) /\ TriggersReload(event)))
  /\ noticed' = Tail(noticed)
  /\ UNCHANGED <<disk, reloads, InForce, edits, unseen, overlapped>>

\* The timer's callback runs in a goroutine of its own, whether or not another still runs.
DebounceEnds ==
  /\ armed /\ Len(reloads) < MaxReloads
  /\ armed' = FALSE
  /\ reloads' = Append(reloads, Applies("load", deps.config, FALSE))
  /\ overlapped' = (overlapped \/ reloads # <<>>)
  /\ UNCHANGED <<disk, watched, noticed, InForce, edits, unseen>>

-----------------------------------------------------------------------------
(* The reloads.  Each takes the parts in order; a run may start between any two. *)

Without(i) == RemoveAt(reloads, i)
GoesOn(i, part) == reloads' = [reloads EXCEPT ![i].part = part]

\* A project that does not load leaves everything as it is.
LoadFails(i) ==
  /\ reloads[i].part = "load" /\ ~Loadable(disk)
  /\ reloads' = Without(i)
  /\ UNCHANGED <<disk, Watching, InForce, edits, unseen, overlapped>>

\* Resources that cannot be built are warned of; the old ones stay beside the new config.
LoadSucceeds(i) ==
  /\ reloads[i].part = "load" /\ Loadable(disk)
  /\ \E built \in BOOLEAN:
       reloads' = [reloads EXCEPT ![i] = Applies("config", RuntimeConfig(disk), built)]
  /\ UNCHANGED <<disk, Watching, InForce, edits, unseen, overlapped>>

UpdateConfig(i) ==
  /\ reloads[i].part = "config"
  /\ deps' = [deps EXCEPT !.config = reloads[i].config]
  /\ GoesOn(i, "providers")
  /\ UNCHANGED <<disk, Watching, router, result, fallback, edits, uncatalogued, unseen, overlapped>>

SetProviders(i) ==
  /\ reloads[i].part = "providers"
  /\ deps' = [deps EXCEPT !.providers = reloads[i].config]
  /\ uncatalogued' = ~reloads[i].built
  /\ GoesOn(i, IF reloads[i].built THEN "resources" ELSE "gateway")
  /\ UNCHANGED <<disk, Watching, router, result, fallback, edits, unseen, overlapped>>

\* Faulty variant: the catalogue is kept while the agents are the same.
SetResourcesOfAgents(i) ==
  /\ reloads[i].part = "resources"
  /\ deps' = [deps EXCEPT !.resources = IF @.agents = reloads[i].config.agents THEN @ ELSE reloads[i].config]
  /\ GoesOn(i, "skills")
  /\ UNCHANGED <<disk, Watching, router, result, fallback, edits, uncatalogued, unseen, overlapped>>

SetResources(i) ==
  /\ reloads[i].part = "resources"
  /\ deps' = [deps EXCEPT !.resources = reloads[i].config]
  /\ GoesOn(i, "skills")
  /\ UNCHANGED <<disk, Watching, router, result, fallback, edits, uncatalogued, unseen, overlapped>>

SetSkills(i) ==
  /\ reloads[i].part = "skills"
  /\ deps' = [deps EXCEPT !.skills = reloads[i].config]
  /\ GoesOn(i, "gateway")
  /\ UNCHANGED <<disk, Watching, router, result, fallback, edits, uncatalogued, unseen, overlapped>>

\* Faulty variant: the bindings of the old configuration stay.
RouterKept(config) == [router EXCEPT !.fallback = fallback]
\* The router is built anew, with the fallback the launch named.
RouterOf(config) == [bound |-> config.first, fallback |-> fallback]

ApplyRuntimeConfig(i) ==
  /\ reloads[i].part = "gateway"
  /\ router' = RouterOf(reloads[i].config)
  /\ GoesOn(i, "result")
  /\ UNCHANGED <<disk, Watching, deps, result, fallback, edits, uncatalogued, unseen, overlapped>>

Applied(i) ==
  /\ reloads[i].part = "result"
  /\ result' = reloads[i].config
  /\ reloads' = Without(i)
  /\ UNCHANGED <<disk, Watching, deps, router, fallback, edits, uncatalogued, unseen, overlapped>>

\* The gateway saves a configuration, valid and derived from the one in force, and puts
\* it in force; the project's files do not hold it.
SaveConfig ==
  /\ Edits /\ Len(reloads) < MaxReloads
  /\ \E first \in deps.config.agents:
       reloads' = Append(reloads, Applies("config", [deps.config EXCEPT !.first = first], TRUE))
  /\ overlapped' = TRUE
  /\ UNCHANGED <<disk, Watching, InForce, unseen>>

-----------------------------------------------------------------------------
Reloads(i) ==
  \/ LoadFails(i) \/ LoadSucceeds(i) \/ UpdateConfig(i) \/ SetProviders(i)
  \/ SetResources(i) \/ SetSkills(i) \/ ApplyRuntimeConfig(i) \/ Applied(i)

SomeReload == \E i \in DOMAIN reloads: Reloads(i)

Next ==
  \/ \E at \in Dirs, content \in Contents: EditAgent(at, content)
  \/ \E content \in Manifests: EditManifest(content)
  \/ \E at \in Dirs: MakeDir(at) \/ RemoveDir(at)
  \/ Notice
  \/ DebounceEnds
  \/ SomeReload
  \/ SaveConfig

Spec == Init /\ [][Next]_vars

\* The watcher's goroutine, its timer and the callbacks it started are scheduled.
FairSpec == Spec /\ WF_vars(Notice) /\ WF_vars(DebounceEnds) /\ WF_vars(SomeReload)

-----------------------------------------------------------------------------
(* Properties. *)

\* Between reloads config, providers and result are of one project, the router binds an
\* agent of it, its entry if it has one, and falls back to one unless the project has lost
\* the launch's.  Resources and skills are of that project too, except that a project whose
\* catalogue could not be built leaves those of an earlier one, both of the same.
\* Excepted are reloads that have run at once.
PartsAgree ==
  reloads = <<>> /\ ~overlapped =>
    /\ deps.providers = deps.config /\ result = deps.config
    /\ deps.skills = deps.resources
    /\ deps.resources # deps.config => uncatalogued
    /\ router.bound = deps.config.first
    /\ deps.config.entry \subseteq {router.bound}
    /\ router.fallback \notin deps.config.agents => fallback \notin deps.config.agents

\* What is on disk in the end is in force in the end, if it loads.  Excepted are files put
\* into a directory before it was watched, and reloads that have run at once.
UpToDate == Loadable(disk) /\ ~unseen /\ ~overlapped => deps.config = RuntimeConfig(disk)
EditsTakeEffect == <>[]UpToDate
=============================================================================
