---------------------------- MODULE ServicesProofs ----------------------------
(***************************************************************************)
(* What the components beside the run promise, for every value of their    *)
(* constants.                                                              *)
(***************************************************************************)
EXTENDS Services, QueueLemmas, FiniteSetTheorems

-----------------------------------------------------------------------------
(* SessionLane: the queue in collect mode, the default one.                                      *)

\* The settings a reload may install collect and agree on the limit.
Collecting(max) == \A c \in LaneConfigs : c \in Lane!SessionConfig /\ c.mode = "collect" /\ c.max = max

LaneInv(max) ==
  /\ config \in LaneConfigs
  /\ lanePending \in Seq(LaneRequests)
  /\ laneCfg \in [LaneRequests -> LaneConfigs]
  /\ max > 0 => Len(lanePending) <= max

\* What the drop loop retains of a queue is within the limit, whichever end it drops from.
LEMMA RetainedWithinLimit ==
  ASSUME NEW max \in Nat, config \in Lane!SessionConfig, config.max = max,
         NEW q \in Seq(LaneRequests)
  PROVE  Lane!Retained(q) \in Seq(LaneRequests) /\ (max > 0 => Len(Lane!Retained(q)) <= max)
<1>1. Lane!Overflow(q) \in 0..Len(q) /\ (max > 0 => Len(q) - Lane!Overflow(q) <= max)
  BY DEF Lane!Overflow
<1>2. /\ SubSeq(q, 1, Len(q) - Lane!Overflow(q)) \in Seq(LaneRequests)
      /\ Len(SubSeq(q, 1, Len(q) - Lane!Overflow(q))) = Len(q) - Lane!Overflow(q)
  BY <1>1
<1>3. /\ SubSeq(q, Lane!Overflow(q) + 1, Len(q)) \in Seq(LaneRequests)
      /\ Len(SubSeq(q, Lane!Overflow(q) + 1, Len(q))) = Len(q) - Lane!Overflow(q)
  BY <1>1
<1> QED
  BY <1>1, <1>2, <1>3 DEF Lane!Retained

LEMMA LaneStep ==
  ASSUME NEW max \in Nat, Collecting(max), LaneInv(max), [Lane!Next]_laneVars
  PROVE  LaneInv(max)'
<1> USE DEF LaneInv, Lane!lane, Lane!finisher
<1>0. config.mode = "collect" /\ \A r \in LaneRequests : laneCfg[r].mode = "collect"
  BY DEF Collecting
<1>1. CASE UNCHANGED <<lanePending, laneCfg>> /\ config' \in LaneConfigs
  BY <1>1
<1>2. ASSUME NEW r \in LaneRequests, Lane!SubmitIdle(r) PROVE LaneInv(max)'
  BY <1>2 DEF Lane!SubmitIdle, Lane!Accept, Lane!Dispatch
<1>3. ASSUME NEW r \in LaneRequests, Lane!SubmitEnqueue(r) PROVE LaneInv(max)'
  <2>1. /\ lanePending' = Lane!Retained(Append(lanePending, r)) /\ config' = config
        /\ laneCfg' = [laneCfg EXCEPT ![r] = config]
    BY <1>3 DEF Lane!SubmitEnqueue, Lane!Accept
  <2>2. /\ config \in Lane!SessionConfig /\ config.max = max
        /\ Append(lanePending, r) \in Seq(LaneRequests)
    BY DEF Collecting
  <2> QED
    BY <2>1, <2>2, RetainedWithinLimit
<1>4. ASSUME NEW r \in LaneRequests, Lane!SubmitInterrupt(r) PROVE LaneInv(max)'
  BY <1>0, <1>4 DEF Lane!SubmitInterrupt
<1>5. ASSUME NEW r \in LaneRequests, Lane!TakePending(r) PROVE LaneInv(max)'
  <2>1. lanePending' = <<>> /\ UNCHANGED <<config, laneCfg>>
    BY <1>5 DEF Lane!TakePending
  <2> QED
    BY <2>1
<1>6. ASSUME NEW r \in LaneRequests, Lane!HandOffCollect(r) PROVE LaneInv(max)'
  BY <1>6 DEF Lane!HandOffCollect, Lane!Dispatch
<1>7. ASSUME NEW r \in LaneRequests, Lane!HandOffNext(r) PROVE LaneInv(max)'
  BY <1>0, <1>7 DEF Lane!HandOffNext
<1>8. CASE Lane!Reload
  BY <1>1, <1>8 DEF Lane!Reload
<1>9. ASSUME NEW r \in LaneRequests, Lane!Cancel(r) \/ Lane!Complete(r) \/ Lane!Run(r)
      PROVE  LaneInv(max)'
  BY <1>1, <1>9 DEF Lane!Cancel, Lane!Complete, Lane!CompleteClose, Lane!CompleteRecord, Lane!Run,
      Lane!Start, Lane!StartFails, Lane!RunEnds
<1>10. ASSUME NEW r \in LaneRequests,
              Lane!ReleaseIdle(r) \/ Lane!FilterOne(r) \/ Lane!NothingKept(r) \/ Lane!Merge(r)
       PROVE  LaneInv(max)'
  BY <1>1, <1>10 DEF Lane!ReleaseIdle, Lane!FilterOne, Lane!NothingKept, Lane!Merge
<1> QED
  <2>1. ASSUME NEW r \in LaneRequests, Lane!Finisher(r) PROVE LaneInv(max)'
    BY <1>5, <1>6, <1>7, <1>10, <2>1 DEF Lane!Finisher
  <2>2. UNCHANGED laneVars => LaneInv(max)'
    BY <1>1 DEF laneVars
  <2> QED
    BY <1>2, <1>3, <1>4, <1>8, <1>9, <2>1, <2>2 DEF Lane!Next, Lane!Submit

\* In collect mode, the default, and while reloads leave the limit as it is, what waits in the
\* queue of a lane is within the limit (QueueWithinLimit), for any requests, limit and drop
\* policies.  (In followup mode, and after a reload that lowers the limit, it is not.)
THEOREM QueueIsBounded ==
  ASSUME NEW max \in Nat, Collecting(max)
  PROVE  Spec => []QueueWithinLimit
<1> DEFINE Inv == subject = "lane" => LaneInv(max)
<1>1. Init => Inv
  <2> SUFFICES ASSUME Lane!Init PROVE LaneInv(max)
    BY DEF Init
  <2> QED
    BY DEF Lane!Init, LaneInv
<1>2. Inv /\ [Next]_vars => Inv'
  <2>1. ASSUME subject' = "lane", [Next]_vars
        PROVE  subject = "lane" /\ [Lane!Next]_laneVars
    BY <2>1 DEF Next, vars, OfLane, OfTerminal, OfGuard, OfFiles, OfProcesses, OfMcp, OfAgents,
        OfNodes, OfStream, OfScheduler, OfStreams, OfLogs
  <2> QED
    BY <2>1, LaneStep
<1>3. Inv => QueueWithinLimit
  BY DEF LaneInv, Collecting, QueueWithinLimit, Lane!QueueWithinLimit
<1> QED
  BY <1>1, <1>2, <1>3, PTL DEF Spec

-----------------------------------------------------------------------------
(* Processes: what lives in the group of a command follows from where its call is.               *)

Calling == {"none", "running", "exited", "ready?", "over"}
Exits   == {"none", "ok", "failed", "killed"}
Results == {"none", "ok", "error", "detached"}

ProcTypeOK ==
  /\ input \in [Commands -> Proc!Inputs]
  /\ group \in [Commands -> SUBSET {"shell", "child"}]
  /\ exit \in [Commands -> Exits]
  /\ command \in [Commands -> Calling]
  /\ commandDone \in [Commands -> BOOLEAN]
  /\ result \in [Commands -> Results]

\* A command that runs has its shell; a killed one has nothing left; what is left of one whose
\* call is over either shows no background process or was told to the model and is owned.
CommandInv(c) ==
  /\ "shell" \in group[c] <=> command[c] = "running"
  /\ command[c] = "none" => group[c] = {}
  /\ exit[c] = "none" <=> command[c] \in {"none", "running"}
  /\ result[c] # "none" <=> command[c] = "over"
  /\ exit[c] = "killed" => group[c] = {} /\ result[c] # "detached"
  /\ command[c] = "ready?" => ~Proc!Unwatched(c)
  /\ command[c] = "over" /\ group[c] # {} =>
       Proc!Unwatched(c) \/ (result[c] = "detached" /\ (input[c].cleanup = "none" \/ c \in cmds))
  /\ result[c] = "error" => exit[c] = "failed" \/ group[c] = {}
  /\ agentRun # "over" /\ c \in killed =>
       exit[c] = "killed" \/ (command[c] = "over" /\ result[c] # "detached")

ProcInv ==
  /\ ProcTypeOK
  /\ \A c \in Commands : CommandInv(c)
  /\ agentRun = "over" => cmds = {} /\ Proc!Underway = {}

LEMMA ProcStep ==
  ASSUME ProcInv, [Proc!Next]_processesVars
  PROVE  ProcInv'
<1> USE DEF ProcInv, ProcTypeOK, CommandInv, Calling, Exits, Results, Proc!Unwatched, Proc!MayDetach,
        Proc!Underway
<1>1. ASSUME NEW c \in Commands, Proc!Start(c) PROVE ProcInv'
  BY <1>1 DEF Proc!Start
<1>2. ASSUME NEW c \in Commands, Proc!ShellSpawns(c) \/ Proc!ChildEnds(c) PROVE ProcInv'
  BY <1>2 DEF Proc!ShellSpawns, Proc!ChildEnds
<1>3. ASSUME NEW c \in Commands, Proc!ShellExits(c) PROVE ProcInv'
  BY <1>3 DEF Proc!ShellExits
<1>4. ASSUME NEW c \in Commands, Proc!TimesOut(c) PROVE ProcInv'
  BY <1>4 DEF Proc!TimesOut, Proc!ContextsEnd, Proc!Kill
<1>5. ASSUME NEW c \in Commands, Proc!Complete(c) PROVE ProcInv'
  BY <1>5 DEF Proc!Complete, Proc!Told, Proc!Detach, Proc!Kill
<1>6. ASSUME NEW c \in Commands, Proc!Ready(c) PROVE ProcInv'
  BY <1>6 DEF Proc!Ready, Proc!Told, Proc!Detach
<1>7. ASSUME NEW c \in Commands, Proc!NotReady(c) PROVE ProcInv'
  BY <1>7 DEF Proc!NotReady, Proc!Told, Proc!Kill
<1>8. CASE Proc!RunCancelled
  BY <1>8 DEF Proc!RunCancelled, Proc!ContextsEnd, Proc!Kill
<1>9. CASE Proc!Cleanup
  BY <1>9 DEF Proc!Cleanup, Proc!Kill
<1>10. CASE UNCHANGED processesVars
  BY <1>10 DEF processesVars
<1> QED
  BY <1>1, <1>2, <1>3, <1>4, <1>5, <1>6, <1>7, <1>8, <1>9, <1>10 DEF Proc!Next

-----------------------------------------------------------------------------
(* McpServers: what a manager offers is what its sessions can serve.                             *)

Policed  == Mcp!Policies \cup {"none"}
Stages   == {"none", "listing", "on", "never run", "over"}
Links == {"none", "connected", "live", "dead"}

Managers == [stage : Stages, servers : [Servers -> Policed], todo : SUBSET Servers,
             session : [Servers -> Links], offered : SUBSET (Servers \X (Tools \cup Narrow))]

\* A session is of a server the manager has; it is open without being listed only while the
\* manager is still to hear of that server; and the tools offered are those of the listed ones.
ServerInv(m, s) ==
  /\ m.stage \in {"none", "over"} => m.session[s] = "none"
  /\ m.session[s] # "none" \/ s \in m.todo => m.servers[s] # "none"
  /\ m.session[s] = "connected" => m.stage = "listing" /\ s \in m.todo
  /\ s \in m.todo => m.session[s] \in {"none", "connected"}
  /\ \A t \in Tools : m.stage # "over" =>
       (<<s, t>> \in m.offered <=>
          t \in Mcp!Allowed(m.servers[s]) /\ m.session[s] \in {"live", "dead"})

ManagerInv(m) == m \in Managers /\ \A s \in Servers : ServerInv(m, s)

McpInv ==
  /\ catalog \in [Servers -> Policed]
  /\ manager \in [McpRuns -> Managers]
  /\ \A r \in McpRuns : ManagerInv(manager[r])

\* The catalog lists a policy or nothing for every server.
LEMMA CatalogType == Mcp!BuildCatalog \in [Servers -> Policed]
BY DEF Mcp!BuildCatalog, Mcp!Merged, Mcp!LoadDir, Mcp!NoServers, Policed

LEMMA ManagerMoves ==
  ASSUME McpInv, NEW r \in McpRuns, NEW new, Mcp!Set(r, new), ManagerInv(new), catalog' = catalog
  PROVE  McpInv'
BY DEF McpInv, ManagerInv, Mcp!Set

LEMMA McpStep ==
  ASSUME McpInv, [Mcp!Next]_mcpVars
  PROVE  McpInv'
<1>0. \A r \in McpRuns : ManagerInv(manager[r])
  BY DEF McpInv
<1>1. CASE \E scope \in Mcp!Scopes, s \in Servers :
             \/ \E force \in BOOLEAN : Mcp!Install(scope, s, force)
             \/ \E content \in Mcp!Contents : Mcp!Edit(scope, s, content)
  BY <1>1 DEF Mcp!Install, Mcp!Edit, McpInv
<1>2. CASE Mcp!Reload
  BY <1>2, CatalogType DEF Mcp!Reload, McpInv
<1>3. ASSUME NEW s \in Servers, Mcp!ServerDies(s) PROVE McpInv'
  <2> DEFINE Dead(m) == [m EXCEPT !.session[s] = IF @ = "live" THEN "dead" ELSE @]
  <2>1. ASSUME NEW m, ManagerInv(m) PROVE ManagerInv(Dead(m))
    BY <2>1 DEF ManagerInv, ServerInv, Managers, Links
  <2>2. \A r \in McpRuns : Dead(manager[r]) \in Managers /\ ManagerInv(Dead(manager[r]))
    BY <1>0, <2>1 DEF ManagerInv
  <2>3. manager' = [r \in McpRuns |-> Dead(manager[r])] /\ catalog' = catalog
    BY <1>3 DEF Mcp!ServerDies
  <2> HIDE DEF Dead
  <2> QED
    BY <2>2, <2>3 DEF McpInv
<1>4. CASE UNCHANGED <<catalog, manager>>
  BY <1>4 DEF McpInv
<1>5. ASSUME NEW r \in McpRuns, Mcp!Build(r) PROVE McpInv'
  <2> DEFINE todo == {s \in Servers : catalog[s] # "none"}
             new == [Mcp!NewManager EXCEPT !.stage = "listing", !.servers = catalog, !.todo = todo]
  <2>1. ManagerInv(new)
    BY DEF McpInv, ManagerInv, ServerInv, Managers, Mcp!NewManager, Mcp!NoServers, Stages, Links
  <2>2. Mcp!Set(r, new) /\ catalog' = catalog
    BY <1>5 DEF Mcp!Build
  <2> QED
    BY <2>1, <2>2, ManagerMoves
<1>6. ASSUME NEW r \in McpRuns, NEW to \in {"on", "never run"}, Mcp!At(r, "listing"),
             manager[r].todo = {}, Mcp!Set(r, [manager[r] EXCEPT !.stage = to]),
             catalog' = catalog
      PROVE  McpInv'
  <2>1. ManagerInv([manager[r] EXCEPT !.stage = to])
    BY <1>0, <1>6 DEF ManagerInv, ServerInv, Managers, Stages, Mcp!At
  <2> QED
    BY <1>6, <2>1, ManagerMoves
<1>7. ASSUME NEW r \in McpRuns, Mcp!Close(r) PROVE McpInv'
  <2> DEFINE new == [manager[r] EXCEPT !.stage = "over", !.session = [s \in Servers |-> "none"]]
  <2>1. manager[r].stage = "on"
    BY <1>7 DEF Mcp!Close, Mcp!At
  <2>2. new \in Managers
    BY <1>0 DEF ManagerInv, Managers, Stages, Links
  <2>3. ASSUME NEW u \in Servers PROVE ServerInv(new, u)
    BY <1>0, <2>1 DEF ManagerInv, ServerInv, Managers, Links
  <2>4. ManagerInv(new) /\ Mcp!Set(r, new) /\ catalog' = catalog
    BY <1>7, <2>2, <2>3 DEF ManagerInv, Mcp!Close
  <2> QED
    BY <2>4, ManagerMoves
<1>8. ASSUME NEW r \in McpRuns, NEW s \in Servers, Mcp!Connect(r, s) PROVE McpInv'
  <2>1. ManagerInv([manager[r] EXCEPT !.session[s] = "connected"])
    BY <1>0, <1>8 DEF ManagerInv, ServerInv, Managers, Links, Mcp!At, Mcp!Connect, Mcp!Connecting
  <2> QED
    BY <1>8, <2>1, ManagerMoves DEF Mcp!Connect
<1>9. ASSUME NEW r \in McpRuns, NEW s \in Servers, Mcp!ConnectFails(r, s) PROVE McpInv'
  <2>1. ManagerInv([manager[r] EXCEPT !.todo = @ \ {s}])
    BY <1>0, <1>9 DEF ManagerInv, ServerInv, Managers, Links, Mcp!At, Mcp!ConnectFails,
        Mcp!Connecting
  <2> QED
    BY <1>9, <2>1, ManagerMoves DEF Mcp!ConnectFails
<1>10. ASSUME NEW r \in McpRuns, NEW s \in Servers, Mcp!ListServerTools(r, s) PROVE McpInv'
  <2> DEFINE listed == {s} \X Mcp!Allowed(manager[r].servers[s])
             new == [manager[r] EXCEPT !.session[s] = "live", !.todo = @ \ {s},
                                       !.offered = @ \cup listed]
  <2>1. listed \subseteq Servers \X (Tools \cup Narrow)
    BY DEF Mcp!Allowed
  <2>2. \A u \in Servers, t \in Tools :
          <<u, t>> \in listed <=> u = s /\ t \in Mcp!Allowed(manager[r].servers[s])
    OBVIOUS
  <2>3. manager[r].session[s] = "connected"
    BY <1>10 DEF Mcp!ListServerTools
  <2> HIDE DEF listed
  <2>4. new \in Managers
    BY <1>0, <2>1 DEF ManagerInv, Managers, Links
  <2>5. ASSUME NEW u \in Servers PROVE ServerInv(new, u)
    BY <1>0, <2>2, <2>3 DEF ManagerInv, ServerInv, Managers, Links
  <2>6. ManagerInv(new)
    BY <2>4, <2>5 DEF ManagerInv
  <2>7. Mcp!Set(r, new) /\ catalog' = catalog
    BY <1>10 DEF Mcp!ListServerTools, listed
  <2> QED
    BY <2>6, <2>7, ManagerMoves
<1>11. ASSUME NEW r \in McpRuns, NEW s \in Servers, Mcp!ListFails(r, s) PROVE McpInv'
  <2> DEFINE new == [manager[r] EXCEPT !.session[s] = "none", !.todo = @ \ {s}]
  <2>1. manager[r].session[s] = "connected"
    BY <1>11 DEF Mcp!ListFails
  <2>2. new \in Managers
    BY <1>0 DEF ManagerInv, Managers, Links
  <2>3. ASSUME NEW u \in Servers PROVE ServerInv(new, u)
    BY <1>0, <2>1 DEF ManagerInv, ServerInv, Managers, Links
  <2>4. ManagerInv(new) /\ Mcp!Set(r, new) /\ catalog' = catalog
    BY <1>11, <2>2, <2>3 DEF ManagerInv, Mcp!ListFails
  <2> QED
    BY <2>4, ManagerMoves
<1> QED
  <2>1. ASSUME NEW s \in Servers, Mcp!ServerReturns(s) PROVE McpInv'
    BY <1>4, <2>1 DEF Mcp!ServerReturns
  <2>2. ASSUME NEW r \in McpRuns, Mcp!BuildEnds(r) PROVE McpInv'
    BY <1>6, <2>2 DEF Mcp!BuildEnds
  <2>3. UNCHANGED mcpVars => McpInv'
    BY <1>4 DEF mcpVars
  <2> QED
    BY <1>1, <1>2, <1>3, <1>5, <1>7, <1>8, <1>9, <1>10, <1>11, <2>1, <2>2, <2>3 DEF Mcp!Next

-----------------------------------------------------------------------------
(* Scheduler: one goroutine of each job may run.                                                 *)

Intervals   == Schedules \cup {"first"}
Goroutines  == [name : Names, schedule : Intervals, context : Nat, cancelled : BOOLEAN,
                at : {"waiting", "calling", "ended"}]
RunningJobs == [worker : Nat, schedule : Intervals, paused : BOOLEAN]

Jobs        == [name : Names, schedule : Intervals]

CronTypeOK ==
  /\ jobs \in Seq(Jobs)
  /\ running \in [DOMAIN running -> RunningJobs] /\ DOMAIN running \subseteq Names
  /\ latest \in Nat
  /\ workers \in Seq(Goroutines)

CronInv == CronTypeOK /\ Cron!OneOfEachRuns

\* A goroutine that the scheduler lists: what may still run of its name is it alone.
Listed(w) ==
  Cron!Live(w) =>
    /\ workers[w].name \in DOMAIN running
    /\ LET r == running[workers[w].name] IN
         r.worker = w /\ ~r.paused /\ r.schedule = workers[w].schedule

\* Start starts what is not running, each job under the number of its goroutine.
LEMMA StartAllKeeps ==
  ASSUME CronInv, NEW ctx \in Nat, Cron!StartAll(ctx), latest' \in Nat,
         UNCHANGED <<jobs, stopped>>
  PROVE  CronInv'
<1>0. jobs \in Seq(Jobs) /\ Len(workers) \in Nat /\ DOMAIN workers = 1..Len(workers)
  BY DEF CronInv, CronTypeOK
<1>1. PICK order \in Cron!InOrder(Cron!Startable) :
        LET Job(k) == jobs[order[k]]
            Of(n) == CHOOSE k \in DOMAIN order : Job(k).name = n IN
        /\ workers' = workers \o
             [k \in DOMAIN order |-> Cron!Goroutine(Job(k).name, Job(k).schedule, ctx)]
        /\ running' = [n \in DOMAIN running \cup {jobs[i].name : i \in Cron!Startable} |->
             IF n \in DOMAIN running THEN running[n]
             ELSE [worker |-> Len(workers) + Of(n), schedule |-> Job(Of(n)).schedule,
                   paused |-> FALSE]]
  BY DEF Cron!StartAll, Cron!Started
<1> DEFINE Job(k) == jobs[order[k]]
           Of(n) == CHOOSE k \in DOMAIN order : Job(k).name = n
           fresh == [k \in DOMAIN order |-> Cron!Goroutine(Job(k).name, Job(k).schedule, ctx)]
<1>2. PICK n \in Nat : order \in [1..n -> Cron!Startable]
  BY <1>1 DEF Cron!InOrder, CronInv, CronTypeOK
<1>3. /\ \A i \in Cron!Startable : \E k \in 1..n : order[k] = i
      /\ \A k, l \in 1..n : k < l => order[k] < order[l]
  BY <1>1, <1>2 DEF Cron!InOrder
<1>4. \A i \in Cron!Startable :
        /\ i \in DOMAIN jobs /\ i \in Nat /\ jobs[i].name \notin DOMAIN running
        /\ jobs[i] \in Jobs
  BY <1>0 DEF Cron!Startable, Cron!Started
<1>5. \A i, j \in Cron!Startable : jobs[i].name = jobs[j].name => i = j
  BY <1>0 DEF Cron!Startable
<1>6. ASSUME NEW k \in 1..n
      PROVE  /\ order[k] \in Cron!Startable /\ Job(k).name \notin DOMAIN running
             /\ Job(k) \in Jobs /\ Of(Job(k).name) = k
  <2>1. order[k] \in Cron!Startable
    BY <1>2
  <2>2. \A l \in 1..n : Job(l).name = Job(k).name => l = k
    BY <1>2, <1>3, <1>4, <1>5
  <2>3. Of(Job(k).name) \in 1..n /\ Job(Of(Job(k).name)).name = Job(k).name
    BY <1>2
  <2> QED
    BY <1>4, <2>1, <2>2, <2>3
<1>7. fresh \in Seq(Goroutines) /\ Len(fresh) = n
  <2>1. fresh \in [1..n -> Goroutines]
    BY <1>2, <1>6 DEF Jobs, Goroutines, Cron!Goroutine
  <2> QED
    BY <2>1
<1>8. workers' = workers \o fresh /\ workers \in Seq(Goroutines)
  BY <1>1 DEF CronInv, CronTypeOK
<1>9. \A k \in 1..n : fresh[k] = Cron!Goroutine(Job(k).name, Job(k).schedule, ctx)
  BY <1>2
<1>10. ASSUME NEW m \in {jobs[i].name : i \in Cron!Startable}
       PROVE  \E k \in 1..n : m = Job(k).name /\ Of(m) = k
  BY <1>3, <1>6
<1> HIDE DEF fresh, Of, Job
<1>11. /\ DOMAIN running' = DOMAIN running \cup {jobs[i].name : i \in Cron!Startable}
       /\ \A m \in DOMAIN running : running'[m] = running[m]
       /\ \A m \in {jobs[i].name : i \in Cron!Startable} \ DOMAIN running :
            running'[m] = [worker |-> Len(workers) + Of(m), schedule |-> Job(Of(m)).schedule,
                           paused |-> FALSE]
  BY <1>1 DEF Of, Job
<1>12. CronTypeOK'
  <2>1. \A m \in DOMAIN running' : running'[m] \in RunningJobs /\ m \in Names
    <3>1. ASSUME NEW m \in DOMAIN running PROVE running'[m] \in RunningJobs /\ m \in Names
      BY <1>11 DEF CronInv, CronTypeOK
    <3>2. ASSUME NEW m \in {jobs[i].name : i \in Cron!Startable}, m \notin DOMAIN running
          PROVE  running'[m] \in RunningJobs /\ m \in Names
      <4>1. PICK k \in 1..n : m = Job(k).name /\ Of(m) = k
        BY <1>10
      <4>2. Job(k) \in Jobs
        BY <1>6
      <4> QED
        <5>1. running'[m] = [worker |-> Len(workers) + k, schedule |-> Job(k).schedule,
                             paused |-> FALSE]
          BY <1>11, <3>2, <4>1
        <5>2. Len(workers) + k \in Nat
          BY <1>0
        <5> QED
          BY <4>1, <4>2, <5>1, <5>2 DEF Jobs, RunningJobs
    <3> QED
      BY <1>11, <3>1, <3>2
  <2>2. running' = [m \in DOMAIN running' |-> running'[m]]
    BY <1>1
  <2>3. running' \in [DOMAIN running' -> RunningJobs] /\ DOMAIN running' \subseteq Names
    BY <2>1, <2>2
  <2>4. workers' \in Seq(Goroutines)
    BY <1>7, <1>8
  <2> QED
    BY <2>3, <2>4 DEF CronInv, CronTypeOK
<1>13. ASSUME NEW w \in DOMAIN workers' PROVE Listed(w)'
  <2>1. CASE w \in DOMAIN workers
    <3>1. workers'[w] = workers[w]
      BY <1>7, <1>8, <2>1
    <3>2. Listed(w)
      BY <2>1 DEF CronInv, Cron!OneOfEachRuns, Cron!Started, Listed
    <3> QED
      BY <1>11, <3>1, <3>2 DEF Listed, Cron!Live
  <2>2. CASE w \notin DOMAIN workers
    <3> DEFINE k == w - Len(workers)
    <3>1. k \in 1..n /\ w = Len(workers) + k /\ workers'[w] = fresh[k]
      BY <1>0, <1>7, <1>8, <2>2
    <3> HIDE DEF k
    <3>0. fresh[k] = Cron!Goroutine(Job(k).name, Job(k).schedule, ctx)
      BY <1>9, <3>1
    <3>2. workers'[w].name = Job(k).name /\ workers'[w].schedule = Job(k).schedule
      BY <3>0, <3>1 DEF Cron!Goroutine
    <3>3. Job(k).name \in {jobs[i].name : i \in Cron!Startable} \ DOMAIN running
      BY <1>6, <3>1 DEF Job
    <3>4. Of(Job(k).name) = k
      BY <1>6, <3>1 DEF Of
    <3>5. running'[Job(k).name] = [worker |-> w, schedule |-> Job(k).schedule, paused |-> FALSE]
      BY <1>11, <3>1, <3>3, <3>4
    <3>6. Job(k).name \in DOMAIN running'
      BY <1>11, <3>3
    <3> QED
      BY <3>2, <3>5, <3>6 DEF Listed
  <2> QED
    BY <2>1, <2>2
<1> QED
  BY <1>12, <1>13 DEF CronInv, Cron!OneOfEachRuns, Cron!Started, Listed

\* A goroutine more for a name of which none may run.
LEMMA SpawnKeeps ==
  ASSUME CronInv, NEW name \in Names, NEW schedule \in Intervals, NEW list \in Seq(Goroutines),
         NEW entries \in [DOMAIN running -> RunningJobs],
         Len(list) = Len(workers),
         \A n \in DOMAIN running \ {name} : entries[n] = running[n],
         \A w \in DOMAIN workers :
           /\ list[w].name = workers[w].name
           /\ list[w] = workers[w] \/ list[w].cancelled
           /\ workers[w].name = name => ~Cron!Live(w) \/ list[w].cancelled,
         Cron!Becomes(Cron!Spawn([running |-> entries, workers |-> list], name, schedule, latest)),
         UNCHANGED <<latest, stopped>>, jobs' \in Seq(Jobs)
  PROVE  CronInv'
<1> DEFINE new == Cron!Goroutine(name, schedule, latest)
           entry == [worker |-> Len(list) + 1, schedule |-> schedule, paused |-> FALSE]
<1>1. workers' = Append(list, new)
  BY DEF Cron!Becomes, Cron!Spawn
<1>2. running' = [n \in DOMAIN running \cup {name} |-> IF n = name THEN entry ELSE entries[n]]
  BY DEF Cron!Becomes, Cron!Spawn
<1>3. new \in Goroutines /\ entry \in RunningJobs /\ new.name = name /\ new.schedule = schedule
  BY DEF CronInv, CronTypeOK, Goroutines, RunningJobs, Cron!Goroutine
<1>4. entry.worker = Len(list) + 1 /\ entry.schedule = schedule /\ ~entry.paused
  OBVIOUS
<1> HIDE DEF new, entry
<1>5. CronTypeOK'
  <2>1. running' \in [DOMAIN running' -> RunningJobs] /\ DOMAIN running' \subseteq Names
    BY <1>2, <1>3 DEF CronInv, CronTypeOK
  <2>2. workers' \in Seq(Goroutines)
    BY <1>1, <1>3
  <2> QED
    BY <2>1, <2>2 DEF CronInv, CronTypeOK
<1>6. ASSUME NEW w \in DOMAIN workers' PROVE Listed(w)'
  <2>1. CASE w = Len(list) + 1
    <3>1. workers'[w] = new
      BY <1>1, <2>1
    <3>2. running'[name] = entry /\ name \in DOMAIN running'
      BY <1>2
    <3> QED
      BY <1>3, <1>4, <2>1, <3>1, <3>2 DEF Listed
  <2>2. CASE w # Len(list) + 1
    <3>1. w \in DOMAIN workers /\ w \in DOMAIN list /\ workers'[w] = list[w]
      BY <1>1, <2>2 DEF CronInv, CronTypeOK
    <3>2. CASE workers[w].name = name
      BY <3>1, <3>2 DEF Listed, Cron!Live
    <3>3. CASE workers[w].name # name
      <4>1. Listed(w)
        BY <3>1 DEF CronInv, Cron!OneOfEachRuns, Cron!Started, Listed
      <4>2. Cron!Live(w)' => workers'[w] = workers[w] /\ Cron!Live(w)
        BY <3>1 DEF Cron!Live
      <4>3. workers[w].name \in DOMAIN running =>
              workers[w].name \in DOMAIN running' /\ running'[workers[w].name] = running[workers[w].name]
        BY <1>2, <3>3
      <4> QED
        BY <4>1, <4>2, <4>3 DEF Listed
    <3> QED
      BY <3>2, <3>3
  <2> QED
    BY <2>1, <2>2
<1> QED
  BY <1>5, <1>6 DEF CronInv, Cron!OneOfEachRuns, Cron!Started, Listed

\* The first job of a name is in the list.
LEMMA PositionIsFirst ==
  ASSUME jobs \in Seq(Jobs), NEW name, name \in Cron!Listed
  PROVE  Cron!Position(name) \in 1..Len(jobs) /\ jobs[Cron!Position(name)].name = name
<1> DEFINE T == {i \in 1..Len(jobs) : jobs[i].name = name}
<1>1. PICK m \in T : \A k \in T : m <= k
  <2>1. T \subseteq Nat /\ T # {}
    BY DEF Cron!Listed
  <2> QED
    BY <2>1, LeastOf
<1>2. m \in DOMAIN jobs /\ jobs[m].name = name /\ \A k \in 1..(m - 1) : jobs[k].name # name
  BY <1>1
<1> QED
  BY <1>2 DEF Cron!Position

\* Cancelling the goroutine of a name leaves none of that name that may run, and the others
\* as they are.
LEMMA CancelledOne ==
  ASSUME CronInv, NEW name \in DOMAIN running
  PROVE  LET list == Cron!Cancel(Cron!Current, name).workers IN
         /\ list \in Seq(Goroutines) /\ Len(list) = Len(workers)
         /\ \A w \in DOMAIN workers :
              /\ list[w].name = workers[w].name
              /\ list[w] = workers[w] \/ list[w].cancelled
              /\ workers[w].name = name => ~Cron!Live(w) \/ list[w].cancelled
<1> DEFINE v == running[name].worker
           list == [workers EXCEPT ![v].cancelled = TRUE]
<1>1. Cron!Cancel(Cron!Current, name).workers = list
  BY DEF Cron!Cancel, Cron!Current
<1>2. workers \in Seq(Goroutines)
  BY DEF CronInv, CronTypeOK
<1>3. \A w \in DOMAIN workers : list[w] = IF w = v THEN [workers[v] EXCEPT !.cancelled = TRUE] ELSE workers[w]
  BY <1>2
<1>4. list \in Seq(Goroutines) /\ Len(list) = Len(workers)
  <2>1. ASSUME NEW w \in DOMAIN workers PROVE list[w] \in Goroutines
    <3>1. workers[w] \in Goroutines
      BY <1>2
    <3>2. [workers[w] EXCEPT !.cancelled = TRUE] \in Goroutines
      BY <3>1 DEF Goroutines
    <3> QED
      BY <1>3, <3>1, <3>2
  <2>2. DOMAIN workers = 1..Len(workers)
    BY <1>2
  <2>3. list \in [1..Len(workers) -> Goroutines]
    BY <2>1, <2>2 DEF list
  <2> QED
    BY <1>2, <2>3
<1>5. \A w \in DOMAIN workers : Cron!Live(w) /\ workers[w].name = name => w = v
  BY DEF CronInv, Cron!OneOfEachRuns
<1>6. \A w \in DOMAIN workers : list[w].name = workers[w].name /\ (w = v => list[w].cancelled)
  <2>1. \A w \in DOMAIN workers : workers[w] \in Goroutines
    BY <1>2
  <2> QED
    BY <1>3, <2>1 DEF Goroutines
<1> QED
  BY <1>1, <1>3, <1>4, <1>5, <1>6

\* Every step of the scheduler keeps the invariant.
LEMMA CronStep ==
  ASSUME CronInv, [Cron!Next]_schedulerVars
  PROVE  CronInv'
<1>0. CronTypeOK /\ \A w \in DOMAIN workers : Listed(w)
  BY DEF CronInv, Cron!OneOfEachRuns, Cron!Started, Listed
<1>1. CASE Cron!StartConfigured
  BY <1>1, StartAllKeeps DEF Cron!StartConfigured
<1>2. CASE Cron!StartAdded
  <2>1. latest + 1 \in Nat
    BY <1>0 DEF CronTypeOK
  <2> QED
    BY <1>2, <2>1, StartAllKeeps DEF Cron!StartAdded
<1>3. CASE UNCHANGED <<running, latest, stopped, workers>> /\ jobs' \in Seq(Jobs)
  BY <1>3 DEF CronInv, CronTypeOK, Cron!OneOfEachRuns, Cron!Started, Cron!Live
<1>4. CASE Cron!Add
  <2>1. jobs' \in Seq(Jobs)
    BY <1>0, <1>4 DEF Cron!Add, CronTypeOK, Jobs, Intervals
  <2> QED
    BY <1>3, <1>4, <2>1 DEF Cron!Add
<1>5. ASSUME NEW name \in Names, Cron!RemoveJob(name) PROVE CronInv'
  <2> DEFINE list == Cron!Cancel(Cron!Current, name).workers
  <2>1. jobs' \in Seq(Jobs)
    <3>1. CASE name \in Cron!Listed
      <4>1. Cron!Position(name) \in 1..Len(jobs)
        BY <1>0, <3>1, PositionIsFirst DEF CronTypeOK
      <4>2. jobs' = Cron!RemoveAt(jobs, Cron!Position(name)) /\ jobs \in Seq(Jobs)
        BY <1>0, <1>5, <3>1 DEF Cron!RemoveJob, CronTypeOK
      <4> QED
        BY <4>1, <4>2 DEF Cron!RemoveAt
    <3>2. CASE name \notin Cron!Listed
      BY <1>0, <1>5, <3>2 DEF Cron!RemoveJob, CronTypeOK
    <3> QED
      BY <3>1, <3>2
  <2>2. UNCHANGED <<latest, stopped>> /\ running' = [n \in DOMAIN running \ {name} |-> running[n]]
    BY <1>5 DEF Cron!RemoveJob, Cron!Changing, Cron!Started
  <2>3. /\ workers' \in Seq(Goroutines) /\ DOMAIN workers' = DOMAIN workers
        /\ \A w \in DOMAIN workers :
             /\ workers'[w] = workers[w] \/ workers'[w].cancelled
             /\ workers[w].name = name => ~Cron!Live(w) \/ workers'[w].cancelled
    <3>1. CASE name \in DOMAIN running
      <4>1. workers' = list
        BY <1>5, <3>1 DEF Cron!RemoveJob, Cron!Started
      <4> HIDE DEF list
      <4>2. DOMAIN workers' = DOMAIN workers
        BY <1>0, <3>1, <4>1, CancelledOne DEF list, CronTypeOK
      <4> QED
        BY <3>1, <4>1, <4>2, CancelledOne DEF list
    <3>2. CASE name \notin DOMAIN running
      BY <1>0, <1>5, <3>2 DEF Cron!RemoveJob, Cron!Started, CronTypeOK, Listed
    <3> QED
      BY <3>1, <3>2
  <2>4. \A w \in DOMAIN workers' : Listed(w)'
    BY <1>0, <2>2, <2>3 DEF Listed, Cron!Live
  <2>5. CronTypeOK'
    BY <1>0, <2>1, <2>2, <2>3 DEF CronTypeOK
  <2> QED
    BY <2>4, <2>5 DEF CronInv, Cron!OneOfEachRuns, Cron!Started, Listed
<1>6. ASSUME NEW name \in Names, Cron!Pause(name) PROVE CronInv'
  <2>1. /\ UNCHANGED <<jobs, latest, stopped>> /\ name \in DOMAIN running
        /\ workers' = Cron!Cancel(Cron!Current, name).workers
        /\ running' = [running EXCEPT ![name].paused = TRUE]
    BY <1>6 DEF Cron!Pause, Cron!Changing, Cron!Started
  <2>2. /\ workers' \in Seq(Goroutines) /\ DOMAIN workers' = DOMAIN workers
        /\ \A w \in DOMAIN workers :
             /\ workers'[w] = workers[w] \/ workers'[w].cancelled
             /\ workers[w].name = name => ~Cron!Live(w) \/ workers'[w].cancelled
    <3>1. Len(workers') = Len(workers) /\ workers' \in Seq(Goroutines)
      BY <2>1, CancelledOne
    <3> QED
      BY <1>0, <2>1, <3>1, CancelledOne DEF CronTypeOK
  <2>3. /\ running' \in [DOMAIN running' -> RunningJobs] /\ DOMAIN running' = DOMAIN running
        /\ \A n \in DOMAIN running \ {name} : running'[n] = running[n]
    BY <1>0, <2>1 DEF CronTypeOK, RunningJobs
  <2>4. \A w \in DOMAIN workers' : Listed(w)'
    BY <1>0, <2>1, <2>2, <2>3 DEF Listed, Cron!Live
  <2>5. CronTypeOK'
    BY <1>0, <2>1, <2>2, <2>3 DEF CronTypeOK
  <2> QED
    BY <2>4, <2>5 DEF CronInv, Cron!OneOfEachRuns, Cron!Started, Listed
<1>7. ASSUME NEW name \in Names, Cron!Resume(name) PROVE CronInv'
  <2>1. /\ UNCHANGED <<jobs, latest, stopped>> /\ name \in DOMAIN running /\ running[name].paused
        /\ Cron!Becomes(Cron!Spawn(Cron!Current, name, running[name].schedule, latest))
    BY <1>7 DEF Cron!Resume, Cron!CanResume, Cron!Changing, Cron!Started
  <2>2. \A w \in DOMAIN workers : workers[w].name = name => ~Cron!Live(w)
    BY <1>0, <2>1 DEF Listed
  <2>3. /\ running[name].schedule \in Intervals /\ workers \in Seq(Goroutines)
        /\ running \in [DOMAIN running -> RunningJobs] /\ jobs' \in Seq(Jobs)
    BY <1>0, <2>1 DEF CronTypeOK, RunningJobs
  <2> QED
    BY <2>1, <2>2, <2>3, SpawnKeeps DEF Cron!Current
<1>8. ASSUME NEW name \in Names, NEW schedule \in Schedules, Cron!UpdateSchedule(name, schedule)
      PROVE  CronInv'
  <2>1. /\ UNCHANGED <<latest, stopped>> /\ name \in DOMAIN running
        /\ Cron!Becomes(Cron!Restart(name, schedule)) /\ schedule \in Intervals
    BY <1>8 DEF Cron!UpdateSchedule, Cron!Changing, Cron!Started, Intervals
  <2>2. jobs' \in Seq(Jobs)
    <3>1. CASE name \in Cron!Listed
      <4>1. Cron!Position(name) \in 1..Len(jobs)
        BY <1>0, <3>1, PositionIsFirst DEF CronTypeOK
      <4>2. jobs' = [jobs EXCEPT ![Cron!Position(name)].schedule = schedule] /\ jobs \in Seq(Jobs)
        BY <1>0, <1>8, <3>1 DEF Cron!UpdateSchedule, CronTypeOK
      <4>3. ASSUME NEW i \in 1..Len(jobs)
            PROVE  jobs[i] \in Jobs /\ [jobs[i] EXCEPT !.schedule = schedule] \in Jobs
        <5>1. jobs[i] \in Jobs
          BY <4>2
        <5> QED
          BY <2>1, <5>1 DEF Jobs
      <4>4. jobs' \in [1..Len(jobs) -> Jobs]
        BY <4>1, <4>2, <4>3
      <4> QED
        BY <4>2, <4>4
    <3>2. CASE name \notin Cron!Listed
      BY <1>0, <1>8, <3>2 DEF Cron!UpdateSchedule, CronTypeOK
    <3> QED
      BY <3>1, <3>2
  <2>3. CASE running[name].paused
    <3>1. workers' = workers /\ running' = [running EXCEPT ![name].schedule = schedule]
      BY <2>1, <2>3 DEF Cron!Restart, Cron!Becomes, Cron!Current
    <3>2. \A w \in DOMAIN workers : workers[w].name = name => ~Cron!Live(w)
      BY <1>0, <2>3 DEF Listed
    <3>3. /\ running' \in [DOMAIN running' -> RunningJobs] /\ DOMAIN running' = DOMAIN running
          /\ \A n \in DOMAIN running \ {name} : running'[n] = running[n]
      BY <1>0, <2>1, <3>1 DEF CronTypeOK, RunningJobs
    <3>4. \A w \in DOMAIN workers' : Listed(w)'
      BY <1>0, <2>1, <3>1, <3>2, <3>3 DEF Listed, Cron!Live
    <3>5. CronTypeOK'
      BY <1>0, <2>1, <2>2, <3>1, <3>3 DEF CronTypeOK
    <3> QED
      BY <3>4, <3>5 DEF CronInv, Cron!OneOfEachRuns, Cron!Started, Listed
  <2>4. CASE ~running[name].paused
    <3> DEFINE list == Cron!Cancel(Cron!Current, name).workers
    <3>1. Cron!Cancel(Cron!Current, name) = [running |-> running, workers |-> list]
      BY DEF Cron!Cancel, Cron!Current
    <3>2. Cron!Becomes(Cron!Spawn([running |-> running, workers |-> list], name, schedule, latest))
      BY <2>1, <2>4, <3>1 DEF Cron!Restart
    <3>3. running \in [DOMAIN running -> RunningJobs]
      BY <1>0 DEF CronTypeOK
    <3>4. /\ list \in Seq(Goroutines) /\ Len(list) = Len(workers)
          /\ \A w \in DOMAIN workers :
               /\ list[w].name = workers[w].name
               /\ list[w] = workers[w] \/ list[w].cancelled
               /\ workers[w].name = name => ~Cron!Live(w) \/ list[w].cancelled
      BY <2>1, CancelledOne
    <3> HIDE DEF list
    <3> QED
      BY <2>1, <2>2, <3>2, <3>3, <3>4, SpawnKeeps
  <2> QED
    BY <2>3, <2>4
<1>9. ASSUME NEW w \in DOMAIN workers, NEW place \in {"waiting", "calling", "ended"},
             workers[w].at # "ended", Cron!Moves(w, place)
      PROVE  CronInv'
  <2>1. /\ UNCHANGED <<jobs, running, latest, stopped>> /\ workers \in Seq(Goroutines)
        /\ workers' = [workers EXCEPT ![w].at = place]
    BY <1>0, <1>9 DEF Cron!Moves, CronTypeOK
  <2>2. \A v \in DOMAIN workers : workers[v] \in Goroutines
    BY <2>1
  <2>3. DOMAIN workers' = DOMAIN workers /\ \A v \in DOMAIN workers :
          workers'[v] = IF v = w THEN [workers[w] EXCEPT !.at = place] ELSE workers[v]
    BY <2>1
  <2>4. \A v \in DOMAIN workers :
          /\ workers'[v] \in Goroutines /\ workers'[v].name = workers[v].name
          /\ workers'[v].schedule = workers[v].schedule
          /\ Cron!Live(v)' => Cron!Live(v)
    BY <1>9, <2>1, <2>2, <2>3 DEF Goroutines, Cron!Live
  <2>5. workers' \in Seq(Goroutines)
    <3>1. workers' \in [1..Len(workers) -> Goroutines]
      BY <2>1, <2>3, <2>4
    <3> QED
      BY <2>1, <3>1
  <2>6. \A v \in DOMAIN workers' : Listed(v)'
    BY <1>0, <2>1, <2>3, <2>4 DEF Listed
  <2> QED
    BY <1>0, <2>1, <2>5, <2>6 DEF CronInv, CronTypeOK, Cron!OneOfEachRuns, Cron!Started, Listed
<1>10. CASE Cron!StopScheduler
  <2>1. UNCHANGED <<jobs, running, latest, workers>> /\ stopped \subseteq stopped'
    BY <1>10 DEF Cron!StopScheduler
  <2> QED
    BY <1>0, <2>1 DEF CronInv, CronTypeOK, Cron!OneOfEachRuns, Cron!Started, Cron!Live, Listed
<1>11. CASE \/ Cron!Beat \/ Cron!BeatReturn \/ Cron!BeatExit \/ Cron!JobsEnded \/ Cron!BeatEnded
            \/ UNCHANGED schedulerVars
  <2>1. UNCHANGED <<jobs, running, latest, stopped, workers>>
    BY <1>11 DEF Cron!Beat, Cron!BeatReturn, Cron!BeatExit, Cron!Beating, Cron!JobsEnded,
        Cron!BeatEnded, schedulerVars
  <2> QED
    BY <1>0, <1>3, <2>1 DEF CronTypeOK
<1> QED
  <2>1. ASSUME NEW w \in DOMAIN workers, Cron!Fire(w) \/ Cron!Exit(w) \/ Cron!Return(w)
        PROVE  CronInv'
    BY <1>9, <2>1 DEF Cron!Fire, Cron!Exit, Cron!Return
  <2> QED
    BY <1>1, <1>2, <1>4, <1>5, <1>6, <1>7, <1>8, <1>10, <1>11, <2>1 DEF Cron!Next

\* However jobs are added, paused, resumed, rescheduled and removed, what may still run of a job
\* is the one goroutine the scheduler lists (OneOfEachRuns), for any names, jobs and intervals.
THEOREM JobsRunOnce == Spec => []OneOfEachRuns
<1> DEFINE Inv == subject = "scheduler" => CronInv
<1>1. Init => Inv
  <2> SUFFICES ASSUME Cron!Init PROVE CronInv
    BY DEF Init
  <2>1. PICK names \in Configured :
          jobs = [i \in DOMAIN names |-> [name |-> names[i], schedule |-> "first"]]
    BY DEF Cron!Init
  <2>2. names \in Seq(Names)
    BY ConfiguredAssumption
  <2>3. jobs \in Seq(Jobs)
    <3>1. jobs \in [1..Len(names) -> Jobs] /\ Len(names) \in Nat
      BY <2>1, <2>2 DEF Jobs, Intervals
    <3> QED
      BY <3>1
  <2>4. DOMAIN running = {} /\ latest = 0 /\ workers = <<>> /\ running = [n \in {} |-> 0]
    BY DEF Cron!Init
  <2>5. running \in [DOMAIN running -> RunningJobs]
    BY <2>4
  <2> QED
    BY <2>3, <2>4, <2>5 DEF CronInv, CronTypeOK, Cron!OneOfEachRuns
<1>2. Inv /\ [Next]_vars => Inv'
  <2>1. ASSUME subject' = "scheduler", [Next]_vars
        PROVE  subject = "scheduler" /\ [Cron!Next]_schedulerVars
    BY <2>1 DEF Next, vars, OfLane, OfTerminal, OfGuard, OfFiles, OfProcesses, OfMcp, OfAgents,
        OfNodes, OfStream, OfScheduler, OfStreams, OfLogs
  <2> QED
    BY <2>1, CronStep
<1>3. Inv => OneOfEachRuns
  BY DEF CronInv, OneOfEachRuns
<1> QED
  BY <1>1, <1>2, <1>3, PTL DEF Spec

-----------------------------------------------------------------------------
\* What commands leave running and what MCP servers were started is of a run under way, told to
\* its model and allowed to it (ChildrenAreOwned), for any commands, servers, tools and policies.
THEOREM ChildrenHaveOwners == Spec => []ChildrenAreOwned
<1> DEFINE Inv == (subject = "processes" => ProcInv) /\ (subject = "mcp" => McpInv)
<1>1. Init => Inv
  <2>1. Proc!Init => ProcInv
    BY DEF Proc!Init, ProcInv, ProcTypeOK, CommandInv, Calling, Exits, Results, Proc!Inputs,
        Proc!Foreground, Proc!Underway
  <2>2. ASSUME Mcp!Init PROVE McpInv
    <3>1. ManagerInv(Mcp!NewManager)
      BY DEF ManagerInv, ServerInv, Managers, Mcp!NewManager, Mcp!NoServers, Stages, Links, Policed
    <3> QED
      BY <2>2, <3>1, CatalogType DEF Mcp!Init, McpInv, ManagerInv
  <2> QED
    BY <2>1, <2>2 DEF Init
<1>2. Inv /\ [Next]_vars => Inv'
  <2>1. ASSUME subject' = "processes", [Next]_vars
        PROVE  subject = "processes" /\ [Proc!Next]_processesVars
    BY <2>1 DEF Next, vars, OfLane, OfTerminal, OfGuard, OfFiles, OfProcesses, OfMcp, OfAgents,
        OfNodes, OfStream, OfScheduler, OfStreams, OfLogs
  <2>2. ASSUME subject' = "mcp", [Next]_vars
        PROVE  subject = "mcp" /\ [Mcp!Next]_mcpVars
    BY <2>2 DEF Next, vars, OfLane, OfTerminal, OfGuard, OfFiles, OfProcesses, OfMcp, OfAgents,
        OfNodes, OfStream, OfScheduler, OfStreams, OfLogs
  <2> QED
    BY <2>1, <2>2, ProcStep, McpStep
<1>3. Inv => ChildrenAreOwned
  <2>1. ProcInv => Proc!ChildrenAreOwned
    BY DEF ProcInv, ProcTypeOK, CommandInv, Proc!ChildrenAreOwned, Proc!Underway, Calling, Results
  <2>2. McpInv => Mcp!ServersAreReleased
    BY DEF McpInv, ManagerInv, ServerInv, Managers, Links, Policed, Mcp!ServersAreReleased,
        Mcp!CanCall
  <2> QED
    BY <2>1, <2>2 DEF ChildrenAreOwned
<1> QED
  BY <1>1, <1>2, <1>3, PTL DEF Spec

-----------------------------------------------------------------------------
(* AgentCalls: the tree of calls below a run.                              *)

AgentRuns == Agent!Runs
Nodes0 == [stage: {"free", "queued", "task", "waiting", "settled"}, agent: Agents \cup {TopAgent},
           parent: AgentRuns, line: SUBSET AgentRuns, call: Nat, index: Nat, run: {"none", "on", "over"},
           outcome: {"none", "completed", "failed", "cancelled"},
           result: {"none", "completed", "failed", "cancelled"}]

\* A call has a run from when its executor waits for it; the top's is there from the start.
AgentTypeOK ==
  /\ node \in [AgentRuns -> Nodes0]
  /\ told \subseteq AgentRuns
  /\ node[Top].run # "none" /\ node[Top].stage = "waiting" /\ node[Top].line = {Top}
  /\ \A r \in AgentRuns : /\ node[r].stage \in {"free", "queued", "task"} => node[r].run = "none"
                          /\ node[r].run # "over" => node[r].outcome = "none"

\* A line is that of the caller and the call itself; above a call are runs only, each with the
\* call by which the line goes on.
LineInv ==
  /\ \A d \in AgentRuns : node[d].stage # "free" => d \in node[d].line
  /\ \A d \in Calls : node[d].stage # "free" =>
       node[node[d].parent].run # "none" /\ node[d].line = node[node[d].parent].line \cup {d}
  /\ \A d \in AgentRuns : \A s \in node[d].line :
       /\ node[s].stage # "free" /\ node[s].line \subseteq node[d].line
       /\ s # d => node[s].run # "none" /\ \E e \in Agent!Children(s) : e \in node[d].line

AtWork == {"task", "waiting"}
Busy(r, call_) == {c \in Agent!Unsettled(r) : node[c].call = call_ /\ node[c].stage \in AtWork}
Working(c) == node[c].run = "on" \/ node[c].stage = "task"

\* What is promised of a run holds from when its task is there.
LineIsBounded(r) ==
  /\ \A s, t \in node[r].line : node[s].agent = node[t].agent => s = t
  /\ DepthLimit > 0 => Agent!Depth(r) <= DepthLimit

\* The requests that are not settled have places of their own, and what works has been let go.
PlacesInv ==
  /\ \A r \in AgentRuns : \A c, d \in Agent!Unsettled(r) : node[c].index = node[d].index => c = d
  /\ \A c \in Calls : node[c].stage \in AtWork => Cardinality(Agent!Ahead(c)) < MaxParallel

BoundedInv ==
  /\ \A r \in AgentRuns : node[r].run # "none" \/ node[r].stage = "task" => LineIsBounded(r)
  /\ PlacesInv

\* Whatever works below a run that has been told to stop has been told as well.
ToldInv == \A r \in told : \A c \in Agent!Below(r) : Working(c) => c \in told

AgentInv ==
  /\ AgentTypeOK /\ LineInv /\ BoundedInv /\ ToldInv
  /\ Agent!NoneLeftAlone /\ Agent!CompletedIsTrue

\* A step that makes no calls leaves the tree as it is.
TreeStays ==
  \A r \in AgentRuns :
    /\ node'[r].line = node[r].line /\ node'[r].parent = node[r].parent /\ node'[r].agent = node[r].agent
    /\ node'[r].call = node[r].call /\ node'[r].index = node[r].index
    /\ node'[r].stage = "free" <=> node[r].stage = "free"
    /\ node[r].stage = "settled" => node'[r].stage = "settled"
    /\ node[r].run # "none" => node'[r].run # "none"

LEMMA TreeKept ==
  ASSUME AgentTypeOK, AgentTypeOK', LineInv, TreeStays
  PROVE  /\ LineInv'
         /\ \A r \in AgentRuns : /\ Agent!Children(r)' = Agent!Children(r)
                                 /\ Agent!Below(r)' = Agent!Below(r)
                                 /\ LineIsBounded(r)' <=> LineIsBounded(r)
                                 /\ Agent!Unsettled(r)' \subseteq Agent!Unsettled(r)
<1>1. Calls \subseteq AgentRuns /\ Top \in AgentRuns
  BY DEF AgentRuns, Agent!Runs
<1>2. \A r \in AgentRuns : node[r].line \subseteq AgentRuns /\ node[r].parent \in AgentRuns
  BY DEF AgentTypeOK, Nodes0
<1>3. \A r \in AgentRuns : Agent!Children(r)' = Agent!Children(r)
  BY <1>1 DEF Agent!Children, TreeStays
<1>4. \A r \in AgentRuns : Agent!Below(r)' = Agent!Below(r)
  BY <1>1 DEF Agent!Below, TreeStays
<1>5. \A r \in AgentRuns : Agent!Unsettled(r)' \subseteq Agent!Unsettled(r)
  BY <1>1, <1>3 DEF Agent!Unsettled, Agent!Children, TreeStays
<1>6. \A r \in AgentRuns : LineIsBounded(r)' <=> LineIsBounded(r)
  BY <1>2 DEF LineIsBounded, Agent!Depth, TreeStays
<1>7. LineInv'
  <2>1. \A d \in AgentRuns : node'[d].stage # "free" => d \in node'[d].line
    BY DEF LineInv, TreeStays
  <2>2. \A d \in Calls : node'[d].stage # "free" =>
          node'[node'[d].parent].run # "none" /\ node'[d].line = node'[node'[d].parent].line \cup {d}
    BY <1>1, <1>2 DEF LineInv, TreeStays
  <2>3. ASSUME NEW d \in AgentRuns, NEW s \in node'[d].line
        PROVE  /\ node'[s].stage # "free" /\ node'[s].line \subseteq node'[d].line
               /\ s # d => node'[s].run # "none" /\ \E e \in Agent!Children(s)' : e \in node'[d].line
    <3>1. s \in node[d].line /\ s \in AgentRuns /\ node'[d].line = node[d].line
      BY <1>2, <2>3 DEF TreeStays
    <3> QED
      BY <1>3, <3>1 DEF LineInv, TreeStays
  <2> QED
    BY <2>1, <2>2, <2>3 DEF LineInv
<1> QED
  BY <1>3, <1>4, <1>5, <1>6, <1>7

\* The module counts as the library does.
LEMMA SameCardinality == \A S : Agent!Cardinality(S) = Cardinality(S)
  BY DEF Agent!Cardinality, Cardinality

\* The requests of an answer have names, if as many calls can still be made.
LEMMA NamesForABatch ==
  ASSUME NEW requests \in Agent!Batches, Cardinality(Agent!Unused) >= Len(requests)
  PROVE  \E f \in Agent!Injection(DOMAIN requests, Agent!Unused) : TRUE
<1>1. PICK n \in 1..MaxRequests : requests \in [1..n -> [agent: Agents, call: 1..n]]
  BY DEF Agent!Batches
<1>2. DOMAIN requests = 1..n /\ Len(requests) = n
  BY <1>1
<1>3. IsFiniteSet(Agent!Unused)
  BY AgentsAssumption, FS_Subset DEF Agent!Unused
<1>4. Cardinality(Agent!Unused) \in Nat /\ ExistsBijection(1..Cardinality(Agent!Unused), Agent!Unused)
  BY <1>3, FS_CardinalityType
<1>5. PICK all \in Injection(1..Cardinality(Agent!Unused), Agent!Unused) : TRUE
  BY <1>4 DEF ExistsBijection, Bijection
<1> DEFINE f == [i \in 1..n |-> all[i]]
<1>6. 1..n \subseteq 1..Cardinality(Agent!Unused)
  BY <1>2, <1>4
<1>7. f \in [1..n -> Agent!Unused] /\ \A x, y \in 1..n : f[x] = f[y] => x = y
  BY <1>5, <1>6 DEF Injection, IsInjective
<1> QED
  BY <1>2, <1>7 DEF Agent!Injection, Agent!IsInjective

\* A request made of a run under way is a call below it that does not work yet.
LEMMA AskKeeps ==
  ASSUME AgentInv, NEW r \in AgentRuns, NEW requests \in Agent!Batches, Agent!Ask(r, requests)
  PROVE  AgentInv'
<1> DEFINE names == CHOOSE f \in Agent!Injection(DOMAIN requests, Agent!Unused) : TRUE
           new == Agent!Range(names)
<1>1. PICK n \in 1..MaxRequests : requests \in [1..n -> [agent: Agents, call: 1..n]]
  BY DEF Agent!Batches
<1>2. names \in Agent!Injection(DOMAIN requests, Agent!Unused)
  <2>1. Cardinality(Agent!Unused) >= Len(requests)
    BY SameCardinality DEF Agent!Ask
  <2> QED
    BY <2>1, NamesForABatch
<1>3. names \in [1..n -> Agent!Unused] /\ \A x, y \in 1..n : names[x] = names[y] => x = y
  BY <1>1, <1>2 DEF Agent!Injection, Agent!IsInjective
<1>4. new \subseteq Agent!Unused
  BY <1>3 DEF Agent!Range
<1>5. told' = told /\ node[r].run = "on" /\ Agent!Unsettled(r) = {}
  BY DEF Agent!Ask, Agent!Active
<1>6. \A c \in new : c \in Calls /\ c \in AgentRuns /\ c # Top /\ c # r /\ node[c].stage = "free"
  BY <1>4, <1>5, AgentsAssumption DEF Agent!Unused, AgentInv, AgentTypeOK, AgentRuns, Agent!Runs
<1>7. \A c \in AgentRuns \ new : node'[c] = node[c]
  BY DEF Agent!Ask, AgentRuns
<1>8. ASSUME NEW c \in new
      PROVE  /\ node'[c] \in Nodes0
             /\ node'[c].stage = "queued" /\ node'[c].run = "none" /\ node'[c].result = "none"
             /\ node'[c].outcome = "none" /\ node'[c].parent = r /\ node'[c].line = node[r].line \cup {c}
             /\ names[node'[c].index] = c
  <2> DEFINE i == CHOOSE k \in DOMAIN names : names[k] = c
  <2>1. i \in 1..n /\ names[i] = c /\ requests[i] \in [agent: Agents, call: 1..n]
    BY <1>1, <1>3 DEF Agent!Range
  <2>2. node'[c] = [Agent!Free EXCEPT !.stage = "queued", !.agent = requests[i].agent, !.parent = r,
                                      !.line = node[r].line \cup {c}, !.call = requests[i].call,
                                      !.index = i]
    BY <1>6 DEF Agent!Ask, AgentRuns
  <2>3. node'[c] = [stage |-> "queued", agent |-> requests[i].agent, parent |-> r,
                    line |-> node[r].line \cup {c}, call |-> requests[i].call, index |-> i,
                    run |-> "none", outcome |-> "none", result |-> "none"]
    BY <2>2 DEF Agent!Free
  <2>4. node[r].line \cup {c} \subseteq AgentRuns
    BY <1>6 DEF AgentInv, AgentTypeOK, Nodes0
  <2>5. node'[c] \in Nodes0
    BY <2>1, <2>3, <2>4 DEF Nodes0
  <2> QED
    BY <2>1, <2>3, <2>5
<1>9. node' = [c \in AgentRuns |-> node'[c]]
  <2> DEFINE F(c) == IF c \in new
                     THEN LET i == CHOOSE k \in DOMAIN names : names[k] = c IN
                          [Agent!Free EXCEPT !.stage = "queued", !.agent = requests[i].agent, !.parent = r,
                                             !.line = node[r].line \cup {c},
                                             !.call = requests[i].call, !.index = i]
                     ELSE node[c]
  <2>1. node' = [c \in AgentRuns |-> F(c)]
    BY DEF Agent!Ask, AgentRuns
  <2> HIDE DEF F
  <2> QED
    BY <2>1
<1>10. \A d \in AgentRuns : \A s \in node[d].line : s \in AgentRuns \ new
  BY <1>6 DEF AgentInv, AgentTypeOK, Nodes0, LineInv
<1>11. r \in node[r].line /\ r \in AgentRuns \ new
  BY <1>5, <1>6 DEF AgentInv, AgentTypeOK, LineInv
<1>12. AgentTypeOK'
  <2>1. ASSUME NEW c \in AgentRuns PROVE node'[c] \in Nodes0
    <3>1. CASE c \in new
      BY <1>8, <3>1
    <3>2. CASE c \notin new
      <4>1. node'[c] = node[c]
        BY <1>7, <3>2
      <4> QED
        BY <4>1 DEF AgentInv, AgentTypeOK
    <3> QED
      BY <3>1, <3>2
  <2>4. node' \in [AgentRuns -> Nodes0]
    BY <1>9, <2>1
  <2>2. Top \in AgentRuns \ new
    BY <1>6 DEF AgentRuns, Agent!Runs
  <2>3. \A d \in AgentRuns : /\ node'[d].stage \in {"free", "queued", "task"} => node'[d].run = "none"
                             /\ node'[d].run # "over" => node'[d].outcome = "none"
    BY <1>7, <1>8 DEF AgentInv, AgentTypeOK
  <2> QED
    BY <1>5, <1>7, <2>2, <2>3, <2>4 DEF AgentInv, AgentTypeOK
<1>13. \A s \in AgentRuns : Agent!Children(s) \subseteq Agent!Children(s)'
  BY <1>6, <1>7 DEF Agent!Children, AgentRuns, Agent!Runs
<1>14. new \subseteq Agent!Children(r)'
  BY <1>6, <1>8 DEF Agent!Children
<1>15. \A d \in AgentRuns \ new : \A s \in node'[d].line : s \in AgentRuns \ new
  BY <1>7, <1>10
<1>16. \A c \in new : \A s \in node'[c].line : s # c => s \in node[r].line /\ s \in AgentRuns \ new
  BY <1>8, <1>10
<1>17. LineInv'
  <2>1. ASSUME NEW d \in AgentRuns, node'[d].stage # "free" PROVE d \in node'[d].line
    BY <1>7, <1>8, <2>1 DEF AgentInv, LineInv
  <2>2. ASSUME NEW d \in Calls, node'[d].stage # "free"
        PROVE  node'[node'[d].parent].run # "none" /\ node'[d].line = node'[node'[d].parent].line \cup {d}
    <3>1. CASE d \in new
      BY <1>5, <1>7, <1>8, <1>11, <3>1
    <3>2. CASE d \notin new
      <4>1. node'[d] = node[d] /\ node[d].parent \in AgentRuns /\ d \in AgentRuns
        BY <1>7, <3>2 DEF AgentInv, AgentTypeOK, Nodes0, AgentRuns, Agent!Runs
      <4>2. node[node[d].parent].run # "none" /\ node[d].line = node[node[d].parent].line \cup {d}
        BY <2>2, <4>1 DEF AgentInv, LineInv
      <4>3. node[d].parent \notin new
        BY <1>6, <4>2 DEF AgentInv, AgentTypeOK
      <4> QED
        BY <1>7, <4>1, <4>2, <4>3
    <3> QED
      BY <3>1, <3>2
  <2>3. ASSUME NEW d \in AgentRuns, NEW s \in node'[d].line
        PROVE  /\ node'[s].stage # "free" /\ node'[s].line \subseteq node'[d].line
               /\ s # d => node'[s].run # "none" /\ \E e \in Agent!Children(s)' : e \in node'[d].line
    <3>1. CASE d \notin new
      <4>1. node'[d] = node[d] /\ node'[s] = node[s] /\ s \in AgentRuns
        BY <1>7, <1>15, <3>1
      <4> QED
        BY <1>13, <4>1 DEF AgentInv, LineInv
    <3>2. CASE d \in new /\ s = d
      BY <1>8, <3>2
    <3>3. CASE d \in new /\ s # d
      <4>1. s \in node[r].line /\ s \in AgentRuns /\ node'[s] = node[s]
        BY <1>7, <1>16, <3>3
      <4>2. node[s].stage # "free" /\ node[s].line \subseteq node[r].line /\ node[s].run # "none"
        BY <1>5, <4>1 DEF AgentInv, LineInv
      <4>3. node'[d].line = node[r].line \cup {d}
        BY <1>8, <3>3
      <4>4. \E e \in Agent!Children(s)' : e \in node'[d].line
        <5>1. CASE s = r
          BY <1>14, <3>3, <4>3, <5>1
        <5>2. CASE s # r
          BY <1>13, <4>1, <4>3, <5>2 DEF AgentInv, LineInv
        <5> QED
          BY <5>1, <5>2
      <4> QED
        BY <4>1, <4>2, <4>3, <4>4
    <3> QED
      BY <3>1, <3>2, <3>3
  <2> QED
    BY <2>1, <2>2, <2>3 DEF LineInv
<1>18. BoundedInv'
  <2>1. ASSUME NEW d \in AgentRuns, node'[d].run # "none" \/ node'[d].stage = "task"
        PROVE  LineIsBounded(d)'
    <3>1. d \notin new
      BY <1>8, <2>1
    <3>2. node'[d] = node[d] /\ \A s \in node[d].line : node'[s] = node[s]
      BY <1>7, <1>10, <3>1
    <3>3. LineIsBounded(d)
      BY <2>1, <3>2 DEF AgentInv, BoundedInv
    <3> QED
      BY <3>2, <3>3 DEF LineIsBounded, Agent!Depth
  <2>2. \A d \in AgentRuns \ {r} : Agent!Unsettled(d)' = Agent!Unsettled(d)
    BY <1>6, <1>7, <1>8 DEF Agent!Unsettled, Agent!Children, AgentRuns, Agent!Runs
  <2>3. Agent!Unsettled(r)' = new
    BY <1>5, <1>6, <1>7, <1>8 DEF Agent!Unsettled, Agent!Children, AgentRuns, Agent!Runs
  <2>4. \A d \in AgentRuns : Agent!Unsettled(d) \subseteq AgentRuns \ new
    BY <1>6 DEF Agent!Unsettled, Agent!Children, AgentRuns, Agent!Runs
  <2>5. ASSUME NEW d \in AgentRuns, NEW b \in Agent!Unsettled(d)', NEW c \in Agent!Unsettled(d)',
               node'[b].index = node'[c].index
        PROVE  b = c
    <3>1. CASE d = r
      BY <1>8, <2>3, <2>5, <3>1
    <3>2. CASE d # r
      <4>1. b \in Agent!Unsettled(d) /\ c \in Agent!Unsettled(d) /\ node'[b] = node[b] /\ node'[c] = node[c]
        BY <1>7, <2>2, <2>4, <2>5, <3>2
      <4> QED
        BY <2>5, <4>1 DEF AgentInv, BoundedInv, PlacesInv
    <3> QED
      BY <3>1, <3>2
  <2>6. ASSUME NEW c \in Calls, node'[c].stage \in AtWork PROVE Cardinality(Agent!Ahead(c)') < MaxParallel
    <3>1. c \notin new /\ c \in AgentRuns
      BY <1>8, <2>6 DEF AtWork, AgentRuns, Agent!Runs
    <3>2. node'[c] = node[c] /\ node[c].parent \in AgentRuns
      BY <1>7, <3>1 DEF AgentInv, AgentTypeOK, Nodes0
    <3>3. node[c].parent # r
      BY <1>5, <2>6, <3>2 DEF Agent!Unsettled, Agent!Children, AtWork
    <3>4. Agent!Unsettled(node[c].parent)' = Agent!Unsettled(node[c].parent)
      BY <2>2, <3>2, <3>3
    <3>5. \A d \in Agent!Unsettled(node[c].parent) : node'[d] = node[d]
      BY <1>7, <2>4, <3>2
    <3>6. Agent!Ahead(c)' = Agent!Ahead(c)
      BY <3>2, <3>4, <3>5 DEF Agent!Ahead
    <3> QED
      BY <2>6, <3>2, <3>6 DEF AgentInv, BoundedInv, PlacesInv
  <2>7. PlacesInv'
    BY <2>5, <2>6 DEF PlacesInv
  <2> QED
    BY <2>1, <2>7 DEF BoundedInv
<1>19. \A c \in AgentRuns : Working(c)' => Working(c) /\ c \in AgentRuns \ new
  BY <1>7, <1>8 DEF Working
<1>20. \A s \in AgentRuns : \A c \in Agent!Below(s)' : Working(c)' => c \in Agent!Below(s) /\ Working(c)
  BY <1>7, <1>19 DEF Agent!Below, AgentRuns, Agent!Runs
<1>21. ToldInv'
  BY <1>5, <1>20 DEF AgentInv, AgentTypeOK, ToldInv
<1>22. Agent!NoneLeftAlone'
  <2>1. ASSUME NEW s \in AgentRuns, node'[s].run = "over" PROVE Agent!Unsettled(s)' = {}
    <3>1. node'[s] = node[s] /\ s # r
      BY <1>5, <1>7, <1>8, <2>1
    <3>2. Agent!Unsettled(s)' \subseteq Agent!Unsettled(s)
      BY <1>6, <1>7, <1>8, <3>1 DEF Agent!Unsettled, Agent!Children, AgentRuns, Agent!Runs
    <3> QED
      BY <2>1, <3>1, <3>2 DEF AgentInv, Agent!NoneLeftAlone, AgentRuns
  <2>2. ASSUME NEW s \in AgentRuns, s # Top, node'[s].stage = "settled",
               NEW c \in Agent!Below(s)', Working(c)'
        PROVE  c \in told'
    <3>1. node[s].stage = "settled"
      BY <1>7, <1>8, <2>2
    <3> QED
      BY <1>5, <1>20, <2>2, <3>1 DEF AgentInv, Agent!NoneLeftAlone, AgentRuns, Working
  <2> QED
    BY <2>1, <2>2 DEF Agent!NoneLeftAlone, AgentRuns, Working
<1>23. Agent!CompletedIsTrue'
  BY <1>7, <1>8 DEF AgentInv, Agent!CompletedIsTrue, AgentRuns, Agent!Runs
<1> QED
  BY <1>12, <1>17, <1>18, <1>21, <1>22, <1>23 DEF AgentInv

\* A step that makes no calls keeps the places, if it lets go what may be let go.
LEMMA PlacesKept ==
  ASSUME AgentInv, AgentTypeOK', TreeStays,
         \A c \in Calls : node'[c].stage \in AtWork =>
           node[c].stage \in AtWork \/ Cardinality(Agent!Ahead(c)) < MaxParallel
  PROVE  PlacesInv'
<1>1. \A r \in AgentRuns : Agent!Unsettled(r)' \subseteq Agent!Unsettled(r) /\ Agent!Unsettled(r) \subseteq Calls
  BY TreeKept DEF AgentInv, Agent!Unsettled, Agent!Children
<1>2. Calls \subseteq AgentRuns
  BY DEF AgentRuns, Agent!Runs
<1>3. \A r \in AgentRuns : \A c, d \in Agent!Unsettled(r)' : node'[c].index = node'[d].index => c = d
  BY <1>1, <1>2 DEF AgentInv, BoundedInv, PlacesInv, TreeStays
<1>4. ASSUME NEW c \in Calls, node'[c].stage \in AtWork PROVE Cardinality(Agent!Ahead(c)') < MaxParallel
  <2>1. c \in AgentRuns /\ node[c].parent \in AgentRuns /\ node'[c].parent = node[c].parent
    BY <1>2 DEF AgentInv, AgentTypeOK, Nodes0, TreeStays
  <2>2. Agent!Ahead(c)' \subseteq Agent!Ahead(c)
    BY <1>1, <1>2, <2>1 DEF Agent!Ahead, TreeStays
  <2>3. IsFiniteSet(Agent!Ahead(c))
    BY <1>1, <2>1, AgentsAssumption, FS_Subset DEF Agent!Ahead
  <2>4. Cardinality(Agent!Ahead(c)) < MaxParallel
    BY <1>4 DEF AgentInv, BoundedInv, PlacesInv
  <2>5. IsFiniteSet(Agent!Ahead(c)') /\ Cardinality(Agent!Ahead(c)') <= Cardinality(Agent!Ahead(c))
    BY <2>2, <2>3, FS_Subset
  <2> QED
    BY <2>3, <2>4, <2>5, FS_CardinalityType, AgentsAssumption
<1> QED
  BY <1>3, <1>4 DEF PlacesInv

\* What has no run has nothing below it but itself.
LEMMA NothingBelow ==
  ASSUME AgentInv, NEW c \in Calls, node[c].run = "none", NEW d \in Agent!Below(c)
  PROVE  d = c
  BY DEF AgentInv, LineInv, Agent!Below, AgentRuns, Agent!Runs

\* Being told goes down the line: a line that has some run has what is above that run.
LEMMA BelowIsBelow ==
  ASSUME AgentInv, NEW r \in AgentRuns, NEW c \in Agent!Below(r), NEW d \in Agent!Below(c)
  PROVE  d \in Agent!Below(r)
  BY DEF AgentInv, LineInv, Agent!Below, AgentRuns, Agent!Runs

LEMMA LaunchKeeps ==
  ASSUME AgentInv, NEW c \in Calls, Agent!Launch(c)
  PROVE  AgentInv'
<1>0. PICK p : p = node[c].parent
  OBVIOUS
<1>1. /\ c \in AgentRuns /\ c # Top /\ node[c].stage = "queued" /\ node[c].run = "none" /\ node[c] \in Nodes0
      /\ p \in AgentRuns /\ node[p].run # "none" /\ node[p].stage # "free" /\ p # c
      /\ node[c].line = node[p].line \cup {c}
  <2>1. c \in AgentRuns /\ c # Top /\ node[c].stage = "queued"
    BY AgentsAssumption DEF AgentRuns, Agent!Runs, Agent!Launch, Agent!Scheduled
  <2>2. node[c].run = "none" /\ node[c] \in Nodes0 /\ p \in AgentRuns
    BY <1>0, <2>1 DEF AgentInv, AgentTypeOK, Nodes0
  <2>3. node[p].run # "none" /\ node[c].line = node[p].line \cup {c}
    BY <1>0, <2>1 DEF AgentInv, LineInv
  <2>4. node[p].stage # "free"
    BY <2>2, <2>3 DEF AgentInv, AgentTypeOK
  <2> QED
    BY <2>1, <2>2, <2>3, <2>4
<1>2. node[p].run = "on"
  <2>1. c \in Agent!Unsettled(p)
    BY <1>0, <1>1 DEF Agent!Unsettled, Agent!Children
  <2> QED
    BY <1>1, <2>1 DEF AgentInv, AgentTypeOK, Nodes0, Agent!NoneLeftAlone, AgentRuns
<1>3. p \in node[p].line /\ c \notin node[p].line /\ p \in node[c].line
  BY <1>1 DEF AgentInv, LineInv
<1>4. \A s \in AgentRuns : \A d \in Agent!Below(s) : d = c => s = c \/ s = p \/ p \in Agent!Below(s)
  BY <1>1 DEF AgentInv, AgentTypeOK, Agent!Below, AgentRuns, Agent!Runs
<1>5. CASE Agent!Forbidden(c)
  <2>1. node' = [node EXCEPT ![c] = [node[c] EXCEPT !.stage = "settled", !.result = "failed"]] /\ told' = told
    BY <1>0, <1>5 DEF Agent!Launch, Agent!Set
  <2>2. /\ \A r \in AgentRuns \ {c} : node'[r] = node[r]
        /\ node'[c] \in Nodes0 /\ node'[c].stage = "settled" /\ node'[c].run = "none"
        /\ node'[c].result = "failed" /\ node'[c].outcome = node[c].outcome
        /\ node'[c].line = node[c].line /\ node'[c].parent = node[c].parent /\ node'[c].agent = node[c].agent
        /\ node'[c].call = node[c].call /\ node'[c].index = node[c].index
    BY <1>1, <2>1 DEF AgentInv, AgentTypeOK, Nodes0
  <2>3. AgentTypeOK'
    BY <1>1, <2>1, <2>2 DEF AgentInv, AgentTypeOK
  <2>4. TreeStays
    BY <1>1, <2>2 DEF TreeStays
  <2>5. /\ LineInv'
        /\ \A r \in AgentRuns : /\ Agent!Below(r)' = Agent!Below(r)
                                /\ LineIsBounded(r)' <=> LineIsBounded(r)
                                /\ Agent!Unsettled(r)' \subseteq Agent!Unsettled(r)
    BY <2>3, <2>4, TreeKept DEF AgentInv
  <2>6. \A r \in AgentRuns : Working(r)' => Working(r)
    BY <1>1, <2>2 DEF Working
  <2>7. PlacesInv'
    BY <2>2, <2>3, <2>4, PlacesKept DEF AtWork, AgentRuns, Agent!Runs
  <2>8. BoundedInv'
    <3>1. \A r \in AgentRuns : node'[r].run # "none" \/ node'[r].stage = "task" => LineIsBounded(r)'
      BY <2>2, <2>5 DEF AgentInv, BoundedInv
    <3> QED
      BY <2>7, <3>1 DEF BoundedInv
  <2>9. ToldInv'
    BY <2>1, <2>5, <2>6 DEF AgentInv, AgentTypeOK, ToldInv, Agent!Below, AgentRuns, Agent!Runs
  <2>10. Agent!NoneLeftAlone'
    <3>1. ASSUME NEW s \in AgentRuns, node'[s].run = "over" PROVE Agent!Unsettled(s)' = {}
      BY <2>2, <2>5, <3>1 DEF AgentInv, Agent!NoneLeftAlone, AgentRuns
    <3>2. ASSUME NEW s \in AgentRuns, s # Top, node'[s].stage = "settled",
                 NEW d \in Agent!Below(s)', Working(d)'
          PROVE  d \in told'
      <4>1. d \in Agent!Below(s) /\ d \in AgentRuns /\ Working(d) /\ d # c
        BY <1>1, <2>2, <2>5, <2>6, <3>2 DEF Working, Agent!Below, AgentRuns, Agent!Runs
      <4>2. s # c
        BY <1>1, <4>1, NothingBelow
      <4> QED
        BY <2>1, <2>2, <3>2, <4>1, <4>2 DEF AgentInv, Agent!NoneLeftAlone, AgentRuns, Working
    <3> QED
      BY <3>1, <3>2 DEF Agent!NoneLeftAlone, AgentRuns, Working
  <2>11. Agent!CompletedIsTrue'
    BY <2>2 DEF AgentInv, Agent!CompletedIsTrue, AgentRuns, Agent!Runs
  <2> QED
    BY <2>3, <2>5, <2>8, <2>9, <2>10, <2>11 DEF AgentInv
<1>6. CASE ~Agent!Forbidden(c)
  <2>1. /\ node' = [node EXCEPT ![c] = [node[c] EXCEPT !.stage = "task"]]
        /\ told' = IF p \in told THEN told \cup {c} ELSE told
    BY <1>0, <1>6 DEF Agent!Launch, Agent!Set
  <2>2. /\ \A r \in AgentRuns \ {c} : node'[r] = node[r]
        /\ node'[c] \in Nodes0 /\ node'[c].stage = "task" /\ node'[c].run = "none"
        /\ node'[c].result = node[c].result /\ node'[c].outcome = node[c].outcome
        /\ node'[c].line = node[c].line /\ node'[c].parent = node[c].parent /\ node'[c].agent = node[c].agent
        /\ node'[c].call = node[c].call /\ node'[c].index = node[c].index
    BY <1>1, <2>1 DEF AgentInv, AgentTypeOK, Nodes0
  <2>3. AgentTypeOK'
    BY <1>1, <2>1, <2>2 DEF AgentInv, AgentTypeOK
  <2>4. TreeStays
    BY <1>1, <2>2 DEF TreeStays
  <2>5. /\ LineInv'
        /\ \A r \in AgentRuns : /\ Agent!Below(r)' = Agent!Below(r)
                                /\ Agent!Children(r)' = Agent!Children(r)
                                /\ LineIsBounded(r)' <=> LineIsBounded(r)
                                /\ Agent!Unsettled(r)' \subseteq Agent!Unsettled(r)
    BY <2>3, <2>4, TreeKept DEF AgentInv
  <2>6. LineIsBounded(c)
    <3>1. LineIsBounded(p)
      BY <1>1 DEF AgentInv, BoundedInv
    <3>2. \A s \in node[p].line : node[s].agent # node[c].agent
      BY <1>0, <1>6 DEF Agent!Forbidden, Agent!Chain
    <3>3. IsFiniteSet(node[p].line)
      <4>1. IsFiniteSet(AgentRuns)
        BY AgentsAssumption, FS_AddElement DEF AgentRuns, Agent!Runs
      <4> QED
        BY <1>1, <4>1, FS_Subset DEF AgentInv, AgentTypeOK, Nodes0
    <3>4. Cardinality(node[c].line) = Cardinality(node[p].line) + 1 /\ Cardinality(node[p].line) \in Nat
      BY <1>1, <1>3, <3>3, FS_AddElement, FS_CardinalityType
    <3>5. DepthLimit > 0 => Agent!Depth(p) < DepthLimit
      <4>1. ~(DepthLimit > 0 /\ Agent!Depth(p) >= DepthLimit)
        BY <1>0, <1>6 DEF Agent!Forbidden
      <4> QED
        BY <3>4, <4>1, SameCardinality, AgentsAssumption DEF Agent!Depth
    <3>6. DepthLimit > 0 => Agent!Depth(c) <= DepthLimit
      BY <3>4, <3>5, SameCardinality, AgentsAssumption DEF Agent!Depth
    <3>7. \A s, t \in node[c].line : node[s].agent = node[t].agent => s = t
      BY <1>1, <3>1, <3>2 DEF LineIsBounded
    <3> QED
      BY <3>6, <3>7 DEF LineIsBounded
  <2>7. BoundedInv'
    <3>1. \A r \in AgentRuns : node'[r].run # "none" \/ node'[r].stage = "task" => LineIsBounded(r)'
      BY <2>2, <2>5, <2>6 DEF AgentInv, BoundedInv
    <3>2. PlacesInv'
      <4>1. Cardinality(Agent!Ahead(c)) < MaxParallel
        BY <1>0, SameCardinality DEF Agent!Launch, Agent!Scheduled
      <4> QED
        BY <2>2, <2>3, <2>4, <4>1, PlacesKept DEF AgentRuns, Agent!Runs
    <3> QED
      BY <3>1, <3>2 DEF BoundedInv
  <2>8. told \subseteq told' /\ (p \in told => c \in told') /\ (told' \subseteq told \cup {c})
    BY <2>1
  <2>9. \A d \in AgentRuns : Working(d)' /\ d # c => Working(d)
    BY <2>2 DEF Working
  <2>10. Working(p)
    BY <1>2 DEF Working
  <2>11. ToldInv'
    <3> SUFFICES ASSUME NEW r \in told', NEW d \in Agent!Below(r)', Working(d)' PROVE d \in told'
      BY DEF ToldInv
    <3>1. r \in AgentRuns /\ d \in Agent!Below(r) /\ d \in AgentRuns
      BY <1>1, <2>5, <2>8 DEF AgentInv, AgentTypeOK, Agent!Below, AgentRuns, Agent!Runs
    <3>2. CASE r = c
      BY <1>1, <3>1, <3>2, NothingBelow
    <3>3. CASE r # c /\ d = c
      <4>1. p = r \/ p \in Agent!Below(r)
        BY <1>4, <3>1, <3>3
      <4> QED
        BY <2>8, <2>10, <3>3, <4>1 DEF AgentInv, ToldInv
    <3>4. CASE r # c /\ d # c
      BY <2>8, <2>9, <3>1, <3>4 DEF AgentInv, ToldInv
    <3> QED
      BY <3>2, <3>3, <3>4
  <2>12. Agent!NoneLeftAlone'
    <3>1. ASSUME NEW s \in AgentRuns, node'[s].run = "over" PROVE Agent!Unsettled(s)' = {}
      BY <2>2, <2>5, <3>1 DEF AgentInv, Agent!NoneLeftAlone, AgentRuns
    <3>2. ASSUME NEW s \in AgentRuns, s # Top, node'[s].stage = "settled",
                 NEW d \in Agent!Below(s)', Working(d)'
          PROVE  d \in told'
      <4>1. d \in Agent!Below(s) /\ d \in AgentRuns /\ s # c /\ node[s].stage = "settled"
        BY <2>2, <2>5, <3>2 DEF Agent!Below, AgentRuns, Agent!Runs
      <4>2. CASE d # c
        BY <2>8, <2>9, <3>2, <4>1, <4>2 DEF AgentInv, Agent!NoneLeftAlone, AgentRuns, Working
      <4>3. CASE d = c
        <5>1. CASE p \in Agent!Below(s)
          BY <2>8, <2>10, <3>2, <4>1, <4>3, <5>1 DEF AgentInv, Agent!NoneLeftAlone, AgentRuns, Working
        <5>2. CASE s = p
          <6>1. p \in Agent!Below(p)
            BY <1>3, <3>2, <5>2 DEF Agent!Below, AgentRuns, Agent!Runs
          <6> QED
            BY <2>8, <2>10, <3>2, <4>1, <4>3, <5>2, <6>1 DEF AgentInv, Agent!NoneLeftAlone, AgentRuns, Working
        <5> QED
          BY <1>4, <4>1, <4>3, <5>1, <5>2
      <4> QED
        BY <4>2, <4>3
    <3> QED
      BY <3>1, <3>2 DEF Agent!NoneLeftAlone, AgentRuns, Working
  <2>13. Agent!CompletedIsTrue'
    BY <2>2 DEF AgentInv, Agent!CompletedIsTrue, AgentRuns, Agent!Runs
  <2> QED
    BY <2>3, <2>5, <2>7, <2>11, <2>12, <2>13 DEF AgentInv
<1> QED
  BY <1>5, <1>6

\* The steps of a run that call nothing: what works does not spread, and what a step settles
\* has left nothing at work that was not told.
LEMMA OneStepKeeps ==
  ASSUME AgentInv, AgentTypeOK', NEW c \in AgentRuns, told' = told,
         \A r \in AgentRuns \ {c} : node'[r] = node[r],
         node'[c].line = node[c].line, node'[c].parent = node[c].parent, node'[c].agent = node[c].agent,
         node'[c].call = node[c].call, node'[c].index = node[c].index,
         node[c].stage # "free", node'[c].stage # "free",
         node[c].stage = "settled" => node'[c].stage = "settled",
         node'[c].stage = "task" => node[c].stage = "task",
         node'[c].stage = "waiting" => node[c].stage \in {"task", "waiting"},
         node[c].run # "none" => node'[c].run # "none",
         node'[c].run # "none" => node[c].run # "none" \/ node[c].stage = "task",
         Working(c)' => Working(c),
         node'[c].run = "over" => Agent!Unsettled(c) = {},
         c # Top /\ node'[c].stage = "settled" => \A d \in Agent!Below(c) : Working(d)' => d \in told,
         c # Top /\ node'[c].result = "completed" => node'[c].outcome = "completed"
  PROVE  AgentInv'
<1>1. TreeStays
  BY DEF TreeStays
<1>2. /\ LineInv'
      /\ \A r \in AgentRuns : /\ Agent!Below(r)' = Agent!Below(r)
                              /\ LineIsBounded(r)' <=> LineIsBounded(r)
                              /\ Agent!Unsettled(r)' \subseteq Agent!Unsettled(r)
  BY <1>1, TreeKept DEF AgentInv
<1>3. \A d \in AgentRuns : Working(d)' => Working(d)
  BY DEF Working
<1>4. BoundedInv'
  <2>1. \A r \in AgentRuns : node'[r].run # "none" \/ node'[r].stage = "task" => LineIsBounded(r)'
    BY <1>2 DEF AgentInv, BoundedInv
  <2>2. PlacesInv'
    BY <1>1, PlacesKept DEF AtWork, AgentRuns, Agent!Runs
  <2> QED
    BY <2>1, <2>2 DEF BoundedInv
<1>5. ToldInv'
  BY <1>2, <1>3 DEF AgentInv, AgentTypeOK, ToldInv, Agent!Below, AgentRuns, Agent!Runs
<1>6. Agent!NoneLeftAlone'
  <2>1. ASSUME NEW s \in AgentRuns, node'[s].run = "over" PROVE Agent!Unsettled(s)' = {}
    <3>1. Agent!Unsettled(s) = {}
      BY <2>1 DEF AgentInv, Agent!NoneLeftAlone, AgentRuns
    <3> QED
      BY <1>2, <3>1
  <2>2. ASSUME NEW s \in AgentRuns, s # Top, node'[s].stage = "settled",
               NEW d \in Agent!Below(s)', Working(d)'
        PROVE  d \in told'
    <3>1. d \in Agent!Below(s) /\ d \in AgentRuns /\ Working(d)
      BY <1>2, <1>3, <2>2 DEF Agent!Below, AgentRuns, Agent!Runs
    <3> QED
      BY <2>2, <3>1 DEF AgentInv, Agent!NoneLeftAlone, AgentRuns, Working
  <2> QED
    BY <2>1, <2>2 DEF Agent!NoneLeftAlone, AgentRuns, Working
<1>7. Agent!CompletedIsTrue'
  BY AgentsAssumption DEF AgentInv, Agent!CompletedIsTrue, AgentRuns, Agent!Runs
<1> QED
  BY <1>2, <1>4, <1>5, <1>6, <1>7 DEF AgentInv

LEMMA ExecuteKeeps ==
  ASSUME AgentInv, NEW c \in Calls, Agent!Execute(c)
  PROVE  AgentInv'
<1>1. c \in AgentRuns /\ c # Top /\ node[c].stage = "task" /\ node[c].run = "none" /\ node[c] \in Nodes0 /\ told' = told
  BY AgentsAssumption DEF AgentInv, AgentTypeOK, AgentRuns, Agent!Runs, Agent!Execute
<1>2. node[c].result = "completed" => node[c].outcome = "completed"
  BY DEF AgentInv, Agent!CompletedIsTrue
<1>3. CASE node' = [node EXCEPT ![c] = [node[c] EXCEPT !.stage = "waiting", !.run = "on"]]
  <2>1. /\ \A r \in AgentRuns \ {c} : node'[r] = node[r]
        /\ node'[c] \in Nodes0 /\ node'[c].stage = "waiting" /\ node'[c].run = "on"
        /\ node'[c].line = node[c].line /\ node'[c].parent = node[c].parent /\ node'[c].agent = node[c].agent
        /\ node'[c].call = node[c].call /\ node'[c].index = node[c].index
        /\ node'[c].result = node[c].result /\ node'[c].outcome = node[c].outcome
    BY <1>1, <1>3 DEF AgentInv, AgentTypeOK, Nodes0
  <2>2. AgentTypeOK'
    BY <1>1, <1>3, <2>1 DEF AgentInv, AgentTypeOK
  <2>3. Working(c)
    BY <1>1 DEF Working
  <2> QED
    BY <1>1, <1>2, <2>1, <2>2, <2>3, OneStepKeeps
<1>4. CASE node' = [node EXCEPT ![c] = [node[c] EXCEPT !.stage = "settled", !.result = "failed"]]
  <2>1. /\ \A r \in AgentRuns \ {c} : node'[r] = node[r]
        /\ node'[c] \in Nodes0 /\ node'[c].stage = "settled" /\ node'[c].run = "none" /\ node'[c].result = "failed"
        /\ node'[c].line = node[c].line /\ node'[c].parent = node[c].parent /\ node'[c].agent = node[c].agent
        /\ node'[c].call = node[c].call /\ node'[c].index = node[c].index
    BY <1>1, <1>4 DEF AgentInv, AgentTypeOK, Nodes0
  <2>2. AgentTypeOK'
    BY <1>1, <1>4, <2>1 DEF AgentInv, AgentTypeOK
  <2>3. Working(c) /\ ~Working(c)'
    BY <1>1, <2>1 DEF Working
  <2>4. \A d \in Agent!Below(c) : d = c
    BY <1>1, NothingBelow
  <2> QED
    BY <1>1, <2>1, <2>2, <2>3, <2>4, OneStepKeeps
<1> QED
  BY <1>3, <1>4 DEF Agent!Execute, Agent!Set

LEMMA RunEndsKeeps ==
  ASSUME AgentInv, NEW r \in AgentRuns, Agent!RunEnds(r)
  PROVE  AgentInv'
<1>1. PICK outcome_ \in {"completed", "failed", "cancelled"} :
        node' = [node EXCEPT ![r] = [node[r] EXCEPT !.run = "over", !.outcome = outcome_]]
  BY DEF Agent!RunEnds, Agent!Set
<1>2. told' = told /\ node[r].run = "on" /\ Agent!Unsettled(r) = {} /\ node[r] \in Nodes0
  BY DEF Agent!RunEnds, Agent!Active, AgentInv, AgentTypeOK
<1>3. node[r].stage \in {"waiting", "settled"}
  BY <1>2 DEF AgentInv, AgentTypeOK, Nodes0
<1>4. /\ \A s \in AgentRuns \ {r} : node'[s] = node[s]
      /\ node'[r] \in Nodes0 /\ node'[r].stage = node[r].stage /\ node'[r].run = "over"
      /\ node'[r].line = node[r].line /\ node'[r].parent = node[r].parent /\ node'[r].agent = node[r].agent
      /\ node'[r].call = node[r].call /\ node'[r].index = node[r].index
      /\ node'[r].result = node[r].result /\ node'[r].outcome = outcome_
  BY <1>1, <1>2 DEF AgentInv, AgentTypeOK, Nodes0
<1>5. AgentTypeOK'
  BY <1>1, <1>2, <1>3, <1>4 DEF AgentInv, AgentTypeOK
<1>6. Working(r) /\ (Working(r)' => Working(r))
  BY <1>2 DEF Working
<1>7. r # Top /\ node'[r].stage = "settled" => \A d \in Agent!Below(r) : Working(d)' => d \in told
  <2> SUFFICES ASSUME r # Top, node'[r].stage = "settled", NEW d \in Agent!Below(r), Working(d)' PROVE d \in told
    OBVIOUS
  <2>1. Working(d)
    BY <1>4, <1>6 DEF Working, Agent!Below, AgentRuns, Agent!Runs
  <2> QED
    BY <1>4, <2>1 DEF AgentInv, Agent!NoneLeftAlone, AgentRuns, Working
<1>8. r # Top => node'[r].result # "completed"
  BY <1>2, <1>4 DEF AgentInv, AgentTypeOK, Agent!CompletedIsTrue, AgentRuns, Agent!Runs
<1> QED
  BY <1>2, <1>3, <1>4, <1>5, <1>6, <1>7, <1>8, OneStepKeeps

\* What is settled below a call whose run is over has left nothing that was not told, and the
\* run was over with all its calls settled.
LEMMA AnswerKeeps ==
  ASSUME AgentInv, NEW c \in Calls, Agent!Answer(c)
  PROVE  AgentInv'
<1>1. c \in AgentRuns /\ c # Top /\ node[c].stage = "waiting" /\ node[c].run = "over" /\ node[c] \in Nodes0 /\ told' = told
  BY AgentsAssumption DEF AgentInv, AgentTypeOK, AgentRuns, Agent!Runs, Agent!Answer
<1>2. node' = [node EXCEPT ![c] = [node[c] EXCEPT !.stage = "settled", !.result = node[c].outcome]]
  BY DEF Agent!Answer, Agent!Set
<1>3. /\ \A r \in AgentRuns \ {c} : node'[r] = node[r]
      /\ node'[c] \in Nodes0 /\ node'[c].stage = "settled" /\ node'[c].run = "over"
      /\ node'[c].line = node[c].line /\ node'[c].parent = node[c].parent /\ node'[c].agent = node[c].agent
      /\ node'[c].call = node[c].call /\ node'[c].index = node[c].index
      /\ node'[c].result = node[c].outcome /\ node'[c].outcome = node[c].outcome
  BY <1>1, <1>2 DEF AgentInv, AgentTypeOK, Nodes0
<1>4. AgentTypeOK'
  BY <1>1, <1>2, <1>3 DEF AgentInv, AgentTypeOK
<1>5. ~Working(c)'
  BY <1>3 DEF Working
<1>6. Agent!Unsettled(c) = {}
  BY <1>1 DEF AgentInv, Agent!NoneLeftAlone, AgentRuns
<1>7. ASSUME NEW d \in Agent!Below(c), Working(d)' PROVE d \in told
  <2>1. d \in AgentRuns /\ d # c /\ Working(d)
    BY <1>3, <1>5, <1>7 DEF Working, Agent!Below, AgentRuns, Agent!Runs
  <2>2. PICK e \in Agent!Children(c) : e \in node[d].line
    BY <2>1 DEF AgentInv, LineInv, Agent!Below
  <2>3. node[e].stage = "settled" /\ d \in Agent!Below(e) /\ e \in AgentRuns /\ e # Top
    BY <1>6, <2>2, AgentsAssumption DEF Agent!Unsettled, Agent!Children, Agent!Below, AgentRuns, Agent!Runs
  <2> QED
    BY <2>1, <2>3 DEF AgentInv, Agent!NoneLeftAlone, AgentRuns, Working
<1> QED
  BY <1>1, <1>3, <1>4, <1>5, <1>6, <1>7, OneStepKeeps

LEMMA LeaveKeeps ==
  ASSUME AgentInv, NEW c \in Calls, Agent!Leave(c)
  PROVE  AgentInv'
<1>1. c \in AgentRuns /\ c # Top /\ node[c].stage = "waiting" /\ c \in told /\ node[c] \in Nodes0 /\ told' = told
  BY AgentsAssumption DEF AgentInv, AgentTypeOK, AgentRuns, Agent!Runs, Agent!Leave
<1>2. node' = [node EXCEPT ![c] = [node[c] EXCEPT !.stage = "settled", !.result = "cancelled"]]
  BY DEF Agent!Leave, Agent!Set
<1>3. /\ \A r \in AgentRuns \ {c} : node'[r] = node[r]
      /\ node'[c] \in Nodes0 /\ node'[c].stage = "settled" /\ node'[c].run = node[c].run
      /\ node'[c].line = node[c].line /\ node'[c].parent = node[c].parent /\ node'[c].agent = node[c].agent
      /\ node'[c].call = node[c].call /\ node'[c].index = node[c].index
      /\ node'[c].result = "cancelled" /\ node'[c].outcome = node[c].outcome
  BY <1>1, <1>2 DEF AgentInv, AgentTypeOK, Nodes0
<1>4. AgentTypeOK'
  BY <1>1, <1>2, <1>3 DEF AgentInv, AgentTypeOK
<1>5. Working(c)' => Working(c)
  BY <1>3 DEF Working
<1>6. ASSUME NEW d \in Agent!Below(c), Working(d)' PROVE d \in told
  BY <1>1, <1>3, <1>5, <1>6 DEF AgentInv, ToldInv, Working, Agent!Below, AgentRuns, Agent!Runs
<1>7. node'[c].run = "over" => Agent!Unsettled(c) = {}
  BY <1>1, <1>3 DEF AgentInv, Agent!NoneLeftAlone, AgentRuns
<1> QED
  BY <1>1, <1>3, <1>4, <1>5, <1>6, <1>7, OneStepKeeps

LEMMA CancelKeeps ==
  ASSUME AgentInv, NEW r \in AgentRuns, Agent!Cancel(r)
  PROVE  AgentInv'
<1>1. /\ node' = node
      /\ told' = told \cup {r} \cup {c \in Agent!Below(r) : Working(c)}
  BY DEF Agent!Cancel, Working
<1>2. \A s \in AgentRuns : Agent!Below(s)' = Agent!Below(s) /\ Agent!Unsettled(s)' = Agent!Unsettled(s)
  BY <1>1 DEF Agent!Below, Agent!Unsettled, Agent!Children
<1>3. AgentTypeOK'
  BY <1>1 DEF AgentInv, AgentTypeOK, Agent!Below, AgentRuns, Agent!Runs
<1>4. LineInv' /\ BoundedInv'
  <2>1. LineInv'
    BY <1>1 DEF AgentInv, LineInv, Agent!Children
  <2>2. PlacesInv'
    BY <1>1 DEF AgentInv, BoundedInv, PlacesInv, Agent!Ahead, Agent!Unsettled, Agent!Children
  <2>3. \A s \in AgentRuns : LineIsBounded(s)' <=> LineIsBounded(s)
    BY <1>1 DEF LineIsBounded, Agent!Depth
  <2> QED
    BY <1>1, <2>1, <2>2, <2>3 DEF AgentInv, BoundedInv
<1>5. ToldInv'
  <2> SUFFICES ASSUME NEW s \in told', NEW d \in Agent!Below(s)', Working(d)' PROVE d \in told'
    BY DEF ToldInv
  <2>1. Working(d)
    BY <1>1 DEF Working
  <2>2. CASE s \in told
    BY <1>1, <1>2, <2>1, <2>2 DEF AgentInv, AgentTypeOK, ToldInv
  <2>3. CASE s = r
    BY <1>1, <1>2, <2>1, <2>3
  <2>4. CASE s \in Agent!Below(r)
    <3>1. d \in Agent!Below(s)
      BY <1>2, <2>4 DEF Agent!Below, AgentRuns, Agent!Runs
    <3>2. d \in Agent!Below(r)
      BY <2>4, <3>1, BelowIsBelow
    <3> QED
      BY <1>1, <2>1, <3>2
  <2> QED
    BY <1>1, <2>2, <2>3, <2>4
<1>6. Agent!NoneLeftAlone' /\ Agent!CompletedIsTrue'
  BY <1>1, <1>2 DEF AgentInv, Agent!NoneLeftAlone, Agent!CompletedIsTrue, AgentRuns
<1> QED
  BY <1>3, <1>4, <1>5, <1>6 DEF AgentInv

LEMMA AgentStep == AgentInv /\ [Agent!Next]_agentsVars => AgentInv'
<1> SUFFICES ASSUME AgentInv, [Agent!Next]_agentsVars PROVE AgentInv'
  OBVIOUS
<1>1. CASE UNCHANGED agentsVars
  BY <1>1 DEF agentsVars, AgentInv, AgentTypeOK, LineInv, BoundedInv, PlacesInv, Agent!Ahead, ToldInv, Working,
     LineIsBounded, Agent!Depth, Agent!Children, Agent!Unsettled, Agent!Below,
     Agent!NoneLeftAlone, Agent!CompletedIsTrue
<1>2. CASE Agent!Next
  BY <1>2, AskKeeps, RunEndsKeeps, CancelKeeps, LaunchKeeps, ExecuteKeeps, AnswerKeeps, LeaveKeeps
     DEF Agent!Next, AgentRuns
<1> QED
  BY <1>1, <1>2

LEMMA AgentInitially == ASSUME Agent!Init PROVE AgentInv
<1>1. Top \in AgentRuns /\ told = {}
  BY DEF Agent!Init, AgentRuns, Agent!Runs
<1>2. node = [r \in AgentRuns |->
                IF r = Top THEN [Agent!Free EXCEPT !.stage = "waiting", !.line = {Top}, !.run = "on"] ELSE Agent!Free]
  BY DEF Agent!Init, AgentRuns
<1>3. /\ node[Top] = [stage |-> "waiting", agent |-> TopAgent, parent |-> Top, line |-> {Top}, call |-> 0, index |-> 0,
                      run |-> "on", outcome |-> "none", result |-> "none"]
      /\ \A r \in AgentRuns \ {Top} :
           node[r] = [stage |-> "free", agent |-> TopAgent, parent |-> Top, line |-> {}, call |-> 0, index |-> 0,
                      run |-> "none", outcome |-> "none", result |-> "none"]
  BY <1>1, <1>2 DEF Agent!Free
<1>4. \A r \in AgentRuns : node[r] \in Nodes0
  BY <1>1, <1>3 DEF Nodes0
<1>5. AgentTypeOK
  <2>1. node \in [AgentRuns -> Nodes0]
    <3>1. DOMAIN node = AgentRuns /\ node = [r \in AgentRuns |-> node[r]]
      BY <1>2
    <3> QED
      BY <1>4, <3>1
  <2>2. \A r \in AgentRuns : /\ node[r].stage \in {"free", "queued", "task"} => node[r].run = "none"
                             /\ node[r].run # "over" => node[r].outcome = "none"
    BY <1>3
  <2> QED
    BY <1>1, <1>3, <2>1, <2>2 DEF AgentTypeOK
<1>6. LineInv
  BY <1>1, <1>3, AgentsAssumption DEF LineInv, AgentRuns, Agent!Runs
<1>7. (\A r \in AgentRuns : Agent!Unsettled(r) = {}) /\ \A c \in Calls : node[c].stage = "free"
  BY <1>3, AgentsAssumption DEF Agent!Unsettled, Agent!Children, AgentRuns, Agent!Runs
<1>8. BoundedInv
  <2>1. LineIsBounded(Top)
    <3>1. Agent!Depth(Top) = 0
      <4>1. node[Top].line = {Top}
        BY <1>3
      <4> QED
        BY <4>1, SameCardinality, FS_Singleton DEF Agent!Depth
    <3> QED
      BY <1>3, <3>1, AgentsAssumption DEF LineIsBounded
  <2> QED
    BY <1>3, <1>7, <2>1 DEF BoundedInv, PlacesInv, AtWork
<1>9. ToldInv /\ Agent!NoneLeftAlone /\ Agent!CompletedIsTrue
  BY <1>1, <1>3, <1>7, AgentsAssumption
     DEF ToldInv, Agent!NoneLeftAlone, Agent!CompletedIsTrue, AgentRuns, Agent!Runs
<1> QED
  BY <1>5, <1>6, <1>8, <1>9 DEF AgentInv

\* Of two requests of a call the later one has more before it.
LEMMA MoreAhead ==
  ASSUME AgentInv, NEW r \in AgentRuns, NEW k \in Nat, NEW c \in Busy(r, k), NEW d \in Busy(r, k),
         node[c].index < node[d].index
  PROVE  Cardinality(Agent!Ahead(c)) < Cardinality(Agent!Ahead(d))
<1>1. /\ c \in Agent!Unsettled(r) /\ node[c].parent = r /\ node[c].call = k /\ node[c].index \in Nat
      /\ d \in Agent!Unsettled(r) /\ node[d].parent = r /\ node[d].call = k /\ node[d].index \in Nat
  BY DEF Busy, Agent!Unsettled, Agent!Children, AgentInv, AgentTypeOK, Nodes0, AgentRuns, Agent!Runs
<1>2. \A s \in Agent!Unsettled(r) : node[s].index \in Nat
  BY DEF Agent!Unsettled, Agent!Children, AgentInv, AgentTypeOK, Nodes0, AgentRuns, Agent!Runs
<1>3. Agent!Ahead(c) \cup {c} \subseteq Agent!Ahead(d) /\ c \notin Agent!Ahead(c)
  BY <1>1, <1>2 DEF Agent!Ahead
<1>4. IsFiniteSet(Agent!Ahead(c)) /\ IsFiniteSet(Agent!Ahead(d))
  BY AgentsAssumption, FS_Subset DEF Agent!Ahead, Agent!Unsettled, Agent!Children
<1>5. Cardinality(Agent!Ahead(c) \cup {c}) = Cardinality(Agent!Ahead(c)) + 1
  BY <1>3, <1>4, FS_AddElement
<1>6. Cardinality(Agent!Ahead(c) \cup {c}) <= Cardinality(Agent!Ahead(d))
  BY <1>3, <1>4, FS_Subset
<1> QED
  BY <1>4, <1>5, <1>6, FS_CardinalityType

\* What works of a call is within the limit: each has a number of requests before it that is its
\* own and less than the limit.
LEMMA WidthIsBounded ==
  ASSUME AgentInv, NEW r \in AgentRuns, NEW k \in Nat
  PROVE  Cardinality(Busy(r, k)) <= MaxParallel
<1> DEFINE f == [c \in Busy(r, k) |-> Cardinality(Agent!Ahead(c))]
<1>1. Busy(r, k) \subseteq Calls /\ IsFiniteSet(Busy(r, k)) /\ Cardinality(Busy(r, k)) \in Nat
  BY AgentsAssumption, FS_Subset, FS_CardinalityType DEF Busy, Agent!Unsettled, Agent!Children
<1>2. ASSUME NEW c \in Busy(r, k) PROVE Cardinality(Agent!Ahead(c)) \in 0..(MaxParallel - 1)
  <2>1. IsFiniteSet(Agent!Ahead(c))
    BY AgentsAssumption, FS_Subset DEF Agent!Ahead, Agent!Unsettled, Agent!Children
  <2>2. Cardinality(Agent!Ahead(c)) < MaxParallel
    BY <1>1 DEF Busy, AgentInv, BoundedInv, PlacesInv
  <2> QED
    BY <2>1, <2>2, FS_CardinalityType, AgentsAssumption
<1>3. f \in [Busy(r, k) -> 0..(MaxParallel - 1)]
  BY <1>2
<1>4. IsFiniteSet(0..(MaxParallel - 1)) /\ Cardinality(0..(MaxParallel - 1)) = MaxParallel
  BY FS_Interval, AgentsAssumption
<1>5. ASSUME NEW c \in Busy(r, k), NEW d \in Busy(r, k), c # d PROVE f[c] # f[d]
  <2>1. node[c].index \in Nat /\ node[d].index \in Nat
    BY DEF Busy, Agent!Unsettled, Agent!Children, AgentInv, AgentTypeOK, Nodes0, AgentRuns, Agent!Runs
  <2>2. node[c].index # node[d].index
    BY <1>5 DEF Busy, AgentInv, BoundedInv, PlacesInv
  <2>3. f[c] \in Nat /\ f[d] \in Nat
    BY <1>2, AgentsAssumption
  <2>4. node[c].index < node[d].index => f[c] < f[d]
    BY MoreAhead
  <2>5. node[d].index < node[c].index => f[d] < f[c]
    BY MoreAhead
  <2> QED
    BY <2>1, <2>2, <2>3, <2>4, <2>5
<1> HIDE DEF f
<1> QED
  <2>1. ASSUME MaxParallel < Cardinality(Busy(r, k)) PROVE FALSE
    BY <1>1, <1>3, <1>4, <1>5, <2>1, FS_PigeonHole
  <2> QED
    BY <1>1, <2>1, AgentsAssumption

LEMMA AgentPromise == AgentInv => Agent!CallsEnd
<1> SUFFICES ASSUME AgentInv PROVE Agent!CallsAreBounded
  BY DEF AgentInv, Agent!CallsEnd
<1>1. \A r \in AgentRuns : \A k \in 1..MaxRequests : Agent!Cardinality(Busy(r, k)) <= MaxParallel
  BY WidthIsBounded, SameCardinality, AgentsAssumption
<1> QED
  BY <1>1 DEF AgentInv, BoundedInv, LineIsBounded, Busy, AtWork, Agent!CallsAreBounded, AgentRuns

-----------------------------------------------------------------------------
(* RunNodes: what is recorded of a run and the agents it calls.            *)

KeysOf(edges) == {e[1] : e \in edges}
IsForest(edges) ==
  \A some \in (SUBSET KeysOf(edges)) \ {{}} : \E k \in some : \A e \in edges : e[1] = k => e[2] \notin some

\* A forest stays one when an edge leads up from what is nobody's parent, or to no node.
LEMMA ForestGrows ==
  ASSUME NEW edges, IsForest(edges), NEW root, root \notin KeysOf(edges),
         \A e \in edges : e[2] \in KeysOf(edges) \cup {root},
         NEW k, k # root,
         NEW p, \/ <<k, p>> \in edges \/ p = root
                \/ p # k /\ \A e \in edges : e[2] # k
  PROVE  IsForest(edges \cup {<<k, p>>})
<1> DEFINE grown == edges \cup {<<k, p>>}
<1>1. KeysOf(grown) = KeysOf(edges) \cup {k}
  BY DEF KeysOf
<1>2. CASE <<k, p>> \in edges
  <2>1. grown = edges
    BY <1>2
  <2> QED
    BY <2>1
<1>3. CASE p = root /\ k \in KeysOf(edges)
  <2>1. ASSUME NEW some \in (SUBSET KeysOf(grown)) \ {{}}
        PROVE  \E x \in some : \A e \in grown : e[1] = x => e[2] \notin some
    <3>1. some \in (SUBSET KeysOf(edges)) \ {{}} /\ root \notin some
      BY <1>1, <1>3
    <3>2. PICK x \in some : \A e \in edges : e[1] = x => e[2] \notin some
      BY <3>1 DEF IsForest
    <3> QED
      BY <1>3, <3>1, <3>2
  <2> QED
    BY <2>1 DEF IsForest
<1>4. CASE p # k /\ \A e \in edges : e[2] # k
  <2>1. ASSUME NEW some \in (SUBSET KeysOf(grown)) \ {{}}
        PROVE  \E x \in some : \A e \in grown : e[1] = x => e[2] \notin some
    <3>1. CASE some = {k}
      BY <1>4, <3>1
    <3>2. CASE some # {k}
      <4>1. some \ {k} \in (SUBSET KeysOf(edges)) \ {{}}
        BY <1>1, <3>2
      <4>2. PICK x \in some \ {k} : \A e \in edges : e[1] = x => e[2] \notin some \ {k}
        BY <4>1 DEF IsForest
      <4>3. ASSUME NEW e \in grown, e[1] = x PROVE e[2] \notin some
        <5>1. e \in edges
          BY <4>2, <4>3
        <5> QED
          BY <1>4, <4>2, <4>3, <5>1
      <4> QED
        BY <4>3
    <3> QED
      BY <3>1, <3>2
  <2> QED
    BY <2>1 DEF IsForest
<1>5. CASE p = root /\ k \notin KeysOf(edges)
  BY <1>4, <1>5
<1> QED
  BY <1>2, <1>3, <1>4, <1>5

-----------------------------------------------------------------------------
NodeRuns == Nodes!Runs
AgentNames == Agents \cup {TopAgent}
Nowhere == Nodes!NoNode
KeyOf(r) == Nodes!Key(r)

\* The top, and the calls there have been.
Seen == {r \in NodeRuns : r = Top \/ runNode[r].task # Absent}

RunNode == [run: {"none", "on", "begun", "started", "ended", "finished", "rejected", "refused"},
            task: {Absent, "open", "settled"}, agent: AgentNames \cup {Absent}, caller: NodeRuns,
            outcome: {Absent, "completed", "failed", "aborted"}, noted: BOOLEAN]

NodesTypeOK ==
  /\ runEntry \in {"message", "task"}
  /\ runNode \in [NodeRuns -> RunNode]
  /\ runNode[Top].agent = TopAgent
  /\ \A c \in NodeCalls : runNode[c].task # Absent => runNode[c].agent # Absent /\ runNode[c].caller \in Seen
  /\ \A c \in NodeCalls : runNode[c].task = Absent => runNode[c].run = "none"

\* Every key is of a run there has been or of an agent alone; every parent is of a run there
\* has been, whose key is there.
EdgesInv ==
  /\ \A e \in runEdges : (\E r \in Seen : e[1] = KeyOf(r)) \/ (\E a \in AgentNames : e[1] = <<a, Absent>>)
  /\ \A e \in runEdges : e[2] # Nowhere => e[2] \in KeysOf(runEdges) /\ \E r \in Seen : e[2] = KeyOf(r)
  /\ \A c \in NodeCalls : runNode[c].task # Absent => <<KeyOf(c), KeyOf(runNode[c].caller)>> \in runEdges
  /\ IsForest(runEdges)

\* The record is of a run there has been; of a message, of the top.
RecordInv ==
  /\ runRecord = [status |-> runRecord.status, agent |-> runRecord.agent, key |-> runRecord.key, parent |-> Nowhere]
  /\ runRecord # Nodes!NoRecord => runRecord.key \in KeysOf(runEdges) /\ \E r \in Seen : runRecord.key = KeyOf(r)
  /\ runRecord = Nodes!NoRecord \/ runRecord.key # Nowhere
  /\ runRecord # Nodes!NoRecord /\ runEntry = "message" => runRecord.agent = TopAgent /\ runRecord.key = KeyOf(Top)

\* Nothing is called, and the top not at work, before there is a record of a message or the
\* task of a task.
TopInv ==
  /\ (\E c \in NodeCalls : runNode[c].task # Absent) \/ runNode[Top].run \notin {"none", "rejected", "refused"} =>
       /\ KeyOf(Top) \in KeysOf(runEdges)
       /\ runEntry = "message" => runRecord # Nodes!NoRecord
  /\ runEntry = "task" /\ runNode[Top].task # Absent => KeyOf(Top) \in KeysOf(runEdges)

\* The hook that cancels the run has heard of an end.
TrackerInv ==
  runTracker \in {"due", "gone"} =>
    runNode[Top].run \in {"ended", "finished"} \/ \E c \in NodeCalls : runNode[c].run = "ended"

NodesInv ==
  /\ NodesTypeOK /\ EdgesInv /\ RecordInv /\ TopInv /\ TrackerInv
  /\ Nodes!RecordIsTheTops

\* The run of a key does not lose it: entry and agent stay.
RunsStay ==
  /\ runEntry' = runEntry
  /\ \A r \in Seen : r \in Seen' /\ runNode'[r].agent = runNode[r].agent /\ runNode'[r].caller = runNode[r].caller

LEMMA KeysStay ==
  ASSUME RunsStay, NEW r \in Seen
  PROVE  r \in Seen' /\ KeyOf(r)' = KeyOf(r)
  BY DEF RunsStay, KeyOf, Nodes!Key

\* A key names an agent, and one of a call the call.
LEMMA KeysAreNames ==
  ASSUME NodesTypeOK
  PROVE  /\ \A r \in Seen : KeyOf(r)[1] \in AgentNames /\ KeyOf(r) # Nowhere
         /\ \A c \in NodeCalls : KeyOf(c)[2] = c
         /\ \A a \in AgentNames : <<a, Absent>> # Nowhere
<1>1. \A r \in Seen : runNode[r].agent \in AgentNames
  BY DEF NodesTypeOK, RunNode, Seen, AgentNames, NodeRuns, Nodes!Runs
<1>2. Absent \notin AgentNames
  BY NodesAssumption DEF AgentNames
<1> QED
  BY <1>1, <1>2, NodesAssumption DEF KeyOf, Nodes!Key, Nowhere, Nodes!NoNode

LEMMA NowhereIsNoKey ==
  ASSUME NodesTypeOK, EdgesInv
  PROVE  Nowhere \notin KeysOf(runEdges)
  BY KeysAreNames DEF EdgesInv, KeysOf

\* The key of an agent alone is no parent, but for the top's that came as a message.
LEMMA AloneIsNoParent ==
  ASSUME NodesTypeOK, EdgesInv, NEW a \in AgentNames, runEntry = "task" \/ a # TopAgent
  PROVE  \A e \in runEdges : e[2] # <<a, Absent>>
<1>1. \A r \in Seen : KeyOf(r) # <<a, Absent>>
  BY NodesAssumption DEF Seen, KeyOf, Nodes!Key, NodesTypeOK, NodeRuns, Nodes!Runs
<1>2. <<a, Absent>> # Nowhere
  BY KeysAreNames
<1> QED
  BY <1>1, <1>2 DEF EdgesInv

LEMMA EdgeAdded ==
  ASSUME NodesTypeOK, EdgesInv, RunsStay, NodesTypeOK', NEW k, NEW p,
         runEdges' = runEdges \cup {<<k, p>>},
         (\E r \in Seen' : k = KeyOf(r)') \/ (\E a \in AgentNames : k = <<a, Absent>>),
         p # Nowhere => p \in KeysOf(runEdges) /\ \E r \in Seen : p = KeyOf(r),
         \/ <<k, p>> \in runEdges \/ p = Nowhere
         \/ p # k /\ \A e \in runEdges : e[2] # k,
         \A c \in NodeCalls : runNode'[c].task # Absent /\ runNode[c].task = Absent =>
             KeyOf(c)' = k /\ KeyOf(runNode[c].caller)' = p
  PROVE  EdgesInv' /\ k \in KeysOf(runEdges') /\ KeysOf(runEdges) \subseteq KeysOf(runEdges')
<1>1. KeysOf(runEdges') = KeysOf(runEdges) \cup {k}
  BY DEF KeysOf
<1>2. \A r \in Seen : r \in Seen' /\ KeyOf(r)' = KeyOf(r)
  BY KeysStay
<1>3. k # Nowhere
  <2>1. \A r \in Seen' : KeyOf(r)' # Nowhere
    <3>1. \A r \in Seen' : runNode'[r].agent \in AgentNames
      BY DEF NodesTypeOK, RunNode, Seen, AgentNames, NodeRuns, Nodes!Runs
    <3>2. Absent \notin AgentNames
      BY NodesAssumption DEF AgentNames
    <3> QED
      BY <3>1, <3>2 DEF KeyOf, Nodes!Key, Nowhere, Nodes!NoNode
  <2> QED
    BY <2>1, KeysAreNames
<1>4. Nowhere \notin KeysOf(runEdges)
  BY NowhereIsNoKey
<1>5. \A e \in runEdges : e[2] \in KeysOf(runEdges) \cup {Nowhere}
  BY DEF EdgesInv
<1>6. IsForest(runEdges')
  BY <1>3, <1>4, <1>5, ForestGrows DEF EdgesInv
<1>7. \A e \in runEdges' : (\E r \in Seen' : e[1] = KeyOf(r)') \/ (\E a \in AgentNames : e[1] = <<a, Absent>>)
  BY <1>2 DEF EdgesInv
<1>8. ASSUME NEW e \in runEdges', e[2] # Nowhere
      PROVE  e[2] \in KeysOf(runEdges') /\ \E r \in Seen' : e[2] = KeyOf(r)'
  <2>1. e[2] \in KeysOf(runEdges) /\ \E r \in Seen : e[2] = KeyOf(r)
    <3>1. CASE e \in runEdges
      BY <1>8, <3>1 DEF EdgesInv
    <3>2. CASE e = <<k, p>>
      BY <1>8, <3>2
    <3> QED
      BY <3>1, <3>2
  <2> QED
    BY <1>1, <1>2, <2>1
<1>9. ASSUME NEW c \in NodeCalls, runNode'[c].task # Absent
      PROVE  <<KeyOf(c)', KeyOf(runNode[c].caller)'>> \in runEdges'
  <2>1. CASE runNode[c].task = Absent
    BY <1>9, <2>1
  <2>2. CASE runNode[c].task # Absent
    <3>1. c \in Seen /\ runNode[c].caller \in Seen
      BY <2>2 DEF NodesTypeOK, Seen, NodeRuns, Nodes!Runs
    <3>2. runNode'[c].caller = runNode[c].caller
      BY <3>1 DEF RunsStay
    <3>3. KeyOf(c)' = KeyOf(c) /\ KeyOf(runNode[c].caller)' = KeyOf(runNode[c].caller)
      BY <1>2, <3>1, <3>2 DEF KeyOf, Nodes!Key
    <3> QED
      BY <2>2, <3>2, <3>3 DEF EdgesInv
  <2> QED
    BY <2>1, <2>2
<1> QED
  BY <1>1, <1>6, <1>7, <1>8, <1>9 DEF EdgesInv

\* What a step of one run leaves of the others and of who they are.
LEMMA OneNodeMoves ==
  ASSUME NodesTypeOK, runEntry' = runEntry, NEW r \in NodeRuns, NEW new \in RunNode,
         runNode' = [runNode EXCEPT ![r] = new],
         new.agent = runNode[r].agent, new.caller = runNode[r].caller,
         runNode[r].task # Absent => new.task # Absent,
         r # Top => runNode[r].task # Absent
  PROVE  /\ NodesTypeOK' /\ RunsStay
         /\ \A s \in NodeRuns \ {r} : runNode'[s] = runNode[s]
         /\ runNode'[r] = new
         /\ \A c \in NodeCalls : runNode'[c].task # Absent <=> runNode[c].task # Absent
<1>1. (\A s \in NodeRuns \ {r} : runNode'[s] = runNode[s]) /\ runNode'[r] = new /\ runNode' \in [NodeRuns -> RunNode]
  BY DEF NodesTypeOK
<1>2. NodeCalls \subseteq NodeRuns /\ Top \in NodeRuns /\ Top \notin NodeCalls
  BY NodesAssumption DEF NodeRuns, Nodes!Runs
<1>3. Seen' = Seen
  BY <1>1, <1>2 DEF Seen
<1>4. RunsStay
  BY <1>1, <1>3 DEF RunsStay, Seen
<1>5. \A c \in NodeCalls : runNode'[c].task # Absent <=> runNode[c].task # Absent
  BY <1>1, <1>2
<1>6. \A c \in NodeCalls : runNode'[c].task # Absent => runNode'[c].agent # Absent /\ runNode'[c].caller \in Seen'
  BY <1>1, <1>2, <1>3, <1>5 DEF NodesTypeOK
<1>7. \A c \in NodeCalls : runNode'[c].task = Absent => runNode'[c].run = "none"
  BY <1>1, <1>2, <1>5 DEF NodesTypeOK
<1>8. runNode'[Top].agent = TopAgent
  BY <1>1, <1>2 DEF NodesTypeOK
<1> QED
  BY <1>1, <1>4, <1>5, <1>6, <1>7, <1>8 DEF NodesTypeOK

LifecycleNames == Nodes!Outcomes \cup {"run.started"}

\* The first lifecycle event makes the record, and only events of its node change its status.
LEMMA LifecycleMeans ==
  ASSUME NodesTypeOK, RecordInv, NEW name, NEW agent, NEW key, key # Nowhere,
         NEW new, new = Nodes!Lifecycle(runRecord, name, key, agent)
  PROVE  /\ new = [status |-> new.status, agent |-> new.agent, key |-> new.key, parent |-> Nowhere]
         /\ name \notin LifecycleNames => new = runRecord
         /\ runRecord # Nodes!NoRecord =>
              /\ new # Nodes!NoRecord /\ new.key = runRecord.key /\ new.agent = runRecord.agent
              /\ key # runRecord.key => new = runRecord
              /\ key = runRecord.key /\ name \in LifecycleNames =>
                   new.status = IF name = "run.started" THEN "running" ELSE name
         /\ runRecord = Nodes!NoRecord /\ name \in LifecycleNames =>
              new # Nodes!NoRecord /\ new.key = key /\ new.agent = agent
<1>1. Nodes!NoRecord = [status |-> "none", agent |-> Absent, key |-> Nowhere, parent |-> Nowhere]
  BY DEF Nodes!NoRecord, Nodes!Record, Nowhere
<1>2. Nodes!Record("queued", agent, key) = [status |-> "queued", agent |-> agent, key |-> key, parent |-> Nowhere]
  BY DEF Nodes!Record, Nowhere
<1>3. CASE name \notin LifecycleNames
  <2>1. new = runRecord
    <3>1. CASE runRecord = Nodes!NoRecord
      BY <1>2, <1>3, <3>1 DEF Nodes!Lifecycle, LifecycleNames
    <3>2. CASE runRecord # Nodes!NoRecord
      BY <1>3, <3>2 DEF Nodes!Lifecycle, LifecycleNames
    <3> QED
      BY <3>1, <3>2
  <2> QED
    BY <1>3, <2>1 DEF RecordInv
<1>4. CASE name \in LifecycleNames /\ runRecord = Nodes!NoRecord
  <2>1. new = [status |-> IF name = "run.started" THEN "running" ELSE name, agent |-> agent, key |-> key, parent |-> Nowhere]
    BY <1>2, <1>4 DEF Nodes!Lifecycle, LifecycleNames
  <2> QED
    BY <1>1, <1>4, <2>1
<1>5. CASE name \in LifecycleNames /\ runRecord # Nodes!NoRecord
  <2>1. runRecord.key # Nowhere
    BY <1>5 DEF RecordInv
  <2>2. CASE key = runRecord.key
    <3>1. new = [runRecord EXCEPT !.status = IF name = "run.started" THEN "running" ELSE name]
      BY <1>5, <2>2 DEF Nodes!Lifecycle, LifecycleNames
    <3>2. new = [status |-> IF name = "run.started" THEN "running" ELSE name, agent |-> runRecord.agent,
                 key |-> runRecord.key, parent |-> Nowhere]
      BY <3>1 DEF RecordInv
    <3> QED
      BY <1>1, <1>5, <2>1, <2>2, <3>2
  <2>3. CASE key # runRecord.key
    <3>1. new = runRecord
      BY <1>5, <2>3 DEF Nodes!Lifecycle, LifecycleNames
    <3> QED
      BY <1>5, <2>3, <3>1 DEF RecordInv
  <2> QED
    BY <2>2, <2>3
<1> QED
  BY <1>3, <1>4, <1>5

\* What is published is placed below what is there, and may make the record.
LEMMA PublishKeeps ==
  ASSUME NodesTypeOK, EdgesInv, RecordInv, RunsStay, NodesTypeOK', NEW name, NEW k, NEW p, NEW agent,
         Nodes!Publish(name, <<k, p>>, agent),
         (\E r \in Seen' : k = KeyOf(r)') \/ (\E a \in AgentNames : k = <<a, Absent>>),
         p # Nowhere => p \in KeysOf(runEdges) /\ \E r \in Seen : p = KeyOf(r),
         \/ <<k, p>> \in runEdges \/ p = Nowhere
         \/ p # k /\ \A e \in runEdges : e[2] # k,
         \A c \in NodeCalls : runNode'[c].task # Absent /\ runNode[c].task = Absent =>
             KeyOf(c)' = k /\ KeyOf(runNode[c].caller)' = p,
         name \in LifecycleNames => \E r \in Seen : k = KeyOf(r),
         name \in LifecycleNames /\ runEntry = "message" => runRecord # Nodes!NoRecord
  PROVE  /\ EdgesInv' /\ RecordInv'
         /\ k \in KeysOf(runEdges') /\ KeysOf(runEdges) \subseteq KeysOf(runEdges')
         /\ runRecord # Nodes!NoRecord => runRecord' # Nodes!NoRecord
         /\ name \notin LifecycleNames => runRecord' = runRecord
         /\ runRecord # Nodes!NoRecord =>
              /\ runRecord'.key = runRecord.key /\ runRecord'.agent = runRecord.agent
              /\ k # runRecord.key => runRecord' = runRecord
              /\ k = runRecord.key /\ name \in LifecycleNames =>
                   runRecord'.status = IF name = "run.started" THEN "running" ELSE name
<1>1. runRecord' = Nodes!Lifecycle(runRecord, name, k, agent) /\ runEdges' = runEdges \cup {<<k, p>>}
  BY DEF Nodes!Publish
<1>2. EdgesInv' /\ k \in KeysOf(runEdges') /\ KeysOf(runEdges) \subseteq KeysOf(runEdges')
  BY <1>1, EdgeAdded
<1>3. \A r \in Seen : r \in Seen' /\ KeyOf(r)' = KeyOf(r)
  BY KeysStay
<1>4. Top \in Seen
  BY DEF Seen, NodeRuns, Nodes!Runs
<1>5. k # Nowhere
  <2>1. Nowhere \notin KeysOf(runEdges)'
    <3>1. \A r \in Seen' : runNode'[r].agent \in AgentNames
      BY DEF NodesTypeOK, RunNode, Seen, AgentNames, NodeRuns, Nodes!Runs
    <3>2. Absent \notin AgentNames
      BY NodesAssumption DEF AgentNames
    <3>3. \A r \in Seen' : KeyOf(r)' # Nowhere
      BY <3>1, <3>2 DEF KeyOf, Nodes!Key, Nowhere, Nodes!NoNode
    <3>4. \A a \in AgentNames : <<a, Absent>> # Nowhere
      BY KeysAreNames
    <3> QED
      BY <1>2, <3>3, <3>4 DEF EdgesInv, KeysOf
  <2> QED
    BY <1>2, <2>1
<1>6. PICK new : new = Nodes!Lifecycle(runRecord, name, k, agent)
  OBVIOUS
<1>7. runRecord' = new
  BY <1>1, <1>6
<1>8. /\ new = [status |-> new.status, agent |-> new.agent, key |-> new.key, parent |-> Nowhere]
      /\ name \notin LifecycleNames => new = runRecord
      /\ runRecord # Nodes!NoRecord =>
           /\ new # Nodes!NoRecord /\ new.key = runRecord.key /\ new.agent = runRecord.agent
           /\ k # runRecord.key => new = runRecord
           /\ k = runRecord.key /\ name \in LifecycleNames =>
                new.status = IF name = "run.started" THEN "running" ELSE name
      /\ runRecord = Nodes!NoRecord /\ name \in LifecycleNames =>
           new # Nodes!NoRecord /\ new.key = k /\ new.agent = agent
  BY <1>5, <1>6, LifecycleMeans
<1>9. RecordInv'
  <2>1. CASE runRecord = Nodes!NoRecord /\ name \in LifecycleNames
    <3>1. runEntry' # "message"
      BY <2>1 DEF RunsStay
    <3>2. new.key = k /\ \E r \in Seen' : k = KeyOf(r)'
      BY <1>3, <1>8, <2>1
    <3> QED
      BY <1>2, <1>5, <1>7, <1>8, <3>1, <3>2 DEF RecordInv
  <2>2. CASE runRecord = Nodes!NoRecord /\ name \notin LifecycleNames
    BY <1>7, <1>8, <2>2 DEF RecordInv
  <2>3. CASE runRecord # Nodes!NoRecord
    <3>1. runEntry' = runEntry
      BY DEF RunsStay
    <3>2. new.key = runRecord.key /\ new.agent = runRecord.agent
      BY <1>8, <2>3
    <3> QED
      BY <1>2, <1>3, <1>4, <1>7, <1>8, <2>3, <3>1, <3>2 DEF RecordInv
  <2> QED
    BY <2>1, <2>2, <2>3
<1> QED
  BY <1>2, <1>7, <1>8, <1>9

-----------------------------------------------------------------------------
TopUnder == runNode[Top].run \notin {"none", "rejected", "refused"}
Called == \E c \in NodeCalls : runNode[c].task # Absent

\* Before a message has a record nothing has begun.
LEMMA NothingYet ==
  ASSUME NodesInv, runEntry = "message", runRecord = Nodes!NoRecord
  PROVE  ~TopUnder /\ ~Called
  BY DEF NodesInv, TopInv, TopUnder, Called

\* The key of the top, and that the record is made of it.
LEMMA TopKey ==
  ASSUME NodesTypeOK, runEntry = "message"
  PROVE  KeyOf(Top) = <<TopAgent, Absent>>
  BY DEF NodesTypeOK, KeyOf, Nodes!Key

LEMMA RecordedKeys ==
  ASSUME NodesInv, runEdges' = runEdges \cup {<<<<TopAgent, Absent>>, Nowhere>>}, runEntry = "message",
         RunsStay, NodesTypeOK', \A c \in NodeCalls : runNode'[c].task = runNode[c].task,
         NEW status, runRecord' = Nodes!Record(status, TopAgent, <<TopAgent, Absent>>)
  PROVE  /\ EdgesInv' /\ RecordInv' /\ runRecord' # Nodes!NoRecord
         /\ KeyOf(Top)' = KeyOf(Top) /\ KeyOf(Top) \in KeysOf(runEdges')
<1>1. KeyOf(Top) = <<TopAgent, Absent>> /\ Top \in Seen /\ TopAgent \in AgentNames
  BY TopKey DEF NodesInv, Seen, NodeRuns, Nodes!Runs, AgentNames
<1>2. KeyOf(Top)' = KeyOf(Top) /\ Top \in Seen'
  BY <1>1, KeysStay
<1>3. EdgesInv' /\ KeyOf(Top) \in KeysOf(runEdges')
  BY <1>1, <1>2, EdgeAdded DEF NodesInv
<1>4. runRecord' = [status |-> status, agent |-> TopAgent, key |-> <<TopAgent, Absent>>, parent |-> Nowhere]
  BY DEF Nodes!Record, Nowhere
<1>5. <<TopAgent, Absent>> # Nowhere
  BY <1>1, KeysAreNames DEF NodesInv
<1>6. runRecord' # Nodes!NoRecord
  BY <1>4, <1>5 DEF Nodes!NoRecord, Nodes!Record, Nowhere
<1> QED
  BY <1>1, <1>2, <1>3, <1>4, <1>5, <1>6 DEF RecordInv, RunsStay

\* A message that is recorded, as accepted or as rejected.
LEMMA RecordKeeps ==
  ASSUME NodesInv, Nodes!Accept \/ Nodes!Reject
  PROVE  NodesInv'
<1>1. PICK status :
        /\ runEntry = "message" /\ runRecord = Nodes!NoRecord /\ runEntry' = runEntry /\ runTracker' = runTracker
        /\ runRecord' = Nodes!Record(status, TopAgent, <<TopAgent, Absent>>)
        /\ runEdges' = runEdges \cup {<<<<TopAgent, Absent>>, Nowhere>>}
        /\ runNode' = runNode \/ runNode' = [runNode EXCEPT ![Top] = [runNode[Top] EXCEPT !.run = "rejected"]]
  BY DEF Nodes!Accept, Nodes!Reject, Nodes!Set, Nowhere
<1>2. ~TopUnder /\ ~Called
  BY <1>1, NothingYet
<1>3. /\ NodesTypeOK' /\ RunsStay /\ runNode'[Top].run \in {runNode[Top].run, "rejected"}
      /\ runNode'[Top].task = runNode[Top].task
      /\ \A c \in NodeCalls : runNode'[c] = runNode[c]
  <2>1. Top \in NodeRuns /\ Top \notin NodeCalls /\ NodeCalls \subseteq NodeRuns
    BY NodesAssumption DEF NodeRuns, Nodes!Runs
  <2>2. CASE runNode' = runNode
    BY <1>1, <2>1, <2>2 DEF NodesInv, NodesTypeOK, RunsStay, Seen
  <2>3. CASE runNode' = [runNode EXCEPT ![Top] = [runNode[Top] EXCEPT !.run = "rejected"]]
    <3> DEFINE new == [runNode[Top] EXCEPT !.run = "rejected"]
    <3>1. /\ new \in RunNode /\ new.agent = runNode[Top].agent /\ new.caller = runNode[Top].caller
          /\ new.task = runNode[Top].task /\ new.run = "rejected"
      BY <2>1 DEF NodesInv, NodesTypeOK, RunNode
    <3> HIDE DEF new
    <3>2. /\ NodesTypeOK' /\ RunsStay /\ \A s \in NodeRuns \ {Top} : runNode'[s] = runNode[s]
          /\ runNode'[Top] = new
      <4>1. runNode' = [runNode EXCEPT ![Top] = new]
        BY <2>3 DEF new
      <4> QED
        BY <1>1, <2>1, <3>1, <4>1, OneNodeMoves DEF NodesInv
    <3> QED
      BY <2>1, <3>1, <3>2
  <2> QED
    BY <1>1, <2>2, <2>3
<1>4. EdgesInv' /\ RecordInv' /\ runRecord' # Nodes!NoRecord /\ KeyOf(Top)' \in KeysOf(runEdges')
  BY <1>1, <1>3, RecordedKeys
<1>5. TopInv'
  BY <1>4 DEF TopInv
<1>6. Nodes!RecordIsTheTops' /\ TrackerInv'
  BY <1>1, <1>2, <1>3 DEF TopUnder, Nodes!RecordIsTheTops, TrackerInv, NodesInv, NodesTypeOK, RunNode
<1> QED
  BY <1>3, <1>4, <1>5, <1>6 DEF NodesInv

\* What a run publishes itself is at its node, which is there or the top's.
LEMMA OwnEvent ==
  ASSUME NodesInv, RunsStay, NodesTypeOK', NEW r \in Seen, NEW name, Nodes!PublishBy(r, name),
         \A c \in NodeCalls : runNode'[c].task # Absent <=> runNode[c].task # Absent,
         name \in LifecycleNames /\ runEntry = "message" => runRecord # Nodes!NoRecord
  PROVE  /\ EdgesInv' /\ RecordInv'
         /\ KeyOf(r) \in KeysOf(runEdges') /\ KeysOf(runEdges) \subseteq KeysOf(runEdges')
         /\ runRecord # Nodes!NoRecord => runRecord' # Nodes!NoRecord
         /\ name \notin LifecycleNames => runRecord' = runRecord
         /\ runRecord # Nodes!NoRecord =>
              /\ runRecord'.key = runRecord.key /\ runRecord'.agent = runRecord.agent
              /\ KeyOf(r) # runRecord.key => runRecord' = runRecord
              /\ KeyOf(r) = runRecord.key /\ name \in LifecycleNames =>
                   runRecord'.status = IF name = "run.started" THEN "running" ELSE name
         /\ KeyOf(Top)' = KeyOf(Top)
         /\ runEntry' = runEntry
<1>1. PICK k, p, agent : k = KeyOf(r) /\ p = Nodes!Parent(r) /\ agent = runNode[r].agent
  OBVIOUS
<1>2. Nodes!Publish(name, <<k, p>>, agent)
  BY <1>1 DEF Nodes!PublishBy, KeyOf
<1>3. r \in Seen' /\ k = KeyOf(r)' /\ Top \in Seen
  BY <1>1, KeysStay DEF Seen, NodeRuns, Nodes!Runs
<1>4. /\ p # Nowhere => p \in KeysOf(runEdges) /\ \E s \in Seen : p = KeyOf(s)
      /\ <<k, p>> \in runEdges \/ p = Nowhere
  <2>1. CASE r = Top
    BY <1>1, <2>1 DEF Nodes!Parent, Nowhere
  <2>2. CASE r # Top
    <3>1. r \in NodeCalls /\ runNode[r].task # Absent
      BY <2>2 DEF Seen, NodeRuns, Nodes!Runs
    <3>2. p = KeyOf(runNode[r].caller)
      BY <1>1, <2>2 DEF Nodes!Parent, KeyOf
    <3>3. <<k, p>> \in runEdges
      BY <1>1, <3>1, <3>2 DEF NodesInv, EdgesInv
    <3> QED
      BY <3>3 DEF NodesInv, EdgesInv
  <2> QED
    BY <2>1, <2>2
<1>5. /\ EdgesInv' /\ RecordInv'
      /\ k \in KeysOf(runEdges') /\ KeysOf(runEdges) \subseteq KeysOf(runEdges')
      /\ runRecord # Nodes!NoRecord => runRecord' # Nodes!NoRecord
      /\ name \notin LifecycleNames => runRecord' = runRecord
      /\ runRecord # Nodes!NoRecord =>
           /\ runRecord'.key = runRecord.key /\ runRecord'.agent = runRecord.agent
           /\ k # runRecord.key => runRecord' = runRecord
           /\ k = runRecord.key /\ name \in LifecycleNames =>
                runRecord'.status = IF name = "run.started" THEN "running" ELSE name
  BY <1>1, <1>2, <1>3, <1>4, PublishKeeps DEF NodesInv
<1> QED
  BY <1>1, <1>3, <1>5, KeysStay DEF RunsStay

\* What holds of the top and its record after a step that publishes.
LEMMA TopKeeps ==
  ASSUME NodesInv, KeysOf(runEdges) \subseteq KeysOf(runEdges'), KeyOf(Top)' = KeyOf(Top), runEntry' = runEntry,
         runRecord # Nodes!NoRecord => runRecord' # Nodes!NoRecord,
         Called' \/ TopUnder' => Called \/ TopUnder,
         runEntry = "task" /\ runNode'[Top].task # Absent =>
             runNode[Top].task # Absent \/ KeyOf(Top) \in KeysOf(runEdges')
  PROVE  TopInv'
  BY DEF NodesInv, TopInv, Called, TopUnder

\* A step that neither publishes nor makes a call.
LEMMA SameEdges ==
  ASSUME NodesInv, RunsStay, runEdges' = runEdges,
         \A c \in NodeCalls : runNode'[c].task # Absent <=> runNode[c].task # Absent
  PROVE  EdgesInv' /\ (runRecord' = runRecord => RecordInv')
<1>1. \A r \in Seen : r \in Seen' /\ KeyOf(r)' = KeyOf(r)
  BY KeysStay
<1>2. Top \in Seen
  BY DEF Seen, NodeRuns, Nodes!Runs
<1>3. EdgesInv'
  <2>1. \A e \in runEdges' : (\E r \in Seen' : e[1] = KeyOf(r)') \/ (\E a \in AgentNames : e[1] = <<a, Absent>>)
    BY <1>1 DEF NodesInv, EdgesInv
  <2>2. \A e \in runEdges' : e[2] # Nowhere => e[2] \in KeysOf(runEdges') /\ \E r \in Seen' : e[2] = KeyOf(r)'
    BY <1>1 DEF NodesInv, EdgesInv
  <2>3. ASSUME NEW c \in NodeCalls, runNode'[c].task # Absent
        PROVE  <<KeyOf(c)', KeyOf(runNode[c].caller)'>> \in runEdges'
    <3>1. c \in Seen /\ runNode[c].caller \in Seen /\ runNode[c].task # Absent
      BY <2>3 DEF NodesInv, NodesTypeOK, Seen, NodeRuns, Nodes!Runs
    <3>2. runNode'[c].caller = runNode[c].caller
      BY <3>1 DEF RunsStay
    <3>3. KeyOf(c)' = KeyOf(c) /\ KeyOf(runNode[c].caller)' = KeyOf(runNode[c].caller)
      BY <1>1, <3>1, <3>2 DEF KeyOf, Nodes!Key
    <3> QED
      BY <3>1, <3>3 DEF NodesInv, EdgesInv
  <2> QED
    BY <2>1, <2>2, <2>3 DEF NodesInv, EdgesInv
<1>4. runRecord' = runRecord => RecordInv'
  BY <1>1, <1>2 DEF NodesInv, RecordInv, RunsStay
<1> QED
  BY <1>3, <1>4

LEMMA OpenTaskKeeps ==
  ASSUME NodesInv, Nodes!OpenTask
  PROVE  NodesInv'
<1> DEFINE new == [runNode[Top] EXCEPT !.task = "open"]
<1>1. /\ runEntry = "task" /\ runNode[Top].task = Absent /\ Nodes!PublishBy(Top, "task.queued")
      /\ runNode' = [runNode EXCEPT ![Top] = new] /\ runEntry' = runEntry
  BY DEF Nodes!OpenTask, Nodes!Set
<1>2. Top \in NodeRuns /\ Top \in Seen /\ Top \notin NodeCalls /\ NodeCalls \subseteq NodeRuns
  BY NodesAssumption DEF Seen, NodeRuns, Nodes!Runs
<1>3. /\ new \in RunNode /\ new.agent = runNode[Top].agent /\ new.caller = runNode[Top].caller
      /\ new.task = "open" /\ new.run = runNode[Top].run /\ new.outcome = runNode[Top].outcome
  BY <1>2 DEF NodesInv, NodesTypeOK, RunNode
<1> HIDE DEF new
<1>4. /\ NodesTypeOK' /\ RunsStay /\ \A s \in NodeRuns \ {Top} : runNode'[s] = runNode[s]
      /\ runNode'[Top] = new /\ \A c \in NodeCalls : runNode'[c].task # Absent <=> runNode[c].task # Absent
  BY <1>1, <1>2, <1>3, OneNodeMoves DEF NodesInv
<1>5. "task.queued" \notin LifecycleNames
  BY DEF LifecycleNames, Nodes!Outcomes
<1>6. /\ EdgesInv' /\ RecordInv' /\ runRecord' = runRecord
      /\ KeyOf(Top) \in KeysOf(runEdges') /\ KeysOf(runEdges) \subseteq KeysOf(runEdges')
      /\ KeyOf(Top)' = KeyOf(Top)
  BY <1>1, <1>2, <1>4, <1>5, OwnEvent
<1>7. runTracker' = runTracker
  BY <1>1 DEF Nodes!PublishBy, Nodes!Publish, Nodes!Terminal, Nodes!Outcomes
<1>8. TopInv'
  BY <1>1, <1>3, <1>4, <1>6, TopKeeps DEF Called, TopUnder
<1>9. Nodes!RecordIsTheTops'
  BY <1>3, <1>4, <1>6 DEF NodesInv, Nodes!RecordIsTheTops, KeyOf
<1>10. TrackerInv'
  BY <1>2, <1>3, <1>4, <1>7 DEF NodesInv, TrackerInv
<1> QED
  BY <1>4, <1>6, <1>8, <1>9, <1>10 DEF NodesInv

LEMMA StartKeeps ==
  ASSUME NodesInv, NEW r \in NodeRuns, Nodes!Start(r)
  PROVE  NodesInv'
<1> DEFINE new == [runNode[r] EXCEPT !.run = "on"]
<1>1. /\ runNode[r].run = "none"
      /\ IF r = Top /\ runEntry = "message" THEN runRecord # Nodes!NoRecord ELSE runNode[r].task = "open"
      /\ runNode' = [runNode EXCEPT ![r] = new] /\ runEntry' = runEntry
      /\ runRecord' = runRecord /\ runEdges' = runEdges /\ runTracker' = runTracker
  BY DEF Nodes!Start, Nodes!Set
<1>2. Top \in NodeRuns /\ Top \in Seen /\ Top \notin NodeCalls /\ NodeCalls \subseteq NodeRuns /\ r \in Seen
  BY <1>1, NodesAssumption DEF Seen, NodeRuns, Nodes!Runs
<1>3. /\ new \in RunNode /\ new.agent = runNode[r].agent /\ new.caller = runNode[r].caller
      /\ new.task = runNode[r].task /\ new.run = "on" /\ new.outcome = runNode[r].outcome
  BY <1>2 DEF NodesInv, NodesTypeOK, RunNode
<1> HIDE DEF new
<1>4. /\ NodesTypeOK' /\ RunsStay /\ \A s \in NodeRuns \ {r} : runNode'[s] = runNode[s]
      /\ runNode'[r] = new /\ \A c \in NodeCalls : runNode'[c].task # Absent <=> runNode[c].task # Absent
  BY <1>1, <1>2, <1>3, OneNodeMoves DEF NodesInv, Seen
<1>5. \A s \in Seen : s \in Seen' /\ KeyOf(s)' = KeyOf(s)
  BY <1>4, KeysStay
<1>6. EdgesInv' /\ RecordInv'
  BY <1>1, <1>2, <1>4, <1>5, SameEdges DEF NodesInv
<1>7. TopInv'
  <2>1. CASE r # Top
    BY <1>1, <1>2, <1>3, <1>4, <1>5, <2>1 DEF NodesInv, TopInv, NodesTypeOK
  <2>2. CASE r = Top
    <3>1. KeyOf(Top) \in KeysOf(runEdges) /\ (runEntry = "message" => runRecord # Nodes!NoRecord)
      BY <1>1, <2>2, NodesAssumption DEF NodesInv, TopInv, RecordInv, NodesTypeOK
    <3> QED
      BY <1>1, <1>2, <1>3, <1>4, <1>5, <2>2, <3>1 DEF NodesInv, TopInv
  <2> QED
    BY <2>1, <2>2
<1>8. Nodes!RecordIsTheTops'
  BY <1>1, <1>2, <1>3, <1>4, <1>5 DEF NodesInv, Nodes!RecordIsTheTops, KeyOf
<1>9. TrackerInv'
  BY <1>1, <1>2, <1>3, <1>4 DEF NodesInv, TrackerInv
<1> QED
  BY <1>4, <1>6, <1>7, <1>8, <1>9 DEF NodesInv

LEMMA StartFailsKeeps ==
  ASSUME NodesInv, Nodes!StartFails
  PROVE  NodesInv'
<1> DEFINE new == [runNode[Top] EXCEPT !.run = "refused"]
<1>1. /\ runNode[Top].run = "none"
      /\ runNode' = [runNode EXCEPT ![Top] = new] /\ runEntry' = runEntry
      /\ runRecord' = runRecord /\ runEdges' = runEdges /\ runTracker' = runTracker
  BY DEF Nodes!StartFails, Nodes!Set
<1>2. Top \in NodeRuns /\ Top \in Seen /\ Top \notin NodeCalls /\ NodeCalls \subseteq NodeRuns
  BY NodesAssumption DEF Seen, NodeRuns, Nodes!Runs
<1>3. /\ new \in RunNode /\ new.agent = runNode[Top].agent /\ new.caller = runNode[Top].caller
      /\ new.task = runNode[Top].task /\ new.run = "refused"
  BY <1>2 DEF NodesInv, NodesTypeOK, RunNode
<1> HIDE DEF new
<1>4. /\ NodesTypeOK' /\ RunsStay /\ \A s \in NodeRuns \ {Top} : runNode'[s] = runNode[s]
      /\ runNode'[Top] = new /\ \A c \in NodeCalls : runNode'[c].task # Absent <=> runNode[c].task # Absent
  BY <1>1, <1>2, <1>3, OneNodeMoves DEF NodesInv
<1>5. KeyOf(Top)' = KeyOf(Top)
  BY <1>2, <1>4, KeysStay
<1>6. EdgesInv' /\ RecordInv'
  BY <1>1, <1>4, SameEdges
<1>7. TopInv'
  BY <1>1, <1>3, <1>4, <1>5, TopKeeps DEF Called, TopUnder
<1>8. Nodes!RecordIsTheTops' /\ TrackerInv'
  BY <1>1, <1>2, <1>3, <1>4 DEF NodesInv, Nodes!RecordIsTheTops, TrackerInv
<1> QED
  BY <1>4, <1>6, <1>7, <1>8 DEF NodesInv

LEMMA BeginKeeps ==
  ASSUME NodesInv, Nodes!Begin
  PROVE  NodesInv'
<1> DEFINE new == [runNode[Top] EXCEPT !.run = "begun"]
<1>1. /\ runNode[Top].run = "on" /\ runRecord' = Nodes!Record("running", TopAgent, Nodes!Key(Top))
      /\ runNode' = [runNode EXCEPT ![Top] = new] /\ runEntry' = runEntry
      /\ runEdges' = runEdges /\ runTracker' = runTracker
  BY DEF Nodes!Begin, Nodes!Set
<1>2. Top \in NodeRuns /\ Top \in Seen /\ Top \notin NodeCalls /\ NodeCalls \subseteq NodeRuns
  BY NodesAssumption DEF Seen, NodeRuns, Nodes!Runs
<1>3. /\ new \in RunNode /\ new.agent = runNode[Top].agent /\ new.caller = runNode[Top].caller
      /\ new.task = runNode[Top].task /\ new.run = "begun"
  BY <1>2 DEF NodesInv, NodesTypeOK, RunNode
<1> HIDE DEF new
<1>4. /\ NodesTypeOK' /\ RunsStay /\ \A s \in NodeRuns \ {Top} : runNode'[s] = runNode[s]
      /\ runNode'[Top] = new /\ \A c \in NodeCalls : runNode'[c].task # Absent <=> runNode[c].task # Absent
  BY <1>1, <1>2, <1>3, OneNodeMoves DEF NodesInv
<1>5. KeyOf(Top)' = KeyOf(Top) /\ Top \in Seen'
  BY <1>2, <1>4, KeysStay
<1>6. KeyOf(Top) \in KeysOf(runEdges) /\ KeyOf(Top) # Nowhere
  BY <1>1, <1>2, KeysAreNames DEF NodesInv, TopInv
<1>7. runRecord' = [status |-> "running", agent |-> TopAgent, key |-> KeyOf(Top), parent |-> Nowhere]
  BY <1>1 DEF Nodes!Record, Nowhere, KeyOf
<1>8. EdgesInv'
  BY <1>1, <1>4, SameEdges
<1>9. runRecord' # Nodes!NoRecord
  BY <1>6, <1>7 DEF Nodes!NoRecord, Nodes!Record, Nowhere
<1>10. RecordInv'
  BY <1>1, <1>5, <1>6, <1>7 DEF RecordInv
<1>11. TopInv'
  BY <1>1, <1>3, <1>4, <1>5, <1>6, <1>9 DEF NodesInv, TopInv
<1>12. Nodes!RecordIsTheTops' /\ TrackerInv'
  BY <1>1, <1>2, <1>3, <1>4, <1>5, <1>7 DEF NodesInv, Nodes!RecordIsTheTops, TrackerInv, KeyOf
<1> QED
  BY <1>4, <1>8, <1>10, <1>11, <1>12 DEF NodesInv

LEMMA FinishKeeps ==
  ASSUME NodesInv, Nodes!Finish
  PROVE  NodesInv'
<1> DEFINE new == [runNode[Top] EXCEPT !.run = "finished"]
<1>1. /\ runNode[Top].run = "ended" /\ runRecord' = [runRecord EXCEPT !.status = runNode[Top].outcome]
      /\ runNode' = [runNode EXCEPT ![Top] = new] /\ runEntry' = runEntry
      /\ runEdges' = runEdges /\ runTracker' = runTracker
  BY DEF Nodes!Finish, Nodes!Set
<1>2. Top \in NodeRuns /\ Top \in Seen /\ Top \notin NodeCalls /\ NodeCalls \subseteq NodeRuns
  BY NodesAssumption DEF Seen, NodeRuns, Nodes!Runs
<1>3. /\ new \in RunNode /\ new.agent = runNode[Top].agent /\ new.caller = runNode[Top].caller
      /\ new.task = runNode[Top].task /\ new.run = "finished" /\ new.outcome = runNode[Top].outcome
  BY <1>2 DEF NodesInv, NodesTypeOK, RunNode
<1> HIDE DEF new
<1>4. /\ NodesTypeOK' /\ RunsStay /\ \A s \in NodeRuns \ {Top} : runNode'[s] = runNode[s]
      /\ runNode'[Top] = new /\ \A c \in NodeCalls : runNode'[c].task # Absent <=> runNode[c].task # Absent
  BY <1>1, <1>2, <1>3, OneNodeMoves DEF NodesInv
<1>5. runRecord' = runRecord
  <2>1. runRecord.status = runNode[Top].outcome
    BY <1>1 DEF NodesInv, Nodes!RecordIsTheTops
  <2> QED
    BY <1>1, <2>1 DEF NodesInv, RecordInv
<1>6. KeyOf(Top)' = KeyOf(Top)
  BY <1>2, <1>4, KeysStay
<1>7. EdgesInv' /\ RecordInv'
  BY <1>1, <1>4, <1>5, SameEdges
<1>8. TopInv'
  BY <1>1, <1>3, <1>4, <1>5, <1>6, TopKeeps DEF Called, TopUnder
<1>9. Nodes!RecordIsTheTops' /\ TrackerInv'
  BY <1>1, <1>2, <1>3, <1>4, <1>5, <1>6 DEF NodesInv, Nodes!RecordIsTheTops, TrackerInv, KeyOf
<1> QED
  BY <1>4, <1>7, <1>8, <1>9 DEF NodesInv

\* A run that is going has a node, and a message a record.
LEMMA GoingIsSeen ==
  ASSUME NodesInv, NEW r \in NodeRuns, runNode[r].run \in Nodes!Going \cup {"ended"}
  PROVE  /\ r \in Seen /\ KeyOf(r) \in KeysOf(runEdges)
         /\ runEntry = "message" => runRecord # Nodes!NoRecord
<1>1. r # Top => runNode[r].task # Absent
  BY DEF NodesInv, NodesTypeOK, NodeRuns, Nodes!Runs, Nodes!Going
<1>2. r = Top => TopUnder
  BY DEF TopUnder, Nodes!Going
<1>3. r \in Seen
  BY <1>1 DEF Seen
<1>4. KeyOf(r) \in KeysOf(runEdges)
  <2>1. CASE r = Top
    BY <1>2, <2>1 DEF NodesInv, TopInv, TopUnder
  <2>2. CASE r # Top
    <3>1. <<KeyOf(r), KeyOf(runNode[r].caller)>> \in runEdges
      BY <1>1, <2>2 DEF NodesInv, EdgesInv, NodeRuns, Nodes!Runs
    <3> QED
      BY <3>1 DEF KeysOf
  <2> QED
    BY <2>1, <2>2
<1> QED
  BY <1>1, <1>2, <1>3, <1>4, NothingYet DEF Called, NodeRuns, Nodes!Runs

\* The node of a called run is not the top's.
LEMMA OtherKeys ==
  ASSUME NodesTypeOK, NEW c \in NodeCalls
  PROVE  KeyOf(c) # KeyOf(Top)
  BY NodesAssumption DEF KeyOf, Nodes!Key

\* What is published at another node leaves the record of a run that has begun alone.
LEMMA OtherKept ==
  ASSUME NodesInv, NEW c \in NodeCalls, runNode'[Top] = runNode[Top], KeyOf(Top)' = KeyOf(Top),
         runRecord # Nodes!NoRecord =>
           /\ runRecord' # Nodes!NoRecord /\ runRecord'.key = runRecord.key
           /\ KeyOf(c) # runRecord.key => runRecord' = runRecord
  PROVE  Nodes!RecordIsTheTops'
<1>1. CASE runNode[Top].run \notin {"begun", "started", "ended", "finished"}
  BY <1>1 DEF Nodes!RecordIsTheTops
<1>2. CASE runNode[Top].run \in {"begun", "started", "ended", "finished"}
  <2>1. runRecord.key = KeyOf(Top)
    BY <1>2 DEF NodesInv, Nodes!RecordIsTheTops, KeyOf
  <2>2. KeyOf(Top) # Nowhere
    BY KeysAreNames DEF NodesInv, Seen, NodeRuns, Nodes!Runs
  <2>3. runRecord # Nodes!NoRecord
    BY <2>1, <2>2 DEF Nodes!NoRecord, Nodes!Record, Nowhere
  <2>4. runRecord' = runRecord
    BY <2>1, <2>3, OtherKeys DEF NodesInv
  <2> QED
    BY <2>4 DEF NodesInv, Nodes!RecordIsTheTops, KeyOf
<1> QED
  BY <1>1, <1>2

LEMMA StartedKeeps ==
  ASSUME NodesInv, NEW r \in NodeRuns, Nodes!Started(r)
  PROVE  NodesInv'
<1> DEFINE new == [runNode[r] EXCEPT !.run = "started"]
<1>1. /\ runNode[r].run = (IF r = Top THEN "begun" ELSE "on") /\ Nodes!PublishBy(r, "run.started")
      /\ runNode' = [runNode EXCEPT ![r] = new] /\ runEntry' = runEntry
  BY DEF Nodes!Started, Nodes!Set
<1>2. Top \in NodeRuns /\ Top \in Seen /\ Top \notin NodeCalls /\ NodeCalls \subseteq NodeRuns
  BY NodesAssumption DEF Seen, NodeRuns, Nodes!Runs
<1>3. /\ new \in RunNode /\ new.agent = runNode[r].agent /\ new.caller = runNode[r].caller
      /\ new.task = runNode[r].task /\ new.run = "started" /\ new.outcome = runNode[r].outcome
  BY <1>2 DEF NodesInv, NodesTypeOK, RunNode
<1> HIDE DEF new
<1>4. r \in Seen /\ (runEntry = "message" => runRecord # Nodes!NoRecord)
  BY <1>1, GoingIsSeen DEF Nodes!Going
<1>5. /\ NodesTypeOK' /\ RunsStay /\ \A s \in NodeRuns \ {r} : runNode'[s] = runNode[s]
      /\ runNode'[r] = new /\ \A c \in NodeCalls : runNode'[c].task # Absent <=> runNode[c].task # Absent
  BY <1>1, <1>2, <1>3, <1>4, OneNodeMoves DEF NodesInv, Seen
<1>6. "run.started" \in LifecycleNames
  BY DEF LifecycleNames
<1>7. /\ EdgesInv' /\ RecordInv'
      /\ KeysOf(runEdges) \subseteq KeysOf(runEdges') /\ KeyOf(Top)' = KeyOf(Top)
      /\ runRecord # Nodes!NoRecord =>
           /\ runRecord' # Nodes!NoRecord /\ runRecord'.key = runRecord.key
           /\ KeyOf(r) # runRecord.key => runRecord' = runRecord
           /\ KeyOf(r) = runRecord.key => runRecord'.status = "running"
  BY <1>1, <1>4, <1>5, <1>6, OwnEvent
<1>8. runTracker' = runTracker
  BY <1>1 DEF Nodes!PublishBy, Nodes!Publish, Nodes!Terminal, Nodes!Outcomes
<1>9. TopInv'
  BY <1>1, <1>2, <1>3, <1>5, <1>7, TopKeeps DEF Called, TopUnder
<1>10. Nodes!RecordIsTheTops'
  <2>1. CASE r = Top
    <3>1. runRecord.key = KeyOf(Top) /\ runRecord # Nodes!NoRecord
      <4>1. runRecord.key = KeyOf(Top)
        BY <1>1, <2>1 DEF NodesInv, Nodes!RecordIsTheTops, KeyOf
      <4>2. KeyOf(Top) # Nowhere
        BY <1>2, KeysAreNames DEF NodesInv
      <4> QED
        BY <4>1, <4>2 DEF Nodes!NoRecord, Nodes!Record, Nowhere
    <3> QED
      BY <1>3, <1>5, <1>7, <2>1, <3>1 DEF Nodes!RecordIsTheTops, KeyOf
  <2>2. CASE r # Top
    <3>1. r \in NodeCalls /\ runNode'[Top] = runNode[Top]
      BY <1>2, <1>5, <2>2 DEF NodeRuns, Nodes!Runs
    <3> QED
      BY <1>2, <1>7, <3>1, OtherKept
  <2> QED
    BY <2>1, <2>2
<1>11. TrackerInv'
  BY <1>1, <1>2, <1>3, <1>5, <1>8 DEF NodesInv, TrackerInv
<1> QED
  BY <1>5, <1>7, <1>9, <1>10, <1>11 DEF NodesInv

\* A note goes to the node of the record, or to one of the agent alone below it.
LEMMA NoteKeeps ==
  ASSUME NodesInv, NEW r \in NodeRuns, Nodes!Note(r)
  PROVE  NodesInv'
<1> DEFINE new == [runNode[r] EXCEPT !.noted = TRUE]
<1>0. PICK a : a = runNode[r].agent
  OBVIOUS
<1>1. /\ runNode[r].run \in Nodes!Going /\ Nodes!Publish("note", Nodes!Placed(a), a)
      /\ runNode' = [runNode EXCEPT ![r] = new] /\ runEntry' = runEntry
  BY <1>0 DEF Nodes!Note, Nodes!Set
<1>2. Top \in NodeRuns /\ Top \in Seen /\ Top \notin NodeCalls /\ NodeCalls \subseteq NodeRuns
  BY NodesAssumption DEF Seen, NodeRuns, Nodes!Runs
<1>3. /\ new \in RunNode /\ new.agent = runNode[r].agent /\ new.caller = runNode[r].caller
      /\ new.task = runNode[r].task /\ new.run = runNode[r].run /\ new.outcome = runNode[r].outcome
  <2>1. runNode[r] \in RunNode
    BY DEF NodesInv, NodesTypeOK
  <2> QED
    BY <2>1, Zenon DEF RunNode
<1> HIDE DEF new
<1>4. r \in Seen /\ (runEntry = "message" => runRecord # Nodes!NoRecord)
  BY <1>1, GoingIsSeen
<1>5. /\ NodesTypeOK' /\ RunsStay /\ \A s \in NodeRuns \ {r} : runNode'[s] = runNode[s]
      /\ runNode'[r] = new /\ \A c \in NodeCalls : runNode'[c].task # Absent <=> runNode[c].task # Absent
  BY <1>1, <1>2, <1>3, <1>4, OneNodeMoves DEF NodesInv, Seen
<1>6. a \in AgentNames
  BY <1>0, <1>4 DEF NodesInv, NodesTypeOK, RunNode, Seen, AgentNames, NodeRuns, Nodes!Runs
<1>7. \A s \in Seen : s \in Seen' /\ KeyOf(s)' = KeyOf(s)
  BY <1>5, KeysStay
<1>8. PICK k, p : /\ Nodes!Placed(a) = <<k, p>>
                  /\ (\E s \in Seen' : k = KeyOf(s)') \/ (\E b \in AgentNames : k = <<b, Absent>>)
                  /\ p # Nowhere => p \in KeysOf(runEdges) /\ \E s \in Seen : p = KeyOf(s)
                  /\ p # Nowhere => p # k /\ \A e \in runEdges : e[2] # k
  <2>1. CASE runRecord = Nodes!NoRecord
    <3>1. Nodes!Placed(a) = <<<<a, Absent>>, Nowhere>>
      BY <2>1 DEF Nodes!Placed, Nowhere
    <3> QED
      BY <1>6, <3>1
  <2>2. CASE runRecord # Nodes!NoRecord /\ a = runRecord.agent
    <3>1. Nodes!Placed(a) = <<runRecord.key, runRecord.parent>>
      BY <2>2 DEF Nodes!Placed
    <3>2. runRecord.parent = Nowhere /\ \E s \in Seen : runRecord.key = KeyOf(s)
      BY <2>2 DEF NodesInv, RecordInv
    <3> QED
      BY <1>7, <3>1, <3>2
  <2>3. CASE runRecord # Nodes!NoRecord /\ a # runRecord.agent
    <3>1. Nodes!Placed(a) = <<<<a, Absent>>, runRecord.key>>
      BY <2>3 DEF Nodes!Placed
    <3>2. runRecord.key \in KeysOf(runEdges) /\ \E s \in Seen : runRecord.key = KeyOf(s)
      BY <2>3 DEF NodesInv, RecordInv
    <3>3. runEntry = "task" \/ a # TopAgent
      BY <2>3 DEF NodesInv, RecordInv, NodesTypeOK
    <3>4. \A e \in runEdges : e[2] # <<a, Absent>>
      BY <1>6, <3>3, AloneIsNoParent DEF NodesInv
    <3>5. \A s \in Seen : KeyOf(s) # <<a, Absent>>
      BY <3>3, NodesAssumption DEF Seen, KeyOf, Nodes!Key, NodesInv, NodesTypeOK, NodeRuns, Nodes!Runs
    <3> QED
      BY <1>6, <3>1, <3>2, <3>4, <3>5
  <2> QED
    BY <2>1, <2>2, <2>3
<1>9. "note" \notin LifecycleNames
  BY DEF LifecycleNames, Nodes!Outcomes
<1>10. EdgesInv' /\ RecordInv' /\ KeysOf(runEdges) \subseteq KeysOf(runEdges') /\ runRecord' = runRecord
  <2>1. Nodes!Publish("note", <<k, p>>, a)
    BY <1>1, <1>8
  <2> QED
    BY <1>5, <1>8, <1>9, <2>1, PublishKeeps DEF NodesInv
<1>11. runTracker' = runTracker
  BY <1>1 DEF Nodes!Publish, Nodes!Terminal, Nodes!Outcomes
<1>12. KeyOf(Top)' = KeyOf(Top)
  BY <1>2, <1>7
<1>13. TopInv'
  BY <1>1, <1>2, <1>3, <1>5, <1>10, <1>12, TopKeeps DEF Called, TopUnder
<1>14. runNode'[Top].run = runNode[Top].run /\ runNode'[Top].outcome = runNode[Top].outcome
  BY <1>2, <1>3, <1>5
<1>15. Nodes!RecordIsTheTops'
  BY <1>10, <1>12, <1>14 DEF NodesInv, Nodes!RecordIsTheTops, KeyOf
<1>16. TrackerInv'
  BY <1>2, <1>3, <1>5, <1>11 DEF NodesInv, TrackerInv
<1> QED
  BY <1>5, <1>10, <1>13, <1>15, <1>16 DEF NodesInv

\* A call has a node of its own, below the caller's.
LEMMA CallKeeps ==
  ASSUME NodesInv, NEW r \in NodeRuns, NEW c \in NodeCalls, NEW agent \in Agents, Nodes!Call(r, c, agent)
  PROVE  NodesInv'
<1> DEFINE new == [runNode[c] EXCEPT !.task = "open", !.agent = agent, !.caller = r]
<1>1. /\ runNode[c].task = Absent /\ runNode[r].run \in Nodes!Going
      /\ Nodes!Publish("task.queued", <<<<agent, c>>, KeyOf(r)>>, agent)
      /\ runNode' = [runNode EXCEPT ![c] = new] /\ runEntry' = runEntry
  BY DEF Nodes!Call, Nodes!Set, KeyOf
<1>2. Top \in NodeRuns /\ Top \in Seen /\ Top \notin NodeCalls /\ NodeCalls \subseteq NodeRuns /\ c # Top /\ c \in NodeRuns
  BY NodesAssumption DEF Seen, NodeRuns, Nodes!Runs
<1>3. /\ new \in RunNode /\ new.agent = agent /\ new.caller = r /\ new.task = "open"
      /\ new.run = runNode[c].run
  BY <1>2 DEF NodesInv, NodesTypeOK, RunNode, AgentNames
<1> HIDE DEF new
<1>4. r \in Seen /\ KeyOf(r) \in KeysOf(runEdges) /\ c \notin Seen /\ r # c
  BY <1>1, <1>2, GoingIsSeen DEF Seen
<1>5. runNode' \in [NodeRuns -> RunNode] /\ runNode'[c] = new /\ \A s \in NodeRuns \ {c} : runNode'[s] = runNode[s]
  BY <1>1, <1>2, <1>3 DEF NodesInv, NodesTypeOK
<1>6. Seen' = Seen \cup {c}
  BY <1>2, <1>3, <1>5, NodesAssumption DEF Seen
<1>7. NodesTypeOK'
  <2>1. \A d \in NodeCalls : runNode'[d].task # Absent => runNode'[d].agent # Absent /\ runNode'[d].caller \in Seen'
    BY <1>2, <1>3, <1>4, <1>5, <1>6, NodesAssumption DEF NodesInv, NodesTypeOK
  <2>2. \A d \in NodeCalls : runNode'[d].task = Absent => runNode'[d].run = "none"
    BY <1>2, <1>3, <1>5, NodesAssumption DEF NodesInv, NodesTypeOK
  <2>3. runNode'[Top].agent = TopAgent
    BY <1>2, <1>5 DEF NodesInv, NodesTypeOK
  <2>4. runEntry' \in {"message", "task"}
    BY <1>1 DEF NodesInv, NodesTypeOK
  <2> QED
    BY <1>5, <2>1, <2>2, <2>3, <2>4 DEF NodesTypeOK
<1>8. RunsStay
  BY <1>1, <1>4, <1>5, <1>6 DEF RunsStay, Seen
<1>9. \A s \in Seen : s \in Seen' /\ KeyOf(s)' = KeyOf(s)
  BY <1>8, KeysStay
<1>10. KeyOf(c)' = <<agent, c>> /\ KeyOf(runNode[c].caller)' = KeyOf(r)
  <2>1. KeyOf(c)' = <<agent, c>>
    BY <1>2, <1>3, <1>5 DEF KeyOf, Nodes!Key
  <2>2. KeyOf(runNode[c].caller)' = KeyOf(r)'
    BY <1>3, <1>5 DEF KeyOf, Nodes!Key
  <2> QED
    BY <1>4, <1>9, <2>1, <2>2
<1>11. \A s \in Seen : KeyOf(s) # <<agent, c>>
  BY <1>4, NodesAssumption DEF KeyOf, Nodes!Key
<1>12. \A e \in runEdges : e[2] # <<agent, c>>
  <2>1. Nowhere # <<agent, c>>
    BY NodesAssumption DEF Nowhere, Nodes!NoNode
  <2> QED
    BY <1>11, <2>1 DEF NodesInv, EdgesInv
<1>13. \A d \in NodeCalls : runNode'[d].task # Absent /\ runNode[d].task = Absent => d = c
  BY <1>2, <1>5
<1>14. "task.queued" \notin LifecycleNames
  BY DEF LifecycleNames, Nodes!Outcomes
<1>15. PICK k, p : k = <<agent, c>> /\ p = KeyOf(r)
  OBVIOUS
<1>16. /\ Nodes!Publish("task.queued", <<k, p>>, agent)
       /\ \E s \in Seen' : k = KeyOf(s)'
       /\ p \in KeysOf(runEdges) /\ (\E s \in Seen : p = KeyOf(s))
       /\ p # k /\ \A e \in runEdges : e[2] # k
  BY <1>1, <1>4, <1>6, <1>10, <1>11, <1>12, <1>15
<1>17. \A d \in NodeCalls : runNode'[d].task # Absent /\ runNode[d].task = Absent =>
         KeyOf(d)' = k /\ KeyOf(runNode[d].caller)' = p
  BY <1>10, <1>13, <1>15
<1>18. EdgesInv' /\ RecordInv' /\ KeysOf(runEdges) \subseteq KeysOf(runEdges') /\ runRecord' = runRecord
  BY <1>7, <1>8, <1>14, <1>16, <1>17, PublishKeeps DEF NodesInv
<1>19. runTracker' = runTracker
  BY <1>1 DEF Nodes!Publish, Nodes!Terminal, Nodes!Outcomes
<1>20. KeyOf(Top)' = KeyOf(Top) /\ runNode'[Top] = runNode[Top]
  BY <1>2, <1>5, <1>9
<1>21. TopInv'
  <2>1. Called \/ TopUnder
    <3>1. CASE r = Top
      BY <1>1, <3>1 DEF TopUnder, Nodes!Going
    <3>2. CASE r # Top
      BY <1>4, <3>2 DEF Called, Seen, NodeRuns, Nodes!Runs
    <3> QED
      BY <3>1, <3>2
  <2> QED
    BY <1>1, <1>18, <1>20, <2>1, TopKeeps
<1>22. Nodes!RecordIsTheTops'
  BY <1>18, <1>20 DEF NodesInv, Nodes!RecordIsTheTops, KeyOf
<1>23. TrackerInv'
  BY <1>2, <1>3, <1>5, <1>19, <1>20 DEF NodesInv, TrackerInv
<1> QED
  BY <1>7, <1>18, <1>21, <1>22, <1>23 DEF NodesInv

LEMMA SettleKeeps ==
  ASSUME NodesInv, NEW c \in NodeCalls, Nodes!Settle(c)
  PROVE  NodesInv'
<1> DEFINE new == [runNode[c] EXCEPT !.task = "settled", !.run = IF @ = "none" THEN "refused" ELSE @]
<1>1. /\ runNode[c].task = "open" /\ Nodes!PublishBy(c, "task.ended")
      /\ runNode' = [runNode EXCEPT ![c] = new] /\ runEntry' = runEntry
  BY DEF Nodes!Settle, Nodes!Set
<1>2. /\ Top \in NodeRuns /\ Top \in Seen /\ Top \notin NodeCalls /\ NodeCalls \subseteq NodeRuns
      /\ c # Top /\ c \in NodeRuns /\ c \in Seen
  BY <1>1, NodesAssumption DEF Seen, NodeRuns, Nodes!Runs
<1>3. /\ new \in RunNode /\ new.agent = runNode[c].agent /\ new.caller = runNode[c].caller
      /\ new.task = "settled" /\ (runNode[c].run = "ended" => new.run = "ended")
  BY <1>2 DEF NodesInv, NodesTypeOK, RunNode
<1> HIDE DEF new
<1>4. /\ NodesTypeOK' /\ RunsStay /\ \A s \in NodeRuns \ {c} : runNode'[s] = runNode[s]
      /\ runNode'[c] = new /\ \A d \in NodeCalls : runNode'[d].task # Absent <=> runNode[d].task # Absent
  BY <1>1, <1>2, <1>3, NodesAssumption, OneNodeMoves DEF NodesInv
<1>5. "task.ended" \notin LifecycleNames
  BY DEF LifecycleNames, Nodes!Outcomes
<1>6. EdgesInv' /\ RecordInv' /\ runRecord' = runRecord
      /\ KeysOf(runEdges) \subseteq KeysOf(runEdges') /\ KeyOf(Top)' = KeyOf(Top)
  BY <1>1, <1>2, <1>4, <1>5, OwnEvent
<1>7. runTracker' = runTracker
  BY <1>1 DEF Nodes!PublishBy, Nodes!Publish, Nodes!Terminal, Nodes!Outcomes
<1>8. TopInv'
  BY <1>1, <1>2, <1>4, <1>6, TopKeeps DEF Called, TopUnder
<1>9. Nodes!RecordIsTheTops'
  BY <1>2, <1>4, <1>6 DEF NodesInv, Nodes!RecordIsTheTops, KeyOf
<1>10. TrackerInv'
  BY <1>2, <1>3, <1>4, <1>7 DEF NodesInv, TrackerInv
<1> QED
  BY <1>4, <1>6, <1>8, <1>9, <1>10 DEF NodesInv

LEMMA EndKeeps ==
  ASSUME NodesInv, NEW r \in NodeRuns, Nodes!End(r)
  PROVE  NodesInv'
<1>0. PICK outcome_ \in Nodes!Outcomes :
        /\ Nodes!PublishBy(r, outcome_)
        /\ runNode' = [runNode EXCEPT ![r] = [runNode[r] EXCEPT !.run = "ended", !.outcome = outcome_]]
  BY DEF Nodes!End, Nodes!Set
<1> DEFINE new == [runNode[r] EXCEPT !.run = "ended", !.outcome = outcome_]
<1>1. runNode[r].run = "started" /\ runEntry' = runEntry /\ runNode' = [runNode EXCEPT ![r] = new]
  BY <1>0 DEF Nodes!End
<1>2. Top \in NodeRuns /\ Top \in Seen /\ Top \notin NodeCalls /\ NodeCalls \subseteq NodeRuns
  BY NodesAssumption DEF Seen, NodeRuns, Nodes!Runs
<1>3. /\ new \in RunNode /\ new.agent = runNode[r].agent /\ new.caller = runNode[r].caller
      /\ new.task = runNode[r].task /\ new.run = "ended" /\ new.outcome = outcome_
  <2>1. runNode[r] \in RunNode
    BY DEF NodesInv, NodesTypeOK
  <2>2. outcome_ \in {Absent, "completed", "failed", "aborted"}
    BY DEF Nodes!Outcomes
  <2> QED
    BY <2>1, <2>2 DEF RunNode
<1> HIDE DEF new
<1>4. r \in Seen /\ (runEntry = "message" => runRecord # Nodes!NoRecord)
  BY <1>1, GoingIsSeen DEF Nodes!Going
<1>5. /\ NodesTypeOK' /\ RunsStay /\ \A s \in NodeRuns \ {r} : runNode'[s] = runNode[s]
      /\ runNode'[r] = new /\ \A c \in NodeCalls : runNode'[c].task # Absent <=> runNode[c].task # Absent
  BY <1>1, <1>2, <1>3, <1>4, OneNodeMoves DEF NodesInv, Seen
<1>6. outcome_ \in LifecycleNames /\ outcome_ # "run.started"
  BY DEF LifecycleNames, Nodes!Outcomes
<1>7. /\ EdgesInv' /\ RecordInv'
      /\ KeysOf(runEdges) \subseteq KeysOf(runEdges') /\ KeyOf(Top)' = KeyOf(Top)
      /\ runRecord # Nodes!NoRecord =>
           /\ runRecord' # Nodes!NoRecord /\ runRecord'.key = runRecord.key
           /\ KeyOf(r) # runRecord.key => runRecord' = runRecord
           /\ KeyOf(r) = runRecord.key => runRecord'.status = outcome_
  BY <1>0, <1>4, <1>5, <1>6, OwnEvent
<1>8. TopInv'
  BY <1>1, <1>2, <1>3, <1>5, <1>7, TopKeeps DEF Called, TopUnder
<1>9. Nodes!RecordIsTheTops'
  <2>1. CASE r = Top
    <3>1. runRecord.key = KeyOf(Top) /\ runRecord # Nodes!NoRecord
      <4>1. runRecord.key = KeyOf(Top)
        BY <1>1, <2>1 DEF NodesInv, Nodes!RecordIsTheTops, KeyOf
      <4>2. KeyOf(Top) # Nowhere
        BY <1>2, KeysAreNames DEF NodesInv
      <4> QED
        BY <4>1, <4>2 DEF Nodes!NoRecord, Nodes!Record, Nowhere
    <3> QED
      BY <1>3, <1>5, <1>7, <2>1, <3>1 DEF Nodes!RecordIsTheTops, KeyOf
  <2>2. CASE r # Top
    <3>1. r \in NodeCalls /\ runNode'[Top] = runNode[Top]
      BY <1>2, <1>5, <2>2 DEF NodeRuns, Nodes!Runs
    <3> QED
      BY <1>7, <3>1, OtherKept
  <2> QED
    BY <2>1, <2>2
<1>10. TrackerInv'
  BY <1>2, <1>3, <1>5 DEF TrackerInv, NodeRuns, Nodes!Runs
<1> QED
  BY <1>5, <1>7, <1>8, <1>9, <1>10 DEF NodesInv

LEMMA CancellingKeeps ==
  ASSUME NodesInv, Nodes!Track \/ Nodes!Forget \/ Nodes!CancelRun \/ Nodes!TimesOut \/ UNCHANGED nodesVars
  PROVE  NodesInv'
<1>1. /\ runEntry' = runEntry /\ runNode' = runNode /\ runRecord' = runRecord /\ runEdges' = runEdges
      /\ runTracker' \in {"due", "gone"} => runTracker \in {"due", "gone"}
  BY DEF Nodes!Track, Nodes!Forget, Nodes!CancelRun, Nodes!TimesOut, nodesVars
<1>2. Seen' = Seen /\ \A r : KeyOf(r)' = KeyOf(r)
  BY <1>1 DEF Seen, KeyOf, Nodes!Key
<1>3. NodesTypeOK' /\ RunsStay
  BY <1>1, <1>2 DEF NodesInv, NodesTypeOK, RunsStay
<1>4. EdgesInv' /\ RecordInv'
  BY <1>1, <1>3, SameEdges
<1> QED
  BY <1>1, <1>2, <1>3, <1>4 DEF NodesInv, TopInv, TrackerInv, Nodes!RecordIsTheTops, KeyOf

LEMMA NodesStep == NodesInv /\ [Nodes!Next]_nodesVars => NodesInv'
  BY RecordKeeps, OpenTaskKeeps, StartFailsKeeps, BeginKeeps, FinishKeeps, StartKeeps, StartedKeeps,
     NoteKeeps, EndKeeps, CallKeeps, SettleKeeps, CancellingKeeps
     DEF Nodes!Next, NodeRuns

LEMMA NodesInitially == ASSUME Nodes!Init PROVE NodesInv
<1>1. /\ runEntry \in {"message", "task"} /\ runRecord = Nodes!NoRecord /\ runEdges = {} /\ runTracker = "none"
      /\ runNode = [r \in NodeRuns |-> [run |-> "none", task |-> Absent, agent |-> IF r = Top THEN TopAgent ELSE Absent,
                                        caller |-> Top, outcome |-> Absent, noted |-> FALSE]]
  BY DEF Nodes!Init, NodeRuns
<1>2. Top \in NodeRuns /\ Top \notin NodeCalls /\ NodeCalls \subseteq NodeRuns
  BY NodesAssumption DEF NodeRuns, Nodes!Runs
<1>3. runNode \in [NodeRuns -> RunNode]
  BY <1>1, <1>2 DEF RunNode, AgentNames
<1>4. \A r \in NodeRuns : runNode[r].run = "none" /\ runNode[r].task = Absent
  BY <1>1
<1>5. NodesTypeOK
  BY <1>1, <1>2, <1>3, <1>4 DEF NodesTypeOK
<1>6. EdgesInv
  <2>1. KeysOf(runEdges) = {}
    BY <1>1 DEF KeysOf
  <2>2. IsForest(runEdges)
    <3>1. ASSUME NEW some \in (SUBSET KeysOf(runEdges)) \ {{}} PROVE FALSE
      <4>1. some # {} /\ \A k \in some : k \in KeysOf(runEdges)
        BY <3>1
      <4>2. \A k : k \notin KeysOf(runEdges)
        BY <2>1
      <4> QED
        BY <4>1, <4>2
    <3> QED
      BY <3>1 DEF IsForest
  <2> QED
    BY <1>1, <1>2, <1>4, <2>2 DEF EdgesInv
<1>7. RecordInv
  BY <1>1 DEF RecordInv, Nodes!NoRecord, Nodes!Record, Nowhere
<1>8. TopInv /\ TrackerInv /\ Nodes!RecordIsTheTops
  BY <1>1, <1>2, <1>4 DEF TopInv, TrackerInv, Nodes!RecordIsTheTops
<1> QED
  BY <1>5, <1>6, <1>7, <1>8 DEF NodesInv

LEMMA NodesPromise == NodesInv => Nodes!RunIsItsTops
<1> SUFFICES ASSUME NodesInv PROVE Nodes!OneTree /\ Nodes!Cancellable
  BY DEF NodesInv, Nodes!RunIsItsTops
<1>1. Nodes!OneTree
  BY DEF NodesInv, EdgesInv, IsForest, KeysOf, Nodes!OneTree, Nowhere
<1>2. Nodes!Cancellable
  BY DEF NodesInv, TrackerInv, Nodes!Cancellable, Nodes!Going
<1> QED
  BY <1>1, <1>2

-----------------------------------------------------------------------------
\* However agents call each other none works below itself, a cancelled caller leaves nothing at
\* work that was not told to stop, and the record of a run is that of its top with the nodes
\* below it one tree (CallsEnd), for any calls, agents, depth and width.
THEOREM CalledAgentsEnd == Spec => []CallsEnd
<1> DEFINE Inv == (subject = "agents" => AgentInv) /\ (subject = "nodes" => NodesInv)
<1>1. Init => Inv
  BY AgentInitially, NodesInitially DEF Init
<1>2. Inv /\ [Next]_vars => Inv'
  <2>1. ASSUME subject' = "agents", [Next]_vars
        PROVE  subject = "agents" /\ [Agent!Next]_agentsVars
    BY <2>1 DEF Next, vars, OfLane, OfTerminal, OfGuard, OfFiles, OfProcesses, OfMcp, OfAgents,
        OfNodes, OfStream, OfScheduler, OfStreams, OfLogs
  <2>2. ASSUME subject' = "nodes", [Next]_vars
        PROVE  subject = "nodes" /\ [Nodes!Next]_nodesVars
    BY <2>2 DEF Next, vars, OfLane, OfTerminal, OfGuard, OfFiles, OfProcesses, OfMcp, OfAgents,
        OfNodes, OfStream, OfScheduler, OfStreams, OfLogs
  <2> QED
    BY <2>1, <2>2, AgentStep, NodesStep
<1>3. Inv => CallsEnd
  BY AgentPromise, NodesPromise DEF CallsEnd
<1> QED
  BY <1>1, <1>2, <1>3, PTL DEF Spec

-----------------------------------------------------------------------------
(* LogFiles.  Files are numbered as they are made, so a file with a higher number has later *)
(* lines; only the last one is written, by one writer, also when it was renamed under it    *)
(* because the runtime that was to follow could not be installed.                           *)

FileType == [lines : SUBSET Nat, size : Nat, time : Nat]
DiskType == [files : Seq(FileType), active : Nat, archives : SUBSET Nat, removed : SUBSET Nat]
WriterType == [file : Nat, size : Nat]
SituationType == [writer : WriterType, disk : DiskType, failures : Nat, ok : BOOLEAN]

Latest(d) == Len(d.files)
FilesOf(d) == 1..Len(d.files)

\* A file is the active one, an archive or removed; the active one is the last.
Placed(d) ==
  /\ d.active \in {0, Latest(d)}
  /\ d.active \notin d.archives \cup d.removed
  /\ d.archives \cap d.removed = {}
  /\ d.archives \cup d.removed \subseteq FilesOf(d)
  /\ \A f \in FilesOf(d) : f \in d.archives \cup d.removed \/ f = d.active

\* The files have the n lines written, each a stretch of its own; only the active one may be empty.
Filled(d, n) ==
  /\ \A f \in FilesOf(d) :
       LET file == d.files[f] IN
       /\ \A l \in file.lines : l \in 1..n /\ l <= file.time
       /\ file.size = 0 => file.lines = {}
       /\ file.size # 0 => file.time \in file.lines
       /\ f # d.active => file.size # 0
       /\ file.size <= MaxBytes \/ \E l \in file.lines : file.lines = {l}
  /\ \A f, g \in FilesOf(d) : f < g => \A l \in d.files[f].lines, m \in d.files[g].lines : l < m
  /\ \A l \in 1..n : \E f \in FilesOf(d) : l \in d.files[f].lines

\* What was removed is older than the archives, which then are as many as are to be kept.
Pruned(d) ==
  /\ d.removed # {} => Cardinality(d.archives) >= MaxBackups
  /\ \A f \in d.removed, g \in d.archives : f < g

DiskInv(d, n) == Placed(d) /\ Filled(d, n) /\ Pruned(d)

\* A writer has the last file open, if any, and counts its size.
WriterInv(w, d) ==
  /\ w.file \in {0, Latest(d)}
  /\ w.file = 0 => w.size = 0
  /\ w.file # 0 => w.size = d.files[w.file].size

Sound(s, n) ==
  s \in SituationType /\ DiskInv(s.disk, n) /\ WriterInv(s.writer, s.disk)

LEMMA LogCardinality == \A S : Log!Cardinality(S) = Cardinality(S)
BY DEF Log!Cardinality, Cardinality

\* Of numbered things, those with at least M later ones can go: if any goes, M stay, all later.
LEMMA OldestGo ==
  ASSUME NEW A, IsFiniteSet(A), NEW t \in [A -> Nat], NEW n \in Nat, \A f \in A : t[f] <= n,
         NEW M \in Nat, NEW Later \in [A -> SUBSET A], \A f, g \in A : g \in Later[f] <=> t[g] > t[f],
         NEW gone \in SUBSET A, \A f \in A : f \in gone <=> Cardinality(Later[f]) >= M
  PROVE  /\ gone # {} => Cardinality(A \ gone) >= M
         /\ \A f \in gone, g \in A \ gone : t[f] < t[g]
<1> DEFINE Age(f) == n - t[f]
<1>1. \A f \in A : Later[f] \in SUBSET A /\ IsFiniteSet(Later[f]) /\ Cardinality(Later[f]) \in Nat
  <2> TAKE f \in A
  <2>1. Later[f] \in SUBSET A
    OBVIOUS
  <2> QED
    BY <2>1, FS_Subset, FS_CardinalityType
<1>2. ASSUME gone # {} PROVE Cardinality(A \ gone) >= M
  <2>1. {Age(f) : f \in gone} \subseteq Nat /\ {Age(f) : f \in gone} # {}
    <3>1. \A f \in A : n - t[f] \in Nat
      OBVIOUS
    <3> QED
      BY <1>2, <3>1
  <2>2. PICK m \in {Age(f) : f \in gone} : \A k \in {Age(f) : f \in gone} : m <= k
    BY <2>1, LeastOf
  <2>3. PICK f \in gone : m = Age(f)
    BY <2>2
  <2>4. f \in A /\ \A g \in gone : g \in A /\ t[g] <= t[f]
    <3>1. \A g \in gone : g \in A /\ Age(f) <= Age(g)
      BY <2>2, <2>3
    <3>2. f \in A
      OBVIOUS
    <3> QED
      BY <3>1, <3>2
  <2>5. Later[f] \subseteq A \ gone
    BY <2>4
  <2>6. IsFiniteSet(A \ gone) /\ Cardinality(A \ gone) \in Nat
    BY FS_Subset, FS_CardinalityType
  <2>7. Cardinality(Later[f]) <= Cardinality(A \ gone)
    BY <2>5, <2>6, FS_Subset
  <2>8. Cardinality(Later[f]) >= M
    OBVIOUS
  <2> QED
    BY <1>1, <2>4, <2>6, <2>7, <2>8
<1>3. ASSUME NEW f \in gone, NEW g \in A \ gone PROVE t[f] < t[g]
  <2>1. SUFFICES ASSUME t[g] <= t[f] PROVE FALSE
    OBVIOUS
  <2>2. Later[f] \subseteq Later[g] /\ f \in A
    BY <2>1
  <2>3. Cardinality(Later[f]) <= Cardinality(Later[g])
    BY <1>1, <2>2, FS_Subset
  <2>4. Cardinality(Later[f]) >= M /\ ~(Cardinality(Later[g]) >= M)
    OBVIOUS
  <2> QED
    BY <1>1, <2>2, <2>3, <2>4
<1> QED
  BY <1>2, <1>3

\* The archives are among the files.
LEMMA ArchivesFinite ==
  ASSUME NEW d, Len(d.files) \in Nat, Placed(d)
  PROVE  IsFiniteSet(d.archives)
<1>1. 1 \in Int /\ Len(d.files) \in Int
  OBVIOUS
<1>2. IsFiniteSet(1..Len(d.files))
  BY <1>1, FS_Interval
<1>3. d.archives \in SUBSET (1..Len(d.files))
  BY DEF Placed, FilesOf
<1> QED
  BY <1>2, <1>3, FS_Subset

\* What the file system refuses changes nothing.
LEMMA RefusedSound ==
  ASSUME NEW n \in Nat, NEW s, Sound(s, n), NEW r \in Log!Refused(s)
  PROVE  Sound(r, n) /\ r.disk = s.disk /\ r.writer = s.writer /\ r.ok = FALSE
<1>1. s.writer \in WriterType /\ s.disk \in DiskType /\ s.failures \in Nat
  BY DEF Sound, SituationType
<1>2. r = Log!Sit(s.writer, s.disk, s.failures - 1, FALSE) /\ s.failures # 0
  BY DEF Log!Refused
<1>3. r \in SituationType /\ r.disk = s.disk /\ r.writer = s.writer /\ r.ok = FALSE
  BY <1>1, <1>2 DEF SituationType, Log!Sit
<1> QED
  BY <1>3 DEF Sound

\* Pruning takes the oldest archives, or is refused.
LEMMA PruneSound ==
  ASSUME NEW n \in Nat, NEW s, Sound(s, n), NEW p \in Log!Prune(s)
  PROVE  Sound(p, n) /\ p.disk.files = s.disk.files /\ p.disk.active = s.disk.active
<1> DEFINE d == s.disk
           gone == Log!Expired(d)
           pruned == Log!Disk(d.files, d.active, d.archives \ gone, d.removed \cup gone)
<1>1. /\ s.writer \in WriterType /\ s.failures \in Nat /\ WriterInv(s.writer, d)
      /\ d.files \in Seq(FileType) /\ d.active \in Nat
      /\ d.archives \in SUBSET Nat /\ d.removed \in SUBSET Nat /\ Len(d.files) \in Nat
      /\ Placed(d) /\ Filled(d, n) /\ Pruned(d)
  BY DEF Sound, DiskInv, SituationType, DiskType
<1>2. CASE p \in Log!Refused(s)
  BY <1>2, RefusedSound
<1>3. CASE p = Log!Sit(s.writer, pruned, s.failures, TRUE)
  <2>1. /\ pruned.files = d.files /\ pruned.active = d.active
        /\ pruned.archives = d.archives \ gone /\ pruned.removed = d.removed \cup gone
    BY DEF Log!Disk
  <2>2. p.disk = pruned /\ p.writer = s.writer
    BY <1>3 DEF Log!Sit
  <2>3. gone \subseteq d.archives
    BY DEF Log!Expired
  <2>4. \A f \in d.archives : /\ f \in FilesOf(d) /\ d.files[f].time \in Nat /\ d.files[f].time <= n
                              /\ d.files[f].time \in d.files[f].lines
    <3> TAKE f \in d.archives
    <3>1. f \in FilesOf(d) /\ f # d.active
      BY <1>1 DEF Placed
    <3>2. d.files[f] \in FileType
      BY <1>1, <3>1 DEF FilesOf
    <3>3. d.files[f].time \in d.files[f].lines /\ d.files[f].time \in 1..n
      BY <1>1, <3>1 DEF Filled
    <3> QED
      BY <3>1, <3>2, <3>3 DEF FileType
  <2>5. IsFiniteSet(d.archives)
    BY <1>1, ArchivesFinite
  <2> DEFINE t == [f \in d.archives |-> d.files[f].time]
  <2>6. t \in [d.archives -> Nat] /\ \A f \in d.archives : t[f] <= n
    BY <2>4
  <2>7. gone = {f \in d.archives : Cardinality({g \in d.archives : t[g] > t[f]}) >= MaxBackups}
    <3>1. \A f \in d.archives :
            {g \in d.archives : Log!LastLine(d, g) > Log!LastLine(d, f)} = {g \in d.archives : t[g] > t[f]}
      BY DEF Log!LastLine
    <3> HIDE DEF t
    <3> QED
      BY <3>1, LogCardinality DEF Log!Expired
  <2>8. /\ gone # {} => Cardinality(d.archives \ gone) >= MaxBackups
        /\ \A f \in gone, g \in d.archives \ gone : t[f] < t[g]
    <3> DEFINE A == d.archives
               Later == [f \in A |-> {g \in A : t[g] > t[f]}]
    <3>1. IsFiniteSet(A) /\ t \in [A -> Nat] /\ (\A f \in A : t[f] <= n) /\ MaxBackups \in Nat
      BY <2>5, <2>6, LogsAssumption
    <3>2. Later \in [A -> SUBSET A] /\ \A f, g \in A : g \in Later[f] <=> t[g] > t[f]
      OBVIOUS
    <3>3. gone \in SUBSET A /\ \A f \in A : f \in gone <=> Cardinality(Later[f]) >= MaxBackups
      BY <2>3, <2>7
    <3> HIDE DEF t, A, gone, Later
    <3>4. (gone # {} => Cardinality(A \ gone) >= MaxBackups) /\ \A f \in gone, g \in A \ gone : t[f] < t[g]
      BY <3>1, <3>2, <3>3, OldestGo
    <3> QED
      BY <3>4 DEF A
  <2>9. ASSUME NEW f \in gone, NEW g \in d.archives \ gone PROVE f < g
    <3>1. f \in d.archives /\ f # g /\ d.files[f].time < d.files[g].time
      BY <2>3, <2>8
    <3>2. g < f => d.files[g].time < d.files[f].time
      <4>1. \A x, y \in FilesOf(d) : x < y => \A l \in d.files[x].lines, m \in d.files[y].lines : l < m
        BY <1>1 DEF Filled
      <4> QED
        BY <2>4, <3>1, <4>1
    <3>3. f \in Nat /\ g \in Nat
      BY <1>1, <2>4, <3>1 DEF FilesOf
    <3> QED
      BY <2>4, <3>1, <3>2, <3>3
  <2> HIDE DEF gone, d
  <2>10. pruned \in DiskType /\ FilesOf(pruned) = FilesOf(d) /\ Latest(pruned) = Latest(d)
    BY <1>1, <2>1, <2>3 DEF DiskType, FilesOf, Latest, Log!Disk
  <2>15. p \in SituationType
    BY <1>1, <1>3, <2>10 DEF SituationType, Log!Sit
  <2> HIDE DEF pruned
  <2>11. Placed(pruned)
    BY <1>1, <2>1, <2>3, <2>10 DEF Placed
  <2>12. Filled(pruned, n)
    BY <1>1, <2>1, <2>10 DEF Filled
  <2>13. Pruned(pruned)
    <3>1. pruned.removed # {} => Cardinality(pruned.archives) >= MaxBackups
      <4>1. CASE gone = {}
        BY <1>1, <2>1, <4>1 DEF Pruned
      <4> QED
        BY <2>1, <2>8, <4>1
    <3>2. \A f \in pruned.removed, g \in pruned.archives : f < g
      BY <1>1, <2>1, <2>3, <2>9 DEF Pruned
    <3> QED
      BY <3>1, <3>2 DEF Pruned
  <2>14. WriterInv(s.writer, pruned)
    BY <1>1, <2>1, <2>10 DEF WriterInv
  <2> QED
    BY <2>1, <2>2, <2>11, <2>12, <2>13, <2>14, <2>15 DEF Sound, DiskInv, d
<1> QED
  BY <1>2, <1>3 DEF Log!Prune

\* Rotating renames a file that is not empty, if there is one, or is refused somewhere on the way.
LEMMA RotateSound ==
  ASSUME NEW n \in Nat, NEW s, Sound(s, n), s.ok, NEW r \in Log!Rotate(s)
  PROVE  /\ Sound(r, n) /\ r.disk.files = s.disk.files
         /\ r.ok => r.disk.active = 0 \/ r.disk.files[r.disk.active].size = 0
<1> DEFINE d == s.disk
           archived == Log!Disk(d.files, 0, d.archives \cup {d.active}, d.removed)
           closed == Log!Sit(Log!None, d, s.failures, TRUE)
           renamed == Log!Sit(Log!None, archived, s.failures, TRUE)
<1>1. /\ s.failures \in Nat /\ d \in DiskType /\ d.files \in Seq(FileType) /\ d.active \in Nat
      /\ d.archives \in SUBSET Nat /\ d.removed \in SUBSET Nat /\ Len(d.files) \in Nat
      /\ Placed(d) /\ Filled(d, n) /\ Pruned(d)
  BY DEF Sound, DiskInv, SituationType, DiskType
<1>2. CASE d.active = 0 \/ (d.active # 0 /\ d.files[d.active].size = 0)
  BY <1>2 DEF Log!Rotate
<1>3. CASE ~(d.active = 0 \/ (d.active # 0 /\ d.files[d.active].size = 0))
  <2>0. \A x : WriterInv(Log!None, x)
    BY DEF WriterInv, Log!None
  <2>1. closed \in SituationType /\ closed.disk = d /\ closed.writer = Log!None
    BY <1>1 DEF SituationType, WriterType, Log!None, Log!Sit
  <2>2. Sound(closed, n)
    BY <1>1, <2>0, <2>1 DEF Sound, DiskInv
  <2>3. /\ archived.files = d.files /\ archived.active = 0
        /\ archived.archives = d.archives \cup {d.active} /\ archived.removed = d.removed
    BY DEF Log!Disk
  <2>4. d.active = Latest(d) /\ d.active \in FilesOf(d) /\ d.files[d.active].size # 0
    BY <1>1, <1>3 DEF Placed, Latest, FilesOf
  <2>5. archived \in DiskType
    BY <1>1 DEF DiskType, Log!Disk
  <2> HIDE DEF d
  <2>6. renamed \in SituationType /\ renamed.disk = archived /\ renamed.writer = Log!None
    BY <1>1, <2>5 DEF SituationType, WriterType, Log!None, Log!Sit
  <2> HIDE DEF archived
  <2>7. FilesOf(archived) = FilesOf(d) /\ Latest(archived) = Latest(d)
    BY <2>3 DEF FilesOf, Latest
  <2>8. Placed(archived)
    <3>1. d.active \notin d.removed /\ d.active # 0 /\ 0 \notin d.archives \cup d.removed
      BY <1>1, <1>3 DEF Placed, FilesOf
    <3> QED
      BY <1>1, <2>3, <2>4, <2>7, <3>1 DEF Placed
  <2>9. Filled(archived, n)
    <3>1. \A f \in FilesOf(d) : d.files[f].size # 0
      BY <1>1, <2>4 DEF Filled
    <3> QED
      BY <1>1, <2>3, <2>7, <3>1 DEF Filled
  <2>10. Pruned(archived)
    <3>1. IsFiniteSet(d.archives)
      BY <1>1, ArchivesFinite
    <3>2. Cardinality(d.archives) \in Nat /\ Cardinality(d.archives \cup {d.active}) \in Nat
          /\ Cardinality(d.archives) <= Cardinality(d.archives \cup {d.active})
      <4>1. Cardinality(d.archives) \in Nat
        BY <3>1, FS_CardinalityType
      <4>2. Cardinality(d.archives \cup {d.active})
              = IF d.active \in d.archives THEN Cardinality(d.archives) ELSE Cardinality(d.archives) + 1
        BY <3>1, FS_AddElement
      <4> QED
        BY <4>1, <4>2
    <3>3. d.removed # {} => Cardinality(d.archives \cup {d.active}) >= MaxBackups
      BY <1>1, <3>2, LogsAssumption DEF Pruned
    <3>4. \A f \in d.removed : f < d.active
      BY <1>1, <2>4 DEF Placed, FilesOf, Latest
    <3> QED
      BY <1>1, <2>3, <3>3, <3>4 DEF Pruned
  <2>11. Sound(renamed, n)
    BY <2>0, <2>6, <2>8, <2>9, <2>10 DEF Sound, DiskInv
  <2>12. CASE r \in Log!Refused(closed)
    BY <2>1, <2>2, <2>12, RefusedSound DEF d
  <2>13. CASE r \in Log!Prune(renamed)
    <3>1. Sound(r, n) /\ r.disk.files = renamed.disk.files /\ r.disk.active = renamed.disk.active
      BY <2>11, <2>13, PruneSound
    <3> QED
      BY <2>3, <2>6, <3>1 DEF d
  <2> QED
    BY <1>3, <2>12, <2>13 DEF Log!Rotate, archived, d
<1> QED
  BY <1>2, <1>3

\* Opening takes the active file as it is, or makes one; it is empty if there was none to speak of.
LEMMA OpenSound ==
  ASSUME NEW n \in Nat, NEW s, Sound(s, n), NEW o \in Log!Open(s)
  PROVE  /\ Sound(o, n)
         /\ ~ o.ok => o.disk = s.disk
         /\ o.ok => /\ o.writer.file # 0 /\ o.disk.active = o.writer.file
                    /\ s.disk.active = 0 \/ s.disk.files[s.disk.active].size = 0 => o.writer.size = 0
<1> DEFINE d == s.disk
           made == Log!Disk(Append(d.files, Log!NewFile), Len(d.files) + 1, d.archives, d.removed)
           there == IF d.active # 0 THEN s ELSE Log!Sit(s.writer, made, s.failures, TRUE)
           opened == Log!Sit(Log!Opened(there), there.disk, s.failures, TRUE)
<1>1. /\ s.writer \in WriterType /\ s.failures \in Nat /\ d \in DiskType /\ d.files \in Seq(FileType)
      /\ d.active \in Nat /\ d.archives \in SUBSET Nat /\ d.removed \in SUBSET Nat
      /\ Len(d.files) \in Nat /\ Placed(d) /\ Filled(d, n) /\ Pruned(d)
  BY DEF Sound, DiskInv, SituationType, DiskType
<1>2. CASE o \in Log!Refused(s)
  BY <1>2, RefusedSound
<1>3. CASE o = opened
  <2>1. /\ o.disk = there.disk /\ o.ok = TRUE /\ o.failures = s.failures
        /\ o.writer = [file |-> o.disk.active, size |-> o.disk.files[o.disk.active].size]
    BY <1>3 DEF Log!Sit, Log!Opened
  <2>2. SUFFICES /\ o.disk \in DiskType /\ o.disk.active \in FilesOf(o.disk)
                 /\ DiskInv(o.disk, n)
                 /\ d.active = 0 \/ d.files[d.active].size = 0 => o.disk.files[o.disk.active].size = 0
    <3> HIDE DEF opened, there, made, d
    <3>1. o.disk.active = Latest(o.disk) /\ o.disk.active \in Nat /\ o.disk.active # 0
      BY <2>2 DEF DiskInv, Placed, FilesOf, DiskType
    <3>2. o.disk.files[o.disk.active].size \in Nat
      <4>1. o.disk.files \in Seq(FileType)
        BY <2>2 DEF DiskType
      <4>2. o.disk.files[o.disk.active] \in FileType
        BY <2>2, <4>1 DEF FilesOf
      <4> QED
        BY <4>2 DEF FileType
    <3>3. o \in SituationType
      <4>1. o.writer \in WriterType
        BY <2>1, <3>1, <3>2 DEF WriterType
      <4>2. o = [writer |-> o.writer, disk |-> o.disk, failures |-> s.failures, ok |-> TRUE]
        BY <1>3, <2>1 DEF Log!Sit, opened
      <4>3. o.disk \in DiskType /\ s.failures \in Nat /\ TRUE \in BOOLEAN
        BY <1>1, <2>2
      <4>4. [writer |-> o.writer, disk |-> o.disk, failures |-> s.failures, ok |-> TRUE] \in SituationType
        BY <4>1, <4>3 DEF SituationType
      <4> QED
        BY <4>2, <4>4
    <3>4. WriterInv(o.writer, o.disk)
      BY <2>1, <3>1 DEF WriterInv
    <3> QED
      BY <2>1, <2>2, <3>1, <3>3, <3>4 DEF Sound, d
  <2>3. CASE d.active # 0
    <3>1. o.disk = d
      BY <2>1, <2>3
    <3>2. d.active \in FilesOf(d)
      BY <1>1, <2>3 DEF Placed, FilesOf, Latest
    <3> QED
      BY <1>1, <2>3, <3>1, <3>2 DEF DiskInv
  <2>4. CASE d.active = 0
    <3>1. o.disk = made
      BY <2>1, <2>4 DEF Log!Sit
    <3>2. /\ made.files = Append(d.files, Log!NewFile) /\ made.active = Len(d.files) + 1
          /\ made.archives = d.archives /\ made.removed = d.removed
      BY DEF Log!Disk
    <3>3. Log!NewFile \in FileType /\ Log!NewFile.lines = {} /\ Log!NewFile.size = 0
      BY DEF FileType, Log!NewFile
    <3>10. made \in [files : {made.files}, active : {made.active}, archives : {made.archives}, removed : {made.removed}]
      BY DEF Log!Disk
    <3> HIDE DEF d, made
    <3>4. /\ made.files \in Seq(FileType) /\ Len(made.files) = Len(d.files) + 1
          /\ made.files[Len(d.files) + 1] = Log!NewFile
          /\ \A f \in FilesOf(d) : made.files[f] = d.files[f]
      BY <1>1, <3>2, <3>3 DEF FilesOf
    <3>5. made \in DiskType
      BY <1>1, <3>2, <3>4, <3>10 DEF DiskType
    <3>6. /\ FilesOf(made) = FilesOf(d) \cup {made.active} /\ made.active \notin FilesOf(d)
          /\ Latest(made) = made.active /\ made.active # 0
          /\ \A f \in FilesOf(d) : f < made.active
      BY <1>1, <3>2, <3>4 DEF FilesOf, Latest
    <3>7. Placed(made)
      <4>1. 0 \notin FilesOf(d)
        BY DEF FilesOf
      <4> QED
        BY <1>1, <2>4, <3>2, <3>6, <4>1 DEF Placed
    <3>8. Filled(made, n)
      <4>1. made.files[made.active].lines = {} /\ made.files[made.active].size = 0
        BY <3>2, <3>3, <3>4
      <4>2. \A f \in FilesOf(d) : d.files[f].size # 0
        BY <1>1, <2>4 DEF Filled, FilesOf
      <4>3. \A f \in FilesOf(made) :
              LET file == made.files[f] IN
              /\ \A l \in file.lines : l \in 1..n /\ l <= file.time
              /\ file.size = 0 => file.lines = {}
              /\ file.size # 0 => file.time \in file.lines
              /\ f # made.active => file.size # 0
              /\ file.size <= MaxBytes \/ \E l \in file.lines : file.lines = {l}
        <5> TAKE f \in FilesOf(made)
        <5>1. CASE f = made.active
          BY <4>1, <5>1, LogsAssumption
        <5>2. CASE f # made.active
          <6>1. f \in FilesOf(d) /\ made.files[f] = d.files[f]
            BY <3>4, <3>6, <5>2
          <6> QED
            BY <1>1, <4>2, <6>1 DEF Filled
        <5> QED
          BY <5>1, <5>2
      <4>4. \A f, g \in FilesOf(made) : f < g => \A l \in made.files[f].lines, m \in made.files[g].lines : l < m
        BY <1>1, <3>4, <3>6, <4>1 DEF Filled
      <4>5. \A l \in 1..n : \E f \in FilesOf(made) : l \in made.files[f].lines
        BY <1>1, <3>4, <3>6 DEF Filled
      <4> QED
        BY <4>3, <4>4, <4>5 DEF Filled
    <3>9. Pruned(made)
      BY <1>1, <3>2 DEF Pruned
    <3> QED
      BY <3>1, <3>2, <3>3, <3>4, <3>5, <3>6, <3>7, <3>8, <3>9 DEF DiskInv
  <2> QED
    BY <2>3, <2>4
<1> QED
  BY <1>2, <1>3 DEF Log!Open

\* A line is written to the last file, where it fits or is the first.
LEMMA PutSound ==
  ASSUME NEW n \in Nat, NEW o, Sound(o, n), NEW size \in Nat \ {0}, o.writer.file # 0,
         o.writer.size = 0 \/ o.writer.size + size <= MaxBytes,
         NEW p, p = Log!Sit([o.writer EXCEPT !.size = @ + size],
                    Log!Disk([o.disk.files EXCEPT ![o.writer.file] =
                                [lines |-> @.lines \cup {n + 1}, size |-> @.size + size, time |-> n + 1]],
                             o.disk.active, o.disk.archives, o.disk.removed),
                    o.failures, TRUE)
  PROVE  Sound(p, n + 1)
<1> DEFINE d == o.disk
           k == o.writer.file
           old == d.files[k]
           grown == [lines |-> old.lines \cup {n + 1}, size |-> old.size + size, time |-> n + 1]
           files_ == [d.files EXCEPT ![k] = grown]
           e == Log!Disk(files_, d.active, d.archives, d.removed)
           w == [o.writer EXCEPT !.size = @ + size]
<1>1. /\ o.writer \in WriterType /\ o.failures \in Nat /\ WriterInv(o.writer, d)
      /\ d.files \in Seq(FileType) /\ d.active \in Nat
      /\ d.archives \in SUBSET Nat /\ d.removed \in SUBSET Nat /\ Len(d.files) \in Nat
      /\ Placed(d) /\ Filled(d, n) /\ Pruned(d)
  BY DEF Sound, DiskInv, SituationType, DiskType
<1>2. k = Len(d.files) /\ k \in FilesOf(d) /\ o.writer.size = old.size
  BY <1>1 DEF WriterInv, Latest, FilesOf
<1>3. old \in FileType /\ old.lines \in SUBSET Nat /\ old.size \in Nat
  <2>1. old \in FileType
    BY <1>1, <1>2 DEF FilesOf
  <2> QED
    BY <2>1 DEF FileType
<1>4. p = Log!Sit(w, e, o.failures, TRUE)
  OBVIOUS
<1>5. w = [file |-> k, size |-> old.size + size]
  BY <1>1, <1>2 DEF WriterType
<1>6. grown \in FileType /\ grown.lines = old.lines \cup {n + 1} /\ grown.size = old.size + size
      /\ grown.time = n + 1 /\ grown.size # 0
  BY <1>3 DEF FileType
<1> HIDE DEF grown
<1>7. /\ files_ \in Seq(FileType) /\ Len(files_) = Len(d.files) /\ files_[k] = grown
      /\ \A f \in FilesOf(d) : f # k => files_[f] = d.files[f]
  BY <1>1, <1>2, <1>6 DEF FilesOf
<1> HIDE DEF files_, d, w, old
<1>8. e.files = files_ /\ e.active = d.active /\ e.archives = d.archives /\ e.removed = d.removed
  BY DEF Log!Disk
<1>9. e \in DiskType
  BY <1>1, <1>7 DEF DiskType, Log!Disk
<1>10. p \in SituationType /\ p.writer = w /\ p.disk = e
  <2>1. w \in WriterType
    BY <1>1, <1>2, <1>3, <1>5 DEF WriterType, FilesOf
  <2> QED
    BY <1>1, <1>4, <1>9, <2>1 DEF SituationType, Log!Sit
<1> HIDE DEF e
<1>11. FilesOf(e) = FilesOf(d) /\ Latest(e) = Latest(d) /\ Latest(d) = k
  BY <1>2, <1>7, <1>8 DEF FilesOf, Latest
<1>12. WriterInv(w, e)
  BY <1>2, <1>5, <1>6, <1>7, <1>8, <1>11 DEF WriterInv
<1>13. Placed(e)
  BY <1>1, <1>8, <1>11 DEF Placed
<1>14. Pruned(e)
  BY <1>1, <1>8 DEF Pruned
<1>15. Filled(e, n + 1)
  <2>1. \A l \in old.lines : l \in 1..n
    BY <1>1, <1>2 DEF Filled, old
  <2>2. \A f \in FilesOf(e) :
          LET file == e.files[f] IN
          /\ \A l \in file.lines : l \in 1..(n + 1) /\ l <= file.time
          /\ file.size = 0 => file.lines = {}
          /\ file.size # 0 => file.time \in file.lines
          /\ f # e.active => file.size # 0
          /\ file.size <= MaxBytes \/ \E l \in file.lines : file.lines = {l}
    <3> TAKE f \in FilesOf(e)
    <3>1. CASE f = k
      <4>1. e.files[f] = grown
        BY <1>7, <1>8, <3>1
      <4>2. \A l \in grown.lines : l \in 1..(n + 1) /\ l <= grown.time
        BY <1>6, <2>1
      <4>3. grown.size <= MaxBytes \/ \E l \in grown.lines : grown.lines = {l}
        <5>1. CASE o.writer.size = 0
          <6>1. old.lines = {}
            BY <1>1, <1>2, <5>1 DEF Filled, old
          <6> QED
            BY <1>6, <6>1
        <5> QED
          BY <1>2, <1>6, <5>1
      <4> QED
        BY <1>6, <4>1, <4>2, <4>3
    <3>2. CASE f # k
      BY <1>1, <1>7, <1>8, <1>11, <3>2 DEF Filled
    <3> QED
      BY <3>1, <3>2
  <2>3. \A f, g \in FilesOf(e) : f < g => \A l \in e.files[f].lines, m \in e.files[g].lines : l < m
    <3> TAKE f, g \in FilesOf(e)
    <3> HAVE f < g
    <3> TAKE l \in e.files[f].lines, m \in e.files[g].lines
    <3>1. f # k /\ f \in FilesOf(d) /\ g \in FilesOf(d) /\ e.files[f] = d.files[f]
      BY <1>2, <1>7, <1>8, <1>11 DEF FilesOf
    <3>2. l \in 1..n
      BY <1>1, <3>1 DEF Filled
    <3>3. CASE m = n + 1
      BY <3>2, <3>3
    <3>4. CASE m # n + 1
      <4>1. m \in d.files[g].lines
        BY <1>6, <1>7, <1>8, <3>1, <3>4 DEF old
      <4> QED
        BY <1>1, <3>1, <4>1 DEF Filled
    <3> QED
      BY <3>3, <3>4
  <2>4. \A l \in 1..(n + 1) : \E f \in FilesOf(e) : l \in e.files[f].lines
    <3> TAKE l \in 1..(n + 1)
    <3>1. CASE l = n + 1
      BY <1>2, <1>6, <1>7, <1>8, <1>11, <3>1
    <3>2. CASE l # n + 1
      <4>1. PICK f \in FilesOf(d) : l \in d.files[f].lines
        BY <1>1, <3>2 DEF Filled
      <4>2. l \in e.files[f].lines
        BY <1>6, <1>7, <1>8, <4>1 DEF old
      <4> QED
        BY <1>11, <4>1, <4>2
    <3> QED
      BY <3>1, <3>2
  <2> QED
    BY <2>2, <2>3, <2>4 DEF Filled
<1> QED
  BY <1>9, <1>10, <1>12, <1>13, <1>14, <1>15 DEF Sound, DiskInv

\* A line is written as a whole, to a file it fits in, or not at all.
LEMMA WrittenSound ==
  ASSUME NEW n \in Nat, NEW s, Sound(s, n), s.ok, NEW size \in Nat \ {0},
         NEW w \in Log!Written(s, [n |-> n + 1, size |-> size])
  PROVE  IF w.ok THEN Sound(w, n + 1) ELSE Sound(w, n)
<1> DEFINE line == [n |-> n + 1, size |-> size]
           opened == IF s.writer.file = 0 THEN Log!Open(s) ELSE {s}
           Full(o) == o.writer.size > 0 /\ o.writer.size + line.size > MaxBytes
           Rolled(o) == IF Full(o) THEN Log!Then(Log!Rotate(o), Log!Open) ELSE {o}
           Grown(file) == [lines |-> file.lines \cup {line.n}, size |-> file.size + line.size, time |-> line.n]
           Put(o) == {Log!Sit([o.writer EXCEPT !.size = @ + line.size],
                          Log!Disk([o.disk.files EXCEPT ![o.writer.file] = Grown(@)],
                                   o.disk.active, o.disk.archives, o.disk.removed),
                          o.failures, TRUE)}
<1>1. PICK q \in Log!Then(opened, Rolled) : w \in IF q.ok THEN Put(q) ELSE {q}
  BY DEF Log!Written, Log!Then
<1>2. PICK o \in opened : q \in IF o.ok THEN Rolled(o) ELSE {o}
  BY DEF Log!Then
<1>3. Sound(o, n) /\ (o.ok => o.writer.file # 0)
  BY OpenSound
<1>4. Sound(q, n) /\ (q.ok => q.writer.file # 0 /\ (q.writer.size = 0 \/ q.writer.size + size <= MaxBytes))
  <2>1. CASE ~ o.ok
    BY <1>2, <1>3, <2>1
  <2>2. CASE o.ok /\ Full(o)
    <3>1. q \in Log!Then(Log!Rotate(o), Log!Open)
      BY <1>2, <2>2
    <3>2. PICK t \in Log!Rotate(o) : q \in IF t.ok THEN Log!Open(t) ELSE {t}
      BY <3>1 DEF Log!Then
    <3>3. Sound(t, n) /\ (t.ok => t.disk.active = 0 \/ t.disk.files[t.disk.active].size = 0)
      BY <1>3, <2>2, RotateSound
    <3> QED
      BY <3>2, <3>3, OpenSound
  <2>3. CASE o.ok /\ ~ Full(o)
    <3>1. q = o
      BY <1>2, <2>3
    <3>2. o.writer.size \in Nat
      BY <1>3 DEF Sound, SituationType, WriterType
    <3>3. line.size = size
      OBVIOUS
    <3>4. o.ok /\ ~ (o.writer.size > 0 /\ o.writer.size + size > MaxBytes)
      BY <2>3, <3>3
    <3>5. o.writer.size = 0 \/ o.writer.size + size <= MaxBytes
      <4>1. MaxBytes \in Nat /\ size \in Nat
        BY LogsAssumption
      <4> HIDE DEF line, opened, Full, Rolled, Put
      <4> QED
        BY <3>2, <3>4, <4>1
    <3> HIDE DEF Full
    <3> QED
      BY <1>3, <3>1, <3>4, <3>5
  <2> QED
    BY <2>1, <2>2, <2>3
<1>5. CASE ~ q.ok
  BY <1>1, <1>4, <1>5
<1>6. CASE q.ok
  <2>1. w = Log!Sit([q.writer EXCEPT !.size = @ + size],
                    Log!Disk([q.disk.files EXCEPT ![q.writer.file] =
                                [lines |-> @.lines \cup {n + 1}, size |-> @.size + size, time |-> n + 1]],
                             q.disk.active, q.disk.archives, q.disk.removed),
                    q.failures, TRUE)
    BY <1>1, <1>6
  <2>2. w.ok
    BY <2>1 DEF Log!Sit
  <2> QED
    BY <1>4, <1>6, <2>1, <2>2, PutSound
<1> QED
  BY <1>5, <1>6

\* The default logger is the installed runtime's, the only one that is open; what it takes the
\* place of is the logger before all.
DefaultInv ==
  /\ logInstalled \in Runtimes \cup {0} /\ logDefault = logInstalled /\ logStale \in BOOLEAN
  /\ logRuntimes \in [Runtimes -> [stage : {"new", "open", "closed"}, previous : {0}]]
  /\ \A rt \in Runtimes : logRuntimes[rt].stage = "open" <=> rt = logInstalled

\* As long as no logger outlived its runtime, the installed one alone has a file open.
LogsInv ==
  /\ DefaultInv
  /\ ~ logStale =>
       /\ logLines \in Seq(Nat) /\ logFailures \in Nat /\ logDisk \in DiskType
       /\ DiskInv(logDisk, Len(logLines))
       /\ logWriters \in [Runtimes -> WriterType]
       /\ \A rt \in Runtimes : WriterInv(logWriters[rt], logDisk)
       /\ \A rt \in Runtimes : rt # logInstalled => logWriters[rt] = Log!None

LEMMA LogsInitially == Log!Init => LogsInv
<1> SUFFICES ASSUME Log!Init PROVE LogsInv
  OBVIOUS
<1>1. DefaultInv
  BY LogsAssumption DEF Log!Init, DefaultInv
<1>2. /\ logDisk.files = <<>> /\ logDisk.active = 0 /\ logDisk.archives = {} /\ logDisk.removed = {}
      /\ logLines = <<>> /\ logFailures = MaxFailures
      /\ logWriters = [rt \in Runtimes |-> Log!None]
  BY DEF Log!Init, Log!Disk
<1>3. logDisk \in DiskType
  BY <1>2 DEF Log!Init, Log!Disk, DiskType
<1>4. FilesOf(logDisk) = {} /\ 1..Len(logLines) = {} /\ Latest(logDisk) = 0
  BY <1>2 DEF FilesOf, Latest
<1>5. DiskInv(logDisk, Len(logLines))
  BY <1>2, <1>4 DEF DiskInv, Placed, Filled, Pruned
<1>6. Log!None \in WriterType /\ WriterInv(Log!None, logDisk)
  BY DEF WriterType, WriterInv, Log!None
<1> QED
  BY <1>1, <1>2, <1>3, <1>5, <1>6, LogsAssumption DEF LogsInv

LEMMA LogsStep == LogsInv /\ [Log!Next]_logsVars => LogsInv'
<1> SUFFICES ASSUME LogsInv, [Log!Next]_logsVars PROVE LogsInv'
  OBVIOUS
<1> DEFINE N == Len(logLines)
<1>1. /\ DefaultInv /\ logInstalled \in Runtimes \cup {0} /\ logDefault = logInstalled
      /\ logRuntimes \in [Runtimes -> [stage : {"new", "open", "closed"}, previous : {0}]]
      /\ 0 \notin Runtimes
      /\ \A rt \in Runtimes : logRuntimes[rt].stage = "open" <=> rt = logInstalled
  BY LogsAssumption DEF LogsInv, DefaultInv
<1>2. ~ logStale => N \in Nat
  BY DEF LogsInv
<1>3. Log!None \in WriterType /\ \A d : WriterInv(Log!None, d)
  BY DEF WriterType, WriterInv, Log!None
<1>4. ASSUME ~ logStale, NEW w \in WriterType, WriterInv(w, logDisk)
      PROVE  Sound(Log!Now(w), N) /\ Log!Now(w).ok /\ Log!Now(w).disk = logDisk
  <2>1. Log!Now(w) \in SituationType /\ Log!Now(w).disk = logDisk /\ Log!Now(w).writer = w /\ Log!Now(w).ok
    BY <1>4 DEF Log!Now, Log!Sit, SituationType, LogsInv
  <2> QED
    BY <1>4, <2>1 DEF Sound, LogsInv
<1>5. ASSUME NEW rt \in Runtimes, Log!Install(rt) PROVE LogsInv'
  <2>1. logRuntimes[rt].stage = "new" /\ logLines' = logLines /\ logStale' = logStale /\ rt # logInstalled
    BY <1>1, <1>5 DEF Log!Install
  <2>2. PICK s \in Log!Then(Log!Rotate(Log!Now(Log!None)), Log!Open) :
          /\ logDisk' = s.disk /\ logFailures' = s.failures
          /\ IF s.ok
             THEN /\ logRuntimes' = [r \in Runtimes |->
                       CASE r = rt -> [stage |-> "open", previous |-> Log!Previous]
                         [] r = logInstalled -> [logRuntimes[r] EXCEPT !.stage = "closed"]
                         [] OTHER -> logRuntimes[r]]
                  /\ logWriters' = [r \in Runtimes |->
                       CASE r = rt -> s.writer [] r = logInstalled -> Log!None [] OTHER -> logWriters[r]]
                  /\ logInstalled' = rt /\ logDefault' = rt
             ELSE UNCHANGED <<logRuntimes, logWriters, logInstalled, logDefault>>
    BY <1>5 DEF Log!Install
  <2>3. DefaultInv'
    <3>1. Log!Previous = 0
      BY <1>1 DEF Log!Previous
    <3>2. CASE s.ok
      <4>1. \A r \in Runtimes : logRuntimes'[r] \in [stage : {"new", "open", "closed"}, previous : {0}]
                                /\ (logRuntimes'[r].stage = "open" <=> r = rt)
        <5> TAKE r \in Runtimes
        <5>1. CASE r = rt
          BY <2>1, <2>2, <3>1, <3>2, <5>1
        <5>2. CASE r # rt /\ r = logInstalled
          <6>1. logRuntimes'[r] = [logRuntimes[r] EXCEPT !.stage = "closed"]
            BY <2>2, <3>2, <5>2
          <6> QED
            BY <1>1, <5>2, <6>1
        <5>3. CASE r # rt /\ r # logInstalled
          <6>1. logRuntimes'[r] = logRuntimes[r]
            BY <2>2, <3>2, <5>3
          <6> QED
            BY <1>1, <5>3, <6>1
        <5> QED
          BY <5>1, <5>2, <5>3
      <4>2. logRuntimes' \in [Runtimes -> [stage : {"new", "open", "closed"}, previous : {0}]]
        <5>1. logRuntimes' = [r \in Runtimes |-> logRuntimes'[r]]
          BY <2>2, <3>2
        <5> QED
          BY <4>1, <5>1
      <4> QED
        BY <1>1, <2>1, <2>2, <3>2, <4>1, <4>2 DEF DefaultInv
    <3>3. CASE ~ s.ok
      BY <1>1, <2>1, <2>2, <3>3 DEF DefaultInv
    <3> QED
      BY <3>2, <3>3
  <2>4. ASSUME ~ logStale
        PROVE  /\ Sound(s, N) /\ (~ s.ok => s.disk.files = logDisk.files)
    <3>1. Sound(Log!Now(Log!None), N) /\ Log!Now(Log!None).ok /\ Log!Now(Log!None).disk = logDisk
      BY <1>3, <1>4, <2>4
    <3>2. PICK t \in Log!Rotate(Log!Now(Log!None)) : s \in IF t.ok THEN Log!Open(t) ELSE {t}
      BY DEF Log!Then
    <3>3. Sound(t, N) /\ t.disk.files = logDisk.files
      BY <1>2, <2>4, <3>1, RotateSound
    <3> QED
      BY <1>2, <2>4, <3>2, <3>3, OpenSound
  <2>5. ASSUME ~ logStale
        PROVE  /\ logWriters' \in [Runtimes -> WriterType]
               /\ \A r \in Runtimes : WriterInv(logWriters'[r], s.disk)
               /\ \A r \in Runtimes : r # logInstalled' => logWriters'[r] = Log!None
    <3>1. s.writer \in WriterType /\ WriterInv(s.writer, s.disk)
      BY <2>4, <2>5 DEF Sound, SituationType
    <3>2. logWriters \in [Runtimes -> WriterType] /\ \A r \in Runtimes : r # logInstalled => logWriters[r] = Log!None
      BY <2>5 DEF LogsInv
    <3>3. CASE s.ok
      <4>1. \A r \in Runtimes : logWriters'[r] = IF r = rt THEN s.writer ELSE Log!None
        BY <2>1, <2>2, <3>2, <3>3
      <4>2. logWriters' = [r \in Runtimes |-> logWriters'[r]]
        BY <2>2, <3>3
      <4>3. \A r \in Runtimes : logWriters'[r] \in WriterType
        BY <1>3, <3>1, <4>1
      <4> QED
        BY <1>3, <2>2, <3>1, <3>3, <4>1, <4>2, <4>3
    <3>4. CASE ~ s.ok
      <4>1. s.disk.files = logDisk.files /\ logWriters' = logWriters /\ logInstalled' = logInstalled
        BY <2>2, <2>4, <2>5, <3>4
      <4> QED
        BY <2>5, <3>2, <4>1 DEF LogsInv, WriterInv, Latest
    <3> QED
      BY <3>3, <3>4
  <2>6. ASSUME ~ logStale PROVE s.disk \in DiskType /\ s.failures \in Nat /\ DiskInv(s.disk, N)
    BY <2>4, <2>6 DEF Sound, SituationType
  <2> QED
    BY <2>1, <2>2, <2>3, <2>5, <2>6 DEF LogsInv
<1>6. ASSUME NEW rt \in Runtimes, Log!Close(rt) PROVE LogsInv'
  <2>1. /\ logRuntimes[rt].stage # "new" /\ logRuntimes' = [logRuntimes EXCEPT ![rt].stage = "closed"]
        /\ logWriters' = IF logRuntimes[rt].stage = "open" THEN [logWriters EXCEPT ![rt] = Log!None] ELSE logWriters
        /\ IF logInstalled = rt THEN logDefault' = logRuntimes[rt].previous /\ logInstalled' = 0
                                ELSE UNCHANGED <<logDefault, logInstalled>>
        /\ logDisk' = logDisk /\ logLines' = logLines /\ logFailures' = logFailures /\ logStale' = logStale
    BY <1>6 DEF Log!Close
  <2>2. DefaultInv'
    <3>1. logRuntimes' \in [Runtimes -> [stage : {"new", "open", "closed"}, previous : {0}]]
          /\ \A r \in Runtimes : logRuntimes'[r].stage = IF r = rt THEN "closed" ELSE logRuntimes[r].stage
      BY <1>1, <2>1
    <3>2. logRuntimes[rt].previous = 0
      BY <1>1
    <3> QED
      BY <1>1, <2>1, <3>1, <3>2 DEF DefaultInv
  <2>3. ASSUME ~ logStale
        PROVE  /\ logWriters' \in [Runtimes -> WriterType]
               /\ \A r \in Runtimes : WriterInv(logWriters'[r], logDisk)
               /\ \A r \in Runtimes : r # logInstalled' => logWriters'[r] = Log!None
    <3>1. /\ logWriters \in [Runtimes -> WriterType]
          /\ \A r \in Runtimes : WriterInv(logWriters[r], logDisk)
          /\ \A r \in Runtimes : r # logInstalled => logWriters[r] = Log!None
      BY <2>3 DEF LogsInv
    <3>2. CASE logRuntimes[rt].stage = "open"
      <4>1. /\ logInstalled = rt /\ logWriters' = [logWriters EXCEPT ![rt] = Log!None]
        BY <1>1, <2>1, <3>2
      <4> QED
        BY <1>3, <3>1, <4>1
    <3>3. CASE logRuntimes[rt].stage # "open"
      BY <1>1, <2>1, <3>1, <3>3
    <3> QED
      BY <3>2, <3>3
  <2> QED
    BY <2>1, <2>2, <2>3 DEF LogsInv
<1>7. ASSUME NEW rt \in Runtimes, Log!Log(rt) PROVE LogsInv'
  <2>1. /\ logRuntimes[rt].stage # "new" /\ logStale' = (logStale \/ logRuntimes[rt].stage = "closed")
        /\ logInstalled' = logInstalled /\ logDefault' = logDefault /\ logRuntimes' = logRuntimes
    BY <1>7 DEF Log!Log
  <2>2. DefaultInv'
    BY <1>1, <2>1 DEF DefaultInv
  <2>3. CASE logStale'
    BY <2>2, <2>3 DEF LogsInv
  <2>4. CASE ~ logStale'
    <3>1. ~ logStale /\ rt = logInstalled
      BY <1>1, <2>1, <2>4
    <3>2. /\ logWriters \in [Runtimes -> WriterType] /\ logLines \in Seq(Nat)
          /\ \A r \in Runtimes : WriterInv(logWriters[r], logDisk)
          /\ \A r \in Runtimes : r # logInstalled => logWriters[r] = Log!None
      BY <3>1 DEF LogsInv
    <3>3. PICK size \in Sizes : \E s \in Log!Written(Log!Now(logWriters[rt]), [n |-> N + 1, size |-> size]) :
            /\ logWriters' = [logWriters EXCEPT ![rt] = s.writer]
            /\ logDisk' = s.disk /\ logFailures' = s.failures
            /\ logLines' = IF s.ok THEN Append(logLines, size) ELSE logLines
      BY <1>7 DEF Log!Log
    <3>4. PICK s \in Log!Written(Log!Now(logWriters[rt]), [n |-> N + 1, size |-> size]) :
            /\ logWriters' = [logWriters EXCEPT ![rt] = s.writer]
            /\ logDisk' = s.disk /\ logFailures' = s.failures
            /\ logLines' = IF s.ok THEN Append(logLines, size) ELSE logLines
      BY <3>3
    <3>5. size \in Nat \ {0}
      BY LogsAssumption
    <3>6. Sound(Log!Now(logWriters[rt]), N) /\ Log!Now(logWriters[rt]).ok
      BY <1>4, <3>1, <3>2
    <3>7. IF s.ok THEN Sound(s, N + 1) ELSE Sound(s, N)
      BY <1>2, <3>1, <3>5, <3>6, WrittenSound
    <3>8. logLines' \in Seq(Nat) /\ Sound(s, Len(logLines'))
      BY <3>2, <3>4, <3>5, <3>7
    <3>9. /\ s.writer \in WriterType /\ s.disk \in DiskType /\ s.failures \in Nat
          /\ DiskInv(s.disk, Len(logLines')) /\ WriterInv(s.writer, s.disk)
      BY <3>8 DEF Sound, SituationType
    <3>10. /\ logWriters' \in [Runtimes -> WriterType]
           /\ \A r \in Runtimes : logWriters'[r] = IF r = rt THEN s.writer ELSE Log!None
      BY <3>1, <3>2, <3>4, <3>9
    <3> QED
      BY <1>3, <2>1, <2>2, <3>1, <3>4, <3>8, <3>9, <3>10 DEF LogsInv
  <2> QED
    BY <2>3, <2>4
<1>8. CASE UNCHANGED logsVars
  BY <1>8 DEF logsVars, LogsInv, DefaultInv
<1> QED
  BY <1>5, <1>6, <1>7, <1>8 DEF Log!Next

LEMMA LogsPromise == LogsInv => Log!LogsAreKept
<1> SUFFICES ASSUME LogsInv PROVE Log!DefaultIsOpen /\ (~ logStale => Log!LinesKept /\ Log!WithinSize)
  BY DEF Log!LogsAreKept
<1>1. Log!DefaultIsOpen
  BY DEF LogsInv, DefaultInv, Log!DefaultIsOpen
<1>2. ASSUME ~ logStale PROVE Log!LinesKept /\ Log!WithinSize
  <2> DEFINE d == logDisk
             n == Len(logLines)
  <2>1. Placed(d) /\ Filled(d, n) /\ Pruned(d) /\ n \in Nat /\ d.files \in Seq(FileType) /\ Len(d.files) \in Nat
    BY <1>2 DEF LogsInv, DiskInv, DiskType
  <2>2. Log!Kept \cup d.removed = FilesOf(d)
    BY <2>1 DEF Placed, Log!Kept, FilesOf, Latest
  <2>3. UNION {Log!NumbersIn(f) : f \in Log!Kept \cup d.removed} = 1..n
    <3>1. \A f \in FilesOf(d) : Log!NumbersIn(f) \subseteq 1..n
      BY <2>1 DEF Filled, Log!NumbersIn
    <3>2. \A l \in 1..n : \E f \in FilesOf(d) : l \in Log!NumbersIn(f)
      BY <2>1 DEF Filled, Log!NumbersIn
    <3> QED
      BY <2>2, <3>1, <3>2
  <2>4. \A f \in d.removed, g \in Log!Kept : f < g /\ f \in FilesOf(d) /\ g \in FilesOf(d)
    <3>1. \A f \in d.removed : f \in FilesOf(d) /\ f # d.active
      BY <2>1 DEF Placed
    <3> QED
      BY <2>1, <2>2, <3>1 DEF Placed, Pruned, Log!Kept, FilesOf, Latest
  <2>5. \A f \in d.removed, g \in Log!Kept : \A l \in Log!NumbersIn(f), m \in Log!NumbersIn(g) : l < m
    BY <2>1, <2>4 DEF Filled, Log!NumbersIn
  <2>6. d.removed # {} => Log!Cardinality(d.archives) >= MaxBackups
    BY <2>1, LogCardinality DEF Pruned
  <2>7. Log!WithinSize
    BY <2>1 DEF Filled, Log!WithinSize, Log!NumbersIn, FilesOf
  <2> QED
    BY <2>3, <2>5, <2>6, <2>7 DEF Log!LinesKept
<1> QED
  BY <1>1, <1>2
-----------------------------------------------------------------------------
\* Logs are kept, whatever is refused and installed (LogsAreKept): the default logger is never
\* one of a closed runtime, and while no logger outlives its runtime a line that was written
\* stays until MaxBackups later files are kept, in files within MaxBytes, for any runtimes,
\* sizes of lines and limits.
THEOREM LogsStay == Spec => []LogsAreKept
<1> DEFINE Inv == subject = "logs" => LogsInv
<1>1. Init => Inv
  BY LogsInitially DEF Init
<1>2. Inv /\ [Next]_vars => Inv'
  <2>1. ASSUME subject' = "logs", [Next]_vars
        PROVE  subject = "logs" /\ [Log!Next]_logsVars
    BY <2>1 DEF Next, vars, OfLane, OfTerminal, OfGuard, OfFiles, OfProcesses, OfMcp, OfAgents,
        OfNodes, OfStream, OfScheduler, OfStreams, OfLogs
  <2> QED
    BY <2>1, LogsStep
<1>3. Inv => LogsAreKept
  BY LogsPromise DEF LogsAreKept
<1> QED
  BY <1>1, <1>2, <1>3, PTL DEF Spec

-----------------------------------------------------------------------------
(* ToolGuard: the loop guard, with the calls of a parallel segment.                             *)

CallType    == Guard!Requests \cup {Guard!NoCall}
OutcomeType == [kind : {"same", "news", "passing", "blocked", "unknown"}, count : Nat]
StageType   == {"idle", "repeated?", "alternating?", "run", "wait", "over"}
RecordType  == [call : CallType, outcome : OutcomeType]

GuardTypeOK ==
  /\ cfg \in GuardConfigs
  /\ history \in Seq(RecordType)
  /\ stage \in [Slots -> StageType] /\ call \in [Slots -> CallType] /\ outcome \in [Slots -> OutcomeType]

\* The slots whose call the guard has let pass, and which will be remembered as not blocked.
Past(c) ==
  {s \in Slots : /\ call[s] = c
                 /\ \/ stage[s] \in {"alternating?", "run", "wait"}
                    \/ stage[s] = "over" /\ outcome[s].kind # "blocked"}

\* What is remembered of a call and what has passed the guard stay together within the bound.
StreakHeld(c) ==
  /\ Past(c) # {} => cfg.block >= 2
  /\ \A i \in Guard!LatestAlike(c) : history[i].outcome.kind # "blocked" =>
       Cardinality(Guard!LatestAlike(c)) + Cardinality(Past(c)) <= cfg.block - 2 + Cardinality(Slots)
StreaksInv == cfg.enabled => \A c \in CallType : StreakHeld(c)

GuardInv == GuardTypeOK /\ StreaksInv

-----------------------------------------------------------------------------
\* The latest records of a call that are alike, in any history.
Alike(h, c) ==
  {i \in 1..Len(h) : /\ h[i].call = c
                     /\ \A j \in 1..Len(h) : h[j].call = c /\ j > i => h[j].outcome = h[i].outcome}

LEMMA GuardCardinality == \A S : Guard!Cardinality(S) = Cardinality(S)
BY DEF Guard!Cardinality, Cardinality

LEMMA AlikeIsFinite ==
  ASSUME NEW h, Len(h) \in Nat, NEW c
  PROVE  IsFiniteSet(Alike(h, c)) /\ Cardinality(Alike(h, c)) \in Nat
<1>1. IsFiniteSet(1..Len(h)) /\ Alike(h, c) \subseteq 1..Len(h)
  BY FS_Interval DEF Alike
<1> QED
  BY <1>1, FS_Subset, FS_CardinalityType

LEMMA LatestIsAlike ==
  ASSUME GuardTypeOK
  PROVE  \A c : Guard!LatestAlike(c) = Alike(history, c)
BY DEF GuardTypeOK, Guard!LatestAlike, Guard!RecordsOf, Alike

\* What leaves the history at its old end leaves the streaks' latest parts.
LEMMA CutAlike ==
  ASSUME NEW h \in Seq(RecordType), NEW k \in 0..Len(h), NEW g \in Seq(RecordType), NEW c,
         Len(g) = Len(h) - k, \A i \in 1..Len(g) : g[i] = h[i + k]
  PROVE  /\ Cardinality(Alike(g, c)) <= Cardinality(Alike(h, c))
         /\ \A i \in Alike(g, c) : \E j \in Alike(h, c) : h[j] = g[i]
<1> DEFINE A == Alike(g, c)
           B == Alike(h, c)
           f == [i \in A |-> i + k]
<1>1. /\ Len(g) = Len(h) - k /\ Len(h) \in Nat /\ Len(g) \in Nat /\ k \in Nat
      /\ \A i \in 1..Len(g) : g[i] = h[i + k]
  OBVIOUS
<1>2. ASSUME NEW i \in A PROVE i \in Nat /\ i + k \in B /\ h[i + k] = g[i]
  <2>1. i \in 1..Len(g) /\ g[i].call = c /\ \A j \in 1..Len(g) : g[j].call = c /\ j > i => g[j].outcome = g[i].outcome
    BY DEF Alike
  <2>2. ASSUME NEW j \in 1..Len(h), h[j].call = c, j > i + k PROVE h[j].outcome = h[i + k].outcome
    <3>1. j - k \in 1..Len(g) /\ j - k > i /\ (j - k) + k = j
      BY <1>1, <2>1, <2>2
    <3>2. g[j - k] = h[j] /\ g[i] = h[i + k]
      BY <1>1, <2>1, <3>1
    <3> QED
      BY <2>1, <2>2, <3>1, <3>2
  <2>3. i + k \in 1..Len(h) /\ h[i + k] = g[i] /\ i \in Nat
    BY <1>1, <2>1
  <2> QED
    BY <2>1, <2>2, <2>3 DEF Alike
<1>3. IsFiniteSet(B) /\ IsFiniteSet(A)
  BY <1>1, AlikeIsFinite
<1>4. f \in Injection(A, B)
  <2> HIDE DEF A, B
  <2>1. f \in [A -> B]
    BY <1>2
  <2>2. \A a, b \in A : f[a] = f[b] => a = b
    BY <1>1, <1>2
  <2> QED
    BY <2>1, <2>2 DEF Injection, IsInjective
<1>5. Cardinality(A) <= Cardinality(B)
  <2> HIDE DEF A, B, f
  <2> QED
    BY <1>3, <1>4, FS_Injection
<1> QED
  BY <1>1, <1>2, <1>5

\* A record that is added makes the streak of its own call longer by one, or begins it anew.
LEMMA AddAlike ==
  ASSUME NEW h \in Seq(RecordType), NEW r \in RecordType, NEW g \in Seq(RecordType), NEW c,
         Len(g) = Len(h) + 1, g[Len(h) + 1] = r, \A i \in 1..Len(h) : g[i] = h[i]
  PROVE  /\ r.call # c => /\ Cardinality(Alike(g, c)) <= Cardinality(Alike(h, c))
                          /\ \A i \in Alike(g, c) : i \in Alike(h, c) /\ h[i] = g[i]
         /\ r.call = c =>
              /\ \A i \in Alike(g, c) : g[i].outcome = r.outcome
              /\ \/ Cardinality(Alike(g, c)) <= 1
                 \/ /\ Cardinality(Alike(g, c)) <= Cardinality(Alike(h, c)) + 1
                    /\ \E i \in Alike(h, c) : h[i].outcome = r.outcome
<1> DEFINE A == Alike(g, c)
           B == Alike(h, c)
           n == Len(h) + 1
<1>1. /\ Len(g) = n /\ Len(h) \in Nat /\ n \in Nat /\ g[n] = r
      /\ \A i \in 1..Len(h) : g[i] = h[i]
  OBVIOUS
<1>2. IsFiniteSet(A) /\ IsFiniteSet(B) /\ Cardinality(A) \in Nat /\ Cardinality(B) \in Nat
  BY <1>1, AlikeIsFinite
<1>3. ASSUME NEW i \in A, i # n PROVE i \in B /\ h[i] = g[i]
  <2>1. i \in 1..Len(h)
    BY <1>1, <1>3 DEF Alike
  <2>2. \A j \in 1..Len(h) : j \in 1..Len(g)
    BY <1>1
  <2> QED
    BY <1>1, <2>1, <2>2 DEF Alike
<1>4. CASE r.call # c
  <2>1. A \subseteq B /\ \A i \in A : h[i] = g[i]
    BY <1>1, <1>3, <1>4 DEF Alike
  <2>2. Cardinality(A) <= Cardinality(B)
    BY <1>2, <2>1, FS_Subset
  <2> QED
    BY <1>4, <2>1, <2>2
<1>5. CASE r.call = c
  <2>1. \A i \in A : g[i].outcome = r.outcome
    BY <1>1, <1>5 DEF Alike
  <2>2. CASE A \subseteq {n}
    <3>1. Cardinality(A) <= 1
      <4> HIDE DEF A, n
      <4>1. IsFiniteSet({n}) /\ Cardinality({n}) = 1
        BY FS_Singleton
      <4> QED
        BY <2>2, <4>1, FS_Subset
    <3> QED
      BY <1>5, <2>1, <3>1
  <2>3. CASE ~ (A \subseteq {n})
    <3>1. PICK i \in A : i # n
      BY <2>3
    <3>2. i \in B /\ h[i].outcome = r.outcome
      BY <1>3, <2>1, <3>1
    <3>3. A \subseteq B \cup {n}
      BY <1>3
    <3>4. Cardinality(A) <= Cardinality(B) + 1
      <4> HIDE DEF A, B, n
      <4>1. IsFiniteSet(B \cup {n}) /\ Cardinality(B \cup {n}) <= Cardinality(B) + 1
        <5>1. IsFiniteSet(B) /\ Cardinality(B) \in Nat
          BY <1>2
        <5>2. /\ IsFiniteSet(B \cup {n})
              /\ Cardinality(B \cup {n}) = IF n \in B THEN Cardinality(B) ELSE Cardinality(B) + 1
          BY <5>1, FS_AddElement
        <5> QED
          BY <5>1, <5>2
      <4>2. Cardinality(A) <= Cardinality(B \cup {n}) /\ Cardinality(B \cup {n}) \in Nat
        BY <3>3, <4>1, FS_Subset, FS_CardinalityType
      <4> QED
        BY <1>2, <4>1, <4>2
    <3> QED
      BY <1>5, <2>1, <3>2, <3>4
  <2> QED
    BY <2>2, <2>3
<1> QED
  BY <1>4, <1>5

\* The same of a history cut to its limit (Recorded).
LEMMA RecordedAlike ==
  ASSUME GuardTypeOK, NEW r \in RecordType, NEW c, NEW g, g = Guard!Recorded(history, r)
  PROVE  /\ g \in Seq(RecordType)
         /\ r.call # c => /\ Cardinality(Alike(g, c)) <= Cardinality(Alike(history, c))
                          /\ \A i \in Alike(g, c) : \E j \in Alike(history, c) : history[j] = g[i]
         /\ r.call = c =>
              /\ \A i \in Alike(g, c) : g[i].outcome = r.outcome
              /\ \/ Cardinality(Alike(g, c)) <= 1
                 \/ /\ Cardinality(Alike(g, c)) <= Cardinality(Alike(history, c)) + 1
                    /\ \E i \in Alike(history, c) : history[i].outcome = r.outcome
<1>1. history \in Seq(RecordType) /\ cfg.history \in Nat \ {0} /\ Len(history) \in Nat
  BY GuardAssumption DEF GuardTypeOK
<1>2. PICK h : h = Append(history, r)
  OBVIOUS
<1>3. /\ h \in Seq(RecordType) /\ Len(h) = Len(history) + 1 /\ h[Len(history) + 1] = r
      /\ \A i \in 1..Len(history) : h[i] = history[i]
  BY <1>1, <1>2, AppendProperties
<1>4. Len(h) \in Nat /\ Cardinality(Alike(h, c)) \in Nat /\ Cardinality(Alike(history, c)) \in Nat
  BY <1>1, <1>3, AlikeIsFinite
<1>5. /\ Len(h) > cfg.history => g = SubSeq(h, Len(h) - cfg.history + 1, Len(h))
      /\ ~ (Len(h) > cfg.history) => g = h
  BY <1>2 DEF Guard!Recorded
<1>6. /\ g \in Seq(RecordType) /\ Cardinality(Alike(g, c)) <= Cardinality(Alike(h, c))
      /\ \A i \in Alike(g, c) : \E j \in Alike(h, c) : h[j] = g[i]
      /\ Cardinality(Alike(g, c)) \in Nat
  <2>1. CASE Len(h) > cfg.history
    <3>1. PICK k : k = Len(h) - cfg.history
      OBVIOUS
    <3>2. k \in 0..Len(h) /\ k + 1 = Len(h) - cfg.history + 1
      BY <1>1, <1>4, <2>1, <3>1
    <3>3. g = SubSeq(h, k + 1, Len(h))
      BY <1>5, <2>1, <3>2
    <3>4. g \in Seq(RecordType) /\ Len(g) = Len(h) - k /\ \A i \in 1..Len(g) : g[i] = h[i + k]
      BY <1>3, <1>4, <3>2, <3>3, SubSeqProperties
    <3>5. /\ Cardinality(Alike(g, c)) <= Cardinality(Alike(h, c))
          /\ \A i \in Alike(g, c) : \E j \in Alike(h, c) : h[j] = g[i]
      <4>1. h \in Seq(RecordType) /\ k \in 0..Len(h)
        BY <1>3, <3>2
      <4> QED
        BY <3>4, <4>1, CutAlike
    <3>6. Cardinality(Alike(g, c)) \in Nat
      BY <3>4, AlikeIsFinite
    <3> QED
      BY <3>4, <3>5, <3>6
  <2>2. CASE ~ (Len(h) > cfg.history)
    <3>1. g = h
      BY <1>5, <2>2
    <3> QED
      BY <1>3, <1>4, <3>1
  <2> QED
    BY <2>1, <2>2
<1>7. /\ r.call # c => /\ Cardinality(Alike(h, c)) <= Cardinality(Alike(history, c))
                       /\ \A i \in Alike(h, c) : i \in Alike(history, c) /\ history[i] = h[i]
      /\ r.call = c =>
           /\ \A i \in Alike(h, c) : h[i].outcome = r.outcome
           /\ \/ Cardinality(Alike(h, c)) <= 1
              \/ /\ Cardinality(Alike(h, c)) <= Cardinality(Alike(history, c)) + 1
                 /\ \E i \in Alike(history, c) : history[i].outcome = r.outcome
  BY <1>1, <1>3, AddAlike
<1>8. CASE r.call # c
  <2>1. Cardinality(Alike(g, c)) <= Cardinality(Alike(history, c))
    BY <1>4, <1>6, <1>7, <1>8
  <2>2. \A i \in Alike(g, c) : \E j \in Alike(history, c) : history[j] = g[i]
    BY <1>6, <1>7, <1>8
  <2> QED
    BY <1>6, <1>8, <2>1, <2>2
<1>9. CASE r.call = c
  <2>1. \A i \in Alike(g, c) : g[i].outcome = r.outcome
    BY <1>6, <1>7, <1>9
  <2>2. \/ Cardinality(Alike(g, c)) <= 1
        \/ /\ Cardinality(Alike(g, c)) <= Cardinality(Alike(history, c)) + 1
           /\ \E i \in Alike(history, c) : history[i].outcome = r.outcome
    BY <1>4, <1>6, <1>7, <1>9
  <2> QED
    BY <1>6, <1>9, <2>1, <2>2
<1> QED
  BY <1>8, <1>9

-----------------------------------------------------------------------------
LEMMA PastIsFinite ==
  \A c : /\ IsFiniteSet(Slots) /\ Cardinality(Slots) \in Nat
         /\ IsFiniteSet(Past(c)) /\ Past(c) \subseteq Slots /\ Cardinality(Past(c)) \in Nat
         /\ Cardinality(Past(c)) <= Cardinality(Slots)
BY GuardAssumption, FS_Subset, FS_CardinalityType DEF Past

\* The streaks have numbers (the greatest of a bounded set of numbers is one).
LEMMA GreatestIsNat ==
  ASSUME NEW n \in Nat, NEW T \in SUBSET (0..n)
  PROVE  Guard!Max0(T) \in Nat
<1> DEFINE U == T \cup {0}
           V == {n - x : x \in U}
<1>1. V \subseteq Nat /\ V # {}
  OBVIOUS
<1>2. PICK m \in V : \A k \in V : m <= k
  BY <1>1, LeastOf
<1>3. PICK x \in U : m = n - x
  BY <1>2
<1>4. \A y \in U : y <= x
  <2> TAKE y \in U
  <2>1. n - x <= n - y
    BY <1>2, <1>3
  <2> QED
    BY <2>1
<1>5. Guard!Max0(T) \in U
  BY <1>3, <1>4 DEF Guard!Max0
<1> QED
  <2>1. U \subseteq Nat
    OBVIOUS
  <2> HIDE DEF U
  <2> QED
    BY <1>5, <2>1

LEMMA StreaksAreNat ==
  ASSUME GuardTypeOK, NEW c
  PROVE  Guard!NoProgressStreak(c) = Cardinality(Alike(history, c)) /\ Guard!NoProgressStreak(c) \in Nat /\ Guard!PingPongStreak(c) \in Nat
<1>1. Len(history) \in Nat
  BY DEF GuardTypeOK
<1>2. Guard!NoProgressStreak(c) = Cardinality(Alike(history, c))
  BY LatestIsAlike, GuardCardinality DEF Guard!NoProgressStreak
<1>3. Guard!AltCount \in Nat
  <2> DEFINE T == {n \in 1..Len(history) : Guard!Alternate(n)}
  <2>1. T \in SUBSET (0..Len(history))
    BY <1>1
  <2> HIDE DEF T
  <2>2. Guard!Max0(T) \in Nat
    BY <1>1, <2>1, GreatestIsNat
  <2> QED
    BY <2>2 DEF T, Guard!AltCount
<1> QED
  BY <1>1, <1>2, <1>3, AlikeIsFinite DEF Guard!PingPongStreak

-----------------------------------------------------------------------------
LEMMA GuardTypes ==
  ASSUME GuardTypeOK, [Guard!Next]_guardVars
  PROVE  GuardTypeOK'
<1> USE DEF GuardTypeOK
<1>1. /\ Guard!Unknown \in OutcomeType /\ Guard!Outcomes \subseteq OutcomeType
      /\ \A n \in Nat : Guard!Blocked(n) \in OutcomeType
  BY DEF OutcomeType, Guard!Unknown, Guard!Outcomes, Guard!Outcome, Guard!Blocked
<1>2. CASE \E chosen \in SUBSET Slots : Guard!Segment(chosen)
  <2>1. PICK chosen \in SUBSET Slots : Guard!Segment(chosen)
    BY <1>2
  <2>2. PICK requests \in [chosen -> Guard!Requests] :
          /\ call' = [s \in Slots |-> IF s \in chosen THEN Guard!Repaired(requests[s]) ELSE Guard!NoCall]
          /\ stage' = [s \in Slots |-> IF s \notin chosen THEN "idle"
                                       ELSE IF cfg.enabled THEN "repeated?" ELSE "run"]
    BY <2>1 DEF Guard!Segment
  <2>3. \A q \in Guard!Requests : Guard!Repaired(q) \in CallType
    BY DEF Guard!Repaired, Guard!Requests, CallType
  <2>4. call' \in [Slots -> CallType]
    BY <2>2, <2>3 DEF CallType
  <2>5. stage' \in [Slots -> StageType]
    BY <2>2 DEF StageType
  <2> QED
    BY <2>1, <2>4, <2>5 DEF Guard!Segment
<1>3. ASSUME NEW s \in Slots, Guard!LookForRepeat(s) PROVE GuardTypeOK'
  <2>1. Guard!Blocked(Guard!NoProgressStreak(call[s]) + 1) \in OutcomeType
    BY <1>1, StreaksAreNat
  <2> QED
    BY <1>3, <2>1 DEF Guard!LookForRepeat, Guard!Block, StageType
<1>4. ASSUME NEW s \in Slots, Guard!LookForPingPong(s) PROVE GuardTypeOK'
  <2>1. Guard!Blocked(Guard!PingPongStreak(call[s])) \in OutcomeType
    BY <1>1, StreaksAreNat
  <2> QED
    BY <1>4, <2>1 DEF Guard!LookForPingPong, Guard!Block, StageType
<1>5. ASSUME NEW s \in Slots, Guard!Execute(s) PROVE GuardTypeOK'
  BY <1>1, <1>5 DEF Guard!Execute, StageType
<1>6. ASSUME NEW s \in Slots, Guard!WaitForToolRetry(s) PROVE GuardTypeOK'
  BY <1>6 DEF Guard!WaitForToolRetry, StageType
<1>7. ASSUME NEW s \in Slots, Guard!Record(s) PROVE GuardTypeOK'
  <2>1. PICK r : r = [call |-> call[s], outcome |-> outcome[s]]
    OBVIOUS
  <2>2. r \in RecordType
    BY <2>1 DEF RecordType
  <2>3. history' \in Seq(RecordType)
    BY <1>7, <2>1, <2>2, RecordedAlike DEF Guard!Record
  <2>4. /\ cfg' = cfg /\ stage' = [stage EXCEPT ![s] = "idle"] /\ call' = [call EXCEPT ![s] = Guard!NoCall]
        /\ outcome' = [outcome EXCEPT ![s] = Guard!Unknown]
    BY <1>7 DEF Guard!Record
  <2> QED
    BY <1>1, <2>3, <2>4 DEF CallType, StageType
<1>8. CASE Guard!RunCancelled \/ UNCHANGED guardVars
  BY <1>8 DEF Guard!RunCancelled, guardVars
<1> QED
  BY <1>2, <1>3, <1>4, <1>5, <1>6, <1>7, <1>8 DEF Guard!Next

LEMMA StreakNumbers ==
  ASSUME GuardTypeOK, NEW c
  PROVE  /\ Cardinality(Guard!LatestAlike(c)) \in Nat /\ Cardinality(Past(c)) \in Nat
         /\ cfg.block \in Nat /\ Cardinality(Slots) \in Nat /\ Cardinality(Past(c)) <= Cardinality(Slots)
<1>1. Len(history) \in Nat
  BY DEF GuardTypeOK
<1>2. Cardinality(Guard!LatestAlike(c)) \in Nat
  BY <1>1, LatestIsAlike, AlikeIsFinite
<1>3. cfg.block \in Nat
  BY GuardAssumption DEF GuardTypeOK
<1> QED
  BY <1>2, <1>3, PastIsFinite

\* What lets no call pass and remembers nothing keeps a streak within the bound.
LEMMA CalmStep ==
  ASSUME GuardTypeOK, NEW c, StreakHeld(c), UNCHANGED <<cfg, history>>, Past(c)' \subseteq Past(c)
  PROVE  StreakHeld(c)'
<1>1. Guard!LatestAlike(c)' = Guard!LatestAlike(c)
  BY DEF Guard!LatestAlike, Guard!RecordsOf
<1>2. Cardinality(Past(c)') <= Cardinality(Past(c)) /\ Cardinality(Past(c)') \in Nat
  BY PastIsFinite, FS_Subset, FS_CardinalityType
<1>3. /\ Cardinality(Guard!LatestAlike(c)) \in Nat /\ Cardinality(Past(c)) \in Nat
      /\ cfg.block \in Nat /\ Cardinality(Slots) \in Nat
  BY StreakNumbers
<1> QED
  BY <1>1, <1>2, <1>3 DEF StreakHeld

LEMMA LookStep ==
  ASSUME GuardTypeOK, NEW s \in Slots, Guard!LookForRepeat(s), NEW c, StreakHeld(c)
  PROVE  StreakHeld(c)'
<1>1. stage[s] = "repeated?" /\ UNCHANGED <<cfg, history, call>>
  BY DEF Guard!LookForRepeat
<1>2. CASE Guard!Repeats(s)
  <2>1. /\ outcome' = [outcome EXCEPT ![s] = Guard!Blocked(Guard!NoProgressStreak(call[s]) + 1)]
        /\ stage' = [stage EXCEPT ![s] = "over"]
    BY <1>2 DEF Guard!LookForRepeat, Guard!Block
  <2>2. Past(c)' \subseteq Past(c)
    BY <1>1, <2>1 DEF Past, GuardTypeOK, Guard!Blocked
  <2> QED
    BY <1>1, <2>2, CalmStep
<1>3. CASE ~ Guard!Repeats(s)
  <2>1. stage' = [stage EXCEPT ![s] = "alternating?"] /\ outcome' = outcome
    BY <1>3 DEF Guard!LookForRepeat
  <2>2. CASE c # call[s]
    <3>1. Past(c)' \subseteq Past(c)
      BY <1>1, <2>1, <2>2 DEF Past, GuardTypeOK
    <3> QED
      BY <1>1, <3>1, CalmStep
  <2>3. CASE c = call[s]
    <3>1. Guard!NoProgressStreak(c) = Cardinality(Guard!LatestAlike(c))
      BY GuardCardinality DEF Guard!NoProgressStreak
    <3>2. /\ Cardinality(Guard!LatestAlike(c)) \in Nat /\ cfg.block \in Nat
          /\ ~ (Cardinality(Guard!LatestAlike(c)) + 1 >= cfg.block)
      BY <1>3, <2>3, <3>1, StreakNumbers DEF Guard!Repeats
    <3>3. Guard!LatestAlike(c)' = Guard!LatestAlike(c)
      BY <1>1 DEF Guard!LatestAlike, Guard!RecordsOf
    <3>4. /\ Cardinality(Past(c)') <= Cardinality(Slots) /\ Cardinality(Past(c)') \in Nat /\ Cardinality(Slots) \in Nat
      <4>1. Past(c)' \subseteq Slots
        BY DEF Past
      <4> QED
        BY <4>1, PastIsFinite, FS_Subset, FS_CardinalityType
    <3> QED
      BY <1>1, <3>2, <3>3, <3>4 DEF StreakHeld
  <2> QED
    BY <2>2, <2>3
<1> QED
  BY <1>2, <1>3

LEMMA RecordStep ==
  ASSUME GuardTypeOK, GuardTypeOK', NEW s \in Slots, Guard!Record(s), NEW c, StreakHeld(c)
  PROVE  StreakHeld(c)'
<1>1. PICK r : r = [call |-> call[s], outcome |-> outcome[s]]
  OBVIOUS
<1>2. r \in RecordType /\ r.call = call[s] /\ r.outcome = outcome[s]
  BY <1>1 DEF RecordType, GuardTypeOK
<1>3. PICK g : g = Guard!Recorded(history, r)
  OBVIOUS
<1>4. /\ stage[s] = "over" /\ cfg' = cfg /\ history' = g
      /\ stage' = [stage EXCEPT ![s] = "idle"] /\ call' = [call EXCEPT ![s] = Guard!NoCall]
      /\ outcome' = [outcome EXCEPT ![s] = Guard!Unknown]
  BY <1>1, <1>3 DEF Guard!Record
<1>5. /\ Cardinality(Alike(g, c)) \in Nat /\ Guard!LatestAlike(c)' = Alike(g, c)
      /\ Cardinality(Alike(history, c)) \in Nat /\ Guard!LatestAlike(c) = Alike(history, c)
  <2>1. Len(history) \in Nat /\ Len(g) \in Nat
    BY <1>4 DEF GuardTypeOK
  <2>2. Guard!LatestAlike(c)' = Alike(g, c)
    BY <1>4 DEF GuardTypeOK, Guard!LatestAlike, Guard!RecordsOf, Alike
  <2> QED
    BY <2>1, <2>2, LatestIsAlike, AlikeIsFinite
<1>6. /\ r.call # c => /\ Cardinality(Alike(g, c)) <= Cardinality(Alike(history, c))
                       /\ \A i \in Alike(g, c) : \E j \in Alike(history, c) : history[j] = g[i]
      /\ r.call = c =>
           /\ \A i \in Alike(g, c) : g[i].outcome = r.outcome
           /\ \/ Cardinality(Alike(g, c)) <= 1
              \/ /\ Cardinality(Alike(g, c)) <= Cardinality(Alike(history, c)) + 1
                 /\ \E i \in Alike(history, c) : history[i].outcome = r.outcome
  BY <1>2, <1>3, RecordedAlike
<1>7. /\ Past(c)' \subseteq Past(c) \ {s} /\ IsFiniteSet(Past(c)) /\ IsFiniteSet(Past(c) \ {s})
      /\ Cardinality(Past(c)') <= Cardinality(Past(c) \ {s}) /\ Cardinality(Past(c)') \in Nat
      /\ Cardinality(Past(c) \ {s}) = IF s \in Past(c) THEN Cardinality(Past(c)) - 1 ELSE Cardinality(Past(c))
  <2>1. Past(c)' \subseteq Past(c) \ {s}
    BY <1>4 DEF Past, GuardTypeOK
  <2>2. IsFiniteSet(Past(c))
    BY PastIsFinite
  <2>3. IsFiniteSet(Past(c) \ {s})
        /\ Cardinality(Past(c) \ {s}) = IF s \in Past(c) THEN Cardinality(Past(c)) - 1 ELSE Cardinality(Past(c))
    BY <2>2, FS_RemoveElement
  <2>4. Cardinality(Past(c)') <= Cardinality(Past(c) \ {s}) /\ Cardinality(Past(c)') \in Nat
    BY <2>1, <2>3, FS_Subset, FS_CardinalityType
  <2> QED
    BY <2>1, <2>2, <2>3, <2>4
<1>8. /\ Cardinality(Past(c)) \in Nat /\ cfg.block \in Nat /\ Cardinality(Slots) \in Nat
      /\ Cardinality(Past(c)) <= Cardinality(Slots)
  BY StreakNumbers
<1>9. Past(c)' # {} => cfg'.block >= 2
  BY <1>4, <1>7 DEF StreakHeld
<1>10. ASSUME NEW i \in Alike(g, c), g[i].outcome.kind # "blocked"
       PROVE  Cardinality(Alike(g, c)) + Cardinality(Past(c)') <= cfg.block - 2 + Cardinality(Slots)
  <2>1. \A j \in Alike(history, c) : history[j].outcome.kind # "blocked" =>
          Cardinality(Alike(history, c)) + Cardinality(Past(c)) <= cfg.block - 2 + Cardinality(Slots)
    BY <1>5 DEF StreakHeld
  <2>2. CASE r.call # c
    <3>1. PICK j \in Alike(history, c) : history[j] = g[i]
      BY <1>6, <1>10, <2>2
    <3>2. Cardinality(Alike(history, c)) + Cardinality(Past(c)) <= cfg.block - 2 + Cardinality(Slots)
      BY <1>10, <2>1, <3>1
    <3>3. Cardinality(Alike(g, c)) <= Cardinality(Alike(history, c))
      BY <1>6, <2>2
    <3> QED
      BY <1>5, <1>7, <1>8, <3>2, <3>3
  <2>3. CASE r.call = c
    <3>1. g[i].outcome = r.outcome /\ r.outcome.kind # "blocked"
      BY <1>6, <1>10, <2>3
    <3>2. s \in Past(c)
      BY <1>2, <1>4, <2>3, <3>1 DEF Past
    <3>3. Cardinality(Past(c)') <= Cardinality(Past(c)) - 1 /\ cfg.block >= 2
      BY <1>7, <3>2 DEF StreakHeld
    <3>4. CASE Cardinality(Alike(g, c)) <= 1
      BY <1>5, <1>7, <1>8, <3>3, <3>4
    <3>5. CASE /\ Cardinality(Alike(g, c)) <= Cardinality(Alike(history, c)) + 1
               /\ \E j \in Alike(history, c) : history[j].outcome = r.outcome
      <4>1. Cardinality(Alike(history, c)) + Cardinality(Past(c)) <= cfg.block - 2 + Cardinality(Slots)
        BY <2>1, <3>1, <3>5
      <4> QED
        BY <1>5, <1>7, <1>8, <3>3, <3>5, <4>1
    <3> QED
      BY <1>6, <2>3, <3>4, <3>5
  <2> QED
    BY <2>2, <2>3
<1> QED
  BY <1>4, <1>5, <1>9, <1>10 DEF StreakHeld

LEMMA GuardStep ==
  ASSUME GuardInv, [Guard!Next]_guardVars
  PROVE  GuardInv'
<1>1. GuardTypeOK /\ GuardTypeOK'
  BY GuardTypes DEF GuardInv
<1>2. cfg' = cfg
  BY DEF Guard!Next, Guard!Segment, Guard!LookForRepeat, Guard!LookForPingPong, Guard!Execute,
         Guard!WaitForToolRetry, Guard!Record, Guard!RunCancelled, guardVars
<1>3. SUFFICES ASSUME cfg.enabled, NEW c \in CallType, StreakHeld(c)
               PROVE  StreakHeld(c)'
  BY <1>1, <1>2 DEF GuardInv, StreaksInv
<1>4. ASSUME NEW chosen \in SUBSET Slots, Guard!Segment(chosen) PROVE StreakHeld(c)'
  <2>1. /\ UNCHANGED <<cfg, history>>
        /\ stage' = [s \in Slots |-> IF s \notin chosen THEN "idle"
                                     ELSE IF cfg.enabled THEN "repeated?" ELSE "run"]
    BY <1>4 DEF Guard!Segment
  <2>2. Past(c)' \subseteq Past(c)
    BY <1>3, <2>1 DEF Past
  <2> QED
    BY <1>1, <1>3, <2>1, <2>2, CalmStep
<1>5. ASSUME NEW s \in Slots, Guard!LookForPingPong(s) PROVE StreakHeld(c)'
  <2>1. stage[s] = "alternating?" /\ UNCHANGED <<cfg, history, call>>
    BY <1>5 DEF Guard!LookForPingPong
  <2>2. \/ /\ outcome' = [outcome EXCEPT ![s] = Guard!Blocked(Guard!PingPongStreak(call[s]))]
           /\ stage' = [stage EXCEPT ![s] = "over"]
        \/ stage' = [stage EXCEPT ![s] = "run"] /\ outcome' = outcome
    BY <1>5 DEF Guard!LookForPingPong, Guard!Block
  <2>3. Past(c)' \subseteq Past(c)
    BY <1>1, <2>1, <2>2 DEF Past, GuardTypeOK, Guard!Blocked
  <2> QED
    BY <1>1, <1>3, <2>1, <2>3, CalmStep
<1>6. ASSUME NEW s \in Slots, Guard!Execute(s) PROVE StreakHeld(c)'
  <2>1. stage[s] = "run" /\ UNCHANGED <<cfg, history, call>>
    BY <1>6 DEF Guard!Execute
  <2>2. \A t \in Slots \ {s} : stage'[t] = stage[t] /\ outcome'[t] = outcome[t]
    BY <1>1, <1>6 DEF Guard!Execute, GuardTypeOK
  <2>3. Past(c)' \subseteq Past(c)
    BY <2>1, <2>2 DEF Past
  <2> QED
    BY <1>1, <1>3, <2>1, <2>3, CalmStep
<1>7. ASSUME NEW s \in Slots, Guard!WaitForToolRetry(s) PROVE StreakHeld(c)'
  <2>1. stage[s] = "wait" /\ UNCHANGED <<cfg, history, call, outcome>>
    BY <1>7 DEF Guard!WaitForToolRetry
  <2>2. \A t \in Slots \ {s} : stage'[t] = stage[t]
    BY <1>1, <1>7 DEF Guard!WaitForToolRetry, GuardTypeOK
  <2>3. Past(c)' \subseteq Past(c)
    BY <2>1, <2>2 DEF Past
  <2> QED
    BY <1>1, <1>3, <2>1, <2>3, CalmStep
<1>8. CASE Guard!RunCancelled \/ UNCHANGED guardVars
  <2>1. UNCHANGED <<cfg, history, call, outcome, stage>>
    BY <1>8 DEF Guard!RunCancelled, guardVars
  <2>2. Past(c)' \subseteq Past(c)
    BY <2>1 DEF Past
  <2> QED
    BY <1>1, <1>3, <2>1, <2>2, CalmStep
<1> QED
  BY <1>1, <1>3, <1>4, <1>5, <1>6, <1>7, <1>8, LookStep, RecordStep DEF Guard!Next

LEMMA GuardInitially ==
  ASSUME Guard!Init
  PROVE  GuardInv
<1>1. GuardTypeOK
  BY DEF Guard!Init, GuardTypeOK, CallType, OutcomeType, StageType, Guard!Unknown, Guard!Outcome
<1>2. \A c : Past(c) = {} /\ Guard!LatestAlike(c) = {}
  BY DEF Guard!Init, Past, Guard!LatestAlike, Guard!RecordsOf
<1> QED
  BY <1>1, <1>2 DEF GuardInv, StreaksInv, StreakHeld

LEMMA GuardPromise == GuardInv => Guard!RepeatsAreBounded
<1> SUFFICES ASSUME GuardInv, cfg.enabled, NEW c \in Guard!Requests, NEW i \in Guard!LatestAlike(c),
                    history[i].outcome.kind # "blocked"
             PROVE  Guard!NoProgressStreak(c) <= cfg.block - 1 + Guard!Cardinality(Slots) - 1
  BY DEF Guard!RepeatsAreBounded
<1>1. GuardTypeOK /\ StreakHeld(c)
  BY DEF GuardInv, StreaksInv, CallType
<1>2. Cardinality(Guard!LatestAlike(c)) + Cardinality(Past(c)) <= cfg.block - 2 + Cardinality(Slots)
  BY <1>1 DEF StreakHeld
<1>3. /\ Guard!NoProgressStreak(c) = Cardinality(Guard!LatestAlike(c))
      /\ Guard!Cardinality(Slots) = Cardinality(Slots)
  BY GuardCardinality DEF Guard!NoProgressStreak
<1> QED
  BY <1>1, <1>2, <1>3, StreakNumbers

\* The loop guard's limit holds (RepeatsAreBounded): in what a run remembers no call has the
\* same outcome more often in a row than the limit allows, and one more for each further call
\* of a parallel segment, whatever the model calls, in any order of the looks and records.
THEOREM GuardHolds == Spec => []RepeatsAreBounded
<1> DEFINE Inv == subject = "guard" => GuardInv
<1>1. Init => Inv
  BY GuardInitially DEF Init
<1>2. Inv /\ [Next]_vars => Inv'
  <2>1. ASSUME subject' = "guard", [Next]_vars
        PROVE  subject = "guard" /\ [Guard!Next]_guardVars
    BY <2>1 DEF Next, vars, OfLane, OfTerminal, OfGuard, OfFiles, OfProcesses, OfMcp, OfAgents,
        OfNodes, OfStream, OfScheduler, OfStreams, OfLogs
  <2> QED
    BY <2>1, GuardStep
<1>3. Inv => RepeatsAreBounded
  BY GuardPromise DEF RepeatsAreBounded
<1> QED
  BY <1>1, <1>2, <1>3, PTL DEF Spec
=============================================================================
