----------------------------- MODULE Scheduler ------------------------------
(***************************************************************************)
(* The jobs of a project (internal/runtime/daemon): the cron scheduler,    *)
(* whose jobs a tool or the gateway adds, pauses, resumes, reschedules and *)
(* removes while their goroutines run, the heartbeat, and Bundle.Stop.     *)
(***************************************************************************)
EXTENDS Naturals, Sequences, FiniteSets, SequencesExt

CONSTANTS
  Names,       \* the names jobs may have
  Configured,  \* sequences of names: what a configuration may list
  Schedules,   \* the intervals a job may have; the first one added has "first"
  MaxWorkers,  \* bound on the goroutines started
  MaxAdds,     \* bound on the calls of AddJob
  MaxChanges   \* bound on the other calls

VARIABLES
  jobs,     \* Scheduler.jobs: [name, schedule]
  running,  \* Scheduler.running: name -> [worker, schedule, paused]
  latest,   \* the number of the context that Scheduler.cancel cancels, 0 for none
  stopped,  \* the contexts cancelled by Stop
  workers,  \* the goroutines of runJob: [name, schedule, context, cancelled, at]
  adding,   \* AddJob calls that have added their job and are about to call Start
  beat,     \* the heartbeat goroutine: "waiting", "calling", "ended"
  ending,   \* Bundle.Stop: "no", "waiting" for the jobs, "beating", "done"
  adds, changes

vars == <<jobs, running, latest, stopped, workers, adding, beat, ending, adds, changes>>

Started == DOMAIN running
Live(w) == ~workers[w].cancelled /\ workers[w].context \notin stopped /\ workers[w].at # "ended"

-----------------------------------------------------------------------------
(* What the operations do to the goroutines, kept in a record for the ones that change several.    *)

Current == [running |-> running, workers |-> workers]

\* A goroutine for a job, under a context of its own.
Goroutine(name, schedule, context) ==
  [name |-> name, schedule |-> schedule, context |-> context, cancelled |-> FALSE, at |-> "waiting"]

Spawn(state, name, schedule, context) ==
  [workers |-> Append(state.workers, Goroutine(name, schedule, context)),
   running |-> [n \in DOMAIN state.running \cup {name} |->
                  IF n = name THEN [worker |-> Len(state.workers) + 1, schedule |-> schedule, paused |-> FALSE]
                  ELSE state.running[n]]]

Cancel(state, name) == [state EXCEPT !.workers[state.running[name].worker].cancelled = TRUE]

Becomes(state) == Len(state.workers) <= MaxWorkers /\ running' = state.running /\ workers' = state.workers

\* Scheduler.Start: what is not running is started in the order of the list, under a new context.
Startable == {i \in DOMAIN jobs : /\ jobs[i].name \notin Started
                                  /\ \A k \in 1..(i - 1) : jobs[k].name # jobs[i].name}
InOrder(set) == {s \in UNION {[1..n -> set] : n \in 0..Len(jobs)} :
                   /\ \A i \in set : \E k \in DOMAIN s : s[k] = i
                   /\ \A k, l \in DOMAIN s : k < l => s[k] < s[l]}

StartAll(context) ==
  \E order \in InOrder(Startable) :
    LET Job(k) == jobs[order[k]]
        Of(n) == CHOOSE k \in DOMAIN order : Job(k).name = n IN
    /\ workers' = workers \o [k \in DOMAIN order |-> Goroutine(Job(k).name, Job(k).schedule, context)]
    /\ running' = [n \in Started \cup {jobs[i].name : i \in Startable} |->
                     IF n \in Started THEN running[n]
                     ELSE [worker |-> Len(workers) + Of(n), schedule |-> Job(Of(n)).schedule, paused |-> FALSE]]
    /\ Len(workers') <= MaxWorkers

-----------------------------------------------------------------------------
\* daemon.Start: the heartbeat and the configured jobs.
Init ==
  /\ \E names \in Configured : jobs = [i \in DOMAIN names |-> [name |-> names[i], schedule |-> "first"]]
  /\ running = [n \in {} |-> 0] /\ latest = 0 /\ stopped = {} /\ workers = <<>>
  /\ adding = 0 /\ beat = "waiting" /\ ending = "no" /\ adds = 0 /\ changes = 0

StartConfigured ==
  /\ latest = 0 /\ adding = 0 /\ jobs # <<>>
  /\ latest' = 1 /\ StartAll(1)
  /\ UNCHANGED <<jobs, stopped, adding, beat, ending, adds, changes>>

Ready == latest > 0 \/ jobs = <<>> \/ adding > 0

\* CronSchedulerAdapter.AddJob: Add and Start, which take the lock one after the other.
Add ==
  /\ Ready /\ adds < MaxAdds
  /\ \E n \in Names : jobs' = Append(jobs, [name |-> n, schedule |-> "first"])
  /\ adding' = adding + 1 /\ adds' = adds + 1
  /\ UNCHANGED <<running, latest, stopped, workers, beat, ending, changes>>

StartAdded ==
  /\ adding > 0 /\ adding' = adding - 1
  /\ latest' = latest + 1 /\ StartAll(latest + 1)
  /\ UNCHANGED <<jobs, stopped, beat, ending, adds, changes>>

Changing ==
  /\ Ready /\ changes < MaxChanges /\ changes' = changes + 1
  /\ UNCHANGED <<latest, stopped, adding, beat, ending, adds>>

\* The first job of that name.
Position(name) == CHOOSE i \in DOMAIN jobs : jobs[i].name = name /\ \A k \in 1..(i - 1) : jobs[k].name # name
Listed == {jobs[i].name : i \in DOMAIN jobs}

RemoveJob(name) ==
  /\ Changing /\ name \in Started \cup Listed
  /\ workers' = IF name \in Started THEN Cancel(Current, name).workers ELSE workers
  /\ running' = [n \in Started \ {name} |-> running[n]]
  /\ jobs' = IF name \in Listed THEN RemoveAt(jobs, Position(name)) ELSE jobs

Pause(name) ==
  /\ Changing /\ name \in Started /\ ~running[name].paused
  /\ workers' = Cancel(Current, name).workers
  /\ running' = [running EXCEPT ![name].paused = TRUE]
  /\ UNCHANGED jobs

\* Faulty variant: whether it is paused or not.
Resumable(name) == name \in Started

\* Resume refuses a job that is not paused.
CanResume(name) == name \in Started /\ running[name].paused

Resume(name) ==
  /\ Changing /\ CanResume(name) /\ latest > 0
  /\ Becomes(Spawn(Current, name, running[name].schedule, latest))
  /\ UNCHANGED jobs

\* UpdateSchedule replaces the goroutine of a job that is not paused.
Restart(name, schedule) ==
  IF running[name].paused THEN [Current EXCEPT !.running[name].schedule = schedule]
  ELSE Spawn(Cancel(Current, name), name, schedule, latest)

UpdateSchedule(name, schedule) ==
  /\ Changing /\ name \in Started /\ latest > 0
  /\ Becomes(Restart(name, schedule))
  /\ jobs' = IF name \in Listed THEN [jobs EXCEPT ![Position(name)].schedule = schedule] ELSE jobs

-----------------------------------------------------------------------------
(* The goroutines.                                                                               *)

Moves(w, place) ==
  /\ workers' = [workers EXCEPT ![w].at = place]
  /\ UNCHANGED <<jobs, running, latest, stopped, adding, beat, ending, adds, changes>>

\* The select takes the ticker or the end of the context when both are ready.
Fire(w)   == workers[w].at = "waiting" /\ Moves(w, "calling")
Exit(w)   == workers[w].at = "waiting" /\ ~Live(w) /\ Moves(w, "ended")

\* The run has ended: a failed one under a cancelled context ends the goroutine.
Return(w) == workers[w].at = "calling" /\ (Moves(w, "waiting") \/ (~Live(w) /\ Moves(w, "ended")))

Beating(place) == beat' = place /\ UNCHANGED <<jobs, running, latest, stopped, workers, adding, ending, adds, changes>>

\* tick: without a checklist there is no call.
Beat       == beat = "waiting" /\ Beating("calling")
BeatReturn == beat = "calling" /\ Beating("waiting")
BeatExit   == beat = "waiting" /\ ending = "beating" /\ Beating("ended")

\* Bundle.Stop: Scheduler.Stop cancels the latest context and waits for the goroutines, then the
\* heartbeat is stopped.
StopScheduler ==
  /\ Ready /\ ending = "no" /\ ending' = "waiting"
  /\ stopped' = IF latest > 0 THEN stopped \cup {latest} ELSE stopped
  /\ UNCHANGED <<jobs, running, latest, workers, adding, beat, adds, changes>>

JobsEnded ==
  /\ ending = "waiting" /\ \A w \in DOMAIN workers : workers[w].at = "ended"
  /\ ending' = "beating"
  /\ UNCHANGED <<jobs, running, latest, stopped, workers, adding, beat, adds, changes>>

BeatEnded ==
  /\ ending = "beating" /\ beat = "ended" /\ ending' = "done"
  /\ UNCHANGED <<jobs, running, latest, stopped, workers, adding, beat, adds, changes>>

Next ==
  \/ StartConfigured \/ Add \/ StartAdded
  \/ \E n \in Names : RemoveJob(n) \/ Pause(n) \/ Resume(n) \/ \E s \in Schedules : UpdateSchedule(n, s)
  \/ \E w \in DOMAIN workers : Fire(w) \/ Exit(w) \/ Return(w)
  \/ Beat \/ BeatReturn \/ BeatExit \/ StopScheduler \/ JobsEnded \/ BeatEnded

Spec == Init /\ [][Next]_vars

\* Goroutines run, the runs of jobs end, and a select that finds the context done again and
\* again takes it.
FairSpec ==
  /\ Spec /\ WF_vars(StartAdded) /\ WF_vars(BeatReturn) /\ SF_vars(BeatExit) /\ WF_vars(JobsEnded) /\ WF_vars(BeatEnded)
  /\ \A w \in 1..MaxWorkers :
       WF_vars(w \in DOMAIN workers /\ Return(w)) /\ SF_vars(w \in DOMAIN workers /\ Exit(w))

-----------------------------------------------------------------------------
(* Properties. *)

\* However a job is added again, paused, resumed, rescheduled and removed: what may still run is
\* the one goroutine the scheduler knows, with the schedule it lists, and none of a paused job.
OneOfEachRuns ==
  \A w \in DOMAIN workers : Live(w) =>
    /\ workers[w].name \in Started
    /\ LET r == running[workers[w].name] IN r.worker = w /\ ~r.paused /\ r.schedule = workers[w].schedule

\* cron.go:94: Stop cancels all running jobs and waits for them to finish.  (Asked of the stops
\* during which nobody adds a job.)
StopEnds ==
  [](ending = "waiting" => adding = 0 /\ latest \in stopped \cup {0}) => (ending = "waiting" ~> ending = "done")
=============================================================================
