----------------------------- MODULE Scheduler -----------------------------
(***************************************************************************)
(* The job scheduler of internal/scheduler/scheduler.go, inside the life   *)
(* of the daemon that owns it: start-up and SIGHUP reload of               *)
(* internal/daemon/runner.go, clean shutdown, crash and restart.           *)
(*                                                                         *)
(* A job object (struct job) is an element of Object: a reload creates new *)
(* objects, and a retired one lives on as long as a goroutine uses it.  A  *)
(* goroutine of runJob is a pair <<object, k>>: Stop followed by Start     *)
(* gives one object a second goroutine.                                    *)
(*                                                                         *)
(* Time is relative.  Instead of LastRun the state keeps its age, instead  *)
(* of nextRun and of a timer the time left; Tick makes ages grow and waits *)
(* shrink.  An age saturates at Horizon, the longest interval any job has, *)
(* and nothing in the code tells two ages beyond it apart, so the          *)
(* abstraction needs no bound on the clock.  It assumes a clock that does  *)
(* not jump back and cron expressions that some date satisfies.            *)
(***************************************************************************)
EXTENDS Integers, Sequences, FiniteSets

CONSTANTS
    Name,        \* job names
    Config,      \* scanner entries a configuration file can hold (JobConfig)
    Lists,       \* the lists of enabled entries a start or a reload can read
    Object,      \* job objects; bounds how many are alive at once
    NoObject,    \* no entry in the map of jobs
    Loops,       \* bounds the goroutines alive at once on one job object
    Horizon,     \* the longest interval
    FailCap,     \* ConsecutiveFailures saturates here (a bound of the model)
    CanReload,   \* is SIGHUP sent?
    CanCrash,    \* can the process die at any point?
    CanStop      \* does the owner call Stop and Start again? (the tests do,
                 \* the daemon does not)

Never == -1      \* the age of the zero time.Time

(* One entry of the file as AddJob sees it: valid says that its checks and *)
(* parseSchedule accept it, retries is max_retries after normalisation.    *)
ConfigShape(c) ==
    /\ DOMAIN c = {"name", "valid", "kind", "every", "runOnStart",
                   "allowOverlap", "retries"}
    /\ c.name \in Name
    /\ c.valid \in BOOLEAN
    /\ c.kind \in {"interval", "cron"}
    /\ c.every \in 1..Horizon
    /\ c.runOnStart \in BOOLEAN
    /\ c.allowOverlap \in BOOLEAN
    /\ c.retries \in Nat

ASSUME SchedulerAssumption ==
    /\ Horizon \in Nat \ {0}
    /\ FailCap \in Nat \ {0}
    /\ Loops \in Nat \ {0}
    /\ NoObject \notin Object
    /\ Config # {}
    /\ \A c \in Config : ConfigShape(c)
    /\ Lists \subseteq Seq(Config)
    /\ CanReload \in BOOLEAN /\ CanCrash \in BOOLEAN /\ CanStop \in BOOLEAN

Thread == Object \X (1..Loops)
Age == 0..Horizon
JobState == [last : Age \cup {Never}, fails : 0..FailCap]
NewState == [last |-> Never, fails |-> 0]

VARIABLES
    phase,   \* "down", "up", or "stopping" once ctx is cancelled
    ctl,     \* the goroutine that loads a configuration
    jobs,    \* Scheduler.jobs: the object listed under each name
    job,     \* the job objects
    store,   \* bucket scheduler_state of the database: survives a crash
    go,      \* the runJob goroutines
    timer    \* the time left on the timer of each goroutine in its select

vars == <<phase, ctl, jobs, job, store, go, timer>>

NoThread == [pc |-> "none", via |-> "timer", attempt |-> 0, ok |-> FALSE]
Pc == {"none", "top", "enter", "plugin", "sleep", "save", "deliver",
       "release", "resched", "wait"}

JobShape ==
    [cfg : Config, started : BOOLEAN, stopped : BOOLEAN, running : BOOLEAN,
     state : JobState, wait : 0..Horizon]

LoopShape ==
    [pc : Pc, via : {"start", "timer"}, attempt : Nat, ok : BOOLEAN]
CtlShape == [pc : {"idle", "load"}, todo : Seq(Config), boot : BOOLEAN]

TypeOK ==
    /\ phase \in {"down", "up", "stopping"}
    /\ ctl \in CtlShape
    /\ jobs \in [Name -> Object \cup {NoObject}]
    /\ job \in [Object -> JobShape]
    /\ store \in [Name -> JobState]
    /\ go \in [Thread -> LoopShape]
    /\ timer \in [Thread -> 0..Horizon]

-----------------------------------------------------------------------------
Listed == {o \in Object : \E n \in Name : jobs[n] = o}
Alive(t) == go[t].pc # "none"
LoopsOf(o) == {t \in Thread : t[1] = o /\ Alive(t)}
NameOf(t) == job[t[1]].cfg.name

(* Unreachable job objects, those a new job may be built in; they are kept *)
(* blank.                                                                  *)
FreeObjects == {o \in Object : o \notin Listed /\ LoopsOf(o) = {}}

BlankJob ==
    [cfg |-> CHOOSE c \in Config : TRUE, started |-> FALSE, stopped |-> FALSE,
     running |-> FALSE, state |-> NewState, wait |-> 0]

Idle == [pc |-> "idle", todo |-> <<>>, boot |-> FALSE]

(* scheduleSpec.Next: an interval adds itself, the next date of a cron     *)
(* expression is any time in the future.                                   *)
SpecNext(c) == IF c.kind = "interval" THEN {c.every} ELSE 1..Horizon

(* Mutant: the check that the next date lies ahead is dropped. *)
computeNextRunUnchecked(c, s) ==
    IF c.kind = "interval" /\ s.last # Never THEN {c.every - s.last}
    ELSE SpecNext(c)

(* computeNextRun, as the waits it can return.  An interval job keeps to   *)
(* LastRun + interval while that lies ahead; an overdue one starts over.   *)
computeNextRun(c, s) ==
    IF c.kind = "interval" /\ s.last # Never /\ s.last < c.every
    THEN {c.every - s.last}
    ELSE SpecNext(c)

(* Mutant: LastRun is set when the run succeeded only. *)
updateStateOnSuccess(s, ok) ==
    [last |-> IF ok THEN 0 ELSE s.last,
     fails |-> IF ok THEN 0
               ELSE IF s.fails < FailCap THEN s.fails + 1 ELSE FailCap]

(* updateState, without the save: LastRun is the time the run ended. *)
updateState(s, ok) ==
    [last |-> 0,
     fails |-> IF ok THEN 0
               ELSE IF s.fails < FailCap THEN s.fails + 1 ELSE FailCap]

(* Mutant: a new job does not look at the database. *)
loadStateFresh(n) == NewState

loadState(n) == store[n]

(* Mutant: a failed run is not saved. *)
saveStateOnSuccess(t) ==
    store' = IF go[t].ok
             THEN [store EXCEPT ![NameOf(t)] = job[t[1]].state] ELSE store

saveState(t) == store' = [store EXCEPT ![NameOf(t)] = job[t[1]].state]

Init ==
    /\ phase = "down"
    /\ ctl = Idle
    /\ jobs = [n \in Name |-> NoObject]
    /\ job = [o \in Object |-> BlankJob]
    /\ store = [n \in Name |-> NewState]
    /\ go = [t \in Thread |-> NoThread]
    /\ timer = [t \in Thread |-> 0]

-----------------------------------------------------------------------------
(* Loading a configuration.  ReplaceJobs and the start-up code of the      *)
(* daemon hold Scheduler.mu for one AddJob at a time.                      *)

(* close(j.stop) on a closed channel panics. *)
CloseTwice == \E o \in Listed : job[o].started /\ job[o].stopped

Dies ==
    /\ phase' = "down"
    /\ ctl' = Idle
    /\ jobs' = [n \in Name |-> NoObject]
    /\ job' = [o \in Object |-> BlankJob]
    /\ go' = [t \in Thread |-> NoThread]
    /\ timer' = [t \in Thread |-> 0]
    /\ UNCHANGED store

(* The loop over the listed jobs that Stop and ReplaceJobs share. *)
Stopped(o) ==
    IF o \in Listed /\ job[o].started
    THEN [job[o] EXCEPT !.started = FALSE, !.stopped = TRUE]
    ELSE job[o]

Boot(list) ==
    /\ phase = "down"
    /\ phase' = "up"
    /\ ctl' = [pc |-> "load", todo |-> list, boot |-> TRUE]
    /\ UNCHANGED <<jobs, job, store, go, timer>>

(* SIGHUP: the first critical section of ReplaceJobs. *)
Reload(list) ==
    /\ CanReload /\ phase = "up" /\ ctl.pc = "idle" /\ ~CloseTwice
    /\ job' = [o \in Object |->
                 IF LoopsOf(o) = {} THEN BlankJob ELSE Stopped(o)]
    /\ jobs' = [n \in Name |-> NoObject]
    /\ ctl' = [pc |-> "load", todo |-> list, boot |-> FALSE]
    /\ UNCHANGED <<phase, store, go, timer>>

Acceptable(c) == c.valid /\ jobs[c.name] = NoObject

(* Mutant: a new job is due at once. *)
NewJobDue(o, c, w) ==
    job' = [job EXCEPT ![o] =
              [BlankJob EXCEPT !.cfg = c, !.state = loadState(c.name)]]

(* The effect of AddJob: the object starts from the stored state. *)
NewJob(o, c, w) ==
    job' = [job EXCEPT ![o] =
              [BlankJob EXCEPT !.cfg = c, !.state = loadState(c.name),
                               !.wait = w]]

AddJob ==
    /\ phase = "up" /\ ctl.pc = "load" /\ ctl.todo # <<>>
    /\ Acceptable(Head(ctl.todo))
    /\ \E o \in FreeObjects :
         LET c == Head(ctl.todo)
         IN  /\ \E w \in computeNextRun(c, loadState(c.name)) : NewJob(o, c, w)
             /\ jobs' = [jobs EXCEPT ![c.name] = o]
    /\ ctl' = [ctl EXCEPT !.todo = Tail(@)]
    /\ UNCHANGED <<phase, store, go, timer>>

(* AddJob returns an error: start-up logs it and goes on, ReplaceJobs      *)
(* returns it at once, before Start.                                       *)
AddJobFails ==
    /\ phase = "up" /\ ctl.pc = "load" /\ ctl.todo # <<>>
    /\ ~Acceptable(Head(ctl.todo))
    /\ ctl' = IF ctl.boot THEN [ctl EXCEPT !.todo = Tail(@)] ELSE Idle
    /\ UNCHANGED <<phase, jobs, job, store, go, timer>>

(* Mutant: Start does not look at started. *)
ToStartAll == Listed

ToStart == {o \in Listed : ~job[o].started}
FreeLoop(o) == CHOOSE t \in Thread : t[1] = o /\ ~Alive(t)

(* Start: one new goroutine for every listed job that has none started. *)
Start ==
    /\ \A o \in ToStart : \E t \in Thread : t[1] = o /\ ~Alive(t)
    /\ job' = [o \in Object |->
                 IF o \in ToStart THEN [job[o] EXCEPT !.started = TRUE]
                 ELSE job[o]]
    /\ go' = [t \in Thread |->
                IF t[1] \in ToStart /\ t = FreeLoop(t[1])
                THEN [NoThread EXCEPT !.pc = "top"] ELSE go[t]]

StartLoaded ==
    /\ phase = "up" /\ ctl.pc = "load" /\ ctl.todo = <<>>
    /\ Start
    /\ ctl' = Idle
    /\ UNCHANGED <<phase, jobs, store, timer>>

(* Start and Stop called by the scheduler's owner outside a reload. *)
StartAgain ==
    /\ CanStop /\ phase = "up" /\ ctl.pc = "idle"
    /\ Start
    /\ UNCHANGED <<phase, ctl, jobs, store, timer>>

Stop ==
    /\ CanStop /\ phase = "up" /\ ctl.pc = "idle" /\ ~CloseTwice
    /\ job' = [o \in Object |-> Stopped(o)]
    /\ UNCHANGED <<phase, ctl, jobs, store, go, timer>>

(* Stop or ReplaceJobs meets a channel that is closed already. *)
StopPanics ==
    /\ (CanStop \/ CanReload) /\ phase = "up" /\ ctl.pc = "idle"
    /\ CloseTwice
    /\ Dies

-----------------------------------------------------------------------------
(* The life of the process. *)

(* SIGTERM: signals are handled one at a time, never during a reload. *)
Cancel ==
    /\ phase = "up" /\ ctl.pc = "idle"
    /\ phase' = "stopping"
    /\ UNCHANGED <<ctl, jobs, job, store, go, timer>>

(* Run returns: the deferred Close of the store and the end of the process *)
(* wait for no goroutine.                                                  *)
Exit == phase = "stopping" /\ Dies

Crash == CanCrash /\ phase # "down" /\ Dies

Older(a) == IF a = Never \/ a = Horizon THEN a ELSE a + 1

Sooner(w) == IF w > 0 THEN w - 1 ELSE 0

Tick ==
    /\ store' = [n \in Name |-> [store[n] EXCEPT !.last = Older(@)]]
    /\ job' = [o \in Object |->
                 [job[o] EXCEPT !.state.last = Older(@),
                                !.wait = Sooner(@)]]
    /\ timer' = [t \in Thread |-> Sooner(timer[t])]
    /\ UNCHANGED <<phase, ctl, jobs, go>>

-----------------------------------------------------------------------------
(* One goroutine of runJob. *)

At(t, label) == phase # "down" /\ go[t].pc = label
Goto(t, label) == go' = [go EXCEPT ![t].pc = label]
SetJob(t, record) == job' = [job EXCEPT ![t[1]] = record]

(* Goto, where the label may be the select: its timer is set from nextRun  *)
(* as it stands then, and what another goroutine of the object makes of    *)
(* nextRun later does not move it.                                         *)
Proceed(t, label) ==
    /\ Goto(t, label)
    /\ timer' = IF label = "wait" THEN [timer EXCEPT ![t] = job[t[1]].wait] ELSE timer

(* Where executeJob returns to: the select, or the line that follows it. *)
AfterRun(t) == IF go[t].via = "start" THEN "wait" ELSE "resched"

LoopTop(t) ==
    /\ At(t, "top")
    /\ IF job[t[1]].cfg.runOnStart /\ job[t[1]].state.last = Never
       THEN go' = [go EXCEPT ![t].pc = "enter", ![t].via = "start"] /\ UNCHANGED timer
       ELSE Proceed(t, "wait")
    /\ UNCHANGED <<phase, ctl, jobs, job, store>>

(* The select: when several cases are ready Go takes any of them. *)
TimerFires(t) ==
    /\ At(t, "wait") /\ timer[t] = 0
    /\ go' = [go EXCEPT ![t].pc = "enter", ![t].via = "timer"]
    /\ UNCHANGED <<phase, ctl, jobs, job, store, timer>>

(* Mutant: the select has no stop case. *)
LeaveOnCancel(t) ==
    /\ At(t, "wait") /\ phase = "stopping"
    /\ go' = [go EXCEPT ![t] = NoThread] /\ timer' = [timer EXCEPT ![t] = 0]
    /\ UNCHANGED <<phase, ctl, jobs, job, store>>

Leave(t) ==
    /\ At(t, "wait") /\ (job[t[1]].stopped \/ phase = "stopping")
    /\ go' = [go EXCEPT ![t] = NoThread] /\ timer' = [timer EXCEPT ![t] = 0]
    /\ job' = IF t[1] \in Listed \/ LoopsOf(t[1]) # {t} THEN job
              ELSE [job EXCEPT ![t[1]] = BlankJob]
    /\ UNCHANGED <<phase, ctl, jobs, store>>

(* Mutant: executeJob ignores the running flag. *)
MayRunAlways(t) == TRUE

(* The guard of executeJob. *)
MayRun(t) == job[t[1]].cfg.allowOverlap \/ ~job[t[1]].running

BeginRun(t) ==
    /\ At(t, "enter") /\ MayRun(t)
    /\ SetJob(t, [job[t[1]] EXCEPT !.running = ~job[t[1]].cfg.allowOverlap])
    /\ go' = [go EXCEPT ![t].pc = "plugin", ![t].attempt = 0]
    /\ UNCHANGED <<phase, ctl, jobs, store, timer>>

SkipRun(t) ==
    /\ At(t, "enter") /\ ~MayRun(t)
    /\ Proceed(t, AfterRun(t))
    /\ UNCHANGED <<phase, ctl, jobs, job, store>>

(* The end of executeWithRetry and the assignments of updateState. *)
EndRun(t, ok) ==
    /\ SetJob(t, [job[t[1]] EXCEPT !.state = updateState(@, ok)])
    /\ go' = [go EXCEPT ![t].pc = "save", ![t].ok = ok, ![t].attempt = 0]
    /\ UNCHANGED <<phase, ctl, jobs, store, timer>>

PluginSucceeds(t) == At(t, "plugin") /\ EndRun(t, TRUE)

(* An error, a nil result, an unknown plugin or a recovered panic. *)
PluginFails(t) ==
    /\ At(t, "plugin")
    /\ IF go[t].attempt < job[t[1]].cfg.retries
       THEN Goto(t, "sleep") /\ UNCHANGED <<phase, ctl, jobs, job, store, timer>>
       ELSE EndRun(t, FALSE)

BackoffEnds(t) ==
    /\ At(t, "sleep")
    /\ go' = [go EXCEPT ![t].pc = "plugin", ![t].attempt = @ + 1]
    /\ UNCHANGED <<phase, ctl, jobs, job, store, timer>>

SaveState(t) ==
    /\ At(t, "save")
    /\ saveState(t)
    /\ Goto(t, IF go[t].ok THEN "deliver" ELSE "release")
    /\ UNCHANGED <<phase, ctl, jobs, job, timer>>

(* onResult: what it does is the subject of other modules. *)
Deliver(t) ==
    /\ At(t, "deliver")
    /\ Goto(t, "release")
    /\ UNCHANGED <<phase, ctl, jobs, job, store, timer>>

(* Mutant: the flag is not reset when the run failed. *)
ReleaseOnSuccess(t) ==
    /\ At(t, "release")
    /\ SetJob(t, [job[t[1]] EXCEPT !.running = @ /\ ~go[t].ok])
    /\ Proceed(t, AfterRun(t))
    /\ UNCHANGED <<phase, ctl, jobs, store>>

(* The deferred running.Store(false). *)
Release(t) ==
    /\ At(t, "release")
    /\ SetJob(t, [job[t[1]] EXCEPT !.running = FALSE])
    /\ Proceed(t, AfterRun(t))
    /\ UNCHANGED <<phase, ctl, jobs, store>>

(* Mutant: nextRun keeps its old value. *)
RescheduleForgets(t) ==
    /\ At(t, "resched")
    /\ Goto(t, "top")
    /\ UNCHANGED <<phase, ctl, jobs, job, store, timer>>

Reschedule(t) ==
    /\ At(t, "resched")
    /\ \E w \in computeNextRun(job[t[1]].cfg, job[t[1]].state) :
         SetJob(t, [job[t[1]] EXCEPT !.wait = w])
    /\ Goto(t, "top")
    /\ UNCHANGED <<phase, ctl, jobs, store, timer>>

-----------------------------------------------------------------------------
LoopStep(t) ==
    \/ LoopTop(t) \/ TimerFires(t) \/ Leave(t) \/ BeginRun(t) \/ SkipRun(t)
    \/ PluginSucceeds(t) \/ PluginFails(t) \/ BackoffEnds(t) \/ SaveState(t)
    \/ Deliver(t) \/ Release(t) \/ Reschedule(t)

Control ==
    \/ \E list \in Lists : Boot(list) \/ Reload(list)
    \/ AddJob \/ AddJobFails \/ StartLoaded
    \/ StartAgain \/ Stop \/ StopPanics
    \/ Cancel \/ Exit \/ Crash

Next == Tick \/ Control \/ \E t \in Thread : LoopStep(t)

Spec == Init /\ [][Next]_vars

(* Time passes, Go runs every runnable goroutine, a plugin returns, and a  *)
(* select that finds its stop case ready again and again takes it in the   *)
(* end: Go chooses among the ready cases at random.                        *)
Fairness ==
    /\ WF_vars(Tick)
    /\ WF_vars(AddJob \/ AddJobFails \/ StartLoaded)
    /\ \A t \in Thread : WF_vars(LoopStep(t)) /\ SF_vars(Leave(t))

FairSpec == Spec /\ Fairness

-----------------------------------------------------------------------------
(* Properties. *)

(* Between the compare-and-swap of executeJob and its deferred reset. *)
Holding(t) ==
    go[t].pc \in {"plugin", "sleep", "save", "deliver", "release"}

(* Two goroutines never execute the same job object at the same time,      *)
(* unless allow_overlap is set: the CompareAndSwap of executeJob.          *)
NoOverlapPerJob ==
    \A t, u \in Thread :
        t # u /\ t[1] = u[1] /\ Holding(t) /\ Holding(u)
            => job[t[1]].cfg.allowOverlap

Executing(t) == go[t].pc \in {"plugin", "sleep"}

(* README.md:27, "Scheduler with overlap protection": a job, as the        *)
(* operator knows it, by its name, is never executed twice at a time.      *)
NoOverlapPerName ==
    \A t, u \in Thread :
        t # u /\ NameOf(t) = NameOf(u) /\ Executing(t) /\ Executing(u)
            => job[t[1]].cfg.allowOverlap

(* A job that is listed, started and not stopped has exactly one goroutine *)
(* as long as the daemon is up: neither a reload, a failed run nor a       *)
(* skipped one leaves a job that nobody runs, or one that two loops run.   *)
LoopAlive ==
    phase = "up" =>
        \A o \in Listed :
            job[o].started /\ ~job[o].stopped => Cardinality(LoopsOf(o)) = 1

(* A second goroutine on a job object can only belong to a job that was    *)
(* stopped: Start called twice does not double the loops.                  *)
SecondLoopOnlyAfterStop ==
    \A o \in Object : Cardinality(LoopsOf(o)) > 1 => job[o].stopped

(* The next run of an interval job lies at least one interval after its    *)
(* last recorded run, through retries, reloads and restarts.  A run on     *)
(* start does not reschedule (scheduler.go:175), so jobs with one are      *)
(* exempt, and so is a goroutine on its way to computeNextRun.             *)
Spaced ==
    \A o \in Listed :
        LET c == job[o].cfg  s == job[o].state
        IN  c.kind = "interval" /\ ~c.runOnStart /\ s.last # Never
            /\ (\A t \in LoopsOf(o) : go[t].pc \in {"top", "wait"})
                => job[o].wait + s.last >= c.every

(* Without a reload, what the database holds of a job is what its object   *)
(* holds, except between updateState's assignments and its Put: a restart  *)
(* then resumes from the last run.                                         *)
StoreMatchesMemory ==
    \A n \in Name :
        jobs[n] # NoObject /\ (\A t \in LoopsOf(jobs[n]) : go[t].pc # "save")
            => store[n] = job[jobs[n]].state

(* When a run may begin: an interval after the last one s tells of, for an *)
(* interval job without run_on_start; and on start only when there is none.*)
RunDue(c, s, via) ==
    /\ c.kind = "interval" /\ ~c.runOnStart /\ s.last # Never => s.last >= c.every
    /\ via = "start" => s.last = Never

(* Without a reload, no run begins before it is due by what the database   *)
(* holds: neither early nor a second time on start, in this life of the    *)
(* daemon or after a crash and a restart.                                  *)
DueByRecord ==
    [][\A t \in Thread :
         BeginRun(t) => RunDue(job[t[1]].cfg, store[NameOf(t)], go[t].via)]_vars

(* Through reloads, no run begins before it is due by what its own job     *)
(* object holds, though it may be early by the database: ReplaceJobs can   *)
(* retire an object in the middle of a run, and the new one is built from  *)
(* what was on record then (scheduler.go:122).                             *)
DueByMemory ==
    [][\A t \in Thread :
         BeginRun(t) => RunDue(job[t[1]].cfg, job[t[1]].state, go[t].via)]_vars

(* Once a run of a job is on record, there is always one on record:        *)
(* neither a failed run, nor a goroutine that a reload has retired, nor an *)
(* object built before the first save writes the record of a job that      *)
(* never ran, after which a run on start would begin again.                *)
RecordKept ==
    [][\A n \in Name : store[n].last # Never => store'[n].last # Never]_vars

(* The recorded number of consecutive failures moves as the runs do: a     *)
(* save after a success clears it, a save after a failure adds exactly     *)
(* one to what was on record, whatever crash or restart lies between.      *)
FailuresCounted ==
    [][\A t \in Thread :
         SaveState(t) =>
            LET n == NameOf(t)
            IN  store'[n].fails = IF go[t].ok THEN 0
                                  ELSE IF store[n].fails < FailCap
                                       THEN store[n].fails + 1 ELSE FailCap]_vars

(* The run of a job that a goroutine executes or is about to save. *)
RunOf(n) ==
    LET busy == {t \in Thread : t[1] = jobs[n] /\ go[t].pc \in {"plugin", "sleep", "save"}}
        t == CHOOSE t \in busy : TRUE
        ended == go[t].pc = "save"
    IN  IF busy = {} THEN [at |-> "idle", ok |-> FALSE, age |-> 0]
        ELSE [at |-> IF ended THEN "ended" ELSE "runs", ok |-> ended /\ go[t].ok,
              age |-> IF ended THEN job[t[1]].state.last ELSE 0]

EntryOf(n) == IF jobs[n] = NoObject THEN {} ELSE {job[jobs[n]].cfg}

Records == INSTANCE JobRecord WITH
    entry <- [n \in Name |-> EntryOf(n)], record <- store,
    run <- [n \in Name |-> RunOf(n)]

(* Without a reload, what the database tells about a job follows its runs: *)
(* one at a time, none early, each of them counted once or, when the       *)
(* daemon dies before the save, not at all.                                *)
RecordsRuns == Records!Spec

(* ARCHITECTURE.md:35, "persisted locally to avoid duplicate runs after    *)
(* restart": once a run on start has ended, the job never begins another.  *)
NoDuplicateStartRun ==
    \A n \in Name :
        [](  (\E t \in Thread :
                go[t].pc = "save" /\ go[t].via = "start" /\ NameOf(t) = n)
          => [](~ \E t \in Thread :
                go[t].pc = "plugin" /\ go[t].via = "start" /\ NameOf(t) = n))

Steady == phase = "up" /\ ctl.pc = "idle"

(* Once the daemon stays up and no more reloads come, every job with a     *)
(* started, unstopped loop is executed again and again.                    *)
JobsKeepRunning ==
    \A n \in Name :
        (<>[](Steady /\ jobs[n] # NoObject /\ job[jobs[n]].started
                     /\ ~job[jobs[n]].stopped))
            => []<>(\E t \in Thread : t[1] = jobs[n] /\ Executing(t))

(* A goroutine of a stopped job ends, whatever its timer does. *)
StoppedLoopsEnd ==
    \A t \in Thread : (Alive(t) /\ job[t[1]].stopped) ~> ~Alive(t)
=============================================================================
