# A TLA+ verification of ArCsent

ArCsent is a security-monitoring daemon written in Go with a web user interface
in TypeScript (React). The daemon runs scanner plugins on schedules, compares
their metrics with baselines, evaluates rules and correlations, stores the
results and sends alerts; the front end shows them, triggers scans and updates
of signature feeds. This directory holds TLA+
models of its parts, the TLC configurations that check them and TLAPS proofs.

Run in this directory:

    tlc -workers 2 -config sched_restart.cfg MCScheduler     (a run of PROJECT.json)
    tlapm SchedulerProofs.tla                                (proofs)
    tlapm SchedulerLoopProofs.tla
    tlapm BaselineProofs.tla
    tlapm AlertProofs.tla
    tlapm StorageProofs.tla
    tlapm ResultPathProofs.tla
    tlapm SignatureProofs.tla
    tlapm WebUIProofs.tla

`PROJECT.json` lists the components, the runs, the source lines each definition
stands for, the hazards of the code, and for every checked property a plausible
bug ("mutant") that breaks it. The mutants stand next to the definitions they
alter, under a comment that starts with "Mutant:"; nothing else uses them.

## 1. Inventory

| Component | State | Operations | Hard behaviour |
|---|---|---|---|
| Scheduler (`internal/scheduler`) | map of job objects under `mu`; per object: entry, `running`, `started`, stop channel, `JobState`, `nextRun`; job states in bucket `scheduler_state` | AddJob, Start, Stop, ReplaceJobs, RunOnce, one goroutine `runJob` per started object | two goroutines of one job or of one object, reload during a run, crash between run, save and delivery, retries, select with several ready cases |
| Daemon (`internal/daemon/runner.go`) | current configuration; variables captured by `onResult` | start-up, signals (one at a time), reload, shutdown | shutdown waits for no goroutine; reload swaps components one after the other |
| Alert engine (`internal/alerting/engine.go`) | `lastSeen` under `mu`, queue of 256, one worker | Send, isThrottled, worker, deliver | concurrent senders, full queue, failing channels, replaced engines |
| Alert channels (`internal/alerting/*_channel.go`, `factory.go`) | none | Send with a severity filter | the other side fails or hangs |
| Storage (`internal/storage`) | one ordered key space in Badger | Put, Get, ForEach, Delete; result Save, List, PruneOlderThan | buckets are key prefixes only; pruning once per start |
| Detection (`internal/detection`) | baselines in bucket `baselines`; correlation events under `mu`; rules (immutable) | Update, DetectDrift, List, Prune; Correlator.Add; Evaluate | unlocked read-modify-write of a baseline; cooldown and window |
| Result cache (`internal/state`) | latest per plugin, last 50 results | Add, Latest, History | a full history under concurrent results |
| Signatures (`internal/signatures`) | cache directory, status in bucket `signatures`, configuration and sources, mutex of `runOnce` | timer loop, Trigger, UpdateConfig, download, air-gap import | configuration change during an update, partial copies, cancelled requests, waiting updates |
| API (`internal/api`) | current settings with the token | authentication, routes, handlers, trigger of plugins and updates, reload of settings | prefixes of routes, handlers that read under several locks, a reload between two checks |
| Web UI proxy (`internal/webui`) | current token, address of the API | authentication, reverse proxy of `/api`, the page for any other path | two servers that a reload changes one after the other |
| Front end (`web/src`) | token in localStorage; per page its hooks | pages with effects, requests, buttons, links, logout | answers in any order or never, pages left while requests are on their way, clicks before a rendering |
| Configuration (`internal/config`) | none | Load, defaults, environment, Validate | entries that pass Validate and fail later |
| Plugins (`internal/plugins/system`) | file hashes, last CPU counters, shared by all jobs of the plugin | Init, Run | Run concurrent with itself and with Init of a reload |
| Privileges, integrity, CLI, logging, scripts | none that lives on | straight-line code | none modelled |

Interaction: `Run` creates everything, adds the jobs and starts them. A job's
goroutine calls its plugin, updates and saves the `JobState`, then calls
`onResult`, which goes through baselines, rules, correlator, cache and result
store to the alert engine. The API reads the same objects and runs plugins
itself (`RunOnce`). The front end talks to the proxy, the proxy to the API, each
with a token check of its own. SIGHUP, handled between other signals, loads the
file, swaps rules, correlator and alert engine, gives the updater, the API and
the web UI their parts and calls ReplaceJobs. SIGTERM cancels
the context; `Run` closes the store and the process ends.

What makes each part correct:

- scheduler: no overlap; every loaded job has one live loop and keeps running;
  runs keep their interval, across restarts too; persisted state is what the
  runs produced; goroutines of replaced jobs end.
- alerting: one alert per fingerprint and window; what the queue accepts is
  tried on every channel, in order; a replaced engine finishes its work.
- storage: a listing shows the whole bucket; pruning removes what was too old when
  the daemon started, all of it and only that.
- detection: no sample and no drift count lost; a drift after exactly
  `drift_consecutive` anomalies in a row; correlation within window and cooldown.
- signatures: one update at a time; a status that belongs to the configuration
  used; no half-written file behind a good status, but for an import that came later.
- the path of a result: what is alerted is on record, whatever the results,
  reloads and restarts beside it.
- front end: what a page shows is what the daemon said since the page was
  opened, spinners stop and tell the truth, a token is judged by the loaded
  configuration, a button does what it says.

`PROJECT.json` "hazards" lists the places where this is hard to test.

## 2. Modules

| Module | Content |
|---|---|
| `Scheduler` | scheduler, its database bucket and the life of the daemon around it; implements `JobRecord` without reloads |
| `MCScheduler` | entries of configuration files and lists of them for TLC |
| `JobRecord` | what the scheduler promises about the record of a job (abstract) |
| `SchedulerProofs` | type correctness and mutual exclusion, proved |
| `SchedulerLoopProofs` | one loop per job, spacing, the record of runs and the refinement of `JobRecord`, proved |
| `AlertDelivery` | what an alert engine promises (abstract) |
| `AlertEngine` | the engine, its callers and the reload that replaces it; implements `AlertDelivery` |
| `MCAlertEngine` | fingerprints and severity filters for TLC |
| `AlertProofs` | types, one winner per window and the refinement, proved |
| `Storage` | buckets, listings and pruning |
| `StorageProofs` | its properties, proved |
| `Baseline` | one baseline under the results that update it |
| `BaselineProofs` | its four properties, proved |
| `ResultPath` | the whole of onResult around `Baseline`: correlator, cache, alerts, reload, restart; implements `Baseline` |
| `MCResultPath` | correlation settings for TLC |
| `ResultPathProofs` | the refinement, and the properties of correlator and history, proved |
| `Updater` | the signatures updater: timer, waiting updates, feeds, import, status |
| `SignaturePanel` | the dashboard's panel and the API's handlers over `Updater` |
| `MCPanel` | settings of configuration files for TLC |
| `SignatureProofs` | safety of the panel and the updater, proved |
| `ApiClient` | `lib/api.ts` with routes, token checks and replies, as operators |
| `WebUI` | one tab with all pages, the proxy and the API, over `ApiClient` |
| `MCWebUI` | configuration files for TLC |
| `WebUIProofs` | safety of the front end, proved |

### Scheduler

`jobs` is `Scheduler.jobs`; `job` holds the job objects, `go` the goroutines,
`store` the bucket `scheduler_state`, `ctl` the goroutine that loads a
configuration (start-up, or the handler of SIGHUP), `phase` the process. A job
object is named by an element of `Object`; an object that no map entry and no
goroutine refers to is garbage, is reset and can be used again. A goroutine is
a pair of an object and a number, because Stop and Start can put two on one
object.

Each action is one step that others can observe: one critical section of
`mu` (AddJob, Start, Stop, the first part of ReplaceJobs), one read of
the flag, one access to the database, one call of the plugin. The assignments
of `updateState` are one step with the return of the plugin, as nothing
modelled reads `j.state` in between; the Put that follows is a step of its own.
A plugin call ends at any time with success or failure, where a failure is an
error, a nil result, an unknown plugin or a recovered panic: the code treats
them alike (`scheduler.go:330-374`). Timeouts add nothing, as the context only
makes a plugin fail earlier and the plugins ignore it.

Start-up and reload differ in what an AddJob error does: start-up logs it and
goes on (`runner.go:190`), ReplaceJobs returns (`scheduler.go:164`). Signals
are handled one at a time (`runner.go:360`), so cancellation never falls into a
reload. `Exit` waits for no goroutine, as `Run` does not.

A goroutine at its select waits for `timer`, which it has set from the object's
`nextRun` on the way there (`Proceed`, `scheduler.go:178-187`); of two goroutines
on one object the other may move `nextRun` meanwhile, and the timer stays.

Time is relative. The state keeps the age of `LastRun`, the wait until
`nextRun` and what is left on each timer; `Tick` moves them. Ages saturate at the longest interval, beyond
which `computeNextRun` distinguishes nothing, so the abstraction is exact and
leaves the state space finite without a bound on the clock. It assumes that the
clock does not jump back. The next date of a cron expression is any time in
the future; an expression that no date satisfies is excluded (hazard at
`scheduler.go:297`).

`ConsecutiveFailures` saturates at `FailCap`. Left out: `RunOnce`, which touches
no scheduler state; `LastSuccess`, `LastError`, messages and status, which follow
the counter; and the length of a backoff.

`JobRecord` is what is left of this for the reader of the database: the entry a
job was loaded with, its record and the run under way. A run begins when the
interval has passed since the run on record, ends, and is saved once or lost with
the process. In `RecordsRuns` the run of a job is what its goroutine does between
BeginRun and SaveState; loops, timers, retries, delivery and flags are stutters.
With reloads the scheduler does not implement it: a retired goroutine saves under
the name of the new object (hazard at `scheduler.go:122`).

### AlertEngine

`lastSeen`, `queue` and `worker` exist once per engine, and a reload moves
`current` to the next engine. A sender is a goroutine in `onResult`, between
`isThrottled` (one critical section) and the non-blocking send. The worker
walks through the channels with its retries; `outcome` records what became of
the alert at each channel and exists only for the comparison with
`AlertDelivery`. A fingerprint is `KeyOf`: two alerts that differ in their
evidence only share one. A channel accepts, fails, or filters by severity and
answers nil. Reading `alertEngine` while a reload assigns it is a data race on
one pointer; the model lets the reader see the old or the new engine, never
an older one after a newer one. A disabled engine sends nothing and is left out.

### Storage

The database is a function from bucket and key to the age of the entry. Badger
iterates in byte order, so the order of the four bucket names decides what
`ForEach` reaches. Results get a new key each (`Id` bounds them), the others are
overwritten. Start-up computes its cutoff once and prunes results, then baselines
(`runner.go:129-131`); `since` is the time that has passed since then, so an entry
was before the cutoff if its age is more than `RetentionDays + since`. Time passes
in every phase. A pruning can die between two deletes, and it can stop at a delete
that fails, whose error the caller drops: the daemon then comes up all the same,
with `pruned` down. Ages stop at `Oldest`, beyond the cutoff of any start, and
`MaxUptime` bounds how long a start lasts.

`NoBaselineOutlives` is what README.md:144 promises of baselines, in every state of
a running daemon and not at the pruning alone: it can be lost by a bucket that
`ForEach` does not reach, by a cutoff taken at another time, or by a restart that
does not repeat what a crash cut short. Of results the same does not hold: they are
not reached once a baseline exists (`store_list`). A daemon that stays up keeps what
grows too old meanwhile, as the pruning runs once per start. The listing of the
baselines, whose bucket is the first, needs no property.

### Baseline

`db` is the stored record of one plugin and metric; `source` says where each
goroutine that executes onResult for it is: DetectDrift reads, judges (with a
read of its own in IsAnomaly) and writes, Update reads and writes. The values
are reduced to what the drift logic asks of them, outlier or not, and `IsAnomaly`
may call any value an outlier once there are enough samples; mean, quartiles and
z-score are left out. `serial`, chosen in the initial state, says whether results
of the plugin come one at a time. `handled` counts the writes of Update and
`streak` the anomalies in a row, both as the outside would count them. A crash
falls between any two accesses to the database. Errors of the database are left
out; so is the case of an empty metric name, for which Update returns an error.

The specification of `Baseline` is not run on its own: it is the part of
`ResultPath` that its theorems are lifted from.

### ResultPath

`path[s]` is what a source does in onResult with its current result: measuring
(the steps of `Baseline`), correlating, entering the cache, sending. The sources
run one plugin whose result has one value that a baseline is kept for; results of
the other scanners reach the correlator (`OtherReports`) and the cache
(`OtherCached`) at any time, as their own steps are independent. A crash falls
between any two steps: what is in memory is lost, the database stays.

Findings are reduced to three kinds: those of the plugin and of the rules (`own`,
a choice; the rule engine has no state that changes), drift, correlation.
Correlator and cache each have one mutex, so Add is one step. Time is the age of
events, up to `Horizon`, the longest window or cooldown, beyond which neither is
told apart; events of one scanner and age are one. `lastTriggered` starts at the
zero time, which is out of every cooldown.

A reload assigns the variable `correlator` that onResult reads without a lock.
A source that was about to read it may still use the old one (`CorrelateLate`),
whose finding is then a choice; the next that reads it sees the new one with no
events. `r.cfg`, from which onResult takes `drift_consecutive`, is constant in
the model. `Save` writes a result to the database where nothing on the path reads
it; Storage says what becomes of it. The observers `reported` and `raised` say
when each scanner last reported and when the correlation last fired, as the
outside would count them, and start over with a new correlator.

### Updater and SignaturePanel

`worker` says where each goroutine is in `runOnce`: the timer loop, and one per
handler of a request. `lock` is `Updater.mu`; `cfg` and `registered` are read at
different times, as in the code (`updater.go:171-210`). A feed is downloaded to
a temporary file and renamed (`Downloaded`). An air-gap import copies what it finds
at its path, one of `Bundles`, into the cache directory itself, the one that holds the
feeds (`updater.go:189`, `217`), file by file: `ImportOpens` cuts a file off as
`os.Create` does, `FileCopied` completes it, and the import can fail before, between
and inside files (`ImportFails`, `CopyFails`), whether it walks a directory or
unpacks an archive. What it has copied stays, and it takes no notice of its context.
A cancelled context makes downloads fail and the update go on. `Stop` is the end of
the timer loop's context; `Restart` is exit or crash at any step, with any
configuration at the next start: the files stay as they were written (the death of
the process, not a loss of power). Each feed has one file, the same in all settings:
a change of `cache_dir` or of a feed's address, which leaves the old files behind, is
left out. `opened` observes which run's import last opened a file.

So a stored status can be overtaken: while an import is at work, and after one that
died before it saved its status, a feed that the status before calls updated may be
torn. `StatusMeansCached` names exactly those files (`opened[s] > status.run`) and
excuses no other; an import that fails saves a status of its own which says so and
no longer speaks of the feeds. `SyncedMeansCached` says the same of what a page
shows, which may be older still.
`MaxRuns` bounds the updates asked for.

A `Status` has the number of its run instead of `LastRun`: numbers are given in
the order in which `runOnce` takes the time under its mutex, so they compare like
the times of a clock that does not go back. Errors of the database are left out.

`SignaturePanel` adds the tab. `panel` holds the hooks of the panel and the
`disabled` attribute of its button, which follows `sigLoading` with the next
rendering: React renders what a click changed before the next event, but what the
effect of a page changed is rendered a moment later, so that a click can come
before (`early`). Every request is a `Handler`, on its way to the daemon, at work
there, or back; it can break at any point, which cancels the handler's context,
and its answer is dropped when the page is gone. Closing the tab breaks all. A
refused token is one way to fail; WebUI models tokens.

### ApiClient and WebUI

`ApiClient` has the operators: which path each method of `api` uses, where the API
routes it with and without `/api`, which plugin name `handleTrigger` cuts out of
it, and which error a reply becomes. A path is a sequence of segments.

`WebUI` is the tab around them. `view` holds the hooks of the mounted component,
`req` its requests by kind. A page mounts with fresh hooks and its effect sends
its reads; requests of a page that is gone are dropped, since the daemon's answers
no longer reach a component (a trigger of a page that is gone adds a result like
any other, `ResultArrives`). Each request passes the check of the proxy, that of
the API and the handler, one step each, and may break in between. `buildMetrics`
counts results and findings in two steps, each under the lock of its own read
(`server.go:299-300`). A reload loads a file and assigns the
parts of the API and of the web UI one after the other, without a lock: while a
server's token is being assigned, its check may see the old one, the new one, or a
torn string that equals nothing (`Verdicts`). The panel of signatures is left to
`SignaturePanel`. Colours, icons, tables, badges and wording are left out; what a
page shows is what its hooks hold.

`history` is the history of the ResultCache: `Add` appends a result and drops the
oldest over `HistoryLimit`, for results of jobs and of triggers. A result stands for
its findings, and what is listed or counted is the set of results it came from. A
set says more than its size: between the two counts of `buildMetrics` a result can
be pushed out and another come in, after which the number of findings may be
smaller, so `FreshAtOpening` asks for the results that are missing and not for the
larger number. Left out are the text of the metrics (`buildMetrics` writes lines that
`getMetrics` splits and converts) with its other gauges, which no page reads, the
message that Settings shows for two seconds, and a restart of the daemon while the
tab is open.

## 3. Runs

| Run | Question | Bounds | Result |
|---|---|---|---|
| `sched_restart` | Do persistence, spacing and failure counts survive shutdowns and crashes at any step, and does the record follow the runs as `JobRecord` says? | two jobs, interval 1 to 3, cron, run on start, one retry, refused and repeated entries; no reload | holds |
| `sched_reload` | Does a reload at any step, accepted or refused, with Start, Stop and crashes, keep one loop per job, the spacing, goroutines of one object apart, and a run on record once there is one? | one job, two objects, two goroutines per object, intervals 1 and 2 | holds |
| `sched_live` | Does each object, retired or not, run only when it is due, do jobs keep running and old goroutines end? | one job with and without run on start, two objects, interval 1, any number of reloads | holds |
| `sched_overlap` | Is a job never executed twice at a time (README.md:27)? | one job, two objects | violated |
| `sched_shutdown` | Does a run on start run once (ARCHITECTURE.md:35)? | clean shutdowns only | violated |
| `alert_delivery` | Does one of several concurrent senders win per window, and is every accepted alert settled on each channel, in order, by old engines too? | two senders, two channels, two alerts, queue of 1, window 1, one retry, two engines | holds |
| `store_keep` | Is no baseline kept that was too old when the daemon started, through restarts, crashes and failures of prunings, and is nothing else lost? | two keys per bucket, retention and uptime of 1 unit each | holds |
| `store_list` | Does the export return all stored results (API.md:26)? | one key per bucket, retention of 2 units | violated |
| `results` | Is no sample lost, is a drift reported after exactly `drift_consecutive` anomalies (RUNBOOK.md:27), does the correlation follow window and cooldown (RUNBOOK.md:28), and is what is alerted on record, beside reloads and crashes? | two sources, four results, one other scanner; `minSamples` and `maxSamples` 2, two anomalies for a drift, window 2, cooldown 1, two scanners, history of 2 | holds |
| `dashboard` | Is the panel's status true and never older, does the spinner tell the truth and stop, whatever happens to requests, daemon and configuration? | a feed and an import that brings its file, two handlers and the timer, two updates, three settings | holds |
| `webui` | Do spinners, tokens and contents hold on every page, with reloads and other tabs? | two plugins, two tokens, two configuration files, two results and a history of one | holds |
| `webui_trigger` | Does the button of a scanner run its plugin (README.md:286, API.md:16)? | as `webui` | violated |

Why the bounds are enough. The interleavings of the scheduler need an old and a
new object of one job (two objects) or an old and a new goroutine of one object
(two loops). Jobs of different names share only the map, so two names show
their interaction. Intervals of 1 to 3 units give every order of "last run",
"now" and "next run"; one retry gives a first, a last and a failed attempt; a
failure count up to 2 tells 0, 1 and more apart. Two engines, two channels and a
queue that is full with one or two alerts give each case of the alert code.
In Storage two keys per bucket let a pruning stop between two deletes; ages up to 3
units are below, at and beyond the cutoff, in the start that took it and in the next.
In ResultPath two sources give every overlap of a read-modify-write with another;
four results pass both limits on samples and have room for a row that is broken
and started again; a window of 2 and a cooldown of 1 put each age inside, at the
boundary and outside, and a history of 2 is full. With two sources at once the model loses samples and
drift counts, as the code does; `NoSampleLost` and `DriftAfterRow` therefore
speak of `serial` behaviours, `SamplesFollowCount` and `NoSampleInvented` of all.
In SignaturePanel two handlers and the timer make one update wait for another and
two answers cross; the feed has an address until a reload takes it away, and with two
updates an import follows a download or another import. In
WebUI two tokens tell old from new, the person holds one of them, two plugins
show what shared loading flags could mix up, and of two results the second pushes the
first out of a history of one, before, between and after the counts. The theorems of section 4 hold for all values of these bounds.

The violated runs are disagreements between the documentation and the code:

- *Overlap after reload.* The flag belongs to the job object. A reload makes a
  new object with the flag down while the old goroutine still executes.
- *Duplicate run after a clean restart.* `Run` closes the database while a run
  that has ended is not yet saved; the job's run on start is repeated.
- *Empty result listing.* `ForEach` starts at the smallest key of the database.
  Results are seen only while no baseline exists, so the export and also the
  retention of results (README.md:144) find nothing.
- *Trigger of the front end.* `handleTrigger` trims `/scanners/trigger/` from the
  path, which under `/api` begins otherwise: the manager is asked for a plugin
  named like the whole path, and the button never runs a scan.

### Fairness

`Scheduler`: time passes (WF on Tick), the goroutine that loads a configuration
and each job goroutine take their next step when they can (Go runs runnable
goroutines, plugins return, sleeps end), and a goroutine whose select finds the
stop case ready again and again takes it in the end (SF on Leave), since Go chooses
among ready cases at random. Nothing is assumed of signals, reloads or the
operator: `JobsKeepRunning` speaks of behaviours in which reloads cease.
`AlertEngine`: workers and senders past `isThrottled` go on; channels answer
(the webhook client has a timeout) but may fail for ever; time need not pass.
`SignaturePanel`: the browser renders what it has to and runs callbacks of answers
that are back; a server handles what reaches it, or refuses it when it stops; a
goroutine in `runOnce` takes its next step when it can, as downloads have a
timeout. Weak fairness is enough for the mutex because only finitely many updates
are asked for (`MaxRuns`): after each the mutex is free, and at last for the one
that waits. Nothing is assumed of people, the timer, the network or reloads.

## 4. Proofs

`SchedulerProofs` proves, for all values of the constants under
`SchedulerAssumption` (positive bounds, entries of the right shape, lists of
entries):

- `TypeCorrect`: `Spec => []TypeOK`. The step that is not routine is
  `NextRunTyped`: the stored age is subtracted from the interval only when it is
  smaller, so no wait is negative even when the interval changed since.
- `NoOverlapPerJobHolds`: `Spec => []NoOverlapPerJob`. The property alone is not
  inductive: two goroutines are kept apart by the flag, so the invariant
  `OverlapInv` adds `FlagHeld`, that the flag is up while a goroutine holds the
  object of a job without `allow_overlap`. BeginRun needs `FlagHeld` to conclude
  that nobody else holds the object, Release needs the exclusion to conclude that
  lowering the flag hurts nobody, and Leave, Reload and AddJob need that an
  object in use is not reset or rebuilt. `FlagFrame` carries all other steps.

`SchedulerLoopProofs` proves the other safety properties of the scheduler from
six invariants, each of which TLC checked on small instances first.

- `LoopInv` gives `LoopAliveHolds` and `SecondLoopHolds`, for any reloads, refused
  or not, restarts and calls of Stop and Start. One loop per object is not
  inductive: Start adds a loop to each object whose flag `started` is down, so the
  invariant adds `Accounted`, that a goroutine's object is listed and started, or
  stopped, and `HasLoop`, that a started object was given a loop which only the stop
  channel or the context ends. Start then doubles nothing, and a reload retires
  only goroutines that are told to end.
- `SpacedInv` gives `SpacedHolds` under the same conditions. A goroutine comes back
  to the select with a new wait or after a run on start; `StartAllowed` says that
  only jobs with `run_on_start` have the latter. `NextRunApart` and `TickApart` are
  the arithmetic: the wait that `computeNextRun` returns is long enough, and time
  takes from the wait what it adds to the age.
- `TurnInv` gives `DueByMemoryHolds`, assuming `~CanStop`, with any reloads: no run
  begins before it is due by its own object. `SpacedInv` says nothing of the objects
  that a reload has retired, whose goroutines still run, so `TurnOK` carries the
  spacing along with the goroutine: the object's wait is long enough while it is on its
  way to the select, its timer while it is there (`TimerKept`: no goroutine moves the
  timer of another), and the run is due when it leaves it. Nothing may happen to the
  object in between, which is `OneEach`: one goroutine per object at most. Start
  keeps it because a listed object with a goroutine has its flag up (`Accounted`,
  and `ListedRuns`, that no listed object is stopped).
- `SavesRun` gives `RecordKeptHolds`, without assumptions: a goroutine about to save
  holds an object with a last run, as `updateState` has just set it and no object
  in use is made blank. That is all a reload leaves of the record's order: TLC finds
  `DueByRecord` violated with reloads, by a new object that was loaded before the
  retired one saved, and that save may replace a later one.
- `RecordInv` gives `StoreMatchesMemoryHolds`, assuming `~CanReload`: every goroutine
  works on the listed object of its name, so no save goes back to older values.
- `RunsInv` gives `FailuresCountedHolds`, assuming `~CanReload` and `~CanStop`: what
  a goroutine is about to save is one run ahead of the database. With `TurnInv` it
  also gives `DueByRecordHolds`: what the object holds when the run begins is what
  the database holds (`RunnerAlone`), as no other goroutine saves under its name.
- `SchedulerImplementsRecord`: `Spec => RecordsRuns` under the same two assumptions.
  `RunFrom` is the mapped run as a function of object, goroutines and objects, so
  that one lemma speaks of it before and after a step: `RunSame` says when a step
  leaves it alone, `RunIdle` and `RunBusy` what it is without and with a goroutine in
  a run. `QuietStepStutters` covers eight of the loop's steps; BeginRun, the end of
  a run, SaveState, AddJob, the end of the process and Tick have a lemma each.

The two assumptions are values of constants which the run `sched_restart` has too:
a daemon that gets no SIGHUP, and no caller of Stop, which only the tests call
(`scheduler_test.go:78`); `sched_live` shares the second one. They are needed: with
reloads, or with Stop and a second goroutine per object, switched on in
`sched_restart` TLC finds `DueByRecord`, `FailuresCounted` and `RecordsRuns`
violated, as an old and a new object of one name, or two goroutines of one object,
then begin and save runs beside each other; and `DueByMemory` fails with two
goroutines of one object, one of which begins a run on a timer it set before the other ran. Crashes, shutdowns and restarts with
other entries are in.

`AlertProofs` proves `EngineTypeCorrect`, `OneWinnerHolds` and
`EngineImplementsDelivery` for any senders, alerts, channels, retries and engines.
`EngineInv` adds to the types that a worker at work holds an alert and has settled
exactly the channels before its own. That two callers past `isThrottled` never hold
one fingerprint within a window does not survive `PassThrottle` by itself; it needs
that each of them left its mark: `HolderRecorded` says that `lastSeen` is exactly as
old as what the caller holds, for as long as the window lasts. The refinement is the
safety part of `DeliversAccepted`: `Owed` is the worker's alert followed by the
queue, `Enqueue` appends to it, `Take` moves its head without changing it, a channel
that accepts or is given up settles the next place of the outcome, a retry changes
nothing, and other engines are not seen.

`StorageProofs` proves the three properties of `Storage` that hold, for any keys,
retention time and uptime. `NoBaselineOutlives` is inductive beside the type
invariant: `SmallestReached` says that `ForEach` reaches the bucket of the smallest
name whatever else is stored, hence `PruningComplete`; afterwards `Tick` moves the
ages and the cutoff together, what is written is new, and the next start clears
`pruned`. For `OnlyExpiredRemoved` the types are enough: a pruning that fails or dies
has removed a part of the expired.

`BaselineProofs` proves the four properties of `Baseline` for any number of
sources and any positive `MaxSamples` and `Consecutive`: `SamplesFollowCountHolds`,
`NoSampleInventedHolds`, `NoSampleLostHolds` and `DriftAfterRowHolds`. The
properties speak of the stored record, but a write replaces it by a copy read
earlier, so `BaselineInv` extends them to the copies: `WholeRecords` says that each
is well formed and counts no more than was handled, `OneAtATime` that in a serial
behaviour at most one source is at work and its copy agrees with the observers.
`MoveInv` reduces each action to what it does to one source and the record.

`ResultPathProofs` shows `PathImplementsBaseline`: each step of onResult with its
surroundings is a step of `Baseline` or leaves its variables alone, so that the
four theorems hold on the whole path (`PathKeepsBaseline`). For the correlator,
`CorrelatorInv` says that an event of a scanner within some age is kept exactly
when that scanner last reported within it, for all ages inside the window; without
the quantifier over ages it would not survive `Tick`, which makes an event leave
the window. `HeardIs` turns it into the set of scanners that are heard, and
`CorrelationTriggersHolds` counts it. `PathInv` ties the stage of a source to its
findings, in serial behaviours to the row of anomalies, and says of a result that
entered the cache that it stands exactly `passed` places before the end of the
history (`Recorded`), the form in which `Moved`, the effect of Add on the history,
preserves it; `AlertsOnRecordHolds` follows, and from the three invariants together
the types, the limit of the history among them (`PathTypeCorrect`).

`SignatureProofs` proves type correctness (`PanelTypeCorrect`), `StatusMeansCached`,
`SyncedMeansCached`, `SavedNewest`, `PanelNotOlder`, `SpinnerTruthful` and
`QuietMeansAnswered` for any feeds, handlers, settings and number of runs. The
invariant `PanelInv` says who holds the mutex, that the status being built, the one
stored and those shown or on their way are each true of the files but for what a later
import has opened, that only the holder of the mutex opens files and under the number
of its own run, that everything which is stored, shown or on its way back
is no newer than the update at work, and that without early clicks at most one
request of the page is on its way; the last is what orders the answers.

`WebUIProofs` proves `WebTypeCorrect` (no callback runs against the hooks of another
page), `AuthFollowsFileHolds`, `SpinnersTruthfulHolds` and `FreshAtOpeningHolds` for any
tokens, plugins, configuration files and limit of the history. `AuthInv` says that
outside a reload both servers have the tokens of the file, and that a settled request
was judged by them. `FreshInv` says of each answer under way what the page will show
of it: it lists what was in the history when the page was opened and still is, and its
second count what is left of the first. That `Add` drops results makes both sides
smaller; the invariant survives because it compares them with the present history.

The proofs assume the named ASSUMEs of the modules and nothing else.

Only model-checked: liveness (`JobsKeepRunning`, `StoppedLoopsEnd`,
`OldEnginesDrain`, `SpinnerStops`, the fair part of `DeliversAccepted`), which is
out of the prover's reach. Every safety property of the passing runs is proved.

## 5. Not modelled

- *Rules.* The engine is immutable; which rule matches which result is a
  comparison of strings and patterns. Its findings are a choice in `ResultPath`.
- *Latest result.* A map that Add overwrites under the mutex of the history.
- *Plugins.* Most read `/proc` and the file system. The shared state of
  `file_integrity` and `cpu_memory` under concurrent runs is planned.
- *Configuration.* Loading and validation are straight-line; Scheduler takes lists
  of entries that pass Validate and are refused by AddJob.
- *Database errors* other than those of deletes, and the inside of Badger.
- *Other handlers of the API* (health, listings, exports, baselines): they read.
- *Command line, privileges, self-integrity, logging, scripts*: straight-line
  code without state that lives on.
- *Hazards without a property* in `PROJECT.json`: results lost by a crash after
  their run is recorded, an overflowing backoff, unsatisfiable cron expressions.

## 6. Plan

In this order:

1. `ConfigRules`: Validate, defaults, schedules and backoff (with the width of a
   duration) as pure operators.
2. The state of `file_integrity` under concurrent runs and Init.
