------------------------ MODULE SchedulerLoopProofs ------------------------
(***************************************************************************)
(* Proofs about the goroutines of Scheduler and what the database records  *)
(* of their runs: one loop per loaded job, the spacing of runs, and,       *)
(* without reloads, the agreement of the database with the job objects.    *)
(***************************************************************************)
EXTENDS SchedulerProofs, FiniteSetTheorems

-----------------------------------------------------------------------------
(* What the steps do to the goroutines. *)

(* A goroutine that does not end stays on its object, whose entry and      *)
(* stop channel it leaves alone.                                           *)
LEMMA LoopStepMoves ==
    ASSUME TypeOK, NEW t \in Thread, LoopStep(t), ~Leave(t)
    PROVE  /\ phase # "down" /\ UNCHANGED <<phase, ctl, jobs>>
           /\ Alive(t) /\ Alive(t)'
           /\ \A u \in Thread \ {t} : go'[u] = go[u]
           /\ \A o \in Object \ {t[1]} : job'[o] = job[o]
           /\ \A o \in Object : /\ job'[o].cfg = job[o].cfg
                                /\ job'[o].started = job[o].started
                                /\ job'[o].stopped = job[o].stopped
<1> USE ThreadTyped DEF TypeOK, LoopShape, At, Alive
<1>1. CASE LoopTop(t)
  BY <1>1 DEF LoopTop, Proceed, Goto
<1>2. CASE TimerFires(t)
  BY <1>2 DEF TimerFires
<1>3. CASE BeginRun(t)
  BY <1>3 DEF BeginRun, SetJob, JobShape
<1>4. CASE SkipRun(t)
  BY <1>4 DEF SkipRun, Proceed, Goto, AfterRun
<1>5. ASSUME NEW ok \in BOOLEAN, At(t, "plugin"), EndRun(t, ok)
      PROVE  /\ UNCHANGED <<phase, ctl, jobs>> /\ Alive(t)'
             /\ \A u \in Thread \ {t} : go'[u] = go[u]
             /\ \A o \in Object \ {t[1]} : job'[o] = job[o]
             /\ \A o \in Object : /\ job'[o].cfg = job[o].cfg
                                  /\ job'[o].started = job[o].started
                                  /\ job'[o].stopped = job[o].stopped
  BY <1>5 DEF EndRun, SetJob, JobShape
<1>6. CASE PluginSucceeds(t)
  BY <1>5, <1>6 DEF PluginSucceeds
<1>7. CASE PluginFails(t)
  <2>1. CASE go[t].attempt < job[t[1]].cfg.retries
    BY <1>7, <2>1 DEF PluginFails, Goto
  <2>2. CASE ~(go[t].attempt < job[t[1]].cfg.retries)
    BY <1>5, <1>7, <2>2 DEF PluginFails
  <2> QED
    BY <2>1, <2>2
<1>8. CASE BackoffEnds(t)
  BY <1>8 DEF BackoffEnds
<1>9. CASE SaveState(t)
  BY <1>9 DEF SaveState, Goto
<1>10. CASE Deliver(t)
  BY <1>10 DEF Deliver, Goto
<1>11. CASE Release(t)
  BY <1>11 DEF Release, SetJob, Proceed, Goto, AfterRun, JobShape
<1>12. CASE Reschedule(t)
  BY <1>12 DEF Reschedule, SetJob, Goto, JobShape
<1> QED
  BY <1>1, <1>2, <1>3, <1>4, <1>6, <1>7, <1>8, <1>9, <1>10, <1>11, <1>12
     DEF LoopStep

(* A goroutine that ends leaves a listed object as it is; an object that   *)
(* nothing refers to any more is blank.                                    *)
LEMMA LeaveMoves ==
    ASSUME TypeOK, NEW t \in Thread, Leave(t)
    PROVE  /\ phase # "down" /\ UNCHANGED <<phase, ctl, jobs, store>>
           /\ go[t].pc = "wait" /\ Alive(t) /\ ~Alive(t)'
           /\ \A u \in Thread \ {t} : go'[u] = go[u]
           /\ \A o \in Listed : job'[o] = job[o]
           /\ \A u \in Thread \ {t} : Alive(u) => job'[u[1]] = job[u[1]]
           /\ \A o \in Object : job'[o] \in {job[o], BlankJob}
           /\ job[t[1]].stopped \/ phase = "stopping"
<1> USE ThreadTyped DEF TypeOK, LoopShape
<1>1. \A u \in Thread \ {t} : Alive(u) /\ u[1] = t[1] => LoopsOf(t[1]) # {t}
  BY DEF LoopsOf
<1>2. \A o \in Object : o # t[1] => job'[o] = job[o]
  BY DEF Leave
<1>3. t[1] \in Listed => job' = job
  BY DEF Leave
<1>4. job' = job \/ job' = [job EXCEPT ![t[1]] = BlankJob]
  BY DEF Leave
<1>5. \A o \in Object : job'[o] \in {job[o], BlankJob}
  BY <1>4
<1>6. ASSUME NEW u \in Thread \ {t}, Alive(u) PROVE job'[u[1]] = job[u[1]]
  <2>1. CASE u[1] = t[1]
    BY <1>1, <1>6, <2>1 DEF Leave
  <2>2. CASE u[1] # t[1]
    BY <1>2, <2>2
  <2> QED
    BY <2>1, <2>2
<1>7. \A o \in Listed : job'[o] = job[o]
  BY <1>2, <1>3 DEF Listed
<1> QED
  BY <1>5, <1>6, <1>7 DEF Leave, At, Alive, NoThread

(* Start gives each object that needs one a goroutine of its own, a free   *)
(* one, and touches nothing else.                                          *)
LEMMA StartMoves ==
    ASSUME TypeOK, Start
    PROVE  /\ \A o \in ToStart : FreeLoop(o) \in Thread /\ FreeLoop(o)[1] = o /\ ~Alive(FreeLoop(o))
           /\ \A o \in ToStart : go'[FreeLoop(o)] = [NoThread EXCEPT !.pc = "top"]
           /\ \A t \in Thread : Alive(t) => go'[t] = go[t]
           /\ \A t \in Thread : Alive(t)' /\ ~Alive(t) =>
                t[1] \in ToStart /\ t = FreeLoop(t[1])
           /\ \A o \in Object : o \notin ToStart => job'[o] = job[o]
           /\ \A o \in ToStart : job'[o] = [job[o] EXCEPT !.started = TRUE]
<1>1. ASSUME NEW o \in ToStart
      PROVE  FreeLoop(o) \in Thread /\ FreeLoop(o)[1] = o /\ ~Alive(FreeLoop(o))
  BY DEF Start, FreeLoop
<1>2. ToStart \subseteq Object
  BY DEF ToStart, Listed
<1>3. go' = [t \in Thread |->
                IF t[1] \in ToStart /\ t = FreeLoop(t[1])
                THEN [NoThread EXCEPT !.pc = "top"] ELSE go[t]]
  BY DEF Start
<1>4. job' = [o \in Object |->
                 IF o \in ToStart THEN [job[o] EXCEPT !.started = TRUE]
                 ELSE job[o]]
  BY DEF Start
<1>5. \A o \in ToStart : go'[FreeLoop(o)] = [NoThread EXCEPT !.pc = "top"]
  BY <1>1, <1>3
<1>6. \A t \in Thread : Alive(t) => go'[t] = go[t]
  BY <1>1, <1>3
<1>7. \A t \in Thread : Alive(t)' /\ ~Alive(t) => t[1] \in ToStart /\ t = FreeLoop(t[1])
  BY <1>3 DEF Alive
<1> HIDE DEF Start, FreeLoop, ToStart
<1> QED
  BY <1>1, <1>2, <1>4, <1>5, <1>6, <1>7

(* What the passing of time does to a job object and to the records. *)
LEMMA OlderJob ==
    ASSUME NEW r \in JobShape, NEW wait
    PROVE  LET q == [r EXCEPT !.state.last = Older(@), !.wait = wait]
           IN  /\ q.cfg = r.cfg /\ q.started = r.started /\ q.stopped = r.stopped
               /\ q.state = [r.state EXCEPT !.last = Older(@)] /\ q.wait = wait
  BY DEF JobShape

LEMMA OlderRecord ==
    ASSUME NEW s \in JobState
    PROVE  LET q == [s EXCEPT !.last = Older(@)]
           IN  q.last = Older(s.last) /\ q.fails = s.fails
  BY DEF JobState

LEMMA TickMoves ==
    ASSUME TypeOK, Tick
    PROVE  /\ UNCHANGED <<phase, jobs, go>>
           /\ \A n \in Name : /\ store'[n] = [store[n] EXCEPT !.last = Older(@)]
                              /\ store'[n].fails = store[n].fails
           /\ \A o \in Object :
                /\ job'[o].cfg = job[o].cfg
                /\ job'[o].started = job[o].started /\ job'[o].stopped = job[o].stopped
                /\ job'[o].state = [job[o].state EXCEPT !.last = Older(@)]
                /\ job'[o].state.last = Older(job[o].state.last)
                /\ job'[o].state.fails = job[o].state.fails
                /\ job'[o].wait = IF job[o].wait > 0 THEN job[o].wait - 1 ELSE 0
<1>1. UNCHANGED <<phase, jobs, go>>
  BY DEF Tick
<1>2. ASSUME NEW n \in Name
      PROVE  /\ store'[n] = [store[n] EXCEPT !.last = Older(@)]
             /\ store'[n].fails = store[n].fails
  <2>1. store[n] \in JobState /\ store'[n] = [store[n] EXCEPT !.last = Older(@)]
    BY DEF Tick, TypeOK
  <2> QED
    BY <2>1, OlderRecord
<1>3. ASSUME NEW o \in Object
      PROVE  /\ job'[o].cfg = job[o].cfg
             /\ job'[o].started = job[o].started /\ job'[o].stopped = job[o].stopped
             /\ job'[o].state = [job[o].state EXCEPT !.last = Older(@)]
             /\ job'[o].state.last = Older(job[o].state.last)
             /\ job'[o].state.fails = job[o].state.fails
             /\ job'[o].wait = IF job[o].wait > 0 THEN job[o].wait - 1 ELSE 0
  <2> DEFINE w == IF job[o].wait > 0 THEN job[o].wait - 1 ELSE 0
  <2>1. job[o] \in JobShape /\ job[o].state \in JobState
    BY DEF TypeOK, JobShape
  <2>2. job'[o] = [job[o] EXCEPT !.state.last = Older(@), !.wait = w]
    BY DEF Tick, Sooner
  <2> HIDE DEF w
  <2>3. /\ job'[o].cfg = job[o].cfg
        /\ job'[o].started = job[o].started /\ job'[o].stopped = job[o].stopped
        /\ job'[o].state = [job[o].state EXCEPT !.last = Older(@)] /\ job'[o].wait = w
    BY <2>1, <2>2, OlderJob
  <2>4. job'[o].state.last = Older(job[o].state.last) /\ job'[o].state.fails = job[o].state.fails
    BY <2>1, <2>3, OlderRecord
  <2> QED
    BY <2>3, <2>4 DEF w
<1> QED
  BY <1>1, <1>2, <1>3

LEMMA StoppedIs ==
    ASSUME TypeOK, NEW o \in Object
    PROVE  /\ Stopped(o).cfg = job[o].cfg /\ Stopped(o).state = job[o].state
           /\ Stopped(o).wait = job[o].wait
           /\ o \in Listed /\ job[o].started => Stopped(o).stopped /\ ~Stopped(o).started
           /\ ~(o \in Listed /\ job[o].started) => Stopped(o) = job[o]
  BY DEF Stopped, TypeOK, JobShape

LEMMA BlankIs ==
    /\ ~BlankJob.started /\ ~BlankJob.stopped /\ BlankJob.state = NewState
    /\ BlankJob.wait = 0
  BY DEF BlankJob

(* What AddJob does, with the names of the object, its entry and its wait. *)
LEMMA AddJobMoves ==
    ASSUME TypeOK, AddJob
    PROVE  \E o \in FreeObjects, c \in Config :
             /\ jobs[c.name] = NoObject /\ c.name \in Name
             /\ jobs' = [jobs EXCEPT ![c.name] = o]
             /\ \A p \in Object \ {o} : job'[p] = job[p]
             /\ job'[o].cfg = c /\ job'[o].state = store[c.name]
             /\ job'[o].wait \in computeNextRun(c, store[c.name])
             /\ ~job'[o].started /\ ~job'[o].stopped
             /\ phase = "up" /\ UNCHANGED <<phase, store, go>>
<1> DEFINE c == Head(ctl.todo)
<1>1. c \in Config /\ c.name \in Name /\ jobs[c.name] = NoObject
  BY TodoTyped, ConfigTyped DEF AddJob, Acceptable
<1>2. PICK o \in FreeObjects :
        /\ \E w \in computeNextRun(c, loadState(c.name)) : NewJob(o, c, w)
        /\ jobs' = [jobs EXCEPT ![c.name] = o]
  BY DEF AddJob
<1>3. PICK w \in computeNextRun(c, loadState(c.name)) : NewJob(o, c, w)
  BY <1>2
<1>4. phase = "up" /\ UNCHANGED <<phase, store, go>>
  BY DEF AddJob
<1> HIDE DEF c
<1> DEFINE r == [BlankJob EXCEPT !.cfg = c, !.state = store[c.name], !.wait = w]
<1>5. job' = [job EXCEPT ![o] = r]
  BY <1>3 DEF NewJob, loadState
<1>6. /\ r.cfg = c /\ r.state = store[c.name] /\ r.wait = w
      /\ ~r.started /\ ~r.stopped
  BY DEF BlankJob
<1>7. w \in computeNextRun(c, store[c.name])
  BY <1>3 DEF loadState
<1> HIDE DEF r
<1>8. job'[o] = r /\ \A p \in Object \ {o} : job'[p] = job[p]
  BY <1>5 DEF FreeObjects, TypeOK
<1> QED
  BY <1>1, <1>2, <1>4, <1>6, <1>7, <1>8

-----------------------------------------------------------------------------
(***************************************************************************)
(* One loop per job.  A goroutine on a job object accounts for its started *)
(* flag, or the object has been stopped: this is what lets Start conclude  *)
(* that an object without the flag has no goroutine to be doubled, and     *)
(* ReplaceJobs that every goroutine it retires is told to end.             *)
(***************************************************************************)
Accounted ==
    \A t \in Thread :
        Alive(t) => (t[1] \in Listed /\ job[t[1]].started) \/ job[t[1]].stopped

OneLoop ==
    \A t, u \in Thread :
        t # u /\ t[1] = u[1] /\ Alive(t) /\ Alive(u) => job[t[1]].stopped

HasLoop ==
    phase # "stopping" =>
        \A o \in Listed :
            job[o].started /\ ~job[o].stopped
                => \E t \in Thread : t[1] = o /\ Alive(t)

(* A dead process has no jobs and no goroutines. *)
NothingDown ==
    phase = "down" => Listed = {} /\ \A t \in Thread : ~Alive(t)

LoopInv == Accounted /\ OneLoop /\ HasLoop /\ NothingDown

LEMMA ListedTyped == Listed \subseteq Object
  BY DEF Listed

LEMMA DiesLoops ==
    ASSUME TypeOK, Dies
    PROVE  LoopInv' /\ Listed' = {} /\ \A t \in Thread : ~Alive(t)'
<1>1. \A t \in Thread : ~Alive(t)'
  BY DEF Dies, NoThread, Alive
<1>2. Listed' = {}
  BY SchedulerAssumption DEF Dies, Listed
<1> QED
  BY <1>1, <1>2 DEF LoopInv, Accounted, OneLoop, HasLoop, NothingDown

(* Steps that keep the goroutines, the jobs and what their loops depend on.*)
LEMMA LoopFrame ==
    ASSUME TypeOK, LoopInv, phase # "down", phase' # "down",
           phase' = phase \/ phase' = "stopping", UNCHANGED jobs,
           \A t \in Thread : Alive(t)' <=> Alive(t),
           \A o \in Object : /\ job'[o].started = job[o].started
                             /\ job'[o].stopped = job[o].stopped
    PROVE  LoopInv'
<1>1. Listed' = Listed
  BY DEF Listed
<1>2. \A t \in Thread : t[1] \in Object
  BY DEF Thread
<1> QED
  BY <1>1, <1>2, ListedTyped DEF LoopInv, Accounted, OneLoop, HasLoop, NothingDown

LEMMA LeaveLoops ==
    ASSUME TypeOK, LoopInv, NEW t \in Thread, Leave(t)
    PROVE  LoopInv'
<1>1. Listed' = Listed
  BY LeaveMoves DEF Listed
<1>2. ASSUME NEW u \in Thread, Alive(u)'
      PROVE  u # t /\ Alive(u) /\ job'[u[1]] = job[u[1]]
  <2>1. u # t
    BY <1>2, LeaveMoves
  <2> QED
    BY <1>2, <2>1, LeaveMoves DEF Alive
<1>3. Accounted' /\ OneLoop'
  BY <1>1, <1>2 DEF LoopInv, Accounted, OneLoop
<1>4. HasLoop'
  <2> SUFFICES ASSUME phase # "stopping", NEW o \in Listed, job[o].started, ~job[o].stopped
               PROVE  \E u \in Thread : u[1] = o /\ Alive(u)'
    BY <1>1, LeaveMoves DEF HasLoop
  <2>1. PICK u \in Thread : u[1] = o /\ Alive(u)
    BY DEF LoopInv, HasLoop
  <2>2. u # t
    BY <2>1, LeaveMoves
  <2> QED
    BY <2>1, <2>2, LeaveMoves DEF Alive
<1>5. NothingDown'
  BY LeaveMoves DEF NothingDown
<1> QED
  BY <1>3, <1>4, <1>5 DEF LoopInv

LEMMA StartLoops ==
    ASSUME TypeOK, LoopInv, Start, phase = "up", UNCHANGED <<phase, jobs>>
    PROVE  LoopInv'
<1>1. Listed' = Listed /\ ToStart \subseteq Object /\ ToStart \subseteq Listed
  BY DEF Listed, ToStart
<1>2. \A o \in Object : /\ job'[o].stopped = job[o].stopped
                        /\ job'[o].started <=> job[o].started \/ o \in ToStart
  <2> SUFFICES ASSUME NEW o \in Object
               PROVE  /\ job'[o].stopped = job[o].stopped
                      /\ job'[o].started <=> job[o].started \/ o \in ToStart
    OBVIOUS
  <2>1. CASE o \in ToStart
    <3>1. job'[o] = [job[o] EXCEPT !.started = TRUE] /\ job[o] \in JobShape
      BY <2>1, StartMoves DEF TypeOK
    <3> QED
      BY <2>1, <3>1 DEF JobShape
  <2>2. CASE o \notin ToStart
    BY <2>2, StartMoves
  <2> QED
    BY <2>1, <2>2
<1>3. \A t \in Thread : t[1] \in Object /\ (Alive(t) => Alive(t)')
  BY StartMoves, ThreadTyped DEF Alive
<1>4. \A t \in Thread : Alive(t)' /\ ~Alive(t) => t[1] \in ToStart /\ t = FreeLoop(t[1])
  BY StartMoves
<1>5. \A t \in Thread : Alive(t) /\ t[1] \in ToStart => job[t[1]].stopped
  BY DEF LoopInv, Accounted, ToStart
<1>6. Accounted'
  BY <1>1, <1>2, <1>3, <1>4 DEF LoopInv, Accounted
<1>7. OneLoop'
  <2> SUFFICES ASSUME NEW t \in Thread, NEW u \in Thread, t # u, t[1] = u[1],
                      Alive(t)', Alive(u)', ~job[t[1]].stopped
               PROVE  FALSE
    BY <1>2, <1>3 DEF OneLoop
  <2>1. CASE Alive(t) /\ Alive(u)
    BY <2>1 DEF LoopInv, OneLoop
  <2>2. CASE ~Alive(t) /\ ~Alive(u)
    BY <1>4, <2>2
  <2>3. CASE Alive(t) /\ ~Alive(u)
    BY <1>4, <1>5, <2>3
  <2>4. CASE ~Alive(t) /\ Alive(u)
    BY <1>4, <1>5, <2>4
  <2> QED
    BY <2>1, <2>2, <2>3, <2>4
<1>8. HasLoop'
  <2> SUFFICES ASSUME NEW o \in Listed, job'[o].started, ~job'[o].stopped
               PROVE  \E t \in Thread : t[1] = o /\ Alive(t)'
    BY <1>1 DEF HasLoop
  <2>1. CASE o \in ToStart
    BY <2>1, StartMoves DEF Alive, NoThread
  <2>2. CASE o \notin ToStart
    BY <1>1, <1>2, <1>3, <2>2, ListedTyped DEF LoopInv, HasLoop
  <2> QED
    BY <2>1, <2>2
<1> QED
  BY <1>6, <1>7, <1>8 DEF LoopInv, NothingDown

LEMMA LoopInvControl ==
    ASSUME TypeOK, LoopInv, Control \/ Tick
    PROVE  LoopInv'
<1>t. \A t \in Thread : t[1] \in Object
  BY DEF Thread
<1>1. ASSUME NEW list \in Lists, Boot(list) PROVE LoopInv'
  <2>1. UNCHANGED <<jobs, job, go>> /\ phase = "down" /\ phase' = "up"
    BY <1>1 DEF Boot
  <2>2. Listed' = {} /\ \A t \in Thread : ~Alive(t)'
    BY <2>1 DEF LoopInv, NothingDown, Alive, Listed
  <2> QED
    BY <2>1, <2>2 DEF LoopInv, Accounted, OneLoop, HasLoop, NothingDown
<1>2. ASSUME NEW list \in Lists, Reload(list) PROVE LoopInv'
  <2>1. Listed' = {} /\ phase' = "up"
    BY <1>2, SchedulerAssumption DEF Reload, Listed
  <2>2. \A t \in Thread : Alive(t)' <=> Alive(t)
    BY <1>2 DEF Reload, Alive
  <2>3. ASSUME NEW t \in Thread, Alive(t) PROVE job'[t[1]].stopped
    <3>1. t \in LoopsOf(t[1])
      BY <2>3 DEF LoopsOf
    <3>2. job'[t[1]] = Stopped(t[1])
      BY <1>2, <1>t, <3>1 DEF Reload
    <3> QED
      BY <1>t, <2>3, <3>2, StoppedIs DEF LoopInv, Accounted
  <2> QED
    BY <2>1, <2>2, <2>3 DEF LoopInv, Accounted, OneLoop, HasLoop, NothingDown
<1>3. CASE AddJob
  <2>1. PICK o \in FreeObjects, c \in Config :
             /\ jobs[c.name] = NoObject /\ c.name \in Name
             /\ jobs' = [jobs EXCEPT ![c.name] = o]
             /\ \A p \in Object \ {o} : job'[p] = job[p]
             /\ ~job'[o].started /\ ~job'[o].stopped
             /\ phase = "up" /\ UNCHANGED <<phase, store, go>>
    BY <1>3, AddJobMoves
  <2>2. o \in Object /\ \A t \in Thread : Alive(t) => t[1] # o
    BY DEF FreeObjects, LoopsOf
  <2>3. Listed' = Listed \cup {o}
    BY <2>1, <2>2, SchedulerAssumption DEF Listed, TypeOK
  <2>4. \A t \in Thread : Alive(t)' <=> Alive(t)
    BY <2>1 DEF Alive
  <2>5. \A t \in Thread : Alive(t) => job'[t[1]] = job[t[1]]
    BY <1>t, <2>1, <2>2
  <2>6. Accounted' /\ OneLoop'
    BY <2>3, <2>4, <2>5 DEF LoopInv, Accounted, OneLoop
  <2>7. HasLoop'
    BY <2>1, <2>3, <2>4, ListedTyped DEF LoopInv, HasLoop
  <2> QED
    BY <2>1, <2>6, <2>7 DEF LoopInv, NothingDown
<1>4. CASE AddJobFails \/ Cancel
  BY <1>4, LoopFrame DEF AddJobFails, Cancel, Alive
<1>5. CASE StartLoaded \/ StartAgain
  BY <1>5, StartLoops DEF StartLoaded, StartAgain
<1>6. CASE Stop
  <2>1. \A o \in Object : job'[o] = Stopped(o)
    BY <1>6 DEF Stop
  <2>2. phase = "up" /\ UNCHANGED phase /\ Listed' = Listed
        /\ \A t \in Thread : Alive(t)' <=> Alive(t)
    BY <1>6 DEF Stop, Alive, Listed
  <2>3. \A o \in Object : job[o].stopped => job'[o].stopped
    BY <2>1, StoppedIs
  <2>4. \A o \in Object : ~job'[o].stopped => job'[o] = job[o]
    BY <2>1, StoppedIs
  <2> QED
    BY <1>t, <2>2, <2>3, <2>4, ListedTyped
       DEF LoopInv, Accounted, OneLoop, HasLoop, NothingDown
<1>7. CASE StopPanics \/ Exit \/ Crash
  BY <1>7, DiesLoops DEF StopPanics, Exit, Crash
<1>8. CASE Tick
  <2>1. UNCHANGED <<phase, jobs, go>>
    BY <1>8, TickMoves
  <2>2. \A o \in Object : /\ job'[o].started = job[o].started
                          /\ job'[o].stopped = job[o].stopped
    BY <1>8, TickMoves
  <2>3. \A t \in Thread : Alive(t)' <=> Alive(t)
    BY <2>1 DEF Alive
  <2>4. Listed' = Listed
    BY <2>1 DEF Listed
  <2> QED
    BY <1>t, <2>1, <2>2, <2>3, <2>4, ListedTyped
       DEF LoopInv, Accounted, OneLoop, HasLoop, NothingDown
<1> QED
  BY <1>1, <1>2, <1>3, <1>4, <1>5, <1>6, <1>7, <1>8 DEF Control

LEMMA LoopInvHolds == Spec => [](TypeOK /\ LoopInv)
<1>1. Init => LoopInv
  BY SchedulerAssumption
     DEF Init, NoThread, Alive, Listed, LoopInv, Accounted, OneLoop, HasLoop, NothingDown
<1>2. TypeOK /\ LoopInv /\ [Next]_vars => LoopInv'
  <2> SUFFICES ASSUME TypeOK, LoopInv, [Next]_vars PROVE LoopInv'
    OBVIOUS
  <2>1. ASSUME NEW t \in Thread, LoopStep(t) PROVE LoopInv'
    <3>1. CASE Leave(t)
      BY <3>1, LeaveLoops
    <3>2. CASE ~Leave(t)
      <4>1. \A u \in Thread : Alive(u)' <=> Alive(u)
        BY <2>1, <3>2, LoopStepMoves DEF Alive
      <4> QED
        BY <2>1, <3>2, <4>1, LoopStepMoves, LoopFrame
    <3> QED
      BY <3>1, <3>2
  <2>2. CASE UNCHANGED vars
    BY <2>2 DEF vars, Alive, Listed, LoopInv, Accounted, OneLoop, HasLoop, NothingDown
  <2> QED
    BY <2>1, <2>2, LoopInvControl DEF Next
<1> QED
  BY <1>1, <1>2, TypeCorrect, PTL DEF Spec

(* A job that is listed, started and not stopped has exactly one goroutine *)
(* while the daemon is up, whatever reloads, refused entries, skipped and  *)
(* failed runs came before.                                                *)
THEOREM LoopAliveHolds == Spec => []LoopAlive
<1>1. LoopInv => LoopAlive
  <2> SUFFICES ASSUME LoopInv, phase = "up", NEW o \in Listed,
                      job[o].started, ~job[o].stopped
               PROVE  Cardinality(LoopsOf(o)) = 1
    BY DEF LoopAlive
  <2>1. PICK t \in Thread : t[1] = o /\ Alive(t)
    BY DEF LoopInv, HasLoop
  <2>2. \A u \in Thread : u[1] = o /\ Alive(u) => u = t
    BY <2>1 DEF LoopInv, OneLoop
  <2>3. LoopsOf(o) = {t}
    BY <2>1, <2>2 DEF LoopsOf
  <2> QED
    BY <2>3, FS_Singleton
<1> QED
  BY <1>1, LoopInvHolds, PTL

(* A job object has a second goroutine only after it was stopped: Start    *)
(* called twice, or a reload beside it, doubles no loop.                   *)
THEOREM SecondLoopHolds == Spec => []SecondLoopOnlyAfterStop
<1>1. LoopInv => SecondLoopOnlyAfterStop
  <2> SUFFICES ASSUME LoopInv, NEW o \in Object, ~job[o].stopped
               PROVE  ~(Cardinality(LoopsOf(o)) > 1)
    BY DEF SecondLoopOnlyAfterStop
  <2>1. CASE LoopsOf(o) = {}
    BY <2>1, FS_EmptySet
  <2>2. CASE LoopsOf(o) # {}
    <3>1. PICK t \in Thread : t[1] = o /\ Alive(t)
      BY <2>2 DEF LoopsOf
    <3>2. \A u \in Thread : u[1] = o /\ Alive(u) => u = t
      BY <3>1 DEF LoopInv, OneLoop
    <3>3. LoopsOf(o) = {t}
      BY <3>1, <3>2 DEF LoopsOf
    <3> QED
      BY <3>3, FS_Singleton
  <2> QED
    BY <2>1, <2>2
<1> QED
  BY <1>1, LoopInvHolds, PTL

-----------------------------------------------------------------------------
(***************************************************************************)
(* The spacing of runs.  A goroutine leaves the select only with the wait  *)
(* at zero and comes back to it through Reschedule, unless its run was one *)
(* on start: StartAllowed says that only jobs with run_on_start, which the *)
(* property exempts, have such runs.                                       *)
(***************************************************************************)
StartAllowed ==
    \A t \in Thread :
        (go[t].pc = "enter" \/ Holding(t)) /\ go[t].via = "start"
            => job[t[1]].cfg.runOnStart

(* The goroutines of an object are where its wait is up to date. *)
Settled(o) == \A t \in Thread : t[1] = o /\ Alive(t) => go[t].pc \in {"top", "wait"}

Apart(c, s, wait) ==
    c.kind = "interval" /\ ~c.runOnStart /\ s.last # Never => wait + s.last >= c.every

SpacedOK(o) == Settled(o) => Apart(job[o].cfg, job[o].state, job[o].wait)

SpacedInv == StartAllowed /\ \A o \in Listed : SpacedOK(o)

LEMMA SpacedMeans == (\A o \in Listed : SpacedOK(o)) <=> Spaced
  BY DEF Spaced, SpacedOK, Apart, Settled, LoopsOf

(* computeNextRun keeps to LastRun + interval, or starts an interval now. *)
LEMMA NextRunApart ==
    ASSUME NEW c \in Config, NEW s \in JobState, NEW w \in computeNextRun(c, s)
    PROVE  Apart(c, s, w)
  BY ConfigTyped, SchedulerAssumption
     DEF Apart, computeNextRun, SpecNext, JobState, Age, Never

(* Time brings the last run as far as it brings the next one nearer. *)
LEMMA TickApart ==
    ASSUME NEW c \in Config, NEW s \in JobState, NEW w \in 0..Horizon, Apart(c, s, w)
    PROVE  Apart(c, [s EXCEPT !.last = Older(@)], IF w > 0 THEN w - 1 ELSE 0)
<1> DEFINE v == [s EXCEPT !.last = Older(@)]
<1>1. v.last = Older(s.last) /\ s.last \in Age \cup {Never}
  BY DEF JobState
<1> HIDE DEF v
<1>2. c.every \in 1..Horizon /\ Horizon \in Nat
  BY ConfigTyped, SchedulerAssumption
<1>3. Apart(c, v, IF w > 0 THEN w - 1 ELSE 0)
  BY <1>1, <1>2 DEF Apart, Older, Age, Never
<1> QED
  BY <1>3 DEF v

(* A step of a goroutine that is still away from the select, or belongs to *)
(* a job with run_on_start.                                                *)
LEMMA SpacedAway ==
    ASSUME TypeOK, SpacedInv, NEW t \in Thread, LoopStep(t), ~Leave(t),
           go'[t].pc \notin {"top", "wait"} \/ job[t[1]].cfg.runOnStart,
           (go'[t].pc = "enter" \/ Holding(t)') /\ go'[t].via = "start"
             => job[t[1]].cfg.runOnStart
    PROVE  SpacedInv'
<1>1. Listed' = Listed
  BY LoopStepMoves DEF Listed
<1>2. StartAllowed'
  <2> SUFFICES ASSUME NEW u \in Thread, go'[u].pc = "enter" \/ Holding(u)', go'[u].via = "start"
               PROVE  job'[u[1]].cfg.runOnStart
    BY DEF StartAllowed
  <2>1. job'[u[1]].cfg = job[u[1]].cfg
    BY LoopStepMoves, ThreadTyped
  <2>2. CASE u = t
    BY <2>1, <2>2
  <2>3. CASE u # t
    BY <2>1, <2>3, LoopStepMoves DEF SpacedInv, StartAllowed, Holding
  <2> QED
    BY <2>2, <2>3
<1>3. ASSUME NEW o \in Listed PROVE SpacedOK(o)'
  <2>1. CASE o = t[1]
    <3>1. Settled(o)' => job[o].cfg.runOnStart
      BY <2>1, LoopStepMoves DEF Settled
    <3> QED
      BY <2>1, <3>1, LoopStepMoves, ListedTyped DEF SpacedOK, Apart
  <2>2. CASE o # t[1]
    <3>1. job'[o] = job[o]
      BY <2>2, LoopStepMoves, ListedTyped
    <3>2. Settled(o)' => Settled(o)
      BY <2>2, LoopStepMoves DEF Settled, Alive
    <3> QED
      BY <3>1, <3>2 DEF SpacedInv, SpacedOK
  <2> QED
    BY <2>1, <2>2
<1> QED
  BY <1>1, <1>2, <1>3 DEF SpacedInv

(* Steps that change no wait, no state and no entry of a listed job, and   *)
(* after which no goroutine has come back to the select.                   *)
LEMMA SpacedFrame ==
    ASSUME SpacedInv, Listed' \subseteq Listed,
           \A t \in Thread :
             Alive(t)' => \/ go'[t] = go[t] /\ job'[t[1]].cfg = job[t[1]].cfg
                          \/ ~Alive(t) /\ go'[t].pc = "top",
           \A t \in Thread :
             t[1] \in Listed' /\ Alive(t) /\ ~Alive(t)' => go[t].pc = "wait",
           \A o \in Listed' : /\ job'[o].cfg = job[o].cfg
                              /\ job'[o].state = job[o].state
                              /\ job'[o].wait = job[o].wait
    PROVE  SpacedInv'
<1>1. StartAllowed'
  BY DEF SpacedInv, StartAllowed, Holding, Alive
<1>2. ASSUME NEW o \in Listed', Settled(o)' PROVE Settled(o)
  <2> SUFFICES ASSUME NEW t \in Thread, t[1] = o, Alive(t) PROVE go[t].pc \in {"top", "wait"}
    BY DEF Settled
  <2>1. CASE Alive(t)'
    BY <1>2, <2>1 DEF Settled
  <2>2. CASE ~Alive(t)'
    BY <2>2
  <2> QED
    BY <2>1, <2>2
<1> QED
  BY <1>1, <1>2 DEF SpacedInv, SpacedOK

LEMMA LoopStepSpaced ==
    ASSUME TypeOK, SpacedInv, NEW t \in Thread, LoopStep(t)
    PROVE  SpacedInv'
<1> USE ThreadTyped DEF TypeOK, LoopShape
<1>s. (go[t].pc = "enter" \/ Holding(t)) /\ go[t].via = "start" => job[t[1]].cfg.runOnStart
  BY DEF SpacedInv, StartAllowed
<1>1. CASE LoopTop(t)
  <2>1. CASE job[t[1]].cfg.runOnStart /\ job[t[1]].state.last = Never
    <3>1. go'[t].pc = "enter"
      BY <1>1, <2>1 DEF LoopTop
    <3>2. ~Leave(t)
      BY <1>1 DEF LoopTop, Leave, At
    <3> QED
      BY <2>1, <3>1, <3>2, SpacedAway DEF Holding
  <2>2. CASE ~(job[t[1]].cfg.runOnStart /\ job[t[1]].state.last = Never)
    <3>1. /\ UNCHANGED <<jobs, job>> /\ Alive(t) /\ go[t].pc = "top" /\ go'[t].pc = "wait"
          /\ \A u \in Thread \ {t} : go'[u] = go[u]
      BY <1>1, <2>2 DEF LoopTop, Proceed, Goto, At, Alive
    <3>2. Listed' = Listed
      BY <3>1 DEF Listed
    <3>3. \A o \in Listed : Settled(o)' => Settled(o)
      BY <3>1 DEF Settled, Alive
    <3>4. StartAllowed'
      BY <3>1 DEF SpacedInv, StartAllowed, Holding
    <3> QED
      BY <3>1, <3>2, <3>3, <3>4 DEF SpacedInv, SpacedOK
  <2> QED
    BY <2>1, <2>2
<1>2. CASE TimerFires(t)
  <2>1. go'[t].pc = "enter" /\ go'[t].via = "timer" /\ UNCHANGED job
    BY <1>2 DEF TimerFires
  <2>2. CASE Leave(t)
    BY <1>2, <2>2 DEF TimerFires, Leave, NoThread
  <2> QED
    BY <2>1, <2>2, SpacedAway
<1>3. CASE Leave(t)
  <2>1. Listed' = Listed /\ \A o \in Listed : job'[o] = job[o]
    BY <1>3, LeaveMoves DEF Listed
  <2>2. \A u \in Thread : Alive(u)' => u # t
    BY <1>3, LeaveMoves
  <2>3. \A u \in Thread : Alive(u)' => go'[u] = go[u] /\ job'[u[1]].cfg = job[u[1]].cfg
    BY <1>3, <2>2, LeaveMoves DEF Alive
  <2>4. \A u \in Thread : Alive(u) /\ ~Alive(u)' => go[u].pc = "wait"
    BY <1>3, LeaveMoves DEF Alive
  <2> QED
    BY <2>1, <2>3, <2>4, SpacedFrame
<1>4. CASE BeginRun(t)
  <2>1. go'[t].pc = "plugin" /\ go'[t].via = go[t].via /\ go[t].pc = "enter"
    BY <1>4 DEF BeginRun, At
  <2> QED
    BY <1>4, <1>s, <2>1, SpacedAway DEF Leave, At
<1>5. CASE SkipRun(t)
  <2>1. go'[t].pc = AfterRun(t) /\ go'[t].via = go[t].via /\ go[t].pc = "enter"
    BY <1>5 DEF SkipRun, At, Proceed, Goto
  <2> QED
    BY <1>5, <1>s, <2>1, SpacedAway DEF Leave, At, AfterRun
<1>6. CASE PluginSucceeds(t) \/ PluginFails(t) \/ BackoffEnds(t) \/ SaveState(t) \/ Deliver(t)
  <2>1. /\ go'[t].pc \in {"plugin", "sleep", "save", "deliver", "release"}
        /\ go'[t].via = go[t].via /\ Holding(t)
    BY <1>6 DEF PluginSucceeds, PluginFails, EndRun, BackoffEnds, SaveState, Deliver, Goto, At, Holding
  <2> QED
    BY <1>s, <2>1, SpacedAway DEF Leave, At, Holding
<1>7. CASE Release(t)
  <2>1. go'[t].pc = AfterRun(t) /\ go'[t].via = go[t].via /\ Holding(t)
    BY <1>7 DEF Release, At, Proceed, Goto, Holding
  <2> QED
    BY <1>s, <2>1, SpacedAway DEF Leave, At, AfterRun, Holding
<1>8. CASE Reschedule(t)
  <2>1. PICK w \in computeNextRun(job[t[1]].cfg, job[t[1]].state) :
          SetJob(t, [job[t[1]] EXCEPT !.wait = w])
    BY <1>8 DEF Reschedule
  <2>2. /\ job'[t[1]].wait = w /\ job'[t[1]].cfg = job[t[1]].cfg
        /\ job'[t[1]].state = job[t[1]].state
        /\ \A o \in Object \ {t[1]} : job'[o] = job[o]
    BY <2>1 DEF SetJob, JobShape
  <2>3. /\ UNCHANGED jobs /\ go'[t].pc = "top"
        /\ \A u \in Thread \ {t} : go'[u] = go[u]
    BY <1>8 DEF Reschedule, Goto
  <2>4. Listed' = Listed
    BY <2>3 DEF Listed
  <2>5. StartAllowed'
    BY <2>2, <2>3 DEF SpacedInv, StartAllowed, Holding
  <2>6. ASSUME NEW o \in Listed PROVE SpacedOK(o)'
    <3>1. CASE o = t[1]
      <4>1. Apart(job[t[1]].cfg, job[t[1]].state, w)
        BY <2>1, NextRunApart
      <4> QED
        BY <2>2, <3>1, <4>1 DEF SpacedOK
    <3>2. CASE o # t[1]
      <4>1. Settled(o)' => Settled(o)
        BY <2>3, <3>2 DEF Settled, Alive
      <4>2. job'[o] = job[o]
        BY <2>2, <3>2, ListedTyped
      <4> QED
        BY <4>1, <4>2 DEF SpacedInv, SpacedOK
    <3> QED
      BY <3>1, <3>2
  <2> QED
    BY <2>4, <2>5, <2>6 DEF SpacedInv
<1> QED
  BY <1>1, <1>2, <1>3, <1>4, <1>5, <1>6, <1>7, <1>8 DEF LoopStep

LEMMA ControlSpaced ==
    ASSUME TypeOK, SpacedInv, Control \/ Tick
    PROVE  SpacedInv'
<1>t. \A t \in Thread : t[1] \in Object
  BY DEF Thread
<1>1. CASE Dies
  BY <1>1, SchedulerAssumption
     DEF Dies, Listed, NoThread, Holding, SpacedInv, StartAllowed
<1>2. CASE (\E list \in Lists : Boot(list)) \/ AddJobFails \/ Cancel
  <2>1. UNCHANGED <<jobs, job, go>>
    BY <1>2 DEF Boot, AddJobFails, Cancel
  <2> QED
    BY <2>1 DEF SpacedInv, StartAllowed, SpacedOK, Settled, Alive, Holding, Listed
<1>3. ASSUME NEW list \in Lists, Reload(list) PROVE SpacedInv'
  <2>1. Listed' = {} /\ UNCHANGED go
    BY <1>3, SchedulerAssumption DEF Reload, Listed
  <2>2. \A t \in Thread : Alive(t) => job'[t[1]] = Stopped(t[1])
    BY <1>3, <1>t DEF Reload, LoopsOf
  <2>3. \A t \in Thread : Alive(t) => job'[t[1]].cfg = job[t[1]].cfg
    BY <1>t, <2>2, StoppedIs
  <2> QED
    BY <2>1, <2>3, SpacedFrame DEF Alive
<1>4. CASE AddJob
  <2>1. PICK o \in FreeObjects, c \in Config :
             /\ jobs[c.name] = NoObject /\ c.name \in Name
             /\ jobs' = [jobs EXCEPT ![c.name] = o]
             /\ \A p \in Object \ {o} : job'[p] = job[p]
             /\ job'[o].cfg = c /\ job'[o].state = store[c.name]
             /\ job'[o].wait \in computeNextRun(c, store[c.name])
             /\ UNCHANGED go
    BY <1>4, AddJobMoves
  <2>2. o \in Object /\ \A t \in Thread : Alive(t) => t[1] # o
    BY DEF FreeObjects, LoopsOf
  <2>3. Listed' = Listed \cup {o}
    BY <2>1, <2>2, SchedulerAssumption DEF Listed, TypeOK
  <2>4. SpacedOK(o)'
    <3>1. store[c.name] \in JobState
      BY <2>1 DEF TypeOK
    <3> QED
      BY <2>1, <3>1, NextRunApart DEF SpacedOK
  <2>5. \A p \in Listed : p # o => SpacedOK(p)'
    BY <2>1, ListedTyped DEF SpacedInv, SpacedOK, Settled, Alive
  <2>6. StartAllowed'
    BY <1>t, <2>1, <2>2 DEF SpacedInv, StartAllowed, Holding, Alive
  <2> QED
    BY <2>3, <2>4, <2>5, <2>6 DEF SpacedInv
<1>5. CASE StartLoaded \/ StartAgain
  <2>1. Start /\ UNCHANGED jobs
    BY <1>5 DEF StartLoaded, StartAgain
  <2>2. Listed' = Listed
    BY <2>1 DEF Listed
  <2>3. \A o \in Object : /\ job'[o].cfg = job[o].cfg
                          /\ job'[o].state = job[o].state
                          /\ job'[o].wait = job[o].wait
    BY <2>1 DEF Start, TypeOK, JobShape
  <2>4. \A t \in Thread : Alive(t) => go'[t] = go[t]
    BY <2>1, StartMoves
  <2>5. \A t \in Thread : Alive(t)' /\ ~Alive(t) => go'[t].pc = "top"
    BY <2>1, StartMoves DEF NoThread
  <2>6. \A t \in Thread : Alive(t) => Alive(t)'
    BY <2>4 DEF Alive
  <2> QED
    BY <1>t, <2>2, <2>3, <2>4, <2>5, <2>6, ListedTyped, SpacedFrame
<1>6. CASE Stop
  <2>1. UNCHANGED <<jobs, go>> /\ \A o \in Object : job'[o] = Stopped(o)
    BY <1>6 DEF Stop
  <2>2. Listed' = Listed
    BY <2>1 DEF Listed
  <2> QED
    BY <1>t, <2>1, <2>2, ListedTyped, StoppedIs, SpacedFrame DEF Alive
<1>7. CASE Tick
  <2>1. UNCHANGED <<jobs, go>>
    BY <1>7 DEF Tick
  <2>2. Listed' = Listed
    BY <2>1 DEF Listed
  <2>3. ASSUME NEW o \in Object
        PROVE  /\ job'[o].cfg = job[o].cfg
               /\ job'[o].state = [job[o].state EXCEPT !.last = Older(@)]
               /\ job'[o].wait = IF job[o].wait > 0 THEN job[o].wait - 1 ELSE 0
               /\ job[o].cfg \in Config /\ job[o].state \in JobState
               /\ job[o].wait \in 0..Horizon
    <3>1. job[o] \in JobShape
      BY DEF TypeOK
    <3> QED
      BY <1>7, <3>1, TickMoves DEF JobShape
  <2>4. ASSUME NEW o \in Listed PROVE SpacedOK(o)'
    <3>1. Settled(o)' => Settled(o)
      BY <2>1 DEF Settled, Alive
    <3>2. Apart(job[o].cfg, job[o].state, job[o].wait)
            => Apart(job'[o].cfg, job'[o].state, job'[o].wait)
      <4>1. /\ job[o].cfg \in Config /\ job[o].state \in JobState
            /\ job[o].wait \in 0..Horizon
        BY <2>3, ListedTyped
      <4>2. Apart(job[o].cfg, job[o].state, job[o].wait)
              => Apart(job[o].cfg, [job[o].state EXCEPT !.last = Older(@)],
                       IF job[o].wait > 0 THEN job[o].wait - 1 ELSE 0)
        BY <4>1, TickApart
      <4> QED
        BY <2>3, <4>2, ListedTyped
    <3> QED
      BY <3>1, <3>2 DEF SpacedInv, SpacedOK
  <2>5. StartAllowed'
    BY <1>t, <2>1, <2>3 DEF SpacedInv, StartAllowed, Holding
  <2> QED
    BY <2>2, <2>4, <2>5 DEF SpacedInv
<1> QED
  BY <1>1, <1>2, <1>3, <1>4, <1>5, <1>6, <1>7 DEF Control, StopPanics, Exit, Crash

LEMMA SpacedInvHolds == Spec => []SpacedInv
<1>1. Init => SpacedInv
  BY SchedulerAssumption
     DEF Init, NoThread, Holding, Listed, SpacedInv, StartAllowed
<1>2. TypeOK /\ SpacedInv /\ [Next]_vars => SpacedInv'
  <2>1. UNCHANGED vars /\ SpacedInv => SpacedInv'
    BY DEF vars, SpacedInv, StartAllowed, SpacedOK, Settled, Alive, Holding, Listed
  <2> QED
    BY <2>1, LoopStepSpaced, ControlSpaced DEF Next
<1> QED
  BY <1>1, <1>2, TypeCorrect, PTL DEF Spec

(* Through retries, skipped runs, reloads, Stop and Start, crashes and     *)
(* restarts, the next run of an interval job without run_on_start stays    *)
(* one interval behind the last recorded one.                              *)
THEOREM SpacedHolds == Spec => []Spaced
<1>1. SpacedInv => Spaced
  BY SpacedMeans DEF SpacedInv
<1> QED
  BY <1>1, SpacedInvHolds, PTL

-----------------------------------------------------------------------------
(***************************************************************************)
(* When runs begin, through reloads, as long as nobody calls Stop.  Every  *)
(* job object, retired ones included, then has one goroutine at most, so   *)
(* nothing happens to the object between the moment its goroutine is found *)
(* to be due and the run: the timer it waits for says what nextRun says.   *)
(* Retired objects are outside SpacedInv: TurnOK carries the spacing along *)
(* with the goroutine instead.                                             *)
(***************************************************************************)
ListedRuns == \A o \in Listed : ~job[o].stopped

OneEach == \A t, u \in Thread : t # u /\ Alive(t) /\ Alive(u) => t[1] # u[1]

TurnOK(t) ==
    LET c == job[t[1]].cfg  s == job[t[1]].state
    IN  /\ go[t].pc = "top" => Apart(c, s, job[t[1]].wait)
        /\ go[t].pc = "wait" => Apart(c, s, timer[t])
        /\ go[t].pc = "enter" => RunDue(c, s, go[t].via)

TurnInv == ListedRuns /\ OneEach /\ \A t \in Thread : TurnOK(t)

LEMMA TurnDead ==
    ASSUME NEW t \in Thread, ~Alive(t)
    PROVE  TurnOK(t)
  BY DEF Alive, TurnOK

(* Steps that leave the goroutine and what its turn depends on alone. *)
LEMMA TurnFrame ==
    ASSUME NEW t \in Thread, TurnOK(t), go'[t] = go[t],
           job'[t[1]].cfg = job[t[1]].cfg, job'[t[1]].state = job[t[1]].state,
           job'[t[1]].wait = job[t[1]].wait, timer'[t] = timer[t]
    PROVE  TurnOK(t)'
  BY DEF TurnOK

(* No goroutine moves the timer of another. *)
LEMMA TimerKept ==
    ASSUME TypeOK, NEW t \in Thread, LoopStep(t), NEW u \in Thread \ {t}
    PROVE  timer'[u] = timer[u]
<1>1. CASE UNCHANGED timer
  BY <1>1
<1>2. CASE LoopTop(t) \/ SkipRun(t) \/ Release(t)
  BY <1>2, ProceedTyped DEF LoopTop, SkipRun, Release
<1>3. CASE Leave(t)
  BY <1>3 DEF Leave, TypeOK
<1>4. CASE PluginFails(t)
  BY <1>1, <1>4 DEF PluginFails, EndRun
<1>5. CASE TimerFires(t) \/ BeginRun(t) \/ PluginSucceeds(t) \/ BackoffEnds(t)
           \/ SaveState(t) \/ Deliver(t) \/ Reschedule(t)
  BY <1>1, <1>5 DEF TimerFires, BeginRun, PluginSucceeds, EndRun, BackoffEnds, SaveState,
                    Deliver, Reschedule
<1> QED
  BY <1>2, <1>3, <1>4, <1>5 DEF LoopStep

(* The turn of the goroutine that takes the step. *)
LEMMA OwnTurn ==
    ASSUME TypeOK, SpacedInv, NEW t \in Thread, TurnOK(t), LoopStep(t)
    PROVE  TurnOK(t)'
<1> USE ThreadTyped DEF TypeOK, LoopShape
<1>s. (go[t].pc = "enter" \/ Holding(t)) /\ go[t].via = "start" => job[t[1]].cfg.runOnStart
  BY DEF SpacedInv, StartAllowed
<1>1. CASE LoopTop(t)
  <2>1. UNCHANGED job /\ go[t].pc = "top"
    BY <1>1 DEF LoopTop, At
  <2>2. CASE job[t[1]].cfg.runOnStart /\ job[t[1]].state.last = Never
    <3>1. go'[t].pc = "enter"
      BY <1>1, <2>2 DEF LoopTop
    <3> QED
      BY <2>1, <2>2, <3>1 DEF TurnOK, RunDue
  <2>3. CASE ~(job[t[1]].cfg.runOnStart /\ job[t[1]].state.last = Never)
    <3>1. go'[t].pc = "wait" /\ timer'[t] = job[t[1]].wait
      BY <1>1, <2>3, ProceedTyped DEF LoopTop, Goto
    <3> QED
      BY <2>1, <3>1 DEF TurnOK
  <2> QED
    BY <2>2, <2>3
<1>2. CASE TimerFires(t)
  <2>1. /\ UNCHANGED job /\ go'[t].pc = "enter" /\ go'[t].via = "timer"
        /\ timer[t] = 0 /\ go[t].pc = "wait"
    BY <1>2 DEF TimerFires, At
  <2>2. Apart(job[t[1]].cfg, job[t[1]].state, 0)
    BY <2>1 DEF TurnOK
  <2>3. RunDue(job[t[1]].cfg, job[t[1]].state, "timer")
    BY <2>2 DEF Apart, RunDue, JobState, Age
  <2> QED
    BY <2>1, <2>3 DEF TurnOK
<1>3. CASE Leave(t)
  BY <1>3, LeaveMoves, TurnDead DEF TurnOK, Alive
<1>4. CASE SkipRun(t) \/ Release(t)
  <2>1. go'[t].pc = AfterRun(t) /\ (go[t].pc = "enter" \/ Holding(t))
    BY <1>4 DEF SkipRun, Release, Proceed, Goto, At, Holding
  <2>2. job'[t[1]].cfg = job[t[1]].cfg
    <3>1. ~Leave(t)
      BY <1>4 DEF SkipRun, Release, Leave, At
    <3> QED
      BY <3>1, LoopStepMoves
  <2>3. CASE go[t].via = "start"
    BY <1>s, <2>1, <2>2, <2>3 DEF TurnOK, AfterRun, Apart
  <2>4. CASE go[t].via # "start"
    BY <2>1, <2>4 DEF TurnOK, AfterRun
  <2> QED
    BY <2>3, <2>4
<1>5. CASE BeginRun(t)
  <2>1. go'[t].pc = "plugin"
    BY <1>5 DEF BeginRun
  <2> QED
    BY <2>1 DEF TurnOK
<1>6. CASE PluginSucceeds(t) \/ PluginFails(t) \/ BackoffEnds(t) \/ SaveState(t) \/ Deliver(t)
  <2>1. go'[t].pc \in {"plugin", "sleep", "save", "deliver", "release"}
    BY <1>6 DEF PluginSucceeds, PluginFails, EndRun, BackoffEnds, SaveState, Deliver, Goto, At
  <2> QED
    BY <2>1 DEF TurnOK
<1>7. CASE Reschedule(t)
  <2>1. PICK w \in computeNextRun(job[t[1]].cfg, job[t[1]].state) :
          SetJob(t, [job[t[1]] EXCEPT !.wait = w])
    BY <1>7 DEF Reschedule
  <2>2. /\ job'[t[1]].wait = w /\ job'[t[1]].cfg = job[t[1]].cfg
        /\ job'[t[1]].state = job[t[1]].state
    BY <2>1 DEF SetJob, JobShape
  <2>3. go'[t].pc = "top"
    BY <1>7 DEF Reschedule, Goto
  <2>4. Apart(job[t[1]].cfg, job[t[1]].state, w)
    BY <2>1, NextRunApart
  <2> QED
    BY <2>2, <2>3, <2>4 DEF TurnOK
<1> QED
  BY <1>1, <1>2, <1>3, <1>4, <1>5, <1>6, <1>7 DEF LoopStep

LEMMA LoopStepTurns ==
    ASSUME TypeOK, SpacedInv, TurnInv, NEW t \in Thread, LoopStep(t)
    PROVE  TurnInv'
<1>t. \A u \in Thread : u[1] \in Object
  BY DEF Thread
<1>1. /\ UNCHANGED jobs /\ Alive(t) /\ \A u \in Thread \ {t} : go'[u] = go[u]
      /\ \A o \in Listed : job'[o].stopped = job[o].stopped
  BY LoopStepMoves, LeaveMoves, ListedTyped
<1>2. Listed' = Listed
  BY <1>1 DEF Listed
<1>3. \A u \in Thread : Alive(u)' => Alive(u)
  BY <1>1 DEF Alive
<1>4. ListedRuns' /\ OneEach'
  BY <1>1, <1>2, <1>3 DEF TurnInv, ListedRuns, OneEach
<1>5. ASSUME NEW u \in Thread PROVE TurnOK(u)'
  <2>1. CASE u = t
    BY <2>1, OwnTurn DEF TurnInv
  <2>2. CASE u # t /\ ~Alive(u)
    BY <1>1, <2>2 DEF Alive, TurnOK
  <2>3. CASE u # t /\ Alive(u)
    <3>1. u[1] # t[1]
      BY <1>1, <2>3 DEF TurnInv, OneEach
    <3>2. job'[u[1]] = job[u[1]]
      BY <1>t, <2>3, <3>1, LoopStepMoves, LeaveMoves
    <3> QED
      BY <1>1, <2>3, <3>2, TimerKept, TurnFrame DEF TurnInv
  <2> QED
    BY <2>1, <2>2, <2>3
<1> QED
  BY <1>4, <1>5 DEF TurnInv

(* Start makes a second goroutine for no object, and the first one of an   *)
(* object finds its wait one interval behind the last run.                 *)
LEMMA StartTurns ==
    ASSUME TypeOK, LoopInv, SpacedInv, TurnInv, Start, UNCHANGED <<jobs, timer>>
    PROVE  TurnInv'
<1>t. \A t \in Thread : t[1] \in Object /\ (Alive(t) => go'[t] = go[t])
  BY StartMoves DEF Thread
<1>1. Listed' = Listed
  BY DEF Listed
<1>2. ASSUME NEW o \in Object
      PROVE  /\ job'[o].cfg = job[o].cfg /\ job'[o].state = job[o].state
             /\ job'[o].wait = job[o].wait /\ job'[o].stopped = job[o].stopped
  <2>1. job[o] \in JobShape
    BY DEF TypeOK
  <2>2. CASE o \in ToStart
    <3>1. job'[o] = [job[o] EXCEPT !.started = TRUE]
      BY <2>2, StartMoves
    <3> QED
      BY <2>1, <3>1 DEF JobShape
  <2>3. CASE o \notin ToStart
    BY <2>3, StartMoves
  <2> QED
    BY <2>2, <2>3
<1>3. ASSUME NEW t \in Thread, Alive(t) PROVE t[1] \notin ToStart
  <2>1. (t[1] \in Listed /\ job[t[1]].started) \/ job[t[1]].stopped
    BY <1>3 DEF LoopInv, Accounted
  <2> QED
    BY <2>1 DEF ToStart, TurnInv, ListedRuns
<1>4. \A t \in Thread : Alive(t)' /\ ~Alive(t) => t[1] \in ToStart /\ t = FreeLoop(t[1])
  BY StartMoves
<1>5. OneEach'
  <2> SUFFICES ASSUME NEW t \in Thread, NEW u \in Thread, t # u, t[1] = u[1], Alive(t)', Alive(u)'
               PROVE  FALSE
    BY DEF OneEach
  <2>1. CASE Alive(t) /\ Alive(u)
    BY <2>1 DEF TurnInv, OneEach
  <2>2. CASE ~Alive(t) /\ ~Alive(u)
    BY <1>4, <2>2
  <2>3. CASE Alive(t) /\ ~Alive(u)
    BY <1>3, <1>4, <2>3
  <2>4. CASE ~Alive(t) /\ Alive(u)
    BY <1>3, <1>4, <2>4
  <2> QED
    BY <2>1, <2>2, <2>3, <2>4
<1>6. ListedRuns'
  BY <1>1, <1>2, ListedTyped DEF TurnInv, ListedRuns
<1>7. ASSUME NEW t \in Thread PROVE TurnOK(t)'
  <2>1. CASE Alive(t)
    BY <1>t, <1>2, <2>1, TurnFrame DEF TurnInv
  <2>2. CASE ~Alive(t) /\ Alive(t)'
    <3>1. t[1] \in ToStart /\ t = FreeLoop(t[1])
      BY <1>4, <2>2
    <3>2. go'[t].pc = "top"
      BY <3>1, StartMoves DEF NoThread
    <3>3. t[1] \in Listed /\ Settled(t[1])
      BY <1>3, <3>1 DEF ToStart, Settled
    <3>4. Apart(job[t[1]].cfg, job[t[1]].state, job[t[1]].wait)
      BY <3>3 DEF SpacedInv, SpacedOK
    <3> QED
      BY <1>t, <1>2, <3>2, <3>4 DEF TurnOK
  <2>3. CASE ~Alive(t)'
    BY <2>3 DEF Alive, TurnOK
  <2> QED
    BY <2>1, <2>2, <2>3
<1> QED
  BY <1>5, <1>6, <1>7 DEF TurnInv

(* Time makes no run early and brings no record into being. *)
LEMMA TickDue ==
    ASSUME NEW c \in Config, NEW s \in JobState, NEW via, RunDue(c, s, via)
    PROVE  RunDue(c, [s EXCEPT !.last = Older(@)], via)
<1> DEFINE v == [s EXCEPT !.last = Older(@)]
<1>1. v.last = Older(s.last) /\ s.last \in Age \cup {Never}
  BY DEF JobState
<1> HIDE DEF v
<1>2. c.every \in 1..Horizon /\ Horizon \in Nat
  BY ConfigTyped, SchedulerAssumption
<1>3. RunDue(c, v, via)
  BY <1>1, <1>2 DEF RunDue, Older, Age, Never
<1> QED
  BY <1>3 DEF v

LEMMA TickTurns ==
    ASSUME TypeOK, TurnInv, Tick
    PROVE  TurnInv'
<1>1. UNCHANGED <<jobs, go>>
  BY DEF Tick
<1>2. Listed' = Listed
  BY <1>1 DEF Listed
<1>3. ListedRuns' /\ OneEach'
  BY <1>1, <1>2, TickMoves, ListedTyped DEF TurnInv, ListedRuns, OneEach, Alive
<1>4. ASSUME NEW t \in Thread PROVE TurnOK(t)'
  <2> DEFINE o == t[1]
  <2>1. o \in Object /\ job[o] \in JobShape
    BY ThreadTyped
  <2>2. /\ job[o].cfg \in Config /\ job[o].state \in JobState /\ job[o].wait \in 0..Horizon
        /\ timer[t] \in 0..Horizon /\ timer'[t] = IF timer[t] > 0 THEN timer[t] - 1 ELSE 0
    BY <2>1 DEF JobShape, TypeOK, Tick, Sooner
  <2>3. /\ job'[o].cfg = job[o].cfg
        /\ job'[o].state = [job[o].state EXCEPT !.last = Older(@)]
        /\ job'[o].wait = IF job[o].wait > 0 THEN job[o].wait - 1 ELSE 0
    BY <2>1, TickMoves
  <2>4. TurnOK(t)
    BY DEF TurnInv
  <2>5. /\ go[t].pc = "top" => Apart(job[o].cfg, job[o].state, job[o].wait)
        /\ go[t].pc = "wait" => Apart(job[o].cfg, job[o].state, timer[t])
    BY <2>4 DEF TurnOK
  <2>6. go[t].pc = "enter" => RunDue(job[o].cfg, job[o].state, go[t].via)
    BY <2>4 DEF TurnOK
  <2> HIDE DEF o
  <2>7. /\ go[t].pc = "top" => Apart(job'[o].cfg, job'[o].state, job'[o].wait)
        /\ go[t].pc = "wait" => Apart(job'[o].cfg, job'[o].state, timer'[t])
    BY <2>2, <2>3, <2>5, TickApart
  <2>8. go[t].pc = "enter" => RunDue(job'[o].cfg, job'[o].state, go[t].via)
    BY <2>2, <2>3, <2>6, TickDue
  <2> QED
    BY <1>1, <2>7, <2>8 DEF TurnOK, o
<1> QED
  BY <1>3, <1>4 DEF TurnInv

LEMMA ControlTurns ==
    ASSUME ~CanStop, TypeOK, LoopInv, SpacedInv, TurnInv, Control
    PROVE  TurnInv'
<1>t. \A t \in Thread : t[1] \in Object /\ TurnOK(t)
  BY DEF Thread, TurnInv
<1>1. CASE Dies
  <2>1. Listed' = {} /\ \A t \in Thread : ~Alive(t)'
    BY <1>1, DiesLoops
  <2> QED
    BY <2>1 DEF TurnInv, ListedRuns, OneEach, TurnOK, Alive
<1>2. CASE (\E list \in Lists : Boot(list)) \/ AddJobFails \/ Cancel
  <2>1. UNCHANGED <<jobs, job, go, timer>>
    BY <1>2 DEF Boot, AddJobFails, Cancel
  <2>2. Listed' = Listed /\ \A t \in Thread : TurnOK(t)'
    BY <1>t, <2>1, TurnFrame DEF Listed
  <2> QED
    BY <2>1, <2>2 DEF TurnInv, ListedRuns, OneEach, Alive
<1>3. ASSUME NEW list \in Lists, Reload(list) PROVE TurnInv'
  <2>1. Listed' = {} /\ UNCHANGED <<go, timer>>
    BY <1>3, SchedulerAssumption DEF Reload, Listed
  <2>2. ASSUME NEW t \in Thread PROVE TurnOK(t)'
    <3>1. CASE Alive(t)
      <4>1. job'[t[1]] = Stopped(t[1])
        BY <1>3, <1>t, <3>1 DEF Reload, LoopsOf
      <4> QED
        BY <1>t, <2>1, <4>1, StoppedIs, TurnFrame
    <3>2. CASE ~Alive(t)
      BY <2>1, <3>2 DEF Alive, TurnOK
    <3> QED
      BY <3>1, <3>2
  <2> QED
    BY <2>1, <2>2 DEF TurnInv, ListedRuns, OneEach, Alive
<1>4. CASE AddJob
  <2>1. PICK o \in FreeObjects, c \in Config :
             /\ jobs[c.name] = NoObject /\ c.name \in Name
             /\ jobs' = [jobs EXCEPT ![c.name] = o]
             /\ \A p \in Object \ {o} : job'[p] = job[p]
             /\ ~job'[o].stopped /\ UNCHANGED <<go, timer>>
    BY <1>4, AddJobMoves DEF AddJob
  <2>2. o \in Object /\ \A t \in Thread : Alive(t) => t[1] # o
    BY DEF FreeObjects, LoopsOf
  <2>3. Listed' = Listed \cup {o}
    BY <2>1, <2>2, SchedulerAssumption DEF Listed, TypeOK
  <2>4. ListedRuns' /\ OneEach'
    BY <2>1, <2>3, ListedTyped DEF TurnInv, ListedRuns, OneEach, Alive
  <2>5. ASSUME NEW t \in Thread PROVE TurnOK(t)'
    <3>1. CASE Alive(t)
      <4>1. job'[t[1]] = job[t[1]]
        BY <1>t, <2>1, <2>2, <3>1
      <4> QED
        BY <1>t, <2>1, <4>1, TurnFrame
    <3>2. CASE ~Alive(t)
      BY <2>1, <3>2 DEF Alive, TurnOK
    <3> QED
      BY <3>1, <3>2
  <2> QED
    BY <2>4, <2>5 DEF TurnInv
<1>5. CASE StartLoaded
  BY <1>5, StartTurns DEF StartLoaded
<1> QED
  BY <1>1, <1>2, <1>3, <1>4, <1>5 DEF Control, StartAgain, Stop, StopPanics, Exit, Crash

LEMMA TurnInvHolds ==
    ASSUME ~CanStop
    PROVE  Spec => [](TypeOK /\ TurnInv)
<1>1. Init => TurnInv
  BY SchedulerAssumption
     DEF Init, NoThread, Alive, Listed, TurnInv, ListedRuns, OneEach, TurnOK
<1>2. TypeOK /\ LoopInv /\ SpacedInv /\ TurnInv /\ [Next]_vars => TurnInv'
  <2>1. TurnInv /\ UNCHANGED vars => TurnInv'
    BY DEF vars, TurnInv, ListedRuns, OneEach, TurnOK, Alive, Listed
  <2> QED
    BY <2>1, LoopStepTurns, ControlTurns, TickTurns DEF Next
<1> QED
  BY <1>1, <1>2, LoopInvHolds, SpacedInvHolds, PTL DEF Spec

(* Through reloads, and on retired objects too, no run begins before it is *)
(* due by what its job object holds: an interval after the last run of the *)
(* object, and on start only when the object knows of none.                *)
THEOREM DueByMemoryHolds ==
    ASSUME ~CanStop
    PROVE  Spec => DueByMemory
<1> DEFINE Right(t) == BeginRun(t) => RunDue(job[t[1]].cfg, job[t[1]].state, go[t].via)
<1>1. ASSUME TurnInv, NEW t \in Thread PROVE Right(t)
  <2>1. BeginRun(t) => go[t].pc = "enter"
    BY DEF BeginRun, At
  <2>2. TurnOK(t)
    BY <1>1 DEF TurnInv
  <2> QED
    BY <2>1, <2>2 DEF TurnOK
<1>2. TypeOK /\ TurnInv => [\A t \in Thread : Right(t)]_vars
  BY <1>1
<1> QED
  BY <1>2, TurnInvHolds, PTL DEF DueByMemory

-----------------------------------------------------------------------------
(***************************************************************************)
(* What every save leaves on record, through reloads, Stop and Start: an   *)
(* object whose goroutine is about to save has a last run, and an object   *)
(* that a goroutine uses is never made blank.                              *)
(***************************************************************************)
SavesRun == \A t \in Thread : go[t].pc = "save" => job[t[1]].state.last # Never

RecordKeptStep == \A n \in Name : store[n].last # Never => store'[n].last # Never

(* Only the end of a run changes what an object holds of its last run. *)
LEMMA StateKept ==
    ASSUME TypeOK, NEW t \in Thread, LoopStep(t), ~Leave(t),
           ~(At(t, "plugin") /\ \E ok \in BOOLEAN : EndRun(t, ok))
    PROVE  (\A o \in Object : job'[o].state = job[o].state) /\ go'[t].pc # "save"
<1> USE ThreadTyped DEF TypeOK, LoopShape
<1>1. CASE LoopTop(t) \/ TimerFires(t)
  BY <1>1 DEF LoopTop, TimerFires, Proceed, Goto
<1>2. CASE BeginRun(t)
  BY <1>2 DEF BeginRun, SetJob, JobShape
<1>3. CASE SkipRun(t) \/ BackoffEnds(t) \/ SaveState(t) \/ Deliver(t)
  BY <1>3 DEF SkipRun, BackoffEnds, SaveState, Deliver, Proceed, Goto, AfterRun
<1>4. CASE PluginSucceeds(t) \/ PluginFails(t)
  BY <1>4 DEF PluginSucceeds, PluginFails, Goto
<1>5. CASE Release(t)
  BY <1>5 DEF Release, SetJob, Proceed, Goto, AfterRun, JobShape
<1>6. CASE Reschedule(t)
  BY <1>6 DEF Reschedule, SetJob, Goto, JobShape
<1> QED
  BY <1>1, <1>2, <1>3, <1>4, <1>5, <1>6 DEF LoopStep

LEMMA LoopStepSaves ==
    ASSUME TypeOK, SavesRun, NEW t \in Thread, LoopStep(t)
    PROVE  SavesRun' /\ RecordKeptStep
<1> USE ThreadTyped
<1>1. CASE Leave(t)
  <2>1. UNCHANGED store /\ ~Alive(t)' /\ \A u \in Thread \ {t} : go'[u] = go[u]
    BY <1>1, LeaveMoves
  <2>2. \A u \in Thread \ {t} : Alive(u) => job'[u[1]] = job[u[1]]
    BY <1>1, LeaveMoves
  <2> QED
    BY <2>1, <2>2 DEF SavesRun, RecordKeptStep, Alive
<1>2. ASSUME At(t, "plugin"), NEW ok \in BOOLEAN, EndRun(t, ok) PROVE SavesRun' /\ RecordKeptStep
  <2>1. /\ job'[t[1]].state = updateState(job[t[1]].state, ok)
        /\ \A o \in Object \ {t[1]} : job'[o] = job[o]
    BY <1>2 DEF EndRun, SetJob, TypeOK, JobShape
  <2>2. UNCHANGED store /\ \A u \in Thread \ {t} : go'[u] = go[u]
    BY <1>2 DEF EndRun, TypeOK
  <2>3. updateState(job[t[1]].state, ok).last # Never
    BY DEF updateState, Never
  <2>4. ASSUME NEW u \in Thread, go'[u].pc = "save" PROVE job'[u[1]].state.last # Never
    <3>1. CASE u[1] = t[1]
      BY <2>1, <2>3, <3>1
    <3>2. CASE u[1] # t[1]
      <4>1. go'[u] = go[u] /\ job'[u[1]] = job[u[1]]
        BY <2>1, <2>2, <3>2
      <4> QED
        BY <2>4, <4>1 DEF SavesRun
    <3> QED
      BY <3>1, <3>2
  <2> QED
    BY <2>2, <2>4 DEF SavesRun, RecordKeptStep
<1>3. CASE ~Leave(t) /\ ~(At(t, "plugin") /\ \E ok \in BOOLEAN : EndRun(t, ok))
  <2>1. (\A o \in Object : job'[o].state = job[o].state) /\ go'[t].pc # "save"
    BY <1>3, StateKept
  <2>2. \A u \in Thread \ {t} : go'[u] = go[u]
    BY <1>3, LoopStepMoves
  <2>3. SavesRun'
    BY <2>1, <2>2 DEF SavesRun
  <2>4. CASE SaveState(t)
    <3>1. store' = [store EXCEPT ![NameOf(t)] = job[t[1]].state]
      BY <2>4 DEF SaveState, saveState
    <3>2. job[t[1]].state.last # Never
      BY <2>4 DEF SaveState, At, SavesRun
    <3>3. RecordKeptStep
      BY <3>1, <3>2 DEF RecordKeptStep, TypeOK
    <3> QED
      BY <2>3, <3>3
  <2>5. CASE ~SaveState(t)
    <3>1. UNCHANGED store
      BY <1>3, <2>5 DEF LoopStep, LoopTop, TimerFires, BeginRun, SkipRun, PluginSucceeds,
         PluginFails, BackoffEnds, Deliver, Release, Reschedule
    <3> QED
      BY <2>3, <3>1 DEF RecordKeptStep
  <2> QED
    BY <2>4, <2>5
<1> QED
  BY <1>1, <1>2, <1>3

LEMMA ControlSaves ==
    ASSUME TypeOK, SavesRun, Control
    PROVE  SavesRun' /\ UNCHANGED store
<1>t. \A t \in Thread : t[1] \in Object
  BY DEF Thread
<1>1. CASE Dies
  BY <1>1 DEF Dies, NoThread, SavesRun
<1>2. CASE (\E list \in Lists : Boot(list)) \/ AddJobFails \/ Cancel
  BY <1>2 DEF Boot, AddJobFails, Cancel, SavesRun
<1>3. ASSUME NEW list \in Lists, Reload(list) PROVE SavesRun' /\ UNCHANGED store
  <2>1. UNCHANGED <<go, store>>
    BY <1>3 DEF Reload
  <2>2. ASSUME NEW t \in Thread, go[t].pc = "save" PROVE job'[t[1]].state = job[t[1]].state
    <3>1. t \in LoopsOf(t[1])
      BY <2>2 DEF LoopsOf, Alive
    <3>2. job'[t[1]] = Stopped(t[1])
      BY <1>3, <1>t, <3>1 DEF Reload
    <3> QED
      BY <1>t, <3>2, StoppedIs
  <2> QED
    BY <2>1, <2>2 DEF SavesRun
<1>4. CASE AddJob
  <2>1. PICK o \in FreeObjects :
             (\A p \in Object \ {o} : job'[p] = job[p]) /\ UNCHANGED <<store, go>>
    BY <1>4, AddJobMoves
  <2>2. \A t \in Thread : go[t].pc = "save" => t[1] # o
    BY DEF FreeObjects, LoopsOf, Alive
  <2> QED
    BY <1>t, <2>1, <2>2 DEF SavesRun
<1>5. CASE StartLoaded \/ StartAgain
  <2>1. Start /\ UNCHANGED store
    BY <1>5 DEF StartLoaded, StartAgain
  <2>2. \A o \in Object : job'[o].state = job[o].state
    BY <2>1 DEF Start, TypeOK, JobShape
  <2>3. \A t \in Thread : go'[t].pc = "save" => go[t].pc = "save"
    BY <2>1 DEF Start, NoThread
  <2> QED
    BY <1>t, <2>1, <2>2, <2>3 DEF SavesRun
<1>6. CASE Stop
  <2>1. UNCHANGED <<go, store>> /\ \A o \in Object : job'[o] = Stopped(o)
    BY <1>6 DEF Stop
  <2> QED
    BY <1>t, <2>1, StoppedIs DEF SavesRun
<1> QED
  BY <1>1, <1>2, <1>3, <1>4, <1>5, <1>6 DEF Control, StopPanics, Exit, Crash

LEMMA TickSaves ==
    ASSUME TypeOK, SavesRun, Tick
    PROVE  SavesRun' /\ RecordKeptStep
<1>1. \A a \in Age \cup {Never} : a # Never => Older(a) # Never
  BY SchedulerAssumption DEF Older, Age, Never
<1>2. ASSUME NEW t \in Thread, go'[t].pc = "save" PROVE job'[t[1]].state.last # Never
  <2>1. go[t].pc = "save" /\ t[1] \in Object /\ job[t[1]].state \in JobState
    BY <1>2, ThreadTyped, TickMoves
  <2>2. job[t[1]].state.last # Never /\ job[t[1]].state.last \in Age \cup {Never}
    BY <2>1 DEF SavesRun, JobState
  <2>3. job'[t[1]].state.last = Older(job[t[1]].state.last)
    BY <2>1, TickMoves
  <2> QED
    BY <1>1, <2>2, <2>3
<1>3. ASSUME NEW n \in Name, store[n].last # Never PROVE store'[n].last # Never
  <2>1. store[n] \in JobState
    BY DEF TypeOK
  <2>2. store'[n].last = Older(store[n].last)
    BY <2>1, TickMoves, OlderRecord
  <2>3. store[n].last \in Age \cup {Never}
    BY <2>1 DEF JobState
  <2> QED
    BY <1>1, <1>3, <2>2, <2>3
<1> QED
  BY <1>2, <1>3 DEF SavesRun, RecordKeptStep

(* Whatever reloads, crashes, retired goroutines and calls of Stop and     *)
(* Start there are, a job with a run on record never loses its record.     *)
THEOREM RecordKeptHolds == Spec => RecordKept
<1>1. Init => SavesRun
  BY DEF Init, NoThread, SavesRun
<1>2. TypeOK /\ SavesRun /\ [Next]_vars => SavesRun' /\ [RecordKeptStep]_vars
  <2>1. SavesRun /\ UNCHANGED vars => SavesRun'
    BY DEF vars, SavesRun
  <2>2. UNCHANGED store => RecordKeptStep
    BY DEF RecordKeptStep
  <2> QED
    BY <2>1, <2>2, LoopStepSaves, ControlSaves, TickSaves DEF Next
<1>3. RecordKeptStep <=> \A n \in Name : store[n].last # Never => store'[n].last # Never
  BY DEF RecordKeptStep
<1> QED
  BY <1>1, <1>2, <1>3, TypeCorrect, PTL DEF Spec, RecordKept

-----------------------------------------------------------------------------
(***************************************************************************)
(* What the database records, without a reload.  Every goroutine then      *)
(* belongs to the one object of its name, so that no retired goroutine     *)
(* writes under the name of another object.                                *)
(***************************************************************************)
NamesMatch == \A n \in Name : jobs[n] # NoObject => job[jobs[n]].cfg.name = n

NoneRetired == \A t \in Thread : Alive(t) => t[1] \in Listed

RecordInv == NamesMatch /\ NoneRetired /\ StoreMatchesMemory

LEMMA ListedUnder ==
    ASSUME TypeOK, NamesMatch, NEW o \in Listed
    PROVE  /\ job[o].cfg.name \in Name /\ jobs[job[o].cfg.name] = o
           /\ \A n \in Name : jobs[n] = o => n = job[o].cfg.name
<1>1. PICK n \in Name : jobs[n] = o
  BY DEF Listed
<1>2. o # NoObject
  BY SchedulerAssumption DEF Listed
<1> QED
  BY <1>1, <1>2 DEF NamesMatch

(* What the object of a goroutine has recorded, when no goroutine of it is *)
(* about to save.                                                          *)
LEMMA Matches ==
    ASSUME TypeOK, RecordInv, NEW o \in Listed,
           \A t \in Thread : t[1] = o => go[t].pc # "save"
    PROVE  store[job[o].cfg.name] = job[o].state
<1>1. /\ job[o].cfg.name \in Name /\ jobs[job[o].cfg.name] = o /\ o # NoObject
  BY ListedUnder, SchedulerAssumption DEF RecordInv, Listed
<1>2. \A t \in LoopsOf(o) : go[t].pc # "save"
  BY DEF LoopsOf
<1> QED
  BY <1>1, <1>2 DEF RecordInv, StoreMatchesMemory

(* Steps that change neither the database nor what it should agree with.   *)
LEMMA RecordFrame ==
    ASSUME TypeOK, RecordInv, UNCHANGED <<jobs, store>>,
           \A o \in Listed : job'[o].cfg = job[o].cfg /\ job'[o].state = job[o].state,
           \A t \in Thread : Alive(t)' => t[1] \in Listed,
           \A t \in Thread : go[t].pc = "save" => go'[t].pc = "save"
    PROVE  RecordInv'
<1>1. Listed' = Listed
  BY DEF Listed
<1>2. ASSUME NEW n \in Name, jobs[n] # NoObject
      PROVE  jobs[n] \in Listed
  BY <1>2 DEF Listed, TypeOK
<1>3. NamesMatch' /\ NoneRetired'
  BY <1>1, <1>2 DEF RecordInv, NamesMatch, NoneRetired
<1>4. ASSUME NEW n \in Name, jobs[n] # NoObject,
             \A t \in LoopsOf(jobs[n])' : go'[t].pc # "save"
      PROVE  store[n] = job'[jobs[n]].state
  <2>1. \A t \in LoopsOf(jobs[n]) : go[t].pc # "save"
    BY <1>4 DEF LoopsOf, Alive
  <2> QED
    BY <1>2, <1>4, <2>1 DEF RecordInv, StoreMatchesMemory
<1>5. StoreMatchesMemory'
  BY <1>4 DEF StoreMatchesMemory
<1> QED
  BY <1>3, <1>5 DEF RecordInv

LEMMA LoopStepRecord ==
    ASSUME TypeOK, RecordInv, NEW t \in Thread, LoopStep(t)
    PROVE  RecordInv'
<1> USE ThreadTyped
<1>1. CASE Leave(t)
  <2>1. \A u \in Thread : Alive(u)' => u[1] \in Listed
    BY <1>1, LeaveMoves DEF RecordInv, NoneRetired, Alive
  <2>2. \A u \in Thread : go[u].pc = "save" => go'[u].pc = "save"
    BY <1>1, LeaveMoves
  <2> QED
    BY <1>1, <2>1, <2>2, LeaveMoves, RecordFrame
<1>2. CASE ~Leave(t) /\ ~SaveState(t) /\ ~(At(t, "plugin") /\ \E ok \in BOOLEAN : EndRun(t, ok))
  <2>1. \A u \in Thread : Alive(u)' => u[1] \in Listed
    BY <1>2, LoopStepMoves DEF RecordInv, NoneRetired, Alive
  <2>2. go[t].pc # "save"
    BY <1>2 DEF LoopStep, LoopTop, TimerFires, BeginRun, SkipRun, PluginSucceeds, PluginFails,
                BackoffEnds, Deliver, Release, Reschedule, At
  <2>3. \A u \in Thread : go[u].pc = "save" => go'[u].pc = "save"
    BY <1>2, <2>2, LoopStepMoves
  <2>4. UNCHANGED store
    BY <1>2 DEF LoopStep, LoopTop, TimerFires, BeginRun, SkipRun, PluginSucceeds, PluginFails,
                BackoffEnds, Deliver, Release, Reschedule
  <2>5. job'[t[1]].state = job[t[1]].state
    <3>1. CASE BeginRun(t)
      BY <3>1 DEF BeginRun, SetJob, TypeOK, JobShape
    <3>2. CASE Release(t)
      BY <3>2 DEF Release, SetJob, TypeOK, JobShape
    <3>3. CASE Reschedule(t)
      BY <3>3 DEF Reschedule, SetJob, TypeOK, JobShape
    <3>4. CASE UNCHANGED job
      BY <3>4
    <3> QED
      BY <1>2, <3>1, <3>2, <3>3, <3>4 DEF LoopStep, LoopTop, TimerFires, SkipRun,
         PluginSucceeds, PluginFails, BackoffEnds, Deliver
  <2>6. \A o \in Object : job'[o].cfg = job[o].cfg /\ job'[o].state = job[o].state
    BY <1>2, <2>5, LoopStepMoves
  <2> QED
    BY <1>2, <2>1, <2>3, <2>4, <2>6, LoopStepMoves, RecordFrame, ListedTyped
<1>3. ASSUME ~Leave(t), go'[t].pc = "save" \/ SaveState(t)
      PROVE  /\ Listed' = Listed /\ NamesMatch' /\ NoneRetired' /\ t[1] \in Listed
             /\ \A n \in Name, u \in Thread :
                  jobs[n] # NoObject /\ jobs[n] # t[1] /\ u \in LoopsOf(jobs[n]) =>
                    u \in LoopsOf(jobs[n])' /\ go'[u] = go[u]
  <2>1. Listed' = Listed
    BY <1>3, LoopStepMoves DEF Listed
  <2>2. NamesMatch'
    <3>1. \A n \in Name : jobs[n] # NoObject => jobs[n] \in Object
      BY DEF TypeOK
    <3> QED
      BY <1>3, <3>1, LoopStepMoves DEF RecordInv, NamesMatch
  <2>3. NoneRetired' /\ t[1] \in Listed
    BY <1>3, <2>1, LoopStepMoves DEF RecordInv, NoneRetired, Alive
  <2>4. ASSUME NEW n \in Name, NEW u \in Thread, jobs[n] # t[1], u \in LoopsOf(jobs[n])
        PROVE  u \in LoopsOf(jobs[n])' /\ go'[u] = go[u]
    <3>1. u[1] = jobs[n] /\ Alive(u) /\ u # t
      BY <2>4 DEF LoopsOf
    <3>2. go'[u] = go[u] /\ UNCHANGED jobs
      BY <1>3, <3>1, LoopStepMoves
    <3> QED
      BY <3>1, <3>2 DEF LoopsOf, Alive
  <2> QED
    BY <2>1, <2>2, <2>3, <2>4
<1>4. CASE SaveState(t)
  <2>1. ~Leave(t) /\ UNCHANGED <<jobs, job>>
    BY <1>4 DEF SaveState, Leave, At
  <2>2. store' = [store EXCEPT ![NameOf(t)] = job[t[1]].state]
    BY <1>4 DEF SaveState, saveState
  <2>3. t[1] \in Listed /\ NamesMatch
    BY <1>3, <1>4, <2>1 DEF RecordInv
  <2>4. NameOf(t) \in Name /\ jobs[NameOf(t)] = t[1] /\ \A n \in Name : jobs[n] = t[1] => n = NameOf(t)
    BY <2>3, ListedUnder DEF NameOf
  <2>5. ASSUME NEW n \in Name, jobs[n] # NoObject,
               \A u \in LoopsOf(jobs[n])' : go'[u].pc # "save"
        PROVE  store'[n] = job[jobs[n]].state
    <3>1. CASE n = NameOf(t)
      BY <2>2, <2>4, <3>1 DEF TypeOK
    <3>2. CASE n # NameOf(t)
      <4>1. jobs[n] # t[1]
        BY <2>4, <3>2
      <4>2. \A u \in LoopsOf(jobs[n]) : go[u].pc # "save"
        BY <1>3, <1>4, <2>1, <2>5, <4>1 DEF LoopsOf
      <4> QED
        BY <2>2, <2>5, <3>2, <4>2 DEF RecordInv, StoreMatchesMemory, TypeOK
    <3> QED
      BY <3>1, <3>2
  <2>6. StoreMatchesMemory'
    BY <2>1, <2>5 DEF StoreMatchesMemory
  <2> QED
    BY <1>3, <1>4, <2>1, <2>6 DEF RecordInv
<1>5. ASSUME At(t, "plugin"), NEW ok \in BOOLEAN, EndRun(t, ok) PROVE RecordInv'
  <2>1. ~Leave(t) /\ UNCHANGED <<jobs, store>> /\ go'[t].pc = "save"
    BY <1>5 DEF EndRun, Leave, At, TypeOK, LoopShape
  <2>2. \A o \in Object \ {t[1]} : job'[o] = job[o]
    BY <2>1, LoopStepMoves
  <2>3. ASSUME NEW n \in Name, jobs[n] # NoObject,
               \A u \in LoopsOf(jobs[n])' : go'[u].pc # "save"
        PROVE  store[n] = job'[jobs[n]].state
    <3>1. jobs[n] # t[1]
      BY <2>1, <2>3 DEF LoopsOf, Alive
    <3>2. \A u \in LoopsOf(jobs[n]) : go[u].pc # "save"
      BY <1>3, <2>1, <2>3, <3>1 DEF LoopsOf
    <3>3. jobs[n] \in Object
      BY <2>3 DEF TypeOK
    <3> QED
      BY <2>2, <2>3, <3>1, <3>2, <3>3 DEF RecordInv, StoreMatchesMemory
  <2>4. StoreMatchesMemory'
    BY <2>1, <2>3 DEF StoreMatchesMemory
  <2> QED
    BY <1>3, <2>1, <2>4 DEF RecordInv
<1> QED
  BY <1>1, <1>2, <1>4, <1>5

LEMMA ControlRecord ==
    ASSUME ~CanReload, TypeOK, RecordInv, Control \/ Tick
    PROVE  RecordInv'
<1>t. \A t \in Thread : t[1] \in Object
  BY DEF Thread
<1>1. CASE Dies
  BY <1>1 DEF Dies, NoThread, Alive, RecordInv, NamesMatch, NoneRetired, StoreMatchesMemory
<1>2. CASE (\E list \in Lists : Boot(list)) \/ AddJobFails \/ Cancel
  <2>1. UNCHANGED <<jobs, job, store, go>>
    BY <1>2 DEF Boot, AddJobFails, Cancel
  <2> QED
    BY <2>1, RecordFrame DEF RecordInv, NoneRetired, Alive
<1>3. CASE AddJob
  <2>1. PICK o \in FreeObjects, c \in Config :
             /\ jobs[c.name] = NoObject /\ c.name \in Name
             /\ jobs' = [jobs EXCEPT ![c.name] = o]
             /\ \A p \in Object \ {o} : job'[p] = job[p]
             /\ job'[o].cfg = c /\ job'[o].state = store[c.name]
             /\ UNCHANGED <<store, go>>
    BY <1>3, AddJobMoves
  <2>2. o \in Object /\ o \notin Listed
    BY DEF FreeObjects
  <2>3. /\ jobs'[c.name] = o
        /\ \A n \in Name : n # c.name => jobs'[n] = jobs[n] /\ jobs[n] # o
    BY <2>1, <2>2 DEF TypeOK, Listed
  <2>4. \A n \in Name : n # c.name /\ jobs[n] # NoObject => job'[jobs[n]] = job[jobs[n]]
    BY <2>1, <2>3 DEF TypeOK
  <2>5. NamesMatch'
    BY <2>1, <2>3, <2>4 DEF RecordInv, NamesMatch
  <2>6. NoneRetired'
    <3>1. Listed \subseteq Listed'
      BY <2>1, <2>3, SchedulerAssumption DEF Listed
    <3> QED
      BY <2>1, <3>1 DEF RecordInv, NoneRetired, Alive
  <2>7. StoreMatchesMemory'
    BY <2>1, <2>3, <2>4 DEF RecordInv, StoreMatchesMemory, LoopsOf, Alive
  <2> QED
    BY <2>5, <2>6, <2>7 DEF RecordInv
<1>4. CASE StartLoaded \/ StartAgain
  <2>1. Start /\ UNCHANGED <<jobs, store>>
    BY <1>4 DEF StartLoaded, StartAgain
  <2>2. \A o \in Object : job'[o].cfg = job[o].cfg /\ job'[o].state = job[o].state
    BY <2>1 DEF Start, TypeOK, JobShape
  <2>3. \A t \in Thread : Alive(t)' => t[1] \in Listed
    BY <2>1, StartMoves DEF RecordInv, NoneRetired, ToStart
  <2>4. \A t \in Thread : go[t].pc = "save" => go'[t].pc = "save"
    BY <2>1, StartMoves DEF Alive
  <2> QED
    BY <2>1, <2>2, <2>3, <2>4, ListedTyped, RecordFrame
<1>5. CASE Stop
  <2>1. UNCHANGED <<jobs, store, go>> /\ \A o \in Object : job'[o] = Stopped(o)
    BY <1>5 DEF Stop
  <2> QED
    BY <2>1, ListedTyped, StoppedIs, RecordFrame DEF RecordInv, NoneRetired, Alive
<1>6. CASE Tick
  <2>1. UNCHANGED <<jobs, go>>
    BY <1>6 DEF Tick
  <2>2. \A n \in Name : store'[n] = [store[n] EXCEPT !.last = Older(@)]
    BY <1>6, TickMoves
  <2>3. \A o \in Object : /\ job'[o].cfg = job[o].cfg
                          /\ job'[o].state = [job[o].state EXCEPT !.last = Older(@)]
    BY <1>6, TickMoves
  <2>4. \A n \in Name : jobs[n] # NoObject => jobs[n] \in Object
    BY DEF TypeOK
  <2>5. NamesMatch' /\ NoneRetired'
    BY <2>1, <2>3, <2>4 DEF RecordInv, NamesMatch, NoneRetired, Alive, Listed
  <2>6. StoreMatchesMemory'
    <3> SUFFICES ASSUME NEW n \in Name, jobs[n] # NoObject,
                        \A t \in LoopsOf(jobs[n]) : go[t].pc # "save"
                 PROVE  store'[n] = job'[jobs[n]].state
      BY <2>1 DEF StoreMatchesMemory, LoopsOf, Alive
    <3>1. store[n] = job[jobs[n]].state
      BY DEF RecordInv, StoreMatchesMemory
    <3> QED
      BY <2>2, <2>3, <2>4, <3>1
  <2> QED
    BY <2>5, <2>6 DEF RecordInv
<1> QED
  BY <1>1, <1>2, <1>3, <1>4, <1>5, <1>6
     DEF Control, Reload, StopPanics, Exit, Crash

LEMMA RecordInvHolds ==
    ASSUME ~CanReload
    PROVE  Spec => []RecordInv
<1>1. Init => RecordInv
  BY DEF Init, NoThread, Alive, RecordInv, NamesMatch, NoneRetired, StoreMatchesMemory
<1>2. TypeOK /\ RecordInv /\ [Next]_vars => RecordInv'
  <2>1. TypeOK /\ RecordInv /\ UNCHANGED vars => RecordInv'
    BY RecordFrame DEF vars, RecordInv, NoneRetired, Alive
  <2> QED
    BY <2>1, LoopStepRecord, ControlRecord DEF Next
<1> QED
  BY <1>1, <1>2, TypeCorrect, PTL DEF Spec

(* Unless the configuration is reloaded, the database holds of each job    *)
(* what its object holds, except between updateState and the Put: crashes, *)
(* Stop and Start and jobs that overlap with themselves included.          *)
THEOREM StoreMatchesMemoryHolds ==
    ASSUME ~CanReload
    PROVE  Spec => []StoreMatchesMemory
<1>1. RecordInv => StoreMatchesMemory
  BY DEF RecordInv
<1> QED
  BY <1>1, RecordInvHolds, PTL

-----------------------------------------------------------------------------
(***************************************************************************)
(* What the save of a run does to the record, without reload and without   *)
(* Stop.  A job object then has one goroutine for life, and each name one  *)
(* object, so nothing happens to the object or to its record between the   *)
(* end of the run and its save.                                            *)
(***************************************************************************)
RunOK(t) ==
    go[t].pc = "save" =>
        job[t[1]].state.fails = updateState(store[NameOf(t)], go[t].ok).fails

RunsInv == \A t \in Thread : RunOK(t)

AllInv == TurnInv /\ RecordInv

LEMMA Alone ==
    ASSUME AllInv, NEW t \in Thread, NEW u \in Thread, t # u, Alive(t), Alive(u)
    PROVE  t[1] # u[1]
  BY DEF AllInv, TurnInv, OneEach

(* Steps that leave the object and the record of a goroutine alone. *)
LEMMA RunFrame ==
    ASSUME NEW t \in Thread, RunOK(t), job'[t[1]].cfg = job[t[1]].cfg,
           job'[t[1]].state = job[t[1]].state, store'[NameOf(t)] = store[NameOf(t)],
           go'[t] = go[t]
    PROVE  RunOK(t)'
  BY DEF RunOK, NameOf

LEMMA LoopStepRuns ==
    ASSUME TypeOK, AllInv, RunsInv, NEW t \in Thread, LoopStep(t)
    PROVE  RunsInv'
<1> USE ThreadTyped
<1>a. NamesMatch /\ NoneRetired
  BY DEF AllInv, RecordInv
<1>l. Alive(t) /\ t[1] \in Listed
  BY <1>a, LoopStepMoves, LeaveMoves DEF NoneRetired
<1>1. ASSUME NEW u \in Thread, u # t PROVE RunOK(u)'
  <2>1. go'[u] = go[u]
    BY <1>1, LoopStepMoves, LeaveMoves
  <2>2. CASE ~Alive(u)
    BY <2>1, <2>2 DEF RunOK, Alive
  <2>3. CASE Alive(u)
    <3>1. u[1] # t[1] /\ u[1] \in Listed
      BY <1>1, <1>a, <1>l, <2>3, Alone DEF NoneRetired
    <3>2. job'[u[1]] = job[u[1]]
      BY <3>1, LoopStepMoves, LeaveMoves
    <3>3. NameOf(u) # NameOf(t)
      BY <1>a, <1>l, <3>1, ListedUnder DEF NameOf
    <3>4. store'[NameOf(u)] = store[NameOf(u)]
      <4>1. CASE SaveState(t)
        BY <3>3, <4>1 DEF SaveState, saveState, TypeOK
      <4>2. CASE UNCHANGED store
        BY <4>2
      <4> QED
        BY <4>1, <4>2 DEF LoopStep, LoopTop, TimerFires, Leave, BeginRun, SkipRun, PluginSucceeds,
           PluginFails, EndRun, BackoffEnds, Deliver, Release, Reschedule
    <3>5. RunOK(u)
      BY DEF RunsInv
    <3> QED
      BY <2>1, <3>2, <3>4, <3>5, RunFrame
  <2> QED
    BY <2>2, <2>3
<1>4. ASSUME At(t, "plugin"), NEW ok \in BOOLEAN, EndRun(t, ok) PROVE RunsInv'
  <2>1. \A u \in Thread : u[1] = t[1] => go[u].pc # "save"
    <3>1. \A u \in Thread : u[1] = t[1] /\ Alive(u) => u = t
      BY <1>l, Alone
    <3> QED
      BY <1>4, <3>1 DEF Alive, At
  <2>2. store[NameOf(t)] = job[t[1]].state
    BY <1>l, <2>1, Matches DEF AllInv, NameOf
  <2>3. /\ job'[t[1]].state = updateState(job[t[1]].state, ok)
        /\ job'[t[1]].cfg = job[t[1]].cfg /\ UNCHANGED store
        /\ go'[t].pc = "save" /\ go'[t].ok = ok
    BY <1>4 DEF EndRun, SetJob, TypeOK, JobShape, LoopShape
  <2>4. RunOK(t)'
    BY <2>2, <2>3 DEF RunOK, NameOf
  <2> QED
    BY <1>1, <2>4 DEF RunsInv
<1>5. CASE Leave(t) \/ (~Leave(t) /\ ~(At(t, "plugin") /\ \E ok \in BOOLEAN : EndRun(t, ok)))
  <2>1. go'[t].pc # "save"
    BY <1>5, LeaveMoves, StateKept DEF Alive
  <2> QED
    BY <1>1, <2>1 DEF RunsInv, RunOK
<1> QED
  BY <1>4, <1>5

LEMMA ControlRuns ==
    ASSUME ~CanReload, ~CanStop, TypeOK, AllInv, RunsInv, Control \/ Tick
    PROVE  RunsInv'
<1>t. \A t \in Thread : t[1] \in Object /\ RunOK(t) /\ NameOf(t) \in Name
  BY ThreadTyped DEF RunsInv
<1>1. CASE Dies
  BY <1>1 DEF Dies, NoThread, RunsInv, RunOK
<1>2. CASE (\E list \in Lists : Boot(list)) \/ AddJobFails \/ Cancel
  <2>1. UNCHANGED <<job, store, go>>
    BY <1>2 DEF Boot, AddJobFails, Cancel
  <2> QED
    BY <1>t, <2>1, RunFrame DEF RunsInv
<1>3. CASE AddJob
  <2>1. PICK o \in FreeObjects :
             /\ \A p \in Object \ {o} : job'[p] = job[p]
             /\ UNCHANGED <<store, go>>
    BY <1>3, AddJobMoves
  <2>2. o \in Object /\ \A t \in Thread : Alive(t) => t[1] # o
    BY DEF FreeObjects, LoopsOf
  <2>3. ASSUME NEW t \in Thread PROVE RunOK(t)'
    <3>1. CASE Alive(t)
      BY <1>t, <2>1, <2>2, <3>1, RunFrame
    <3>2. CASE ~Alive(t)
      BY <2>1, <3>2 DEF Alive, RunOK
    <3> QED
      BY <3>1, <3>2
  <2> QED
    BY <2>1, <2>3 DEF RunsInv
<1>4. CASE StartLoaded
  <2>1. Start /\ UNCHANGED store
    BY <1>4 DEF StartLoaded
  <2>2. \A o \in Object : job'[o].cfg = job[o].cfg /\ job'[o].state = job[o].state
    BY <2>1 DEF Start, TypeOK, JobShape
  <2>3. ASSUME NEW t \in Thread PROVE RunOK(t)'
    <3>1. CASE Alive(t)
      BY <1>t, <2>1, <2>2, <3>1, StartMoves, RunFrame
    <3>2. CASE ~Alive(t)
      <4>1. go'[t].pc \in {"none", "top"}
        BY <2>1, <3>2, StartMoves DEF Alive, NoThread
      <4> QED
        BY <4>1 DEF RunOK
    <3> QED
      BY <3>1, <3>2
  <2> QED
    BY <2>2, <2>3 DEF RunsInv
<1>5. CASE Tick
  <2>1. UNCHANGED go
    BY <1>5 DEF Tick
  <2>2. \A o \in Object : job'[o].cfg = job[o].cfg /\ job'[o].state.fails = job[o].state.fails
    BY <1>5, TickMoves
  <2>3. \A n \in Name : store'[n].fails = store[n].fails
    BY <1>5, TickMoves
  <2>4. ASSUME NEW t \in Thread PROVE RunOK(t)'
    <3>1. /\ RunOK(t) /\ job'[t[1]].state.fails = job[t[1]].state.fails
          /\ NameOf(t)' = NameOf(t) /\ store'[NameOf(t)].fails = store[NameOf(t)].fails
      BY <1>t, <2>2, <2>3 DEF NameOf
    <3>2. updateState(store'[NameOf(t)], go[t].ok).fails = updateState(store[NameOf(t)], go[t].ok).fails
      BY <3>1 DEF updateState
    <3> QED
      BY <2>1, <3>1, <3>2 DEF RunOK
  <2> QED
    BY <2>2, <2>4 DEF RunsInv
<1> QED
  BY <1>1, <1>2, <1>3, <1>4, <1>5
     DEF Control, Reload, StartAgain, Stop, StopPanics, Exit, Crash

LEMMA RunsInvHolds ==
    ASSUME ~CanReload, ~CanStop
    PROVE  Spec => [](TypeOK /\ AllInv /\ RunsInv)
<1>1. Init => RunsInv
  BY DEF Init, NoThread, RunsInv, RunOK
<1>2. TypeOK /\ AllInv /\ RunsInv /\ [Next]_vars => RunsInv'
  <2>1. RunsInv /\ UNCHANGED vars => RunsInv'
    BY DEF vars, RunsInv, RunOK, NameOf
  <2> QED
    BY <2>1, LoopStepRuns, ControlRuns DEF Next
<1>3. TurnInv /\ RecordInv => AllInv
  BY DEF AllInv
<1> QED
  BY <1>1, <1>2, <1>3, TurnInvHolds, RecordInvHolds, PTL DEF Spec

(* A goroutine about to run or to save has its own record before it. *)
LEMMA RunnerAlone ==
    ASSUME TypeOK, AllInv, RunsInv, NEW t \in Thread, Alive(t), go[t].pc # "save"
    PROVE  store[NameOf(t)] = job[t[1]].state
<1>1. t[1] \in Listed
  BY DEF AllInv, RecordInv, NoneRetired
<1>2. \A u \in Thread : u[1] = t[1] => go[u].pc # "save"
  BY Alone DEF Alive
<1> QED
  BY <1>1, <1>2, Matches DEF AllInv, NameOf

(* No run begins before it is due by what the database holds: none of an   *)
(* interval job before one interval has passed since the last run on       *)
(* record, none on start while a run of the job is on record, in this life *)
(* of the daemon or an earlier one.                                        *)
THEOREM DueByRecordHolds ==
    ASSUME ~CanReload, ~CanStop
    PROVE  Spec => DueByRecord
<1> DEFINE Right(t) == BeginRun(t) => RunDue(job[t[1]].cfg, store[NameOf(t)], go[t].via)
<1>1. ASSUME TypeOK, AllInv, RunsInv, NEW t \in Thread PROVE Right(t)
  <2> SUFFICES ASSUME BeginRun(t) PROVE Right(t)
    OBVIOUS
  <2>1. go[t].pc = "enter"
    BY DEF BeginRun, At
  <2>2. RunDue(job[t[1]].cfg, job[t[1]].state, go[t].via)
    BY <1>1, <2>1 DEF AllInv, TurnInv, TurnOK
  <2>3. store[NameOf(t)] = job[t[1]].state
    BY <1>1, <2>1, RunnerAlone DEF Alive
  <2> QED
    BY <2>2, <2>3
<1>2. TypeOK /\ AllInv /\ RunsInv => [\A t \in Thread : Right(t)]_vars
  BY <1>1
<1> QED
  BY <1>2, RunsInvHolds, PTL DEF DueByRecord

(* A save after a success clears the number of consecutive failures on     *)
(* record, a save after a failure adds exactly one to it, whatever crash   *)
(* and restart came before.                                                *)
THEOREM FailuresCountedHolds ==
    ASSUME ~CanReload, ~CanStop
    PROVE  Spec => FailuresCounted
<1> DEFINE Right(t) ==
      SaveState(t) =>
        LET n == NameOf(t)
        IN  store'[n].fails = IF go[t].ok THEN 0
                              ELSE IF store[n].fails < FailCap
                                   THEN store[n].fails + 1 ELSE FailCap
<1>1. ASSUME TypeOK, AllInv, RunsInv, NEW t \in Thread PROVE Right(t)
  <2> SUFFICES ASSUME SaveState(t) PROVE Right(t)
    OBVIOUS
  <2>1. go[t].pc = "save" /\ store' = [store EXCEPT ![NameOf(t)] = job[t[1]].state]
    BY DEF SaveState, saveState, At
  <2>2. store'[NameOf(t)] = job[t[1]].state
    BY <1>1, <2>1, ThreadTyped DEF TypeOK
  <2>3. job[t[1]].state.fails = updateState(store[NameOf(t)], go[t].ok).fails
    BY <1>1, <2>1 DEF RunsInv, RunOK
  <2> QED
    BY <2>2, <2>3 DEF updateState
<1>2. TypeOK /\ AllInv /\ RunsInv => [\A t \in Thread : Right(t)]_vars
  BY <1>1
<1> QED
  BY <1>2, RunsInvHolds, PTL DEF FailuresCounted

-----------------------------------------------------------------------------
(***************************************************************************)
(* Scheduler implements JobRecord, without reload and without Stop: the    *)
(* run of a job is what its one goroutine does from BeginRun to SaveState. *)
(* The loops, the timers, the retries, the delivery of results and the     *)
(* flags of the job objects are steps that leave the record alone.         *)
(***************************************************************************)
InRun == {"plugin", "sleep", "save"}

RunFrom(o, g, j) ==
    LET busy == {t \in Thread : t[1] = o /\ g[t].pc \in InRun}
        t == CHOOSE t \in busy : TRUE
        ended == g[t].pc = "save"
    IN  IF busy = {} THEN [at |-> "idle", ok |-> FALSE, age |-> 0]
        ELSE [at |-> IF ended THEN "ended" ELSE "runs", ok |-> ended /\ g[t].ok,
              age |-> IF ended THEN j[t[1]].state.last ELSE 0]

LEMMA RunIdle ==
    ASSUME NEW o, NEW g, NEW j,
           \A t \in Thread : t[1] = o => g[t].pc \notin InRun
    PROVE  RunFrom(o, g, j) = Records!NoRun
  BY DEF RunFrom, Records!NoRun

LEMMA RunBusy ==
    ASSUME NEW g, NEW j, NEW t \in Thread, g[t].pc \in InRun,
           \A u \in Thread : u[1] = t[1] /\ g[u].pc \in InRun => u = t
    PROVE  /\ g[t].pc = "save" =>
                RunFrom(t[1], g, j) = [at |-> "ended", ok |-> TRUE /\ g[t].ok,
                                       age |-> j[t[1]].state.last]
           /\ g[t].pc # "save" =>
                RunFrom(t[1], g, j) = [at |-> "runs", ok |-> FALSE, age |-> 0]
<1> DEFINE busy == {u \in Thread : u[1] = t[1] /\ g[u].pc \in InRun}
<1>1. busy = {t}
  OBVIOUS
<1>2. (CHOOSE u \in busy : TRUE) = t
  BY <1>1
<1> QED
  BY <1>1, <1>2 DEF RunFrom

(* A run is the same before and after when its goroutine has neither       *)
(* begun nor ended it.                                                     *)
LEMMA RunSame ==
    ASSUME NEW o, NEW g, NEW h, NEW j, NEW k,
           \A t \in Thread : t[1] = o =>
              /\ g[t].pc \in InRun <=> h[t].pc \in InRun
              /\ g[t].pc = "save" <=> h[t].pc = "save"
              /\ g[t].pc = "save" =>
                   h[t].ok = g[t].ok /\ k[o].state.last = j[o].state.last
    PROVE  RunFrom(o, g, j) = RunFrom(o, h, k)
<1> DEFINE busy(f) == {t \in Thread : t[1] = o /\ f[t].pc \in InRun}
           c == CHOOSE t \in busy(g) : TRUE
<1>1. busy(g) = busy(h)
  OBVIOUS
<1>2. CASE busy(g) = {}
  BY <1>1, <1>2 DEF RunFrom
<1>3. CASE busy(g) # {}
  <2>1. c \in Thread /\ c[1] = o
    BY <1>3
  <2>2. c = CHOOSE t \in busy(h) : TRUE
    BY <1>1
  <2>3. /\ RunFrom(o, g, j) = [at |-> IF g[c].pc = "save" THEN "ended" ELSE "runs",
                               ok |-> g[c].pc = "save" /\ g[c].ok,
                               age |-> IF g[c].pc = "save" THEN j[c[1]].state.last ELSE 0]
        /\ RunFrom(o, h, k) = [at |-> IF h[c].pc = "save" THEN "ended" ELSE "runs",
                               ok |-> h[c].pc = "save" /\ h[c].ok,
                               age |-> IF h[c].pc = "save" THEN k[c[1]].state.last ELSE 0]
    BY <1>1, <1>3, <2>2 DEF RunFrom
  <2> HIDE DEF c
  <2> QED
    BY <2>1, <2>3
<1> QED
  BY <1>2, <1>3

(* The mapped variables before and after a step. *)
EntryBar == [n \in Name |-> EntryOf(n)]
RunBar == [n \in Name |-> RunOf(n)]

LEMMA RunBarIs ==
    /\ RunBar = [n \in Name |-> RunFrom(jobs[n], go, job)]
    /\ RunBar' = [n \in Name |-> RunFrom(jobs'[n], go', job')]
<1>1. \A n \in Name : RunOf(n) = RunFrom(jobs[n], go, job)
  BY DEF RunOf, RunFrom, InRun
<1>2. \A n \in Name : RunOf(n)' = RunFrom(jobs'[n], go', job')
  BY DEF RunOf, RunFrom, InRun
<1> QED
  BY <1>1, <1>2 DEF RunBar

RecordStep == [Records!Next]_(Records!vars)

LEMMA RecordStutters ==
    ASSUME EntryBar' = EntryBar, UNCHANGED store, RunBar' = RunBar
    PROVE  RecordStep
  BY DEF RecordStep, Records!vars, EntryBar, RunBar

(* Where a goroutine stands: alone on the object of its job. *)
LEMMA RunnerPlace ==
    ASSUME TypeOK, AllInv, RunsInv, NEW t \in Thread, Alive(t)
    PROVE  /\ t[1] \in Listed /\ t[1] \in Object /\ t[1] # NoObject
           /\ NameOf(t) \in Name /\ jobs[NameOf(t)] = t[1]
           /\ \A n \in Name : jobs[n] = t[1] => n = NameOf(t)
           /\ \A u \in Thread : u[1] = t[1] /\ Alive(u) => u = t
<1>1. t[1] \in Listed /\ NamesMatch
  BY DEF AllInv, RecordInv, NoneRetired
<1>2. \A u \in Thread : u[1] = t[1] /\ Alive(u) => u = t
  BY Alone
<1> QED
  BY <1>1, <1>2, ListedUnder, ListedTyped, SchedulerAssumption DEF NameOf

LEMMA LoopStepElsewhere ==
    ASSUME TypeOK, AllInv, RunsInv, NEW t \in Thread, LoopStep(t)
    PROVE  /\ UNCHANGED jobs /\ Alive(t)
           /\ EntryBar' = EntryBar
           /\ \A n \in Name : n # NameOf(t) =>
                RunFrom(jobs[n], go', job') = RunFrom(jobs[n], go, job)
<1>1. UNCHANGED jobs /\ Alive(t) /\ \A u \in Thread \ {t} : go'[u] = go[u]
  BY LoopStepMoves, LeaveMoves
<1>2. \A o \in Listed : job'[o].cfg = job[o].cfg
  BY LoopStepMoves, LeaveMoves, ListedTyped
<1>3. \A n \in Name : jobs[n] # NoObject => jobs[n] \in Listed
  BY DEF Listed, TypeOK
<1>4. \A n \in Name : EntryOf(n)' = EntryOf(n)
  BY <1>1, <1>2, <1>3 DEF EntryOf
<1>5. ASSUME NEW n \in Name, n # NameOf(t)
      PROVE  RunFrom(jobs[n], go', job') = RunFrom(jobs[n], go, job)
  <2>1. jobs[n] # t[1]
    BY <1>1, <1>5, RunnerPlace
  <2>2. \A u \in Thread : u[1] = jobs[n] => go'[u] = go[u] /\ jobs[n] \in Object
    BY <1>1, <2>1, ThreadTyped
  <2>3. jobs[n] \in Object => job'[jobs[n]] = job[jobs[n]]
    <3>1. CASE Leave(t)
      BY <1>3, <3>1, LeaveMoves, SchedulerAssumption
    <3>2. CASE ~Leave(t)
      BY <2>1, <3>2, LoopStepMoves
    <3> QED
      BY <3>1, <3>2
  <2> QED
    BY <2>2, <2>3, RunSame
<1> QED
  BY <1>1, <1>4, <1>5 DEF EntryBar

(* The steps between runs and inside a run. *)
LEMMA QuietStepStutters ==
    ASSUME TypeOK, AllInv, RunsInv, NEW t \in Thread, LoopStep(t), UNCHANGED store,
           go[t].pc \in InRun <=> go'[t].pc \in InRun,
           go[t].pc # "save", go'[t].pc # "save"
    PROVE  RecordStep
<1>1. UNCHANGED jobs /\ EntryBar' = EntryBar
  BY LoopStepElsewhere
<1>2. ASSUME NEW n \in Name
      PROVE  RunFrom(jobs[n], go', job') = RunFrom(jobs[n], go, job)
  <2>1. CASE n # NameOf(t)
    BY <2>1, LoopStepElsewhere
  <2>2. CASE n = NameOf(t)
    <3>1. \A u \in Thread : u[1] = t[1] /\ u # t => ~Alive(u)
      BY LoopStepElsewhere, RunnerPlace
    <3>2. \A u \in Thread \ {t} : go'[u] = go[u]
      BY LoopStepMoves, LeaveMoves
    <3>3. jobs[n] = t[1]
      BY <2>2, LoopStepElsewhere, RunnerPlace
    <3>4. \A u \in Thread : u[1] = t[1] =>
              /\ go[u].pc \in InRun <=> go'[u].pc \in InRun
              /\ go[u].pc # "save" /\ go'[u].pc # "save"
      BY <3>1, <3>2 DEF Alive
    <3> QED
      BY <3>3, <3>4, RunSame
  <2> QED
    BY <2>1, <2>2
<1>3. RunBar' = RunBar
  BY <1>1, <1>2, RunBarIs
<1> QED
  BY <1>1, <1>3, RecordStutters

(* The mapped run of the goroutine's job, before and after its step. *)
LEMMA OwnRun ==
    ASSUME TypeOK, AllInv, RunsInv, NEW t \in Thread, LoopStep(t), Alive(t)
    PROVE  /\ RunBar' = [RunBar EXCEPT ![NameOf(t)] = RunFrom(t[1], go', job')]
           /\ RunBar[NameOf(t)] = RunFrom(t[1], go, job)
           /\ NameOf(t) \in Name
           /\ \A u \in Thread : u[1] = t[1] /\ u # t =>
                go[u].pc = "none" /\ go'[u].pc = "none"
<1>1. /\ UNCHANGED jobs
      /\ \A n \in Name : n # NameOf(t) =>
            RunFrom(jobs[n], go', job') = RunFrom(jobs[n], go, job)
  BY LoopStepElsewhere
<1>2. NameOf(t) \in Name /\ jobs[NameOf(t)] = t[1]
  BY RunnerPlace
<1>3. \A u \in Thread : u[1] = t[1] /\ u # t => ~Alive(u) /\ go'[u] = go[u]
  BY RunnerPlace, LoopStepMoves, LeaveMoves
<1> QED
  BY <1>1, <1>2, <1>3, RunBarIs DEF Alive

LEMMA BeginRunBegins ==
    ASSUME TypeOK, AllInv, RunsInv, NEW t \in Thread, BeginRun(t)
    PROVE  RecordStep
<1> DEFINE n == NameOf(t)
<1>1. /\ LoopStep(t) /\ UNCHANGED store /\ go[t].pc = "enter" /\ Alive(t)
      /\ go'[t].pc = "plugin"
  BY DEF LoopStep, BeginRun, At, Alive, TypeOK, LoopShape
<1>2. /\ RunBar' = [RunBar EXCEPT ![n] = RunFrom(t[1], go', job')]
      /\ RunBar[n] = RunFrom(t[1], go, job) /\ n \in Name
      /\ \A u \in Thread : u[1] = t[1] /\ u # t => go[u].pc = "none" /\ go'[u].pc = "none"
  BY <1>1, OwnRun
<1>3. RunBar[n] = Records!NoRun
  BY <1>1, <1>2, RunIdle DEF InRun
<1>4. RunFrom(t[1], go', job') = [at |-> "runs", ok |-> FALSE, age |-> 0]
  <2>1. go'[t].pc \in InRun /\ go'[t].pc # "save"
    BY <1>1 DEF InRun
  <2>2. \A u \in Thread : u[1] = t[1] /\ go'[u].pc \in InRun => u = t
    BY <1>2 DEF InRun
  <2> QED
    BY <2>1, <2>2, RunBusy
<1>5. EntryBar' = EntryBar /\ EntryBar[n] = {job[t[1]].cfg}
  BY <1>1, <1>2, LoopStepElsewhere, RunnerPlace DEF EntryBar, EntryOf
<1>6. store[n] = job[t[1]].state
  BY <1>1, RunnerAlone
<1>7. RunDue(job[t[1]].cfg, job[t[1]].state, go[t].via)
  BY <1>1 DEF AllInv, TurnInv, TurnOK
<1>8. \E c \in EntryBar[n] : Records!Rested(c, store[n])
  BY <1>5, <1>6, <1>7 DEF RunDue, Records!Rested, Records!Never, Never
<1> HIDE DEF n
<1>9. Records!Begin(n)
  BY <1>1, <1>2, <1>3, <1>4, <1>5, <1>8 DEF Records!Begin, EntryBar, RunBar
<1> QED
  BY <1>2, <1>9 DEF RecordStep, Records!Next, Records!JobStep

LEMMA EndRunEnds ==
    ASSUME TypeOK, AllInv, RunsInv, NEW t \in Thread, LoopStep(t),
           NEW ok \in BOOLEAN, At(t, "plugin"), EndRun(t, ok)
    PROVE  RecordStep
<1> DEFINE n == NameOf(t)
<1>1. /\ UNCHANGED store /\ go[t].pc = "plugin" /\ Alive(t)
      /\ go'[t].pc = "save" /\ go'[t].ok = ok
      /\ job'[t[1]].state.last = 0
  BY ThreadTyped DEF EndRun, SetJob, updateState, At, Alive, TypeOK, LoopShape, JobShape
<1>2. /\ RunBar' = [RunBar EXCEPT ![n] = RunFrom(t[1], go', job')]
      /\ RunBar[n] = RunFrom(t[1], go, job) /\ n \in Name
      /\ \A u \in Thread : u[1] = t[1] /\ u # t => go[u].pc = "none" /\ go'[u].pc = "none"
  BY <1>1, OwnRun
<1>3. RunBar[n].at = "runs"
  <2>1. go[t].pc \in InRun /\ go[t].pc # "save"
    BY <1>1 DEF InRun
  <2>2. \A u \in Thread : u[1] = t[1] /\ go[u].pc \in InRun => u = t
    BY <1>2 DEF InRun
  <2>3. RunFrom(t[1], go, job) = [at |-> "runs", ok |-> FALSE, age |-> 0]
    BY <2>1, <2>2, RunBusy
  <2> QED
    BY <1>2, <2>3
<1>4. RunFrom(t[1], go', job') = [at |-> "ended", ok |-> ok, age |-> 0]
  <2>1. go'[t].pc \in InRun /\ go'[t].pc = "save"
    BY <1>1 DEF InRun
  <2>2. \A u \in Thread : u[1] = t[1] /\ go'[u].pc \in InRun => u = t
    BY <1>2 DEF InRun
  <2>3. RunFrom(t[1], go', job') = [at |-> "ended", ok |-> TRUE /\ go'[t].ok,
                                   age |-> job'[t[1]].state.last]
    BY <2>1, <2>2, RunBusy
  <2>4. (TRUE /\ go'[t].ok) = ok
    BY <1>1
  <2> QED
    BY <1>1, <2>3, <2>4
<1>5. EntryBar' = EntryBar
  BY LoopStepElsewhere
<1> HIDE DEF n
<1>6. Records!End(n, ok)
  BY <1>1, <1>2, <1>3, <1>4, <1>5 DEF Records!End, EntryBar, RunBar
<1> QED
  BY <1>2, <1>6 DEF RecordStep, Records!Next, Records!JobStep

LEMMA SaveStateSaves ==
    ASSUME TypeOK, AllInv, RunsInv, NEW t \in Thread, SaveState(t)
    PROVE  RecordStep
<1> DEFINE n == NameOf(t)  s == job[t[1]].state
<1>1. /\ LoopStep(t) /\ go[t].pc = "save" /\ Alive(t)
      /\ go'[t].pc \notin InRun
      /\ store' = [store EXCEPT ![n] = s]
      /\ go[t].ok \in BOOLEAN
  BY DEF LoopStep, SaveState, saveState, Goto, At, Alive, TypeOK, LoopShape, InRun
<1>2. /\ RunBar' = [RunBar EXCEPT ![n] = RunFrom(t[1], go', job')]
      /\ RunBar[n] = RunFrom(t[1], go, job) /\ n \in Name
      /\ \A u \in Thread : u[1] = t[1] /\ u # t => go[u].pc = "none" /\ go'[u].pc = "none"
  BY <1>1, OwnRun
<1>3. RunBar[n] = [at |-> "ended", ok |-> TRUE /\ go[t].ok, age |-> s.last]
  BY <1>1, <1>2, RunBusy DEF InRun
<1>4. RunFrom(t[1], go', job') = Records!NoRun
  BY <1>1, <1>2, RunIdle DEF InRun
<1>5. EntryBar' = EntryBar
  BY <1>1, LoopStepElsewhere
<1>6. s.fails = updateState(store[n], go[t].ok).fails
  BY <1>1 DEF RunsInv, RunOK
<1>7. s \in JobState
  BY ThreadTyped DEF JobShape
<1> HIDE DEF n, s
<1>8. s = [last |-> s.last, fails |-> s.fails]
  BY <1>7 DEF JobState
<1>9. s.fails = Records!Failures(store[n], go[t].ok)
  BY <1>6 DEF updateState, Records!Failures
<1>10. RunBar[n].at = "ended" /\ RunBar[n].age = s.last /\ RunBar[n].ok = go[t].ok
  BY <1>1, <1>3
<1>11. store' = [store EXCEPT ![n] = [last |-> RunBar[n].age,
                                      fails |-> Records!Failures(store[n], RunBar[n].ok)]]
  BY <1>1, <1>8, <1>9, <1>10
<1>12. Records!Save(n)
  BY <1>2, <1>4, <1>5, <1>10, <1>11 DEF Records!Save, EntryBar, RunBar
<1> QED
  BY <1>2, <1>12 DEF RecordStep, Records!Next, Records!JobStep

LEMMA LoopStepMaps ==
    ASSUME TypeOK, AllInv, RunsInv, NEW t \in Thread, LoopStep(t)
    PROVE  RecordStep
<1> USE DEF Proceed, Goto, At, TypeOK, LoopShape, InRun
<1>1. CASE LoopTop(t)
  BY <1>1, QuietStepStutters DEF LoopTop
<1>2. CASE TimerFires(t)
  BY <1>2, QuietStepStutters DEF TimerFires
<1>3. CASE Leave(t)
  BY <1>3, QuietStepStutters DEF Leave, NoThread
<1>4. CASE BeginRun(t)
  BY <1>4, BeginRunBegins
<1>5. CASE SkipRun(t)
  BY <1>5, QuietStepStutters DEF SkipRun, AfterRun
<1>6. CASE PluginSucceeds(t)
  BY <1>6, EndRunEnds DEF PluginSucceeds
<1>7. CASE PluginFails(t)
  <2>1. CASE go[t].attempt < job[t[1]].cfg.retries
    BY <1>7, <2>1, QuietStepStutters DEF PluginFails
  <2>2. CASE ~(go[t].attempt < job[t[1]].cfg.retries)
    BY <1>7, <2>2, EndRunEnds DEF PluginFails
  <2> QED
    BY <2>1, <2>2
<1>8. CASE BackoffEnds(t)
  BY <1>8, QuietStepStutters DEF BackoffEnds
<1>9. CASE SaveState(t)
  BY <1>9, SaveStateSaves
<1>10. CASE Deliver(t)
  BY <1>10, QuietStepStutters DEF Deliver
<1>11. CASE Release(t)
  BY <1>11, QuietStepStutters DEF Release, AfterRun
<1>12. CASE Reschedule(t)
  BY <1>12, QuietStepStutters DEF Reschedule
<1> QED
  BY <1>1, <1>2, <1>3, <1>4, <1>5, <1>6, <1>7, <1>8, <1>9, <1>10, <1>11, <1>12
     DEF LoopStep

(* What the owner of the jobs and the passing of time do to the record. *)
LEMMA AddJobLoads ==
    ASSUME TypeOK, AllInv, RunsInv, AddJob
    PROVE  RecordStep
<1>1. PICK o \in FreeObjects, c \in Config :
             /\ jobs[c.name] = NoObject /\ c.name \in Name
             /\ jobs' = [jobs EXCEPT ![c.name] = o]
             /\ \A p \in Object \ {o} : job'[p] = job[p]
             /\ job'[o].cfg = c /\ UNCHANGED <<phase, store, go>>
  BY AddJobMoves
<1>2. /\ o \in Object /\ o # NoObject
      /\ \A t \in Thread : t[1] = o => ~Alive(t)
      /\ \A n \in Name : jobs[n] # o
  BY SchedulerAssumption DEF FreeObjects, LoopsOf, Listed
<1>3. \A n \in Name : n # c.name =>
         jobs'[n] = jobs[n] /\ (jobs[n] # NoObject => job'[jobs[n]] = job[jobs[n]])
  BY <1>1, <1>2 DEF TypeOK
<1>4. jobs'[c.name] = o /\ \A t \in Thread : t[1] # NoObject
  BY <1>1, ThreadTyped, SchedulerAssumption DEF TypeOK
<1>5. ASSUME NEW n \in Name
      PROVE  RunFrom(jobs'[n], go', job') = RunFrom(jobs[n], go, job)
  <2>1. CASE n = c.name
    <3>1. RunFrom(o, go', job') = Records!NoRun
      BY <1>1, <1>2, RunIdle DEF Alive, InRun
    <3>2. RunFrom(NoObject, go, job) = Records!NoRun
      BY <1>4, RunIdle
    <3> QED
      BY <1>1, <1>4, <2>1, <3>1, <3>2
  <2>2. CASE n # c.name
    <3>1. \A t \in Thread : t[1] = jobs[n] => job'[jobs[n]] = job[jobs[n]]
      BY <1>3, <1>4, <2>2
    <3> QED
      BY <1>1, <1>3, <2>2, <3>1, RunSame
  <2> QED
    BY <2>1, <2>2
<1>6. RunBar' = RunBar
  BY <1>5, RunBarIs
<1>7. EntryBar[c.name] = {}
  BY <1>1 DEF EntryBar, EntryOf
<1>8. \A n \in Name : EntryOf(n)' = IF n = c.name THEN {c} ELSE EntryOf(n)
  BY <1>1, <1>2, <1>3, <1>4 DEF EntryOf
<1>9. EntryBar' = [EntryBar EXCEPT ![c.name] = {c}]
  BY <1>8 DEF EntryBar
<1>10. Records!Load(c.name, c)
  BY <1>1, <1>6, <1>7, <1>9 DEF Records!Load, EntryBar, RunBar
<1> QED
  BY <1>1, <1>10 DEF RecordStep, Records!Next, Records!JobStep

LEMMA DiesMaps ==
    ASSUME TypeOK, Dies
    PROVE  RecordStep
<1>1. /\ jobs' = [n \in Name |-> NoObject] /\ UNCHANGED store
      /\ \A t \in Thread : go'[t].pc = "none"
  BY DEF Dies, NoThread
<1>2. EntryBar' = [n \in Name |-> {}]
  BY <1>1 DEF EntryBar, EntryOf
<1>3. RunBar' = [n \in Name |-> Records!NoRun]
  BY <1>1, RunBarIs, RunIdle DEF InRun
<1>4. Records!Die
  BY <1>1, <1>2, <1>3 DEF Records!Die, EntryBar, RunBar
<1> QED
  BY <1>4 DEF RecordStep, Records!Next

LEMMA TickAges ==
    ASSUME TypeOK, AllInv, RunsInv, Tick
    PROVE  RecordStep
<1>1. /\ UNCHANGED <<jobs, go>>
      /\ store' = [n \in Name |-> [store[n] EXCEPT !.last = Records!Older(@)]]
  BY DEF Tick, Older, Records!Older, Never, Records!Never
<1>2. \A o \in Object : /\ job'[o].cfg = job[o].cfg
                        /\ job'[o].state.last = Records!Older(job[o].state.last)
  <2>1. \A a : Older(a) = Records!Older(a)
    BY DEF Older, Records!Older, Never, Records!Never
  <2> QED
    BY <2>1, TickMoves
<1>3. \A n \in Name : jobs[n] # NoObject => jobs[n] \in Object
  BY DEF TypeOK
<1>4. EntryBar' = EntryBar
  <2>1. \A n \in Name : EntryOf(n)' = EntryOf(n)
    BY <1>1, <1>2, <1>3 DEF EntryOf
  <2> QED
    BY <2>1 DEF EntryBar
<1> DEFINE before(n) == RunFrom(jobs[n], go, job)
           after(n) == RunFrom(jobs[n], go', job')
<1>5. ASSUME NEW n \in Name
      PROVE  after(n) = IF before(n).at = "ended"
                        THEN [before(n) EXCEPT !.age = Records!Older(@)] ELSE before(n)
  <2>1. CASE \A t \in Thread : t[1] = jobs[n] => go[t].pc # "save"
    <3>1. after(n) = before(n)
      BY <1>1, <2>1, RunSame
    <3>2. before(n).at # "ended"
      <4>1. CASE \A t \in Thread : t[1] = jobs[n] => go[t].pc \notin InRun
        BY <4>1, RunIdle DEF Records!NoRun
      <4>2. ASSUME NEW t \in Thread, t[1] = jobs[n], go[t].pc \in InRun
            PROVE  before(n).at # "ended"
        <5>1. \A u \in Thread : u[1] = t[1] /\ go[u].pc \in InRun => u = t
          BY <4>2, RunnerPlace DEF Alive, InRun
        <5>2. RunFrom(t[1], go, job) = [at |-> "runs", ok |-> FALSE, age |-> 0]
          BY <2>1, <4>2, <5>1, RunBusy
        <5> QED
          BY <4>2, <5>2
      <4> QED
        BY <4>1, <4>2
    <3> HIDE DEF before, after
    <3> QED
      BY <3>1, <3>2
  <2>2. ASSUME NEW t \in Thread, t[1] = jobs[n], go[t].pc = "save"
        PROVE  after(n) = IF before(n).at = "ended"
                          THEN [before(n) EXCEPT !.age = Records!Older(@)] ELSE before(n)
    <3>1. \A u \in Thread : u[1] = t[1] /\ go[u].pc \in InRun => u = t
      BY <2>2, RunnerPlace DEF Alive, InRun
    <3>2. before(n) = [at |-> "ended", ok |-> TRUE /\ go[t].ok, age |-> job[t[1]].state.last]
      BY <2>2, <3>1, RunBusy DEF InRun
    <3>3. after(n) = [at |-> "ended", ok |-> TRUE /\ go[t].ok, age |-> job'[t[1]].state.last]
      <4>1. RunFrom(t[1], go, job') = [at |-> "ended", ok |-> TRUE /\ go[t].ok,
                                       age |-> job'[t[1]].state.last]
        <5>1. go[t].pc \in InRun
          BY <2>2 DEF InRun
        <5> QED
          BY <2>2, <3>1, <5>1, RunBusy
      <4>2. after(n) = RunFrom(t[1], go, job')
        BY <1>1, <2>2
      <4> QED
        BY <4>1, <4>2
    <3>4. job'[t[1]].state.last = Records!Older(job[t[1]].state.last)
      BY <1>2, ThreadTyped
    <3> HIDE DEF before, after
    <3> QED
      BY <3>2, <3>3, <3>4
  <2> QED
    BY <2>1, <2>2
<1>6. RunBar' = [n \in Name |-> IF RunBar[n].at = "ended"
                                THEN [RunBar[n] EXCEPT !.age = Records!Older(@)] ELSE RunBar[n]]
  <2>1. \A n \in Name : RunBar[n] = before(n)
    BY RunBarIs
  <2>2. RunBar' = [n \in Name |-> after(n)]
    BY <1>1, RunBarIs
  <2> HIDE DEF before, after
  <2> QED
    BY <1>5, <2>1, <2>2
<1>7. Records!Tick
  BY <1>1, <1>4, <1>6 DEF Records!Tick, EntryBar, RunBar
<1> QED
  BY <1>7 DEF RecordStep, Records!Next

LEMMA ControlMaps ==
    ASSUME ~CanReload, ~CanStop, TypeOK, AllInv, RunsInv, Control
    PROVE  RecordStep
<1>1. CASE Dies
  BY <1>1, DiesMaps
<1>2. CASE (\E list \in Lists : Boot(list)) \/ AddJobFails \/ Cancel
  <2>1. UNCHANGED <<jobs, job, store, go>>
    BY <1>2 DEF Boot, AddJobFails, Cancel
  <2>2. EntryBar' = EntryBar /\ RunBar' = RunBar
    BY <2>1, RunBarIs DEF EntryBar, EntryOf
  <2> QED
    BY <2>1, <2>2, RecordStutters
<1>3. CASE AddJob
  BY <1>3, AddJobLoads
<1>4. CASE StartLoaded
  <2>1. Start /\ UNCHANGED <<jobs, store>>
    BY <1>4 DEF StartLoaded
  <2>2. \A o \in Object : job'[o].cfg = job[o].cfg /\ job'[o].state = job[o].state
    BY <2>1 DEF Start, TypeOK, JobShape
  <2>3. \A n \in Name : jobs[n] # NoObject => jobs[n] \in Object
    BY DEF TypeOK
  <2>4. \A n \in Name : EntryOf(n)' = EntryOf(n)
    BY <2>1, <2>2, <2>3 DEF EntryOf
  <2>5. ASSUME NEW t \in Thread
        PROVE  \/ go'[t] = go[t]
               \/ go[t].pc = "none" /\ go'[t].pc \in {"none", "top"}
    BY <2>1, StartMoves DEF Alive, NoThread
  <2>6. ASSUME NEW n \in Name
        PROVE  RunFrom(jobs'[n], go', job') = RunFrom(jobs[n], go, job)
    <3>1. \A t \in Thread : t[1] = jobs[n] =>
              /\ go[t].pc \in InRun <=> go'[t].pc \in InRun
              /\ go[t].pc = "save" <=> go'[t].pc = "save"
              /\ go[t].pc = "save" => go'[t].ok = go[t].ok
              /\ job'[jobs[n]].state.last = job[jobs[n]].state.last
      BY <2>2, <2>5, ThreadTyped DEF InRun
    <3> QED
      BY <2>1, <3>1, RunSame
  <2>7. EntryBar' = EntryBar /\ RunBar' = RunBar
    BY <2>4, <2>6, RunBarIs DEF EntryBar
  <2> QED
    BY <2>1, <2>7, RecordStutters
<1> QED
  BY <1>1, <1>2, <1>3, <1>4
     DEF Control, Reload, StartAgain, Stop, StopPanics, Exit, Crash

(* The record of each job in the database follows its runs as JobRecord    *)
(* says, as long as the configuration is not reloaded and the scheduler    *)
(* is not stopped: runs one at a time, none early, each saved once or lost *)
(* with the process that ran it.                                           *)
THEOREM SchedulerImplementsRecord ==
    ASSUME ~CanReload, ~CanStop
    PROVE  Spec => RecordsRuns
<1>1. Init => Records!Init
  <2> SUFFICES ASSUME Init PROVE Records!Init
    OBVIOUS
  <2>1. /\ jobs = [n \in Name |-> NoObject]
        /\ store = [n \in Name |-> [last |-> Records!Never, fails |-> 0]]
        /\ \A t \in Thread : go[t].pc = "none"
    BY DEF Init, NoThread, NewState, Never, Records!Never
  <2>2. EntryBar = [n \in Name |-> {}]
    BY <2>1 DEF EntryBar, EntryOf
  <2>3. RunBar = [n \in Name |-> Records!NoRun]
    BY <2>1, RunBarIs, RunIdle DEF InRun
  <2> QED
    BY <2>1, <2>2, <2>3 DEF Records!Init, EntryBar, RunBar
<1>2. TypeOK /\ AllInv /\ RunsInv /\ [Next]_vars => RecordStep
  <2>1. UNCHANGED vars => RecordStep
    <3> SUFFICES ASSUME UNCHANGED vars PROVE RecordStep
      OBVIOUS
    <3>1. EntryBar' = EntryBar /\ RunBar' = RunBar /\ UNCHANGED store
      BY RunBarIs DEF vars, EntryBar, EntryOf
    <3> QED
      BY <3>1, RecordStutters
  <2> QED
    BY <2>1, LoopStepMaps, ControlMaps, TickAges DEF Next
<1>3. TypeOK /\ AllInv /\ RunsInv /\ [Next]_vars => [Records!Next]_(Records!vars)
  BY <1>2 DEF RecordStep
<1> QED
  BY <1>1, <1>3, RunsInvHolds, PTL DEF Spec, RecordsRuns, Records!Spec
=============================================================================
