-------------------------- MODULE SchedulerProofs --------------------------
(***************************************************************************)
(* Proofs about Scheduler for every set of jobs, entries and objects and   *)
(* every value of the bounds.                                              *)
(***************************************************************************)
EXTENDS Scheduler, TLAPS

-----------------------------------------------------------------------------
(* Type correctness of the helpers. *)

LEMMA ConfigTyped ==
    ASSUME NEW c \in Config
    PROVE  /\ c.name \in Name
           /\ c.every \in 1..Horizon
           /\ c.runOnStart \in BOOLEAN
           /\ c.allowOverlap \in BOOLEAN
           /\ c.retries \in Nat
  BY SchedulerAssumption DEF ConfigShape

LEMMA BlankTyped == BlankJob \in JobShape
<1>1. (CHOOSE c \in Config : TRUE) \in Config
  BY SchedulerAssumption
<1>2. NewState \in JobState
  BY SchedulerAssumption DEF NewState, JobState
<1> QED
  BY <1>1, <1>2, SchedulerAssumption DEF BlankJob, JobShape

(* computeNextRun never returns a date in the past. *)
LEMMA NextRunTyped ==
    ASSUME NEW c \in Config, NEW s \in JobState,
           NEW w \in computeNextRun(c, s)
    PROVE  w \in 0..Horizon
  BY ConfigTyped, SchedulerAssumption
     DEF computeNextRun, SpecNext, JobState, Age, Never

LEMMA UpdateTyped ==
    ASSUME NEW s \in JobState, NEW ok \in BOOLEAN
    PROVE  updateState(s, ok) \in JobState
  BY SchedulerAssumption DEF updateState, JobState, Age

LEMMA OlderTyped ==
    ASSUME NEW a \in Age \cup {Never}
    PROVE  Older(a) \in Age \cup {Never}
  BY SchedulerAssumption DEF Older, Age, Never

LEMMA DiesTyped == TypeOK /\ Dies => TypeOK'
<1>1. 0 \in 0..Horizon
  BY SchedulerAssumption
<1> QED
  BY <1>1, BlankTyped DEF TypeOK, Dies, Idle, CtlShape, NoThread, LoopShape, Pc

(* A step of one goroutine that only moves its program counter. *)
LEMMA MoveTyped ==
    ASSUME TypeOK, NEW t \in Thread, NEW label \in Pc, Goto(t, label),
           UNCHANGED <<phase, ctl, jobs, job, store>>,
           timer' \in [Thread -> 0..Horizon]
    PROVE  TypeOK'
  BY DEF TypeOK, Goto, LoopShape

(* The timer of a goroutine that goes on, maybe into its select. *)
LEMMA ProceedTyped ==
    ASSUME TypeOK, NEW t \in Thread, NEW label, Proceed(t, label)
    PROVE  /\ Goto(t, label)
           /\ timer' \in [Thread -> 0..Horizon]
           /\ \A u \in Thread \ {t} : timer'[u] = timer[u]
           /\ label = "wait" => timer'[t] = job[t[1]].wait
<1>1. job[t[1]].wait \in 0..Horizon
  BY DEF TypeOK, Thread, JobShape
<1> QED
  BY <1>1 DEF Proceed, TypeOK

(* The control state of a goroutine after a step. *)
LEMMA LoopTyped ==
    ASSUME NEW g \in LoopShape, NEW pc \in Pc, NEW via \in {"start", "timer"},
           NEW n \in Nat, NEW ok \in BOOLEAN
    PROVE  /\ [g EXCEPT !.pc = pc, !.via = via] \in LoopShape
           /\ [g EXCEPT !.pc = pc, !.attempt = n] \in LoopShape
           /\ [g EXCEPT !.pc = pc, !.ok = ok, !.attempt = n] \in LoopShape
<1>1. [g EXCEPT !.pc = pc, !.via = via] \in LoopShape
  BY DEF LoopShape
<1>2. [g EXCEPT !.pc = pc, !.attempt = n] \in LoopShape
  BY DEF LoopShape
<1>3. [g EXCEPT !.pc = pc, !.ok = ok, !.attempt = n] \in LoopShape
  BY DEF LoopShape
<1> QED
  BY <1>1, <1>2, <1>3

LEMMA SetLoopTyped ==
    ASSUME TypeOK, NEW t \in Thread, NEW g \in LoopShape, go' = [go EXCEPT ![t] = g]
    PROVE  go' \in [Thread -> LoopShape]
  BY DEF TypeOK

(* A step that replaces the record of one job object. *)
LEMMA SetJobTyped ==
    ASSUME TypeOK, NEW t \in Thread, NEW r \in JobShape, SetJob(t, r)
    PROVE  job' \in [Object -> JobShape]
  BY DEF TypeOK, SetJob, Thread

LEMMA ThreadTyped ==
    ASSUME TypeOK, NEW t \in Thread
    PROVE  /\ t[1] \in Object
           /\ job[t[1]] \in JobShape
           /\ job[t[1]].cfg \in Config
           /\ job[t[1]].state \in JobState
           /\ NameOf(t) \in Name
           /\ AfterRun(t) \in Pc
  BY ConfigTyped DEF TypeOK, Thread, NameOf, AfterRun, Pc, JobShape

LEMMA EndRunTyped ==
    ASSUME TypeOK, NEW t \in Thread, NEW ok \in BOOLEAN, EndRun(t, ok)
    PROVE  TypeOK'
<1> DEFINE r == [job[t[1]] EXCEPT !.state = updateState(@, ok)]
<1>1. r \in JobShape
  BY ThreadTyped, UpdateTyped DEF JobShape
<1>2. job' \in [Object -> JobShape]
  BY <1>1, SetJobTyped DEF EndRun
<1> DEFINE g == [go[t] EXCEPT !.pc = "save", !.ok = ok, !.attempt = 0]
<1>3. g \in LoopShape
  BY LoopTyped DEF TypeOK, Pc
<1>4. go' = [go EXCEPT ![t] = g]
  BY DEF EndRun, TypeOK
<1> HIDE DEF g
<1>5. go' \in [Thread -> LoopShape]
  BY <1>3, <1>4, SetLoopTyped
<1> QED
  BY <1>2, <1>5 DEF TypeOK, EndRun

-----------------------------------------------------------------------------
(* Every step of a goroutine keeps the types. *)
LEMMA LoopStepTyped ==
    ASSUME TypeOK, NEW t \in Thread, LoopStep(t)
    PROVE  TypeOK'
<1> USE ThreadTyped
<1>1. CASE LoopTop(t)
  <2>1. CASE job[t[1]].cfg.runOnStart /\ job[t[1]].state.last = Never
    BY <1>1, <2>1 DEF LoopTop, TypeOK, LoopShape, Pc
  <2>2. CASE ~(job[t[1]].cfg.runOnStart /\ job[t[1]].state.last = Never)
    BY <1>1, <2>2, MoveTyped, ProceedTyped DEF LoopTop, Pc
  <2> QED
    BY <2>1, <2>2
<1>2. CASE TimerFires(t)
  <2> DEFINE g == [go[t] EXCEPT !.pc = "enter", !.via = "timer"]
  <2>1. g \in LoopShape
    BY LoopTyped DEF TypeOK, Pc
  <2>2. go' = [go EXCEPT ![t] = g]
    BY <1>2 DEF TimerFires, TypeOK
  <2> HIDE DEF g
  <2>3. go' \in [Thread -> LoopShape]
    BY <2>1, <2>2, SetLoopTyped
  <2> QED
    BY <1>2, <2>3 DEF TimerFires, TypeOK
<1>3. CASE Leave(t)
  <2>1. job' \in [Object -> JobShape]
    BY <1>3, BlankTyped DEF Leave, TypeOK
  <2>2. NoThread \in LoopShape
    BY DEF NoThread, LoopShape, Pc
  <2>3. go' \in [Thread -> LoopShape]
    BY <1>3, <2>2 DEF Leave, TypeOK
  <2> QED
    BY <1>3, <2>1, <2>3, SchedulerAssumption DEF Leave, TypeOK
<1>4. CASE BeginRun(t)
  <2> DEFINE r == [job[t[1]] EXCEPT !.running = ~job[t[1]].cfg.allowOverlap]
  <2>1. r \in JobShape
    BY DEF JobShape
  <2>2. job' \in [Object -> JobShape]
    BY <1>4, <2>1, SetJobTyped DEF BeginRun
  <2> DEFINE g == [go[t] EXCEPT !.pc = "plugin", !.attempt = 0]
  <2>3. g \in LoopShape
    BY LoopTyped DEF TypeOK, Pc
  <2>4. go' = [go EXCEPT ![t] = g]
    BY <1>4 DEF BeginRun, TypeOK
  <2> HIDE DEF g
  <2>5. go' \in [Thread -> LoopShape]
    BY <2>3, <2>4, SetLoopTyped
  <2> QED
    BY <1>4, <2>2, <2>5 DEF BeginRun, TypeOK
<1>5. CASE SkipRun(t)
  BY <1>5, MoveTyped, ProceedTyped DEF SkipRun
<1>6. CASE PluginSucceeds(t)
  BY <1>6, EndRunTyped DEF PluginSucceeds
<1>7. CASE PluginFails(t)
  <2>1. CASE go[t].attempt < job[t[1]].cfg.retries
    BY <1>7, <2>1, MoveTyped DEF PluginFails, Pc, TypeOK
  <2>2. CASE ~(go[t].attempt < job[t[1]].cfg.retries)
    BY <1>7, <2>2, EndRunTyped DEF PluginFails
  <2> QED
    BY <2>1, <2>2
<1>8. CASE BackoffEnds(t)
  <2> DEFINE g == [go[t] EXCEPT !.pc = "plugin", !.attempt = @ + 1]
  <2>1. g \in LoopShape
    <3>1. go[t] \in LoopShape /\ go[t].attempt + 1 \in Nat /\ "plugin" \in Pc
      BY DEF TypeOK, LoopShape, Pc
    <3> QED
      BY <3>1, LoopTyped
  <2>2. go' = [go EXCEPT ![t] = g]
    BY <1>8 DEF BackoffEnds, TypeOK
  <2> HIDE DEF g
  <2>3. go' \in [Thread -> LoopShape]
    BY <2>1, <2>2, SetLoopTyped
  <2> QED
    BY <1>8, <2>3 DEF BackoffEnds, TypeOK
<1>9. CASE SaveState(t)
  <2>1. store' \in [Name -> JobState]
    BY <1>9 DEF SaveState, saveState, TypeOK
  <2>2. go' \in [Thread -> LoopShape]
    BY <1>9 DEF SaveState, Goto, TypeOK, LoopShape, Pc
  <2> QED
    BY <1>9, <2>1, <2>2 DEF SaveState, TypeOK
<1>10. CASE Deliver(t)
  BY <1>10, MoveTyped DEF Deliver, Pc, TypeOK
<1>11. CASE Release(t)
  <2>1. [job[t[1]] EXCEPT !.running = FALSE] \in JobShape
    BY DEF JobShape
  <2>2. job' \in [Object -> JobShape]
    BY <1>11, <2>1, SetJobTyped DEF Release
  <2>3. Goto(t, AfterRun(t)) /\ timer' \in [Thread -> 0..Horizon]
    BY <1>11, ProceedTyped DEF Release
  <2>4. go' \in [Thread -> LoopShape]
    BY <2>3 DEF Goto, TypeOK, LoopShape
  <2> QED
    BY <1>11, <2>2, <2>3, <2>4 DEF Release, TypeOK
<1>12. CASE Reschedule(t)
  <2>1. PICK w \in computeNextRun(job[t[1]].cfg, job[t[1]].state) :
          SetJob(t, [job[t[1]] EXCEPT !.wait = w])
    BY <1>12 DEF Reschedule
  <2>2. w \in 0..Horizon
    BY <2>1, NextRunTyped
  <2>3. [job[t[1]] EXCEPT !.wait = w] \in JobShape
    BY <2>2 DEF JobShape
  <2>4. job' \in [Object -> JobShape]
    BY <2>1, <2>3, SetJobTyped
  <2> QED
    BY <1>12, <2>4 DEF Reschedule, Goto, TypeOK, LoopShape, Pc
<1> QED
  BY <1>1, <1>2, <1>3, <1>4, <1>5, <1>6, <1>7, <1>8, <1>9, <1>10, <1>11,
     <1>12 DEF LoopStep

-----------------------------------------------------------------------------
LEMMA TodoTyped ==
    ASSUME TypeOK, ctl.todo # <<>>
    PROVE  Head(ctl.todo) \in Config /\ Tail(ctl.todo) \in Seq(Config)
<1>1. ctl.todo \in Seq(Config)
  BY DEF TypeOK, CtlShape
<1> QED
  BY <1>1

(* Every step of the daemon and of the scheduler's owner keeps the types. *)
LEMMA ControlTyped ==
    ASSUME TypeOK, Control
    PROVE  TypeOK'
<1>1. ASSUME NEW list \in Lists, Boot(list) PROVE TypeOK'
  BY <1>1, SchedulerAssumption DEF Boot, TypeOK, CtlShape
<1>2. ASSUME NEW list \in Lists, Reload(list) PROVE TypeOK'
  <2>1. job' \in [Object -> JobShape]
    BY <1>2, BlankTyped DEF Reload, Stopped, TypeOK, JobShape
  <2>2. ctl' \in CtlShape
    BY <1>2, SchedulerAssumption DEF Reload, CtlShape
  <2> QED
    BY <1>2, <2>1, <2>2 DEF Reload, TypeOK
<1>3. CASE AddJob
  <2> DEFINE c == Head(ctl.todo)
  <2>1. c \in Config /\ Tail(ctl.todo) \in Seq(Config)
    BY <1>3, TodoTyped DEF AddJob
  <2>2. PICK o \in FreeObjects :
          /\ \E w \in computeNextRun(c, loadState(c.name)) : NewJob(o, c, w)
          /\ jobs' = [jobs EXCEPT ![c.name] = o]
    BY <1>3 DEF AddJob
  <2>3. PICK w \in computeNextRun(c, loadState(c.name)) : NewJob(o, c, w)
    BY <2>2
  <2>4. loadState(c.name) \in JobState
    BY <2>1, ConfigTyped DEF loadState, TypeOK
  <2>5. w \in 0..Horizon
    BY <2>1, <2>3, <2>4, NextRunTyped
  <2>6. [BlankJob EXCEPT !.cfg = c, !.state = loadState(c.name), !.wait = w]
          \in JobShape
    BY <2>1, <2>4, <2>5, BlankTyped DEF JobShape
  <2>7. job' \in [Object -> JobShape]
    BY <2>3, <2>6 DEF NewJob, TypeOK
  <2>8. jobs' \in [Name -> Object \cup {NoObject}]
    BY <2>2 DEF TypeOK, FreeObjects
  <2>9. ctl' \in CtlShape
    BY <1>3, <2>1 DEF AddJob, TypeOK, CtlShape
  <2> QED
    BY <1>3, <2>7, <2>8, <2>9 DEF AddJob, TypeOK
<1>4. CASE AddJobFails
  <2>1. ctl' \in CtlShape
    <3>1. Idle \in CtlShape
      BY DEF Idle, CtlShape
    <3>2. Tail(ctl.todo) \in Seq(Config)
      BY <1>4, TodoTyped DEF AddJobFails
    <3>3. [ctl EXCEPT !.todo = Tail(@)] \in CtlShape
      BY <3>2 DEF TypeOK, CtlShape
    <3> QED
      BY <1>4, <3>1, <3>3 DEF AddJobFails
  <2> QED
    BY <1>4, <2>1 DEF AddJobFails, TypeOK
<1>5. ASSUME Start PROVE /\ job' \in [Object -> JobShape]
                         /\ go' \in [Thread -> LoopShape]
  <2>1. job' \in [Object -> JobShape]
    <3>1. \A o \in Object : [job[o] EXCEPT !.started = TRUE] \in JobShape
      BY DEF TypeOK, JobShape
    <3> QED
      BY <1>5, <3>1 DEF Start, TypeOK
  <2>2. [NoThread EXCEPT !.pc = "top"]
          \in LoopShape
    BY DEF NoThread, LoopShape, Pc
  <2>3. go' \in [Thread -> LoopShape]
    BY <1>5, <2>2 DEF Start, TypeOK
  <2> QED
    BY <2>1, <2>3
<1>6. CASE StartLoaded
  BY <1>5, <1>6 DEF StartLoaded, TypeOK, Idle, CtlShape
<1>7. CASE StartAgain
  BY <1>5, <1>7 DEF StartAgain, TypeOK
<1>8. CASE Stop
  <2>1. job' \in [Object -> JobShape]
    <3>1. ASSUME NEW o \in Object PROVE Stopped(o) \in JobShape
      <4>1. job[o] \in JobShape
        BY DEF TypeOK
      <4>2. [job[o] EXCEPT !.started = FALSE, !.stopped = TRUE] \in JobShape
        BY <4>1 DEF JobShape
      <4> QED
        BY <4>1, <4>2 DEF Stopped
    <3> QED
      BY <1>8, <3>1 DEF Stop
  <2> QED
    BY <1>8, <2>1 DEF Stop, TypeOK
<1>9. CASE StopPanics \/ Exit \/ Crash
  BY <1>9, DiesTyped DEF StopPanics, Exit, Crash
<1>10. CASE Cancel
  BY <1>10 DEF Cancel, TypeOK
<1> QED
  BY <1>1, <1>2, <1>3, <1>4, <1>6, <1>7, <1>8, <1>9, <1>10 DEF Control

LEMMA TickTyped ==
    ASSUME TypeOK, Tick
    PROVE  TypeOK'
<1>1. \A s \in JobState : [s EXCEPT !.last = Older(@)] \in JobState
  BY OlderTyped DEF JobState
<1>2. store' \in [Name -> JobState]
  BY <1>1 DEF Tick, TypeOK
<1>3. \A w \in 0..Horizon : Sooner(w) \in 0..Horizon
  BY SchedulerAssumption DEF Sooner
<1>4. job' \in [Object -> JobShape]
  <2>1. \A r \in JobShape :
          [r EXCEPT !.state.last = Older(@),
                    !.wait = Sooner(@)] \in JobShape
    BY <1>1, <1>3 DEF JobShape
  <2> QED
    BY <2>1 DEF Tick, TypeOK
<1>5. timer' \in [Thread -> 0..Horizon]
  BY <1>3 DEF Tick, TypeOK
<1> QED
  BY <1>2, <1>4, <1>5 DEF Tick, TypeOK

(* The state of the scheduler, of its goroutines and of the database keeps *)
(* its type: in particular the wait computed from a stored LastRun is      *)
(* never negative, whatever was stored and whatever interval it meets.     *)
THEOREM TypeCorrect == Spec => []TypeOK
<1>1. Init => TypeOK
  <2>1. NewState \in JobState
    BY SchedulerAssumption DEF NewState, JobState
  <2>2. Idle \in CtlShape
    BY DEF Idle, CtlShape
  <2>3. 0 \in 0..Horizon
    BY SchedulerAssumption
  <2> QED
    BY <2>1, <2>2, <2>3, BlankTyped DEF Init, TypeOK, NoThread, LoopShape, Pc
<1>2. TypeOK /\ [Next]_vars => TypeOK'
  <2> SUFFICES ASSUME TypeOK, [Next]_vars PROVE TypeOK'
    OBVIOUS
  <2>1. CASE Tick
    BY <2>1, TickTyped
  <2>2. CASE Control
    BY <2>2, ControlTyped
  <2>3. ASSUME NEW t \in Thread, LoopStep(t) PROVE TypeOK'
    BY <2>3, LoopStepTyped
  <2>4. CASE UNCHANGED vars
    BY <2>4 DEF vars, TypeOK
  <2> QED
    BY <2>1, <2>2, <2>3, <2>4 DEF Next
<1> QED
  BY <1>1, <1>2, PTL DEF Spec

-----------------------------------------------------------------------------
(***************************************************************************)
(* Mutual exclusion on a job object.  The invariant says what the flag     *)
(* means: while one goroutine holds the object of a job without            *)
(* allow_overlap, the flag is up, so the compare-and-swap of a second one  *)
(* fails.                                                                  *)
(***************************************************************************)
FlagHeld ==
    \A t \in Thread :
        Holding(t) /\ ~job[t[1]].cfg.allowOverlap => job[t[1]].running

OverlapInv == FlagHeld /\ NoOverlapPerJob

(* What an object in use keeps when its entry and its flag are kept. *)
LEMMA FlagFrame ==
    ASSUME OverlapInv,
           \A t \in Thread : Holding(t)' => Holding(t),
           \A t \in Thread :
               Holding(t) => /\ job'[t[1]].cfg = job[t[1]].cfg
                             /\ job'[t[1]].running = job[t[1]].running
    PROVE  OverlapInv'
  BY DEF OverlapInv, FlagHeld, NoOverlapPerJob

LEMMA HoldingAlive ==
    ASSUME NEW t \in Thread, Holding(t)
    PROVE  Alive(t) /\ t \in LoopsOf(t[1])
  BY DEF Holding, Alive, LoopsOf

LEMMA LoopStepOverlap ==
    ASSUME TypeOK, OverlapInv, NEW t \in Thread, LoopStep(t)
    PROVE  OverlapInv'
<1> USE ThreadTyped DEF TypeOK, LoopShape
<1>1. CASE LoopTop(t)
  BY <1>1, FlagFrame DEF LoopTop, Proceed, Goto, Holding
<1>2. CASE TimerFires(t)
  BY <1>2, FlagFrame DEF TimerFires, Holding
<1>3. CASE Leave(t)
  <2>1. \A u \in Thread : Holding(u)' => Holding(u)
    BY <1>3 DEF Leave, NoThread, Holding
  <2>2. ASSUME NEW u \in Thread, Holding(u)
        PROVE  job'[u[1]] = job[u[1]]
    <3>1. u # t
      BY <1>3, <2>2 DEF Leave, At, Holding
    <3>2. u[1] = t[1] => LoopsOf(t[1]) # {t}
      BY <2>2, <3>1, HoldingAlive
    <3> QED
      BY <1>3, <2>2, <3>2 DEF Leave
  <2> QED
    BY <2>1, <2>2, FlagFrame
<1>4. CASE BeginRun(t)
  <2>1. /\ job'[t[1]].cfg = job[t[1]].cfg
        /\ job'[t[1]].running = ~job[t[1]].cfg.allowOverlap
    BY <1>4 DEF BeginRun, SetJob, JobShape
  <2>2. \A u \in Thread : u[1] # t[1] => job'[u[1]] = job[u[1]]
    BY <1>4 DEF BeginRun, SetJob
  <2>3. \A u \in Thread : u # t => (Holding(u)' <=> Holding(u))
    BY <1>4 DEF BeginRun, Holding
  <2>4. ASSUME NEW u \in Thread, u # t, u[1] = t[1], Holding(u)
        PROVE  job[t[1]].cfg.allowOverlap
    BY <1>4, <2>4 DEF BeginRun, MayRun, OverlapInv, FlagHeld
  <2>5. FlagHeld'
    BY <2>1, <2>2, <2>3 DEF OverlapInv, FlagHeld
  <2>6. NoOverlapPerJob'
    BY <2>1, <2>2, <2>3, <2>4 DEF OverlapInv, NoOverlapPerJob
  <2> QED
    BY <2>5, <2>6 DEF OverlapInv
<1>5. CASE SkipRun(t)
  BY <1>5, FlagFrame DEF SkipRun, Proceed, Goto, AfterRun, Holding
<1>6. ASSUME NEW ok \in BOOLEAN, At(t, "plugin"), EndRun(t, ok)
      PROVE  OverlapInv'
  <2>1. \A u \in Thread : Holding(u)' => Holding(u)
    BY <1>6 DEF EndRun, At, Holding
  <2>2. \A u \in Thread : /\ job'[u[1]].cfg = job[u[1]].cfg
                          /\ job'[u[1]].running = job[u[1]].running
    BY <1>6 DEF EndRun, SetJob, JobShape
  <2> QED
    BY <2>1, <2>2, FlagFrame
<1>7. CASE PluginSucceeds(t)
  BY <1>6, <1>7 DEF PluginSucceeds
<1>8. CASE PluginFails(t)
  <2>1. CASE go[t].attempt < job[t[1]].cfg.retries
    BY <1>8, <2>1, FlagFrame DEF PluginFails, Goto, At, Holding
  <2>2. CASE ~(go[t].attempt < job[t[1]].cfg.retries)
    BY <1>6, <1>8, <2>2 DEF PluginFails
  <2> QED
    BY <2>1, <2>2
<1>9. CASE BackoffEnds(t)
  BY <1>9, FlagFrame DEF BackoffEnds, At, Holding
<1>10. CASE SaveState(t)
  BY <1>10, FlagFrame DEF SaveState, Goto, At, Holding
<1>11. CASE Deliver(t)
  BY <1>11, FlagFrame DEF Deliver, Goto, At, Holding
<1>12. CASE Release(t)
  <2>1. ~Holding(t)' /\ Holding(t)
    BY <1>12 DEF Release, Proceed, Goto, At, AfterRun, Holding
  <2>2. \A u \in Thread : u # t => (Holding(u)' <=> Holding(u))
    BY <1>12 DEF Release, Proceed, Goto, Holding
  <2>3. \A u \in Thread : job'[u[1]].cfg = job[u[1]].cfg
    BY <1>12 DEF Release, SetJob, JobShape
  <2>4. \A u \in Thread : u[1] # t[1] => job'[u[1]] = job[u[1]]
    BY <1>12 DEF Release, SetJob
  <2>5. FlagHeld'
    BY <2>1, <2>2, <2>3, <2>4 DEF OverlapInv, FlagHeld, NoOverlapPerJob
  <2>6. NoOverlapPerJob'
    BY <2>1, <2>2, <2>3 DEF OverlapInv, NoOverlapPerJob
  <2> QED
    BY <2>5, <2>6 DEF OverlapInv
<1>13. CASE Reschedule(t)
  <2>1. \A u \in Thread : Holding(u)' => Holding(u)
    BY <1>13 DEF Reschedule, Goto, Holding
  <2>2. \A u \in Thread : /\ job'[u[1]].cfg = job[u[1]].cfg
                          /\ job'[u[1]].running = job[u[1]].running
    BY <1>13 DEF Reschedule, SetJob, JobShape
  <2> QED
    BY <2>1, <2>2, FlagFrame
<1> QED
  BY <1>1, <1>2, <1>3, <1>4, <1>5, <1>7, <1>8, <1>9, <1>10, <1>11, <1>12,
     <1>13 DEF LoopStep

LEMMA ControlOverlap ==
    ASSUME TypeOK, OverlapInv, Control \/ Tick
    PROVE  OverlapInv'
<1> USE DEF TypeOK
<1>1. CASE Dies
  BY <1>1 DEF Dies, NoThread, Holding, OverlapInv, FlagHeld, NoOverlapPerJob
<1>2. ASSUME NEW list \in Lists, Boot(list) PROVE OverlapInv'
  BY <1>2, FlagFrame DEF Boot, Holding
<1>3. \A o \in Object : /\ Stopped(o).cfg = job[o].cfg
                        /\ Stopped(o).running = job[o].running
  BY DEF Stopped, JobShape
<1>4. ASSUME NEW list \in Lists, Reload(list) PROVE OverlapInv'
  <2>1. \A u \in Thread : Holding(u)' <=> Holding(u)
    BY <1>4 DEF Reload, Holding
  <2>2. \A u \in Thread : Holding(u) => job'[u[1]] = Stopped(u[1])
    BY <1>4, HoldingAlive, ThreadTyped DEF Reload
  <2> QED
    BY <1>3, <2>1, <2>2, FlagFrame, ThreadTyped
<1>5. CASE AddJob
  <2>1. \A u \in Thread : Holding(u)' <=> Holding(u)
    BY <1>5 DEF AddJob, Holding
  <2>2. PICK o \in FreeObjects : \E c, w : NewJob(o, c, w)
    BY <1>5 DEF AddJob
  <2>3. \A u \in Thread : Holding(u) => u[1] # o
    BY <2>2, HoldingAlive DEF FreeObjects
  <2>4. \A u \in Thread : Holding(u) => job'[u[1]] = job[u[1]]
    BY <2>2, <2>3, ThreadTyped DEF NewJob
  <2> QED
    BY <2>1, <2>4, FlagFrame
<1>6. CASE AddJobFails \/ Cancel
  BY <1>6, FlagFrame DEF AddJobFails, Cancel, Holding
<1>7. CASE Start
  <2>1. \A u \in Thread : Holding(u)' => Holding(u)
    BY <1>7 DEF Start, NoThread, Holding
  <2>2. \A u \in Thread : /\ job'[u[1]].cfg = job[u[1]].cfg
                          /\ job'[u[1]].running = job[u[1]].running
    BY <1>7, ThreadTyped DEF Start, JobShape
  <2> QED
    BY <2>1, <2>2, FlagFrame
<1>8. CASE Stop
  <2>1. \A u \in Thread : Holding(u)' <=> Holding(u)
    BY <1>8 DEF Stop, Holding
  <2>2. \A u \in Thread : job'[u[1]] = Stopped(u[1])
    BY <1>8, ThreadTyped DEF Stop
  <2> QED
    BY <1>3, <2>1, <2>2, FlagFrame, ThreadTyped
<1>9. CASE Tick
  <2>1. \A u \in Thread : Holding(u)' <=> Holding(u)
    BY <1>9 DEF Tick, Holding
  <2>2. \A u \in Thread : /\ job'[u[1]].cfg = job[u[1]].cfg
                          /\ job'[u[1]].running = job[u[1]].running
    BY <1>9, ThreadTyped DEF Tick, JobShape
  <2> QED
    BY <2>1, <2>2, FlagFrame
<1> QED
  BY <1>1, <1>2, <1>4, <1>5, <1>6, <1>7, <1>8, <1>9
     DEF Control, StartLoaded, StartAgain, StopPanics, Exit, Crash

(* Whatever the entries, the reloads, the restarts and the calls of Stop   *)
(* and Start, no job object without allow_overlap is executed by two       *)
(* goroutines at once.                                                     *)
THEOREM NoOverlapPerJobHolds == Spec => []NoOverlapPerJob
<1>1. Init => OverlapInv
  BY DEF Init, NoThread, Holding, OverlapInv, FlagHeld, NoOverlapPerJob
<1>2. TypeOK /\ OverlapInv /\ [Next]_vars => OverlapInv'
  <2> SUFFICES ASSUME TypeOK, OverlapInv, [Next]_vars PROVE OverlapInv'
    OBVIOUS
  <2>1. CASE Tick \/ Control
    BY <2>1, ControlOverlap
  <2>2. ASSUME NEW t \in Thread, LoopStep(t) PROVE OverlapInv'
    BY <2>2, LoopStepOverlap
  <2>3. CASE UNCHANGED vars
    BY <2>3 DEF vars, Holding, OverlapInv, FlagHeld, NoOverlapPerJob
  <2> QED
    BY <2>1, <2>2, <2>3 DEF Next
<1>3. OverlapInv => NoOverlapPerJob
  BY DEF OverlapInv
<1> QED
  BY <1>1, <1>2, <1>3, TypeCorrect, PTL DEF Spec
=============================================================================
