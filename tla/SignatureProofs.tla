--------------------------- MODULE SignatureProofs ---------------------------
(***************************************************************************)
(* Proofs about SignaturePanel and the Updater behind it, for any number   *)
(* of handlers, feeds and updates, and all configurations.                 *)
(***************************************************************************)
EXTENDS SignaturePanel, TLAPS

-----------------------------------------------------------------------------
(* Types. *)

LEMMA EmptyStatusTyped == \A n \in Nat : EmptyStatus(n) \in Status
BY DEF EmptyStatus, Status

LEMMA FeedsCached == Source \subseteq CachedFile /\ \A todo \in Seq(Source) : todo \in Seq(CachedFile)
BY DEF CachedFile

LEMMA WithTyped ==
  ASSUME NEW s \in Status, NEW e \in Entry, NEW r \in {"absent", "ok", "error"}
  PROVE  /\ With(s, e, r) \in Status
         /\ With(s, e, r).run = s.run
         /\ With(s, e, r).result = [s.result EXCEPT ![e] = r]
BY DEF With, Status

LEMMA AtTyped ==
  ASSUME NEW pc \in {"idle", "lock", "fetch", "import", "copy", "save"},
         NEW c \in BOOLEAN, NEW todo \in Seq(CachedFile), NEW s \in Status
  PROVE  /\ At(pc, c, todo, s) \in WorkerState
         /\ At(pc, c, todo, s).pc = pc /\ At(pc, c, todo, s).cancelled = c
         /\ At(pc, c, todo, s).todo = todo /\ At(pc, c, todo, s).status = s
BY DEF At, WorkerState

LEMMA IdleTyped == Idle \in WorkerState /\ Idle.pc = "idle" /\ Idle.status = EmptyStatus(0)
<1>1. EmptyStatus(0) \in Status BY EmptyStatusTyped
<1>2. <<>> \in Seq(CachedFile) OBVIOUS
<1> QED BY <1>1, <1>2 DEF Idle, At, WorkerState

LEMMA RqTyped ==
  ASSUME NEW st \in {"none", "sent", "running", "back"}, NEW kind \in {"get", "post"},
         NEW live \in BOOLEAN, NEW answer \in Status \cup {Failed}
  PROVE  /\ Rq(st, kind, live, answer) \in Request
         /\ Rq(st, kind, live, answer).st = st /\ Rq(st, kind, live, answer).kind = kind
         /\ Rq(st, kind, live, answer).live = live
         /\ Rq(st, kind, live, answer).answer = answer
BY DEF Rq, Request

LEMMA HooksTyped ==
  ASSUME NEW l \in BOOLEAN, NEW s \in Status \cup {NoStatus},
         NEW e \in BOOLEAN, NEW d \in BOOLEAN
  PROVE  /\ Hooks(l, s, e, d) \in Panel
         /\ Hooks(l, s, e, d).loading = l /\ Hooks(l, s, e, d).shown = s
         /\ Hooks(l, s, e, d).error = e /\ Hooks(l, s, e, d).disabled = d
BY DEF Hooks, Panel

LEMMA EnterTyped ==
  ASSUME UpdaterTypeOK, NEW w \in Worker, Enter(w)
  PROVE  /\ worker' \in [Worker -> WorkerState]
         /\ \A v \in Worker : /\ worker'[v].pc = "fetch" => worker'[v].todo \in Seq(Source)
                              /\ worker'[v].pc = "copy" => worker'[v].todo # <<>>
<1> DEFINE new == At("lock", FALSE, <<>>, EmptyStatus(0))
<1>1. EmptyStatus(0) \in Status /\ <<>> \in Seq(CachedFile) BY EmptyStatusTyped
<1>2. new \in WorkerState /\ new.pc = "lock" BY <1>1 DEF At, WorkerState
<1>3. worker' = [worker EXCEPT ![w] = new] BY DEF Enter
<1> HIDE DEF new
<1> QED BY <1>2, <1>3 DEF UpdaterTypeOK

LEMMA GoesTyped ==
  ASSUME UpdaterTypeOK, NEW w \in Worker, NEW todo \in Seq(CachedFile), NEW s \in Status,
         NEW pc \in {"idle", "lock", "fetch", "import", "copy", "save"},
         pc = "fetch" => todo \in Seq(Source), pc = "copy" => todo # <<>>,
         Goes(w, pc, todo, s)
  PROVE  /\ worker' \in [Worker -> WorkerState]
         /\ \A v \in Worker : /\ worker'[v].pc = "fetch" => worker'[v].todo \in Seq(Source)
                              /\ worker'[v].pc = "copy" => worker'[v].todo # <<>>
<1> DEFINE new == At(pc, worker[w].cancelled, todo, s)
<1>1. worker[w].cancelled \in BOOLEAN BY DEF UpdaterTypeOK, WorkerState
<1>2. new \in WorkerState /\ new.pc = pc /\ new.todo = todo BY <1>1, AtTyped
<1>3. worker' = [worker EXCEPT ![w] = new] BY DEF Goes
<1> HIDE DEF new
<1> QED BY <1>2, <1>3 DEF UpdaterTypeOK

LEMMA CancelledAtTyped ==
  ASSUME UpdaterTypeOK, NEW w \in Worker
  PROVE  /\ CancelledAt(w) \in WorkerState
         /\ CancelledAt(w).pc = worker[w].pc /\ CancelledAt(w).todo = worker[w].todo
         /\ CancelledAt(w).status = worker[w].status
BY DEF UpdaterTypeOK, WorkerState, CancelledAt, At

LEMMA CancelledTyped ==
  ASSUME UpdaterTypeOK, NEW hs, Cancelled(hs)
  PROVE  /\ worker' \in [Worker -> WorkerState]
         /\ \A v \in Worker : /\ worker'[v].pc = "fetch" => worker'[v].todo \in Seq(Source)
                              /\ worker'[v].pc = "copy" => worker'[v].todo # <<>>
BY CancelledAtTyped DEF Cancelled, UpdaterTypeOK

LEMMA ConfigTyped ==
  ASSUME NEW c \in Configs
  PROVE  /\ c.enabled \in BOOLEAN /\ c.airgap \in BOOLEAN
         /\ c.sources \in Seq(Source) /\ c.registered \subseteq Source
BY UpdaterAssumption DEF ConfigShape

(* Where the goroutines stand is well typed in the next state. *)
Feeding ==
    /\ worker' \in [Worker -> WorkerState]
    /\ \A v \in Worker : /\ worker'[v].pc = "fetch" => worker'[v].todo \in Seq(Source)
                         /\ worker'[v].pc = "copy" => worker'[v].todo # <<>>

(* Each step of the updater keeps its types. *)
LEMMA UpdaterTypeStep ==
  ASSUME UpdaterTypeOK
  PROVE  /\ \A w \in Worker : Begin(w) \/ Work(w) \/ Save(w) => UpdaterTypeOK'
         /\ TimerFires \/ UpdateConfig \/ Stop \/ Restart => UpdaterTypeOK'
<1> USE DEF UpdaterTypeOK
<1>1. ASSUME NEW w \in Worker, Begin(w) PROVE UpdaterTypeOK'
  <2>1. EmptyStatus(runs + 1) \in Status BY EmptyStatusTyped
  <2>2. Feeding
    <3>1. CASE cfg.airgap
      <4>1. PICK todo \in Bundles : Goes(w, "import", todo, EmptyStatus(runs + 1))
        BY <1>1, <3>1 DEF Begin, Starts
      <4>2. todo \in Seq(CachedFile) BY UpdaterAssumption
      <4> QED BY <2>1, <4>1, <4>2, GoesTyped DEF Feeding
    <3>2. CASE ~cfg.airgap
      <4>1. Goes(w, "fetch", cfg.sources, EmptyStatus(runs + 1)) BY <1>1, <3>2 DEF Begin, Starts
      <4>2. cfg.sources \in Seq(Source) BY ConfigTyped
      <4> QED BY <2>1, <4>1, <4>2, GoesTyped, FeedsCached DEF Feeding
    <3> QED BY <3>1, <3>2
  <2> QED BY <1>1, <2>2 DEF Begin, Feeding
<1>2. ASSUME NEW w \in Worker, NEW ok \in BOOLEAN, Fetch(w, ok) PROVE UpdaterTypeOK'
  <2> DEFINE s == Head(worker[w].todo)
             r == IF ok THEN "ok" ELSE "error"
  <2>1. worker[w].todo \in Seq(Source) /\ worker[w].status \in Status BY <1>2 DEF WorkerState, Fetch
  <2>2. s \in Source /\ Tail(worker[w].todo) \in Seq(Source) /\ Tail(worker[w].todo) \in Seq(CachedFile)
    BY <1>2, <2>1, FeedsCached DEF Fetch
  <2>3. With(worker[w].status, s, r) \in Status BY <2>1, <2>2, WithTyped DEF Entry
  <2>4. Goes(w, "fetch", Tail(worker[w].todo), With(worker[w].status, s, r)) BY <1>2 DEF Fetch
  <2>5. Feeding BY <2>2, <2>3, <2>4, GoesTyped DEF Feeding
  <2>6. file' \in [CachedFile -> {"none", "whole", "torn"}]
    BY <1>2, <2>2, FeedsCached DEF Fetch, Downloaded
  <2> QED BY <1>2, <2>5, <2>6 DEF Fetch, Feeding
<1>3. ASSUME NEW w \in Worker,
             ImportFails(w) \/ ImportOpens(w) \/ FileCopied(w) \/ CopyFails(w) \/ ImportEnds(w)
      PROVE  UpdaterTypeOK'
  <2>1. worker[w].status \in Status /\ worker[w].status.run \in Nat /\ worker[w].todo \in Seq(CachedFile)
    BY DEF WorkerState, Status
  <2>2. \A r \in {"absent", "ok", "error"} : With(worker[w].status, "airgap", r) \in Status
    BY <2>1, WithTyped DEF Entry
  <2>3. <<>> \in Seq(CachedFile) OBVIOUS
  <2>4. CASE ImportFails(w) \/ CopyFails(w) \/ ImportEnds(w)
    <3>1. \E r \in {"ok", "error"} : Goes(w, "save", <<>>, With(worker[w].status, "airgap", r))
      BY <2>4 DEF ImportFails, CopyFails, CopyError, ImportEnds
    <3>2. Feeding BY <3>1, <2>2, <2>3, GoesTyped DEF Feeding
    <3> QED BY <2>4, <3>2 DEF ImportFails, CopyFails, ImportEnds, Feeding
  <2>5. CASE ImportOpens(w)
    <3>1. Feeding BY <2>5, <2>1, GoesTyped DEF ImportOpens, Feeding
    <3>2. file' \in [CachedFile -> {"none", "whole", "torn"}] /\ opened' \in [CachedFile -> Nat]
      BY <2>5, <2>1 DEF ImportOpens
    <3> QED BY <2>5, <3>1, <3>2 DEF ImportOpens, Feeding
  <2>6. CASE FileCopied(w)
    <3>1. Tail(worker[w].todo) \in Seq(CachedFile) \/ worker[w].todo = <<>> BY <2>1
    <3>2. worker[w].todo # <<>> BY <2>6 DEF FileCopied
    <3>3. Feeding BY <2>6, <2>1, <3>1, <3>2, GoesTyped DEF FileCopied, Feeding
    <3>4. file' \in [CachedFile -> {"none", "whole", "torn"}] BY <2>6 DEF FileCopied
    <3> QED BY <2>6, <3>3, <3>4 DEF FileCopied, Feeding
  <2> QED BY <1>3, <2>4, <2>5, <2>6
<1>4. ASSUME NEW w \in Worker, Save(w) PROVE UpdaterTypeOK'
  <2>1. worker[w].status \in Status BY DEF WorkerState
  <2> QED BY <1>4, <2>1, IdleTyped DEF Save
<1>5. CASE TimerFires
  <2>1. Feeding BY <1>5, EnterTyped DEF TimerFires, Worker, Feeding
  <2>2. asked' \in 0..MaxRuns BY <1>5, UpdaterAssumption DEF TimerFires
  <2> QED BY <1>5, <2>1, <2>2 DEF TimerFires, Feeding
<1>6. CASE UpdateConfig
  BY <1>6, ConfigTyped DEF UpdateConfig
<1>7. CASE Stop
  BY <1>7, CancelledAtTyped DEF Stop, Worker
<1>8. CASE Restart
  BY <1>8, ConfigTyped, IdleTyped DEF Restart
<1> QED BY <1>1, <1>2, <1>3, <1>4, <1>5, <1>6, <1>7, <1>8 DEF Work

LEMMA AnswersTyped ==
  ASSUME TypeOK, NEW h \in Handler, NEW a \in Status \cup {Failed}, Answers(h, a)
  PROVE  rq' \in [Handler -> Request]
BY DEF Answers, Back, Rq, NoRequest, Request, TypeOK

LEMMA SendsTyped ==
  ASSUME TypeOK, NEW h \in Handler, NEW k \in {"get", "post"}, Sends(h, k)
  PROVE  rq' \in [Handler -> Request]
BY DEF Sends, Rq, Request, TypeOK

LEMMA InitTyped == Init => TypeOK
<1> SUFFICES ASSUME Init PROVE TypeOK OBVIOUS
<1>1. EmptyStatus(0) \in Status BY EmptyStatusTyped
<1>2. UpdaterTypeOK
  <2>1. registered \subseteq Source BY ConfigTyped DEF Init, UpdaterInit
  <2>2. asked \in 0..MaxRuns BY UpdaterAssumption DEF Init, UpdaterInit
  <2>3. worker \in [Worker -> WorkerState] /\ \A w \in Worker : worker[w].pc = "idle"
    BY IdleTyped DEF Init, UpdaterInit
  <2> QED BY <1>1, <2>1, <2>2, <2>3 DEF Init, UpdaterInit, UpdaterTypeOK
<1>3. BlankPanel \in Panel BY HooksTyped DEF BlankPanel
<1>4. NoRequest \in Request BY RqTyped DEF NoRequest
<1> QED BY <1>2, <1>3, <1>4 DEF Init, TypeOK

LEMMA TypeStep == TypeOK /\ [Next]_vars => TypeOK'
<1> SUFFICES ASSUME TypeOK, [Next]_vars PROVE TypeOK' OBVIOUS
<1> USE DEF TypeOK
<1>1. ASSUME NEW h \in Handler, Mount(h) PROVE TypeOK'
  <2>1. Hooks(TRUE, NoStatus, FALSE, FALSE) \in Panel BY HooksTyped
  <2>2. rq' \in [Handler -> Request] BY <1>1, SendsTyped DEF Mount
  <2> QED BY <1>1, <2>1, <2>2 DEF Mount, updaterVars, UpdaterTypeOK
<1>2. ASSUME NEW h \in Handler, Click(h) PROVE TypeOK'
  <2>1. Hooks(TRUE, panel.shown, panel.error, TRUE) \in Panel BY HooksTyped DEF Panel
  <2>2. rq' \in [Handler -> Request] BY <1>2, SendsTyped DEF Click
  <2>3. asked' \in 0..MaxRuns BY <1>2, UpdaterAssumption DEF Click, UpdaterTypeOK
  <2>4. early' \in BOOLEAN BY <1>2 DEF Click, Panel
  <2> QED BY <1>2, <2>1, <2>2, <2>3, <2>4 DEF Click, UpdaterTypeOK
<1>3. ASSUME NEW h \in Handler, Answer(h) PROVE TypeOK'
  <2>1. rq[h].answer \in Status \cup {Failed} BY DEF Request
  <2>2. Settled(panel, rq[h].answer) \in Panel BY <2>1 DEF Settled, Hooks, Panel
  <2>3. NoRequest \in Request BY RqTyped DEF NoRequest
  <2> QED BY <1>3, <2>2, <2>3 DEF Answer, updaterVars, UpdaterTypeOK
<1>4. ASSUME NEW h \in Handler, ServeStatus(h) PROVE TypeOK'
  <2>1. rq' \in [Handler -> Request]
    BY <1>4, AnswersTyped DEF ServeStatus, UpdaterTypeOK
  <2> QED BY <1>4, <2>1 DEF ServeStatus, updaterVars, UpdaterTypeOK
<1>5. ASSUME NEW h \in Handler, TriggerUpdate(h) PROVE TypeOK'
  <2>1. CASE cfg.enabled
    <3>1. Feeding BY <1>5, <2>1, EnterTyped DEF TriggerUpdate, Worker, Feeding
    <3>2. Rq("running", "post", rq[h].live, Failed) \in Request BY DEF Rq, Request
    <3> QED BY <1>5, <2>1, <3>1, <3>2 DEF TriggerUpdate, UpdaterTypeOK, Feeding
  <2>2. CASE ~cfg.enabled
    <3>1. rq' \in [Handler -> Request] BY <1>5, <2>2, AnswersTyped DEF TriggerUpdate
    <3> QED BY <1>5, <2>2, <3>1 DEF TriggerUpdate, UpdaterTypeOK
  <2> QED BY <2>1, <2>2
<1>6. ASSUME NEW h \in Handler, Break(h) PROVE TypeOK'
  <2>1. rq' \in [Handler -> Request] BY <1>6, AnswersTyped DEF Break
  <2>2. Feeding BY <1>6, CancelledTyped DEF Break, Feeding
  <2> QED BY <1>6, <2>1, <2>2 DEF Break, UpdaterTypeOK, Feeding
<1>7. ASSUME NEW w \in Worker, UpdaterStep(w) PROVE TypeOK'
  BY <1>7, UpdaterTypeStep DEF UpdaterStep, panelVars
<1>8. ASSUME NEW w \in Worker, SaveAnswers(w) PROVE TypeOK'
  <2>1. UpdaterTypeOK' BY <1>8, UpdaterTypeStep DEF SaveAnswers
  <2>2. worker[w].status \in Status BY DEF UpdaterTypeOK, WorkerState
  <2>3. rq' \in [Handler -> Request] BY <1>8, <2>2, AnswersTyped DEF SaveAnswers
  <2> QED BY <1>8, <2>1, <2>3 DEF SaveAnswers
<1>9. CASE Render
  <2>1. Hooks(panel.loading, panel.shown, panel.error, panel.loading) \in Panel
    BY DEF Hooks, Panel
  <2> QED BY <1>9, <2>1 DEF Render, updaterVars, UpdaterTypeOK
<1>10. CASE Leave
  <2>1. BlankPanel \in Panel BY HooksTyped DEF BlankPanel
  <2>2. \A r \in Request : Unmounted(r) \in Request
    BY DEF Unmounted, NoRequest, Rq, Request
  <2> QED BY <1>10, <2>1, <2>2 DEF Leave, updaterVars, UpdaterTypeOK
<1>11. CASE CloseTab
  <2>1. BlankPanel \in Panel BY HooksTyped DEF BlankPanel
  <2>2. NoRequest \in Request BY RqTyped DEF NoRequest
  <2>3. Feeding BY <1>11, CancelledTyped DEF CloseTab, Feeding
  <2> QED BY <1>11, <2>1, <2>2, <2>3 DEF CloseTab, UpdaterTypeOK, Feeding
<1>12. CASE RestartAnswers
  <2>1. UpdaterTypeOK' BY <1>12, UpdaterTypeStep DEF RestartAnswers
  <2>2. \A r \in Request : Back(r, Failed) \in Request BY DEF Back, NoRequest, Rq, Request
  <2> QED BY <1>12, <2>1, <2>2 DEF RestartAnswers
<1>13. CASE (TimerFires \/ UpdateConfig \/ Stop) /\ UNCHANGED panelVars
  BY <1>13, UpdaterTypeStep DEF panelVars
<1>14. CASE UNCHANGED vars
  BY <1>14 DEF vars, updaterVars, UpdaterTypeOK
<1> QED
  BY <1>1, <1>2, <1>3, <1>4, <1>5, <1>6, <1>7, <1>8, <1>9, <1>10, <1>11, <1>12, <1>13, <1>14
     DEF Next

(* Every reachable state of panel, requests and updater is well typed.     *)
THEOREM PanelTypeCorrect == Spec => []TypeOK
BY InitTyped, TypeStep, PTL DEF Spec

-----------------------------------------------------------------------------
(* The updater.                                                            *)
Working(w) == worker[w].pc \in {"fetch", "import", "copy", "save"}

(* Whoever works in runOnce holds the mutex.                               *)
Mutex == \A w \in Worker : Working(w) => lock = w

(* It works for the newest run, which is later than the saved one and not  *)
(* earlier than any import.                                                *)
Numbers ==
    /\ db.run <= runs
    /\ \A f \in CachedFile : opened[f] <= runs
    /\ \A w \in Worker :
         Working(w) => db.run < worker[w].status.run /\ worker[w].status.run = runs

(* What a goroutine has noted so far: a feed is in order only in a run     *)
(* that imports nothing, an import only when it is through.  What this run *)
(* has opened is whole, but for the file that is being copied.             *)
Right(w) ==
    LET status == worker[w].status
        Whole(f) == opened[f] = status.run => file[f] = "whole"
    IN  /\ \A s \in Source : status.result[s] = "ok" => worker[w].pc = "fetch" /\ file[s] = "whole"
        /\ status.result["airgap"] = "ok" => worker[w].pc = "save" /\ \A f \in CachedFile : Whole(f)
        /\ worker[w].pc = "import" => \A f \in CachedFile : Whole(f)
        /\ worker[w].pc = "copy" => \A f \in CachedFile : f # Head(worker[w].todo) => Whole(f)

Statuses == \A w \in Worker : Working(w) => Right(w)

UpdaterInv == Mutex /\ Numbers /\ Statuses /\ StatusMeansCached

(* No step takes the saved run back; a file gets worse only when an import *)
(* opens it, which is later than the saved run.                            *)
Grows ==
    /\ db'.run >= db.run
    /\ \A f \in CachedFile :
         \/ opened'[f] = opened[f] /\ (file[f] = "whole" => file'[f] = "whole")
         \/ opened'[f] > db.run

(* A status that was saved, now and in the next state. *)
Known(status) == Truthful(status) /\ status.run <= db.run

KnownNext(status) ==
    /\ \A s \in Source :
         status.result[s] = "ok" => file'[s] = "whole" \/ opened'[s] > status.run
    /\ status.result["airgap"] = "ok" =>
         \A f \in CachedFile : opened'[f] = status.run => file'[f] = "whole"
    /\ status.run <= db'.run

LEMMA KnownGrows ==
  ASSUME UpdaterTypeOK, UpdaterTypeOK', Grows, NEW st \in Status, Known(st)
  PROVE  KnownNext(st)
<1>1. st.run \in Nat /\ db.run \in Nat /\ db'.run \in Nat BY DEF UpdaterTypeOK, Status
<1>2. \A f \in CachedFile : opened[f] \in Nat /\ opened'[f] \in Nat BY DEF UpdaterTypeOK
<1>3. st.run <= db.run /\ db'.run >= db.run BY DEF Known, Grows
<1>4. ASSUME NEW s \in Source, st.result[s] = "ok"
      PROVE  file'[s] = "whole" \/ opened'[s] > st.run
  <2>1. s \in CachedFile /\ (file[s] = "whole" \/ opened[s] > st.run)
    BY <1>4, FeedsCached DEF Known, Truthful
  <2> QED BY <1>1, <1>2, <1>3, <2>1 DEF Grows
<1>5. ASSUME st.result["airgap"] = "ok", NEW f \in CachedFile, opened'[f] = st.run
      PROVE  file'[f] = "whole"
  <2>1. opened'[f] = opened[f] /\ (file[f] = "whole" => file'[f] = "whole")
    BY <1>1, <1>2, <1>3, <1>5 DEF Grows
  <2> QED BY <1>5, <2>1 DEF Known, Truthful
<1> QED BY <1>1, <1>3, <1>4, <1>5 DEF KnownNext

(* The stored status stays true in a step that does not save another.      *)
LEMMA StoredStays ==
  ASSUME UpdaterTypeOK, UpdaterTypeOK', StatusMeansCached, Grows, UNCHANGED db
  PROVE  StatusMeansCached'
<1>1. db \in Status /\ db.run \in Nat BY DEF UpdaterTypeOK, Status
<1>2. Known(db) BY <1>1 DEF Known, StatusMeansCached
<1>3. KnownNext(db) BY <1>1, <1>2, KnownGrows
<1> QED BY <1>3 DEF KnownNext, StatusMeansCached, Truthful

LEMMA NobodyElse == Nobody \notin Worker
BY UpdaterAssumption DEF Worker, Nobody, Timer

LEMMA EmptyStatusEmpty == \A n \in Nat, e \in Entry : EmptyStatus(n).run = n /\ EmptyStatus(n).result[e] = "absent"
BY DEF EmptyStatus

LEMMA AirgapApart == "airgap" \in Entry /\ "airgap" \notin Source /\ Source \subseteq Entry
BY UpdaterAssumption DEF Entry

(* A step that only cancels goroutines or moves them outside of the        *)
(* mutex.                                                                  *)
LEMMA OutsideMutex ==
  ASSUME UpdaterTypeOK, UpdaterTypeOK', UpdaterInv,
         UNCHANGED <<lock, runs, db, file, opened>>,
         \A w \in Worker :
           \/ /\ worker'[w].pc = worker[w].pc /\ worker'[w].status = worker[w].status
              /\ worker'[w].todo = worker[w].todo
           \/ worker[w].pc \in {"idle", "lock"} /\ worker'[w].pc \in {"idle", "lock"}
  PROVE  UpdaterInv' /\ Grows
<1>1. Mutex' BY DEF UpdaterInv, Mutex, Working
<1>2. Numbers' BY DEF UpdaterInv, Numbers, Working
<1>3. Statuses'
  <2> SUFFICES ASSUME NEW w \in Worker, Working(w)' PROVE Right(w)' BY DEF Statuses
  <2>1. /\ worker'[w].pc = worker[w].pc /\ worker'[w].status = worker[w].status
        /\ worker'[w].todo = worker[w].todo
    BY DEF Working
  <2>2. Right(w) BY <2>1 DEF UpdaterInv, Statuses, Working
  <2> QED BY <2>1, <2>2 DEF Right
<1>4. Grows BY DEF Grows, UpdaterTypeOK, Status
<1>5. StatusMeansCached' BY <1>4, StoredStays DEF UpdaterInv
<1> QED BY <1>1, <1>2, <1>3, <1>4, <1>5 DEF UpdaterInv

LEMMA UpdaterInvInit == UpdaterInit => UpdaterInv
<1> SUFFICES ASSUME UpdaterInit PROVE UpdaterInv OBVIOUS
<1>1. \A w \in Worker : ~Working(w) BY IdleTyped DEF UpdaterInit, Working
<1>2. db = EmptyStatus(0) /\ runs = 0 /\ db.run = 0
  BY EmptyStatusEmpty, AirgapApart DEF UpdaterInit
<1>3. Mutex /\ Numbers /\ Statuses
  BY <1>1, <1>2 DEF UpdaterInit, Mutex, Numbers, Statuses
<1>4. StatusMeansCached
  BY <1>2, EmptyStatusEmpty, AirgapApart DEF StatusMeansCached, Truthful
<1> QED BY <1>3, <1>4 DEF UpdaterInv

LEMMA GoesMoves ==
  ASSUME UpdaterTypeOK, NEW w \in Worker, NEW pc, NEW todo, NEW s, Goes(w, pc, todo, s)
  PROVE  /\ worker'[w].pc = pc /\ worker'[w].status = s /\ worker'[w].todo = todo
         /\ \A v \in Worker \ {w} : worker'[v] = worker[v]
BY DEF Goes, At, UpdaterTypeOK

(* A worker's step inside the mutex that saves nothing: nobody else works. *)
LEMMA InsideMutex ==
  ASSUME UpdaterTypeOK, UpdaterTypeOK', UpdaterInv, NEW w \in Worker, Working(w), Working(w)',
         UNCHANGED <<lock, runs, db>>,
         worker'[w].status.run = worker[w].status.run,
         \A v \in Worker \ {w} : worker'[v] = worker[v],
         \A f \in CachedFile :
           \/ opened'[f] = opened[f] /\ (file[f] = "whole" => file'[f] = "whole")
           \/ opened'[f] = worker[w].status.run,
         Right(w)'
  PROVE  UpdaterInv' /\ Grows
<1>1. \A v \in Worker \ {w} : ~Working(v)' BY DEF UpdaterInv, Mutex, Working
<1>2. Mutex' BY DEF UpdaterInv, Mutex, Working
<1>3. db.run < worker[w].status.run /\ worker[w].status.run = runs /\ db.run \in Nat /\ runs \in Nat
  BY DEF UpdaterInv, Numbers, UpdaterTypeOK, Status
<1>4. Numbers' BY <1>1, <1>3 DEF UpdaterInv, Numbers
<1>5. Statuses' BY <1>1 DEF Statuses
<1>6. Grows BY <1>3 DEF Grows
<1>7. StatusMeansCached' BY <1>6, StoredStays DEF UpdaterInv
<1> QED BY <1>2, <1>4, <1>5, <1>6, <1>7 DEF UpdaterInv

LEMMA BeginInv ==
  ASSUME UpdaterTypeOK, UpdaterTypeOK', UpdaterInv, NEW w \in Worker, Begin(w)
  PROVE  UpdaterInv' /\ Grows
<1>1. /\ worker'[w].pc \in {"import", "fetch"}
      /\ worker'[w].status = EmptyStatus(runs + 1)
      /\ \A v \in Worker \ {w} : worker'[v] = worker[v]
  BY GoesMoves DEF Begin, Starts
<1>2. \A v \in Worker : ~Working(v) BY NobodyElse DEF Begin, UpdaterInv, Mutex
<1>3. /\ worker'[w].status.run = runs + 1
      /\ \A e \in Entry : worker'[w].status.result[e] = "absent"
  BY <1>1 DEF EmptyStatus
<1>4. /\ runs \in Nat /\ db.run \in Nat /\ db.run <= runs
      /\ \A f \in CachedFile : opened[f] \in Nat /\ opened[f] <= runs
  BY DEF UpdaterTypeOK, Status, UpdaterInv, Numbers
<1>5. lock' = w /\ runs' = runs + 1 /\ UNCHANGED <<db, file, opened>> BY DEF Begin
<1>6. \A v \in Worker : Working(v)' => v = w BY <1>1, <1>2 DEF Working
<1>7. Mutex' BY <1>5, <1>6 DEF Mutex
<1>8. Numbers' BY <1>3, <1>4, <1>5, <1>6 DEF Numbers
<1>9. Right(w)' BY <1>1, <1>3, <1>4, <1>5, AirgapApart DEF Right
<1>10. Statuses' BY <1>6, <1>9 DEF Statuses
<1>11. Grows BY <1>4, <1>5 DEF Grows
<1>12. StatusMeansCached' BY <1>5, <1>11, StoredStays DEF UpdaterInv
<1> QED BY <1>7, <1>8, <1>10, <1>11, <1>12 DEF UpdaterInv

LEMMA FetchInv ==
  ASSUME UpdaterTypeOK, UpdaterTypeOK', UpdaterInv,
         NEW w \in Worker, NEW ok \in BOOLEAN, Fetch(w, ok)
  PROVE  UpdaterInv' /\ Grows
<1> DEFINE f == Head(worker[w].todo)
           r == IF ok THEN "ok" ELSE "error"
           new == With(worker[w].status, f, r)
<1>1. f \in Source /\ worker[w].status \in Status
  <2>1. worker[w] \in WorkerState BY DEF UpdaterTypeOK
  <2>2. worker[w].todo \in Seq(Source) /\ worker[w].todo # <<>> BY DEF UpdaterTypeOK, Fetch
  <2> QED BY <2>1, <2>2 DEF WorkerState
<1>2. new.run = worker[w].status.run
      /\ new.result = [worker[w].status.result EXCEPT ![f] = r]
  BY <1>1, WithTyped, AirgapApart
<1>3. /\ worker'[w].pc = "fetch" /\ worker'[w].status = new
      /\ \A v \in Worker \ {w} : worker'[v] = worker[v]
  <2>1. Goes(w, "fetch", Tail(worker[w].todo), new) BY DEF Fetch
  <2> QED BY <2>1, GoesMoves
<1>4. \A e \in CachedFile : file[e] = "whole" => file'[e] = "whole"
  BY DEF Fetch, Downloaded, UpdaterTypeOK
<1>5. ok => file'[f] = "whole" BY <1>1, FeedsCached DEF Fetch, Downloaded, UpdaterTypeOK
<1>6. worker[w].status.result \in [Entry -> {"absent", "ok", "error"}] BY <1>1 DEF Status
<1>7. worker[w].pc = "fetch" /\ UNCHANGED <<lock, runs, db, opened>> BY DEF Fetch
<1>8. Working(w) /\ Working(w)' BY <1>3, <1>7 DEF Working
<1>9. Right(w) BY <1>8 DEF UpdaterInv, Statuses
<1>10. ASSUME NEW s \in Source, worker'[w].status.result[s] = "ok" PROVE file'[s] = "whole"
  <2>1. CASE s = f BY <1>2, <1>3, <1>5, <1>6, <1>10, <2>1, AirgapApart
  <2>2. CASE s # f
    <3>1. worker[w].status.result[s] = "ok" BY <1>2, <1>3, <1>6, <1>10, <2>2, AirgapApart
    <3> QED BY <3>1, <1>4, <1>9, FeedsCached DEF Right
  <2> QED BY <2>1, <2>2
<1>11. worker'[w].status.result["airgap"] # "ok"
  <2>1. worker'[w].status.result["airgap"] = worker[w].status.result["airgap"]
    BY <1>1, <1>2, <1>3, <1>6, AirgapApart
  <2> QED BY <2>1, <1>7, <1>9 DEF Right
<1>12. Right(w)' BY <1>3, <1>10, <1>11 DEF Right
<1>13. worker'[w].status.run = worker[w].status.run BY <1>2, <1>3
<1> HIDE DEF f, r, new
<1> QED BY <1>3, <1>4, <1>7, <1>8, <1>12, <1>13, InsideMutex

(* With an entry for the import the rest of a status stays as it is. *)
LEMMA WithImport ==
  ASSUME NEW st \in Status, NEW r \in {"absent", "ok", "error"}
  PROVE  /\ With(st, "airgap", r).run = st.run
         /\ With(st, "airgap", r).result["airgap"] = r
         /\ \A s \in Source : With(st, "airgap", r).result[s] = st.result[s]
BY AirgapApart DEF With, Status

LEMMA ImportInv ==
  ASSUME UpdaterTypeOK, UpdaterTypeOK', UpdaterInv, NEW w \in Worker,
         ImportFails(w) \/ ImportOpens(w) \/ FileCopied(w) \/ CopyFails(w) \/ ImportEnds(w)
  PROVE  UpdaterInv' /\ Grows
<1> DEFINE old == worker[w].status
           f == Head(worker[w].todo)
<1>1. /\ old \in Status /\ worker[w].pc \in {"import", "copy"}
      /\ UNCHANGED <<lock, runs, db>> /\ Working(w)
  BY DEF UpdaterTypeOK, WorkerState, ImportFails, ImportOpens, FileCopied, CopyFails, ImportEnds, Working
<1>2. Right(w) BY <1>1 DEF UpdaterInv, Statuses
<1>3. old.result["airgap"] # "ok" /\ \A s \in Source : old.result[s] # "ok"
  BY <1>1, <1>2 DEF Right
<1>4. CASE ImportFails(w) \/ CopyFails(w)
  <2>1. /\ worker'[w].pc = "save" /\ worker'[w].status = With(old, "airgap", "error")
        /\ \A v \in Worker \ {w} : worker'[v] = worker[v]
    BY <1>4, GoesMoves DEF ImportFails, CopyFails, CopyError
  <2>2. UNCHANGED <<file, opened>> BY <1>4 DEF ImportFails, CopyFails
  <2>3. worker'[w].status.run = old.run BY <1>1, <2>1, WithImport
  <2>4. worker'[w].status.result["airgap"] = "error" BY <1>1, <2>1, WithImport
  <2>5. \A s \in Source : worker'[w].status.result[s] = old.result[s] BY <1>1, <2>1, WithImport
  <2> HIDE DEF old
  <2>6. Right(w)' BY <1>3, <2>1, <2>4, <2>5 DEF Right
  <2> QED BY <1>1, <2>1, <2>2, <2>3, <2>6, InsideMutex DEF Working, old
<1>5. CASE ImportEnds(w)
  <2>1. /\ worker'[w].pc = "save" /\ worker'[w].status = With(old, "airgap", "ok")
        /\ \A v \in Worker \ {w} : worker'[v] = worker[v]
    BY <1>5, GoesMoves DEF ImportEnds
  <2>2. UNCHANGED <<file, opened>> /\ worker[w].pc = "import" BY <1>5 DEF ImportEnds
  <2>3. worker'[w].status.run = old.run BY <1>1, <2>1, WithImport
  <2>4. \A s \in Source : worker'[w].status.result[s] = old.result[s] BY <1>1, <2>1, WithImport
  <2>5. \A e \in CachedFile : opened'[e] = worker'[w].status.run => file'[e] = "whole"
    BY <1>2, <2>2, <2>3 DEF Right
  <2> HIDE DEF old
  <2>6. Right(w)' BY <1>3, <2>1, <2>4, <2>5 DEF Right
  <2> QED BY <1>1, <2>1, <2>2, <2>3, <2>6, InsideMutex DEF Working, old
<1>6. CASE ImportOpens(w)
  <2>1. /\ worker'[w].pc = "copy" /\ worker'[w].status = old /\ worker'[w].todo = worker[w].todo
        /\ \A v \in Worker \ {w} : worker'[v] = worker[v]
    BY <1>6, GoesMoves DEF ImportOpens
  <2>2. /\ worker[w].pc = "import"
        /\ file' = [file EXCEPT ![f] = "torn"] /\ opened' = [opened EXCEPT ![f] = old.run]
    BY <1>6 DEF ImportOpens
  <2>3. \A e \in CachedFile : e # f => opened'[e] = opened[e] /\ file'[e] = file[e]
    BY <2>2 DEF UpdaterTypeOK
  <2>4. \A e \in CachedFile : e = f => opened'[e] = old.run BY <2>2 DEF UpdaterTypeOK
  <2>5. \A e \in CachedFile : opened[e] = old.run => file[e] = "whole" BY <1>2, <2>2 DEF Right
  <2>6. Right(w)' BY <1>3, <2>1, <2>3, <2>5 DEF Right
  <2>7. \A e \in CachedFile :
           \/ opened'[e] = opened[e] /\ (file[e] = "whole" => file'[e] = "whole")
           \/ opened'[e] = worker[w].status.run
    BY <2>3, <2>4
  <2>8. Working(w)' BY <2>1 DEF Working
  <2> HIDE DEF old, f
  <2> QED BY <1>1, <2>1, <2>6, <2>7, <2>8, InsideMutex DEF old
<1>7. CASE FileCopied(w)
  <2>1. /\ worker'[w].pc = "import" /\ worker'[w].status = old
        /\ \A v \in Worker \ {w} : worker'[v] = worker[v]
    BY <1>7, GoesMoves DEF FileCopied
  <2>2. worker[w].pc = "copy" /\ file' = [file EXCEPT ![f] = "whole"] /\ opened' = opened
    BY <1>7 DEF FileCopied
  <2>3. \A e \in CachedFile : file'[e] = (IF e = f THEN "whole" ELSE file[e])
    BY <2>2 DEF UpdaterTypeOK
  <2>4. \A e \in CachedFile : e # f => (opened[e] = old.run => file[e] = "whole")
    BY <1>2, <2>2 DEF Right
  <2>5. Right(w)' BY <1>3, <2>1, <2>2, <2>3, <2>4 DEF Right
  <2>6. Working(w)' BY <2>1 DEF Working
  <2>7. \A e \in CachedFile : opened'[e] = opened[e] /\ (file[e] = "whole" => file'[e] = "whole")
    BY <2>2, <2>3
  <2> HIDE DEF old, f
  <2> QED BY <1>1, <2>1, <2>5, <2>6, <2>7, InsideMutex DEF old
<1> QED BY <1>4, <1>5, <1>6, <1>7

LEMMA SaveInv ==
  ASSUME UpdaterTypeOK, UpdaterTypeOK', UpdaterInv, NEW w \in Worker, Save(w)
  PROVE  UpdaterInv' /\ Grows
<1>1. Working(w) BY DEF Save, Ready, Working
<1>2. \A v \in Worker \ {w} : ~Working(v) BY <1>1 DEF UpdaterInv, Mutex
<1>3. /\ worker'[w].pc = "idle"
      /\ \A v \in Worker \ {w} : worker'[v] = worker[v]
  BY IdleTyped DEF Save, UpdaterTypeOK
<1>4. \A v \in Worker : ~Working(v)' BY <1>2, <1>3 DEF Working
<1>5. Mutex' /\ Statuses' BY <1>4 DEF Mutex, Statuses
<1>6. db' = worker[w].status /\ UNCHANGED <<runs, file, opened>> BY DEF Save
<1>7. /\ db.run < worker[w].status.run /\ worker[w].status.run = runs
      /\ db.run \in Nat /\ runs \in Nat
  BY <1>1 DEF UpdaterInv, Numbers, UpdaterTypeOK, Status
<1>8. Numbers' BY <1>4, <1>6, <1>7 DEF UpdaterInv, Numbers
<1>9. Grows BY <1>6, <1>7 DEF Grows
<1>10. Right(w) BY <1>1 DEF UpdaterInv, Statuses
<1>11. StatusMeansCached' BY <1>6, <1>10 DEF Right, StatusMeansCached, Truthful
<1> QED BY <1>5, <1>8, <1>9, <1>11 DEF UpdaterInv

LEMMA RestartInv ==
  ASSUME UpdaterTypeOK, UpdaterTypeOK', UpdaterInv, Restart
  PROVE  UpdaterInv' /\ Grows
<1>1. \A w \in Worker : ~Working(w)' BY IdleTyped DEF Restart, Working
<1>2. UNCHANGED <<runs, db, file, opened>> BY DEF Restart
<1>3. Mutex' /\ Numbers' /\ Statuses' BY <1>1, <1>2 DEF UpdaterInv, Mutex, Numbers, Statuses
<1>4. Grows BY <1>2 DEF Grows, UpdaterTypeOK, Status
<1>5. StatusMeansCached' BY <1>2, <1>4, StoredStays DEF UpdaterInv
<1> QED BY <1>3, <1>4, <1>5 DEF UpdaterInv

-----------------------------------------------------------------------------
(* The panel and its requests.                                             *)

(* A handler that has not begun has no goroutine in runOnce.               *)
SentIdle == \A h \in Handler : rq[h].st = "sent" => ~Busy(h)

(* Only a page that is there waits for an answer.                          *)
LiveRequests ==
    \A h \in Handler :
      /\ rq[h].live => InFlight(h) /\ page = "dashboard"
      /\ rq[h].st = "back" => rq[h].live

(* What is shown or on its way to the page is a status that was saved.     *)
KnownStatuses ==
    /\ panel.shown # NoStatus => Known(panel.shown)
    /\ \A h \in Handler : rq[h].answer # Failed => Known(rq[h].answer)

(* Without early clicks there is one request, and its answer is not older  *)
(* than what is shown.                                                     *)
OneRequest ==
    page = "dashboard" /\ ~early =>
      /\ \A h, k \in Handler : rq[h].live /\ rq[k].live => h = k
      /\ panel.loading <=> \E h \in Handler : rq[h].live
      /\ \A h \in Handler :
           rq[h].st = "back" /\ rq[h].answer # Failed => LastUpdate <= rq[h].answer.run

PanelInv ==
    /\ TypeOK /\ UpdaterInv /\ SentIdle /\ LiveRequests /\ KnownStatuses
    /\ OneRequest /\ QuietMeansAnswered

LEMMA PanelInvInit == Init => PanelInv
<1> SUFFICES ASSUME Init PROVE PanelInv OBVIOUS
<1>1. TypeOK /\ UpdaterInv BY InitTyped, UpdaterInvInit DEF Init
<1>2. NoRequest.st = "none" /\ NoRequest.live = FALSE /\ NoRequest.answer = Failed
  BY DEF NoRequest, Rq
<1>3. \A h \in Handler : rq[h] = NoRequest BY DEF Init
<1>4. SentIdle /\ LiveRequests BY <1>2, <1>3 DEF SentIdle, LiveRequests
<1>5. panel.shown = NoStatus BY HooksTyped DEF Init, BlankPanel
<1>6. KnownStatuses BY <1>2, <1>3, <1>5 DEF KnownStatuses
<1>7. OneRequest /\ QuietMeansAnswered BY DEF Init, OneRequest, QuietMeansAnswered
<1> QED BY <1>1, <1>4, <1>6, <1>7 DEF PanelInv

(* What every step does below the panel. *)
LEMMA BelowStep ==
  ASSUME PanelInv, [Next]_vars
  PROVE  UpdaterInv' /\ Grows
<1> USE DEF PanelInv
<1>1. UpdaterTypeOK /\ UpdaterTypeOK' /\ UpdaterInv BY TypeStep DEF TypeOK
<1>2. CASE UNCHANGED updaterVars
  BY <1>1, <1>2, OutsideMutex DEF updaterVars
<1>3. ASSUME NEW hs, Cancelled(hs), UNCHANGED <<lock, runs, db, file, opened>>
      PROVE  UpdaterInv' /\ Grows
  <2>1. \A w \in Worker : /\ worker'[w].pc = worker[w].pc /\ worker'[w].status = worker[w].status
                         /\ worker'[w].todo = worker[w].todo
    BY <1>1, <1>3 DEF Cancelled, CancelledAt, At, UpdaterTypeOK
  <2> QED BY <1>1, <1>3, <2>1, OutsideMutex
<1>4. ASSUME NEW w \in Worker, Enter(w), ~Busy(w),
             UNCHANGED <<lock, runs, db, file, opened>>
      PROVE  UpdaterInv' /\ Grows
  <2>1. worker'[w].pc = "lock" /\ worker'[w].status = EmptyStatus(0)
    BY <1>1, <1>4 DEF Enter, At, UpdaterTypeOK
  <2>2. \A v \in Worker \ {w} : worker'[v] = worker[v] BY <1>1, <1>4 DEF Enter, UpdaterTypeOK
  <2> QED BY <1>1, <1>4, <2>1, <2>2, OutsideMutex DEF Busy
<1>5. ASSUME NEW h \in Handler, Click(h) PROVE UpdaterInv' /\ Grows
  BY <1>1, <1>5, OutsideMutex DEF Click
<1>6. ASSUME NEW h \in Handler, TriggerUpdate(h) PROVE UpdaterInv' /\ Grows
  <2>1. CASE Enter(h) BY <1>4, <1>6, <2>1 DEF TriggerUpdate, SentIdle, Worker
  <2>2. CASE UNCHANGED worker BY <1>1, <1>6, <2>2, OutsideMutex DEF TriggerUpdate
  <2> QED BY <1>6, <2>1, <2>2 DEF TriggerUpdate
<1>7. CASE TimerFires
  BY <1>4, <1>7 DEF TimerFires, Worker
<1>8. CASE Stop
  <2>1. \A w \in Worker : /\ worker'[w].pc = worker[w].pc /\ worker'[w].status = worker[w].status
                         /\ worker'[w].todo = worker[w].todo
    BY <1>1, <1>8 DEF Stop, CancelledAt, At, UpdaterTypeOK
  <2> QED BY <1>1, <1>8, <2>1, OutsideMutex DEF Stop
<1>9. CASE UpdateConfig
  BY <1>1, <1>9, OutsideMutex DEF UpdateConfig
<1>10. ASSUME NEW w \in Worker, UpdaterStep(w) PROVE UpdaterInv' /\ Grows
  BY <1>1, <1>10, BeginInv, FetchInv, ImportInv DEF UpdaterStep, Work
<1>11. ASSUME NEW w \in Worker, SaveAnswers(w) PROVE UpdaterInv' /\ Grows
  BY <1>1, <1>11, SaveInv DEF SaveAnswers
<1>12. CASE RestartAnswers
  BY <1>1, <1>12, RestartInv DEF RestartAnswers
<1>13. CASE \E h \in Handler : Mount(h) \/ Answer(h) \/ ServeStatus(h)
  BY <1>2, <1>13 DEF Mount, Answer, ServeStatus
<1>14. CASE \E h \in Handler : Break(h)
  BY <1>3, <1>14 DEF Break
<1>15. CASE CloseTab BY <1>3, <1>15 DEF CloseTab
<1>16. CASE Render \/ Leave \/ UNCHANGED vars
  BY <1>2, <1>16 DEF Render, Leave, vars, updaterVars
<1> QED
  BY <1>5, <1>6, <1>7, <1>8, <1>9, <1>10, <1>11, <1>12, <1>13, <1>14, <1>15, <1>16 DEF Next

LEMMA NoRequestFields == NoRequest.st = "none" /\ NoRequest.live = FALSE /\ NoRequest.answer = Failed
BY DEF NoRequest, Rq

(* What an answer makes of a request. *)
LEMMA AnswersMoves ==
  ASSUME TypeOK, NEW h \in Handler, NEW a, Answers(h, a)
  PROVE  /\ \A k \in Handler \ {h} : rq'[k] = rq[k]
         /\ rq[h].live => rq'[h].live /\ rq'[h].st = "back" /\ rq'[h].answer = a
         /\ ~rq[h].live => rq'[h] = NoRequest
BY DEF Answers, Back, Rq, TypeOK

LEMMA SendsMoves ==
  ASSUME TypeOK, NEW h \in Handler, NEW kind, Sends(h, kind)
  PROVE  /\ \A k \in Handler \ {h} : rq'[k] = rq[k]
         /\ rq'[h].live = TRUE /\ rq'[h].st = "sent" /\ rq'[h].answer = Failed
BY DEF Sends, Rq, TypeOK

(* Steps that leave the requests and the page alone, but for rendering.    *)
Behind == UNCHANGED <<rq, page, early>> /\ (UNCHANGED panel \/ Render)

(* The steps seen from the requests. *)
LEMMA StepKinds ==
  ASSUME TypeOK, [Next]_vars
  PROVE  \/ Behind
         \/ Leave \/ CloseTab \/ RestartAnswers
         \/ \E h \in Handler : Mount(h) \/ Click(h) \/ Answer(h)
         \/ \E h \in Handler : TriggerUpdate(h) /\ Enter(h)
                               /\ rq' = [rq EXCEPT ![h] = Rq("running", "post", rq[h].live, Failed)]
         \/ \E h \in Handler, a \in Status \cup {Failed} :
              /\ Answers(h, a) /\ UNCHANGED <<panel, page, early>>
              /\ rq[h].st \in {"sent", "running"}
              /\ a # Failed => (a = db /\ db' = db) \/ (Save(h) /\ a = worker[h].status)
<1> USE DEF TypeOK
<1>1. CASE UNCHANGED panelVars BY <1>1 DEF panelVars, Behind
<1>2. CASE UNCHANGED vars BY <1>1, <1>2 DEF vars, panelVars, Behind
<1>3. CASE Render BY <1>3 DEF Render, Behind
<1>4. ASSUME NEW h \in Handler, ServeStatus(h) \/ Break(h)
      PROVE  \E a \in Status \cup {Failed} :
              /\ Answers(h, a) /\ UNCHANGED <<panel, page, early>>
              /\ rq[h].st \in {"sent", "running"}
              /\ a # Failed => (a = db /\ db' = db)
  BY <1>4 DEF ServeStatus, Break, updaterVars, UpdaterTypeOK
<1>5. ASSUME NEW h \in Handler, TriggerUpdate(h)
      PROVE  \/ /\ TriggerUpdate(h) /\ Enter(h)
                /\ rq' = [rq EXCEPT ![h] = Rq("running", "post", rq[h].live, Failed)]
             \/ /\ Answers(h, Failed) /\ UNCHANGED <<panel, page, early>>
                /\ rq[h].st \in {"sent", "running"}
  BY <1>5 DEF TriggerUpdate
<1>6. ASSUME NEW w \in Worker, SaveAnswers(w)
      PROVE  \/ Behind
             \/ /\ w \in Handler /\ Answers(w, worker[w].status)
                /\ UNCHANGED <<panel, page, early>>
                /\ rq[w].st \in {"sent", "running"}
                /\ Save(w) /\ worker[w].status \in Status
  <2>1. worker[w].status \in Status BY DEF UpdaterTypeOK, WorkerState
  <2> QED BY <1>6, <2>1 DEF SaveAnswers, Behind
<1>7. ASSUME NEW w \in Worker, UpdaterStep(w) PROVE Behind
  BY <1>1, <1>7 DEF UpdaterStep, panelVars, Behind
<1> QED BY <1>1, <1>2, <1>3, <1>4, <1>5, <1>6, <1>7 DEF Next

LEMMA RestartMoves ==
  ASSUME TypeOK, RestartAnswers, NEW h \in Handler
  PROVE  \/ rq'[h] = rq[h] /\ rq[h].st \notin {"sent", "running"}
         \/ rq'[h] = NoRequest /\ ~rq[h].live
         \/ rq[h].live /\ rq'[h].live /\ rq'[h].st = "back" /\ rq'[h].answer = Failed
BY DEF RestartAnswers, Back, Rq, TypeOK, Request

LEMMA LeaveMoves ==
  ASSUME TypeOK, Leave, NEW h \in Handler
  PROVE  /\ ~rq'[h].live /\ rq'[h].answer = Failed
         /\ rq'[h].st = "none" \/ rq'[h].st = rq[h].st
         /\ rq'[h].st # "back"
BY NoRequestFields DEF Leave, Unmounted, Rq, TypeOK, Request

LEMMA LiveStep ==
  ASSUME TypeOK, LiveRequests, [Next]_vars
  PROVE  LiveRequests'
<1> USE NoRequestFields DEF LiveRequests, InFlight
<1>1. CASE Behind BY <1>1 DEF Behind
<1>2. CASE Leave BY <1>2, LeaveMoves DEF Leave
<1>3. CASE CloseTab BY <1>3 DEF CloseTab
<1>4. CASE RestartAnswers
  <2>1. page' = page BY <1>4 DEF RestartAnswers
  <2> QED BY <1>4, <2>1, RestartMoves
<1>5. ASSUME NEW h \in Handler, Mount(h) \/ Click(h) PROVE LiveRequests'
  <2>1. page' = "dashboard" BY <1>5 DEF Mount, Click
  <2>2. /\ \A k \in Handler \ {h} : rq'[k] = rq[k]
        /\ rq'[h].live = TRUE /\ rq'[h].st = "sent"
    BY <1>5, SendsMoves DEF Mount, Click
  <2> QED BY <2>1, <2>2
<1>6. ASSUME NEW h \in Handler, Answer(h) PROVE LiveRequests'
  BY <1>6 DEF Answer, TypeOK
<1>7. ASSUME NEW h \in Handler, TriggerUpdate(h),
             rq' = [rq EXCEPT ![h] = Rq("running", "post", rq[h].live, Failed)]
      PROVE  LiveRequests'
  BY <1>7 DEF TriggerUpdate, Rq, TypeOK
<1>8. ASSUME NEW h \in Handler, NEW a, Answers(h, a), UNCHANGED page,
             rq[h].st \in {"sent", "running"}
      PROVE  LiveRequests'
  BY <1>8, AnswersMoves
<1> QED BY <1>1, <1>2, <1>3, <1>4, <1>5, <1>6, <1>7, <1>8, StepKinds

(* Enter is only for a handler whose request is taken at the same time. *)
LEMMA SentIdleStep ==
  ASSUME PanelInv, [Next]_vars
  PROVE  SentIdle'
<1> USE NoRequestFields DEF PanelInv, SentIdle, TypeOK
<1>1. ASSUME NEW w \in Worker, NEW pc, NEW todo, NEW s, Goes(w, pc, todo, s), Busy(w), UNCHANGED rq
      PROVE  SentIdle'
  <2>1. \A v \in Worker \ {w} : worker'[v] = worker[v] BY <1>1, GoesMoves
  <2> QED BY <1>1, <2>1 DEF Busy, Worker
<1>2. ASSUME NEW w \in Worker, UpdaterStep(w) PROVE SentIdle'
  BY <1>1, <1>2 DEF UpdaterStep, panelVars, Begin, Starts, Work, Fetch, ImportEnds, ImportFails, ImportOpens,
         FileCopied, CopyFails, Busy
<1>3. ASSUME NEW w \in Worker, SaveAnswers(w) PROVE SentIdle'
  <2>1. worker'[w].pc = "idle" /\ \A v \in Worker \ {w} : worker'[v] = worker[v]
    BY <1>3, IdleTyped DEF SaveAnswers, Save, UpdaterTypeOK
  <2>2. UNCHANGED rq \/ (w \in Handler /\ Answers(w, worker[w].status))
    BY <1>3 DEF SaveAnswers
  <2> QED BY <2>1, <2>2, AnswersMoves DEF Busy, Worker
<1>4. ASSUME NEW hs, Cancelled(hs), \A h \in Handler : rq'[h].st = "sent" => rq[h].st = "sent"
      PROVE  SentIdle'
  <2>1. \A w \in Worker : worker'[w].pc = worker[w].pc
    BY <1>4 DEF Cancelled, CancelledAt, At, UpdaterTypeOK
  <2> QED BY <1>4, <2>1 DEF Busy, Worker
<1>5. ASSUME UNCHANGED worker,
             \A h \in Handler : rq'[h].st = "sent" => rq[h].st = "sent" \/ ~Busy(h)
      PROVE  SentIdle'
  BY <1>5 DEF Busy
<1>6. ASSUME NEW h \in Handler, Mount(h) \/ Click(h) PROVE SentIdle'
  <2>1. \A k \in Handler \ {h} : rq'[k] = rq[k] BY <1>6, SendsMoves DEF Mount, Click
  <2> QED BY <1>5, <1>6, <2>1 DEF Mount, Click, Free, updaterVars
<1>7. ASSUME NEW h \in Handler, Answer(h) PROVE SentIdle'
  BY <1>5, <1>7 DEF Answer, updaterVars
<1>8. ASSUME NEW h \in Handler, ServeStatus(h) \/ (TriggerUpdate(h) /\ UNCHANGED worker)
      PROVE  SentIdle'
  <2>1. \A k \in Handler : rq'[k].st = "sent" => rq[k].st = "sent"
    BY <1>8, AnswersMoves DEF ServeStatus, TriggerUpdate, Rq
  <2> QED BY <1>5, <1>8, <2>1 DEF ServeStatus, updaterVars
<1>9. ASSUME NEW h \in Handler, TriggerUpdate(h), Enter(h),
             rq' = [rq EXCEPT ![h] = Rq("running", "post", rq[h].live, Failed)]
      PROVE  SentIdle'
  BY <1>9 DEF Enter, Busy, Rq, UpdaterTypeOK, Worker
<1>10. ASSUME NEW h \in Handler, Break(h) PROVE SentIdle'
  <2>1. \A k \in Handler : rq'[k].st = "sent" => rq[k].st = "sent"
    BY <1>10, AnswersMoves DEF Break
  <2> QED BY <1>4, <1>10, <2>1 DEF Break
<1>11. CASE Render \/ UNCHANGED vars BY <1>5, <1>11 DEF Render, vars, panelVars, updaterVars
<1>12. CASE Leave
  BY <1>5, <1>12, LeaveMoves DEF Leave, updaterVars
<1>13. CASE CloseTab
  BY <1>4, <1>13 DEF CloseTab
<1>14. CASE RestartAnswers
  BY <1>14, IdleTyped DEF RestartAnswers, Restart, Busy, Worker
<1>15. CASE (TimerFires \/ UpdateConfig \/ Stop) /\ UNCHANGED panelVars
  <2>1. \A h \in Handler : worker'[h] = worker[h]
    BY <1>15, UpdaterAssumption
       DEF TimerFires, Enter, UpdateConfig, Stop, UpdaterTypeOK, Worker
  <2> QED BY <1>15, <2>1 DEF panelVars, Busy
<1>16. ASSUME NEW h \in Handler, TriggerUpdate(h) PROVE SentIdle'
  BY <1>8, <1>9, <1>16 DEF TriggerUpdate
<1> QED
  BY <1>2, <1>3, <1>6, <1>7, <1>8, <1>10, <1>11, <1>12, <1>13, <1>14, <1>15, <1>16 DEF Next

LEMMA KnownStatusesNext ==
  ASSUME panel'.shown # NoStatus => KnownNext(panel'.shown),
         \A h \in Handler : rq'[h].answer # Failed => KnownNext(rq'[h].answer)
  PROVE  KnownStatuses'
BY DEF KnownStatuses, Known, KnownNext, Truthful

LEMMA KnownStep ==
  ASSUME PanelInv, [Next]_vars
  PROVE  KnownStatuses'
<1> USE NoRequestFields DEF PanelInv
<1>1. UpdaterInv' /\ Grows /\ TypeOK' BY BelowStep, TypeStep
<1>2. \A s \in Status : Known(s) => KnownNext(s) BY <1>1, KnownGrows DEF TypeOK
<1>3. /\ panel.shown \in Status \cup {NoStatus}
      /\ \A h \in Handler : rq[h].answer \in Status \cup {Failed}
  BY DEF TypeOK, Panel, Request
<1>4. panel.shown # NoStatus => KnownNext(panel.shown) BY <1>2, <1>3 DEF KnownStatuses
<1>5. \A h \in Handler : rq[h].answer # Failed => KnownNext(rq[h].answer) BY <1>2, <1>3 DEF KnownStatuses
<1>6. KnownNext(db')
  BY <1>1 DEF UpdaterInv, StatusMeansCached, Truthful, KnownNext, TypeOK, UpdaterTypeOK, Status
<1>7. ASSUME panel'.shown = panel.shown \/ panel'.shown = NoStatus,
             \A h \in Handler : rq'[h].answer = rq[h].answer \/ rq'[h].answer = Failed
      PROVE  KnownStatuses'
  <2>1. panel'.shown # NoStatus => KnownNext(panel'.shown)
    BY <1>4, <1>7
  <2>2. ASSUME NEW h \in Handler, rq'[h].answer # Failed PROVE KnownNext(rq'[h].answer)
    BY <1>5, <1>7, <2>2
  <2> QED BY <2>1, <2>2, KnownStatusesNext
<1>8. CASE Behind
  BY <1>7, <1>8 DEF Behind, Render, Hooks
<1>9. BlankPanel.shown = NoStatus BY DEF BlankPanel, Hooks
<1>10. CASE Leave BY <1>7, <1>9, <1>10, LeaveMoves DEF Leave
<1>11. CASE CloseTab BY <1>7, <1>9, <1>11 DEF CloseTab
<1>12. CASE RestartAnswers
  <2>1. UNCHANGED panel BY <1>12 DEF RestartAnswers
  <2> QED BY <1>7, <1>12, <2>1, RestartMoves
<1>13. ASSUME NEW h \in Handler, Mount(h) \/ Click(h) PROVE KnownStatuses'
  <2>1. \A k \in Handler : rq'[k].answer = rq[k].answer \/ rq'[k].answer = Failed
    BY <1>13, SendsMoves DEF Mount, Click
  <2>2. panel'.shown = panel.shown \/ panel'.shown = NoStatus BY <1>13 DEF Mount, Click, Hooks
  <2> QED BY <1>7, <2>1, <2>2
<1>14. ASSUME NEW h \in Handler, Answer(h) PROVE KnownStatuses'
  <2>1. panel'.shown = panel.shown \/ (panel'.shown = rq[h].answer /\ rq[h].answer # Failed)
    BY <1>14 DEF Answer, Settled, Hooks
  <2>2. \A k \in Handler : rq'[k] = rq[k] \/ rq'[k] = NoRequest BY <1>14 DEF Answer, TypeOK
  <2>3. panel'.shown # NoStatus => KnownNext(panel'.shown) BY <1>4, <1>5, <2>1
  <2>4. ASSUME NEW k \in Handler, rq'[k].answer # Failed PROVE KnownNext(rq'[k].answer)
    BY <1>5, <2>2, <2>4
  <2> QED BY <2>3, <2>4, KnownStatusesNext
<1>15. ASSUME NEW h \in Handler, TriggerUpdate(h),
              rq' = [rq EXCEPT ![h] = Rq("running", "post", rq[h].live, Failed)]
       PROVE  KnownStatuses'
  <2>1. \A k \in Handler : rq'[k].answer = rq[k].answer \/ rq'[k].answer = Failed
    BY <1>15 DEF TypeOK, Rq
  <2> QED BY <1>7, <1>15, <2>1 DEF TriggerUpdate
<1>16. ASSUME NEW h \in Handler, NEW a \in Status \cup {Failed}, Answers(h, a), UNCHANGED panel,
              a # Failed => (a = db /\ db' = db) \/ (Save(h) /\ a = worker[h].status)
       PROVE  KnownStatuses'
  <2>1. a # Failed => a = db' BY <1>16 DEF Save
  <2>2. \A k \in Handler : rq'[k].answer \in {rq[k].answer, a, Failed} BY <1>16, AnswersMoves
  <2>3. panel'.shown # NoStatus => KnownNext(panel'.shown) BY <1>4, <1>16
  <2>4. ASSUME NEW k \in Handler, rq'[k].answer # Failed PROVE KnownNext(rq'[k].answer)
    <3>1. rq'[k].answer = rq[k].answer \/ rq'[k].answer = db' BY <2>1, <2>2, <2>4
    <3> QED BY <1>5, <1>6, <2>4, <3>1
  <2> QED BY <2>3, <2>4, KnownStatusesNext
<1> QED
  BY <1>8, <1>10, <1>11, <1>12, <1>13, <1>14, <1>15, <1>16, StepKinds

LEMMA LastUpdateBounded ==
  ASSUME TypeOK, KnownStatuses
  PROVE  LastUpdate \in Nat /\ LastUpdate <= db.run
BY DEF LastUpdate, KnownStatuses, Known, TypeOK, UpdaterTypeOK, Panel, Status

LEMMA OneRequestStep ==
  ASSUME PanelInv, [Next]_vars
  PROVE  OneRequest'
<1> USE NoRequestFields DEF PanelInv
<1> SUFFICES ASSUME page' = "dashboard", ~early'
             PROVE  /\ \A h, k \in Handler : rq'[h].live /\ rq'[k].live => h = k
                    /\ panel'.loading <=> \E h \in Handler : rq'[h].live
                    /\ \A h \in Handler :
                         rq'[h].st = "back" /\ rq'[h].answer # Failed => LastUpdate' <= rq'[h].answer.run
  BY DEF OneRequest
<1>1. ASSUME UNCHANGED <<page, early>>, panel'.loading = panel.loading, panel'.shown = panel.shown,
             \A h \in Handler : rq'[h].live <=> rq[h].live,
             \A h \in Handler : rq'[h].st = "back" /\ rq'[h].answer # Failed =>
                rq'[h] = rq[h] \/ LastUpdate <= rq'[h].answer.run
      PROVE  /\ \A h, k \in Handler : rq'[h].live /\ rq'[k].live => h = k
             /\ panel'.loading <=> \E h \in Handler : rq'[h].live
             /\ \A h \in Handler :
                  rq'[h].st = "back" /\ rq'[h].answer # Failed => LastUpdate' <= rq'[h].answer.run
  <2>1. LastUpdate' = LastUpdate BY <1>1 DEF LastUpdate
  <2> QED BY <1>1, <2>1 DEF OneRequest
<1>2. CASE Behind BY <1>1, <1>2 DEF Behind, Render, Hooks
<1>3. CASE Leave \/ CloseTab BY <1>3 DEF Leave, CloseTab
<1>4. CASE RestartAnswers
  <2>1. UNCHANGED <<page, early, panel>> BY <1>4 DEF RestartAnswers
  <2>2. ASSUME NEW h \in Handler
        PROVE  /\ rq'[h].live <=> rq[h].live
               /\ rq'[h].st = "back" /\ rq'[h].answer # Failed => rq'[h] = rq[h]
    BY <1>4, RestartMoves
  <2> QED BY <1>1, <2>1, <2>2
<1>5. ASSUME NEW h \in Handler, Mount(h) \/ Click(h)
      PROVE  /\ \A k \in Handler : ~rq[k].live
             /\ panel'.loading = TRUE
             /\ \A k \in Handler \ {h} : rq'[k] = rq[k]
             /\ rq'[h].live /\ rq'[h].st = "sent"
  <2>1. CASE Mount(h)
    BY <2>1, SendsMoves DEF Mount, LiveRequests, Hooks
  <2>2. CASE Click(h)
    <3>1. ~early /\ ~panel.loading /\ page = "dashboard" BY <2>2 DEF Click, Disabled
    <3>2. \A k \in Handler : ~rq[k].live BY <3>1 DEF OneRequest
    <3> QED BY <2>2, <3>2, SendsMoves DEF Click, Hooks
  <2> QED BY <1>5, <2>1, <2>2
<1>6. ASSUME NEW h \in Handler, Mount(h) \/ Click(h)
      PROVE  /\ \A j, k \in Handler : rq'[j].live /\ rq'[k].live => j = k
             /\ panel'.loading <=> \E k \in Handler : rq'[k].live
             /\ \A k \in Handler : rq'[k].st # "back"
  BY <1>5, <1>6 DEF LiveRequests
<1>7. ASSUME NEW h \in Handler, Answer(h)
      PROVE  /\ panel'.loading = FALSE
             /\ \A k \in Handler : ~rq'[k].live /\ rq'[k].st # "back"
  <2>1. rq[h].live /\ page = "dashboard" /\ ~early BY <1>7 DEF Answer, LiveRequests
  <2>2. \A k \in Handler \ {h} : ~rq[k].live BY <2>1 DEF OneRequest
  <2>3. \A k \in Handler : rq'[k] = IF k = h THEN NoRequest ELSE rq[k] BY <1>7 DEF Answer, TypeOK
  <2>4. panel'.loading = FALSE BY <1>7 DEF Answer, Settled, Hooks
  <2> QED BY <2>2, <2>3, <2>4 DEF LiveRequests
<1>8. ASSUME NEW h \in Handler, TriggerUpdate(h),
             rq' = [rq EXCEPT ![h] = Rq("running", "post", rq[h].live, Failed)]
      PROVE  /\ UNCHANGED <<page, early, panel>>
             /\ \A k \in Handler : rq'[k].live <=> rq[k].live
             /\ \A k \in Handler : rq'[k].st = "back" => rq'[k] = rq[k]
  BY <1>8 DEF TriggerUpdate, Rq, TypeOK
<1>9. ASSUME NEW h \in Handler, NEW a \in Status \cup {Failed}, Answers(h, a),
             UNCHANGED <<panel, page, early>>,
             a # Failed => (a = db /\ db' = db) \/ (Save(h) /\ a = worker[h].status)
      PROVE  /\ \A k \in Handler : rq'[k].live <=> rq[k].live
             /\ \A k \in Handler : rq'[k].st = "back" /\ rq'[k].answer # Failed =>
                  rq'[k] = rq[k] \/ LastUpdate <= rq'[k].answer.run
  <2>1. a # Failed => a = db' BY <1>9 DEF Save
  <2>2. db.run <= db'.run BY BelowStep DEF Grows, TypeOK, UpdaterTypeOK, Status
  <2>3. db'.run \in Nat /\ db.run \in Nat BY TypeStep DEF TypeOK, UpdaterTypeOK, Status
  <2>4. LastUpdate <= db'.run BY <2>2, <2>3, LastUpdateBounded
  <2>5. \A k \in Handler : rq'[k].live <=> rq[k].live BY <1>9, AnswersMoves
  <2>6. \A k \in Handler : rq'[k] = rq[k] \/ rq'[k] = NoRequest \/ rq'[k].answer = a
    BY <1>9, AnswersMoves DEF TypeOK, Request
  <2>7. ASSUME NEW k \in Handler, rq'[k].st = "back", rq'[k].answer # Failed
        PROVE  rq'[k] = rq[k] \/ LastUpdate <= rq'[k].answer.run
    BY <2>1, <2>4, <2>6, <2>7
  <2> QED BY <2>5, <2>7
<1> QED
  <2>1. CASE \E h \in Handler : Mount(h) \/ Click(h) BY <1>6, <2>1
  <2>2. CASE \E h \in Handler : Answer(h) BY <1>7, <2>2
  <2>3. CASE \E h \in Handler : TriggerUpdate(h) /\ Enter(h)
                               /\ rq' = [rq EXCEPT ![h] = Rq("running", "post", rq[h].live, Failed)]
    BY <1>1, <1>8, <2>3
  <2>4. CASE \E h \in Handler, a \in Status \cup {Failed} :
              /\ Answers(h, a) /\ UNCHANGED <<panel, page, early>>
              /\ rq[h].st \in {"sent", "running"}
              /\ a # Failed => (a = db /\ db' = db) \/ (Save(h) /\ a = worker[h].status)
    BY <1>1, <1>9, <2>4
  <2> QED BY <1>2, <1>3, <1>4, <2>1, <2>2, <2>3, <2>4, StepKinds

LEMMA QuietStep ==
  ASSUME TypeOK, LiveRequests, QuietMeansAnswered, [Next]_vars
  PROVE  QuietMeansAnswered'
<1> USE DEF QuietMeansAnswered
<1>1. CASE Behind BY <1>1 DEF Behind, Render, Hooks
<1>2. CASE Leave \/ CloseTab BY <1>2 DEF Leave, CloseTab
<1>3. ASSUME UNCHANGED <<panel, page>> PROVE QuietMeansAnswered' BY <1>3
<1>4. CASE RestartAnswers BY <1>3, <1>4 DEF RestartAnswers
<1>5. ASSUME NEW h \in Handler, Mount(h) \/ Click(h) PROVE QuietMeansAnswered'
  BY <1>5 DEF Mount, Click, Hooks
<1>6. ASSUME NEW h \in Handler, Answer(h) PROVE QuietMeansAnswered'
  <2>1. rq[h].answer \in Status \cup {Failed} BY DEF TypeOK, Request
  <2> QED BY <1>6, <2>1, PanelAssumption DEF Answer, Settled, Hooks
<1>7. ASSUME NEW h \in Handler, TriggerUpdate(h) PROVE QuietMeansAnswered'
  BY <1>3, <1>7 DEF TriggerUpdate
<1> QED BY <1>1, <1>2, <1>3, <1>4, <1>5, <1>6, <1>7, StepKinds

-----------------------------------------------------------------------------
(* The theorems.                                                           *)
LEMMA PanelInvStep == PanelInv /\ [Next]_vars => PanelInv'
BY TypeStep, BelowStep, SentIdleStep, LiveStep, KnownStep, OneRequestStep, QuietStep
   DEF PanelInv

THEOREM PanelInvHolds == Spec => []PanelInv
BY PanelInvInit, PanelInvStep, PTL DEF Spec

(* After any failures, cancellations, reloads and crashes the stored       *)
(* status is true of the files, but for those that a later import opened.  *)
THEOREM StatusMeansCachedHolds == Spec => []StatusMeansCached
<1>1. PanelInv => StatusMeansCached BY DEF PanelInv, UpdaterInv
<1> QED BY <1>1, PanelInvHolds, PTL

(* Updates that wait for each other at the mutex save in the order in      *)
(* which they begin.                                                       *)
THEOREM SavedNewestHolds == Spec => SavedNewest
<1>1. PanelInv /\ [Next]_vars => [db'.run >= db.run]_updaterVars
  BY BelowStep DEF Grows
<1> QED BY <1>1, PanelInvHolds, PTL DEF Spec, SavedNewest

(* What the panel calls synced is in the cache, but for files that an      *)
(* import has opened after the date it shows.                              *)
THEOREM SyncedMeansCachedHolds == Spec => []SyncedMeansCached
<1>1. ASSUME PanelInv PROVE SyncedMeansCached
  <2> USE <1>1 DEF PanelInv
  <2> SUFFICES ASSUME NEW e \in Rows, RowBadge(e) = "Synced"
               PROVE  IF e \in Source THEN file[e] = "whole" \/ opened[e] > LastUpdate
                      ELSE \A f \in CachedFile : opened[f] = LastUpdate => file[f] = "whole"
    BY DEF SyncedMeansCached
  <2>1. /\ panel.shown # NoStatus /\ e \in Entry
        /\ panel.shown.result[e] \notin {"absent", "error"}
    BY DEF Rows, Shown, RowBadge
  <2>2. panel.shown.result[e] = "ok" BY <2>1 DEF TypeOK, Panel, Status
  <2>3. Truthful(panel.shown) /\ LastUpdate = panel.shown.run
    BY <2>1 DEF KnownStatuses, Known, LastUpdate
  <2> QED BY <2>1, <2>2, <2>3 DEF Truthful, Entry
<1> QED BY <1>1, PanelInvHolds, PTL

(* The spinner turns exactly while a request of the page is on its way,    *)
(* but for clicks that were too early.                                     *)
THEOREM SpinnerTruthfulHolds == Spec => []SpinnerTruthful
<1>1. PanelInv => SpinnerTruthful
  BY DEF PanelInv, OneRequest, LiveRequests, SpinnerTruthful
<1> QED BY <1>1, PanelInvHolds, PTL

(* A panel at rest without an error shows an answer of the daemon.         *)
THEOREM QuietMeansAnsweredHolds == Spec => []QuietMeansAnswered
<1>1. PanelInv => QuietMeansAnswered BY DEF PanelInv
<1> QED BY <1>1, PanelInvHolds, PTL

(* The date that the panel shows never goes back, but for clicks that were *)
(* too early: one request at a time keeps the answers in order.            *)
THEOREM PanelNotOlderHolds == Spec => PanelNotOlder
<1> DEFINE A == page = "dashboard" /\ page' = "dashboard" /\ ~early' => LastUpdate' >= LastUpdate
<1>1. ASSUME PanelInv, [Next]_vars PROVE [A]_vars
  <2> USE <1>1 DEF PanelInv
  <2> SUFFICES ASSUME page = "dashboard", page' = "dashboard", ~early'
               PROVE  LastUpdate' >= LastUpdate
    OBVIOUS
  <2>1. LastUpdate \in Nat BY LastUpdateBounded
  <2>2. ASSUME panel'.shown = panel.shown PROVE LastUpdate' >= LastUpdate
    <3>1. LastUpdate' = LastUpdate BY <2>2 DEF LastUpdate
    <3> QED BY <2>1, <3>1
  <2>3. CASE Behind BY <2>2, <2>3 DEF Behind, Render, Hooks
  <2>4. CASE Leave \/ CloseTab BY <2>4 DEF Leave, CloseTab
  <2>5. CASE RestartAnswers BY <2>2, <2>5 DEF RestartAnswers
  <2>6. ASSUME NEW h \in Handler, Mount(h) \/ Click(h) PROVE LastUpdate' >= LastUpdate
    BY <2>2, <2>6 DEF Mount, Click, Hooks
  <2>7. ASSUME NEW h \in Handler, Answer(h) PROVE LastUpdate' >= LastUpdate
    <3>1. ~early /\ rq[h].st = "back" BY <2>7 DEF Answer
    <3>2. CASE rq[h].answer = Failed
      BY <2>2, <2>7, <3>2 DEF Answer, Settled, Hooks
    <3>3. CASE rq[h].answer # Failed
      <4>1. panel'.shown = rq[h].answer BY <2>7, <3>3 DEF Answer, Settled, Hooks
      <4>2. rq[h].answer \in Status BY <3>3 DEF TypeOK, Request
      <4>3. LastUpdate' = rq[h].answer.run BY <4>1, <4>2, PanelAssumption DEF LastUpdate
      <4>4. LastUpdate <= rq[h].answer.run BY <3>1, <3>3 DEF OneRequest
      <4>5. rq[h].answer.run \in Nat BY <4>2 DEF Status
      <4> QED BY <2>1, <4>3, <4>4, <4>5
    <3> QED BY <3>2, <3>3
  <2>8. ASSUME NEW h \in Handler, TriggerUpdate(h) PROVE LastUpdate' >= LastUpdate
    BY <2>2, <2>8 DEF TriggerUpdate
  <2> QED BY <2>2, <2>3, <2>4, <2>5, <2>6, <2>7, <2>8, StepKinds
<1> QED BY <1>1, PanelInvHolds, PTL DEF Spec, PanelNotOlder
=============================================================================
