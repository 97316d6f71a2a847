--------------------------- MODULE SignaturePanel ---------------------------
(***************************************************************************)
(* The signatures panel of the dashboard page, its requests and the        *)
(* updater behind them: pages/Dashboard.tsx, lib/api.ts and the signature  *)
(* handlers of internal/api/server.go, over Updater.                       *)
(*                                                                         *)
(* A browser tab shows the dashboard or another page.  The panel asks for  *)
(* the status when the page opens and for an update when its button is     *)
(* clicked; the answers come back in any order, or not at all.  A handler  *)
(* of the API stands for the whole way of one request there and back.      *)
(* A refused token is one of the ways in which a request fails.            *)
(***************************************************************************)
EXTENDS Updater

CONSTANTS
    NoStatus,    \* what the panel shows before the first answer (null)
    Failed       \* the answer of a request that failed

ASSUME PanelAssumption == NoStatus \notin Status /\ Failed \notin Status

VARIABLES
    page,   \* "dashboard", or "other" for the rest of the user interface
    panel,  \* the useState hooks of the panel, and its rendered button
    rq,     \* the request that a handler serves
    early   \* was the button clicked while the panel was loading (observer)?

panelVars == <<page, panel, rq, early>>
vars == <<updaterVars, page, panel, rq, early>>

(* sigLoading, signatureStatus, sigError, and the disabled attribute that  *)
(* the browser has, which follows sigLoading with the next rendering.      *)
Panel == [loading : BOOLEAN, shown : Status \cup {NoStatus},
          error : BOOLEAN, disabled : BOOLEAN]

Hooks(loading, shown, error, disabled) ==
    [loading |-> loading, shown |-> shown, error |-> error, disabled |-> disabled]

BlankPanel == Hooks(FALSE, NoStatus, FALSE, FALSE)

(* live: the page that sent the request is still mounted. *)
Request == [st : {"none", "sent", "running", "back"}, kind : {"get", "post"},
            live : BOOLEAN, answer : Status \cup {Failed}]

Rq(st, kind, live, answer) ==
    [st |-> st, kind |-> kind, live |-> live, answer |-> answer]

NoRequest == Rq("none", "get", FALSE, Failed)
InFlight(h) == rq[h].st # "none"
Free(h) == ~InFlight(h) /\ ~Busy(h)

TypeOK ==
    /\ UpdaterTypeOK
    /\ page \in {"dashboard", "other"} /\ panel \in Panel
    /\ rq \in [Handler -> Request] /\ early \in BOOLEAN

Init ==
    /\ UpdaterInit
    /\ page = "other" /\ panel = BlankPanel
    /\ rq = [h \in Handler |-> NoRequest] /\ early = FALSE

-----------------------------------------------------------------------------
(* The page. *)

Sends(h, kind) == rq' = [rq EXCEPT ![h] = Rq("sent", kind, TRUE, Failed)]

(* The effect of the mounted page: refreshSignatures. *)
Mount(h) ==
    /\ page = "other" /\ Free(h)
    /\ page' = "dashboard" /\ early' = FALSE
    /\ panel' = Hooks(TRUE, NoStatus, FALSE, FALSE)
    /\ Sends(h, "get")
    /\ UNCHANGED updaterVars

Render ==
    /\ panel.disabled # panel.loading
    /\ panel' = Hooks(panel.loading, panel.shown, panel.error, panel.loading)
    /\ UNCHANGED <<updaterVars, page, rq, early>>

(* Mutant: a button that stays enabled. *)
DisabledNever == FALSE

Disabled == panel.disabled

(* handleSignatureUpdate.  What a click changes is rendered before the     *)
(* next event; what the effect of the page changed is rendered a moment    *)
(* later, and a click can come before.                                     *)
Click(h) ==
    /\ page = "dashboard" /\ ~Disabled
    /\ Free(h) /\ asked < MaxRuns
    /\ asked' = asked + 1
    /\ early' = (early \/ (panel.loading /\ ~panel.disabled))
    /\ panel' = Hooks(TRUE, panel.shown, panel.error, TRUE)
    /\ Sends(h, "post")
    /\ UNCHANGED <<up, cfg, registered, lock, runs, worker, db, file, opened,
                   page>>

(* Mutant: an error leaves the spinner on. *)
SettledOnSuccess(p, answer) ==
    IF answer = Failed
    THEN Hooks(p.loading, p.shown, TRUE, p.disabled)
    ELSE Hooks(FALSE, answer, FALSE, p.disabled)

(* Mutant: what comes back is taken for a status. *)
SettledAnyway(p, answer) == Hooks(FALSE, answer, p.error, p.disabled)

(* Mutant: an error is only written to the console. *)
SettledSilently(p, answer) ==
    IF answer = Failed
    THEN Hooks(FALSE, p.shown, p.error, p.disabled)
    ELSE Hooks(FALSE, answer, FALSE, p.disabled)

(* then, catch and finally. *)
Settled(p, answer) ==
    IF answer = Failed
    THEN Hooks(FALSE, p.shown, TRUE, p.disabled)
    ELSE Hooks(FALSE, answer, FALSE, p.disabled)

Answer(h) ==
    /\ rq[h].st = "back"
    /\ panel' = Settled(panel, rq[h].answer)
    /\ rq' = [rq EXCEPT ![h] = NoRequest]
    /\ UNCHANGED <<updaterVars, page, early>>

(* A link of the layout: the page is unmounted.  Its requests go on, and   *)
(* their answers change nothing.                                           *)
Unmounted(r) == IF r.st \in {"sent", "running"} THEN Rq(r.st, r.kind, FALSE, Failed) ELSE NoRequest

Leave ==
    /\ page = "dashboard"
    /\ page' = "other" /\ panel' = BlankPanel /\ early' = FALSE
    /\ rq' = [h \in Handler |-> Unmounted(rq[h])]
    /\ UNCHANGED updaterVars

(* The tab is closed or loaded again: its connections are closed, which    *)
(* cancels the contexts of the handlers.                                   *)
Cancelled(hs) ==
    worker' = [w \in Worker |->
                 IF w \in hs /\ Busy(w) THEN CancelledAt(w) ELSE worker[w]]

CloseTab ==
    /\ page' = "other" /\ panel' = BlankPanel /\ early' = FALSE
    /\ rq' = [h \in Handler |-> NoRequest]
    /\ Cancelled(Handler)
    /\ UNCHANGED <<up, cfg, registered, lock, runs, asked, db, file, opened>>

-----------------------------------------------------------------------------
(* The server. *)

Back(r, answer) == IF r.live THEN Rq("back", r.kind, TRUE, answer) ELSE NoRequest
Answers(h, answer) == rq' = [rq EXCEPT ![h] = Back(rq[h], answer)]

(* handleSignaturesStatus. *)
ServeStatus(h) ==
    /\ rq[h].st = "sent" /\ rq[h].kind = "get"
    /\ Answers(h, db)
    /\ UNCHANGED <<updaterVars, page, panel, early>>

(* handleSignaturesUpdate and the head of Trigger. *)
TriggerUpdate(h) ==
    /\ rq[h].st = "sent" /\ rq[h].kind = "post"
    /\ IF cfg.enabled
       THEN /\ Enter(h)
            /\ rq' = [rq EXCEPT ![h] = Rq("running", "post", rq[h].live, Failed)]
       ELSE Answers(h, Failed) /\ UNCHANGED worker
    /\ UNCHANGED <<up, cfg, registered, lock, runs, asked, db, file, opened,
                   page, panel, early>>

(* The connection breaks on the way, or a token is refused before the      *)
(* request does anything.  A handler that is at work has its context       *)
(* cancelled and goes on.                                                  *)
Break(h) ==
    /\ rq[h].st \in {"sent", "running"}
    /\ Answers(h, Failed)
    /\ Cancelled({h})
    /\ UNCHANGED <<up, cfg, registered, lock, runs, asked, db, file, opened,
                   page, panel, early>>

(* A server that is stopping serves the connections it has and accepts no  *)
(* other.                                                                  *)
Refuse(h) == ~up /\ rq[h].st = "sent" /\ Break(h)

(* The end of runOnce, and the handler's answer. *)
SaveAnswers(w) ==
    /\ Save(w)
    /\ IF w \in Handler /\ rq[w].st = "running"
       THEN Answers(w, worker[w].status)
       ELSE UNCHANGED rq
    /\ UNCHANGED <<page, panel, early>>

(* The process dies or ends and is started again: open connections break. *)
RestartAnswers ==
    /\ Restart
    /\ rq' = [h \in Handler |->
                IF rq[h].st \in {"sent", "running"}
                THEN Back(rq[h], Failed) ELSE rq[h]]
    /\ UNCHANGED <<page, panel, early>>

UpdaterStep(w) == (Begin(w) \/ Work(w)) /\ UNCHANGED panelVars

Handle(h) == ServeStatus(h) \/ TriggerUpdate(h) \/ Refuse(h)

Next ==
    \/ \E h \in Handler :
         \/ Mount(h) \/ Click(h) \/ Answer(h)
         \/ ServeStatus(h) \/ TriggerUpdate(h) \/ Break(h)
    \/ \E w \in Worker : UpdaterStep(w) \/ SaveAnswers(w)
    \/ Render \/ Leave \/ CloseTab \/ RestartAnswers
    \/ (TimerFires \/ UpdateConfig \/ Stop) /\ UNCHANGED panelVars

Spec == Init /\ [][Next]_vars

(* The browser renders and runs callbacks, the servers handle what reaches *)
(* them or refuse it, and a goroutine goes on when it can: downloads have  *)
(* a timeout, and the mutex of runOnce is free again after each of the     *)
(* finitely many runs.                                                     *)
Fairness ==
    /\ WF_vars(Render)
    /\ \A h \in Handler : WF_vars(Answer(h) \/ Handle(h))
    /\ \A w \in Worker : WF_vars(UpdaterStep(w) \/ SaveAnswers(w))

FairSpec == Spec /\ Fairness

-----------------------------------------------------------------------------
(* What the page shows. *)
Shown(e) == IF panel.shown = NoStatus THEN "absent" ELSE panel.shown.result[e]
Rows == {e \in Entry : Shown(e) # "absent"}
RowBadge(e) == IF Shown(e) = "error" THEN "Error" ELSE "Synced"

(* The date of the last update: a dash without a status; the zero time of  *)
(* a daemon that never updated is shown as a date of the year 1.           *)
LastUpdate == IF panel.shown = NoStatus THEN 0 ELSE panel.shown.run

(* Properties. *)

(* A source that the panel calls synced has its whole file in the cache,   *)
(* however old what it shows may be: runs that fail or are cancelled leave *)
(* the file of an earlier one.  Only an import writes over it, later than  *)
(* the date that the panel shows.                                          *)
SyncedMeansCached ==
    \A e \in Rows : RowBadge(e) = "Synced" =>
      IF e \in Source THEN file[e] = "whole" \/ opened[e] > LastUpdate
      ELSE \A f \in CachedFile : opened[f] = LastUpdate => file[f] = "whole"

(* The date of the last update never goes back on a page, unless the       *)
(* button was clicked before its disabled state was rendered: then two     *)
(* answers may cross.  The button keeps requests apart in Dashboard.tsx,   *)
(* nothing else orders their answers.                                      *)
PanelNotOlder ==
    [][page = "dashboard" /\ page' = "dashboard" /\ ~early' => LastUpdate' >= LastUpdate]_vars

(* The spinner turns exactly while a request of this page is on its way,   *)
(* but for clicks that were too early.                                     *)
SpinnerTruthful ==
    page = "dashboard" /\ ~early
      => (panel.loading <=> \E h \in Handler : InFlight(h) /\ rq[h].live)

(* A panel at rest that reports no error shows an answer of the daemon: it *)
(* does not say "No signature sources configured" because it does not      *)
(* know.                                                                   *)
QuietMeansAnswered ==
    page = "dashboard" /\ ~panel.loading /\ ~panel.error => panel.shown # NoStatus

(* The spinner stops: the button comes back whatever becomes of the        *)
(* request, the daemon or its configuration.                               *)
SpinnerStops == panel.loading ~> ~panel.loading
=============================================================================
