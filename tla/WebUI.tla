------------------------------- MODULE WebUI -------------------------------
(***************************************************************************)
(* One browser tab with the web user interface, the proxy that serves it   *)
(* and the API behind: web/src, internal/webui/server.go and               *)
(* internal/api/server.go.  The signatures panel is in SignaturePanel.     *)
(*                                                                         *)
(* A page mounts with fresh hooks and sends its requests; each is checked  *)
(* by the proxy and by the API, which a reload of the configuration gives  *)
(* new tokens one after the other, and comes back in any order or not at   *)
(* all.  Requests of a page that is gone still reach the daemon, where     *)
(* reads change nothing; they are dropped here.                            *)
(*                                                                         *)
(* A result stands for its findings, and a list or a number for the set of *)
(* results that it lists or counts.  Of the text of the metrics there are  *)
(* the two gauges of the history, without their formatting and parsing.    *)
(***************************************************************************)
EXTENDS ApiClient

CONSTANTS
    Typed,        \* tokens that the person at the browser may enter
    Files,        \* tokens of the API and the web UI in a configuration file
    HistoryLimit, \* limit of the ResultCache
    MaxResults    \* bounds the results that arrive

ASSUME WebUIAssumption ==
    /\ Typed \subseteq Token
    /\ Plugin \cap (Reads \cup {"refresh"}) = {}
    /\ Files \subseteq [api : AnyToken, ui : AnyToken]
    /\ \E f \in Files : f.api \in Token /\ f.ui \in Token
    /\ HistoryLimit \in Nat \ {0} /\ MaxResults \in Nat

VARIABLES
    stored,     \* the token in localStorage
    page,       \* the route that Switch has chosen
    view,       \* the hooks of its component
    req,        \* the requests of the mounted page
    results,    \* results that the daemon has recorded, which are numbered
    history,    \* those that its ResultCache still holds
    openedWith, \* those that it held when the page was mounted (observer)
    file,       \* tokens of the last configuration that was loaded
    own,        \* tokens that the two servers compare with
    assigning   \* the server whose configuration a reload assigns next

Entered == Typed \cup {NoToken}

server == <<file, own, assigning>>
vars == <<stored, page, view, req, results, history, openedWith, file, own, assigning>>

(* The routes of App, and the links of Layout. *)
NavItems == {"/", "/scanners", "/findings", "/settings"}
Page == NavItems \cup {"404"}

(* The hooks of each page as they are when it mounts.  Settings shows the  *)
(* stored token.                                                           *)
Dashboard(running, metrics, loading, error, disabled) ==
    [running |-> running, metrics |-> metrics, loading |-> loading,
     error |-> error, disabled |-> disabled]
Scanners(scanners, loading) == [scanners |-> scanners, loading |-> loading]
Findings(findings) == [findings |-> findings]
Settings(token) == [token |-> token]

Hooks(p, token) ==
    CASE p = "/" -> Dashboard(FALSE, << >>, TRUE, "none", FALSE)
      [] p = "/scanners" -> Scanners({}, [q \in Plugin |-> FALSE])
      [] p = "/findings" -> Findings({})
      [] p = "/settings" -> Settings(token)
      [] OTHER -> << >>

(* The requests of a page: its effect sends the reads, buttons the others. *)
Kinds == Reads \cup {"refresh"} \cup Plugin

SentByEffect(p) ==
    CASE p = "/" -> {"status", "metrics"}
      [] p = "/scanners" -> {"scanners"}
      [] p = "/findings" -> {"findings"}
      [] OTHER -> {}

Results == SUBSET (1..MaxResults)

(* st: sent by the browser, let through by the proxy, counting (only       *)
(* buildMetrics has two steps), or back with a reply.                      *)
(* settled: no reload was in progress since it was sent.  The body is what *)
(* was listed or counted.                                                  *)
Request == [st : {"none", "sent", "proxied", "counting", "back"},
            header : Entered, settled : BOOLEAN, code : Codes, body : Seq(Results)]

Rq(st, header, settled, code, body) ==
    [st |-> st, header |-> header, settled |-> settled, code |-> code, body |-> body]

NoRequest == Rq("none", NoToken, FALSE, "broken", << >>)
InFlight(k) == req[k].st # "none"

(* fetch: the header carries the token that is stored now. *)
Fresh(token) == Rq("sent", token, assigning = "none", "broken", << >>)

(* Mutant: a request that the page has sent before is not sent again. *)
EffectOnce(p, token) ==
    [k \in Kinds |-> IF k \notin SentByEffect(p) THEN NoRequest
                     ELSE IF InFlight(k) THEN req[k] ELSE Fresh(token)]

Effect(p, token) ==
    [k \in Kinds |-> IF k \in SentByEffect(p) THEN Fresh(token) ELSE NoRequest]

(* What the metrics have counted: nothing yet, or the results and those    *)
(* whose findings were counted.                                            *)
Metrics == {<< >>} \cup (Results \X Results)

DashboardHooks ==
    [running : BOOLEAN, loading : BOOLEAN, disabled : BOOLEAN,
     error : {"none", "Unauthorized", "Request failed"}, metrics : Metrics]

HooksOf(p) ==
    CASE p = "/" -> DashboardHooks
      [] p = "/scanners" -> [scanners : SUBSET Plugin, loading : [Plugin -> BOOLEAN]]
      [] p = "/findings" -> [findings : Results]
      [] p = "/settings" -> [token : Entered]
      [] OTHER -> {<< >>}

TypeOK ==
    /\ stored \in Entered /\ page \in Page /\ view \in HooksOf(page)
    /\ req \in [Kinds -> Request]
    /\ results \in 0..MaxResults
    /\ history \subseteq 1..results /\ openedWith \subseteq 1..results
    /\ file \in Files /\ own \in [api : AnyToken, ui : AnyToken]
    /\ assigning \in {"none", "api", "ui"}

-----------------------------------------------------------------------------
(* The application: mounting a page, links, and loading it anew. *)
Mounts(p, token) ==
    /\ page' = p
    /\ view' = Hooks(p, token)
    /\ req' = Effect(p, token)
    /\ openedWith' = history

Init ==
    /\ stored \in Entered /\ page \in Page
    /\ view = Hooks(page, stored)
    /\ file \in {f \in Files : f.api \in Token /\ f.ui \in Token}
    /\ own = file /\ assigning = "none"
    /\ req = [k \in Kinds |-> IF k \in SentByEffect(page)
                              THEN Rq("sent", stored, TRUE, "broken", << >>) ELSE NoRequest]
    /\ results = 0 /\ history = {} /\ openedWith = {}

Follow(p) ==
    /\ p \in NavItems \ {page}
    /\ Mounts(p, stored)
    /\ UNCHANGED <<stored, results, history, server>>

LoadPage(p) == Mounts(p, stored) /\ UNCHANGED <<stored, results, history, server>>

Logout ==
    /\ stored' = NoToken
    /\ Mounts(page, NoToken)
    /\ UNCHANGED <<results, history, server>>

(* Another tab saves a token, or logs out. *)
OtherTab ==
    /\ stored' \in Entered
    /\ UNCHANGED <<page, view, req, results, history, openedWith, server>>

-----------------------------------------------------------------------------
(* What the pages do with their buttons. *)
pageOnly == <<page, results, history, openedWith, server>>

Send(k) == req' = [req EXCEPT ![k] = Fresh(stored)]

Enter(t) ==
    /\ page = "/settings"
    /\ view' = Settings(t)
    /\ UNCHANGED <<pageOnly, stored, req>>

(* handleSave; its message and the timer that takes it away are left out. *)
Save ==
    /\ page = "/settings"
    /\ stored' = view.token
    /\ UNCHANGED <<pageOnly, view, req>>

(* A button with isLoading is disabled. *)
Disabled(isLoading) == isLoading

(* The plugins that have a card, with its button enabled. *)
ScannerCards == {p \in view.scanners : ~Disabled(view.loading[p])}

(* handleTrigger. *)
Trigger(p) ==
    /\ page = "/scanners" /\ p \in ScannerCards
    /\ view' = Scanners(view.scanners, [view.loading EXCEPT ![p] = TRUE])
    /\ Send(p)
    /\ UNCHANGED <<pageOnly, stored>>

(* The button under the metrics has the loading state that was rendered    *)
(* last; what the effect began is rendered a moment later.                 *)
RefreshEnabled == ~Disabled(view.disabled)

(* refreshMetrics, by the button; a bound: one such request on its way.    *)
RefreshMetrics ==
    /\ page = "/" /\ RefreshEnabled /\ ~InFlight("refresh")
    /\ view' = Dashboard(view.running, view.metrics, TRUE, view.error, TRUE)
    /\ Send("refresh")
    /\ UNCHANGED <<pageOnly, stored>>

Render ==
    /\ page = "/" /\ view.disabled # view.loading
    /\ view' = Dashboard(view.running, view.metrics, view.loading, view.error, view.loading)
    /\ UNCHANGED <<pageOnly, stored, req>>

-----------------------------------------------------------------------------
(* The callbacks, one per kind of request. *)

(* A read whose error only goes to the console leaves the hooks alone. *)
StatusDone(r) ==
    IF r.code = "ok"
    THEN Dashboard(TRUE, view.metrics, view.loading, view.error, view.disabled)
    ELSE view
ScannersDone(r) == IF r.code = "ok" THEN Scanners(Plugin, view.loading) ELSE view
FindingsDone(r) == IF r.code = "ok" THEN Findings(r.body[1]) ELSE view

MetricsDone(r) ==
    IF r.code = "ok"
    THEN Dashboard(view.running, r.body, FALSE, "none", view.disabled)
    ELSE Dashboard(view.running, view.metrics, FALSE, Thrown(r.code), view.disabled)

(* Mutant: the map of spinners is set from a copy that is out of date. *)
TriggerDoneStale(p) == Scanners(view.scanners, [q \in Plugin |-> FALSE])

(* The finally of handleTrigger starts from the present map. *)
TriggerDone(p) == Scanners(view.scanners, [view.loading EXCEPT ![p] = FALSE])

Done(k) ==
    CASE k = "status" -> StatusDone(req[k])
      [] k = "scanners" -> ScannersDone(req[k])
      [] k = "findings" -> FindingsDone(req[k])
      [] k \in {"metrics", "refresh"} -> MetricsDone(req[k])
      [] OTHER -> TriggerDone(k)

Arrive(k) ==
    /\ req[k].st = "back"
    /\ view' = Done(k)
    /\ req' = [req EXCEPT ![k] = NoRequest]
    /\ UNCHANGED <<pageOnly, stored>>

-----------------------------------------------------------------------------
(* The two servers. *)
serverOnly == <<stored, page, view, openedWith>>

(* ResultCache.Add: over the limit the oldest results go. *)
Add ==
    /\ results < MaxResults /\ results' = results + 1
    /\ history' = {i \in history \cup {results + 1} : i + HistoryLimit > results + 1}

Moves(k, st, body) ==
    req' = [req EXCEPT ![k] = Rq(st, req[k].header, req[k].settled, "broken", body)]

(* The header of a reply is kept as an observation, where it can be judged. *)
Replies(k, code, body) ==
    req' = [req EXCEPT ![k] =
              Rq("back", IF req[k].settled /\ code # "broken" THEN req[k].header ELSE NoToken,
                 req[k].settled /\ code # "broken", code, body)]

Path(k) ==
    IF k \in Plugin THEN TriggerPath(k)
    ELSE ReadPath(IF k = "refresh" THEN "metrics" ELSE k)

(* A server reads its token while a reload may be assigning it: it can see *)
(* the old one, the new one, or a mixture that equals nothing.             *)
Verdicts(s, header) ==
    IF assigning = s
    THEN {Accepts(own[s], header), Accepts(file[s], header), FALSE}
    ELSE {Accepts(own[s], header)}

(* withAuthHandler, then the reverse proxy. *)
ProxyChecks(k) ==
    /\ req[k].st = "sent"
    /\ \E passes \in Verdicts("ui", req[k].header) :
         IF passes THEN Moves(k, "proxied", << >>) ELSE Replies(k, "unauthorized", << >>)
    /\ UNCHANGED <<serverOnly, results, history, server>>

(* What a scan answers: a plugin that the manager has may succeed or fail. *)
TriggerCodes(k) ==
    IF Known(TriggerName(Path(k))) THEN {"ok", "failed"} ELSE {"unknown"}

(* A manual run that succeeds is recorded like any other result.           *)
HandleTrigger(k) ==
    \E code \in TriggerCodes(k) :
      /\ IF code = "ok" THEN Add ELSE UNCHANGED <<results, history>>
      /\ Replies(k, code, << >>)

HandleRead(k) ==
    /\ CASE RoutedTo(Path(k)) = "findings" -> Replies(k, "ok", <<history>>)
         [] RoutedTo(Path(k)) = "metrics" -> Moves(k, "counting", <<history>>)
         [] OTHER -> Replies(k, "ok", << >>)
    /\ UNCHANGED <<results, history>>

(* withAuth and the handlers. *)
ApiServes(k) ==
    /\ req[k].st = "proxied"
    /\ \E passes \in Verdicts("api", req[k].header) :
         CASE ~passes -> Replies(k, "unauthorized", << >>) /\ UNCHANGED <<results, history>>
           [] passes /\ RoutedTo(Path(k)) = "trigger" -> HandleTrigger(k)
           [] OTHER -> HandleRead(k)
    /\ UNCHANGED <<serverOnly, server>>

(* buildMetrics goes on to the findings after it has counted the results. *)
CountFindings(k) ==
    /\ req[k].st = "counting"
    /\ Replies(k, "ok", Append(req[k].body, history))
    /\ UNCHANGED <<serverOnly, results, history, server>>

NetworkFails(k) ==
    /\ req[k].st \in {"sent", "proxied", "counting"}
    /\ Replies(k, "broken", << >>)
    /\ UNCHANGED <<serverOnly, results, history, server>>

ResultArrives ==
    /\ Add
    /\ UNCHANGED <<serverOnly, req, server>>

Unsettled(r) ==
    Rq(r.st, IF r.st = "back" THEN NoToken ELSE r.header, FALSE, r.code, r.body)

(* SIGHUP: the file is loaded, then each server is given its part. *)
Reload ==
    /\ assigning = "none"
    /\ file' \in Files /\ assigning' = "api"
    /\ req' = [k \in Kinds |-> Unsettled(req[k])]
    /\ UNCHANGED <<serverOnly, results, history, own>>

(* Mutant: the configuration of the web UI is left as it was. *)
AssignedApiOnly(s) == IF s = "api" THEN file.api ELSE own[s]

Assigned(s) == file[s]

UpdateConfig(s) ==
    /\ assigning = s
    /\ own' = [own EXCEPT ![s] = Assigned(s)]
    /\ assigning' = IF s = "api" THEN "ui" ELSE "none"
    /\ UNCHANGED <<serverOnly, req, results, history, file>>

Next ==
    \/ \E p \in Page : Follow(p) \/ LoadPage(p)
    \/ Logout \/ OtherTab
    \/ \E t \in Entered : Enter(t)
    \/ Save
    \/ \E p \in Plugin : Trigger(p)
    \/ RefreshMetrics \/ Render
    \/ \E k \in Kinds :
         Arrive(k) \/ ProxyChecks(k) \/ ApiServes(k) \/ CountFindings(k) \/ NetworkFails(k)
    \/ ResultArrives \/ Reload
    \/ \E s \in {"api", "ui"} : UpdateConfig(s)

Spec == Init /\ [][Next]_vars

-----------------------------------------------------------------------------
(* What the pages show. *)
FindingsTable == view.findings
ResultsCount == view.metrics[1]
FindingsCard == view.metrics[2]

(* What the daemon still has of old is among new. *)
Follows(new, old) == old \cap history \subseteq new

(* Properties. *)

(* The spinner of a plugin turns exactly while its trigger is on its way,  *)
(* however many plugins are triggered at once and in whatever order their  *)
(* answers come.  That of the metrics never turns without a request (two   *)
(* clicks that were too early share it, and the first answer stops it).    *)
SpinnersTruthful ==
    /\ page = "/scanners" => \A p \in Plugin : view.loading[p] <=> InFlight(p)
    /\ page = "/" /\ view.loading => InFlight("metrics") \/ InFlight("refresh")

(* Whether a token is refused depends on nothing but the configuration     *)
(* that was loaded last, for requests that do not overlap with a reload:   *)
(* it passes both servers exactly when it satisfies both tokens of the     *)
(* file.                                                                   *)
AuthFollowsFile ==
    \A k \in Kinds :
      req[k].st = "back" /\ req[k].settled
        => ((req[k].code # "unauthorized") <=>
              \A s \in {"api", "ui"} : Accepts(file[s], req[k].header))

(* A page that shows findings misses none that the daemon had when it was  *)
(* opened and has not dropped from its history since, however slow the     *)
(* answers to earlier pages are (before an answer, or after a failure, it  *)
(* says that there are none).  The findings counted on the dashboard       *)
(* include those of the results counted, but for results that were pushed  *)
(* out of the history meanwhile: the two are counted under different locks.*)
FreshAtOpening ==
    /\ page = "/findings" /\ FindingsTable # {} => Follows(FindingsTable, openedWith)
    /\ page = "/" /\ view.metrics # << >> =>
         Follows(ResultsCount, openedWith) /\ Follows(FindingsCard, ResultsCount)

(* A trigger that both servers let through runs the plugin whose card was  *)
(* clicked ("Runs a plugin once and returns the result", API.md:16).       *)
TriggerRuns ==
    \A p \in Plugin : req[p].st = "back" => req[p].code # "unknown"
=============================================================================
