----------------------------- MODULE WebUIProofs -----------------------------
(***************************************************************************)
(* Proofs about WebUI, for all plugins, tokens, configuration files and    *)
(* numbers of results.                                                     *)
(***************************************************************************)
EXTENDS WebUI, TLAPS

-----------------------------------------------------------------------------
(* The operators of ApiClient. *)

(* A read is routed to its handler although its path has the prefix /api.  *)
LEMMA ReadsRouted ==
  ASSUME NEW kind \in Reads
  PROVE  RoutedTo(ReadPath(kind)) = kind
<1>1. ReadPath(kind) = <<"api", kind>> BY DEF ReadPath
<1>2. Head(ReadPath(kind)) = "api" BY <1>1
<1>3. Tail(ReadPath(kind)) = <<kind>> BY <1>1
<1>4. Unprefixed(ReadPath(kind)) = <<kind>> BY <1>2, <1>3 DEF Unprefixed
<1>5. Len(<<kind>>) = 1 /\ Head(<<kind>>) = kind OBVIOUS
<1> QED BY <1>4, <1>5 DEF RoutedTo

-----------------------------------------------------------------------------
(* Types.  A callback finds the hooks of the page that sent its request,   *)
(* and an answer that succeeded has the numbers that the callback reads.   *)
Asked(p) ==
    CASE p = "/" -> {"status", "metrics", "refresh"}
      [] p = "/scanners" -> {"scanners"} \cup Plugin
      [] p = "/findings" -> {"findings"}
      [] OTHER -> {}

OwnPage == \A k \in Kinds : InFlight(k) => k \in Asked(page)

Numbers ==
    \A k \in Kinds :
      /\ req[k].st = "counting" => Len(req[k].body) = 1 /\ k \in {"metrics", "refresh"}
      /\ req[k].st = "back" /\ req[k].code = "ok" =>
           /\ k = "findings" => Len(req[k].body) = 1
           /\ k \in {"metrics", "refresh"} => Len(req[k].body) = 2

TypeInv == TypeOK /\ OwnPage /\ Numbers

LEMMA TokenFacts == Entered \subseteq AnyToken /\ NoToken \in Entered
BY WebUIAssumption DEF Entered, AnyToken

LEMMA FilesTyped == Files \subseteq [api : AnyToken, ui : AnyToken]
BY WebUIAssumption

LEMMA RqTyped ==
  ASSUME NEW st \in {"none", "sent", "proxied", "counting", "back"}, NEW header \in Entered,
         NEW settled \in BOOLEAN, NEW code \in Codes, NEW body \in Seq(Results)
  PROVE  /\ Rq(st, header, settled, code, body) \in Request
         /\ Rq(st, header, settled, code, body).st = st
         /\ Rq(st, header, settled, code, body).header = header
         /\ Rq(st, header, settled, code, body).settled = settled
         /\ Rq(st, header, settled, code, body).code = code
         /\ Rq(st, header, settled, code, body).body = body
BY DEF Rq, Request

LEMMA EmptyBody == << >> \in Seq(Results)
OBVIOUS

LEMMA NoRequestTyped == NoRequest \in Request /\ NoRequest.st = "none"
BY EmptyBody, TokenFacts DEF NoRequest, Rq, Request, Codes

LEMMA FreshTyped ==
  ASSUME NEW t \in Entered
  PROVE  /\ Fresh(t) \in Request /\ Fresh(t).st = "sent" /\ Fresh(t).header = t
         /\ Fresh(t).settled = (assigning = "none")
<1>1. (assigning = "none") \in BOOLEAN OBVIOUS
<1> QED BY <1>1, EmptyBody DEF Fresh, Rq, Request, Codes

LEMMA EffectTyped ==
  ASSUME NEW p \in Page, NEW t \in Entered
  PROVE  /\ Effect(p, t) \in [Kinds -> Request]
         /\ \A k \in Kinds :
              Effect(p, t)[k] = NoRequest \/ (Effect(p, t)[k] = Fresh(t) /\ k \in Asked(p))
<1>1. SentByEffect(p) \subseteq Asked(p) BY DEF SentByEffect, Asked
<1>2. Fresh(t) \in Request BY FreshTyped
<1>3. NoRequest \in Request BY NoRequestTyped
<1>4. \A k \in Kinds : Effect(p, t)[k] = IF k \in SentByEffect(p) THEN Fresh(t) ELSE NoRequest
  BY DEF Effect
<1>5. Effect(p, t) \in [Kinds -> Request]
  <2> DEFINE g(k) == IF k \in SentByEffect(p) THEN Fresh(t) ELSE NoRequest
  <2>1. \A k \in Kinds : g(k) \in Request BY <1>2, <1>3
  <2>2. Effect(p, t) = [k \in Kinds |-> g(k)] BY DEF Effect
  <2> HIDE DEF g
  <2> QED BY <2>1, <2>2
<1>6. ASSUME NEW k \in Kinds
      PROVE  Effect(p, t)[k] = NoRequest \/ (Effect(p, t)[k] = Fresh(t) /\ k \in Asked(p))
  <2>1. CASE k \in SentByEffect(p) BY <1>1, <1>4, <2>1
  <2>2. CASE k \notin SentByEffect(p) BY <1>4, <2>2
  <2> QED BY <2>1, <2>2
<1> QED BY <1>5, <1>6

LEMMA HooksTyped ==
  ASSUME NEW p \in Page, NEW t \in Entered
  PROVE  Hooks(p, t) \in HooksOf(p)
<1>1. {} \in Results BY DEF Results
<1>2. p \in {"/", "/scanners", "/findings", "/settings", "404"} BY DEF Page, NavItems
<1>3. CASE p = "/"
  <2>1. << >> \in Metrics BY DEF Metrics
  <2> QED BY <1>3, <2>1 DEF Hooks, HooksOf, Dashboard, DashboardHooks
<1>4. CASE p = "/scanners" BY <1>4 DEF Hooks, HooksOf, Scanners
<1>5. CASE p = "/findings" BY <1>1, <1>5 DEF Hooks, HooksOf, Findings
<1>6. CASE p = "/settings" BY <1>6 DEF Hooks, HooksOf, Settings
<1>7. CASE p = "404" BY <1>7 DEF Hooks, HooksOf
<1> QED BY <1>2, <1>3, <1>4, <1>5, <1>6, <1>7

LEMMA KindsAre == Kinds = {"status", "scanners", "findings", "metrics", "refresh"} \cup Plugin
BY DEF Kinds, Reads

LEMMA PluginsApart == Plugin \cap {"status", "scanners", "findings", "metrics", "refresh"} = {}
BY WebUIAssumption DEF Reads

LEMMA InitTyped == Init => TypeInv
<1> SUFFICES ASSUME Init PROVE TypeInv OBVIOUS
<1> USE DEF Init
<1>1. view \in HooksOf(page) BY HooksTyped
<1>2. own \in [api : AnyToken, ui : AnyToken] BY FilesTyped
<1>3. \A k \in Kinds :
        \/ req[k] = NoRequest
        \/ req[k] = Rq("sent", stored, TRUE, "broken", << >>) /\ k \in Asked(page)
  BY DEF SentByEffect, Asked
<1>4. Rq("sent", stored, TRUE, "broken", << >>) \in Request
      /\ Rq("sent", stored, TRUE, "broken", << >>).st = "sent"
  BY EmptyBody DEF Rq, Request, Codes
<1>5. req \in [Kinds -> Request] BY <1>4, NoRequestTyped
<1>6. results \in 0..MaxResults /\ history \subseteq 1..results /\ openedWith \subseteq 1..results
  BY WebUIAssumption
<1>7. TypeOK BY <1>1, <1>2, <1>5, <1>6 DEF TypeOK
<1>8. OwnPage /\ Numbers BY <1>3, <1>4, NoRequestTyped DEF OwnPage, Numbers, InFlight
<1> QED BY <1>7, <1>8 DEF TypeInv

LEMMA MovesTyped ==
  ASSUME TypeOK, NEW k \in Kinds, NEW st \in {"none", "sent", "proxied", "counting", "back"},
         NEW body \in Seq(Results), Moves(k, st, body)
  PROVE  /\ req' \in [Kinds -> Request] /\ \A j \in Kinds \ {k} : req'[j] = req[j]
         /\ req'[k].st = st /\ req'[k].header = req[k].header
         /\ req'[k].settled = req[k].settled /\ req'[k].code = "broken" /\ req'[k].body = body
BY DEF Moves, Rq, Request, TypeOK, Codes

LEMMA RepliesTyped ==
  ASSUME TypeOK, NEW k \in Kinds, NEW code \in Codes,
         NEW body \in Seq(Results), Replies(k, code, body)
  PROVE  /\ req' \in [Kinds -> Request] /\ \A j \in Kinds \ {k} : req'[j] = req[j]
         /\ req'[k].st = "back" /\ req'[k].code = code /\ req'[k].body = body
         /\ req'[k].settled => req[k].settled /\ code # "broken" /\ req'[k].header = req[k].header
<1> DEFINE settled == req[k].settled /\ code # "broken"
           header == IF settled THEN req[k].header ELSE NoToken
<1>1. settled \in BOOLEAN BY DEF TypeOK, Request
<1>2. header \in Entered BY TokenFacts DEF TypeOK, Request
<1>4. req' = [req EXCEPT ![k] = Rq("back", header, settled, code, body)] BY DEF Replies
<1> HIDE DEF settled, header
<1>3. Rq("back", header, settled, code, body) \in Request BY <1>1, <1>2, RqTyped
<1>5. Rq("back", header, settled, code, body).settled = settled
      /\ Rq("back", header, settled, code, body).header = header
      /\ Rq("back", header, settled, code, body).st = "back"
      /\ Rq("back", header, settled, code, body).code = code
      /\ Rq("back", header, settled, code, body).body = body
  BY DEF Rq
<1>6. req'[k] = Rq("back", header, settled, code, body) BY <1>4 DEF TypeOK
<1>7. req' \in [Kinds -> Request] /\ \A j \in Kinds \ {k} : req'[j] = req[j]
  BY <1>3, <1>4 DEF TypeOK
<1> QED BY <1>5, <1>6, <1>7 DEF settled, header

LEMMA MountsTyped ==
  ASSUME TypeInv, NEW p \in Page, NEW t \in Entered, Mounts(p, t)
  PROVE  /\ page' \in Page /\ view' \in HooksOf(page') /\ req' \in [Kinds -> Request]
         /\ openedWith' \subseteq 1..results /\ OwnPage' /\ Numbers'
<1>1. view' \in HooksOf(page') BY HooksTyped DEF Mounts
<1>2. req' \in [Kinds -> Request] BY EffectTyped DEF Mounts
<1>3. ASSUME NEW k \in Kinds
      PROVE  req'[k].st = "none" \/ (req'[k].st = "sent" /\ k \in Asked(page'))
  BY EffectTyped, NoRequestTyped, FreshTyped DEF Mounts
<1>4. OwnPage' /\ Numbers' BY <1>3 DEF OwnPage, Numbers, InFlight
<1>5. openedWith' \subseteq 1..results BY DEF Mounts, TypeInv, TypeOK
<1> QED BY <1>1, <1>2, <1>4, <1>5 DEF Mounts

(* Which page is open decides the fields of the hooks. *)
LEMMA ViewTyped ==
  ASSUME TypeOK
  PROVE  /\ page = "/" => view \in DashboardHooks
         /\ page = "/scanners" => view \in [scanners : SUBSET Plugin, loading : [Plugin -> BOOLEAN]]
         /\ page = "/findings" => view \in [findings : Results]
         /\ page = "/settings" => view \in [token : Entered]
<1>1. CASE page = "/" BY <1>1 DEF TypeOK, HooksOf
<1>2. CASE page = "/scanners" BY <1>2 DEF TypeOK, HooksOf
<1>3. CASE page = "/findings" BY <1>3 DEF TypeOK, HooksOf
<1>4. CASE page = "/settings" BY <1>4 DEF TypeOK, HooksOf
<1> QED BY <1>1, <1>2, <1>3, <1>4

LEMMA AskedOnly ==
  ASSUME NEW p \in Page, NEW k \in Asked(p)
  PROVE  /\ k \in {"status", "metrics", "refresh"} => p = "/"
         /\ k \in {"scanners"} \cup Plugin => p = "/scanners"
         /\ k = "findings" => p = "/findings"
         /\ k \in {"status", "metrics", "refresh", "scanners", "findings"} \cup Plugin
<1>1. p \in {"/", "/scanners", "/findings", "/settings", "404"} BY DEF Page, NavItems
<1>2. CASE p = "/" BY <1>2, PluginsApart DEF Asked
<1>3. CASE p = "/scanners" BY <1>3, PluginsApart DEF Asked
<1>4. CASE p = "/findings" BY <1>4, PluginsApart DEF Asked
<1>5. CASE p \in {"/settings", "404"} BY <1>5 DEF Asked
<1> QED BY <1>1, <1>2, <1>3, <1>4, <1>5

LEMMA ThrownTyped ==
  ASSUME NEW code \in Codes
  PROVE  Thrown(code) \in {"none", "Unauthorized", "Request failed"}
BY DEF Thrown, Codes

LEMMA DashboardTyped ==
  ASSUME NEW running \in BOOLEAN, NEW metrics \in Metrics, NEW loading \in BOOLEAN,
         NEW error \in {"none", "Unauthorized", "Request failed"}, NEW disabled \in BOOLEAN
  PROVE  Dashboard(running, metrics, loading, error, disabled) \in DashboardHooks
BY DEF Dashboard, DashboardHooks

LEMMA DashboardFields ==
  ASSUME NEW v \in DashboardHooks
  PROVE  /\ v.running \in BOOLEAN /\ v.metrics \in Metrics /\ v.loading \in BOOLEAN
         /\ v.error \in {"none", "Unauthorized", "Request failed"} /\ v.disabled \in BOOLEAN
BY DEF DashboardHooks

LEMMA MetricsTyped ==
  ASSUME NEW s \in Seq(Results), Len(s) = 2
  PROVE  s \in Metrics
<1>1. s[1] \in Results /\ s[2] \in Results OBVIOUS
<1>2. s = <<s[1], s[2]>> OBVIOUS
<1> QED BY <1>1, <1>2 DEF Metrics

LEMMA ItemsTyped ==
  ASSUME NEW S, NEW s \in Seq(S)
  PROVE  \A i \in 1..Len(s) : s[i] \in S
OBVIOUS

LEMMA AppendTyped ==
  ASSUME NEW S, NEW s \in Seq(S), NEW e \in S
  PROVE  /\ Append(s, e) \in Seq(S) /\ Len(Append(s, e)) = Len(s) + 1
         /\ \A i \in 1..Len(s) : Append(s, e)[i] = s[i]
         /\ Append(s, e)[Len(s) + 1] = e
OBVIOUS

(* A callback leaves hooks of the page it belongs to. *)
LEMMA DoneTyped ==
  ASSUME TypeInv, NEW k \in Kinds, req[k].st = "back"
  PROVE  Done(k) \in HooksOf(page)
<1> USE DEF TypeInv
<1>1. req[k] \in Request /\ page \in Page /\ k \in Asked(page)
  BY DEF TypeOK, OwnPage, InFlight
<1>2. req[k].code \in Codes /\ req[k].body \in Seq(Results) BY <1>1 DEF Request
<1>3. CASE k \in {"status", "metrics", "refresh"}
  <2>1. page = "/" /\ k \notin Plugin BY <1>1, <1>3, AskedOnly, PluginsApart
  <2>2. view \in DashboardHooks BY <2>1, ViewTyped
  <2>3. CASE k = "status"
    <3>1. StatusDone(req[k]) \in DashboardHooks
      BY <2>2, DashboardFields, DashboardTyped DEF StatusDone
    <3> QED BY <2>1, <2>3, <3>1 DEF Done, HooksOf
  <2>4. CASE k \in {"metrics", "refresh"}
    <3>1. Done(k) = MetricsDone(req[k]) BY <2>4 DEF Done
    <3>2. CASE req[k].code = "ok"
      <4>1. Len(req[k].body) = 2 BY <2>4, <3>2 DEF Numbers
      <4> DEFINE m == req[k].body
      <4>4. m \in Metrics BY <1>2, <4>1, MetricsTyped
      <4>5. MetricsDone(req[k]) = Dashboard(view.running, m, FALSE, "none", view.disabled)
        BY <3>2 DEF MetricsDone
      <4> HIDE DEF m
      <4>6. MetricsDone(req[k]) \in DashboardHooks
        <5>1. view.running \in BOOLEAN /\ view.disabled \in BOOLEAN
          BY <2>2, DashboardFields
        <5>2. Dashboard(view.running, m, FALSE, "none", view.disabled) \in DashboardHooks
          BY <4>4, <5>1, DashboardTyped
        <5> QED BY <4>5, <5>2
      <4> QED BY <2>1, <3>1, <4>6 DEF HooksOf
    <3>3. CASE req[k].code # "ok"
      <4>1. MetricsDone(req[k]) \in DashboardHooks
        BY <1>2, <2>2, <3>3, ThrownTyped, DashboardFields, DashboardTyped DEF MetricsDone
      <4> QED BY <2>1, <3>1, <4>1 DEF HooksOf
    <3> QED BY <3>2, <3>3
  <2> QED BY <1>3, <2>3, <2>4
<1>4. CASE k = "scanners"
  <2>1. page = "/scanners" BY <1>1, <1>4, AskedOnly
  <2>2. view \in [scanners : SUBSET Plugin, loading : [Plugin -> BOOLEAN]] BY <2>1, ViewTyped
  <2> QED BY <1>4, <2>1, <2>2 DEF Done, ScannersDone, Scanners, HooksOf
<1>5. CASE k = "findings"
  <2>1. page = "/findings" BY <1>1, <1>5, AskedOnly
  <2>2. view \in [findings : Results] BY <2>1, ViewTyped
  <2>3. ASSUME req[k].code = "ok" PROVE req[k].body[1] \in Results
    <3>1. 1 \in 1..Len(req[k].body) BY <1>5, <2>3 DEF Numbers
    <3> QED BY <1>2, <3>1, ItemsTyped
  <2> QED BY <1>5, <2>1, <2>2, <2>3 DEF Done, FindingsDone, Findings, HooksOf
<1>6. CASE k \in Plugin
  <2>1. page = "/scanners" BY <1>1, <1>6, AskedOnly
  <2>2. view \in [scanners : SUBSET Plugin, loading : [Plugin -> BOOLEAN]] BY <2>1, ViewTyped
  <2>3. Done(k) = TriggerDone(k) BY <1>6, PluginsApart DEF Done
  <2> QED BY <1>6, <2>1, <2>2, <2>3 DEF TriggerDone, Scanners, HooksOf
<1> QED BY <1>3, <1>4, <1>5, <1>6, KindsAre

(* What a step does to the results of the daemon: what its history lost    *)
(* does not come back.                                                     *)
DaemonMoves ==
    /\ results' \in 0..MaxResults /\ 1..results \subseteq 1..results'
    /\ history' \subseteq 1..results' /\ history' \cap (1..results) \subseteq history

LEMMA DaemonStays ==
  ASSUME TypeOK, UNCHANGED <<results, history>>
  PROVE  DaemonMoves
BY DEF TypeOK, DaemonMoves

LEMMA AddMoves ==
  ASSUME TypeOK, Add
  PROVE  DaemonMoves
<1>1. results \in Nat /\ MaxResults \in Nat /\ HistoryLimit \in Nat /\ history \subseteq 1..results
  BY WebUIAssumption DEF TypeOK
<1>2. results < MaxResults /\ results' = results + 1
      /\ history' \subseteq history \cup {results + 1}
  BY DEF Add
<1>3. results' \in 0..MaxResults /\ 1..results \subseteq 1..results' BY <1>1, <1>2
<1>4. history' \subseteq 1..results' BY <1>1, <1>2
<1>5. history' \cap (1..results) \subseteq history BY <1>1, <1>2
<1> QED BY <1>3, <1>4, <1>5 DEF DaemonMoves

LEMMA HistoryTyped ==
  ASSUME TypeOK
  PROVE  history \in Results
BY WebUIAssumption DEF TypeOK, Results

LEMMA HandleTriggerTyped ==
  ASSUME TypeOK, NEW k \in Kinds, HandleTrigger(k)
  PROVE  /\ \E code \in Codes \ {"unauthorized", "broken"} : Replies(k, code, << >>)
         /\ DaemonMoves
<1>1. PICK code \in TriggerCodes(k) :
        /\ IF code = "ok" THEN Add ELSE UNCHANGED <<results, history>>
        /\ Replies(k, code, << >>)
  BY DEF HandleTrigger
<1>2. code \in Codes \ {"unauthorized", "broken"} BY DEF TriggerCodes, Codes
<1>3. DaemonMoves BY <1>1, AddMoves, DaemonStays
<1> QED BY <1>1, <1>2, <1>3

LEMMA PathsRouted ==
  /\ RoutedTo(Path("findings")) = "findings"
  /\ \A k \in Kinds : RoutedTo(Path(k)) = "metrics" <=> k \in {"metrics", "refresh"}
<1>1. \A k \in Kinds \ Plugin :
        RoutedTo(Path(k)) = IF k = "refresh" THEN "metrics" ELSE k
  <2> SUFFICES ASSUME NEW k \in Kinds \ Plugin
               PROVE  RoutedTo(Path(k)) = IF k = "refresh" THEN "metrics" ELSE k
    OBVIOUS
  <2> DEFINE kind == IF k = "refresh" THEN "metrics" ELSE k
  <2>1. kind \in Reads BY DEF Kinds, Reads
  <2>2. Path(k) = ReadPath(kind) BY DEF Path
  <2> HIDE DEF kind
  <2>3. RoutedTo(Path(k)) = kind BY <2>1, <2>2, ReadsRouted
  <2> QED BY <2>3 DEF kind
<1>2. \A k \in Plugin : RoutedTo(Path(k)) # "metrics"
  <2> SUFFICES ASSUME NEW k \in Plugin PROVE RoutedTo(Path(k)) # "metrics" OBVIOUS
  <2>1. Path(k) = <<"api", "scanners", "trigger", k>> BY DEF Path, TriggerPath
  <2>2. Len(Unprefixed(Path(k))) = 3 BY <2>1 DEF Unprefixed
  <2> QED BY <2>2 DEF RoutedTo
<1> QED BY <1>1, <1>2, KindsAre, PluginsApart

LEMMA HandleReadTyped ==
  ASSUME TypeOK, NEW k \in Kinds, HandleRead(k)
  PROVE  /\ UNCHANGED <<results, history>>
         /\ \/ Replies(k, "ok", <<history>>) /\ k \notin {"metrics", "refresh"}
            \/ Moves(k, "counting", <<history>>) /\ k \in {"metrics", "refresh"}
            \/ Replies(k, "ok", << >>) /\ k \notin {"findings", "metrics", "refresh"}
<1>1. CASE RoutedTo(Path(k)) = "findings" BY <1>1, PathsRouted DEF HandleRead
<1>2. CASE RoutedTo(Path(k)) = "metrics" BY <1>2, PathsRouted DEF HandleRead
<1>3. CASE RoutedTo(Path(k)) \notin {"findings", "metrics"}
  <2>1. k \notin {"findings", "metrics", "refresh"} BY <1>3, PathsRouted
  <2> QED BY <1>3, <2>1 DEF HandleRead
<1> QED BY <1>1, <1>2, <1>3

LEMMA UnsettledTyped ==
  ASSUME NEW r \in Request
  PROVE  /\ Unsettled(r) \in Request /\ Unsettled(r).st = r.st /\ ~Unsettled(r).settled
         /\ Unsettled(r).code = r.code /\ Unsettled(r).body = r.body
BY TokenFacts DEF Unsettled, Rq, Request

LEMMA SendTyped ==
  ASSUME TypeOK, NEW k \in Kinds, Send(k)
  PROVE  /\ req' \in [Kinds -> Request] /\ \A j \in Kinds \ {k} : req'[j] = req[j]
         /\ req'[k].st = "sent" /\ req'[k].settled = (assigning = "none")
<1>1. Fresh(stored) \in Request /\ Fresh(stored).st = "sent"
      /\ Fresh(stored).settled = (assigning = "none")
  BY FreshTyped DEF TypeOK
<1> QED BY <1>1 DEF Send, TypeOK

(* One request takes a step, and nothing else of the page changes.         *)
LEMMA RequestMoves ==
  ASSUME TypeInv, NEW k \in Kinds, InFlight(k), req' \in [Kinds -> Request],
         \A j \in Kinds \ {k} : req'[j] = req[j], UNCHANGED <<stored, page, view, openedWith>>,
         DaemonMoves,
         req'[k].st = "counting" => Len(req'[k].body) = 1 /\ k \in {"metrics", "refresh"},
         req'[k].st = "back" /\ req'[k].code = "ok" =>
           /\ k = "findings" => Len(req'[k].body) = 1
           /\ k \in {"metrics", "refresh"} => Len(req'[k].body) = 2,
         file' \in Files, own' \in [api : AnyToken, ui : AnyToken], assigning' \in {"none", "api", "ui"}
  PROVE  TypeInv'
<1>1. view' \in HooksOf(page') BY DEF TypeInv, TypeOK
<1>2. TypeOK' BY <1>1 DEF TypeInv, TypeOK, DaemonMoves
<1>3. OwnPage' BY DEF TypeInv, OwnPage, InFlight
<1>4. Numbers' BY DEF TypeInv, Numbers
<1> QED BY <1>2, <1>3, <1>4 DEF TypeInv

LEMMA ApiServesMoves ==
  ASSUME TypeInv, NEW k \in Kinds, ApiServes(k)
  PROVE  \E passes \in Verdicts("api", req[k].header) :
           \/ ~passes /\ Replies(k, "unauthorized", << >>) /\ UNCHANGED <<results, history>>
           \/ passes /\ HandleTrigger(k) /\ k \notin {"findings", "metrics", "refresh"}
           \/ passes /\ HandleRead(k)
<1>1. PICK passes \in Verdicts("api", req[k].header) :
         CASE ~passes -> Replies(k, "unauthorized", << >>) /\ UNCHANGED <<results, history>>
           [] passes /\ RoutedTo(Path(k)) = "trigger" -> HandleTrigger(k)
           [] OTHER -> HandleRead(k)
  BY DEF ApiServes
<1>2. k \in {"findings", "metrics", "refresh"} => RoutedTo(Path(k)) # "trigger" BY PathsRouted
<1>3. passes \in BOOLEAN BY DEF Verdicts, Accepts
<1>4. CASE ~passes BY <1>1, <1>4
<1>5. CASE passes /\ RoutedTo(Path(k)) = "trigger" BY <1>1, <1>2, <1>5
<1>6. CASE passes /\ RoutedTo(Path(k)) # "trigger" BY <1>1, <1>6
<1> QED BY <1>3, <1>4, <1>5, <1>6

LEMMA ServerTypeStep ==
  ASSUME TypeInv, NEW k \in Kinds,
         ProxyChecks(k) \/ ApiServes(k) \/ CountFindings(k) \/ NetworkFails(k)
  PROVE  TypeInv' /\ DaemonMoves
<1> USE DEF TypeInv
<1>1. TypeOK /\ "unauthorized" \in Codes /\ "broken" \in Codes /\ "ok" \in Codes BY DEF Codes
<1>2. InFlight(k) BY DEF ProxyChecks, ApiServes, CountFindings, NetworkFails, InFlight
<1>3. UNCHANGED <<stored, page, view, openedWith, file, own, assigning>>
  BY DEF ProxyChecks, ApiServes, CountFindings, NetworkFails, serverOnly, server
<1>4. /\ file' \in Files /\ own' \in [api : AnyToken, ui : AnyToken]
      /\ assigning' \in {"none", "api", "ui"}
  BY <1>3 DEF TypeOK
<1>5. history \in Results /\ (UNCHANGED <<results, history>> => DaemonMoves)
  BY HistoryTyped, DaemonStays
<1>6. ASSUME NEW code \in Codes \ {"ok"}, Replies(k, code, << >>), DaemonMoves
      PROVE  TypeInv'
  BY <1>2, <1>3, <1>4, <1>6, EmptyBody, RepliesTyped, RequestMoves
<1>7. ASSUME Replies(k, "ok", << >>), k \notin {"findings", "metrics", "refresh"},
             DaemonMoves
      PROVE  TypeInv'
  BY <1>1, <1>2, <1>3, <1>4, <1>7, EmptyBody, RepliesTyped, RequestMoves
<1>8. CASE ProxyChecks(k)
  <2>1. UNCHANGED <<results, history>> BY <1>8 DEF ProxyChecks
  <2>2. Moves(k, "proxied", << >>) \/ Replies(k, "unauthorized", << >>) BY <1>8 DEF ProxyChecks
  <2>3. CASE Moves(k, "proxied", << >>)
    BY <1>2, <1>3, <1>4, <1>5, <2>1, <2>3, EmptyBody, MovesTyped, RequestMoves
  <2> QED BY <1>1, <1>5, <1>6, <2>1, <2>2, <2>3
<1>9. CASE ApiServes(k)
  <2>1. CASE Replies(k, "unauthorized", << >>) /\ UNCHANGED <<results, history>>
    BY <1>1, <1>5, <1>6, <2>1
  <2>2. CASE HandleTrigger(k) /\ k \notin {"findings", "metrics", "refresh"}
    <3>1. DaemonMoves BY <2>2, HandleTriggerTyped
    <3>2. PICK code \in Codes \ {"unauthorized", "broken"} : Replies(k, code, << >>)
      BY <2>2, HandleTriggerTyped
    <3> QED BY <1>6, <1>7, <2>2, <3>1, <3>2
  <2>3. CASE HandleRead(k)
    <3>1. UNCHANGED <<results, history>> BY <2>3, HandleReadTyped
    <3>2. <<history>> \in Seq(Results) /\ Len(<<history>>) = 1 BY <1>5
    <3>3. CASE Replies(k, "ok", <<history>>) /\ k \notin {"metrics", "refresh"}
      BY <1>1, <1>2, <1>3, <1>4, <1>5, <3>1, <3>2, <3>3, RepliesTyped, RequestMoves
    <3>4. CASE Moves(k, "counting", <<history>>) /\ k \in {"metrics", "refresh"}
      BY <1>2, <1>3, <1>4, <1>5, <3>1, <3>2, <3>4, MovesTyped, RequestMoves
    <3> QED BY <1>5, <1>7, <2>3, <3>1, <3>3, <3>4, HandleReadTyped
  <2> QED BY <1>9, <2>1, <2>2, <2>3, ApiServesMoves
<1>10. CASE CountFindings(k)
  <2> DEFINE body == Append(req[k].body, history)
  <2>1. UNCHANGED <<results, history>> /\ Replies(k, "ok", body) BY <1>10 DEF CountFindings
  <2>2. Len(req[k].body) = 1 /\ k \in {"metrics", "refresh"} BY <1>10 DEF CountFindings, Numbers
  <2>3. req[k].body \in Seq(Results) BY DEF TypeOK, Request
  <2>4. body \in Seq(Results) /\ Len(body) = 2
    <3>1. body \in Seq(Results) /\ Len(body) = Len(req[k].body) + 1
      BY <1>5, <2>3, AppendTyped
    <3> QED BY <2>2, <3>1
  <2> HIDE DEF body
  <2> QED BY <1>1, <1>2, <1>3, <1>4, <1>5, <2>1, <2>2, <2>4, RepliesTyped, RequestMoves
<1>11. CASE NetworkFails(k)
  BY <1>1, <1>5, <1>6, <1>11 DEF NetworkFails
<1> QED BY <1>8, <1>9, <1>10, <1>11

(* A step of the page that keeps its kind. *)
LEMMA PageStepTyped ==
  ASSUME TypeInv, UNCHANGED <<page, results, history, openedWith, file, own, assigning>>,
         stored' \in Entered, view' \in HooksOf(page), req' \in [Kinds -> Request],
         \A k \in Kinds :
           req'[k] \in {req[k], NoRequest} \/ (req'[k].st = "sent" /\ k \in Asked(page))
  PROVE  TypeInv'
<1>1. view' \in HooksOf(page') OBVIOUS
<1>2. TypeOK' BY <1>1 DEF TypeInv, TypeOK
<1>3. OwnPage' /\ Numbers' BY NoRequestTyped DEF TypeInv, OwnPage, Numbers, InFlight
<1> QED BY <1>2, <1>3 DEF TypeInv

LEMMA TypeInvStep == TypeInv /\ [Next]_vars => TypeInv'
<1> SUFFICES ASSUME TypeInv, [Next]_vars PROVE TypeInv' OBVIOUS
<1> USE DEF TypeInv
<1>1. TypeOK OBVIOUS
<1>2. ASSUME NEW p \in Page, NEW t \in Entered, Mounts(p, t), stored' \in Entered,
             UNCHANGED <<results, history, server>>
      PROVE  TypeInv'
  <2>1. TypeOK' BY <1>2, MountsTyped DEF TypeOK, server
  <2> QED BY <1>2, <2>1, MountsTyped
<1>3. ASSUME NEW p \in Page, Follow(p) \/ LoadPage(p) PROVE TypeInv'
  BY <1>2, <1>3 DEF Follow, LoadPage, TypeOK, NavItems, Page
<1>4. CASE Logout
  BY <1>2, <1>4, TokenFacts DEF Logout, TypeOK
<1>5. CASE OtherTab
  BY <1>5, PageStepTyped DEF OtherTab, TypeOK, server
<1>6. CASE (\E t \in Entered : Enter(t)) \/ Save
  <2>1. page = "/settings" BY <1>6 DEF Enter, Save
  <2>2. view \in [token : Entered] BY <2>1, ViewTyped
  <2>3. view' \in [token : Entered] /\ stored' \in Entered
    <3>1. ASSUME NEW t \in Entered, Enter(t)
          PROVE view' \in [token : Entered] /\ stored' \in Entered
      BY <2>2, <3>1 DEF Enter, Settings, TypeOK
    <3>2. CASE Save BY <2>2, <3>2 DEF Save
    <3> QED BY <1>6, <3>1, <3>2
  <2>4. view' \in HooksOf(page) BY <2>1, <2>3 DEF HooksOf
  <2>5. UNCHANGED <<page, results, history, openedWith, file, own, assigning, req>>
    BY <1>6 DEF Enter, Save, pageOnly, server
  <2> QED BY <2>3, <2>4, <2>5, PageStepTyped DEF TypeOK
<1>7. ASSUME NEW p \in Plugin, Trigger(p) PROVE TypeInv'
  <2>1. page = "/scanners" /\ p \in Kinds /\ p \in Asked(page)
    BY <1>7 DEF Trigger, Kinds, Asked
  <2>2. view \in [scanners : SUBSET Plugin, loading : [Plugin -> BOOLEAN]] BY <2>1, ViewTyped
  <2>3. view' \in HooksOf(page) BY <1>7, <2>1, <2>2 DEF Trigger, Scanners, HooksOf
  <2>4. UNCHANGED <<page, results, history, openedWith, file, own, assigning, stored>>
    BY <1>7 DEF Trigger, pageOnly, server
  <2>5. stored \in Entered /\ Send(p) BY <1>7 DEF Trigger, TypeOK
  <2> QED BY <1>1, <2>1, <2>3, <2>4, <2>5, SendTyped, PageStepTyped
<1>8. CASE RefreshMetrics
  <2>1. page = "/" /\ "refresh" \in Kinds /\ "refresh" \in Asked(page)
    BY <1>8 DEF RefreshMetrics, Kinds, Asked
  <2>2. view \in DashboardHooks BY <2>1, ViewTyped
  <2>3. view' \in HooksOf(page)
    BY <1>8, <2>1, <2>2, DashboardFields, DashboardTyped DEF RefreshMetrics, HooksOf
  <2>4. UNCHANGED <<page, results, history, openedWith, file, own, assigning, stored>>
    BY <1>8 DEF RefreshMetrics, pageOnly, server
  <2>5. stored \in Entered /\ Send("refresh") BY <1>8 DEF RefreshMetrics, TypeOK
  <2> QED BY <1>1, <2>1, <2>3, <2>4, <2>5, SendTyped, PageStepTyped
<1>9. CASE Render
  <2>1. page = "/" BY <1>9 DEF Render
  <2>2. view \in DashboardHooks BY <2>1, ViewTyped
  <2>3. view' \in HooksOf(page)
    BY <1>9, <2>1, <2>2, DashboardFields, DashboardTyped DEF Render, HooksOf
  <2> QED BY <1>9, <2>3, PageStepTyped DEF Render, pageOnly, server, TypeOK
<1>10. ASSUME NEW k \in Kinds, Arrive(k) PROVE TypeInv'
  <2>1. view' \in HooksOf(page) BY <1>10, DoneTyped DEF Arrive
  <2>2. \A j \in Kinds : req'[j] = IF j = k THEN NoRequest ELSE req[j] BY <1>10 DEF Arrive, TypeOK
  <2>3. req' \in [Kinds -> Request] BY <1>10, NoRequestTyped DEF Arrive, TypeOK
  <2>4. UNCHANGED <<page, results, history, openedWith, file, own, assigning, stored>> /\ stored \in Entered
    BY <1>10 DEF Arrive, pageOnly, server, TypeOK
  <2> QED BY <2>1, <2>2, <2>3, <2>4, NoRequestTyped, PageStepTyped
<1>11. ASSUME NEW k \in Kinds,
              ProxyChecks(k) \/ ApiServes(k) \/ CountFindings(k) \/ NetworkFails(k)
       PROVE  TypeInv'
  BY <1>11, ServerTypeStep
<1>12. ASSUME UNCHANGED <<stored, page, view, openedWith>>,
              req' \in [Kinds -> Request], DaemonMoves,
              \A k \in Kinds :
                req'[k].st = req[k].st /\ req'[k].code = req[k].code /\ req'[k].body = req[k].body,
              file' \in Files, own' \in [api : AnyToken, ui : AnyToken],
              assigning' \in {"none", "api", "ui"}
       PROVE  TypeInv'
  <2>1. view' \in HooksOf(page') BY <1>12 DEF TypeOK
  <2>2. TypeOK' BY <1>12, <2>1 DEF TypeOK, DaemonMoves
  <2>3. OwnPage' /\ Numbers' BY <1>12 DEF OwnPage, Numbers, InFlight
  <2> QED BY <2>2, <2>3
<1>13. CASE ResultArrives
  <2>1. DaemonMoves BY <1>13, AddMoves DEF ResultArrives
  <2> QED BY <1>12, <1>13, <2>1 DEF ResultArrives, serverOnly, server, TypeOK
<1>14. CASE Reload
  <2>1. \A k \in Kinds : req'[k] = Unsettled(req[k]) /\ req[k] \in Request BY <1>14 DEF Reload, TypeOK
  <2>2. req' \in [Kinds -> Request]
    <3>1. \A k \in Kinds : Unsettled(req[k]) \in Request BY <2>1, UnsettledTyped
    <3> QED BY <1>14, <3>1 DEF Reload
  <2> QED BY <1>12, <1>14, <2>1, <2>2, DaemonStays, UnsettledTyped DEF Reload, serverOnly, TypeOK
<1>15. ASSUME NEW s \in {"api", "ui"}, UpdateConfig(s) PROVE TypeInv'
  <2>1. Assigned(s) \in AnyToken BY FilesTyped DEF TypeOK, Assigned
  <2>2. own' \in [api : AnyToken, ui : AnyToken] BY <1>15, <2>1 DEF UpdateConfig, TypeOK
  <2> QED BY <1>12, <1>15, <2>2, DaemonStays DEF UpdateConfig, serverOnly, TypeOK
<1>16. CASE UNCHANGED vars
  BY <1>12, <1>16, DaemonStays DEF vars, TypeOK
<1> QED
  BY <1>3, <1>4, <1>5, <1>6, <1>7, <1>8, <1>9, <1>10, <1>11, <1>13, <1>14, <1>15, <1>16 DEF Next

(* Every reachable state of pages, requests and servers is well typed: a   *)
(* callback finds the hooks of its page and the numbers that it reads.     *)
THEOREM WebTypeCorrect == Spec => []TypeOK
<1>1. Spec => []TypeInv BY InitTyped, TypeInvStep, PTL DEF Spec
<1>2. TypeInv => TypeOK BY DEF TypeInv
<1> QED BY <1>1, <1>2, PTL

-----------------------------------------------------------------------------
(* Authentication.  The proxy and the API check a request at different     *)
(* times; what ties the two together is that a request without a reload    *)
(* since it was sent meets two servers that have the tokens of the file.   *)
ServersFollow ==
    /\ assigning = "none" => own.api = file.api /\ own.ui = file.ui
    /\ assigning = "ui" => own.api = file.api

SettledRequests ==
    \A k \in Kinds : req[k].settled =>
      /\ req[k].st \in {"sent", "proxied", "counting"} => assigning = "none"
      /\ req[k].st \in {"proxied", "counting"} => Accepts(file.ui, req[k].header)
      /\ req[k].st = "counting" => Accepts(file.api, req[k].header)

AuthInv == TypeInv /\ ServersFollow /\ SettledRequests /\ AuthFollowsFile

(* AuthFollowsFile of one request. *)
Judged(k) ==
    req[k].st = "back" /\ req[k].settled
      => ((req[k].code # "unauthorized")
            <=> (Accepts(file.api, req[k].header) /\ Accepts(file.ui, req[k].header)))

LEMMA JudgedAll == AuthFollowsFile <=> \A k \in Kinds : Judged(k)
BY DEF AuthFollowsFile, Judged

LEMMA AuthInit == Init => AuthInv
<1> SUFFICES ASSUME Init PROVE AuthInv OBVIOUS
<1>1. TypeInv BY InitTyped
<1>2. \A k \in Kinds : req[k].st \in {"none", "sent"} BY DEF Init, NoRequest, Rq
<1> QED BY <1>1, <1>2 DEF AuthInv, Init, ServersFollow, SettledRequests, AuthFollowsFile

(* One request of a step of the servers, in all its outcomes. *)
LEMMA AuthOutcomes ==
  ASSUME AuthInv, NEW k \in Kinds,
         ProxyChecks(k) \/ ApiServes(k) \/ CountFindings(k) \/ NetworkFails(k)
  PROVE  /\ UNCHANGED <<file, own, assigning>> /\ \A j \in Kinds \ {k} : req'[j] = req[j]
         /\ SettledRequests' /\ Judged(k)'
<1> USE DEF AuthInv
<1>1. TypeOK /\ "unauthorized" \in Codes /\ "broken" \in Codes /\ "ok" \in Codes
  BY DEF Codes, TypeInv
<1>2. UNCHANGED <<file, own, assigning>>
  BY DEF ProxyChecks, ApiServes, CountFindings, NetworkFails, serverOnly, server
<1>3. ASSUME \A j \in Kinds \ {k} : req'[j] = req[j],
             req'[k].settled => req[k].settled /\ req'[k].header = req[k].header,
             req[k].st \in {"sent", "proxied", "counting"},
             req'[k].settled /\ req'[k].st \in {"proxied", "counting"} => Accepts(file.ui, req[k].header),
             req'[k].settled /\ req'[k].st = "counting" => Accepts(file.api, req[k].header)
      PROVE  SettledRequests'
  BY <1>2, <1>3 DEF SettledRequests
<1>4. ASSUME req[k].settled, req[k].st \in {"sent", "proxied", "counting"}
      PROVE  /\ \A passes \in Verdicts("ui", req[k].header) : passes <=> Accepts(file.ui, req[k].header)
             /\ \A passes \in Verdicts("api", req[k].header) : passes <=> Accepts(file.api, req[k].header)
  <2>1. assigning = "none" BY <1>4 DEF SettledRequests
  <2> QED BY <2>1 DEF Verdicts, ServersFollow
(* A reply, and what it says of the two checks. *)
<1>5. ASSUME NEW code \in Codes, NEW body \in Seq(Results), Replies(k, code, body),
             req[k].st \in {"sent", "proxied", "counting"},
             req[k].settled /\ code # "broken" =>
               ((code # "unauthorized") <=>
                  (Accepts(file.api, req[k].header) /\ Accepts(file.ui, req[k].header)))
      PROVE  /\ \A j \in Kinds \ {k} : req'[j] = req[j]
             /\ SettledRequests' /\ Judged(k)'
  <2>1. /\ \A j \in Kinds \ {k} : req'[j] = req[j]
        /\ req'[k].st = "back" /\ req'[k].code = code
        /\ req'[k].settled => req[k].settled /\ code # "broken" /\ req'[k].header = req[k].header
    BY <1>1, <1>5, RepliesTyped
  <2>2. SettledRequests' BY <1>3, <1>5, <2>1
  <2>3. Judged(k)' BY <1>2, <1>5, <2>1 DEF Judged
  <2> QED BY <2>1, <2>2, <2>3
<1>6. ASSUME NEW st \in {"proxied", "counting"}, NEW body \in Seq(Results), Moves(k, st, body),
             req[k].st \in {"sent", "proxied", "counting"},
             req[k].settled => Accepts(file.ui, req[k].header),
             req[k].settled /\ st = "counting" => Accepts(file.api, req[k].header)
      PROVE  /\ \A j \in Kinds \ {k} : req'[j] = req[j]
             /\ SettledRequests' /\ Judged(k)'
  <2>1. /\ \A j \in Kinds \ {k} : req'[j] = req[j]
        /\ req'[k].st = st /\ req'[k].header = req[k].header /\ req'[k].settled = req[k].settled
    BY <1>1, <1>6, MovesTyped
  <2>2. SettledRequests' BY <1>3, <1>6, <2>1
  <2>3. Judged(k)' BY <2>1 DEF Judged
  <2> QED BY <2>1, <2>2, <2>3
<1>7. CASE ProxyChecks(k)
  <2>1. PICK passes \in Verdicts("ui", req[k].header) :
          IF passes THEN Moves(k, "proxied", << >>) ELSE Replies(k, "unauthorized", << >>)
    BY <1>7 DEF ProxyChecks
  <2>2. req[k].st = "sent" BY <1>7 DEF ProxyChecks
  <2>3. passes \in BOOLEAN BY DEF Verdicts, Accepts
  <2>4. CASE passes BY <1>2, <1>4, <1>6, <2>1, <2>2, <2>4, EmptyBody
  <2>5. CASE ~passes BY <1>1, <1>2, <1>4, <1>5, <2>1, <2>2, <2>5, EmptyBody
  <2> QED BY <2>3, <2>4, <2>5
<1>8. CASE ApiServes(k)
  <2>1. req[k].st = "proxied" BY <1>8 DEF ApiServes
  <2>2. req[k].settled => Accepts(file.ui, req[k].header) BY <2>1 DEF SettledRequests
  <2>3. PICK passes \in Verdicts("api", req[k].header) :
           \/ ~passes /\ Replies(k, "unauthorized", << >>) /\ UNCHANGED <<results, history>>
           \/ passes /\ HandleTrigger(k) /\ k \notin {"findings", "metrics", "refresh"}
           \/ passes /\ HandleRead(k)
    BY <1>8, ApiServesMoves
  <2>4. CASE ~passes /\ Replies(k, "unauthorized", << >>)
    BY <1>1, <1>2, <1>4, <1>5, <2>1, <2>2, <2>4, EmptyBody
  <2>5. CASE passes /\ HandleTrigger(k)
    <3>1. PICK code \in Codes \ {"unauthorized", "broken"} : Replies(k, code, << >>)
      BY <1>1, <2>5, HandleTriggerTyped
    <3> QED BY <1>2, <1>4, <1>5, <2>1, <2>2, <2>5, <3>1, EmptyBody
  <2>6. CASE passes /\ HandleRead(k)
    <3>1. <<history>> \in Seq(Results) BY <1>1, HistoryTyped
    <3>2. CASE Replies(k, "ok", <<history>>) \/ Replies(k, "ok", << >>)
      BY <1>1, <1>2, <1>4, <1>5, <2>1, <2>2, <2>6, <3>1, <3>2, EmptyBody
    <3>3. CASE Moves(k, "counting", <<history>>)
      BY <1>2, <1>4, <1>6, <2>1, <2>2, <2>6, <3>1, <3>3
    <3> QED BY <1>1, <2>6, <3>2, <3>3, HandleReadTyped
  <2> QED BY <1>2, <2>3, <2>4, <2>5, <2>6
<1>9. CASE CountFindings(k)
  <2>1. req[k].st = "counting" /\ Replies(k, "ok", Append(req[k].body, history))
    BY <1>9 DEF CountFindings
  <2>2. Append(req[k].body, history) \in Seq(Results)
    BY <1>1, AppendTyped, HistoryTyped DEF TypeOK, Request
  <2>3. req[k].settled => Accepts(file.api, req[k].header) /\ Accepts(file.ui, req[k].header)
    BY <2>1 DEF SettledRequests
  <2> QED BY <1>1, <1>2, <1>5, <2>1, <2>2, <2>3
<1>10. CASE NetworkFails(k)
  BY <1>1, <1>2, <1>5, <1>10, EmptyBody DEF NetworkFails
<1> QED BY <1>2, <1>7, <1>8, <1>9, <1>10

LEMMA NoRequestUnsettled == NoRequest.settled = FALSE /\ NoRequest.st = "none"
BY DEF NoRequest, Rq

LEMMA AuthStep == AuthInv /\ [Next]_vars => AuthInv'
<1> SUFFICES ASSUME AuthInv, [Next]_vars PROVE AuthInv' OBVIOUS
<1> USE DEF AuthInv
<1>1. TypeInv' /\ TypeOK BY TypeInvStep DEF TypeInv
<1>2. ASSUME UNCHANGED <<file, own, assigning>>,
             \A k \in Kinds :
               \/ req'[k] \in {req[k], NoRequest}
               \/ req'[k].st = "sent" /\ req'[k].settled = (assigning = "none")
      PROVE  AuthInv'
  <2>1. ServersFollow' BY <1>2 DEF ServersFollow
  <2>2. SettledRequests'
    <3> SUFFICES ASSUME NEW k \in Kinds, req'[k].settled
                 PROVE  /\ req'[k].st \in {"sent", "proxied", "counting"} => assigning' = "none"
                        /\ req'[k].st \in {"proxied", "counting"} => Accepts(file'.ui, req'[k].header)
                        /\ req'[k].st = "counting" => Accepts(file'.api, req'[k].header)
      BY DEF SettledRequests
    <3>1. CASE req'[k] = req[k] BY <1>2, <3>1 DEF SettledRequests
    <3>2. CASE req'[k] = NoRequest BY <3>2, NoRequestUnsettled
    <3>3. CASE req'[k].st = "sent" /\ req'[k].settled = (assigning = "none") BY <1>2, <3>3
    <3> QED BY <1>2, <3>1, <3>2, <3>3
  <2>3. AuthFollowsFile'
    <3>1. ASSUME NEW k \in Kinds PROVE Judged(k)'
      <4>1. Judged(k) BY JudgedAll
      <4> QED BY <1>2, <4>1, NoRequestUnsettled DEF Judged
    <3> QED BY <3>1, JudgedAll DEF AuthFollowsFile, Judged
  <2> QED BY <1>1, <2>1, <2>2, <2>3
<1>3. ASSUME NEW p \in Page, NEW t \in Entered, Mounts(p, t), UNCHANGED server PROVE AuthInv'
  <2>1. ASSUME NEW k \in Kinds
        PROVE  req'[k] = NoRequest \/ (req'[k].st = "sent" /\ req'[k].settled = (assigning = "none"))
    BY <1>3, EffectTyped, FreshTyped DEF Mounts
  <2> QED BY <1>2, <1>3, <2>1 DEF server
<1>4. CASE (\E p \in Page : Follow(p) \/ LoadPage(p)) \/ Logout
  BY <1>1, <1>3, <1>4, TokenFacts DEF Follow, LoadPage, Logout, server, TypeOK
<1>5. CASE OtherTab \/ (\E t \in Entered : Enter(t)) \/ Save \/ Render \/ ResultArrives
           \/ UNCHANGED vars
  BY <1>2, <1>5
     DEF OtherTab, Enter, Save, Render, ResultArrives, vars, pageOnly, serverOnly, server
<1>6. ASSUME NEW k \in Kinds, Send(k), UNCHANGED server PROVE AuthInv'
  BY <1>1, <1>2, <1>6, SendTyped DEF server
<1>7. CASE (\E p \in Plugin : Trigger(p)) \/ RefreshMetrics
  BY <1>6, <1>7, KindsAre DEF Trigger, RefreshMetrics, pageOnly, server
<1>8. ASSUME NEW k \in Kinds, Arrive(k) PROVE AuthInv'
  <2>1. \A j \in Kinds : req'[j] \in {req[j], NoRequest} BY <1>1, <1>8 DEF Arrive, TypeOK
  <2> QED BY <1>2, <1>8, <2>1 DEF Arrive, pageOnly, server
<1>9. ASSUME NEW k \in Kinds,
             ProxyChecks(k) \/ ApiServes(k) \/ CountFindings(k) \/ NetworkFails(k)
      PROVE  AuthInv'
  <2>1. UNCHANGED <<file, own, assigning>> /\ SettledRequests' /\ Judged(k)'
        /\ \A j \in Kinds \ {k} : req'[j] = req[j]
    BY <1>9, AuthOutcomes
  <2>2. ServersFollow' BY <2>1 DEF ServersFollow
  <2>3. ASSUME NEW j \in Kinds PROVE Judged(j)'
    <3>1. CASE j = k BY <2>1, <3>1
    <3>2. CASE j # k
      <4>1. Judged(j) BY JudgedAll
      <4> QED BY <2>1, <3>2, <4>1 DEF Judged
    <3> QED BY <3>1, <3>2
  <2>4. AuthFollowsFile' BY <2>3 DEF AuthFollowsFile, Judged
  <2> QED BY <1>1, <2>1, <2>2, <2>4
<1>10. CASE Reload
  <2>1. \A k \in Kinds : ~req'[k].settled
    <3>1. \A k \in Kinds : req'[k] = Unsettled(req[k]) /\ req[k] \in Request
      BY <1>1, <1>10 DEF Reload, TypeOK
    <3> QED BY <3>1, UnsettledTyped
  <2>2. ServersFollow' BY <1>10 DEF Reload, ServersFollow
  <2> QED BY <1>1, <2>1, <2>2 DEF SettledRequests, AuthFollowsFile
<1>11. ASSUME NEW s \in {"api", "ui"}, UpdateConfig(s) PROVE AuthInv'
  <2>1. assigning # "none" /\ UNCHANGED <<file, req>> BY <1>11 DEF UpdateConfig
  <2>2. ServersFollow'
    <3>1. own \in [api : AnyToken, ui : AnyToken] BY <1>1 DEF TypeOK
    <3>2. CASE s = "api" BY <1>11, <3>1, <3>2 DEF UpdateConfig, Assigned, ServersFollow
    <3>3. CASE s = "ui" BY <1>11, <3>1, <3>3 DEF UpdateConfig, Assigned, ServersFollow
    <3> QED BY <3>2, <3>3
  <2>3. SettledRequests' BY <2>1 DEF SettledRequests
  <2>4. AuthFollowsFile' BY <2>1 DEF AuthFollowsFile
  <2> QED BY <1>1, <2>2, <2>3, <2>4
<1> QED BY <1>4, <1>5, <1>7, <1>8, <1>9, <1>10, <1>11 DEF Next

(* A request that no reload overlaps is refused exactly when its token     *)
(* fails one of the tokens of the configuration file.                      *)
THEOREM AuthFollowsFileHolds == Spec => []AuthFollowsFile
<1>1. AuthInv => AuthFollowsFile BY DEF AuthInv
<1> QED BY <1>1, AuthInit, AuthStep, PTL DEF Spec

-----------------------------------------------------------------------------
(* The spinners. *)
LEMMA SpinnersInit == Init => SpinnersTruthful
<1> SUFFICES ASSUME Init PROVE SpinnersTruthful OBVIOUS
<1>1. CASE page = "/scanners"
  <2>1. view.loading = [q \in Plugin |-> FALSE] BY <1>1 DEF Init, Hooks, Scanners
  <2>2. \A p \in Plugin : ~InFlight(p)
    BY <1>1, PluginsApart, KindsAre, NoRequestUnsettled DEF Init, SentByEffect, InFlight
  <2> QED BY <1>1, <2>1, <2>2 DEF SpinnersTruthful
<1>2. CASE page = "/"
  <2>1. "metrics" \in SentByEffect(page) /\ "metrics" \in Kinds BY <1>2, KindsAre DEF SentByEffect
  <2>2. InFlight("metrics") BY <2>1 DEF Init, InFlight, Rq
  <2> QED BY <1>2, <2>2 DEF SpinnersTruthful
<1> QED BY <1>1, <1>2 DEF SpinnersTruthful

LEMMA SpinnersStep == TypeInv /\ SpinnersTruthful /\ [Next]_vars => SpinnersTruthful'
<1> SUFFICES ASSUME TypeInv, SpinnersTruthful, [Next]_vars PROVE SpinnersTruthful' OBVIOUS
<1>1. TypeOK /\ TypeInv' BY TypeInvStep DEF TypeInv
<1>2. ASSUME UNCHANGED page, page \in {"/", "/scanners"} => view'.loading = view.loading,
             \A k \in Kinds : (req'[k].st = "none") <=> (req[k].st = "none")
      PROVE  SpinnersTruthful'
  BY <1>2, KindsAre DEF SpinnersTruthful, InFlight
<1>3. ASSUME NEW p \in Page, NEW t \in Entered, Mounts(p, t) PROVE SpinnersTruthful'
  <2>1. CASE p = "/scanners"
    <3>1. view'.loading = [q \in Plugin |-> FALSE] BY <1>3, <2>1 DEF Mounts, Hooks, Scanners
    <3>2. \A q \in Plugin : req'[q].st = "none"
      BY <1>3, <2>1, PluginsApart, KindsAre, NoRequestUnsettled DEF Mounts, Effect, SentByEffect
    <3> QED BY <1>3, <2>1, <3>1, <3>2 DEF SpinnersTruthful, InFlight, Mounts
  <2>2. CASE p = "/"
    <3>1. "metrics" \in SentByEffect(p) /\ "metrics" \in Kinds BY <2>2, KindsAre DEF SentByEffect
    <3>2. req'["metrics"].st = "sent" BY <1>3, <3>1 DEF Mounts, Effect, Fresh, Rq
    <3> QED BY <1>3, <2>2, <3>2 DEF SpinnersTruthful, InFlight, Mounts
  <2> QED BY <1>3, <2>1, <2>2 DEF SpinnersTruthful, Mounts
<1>4. CASE (\E p \in Page : Follow(p) \/ LoadPage(p)) \/ Logout
  BY <1>1, <1>3, <1>4, TokenFacts DEF Follow, LoadPage, Logout, TypeOK
<1>5. CASE OtherTab \/ ResultArrives \/ UNCHANGED vars
  BY <1>2, <1>5 DEF OtherTab, ResultArrives, vars, serverOnly
<1>6. CASE (\E t \in Entered : Enter(t)) \/ Save
  BY <1>2, <1>6 DEF Enter, Save, pageOnly
<1>7. CASE Render
  BY <1>2, <1>7 DEF Render, Dashboard, pageOnly
<1>8. ASSUME NEW p \in Plugin, Trigger(p) PROVE SpinnersTruthful'
  <2>1. page = "/scanners" /\ page' = page /\ p \in Kinds BY <1>8, KindsAre DEF Trigger, pageOnly
  <2>2. view \in [scanners : SUBSET Plugin, loading : [Plugin -> BOOLEAN]] BY <1>1, <2>1, ViewTyped
  <2>3. view'.loading = [view.loading EXCEPT ![p] = TRUE] BY <1>8 DEF Trigger, Scanners
  <2>4. req'[p].st = "sent" /\ \A k \in Kinds \ {p} : req'[k] = req[k]
    BY <1>1, <1>8, <2>1, SendTyped DEF Trigger
  <2>5. \A q \in Plugin : q \in Kinds BY KindsAre
  <2> QED BY <2>1, <2>2, <2>3, <2>4, <2>5 DEF SpinnersTruthful, InFlight
<1>9. CASE RefreshMetrics
  <2>1. page' = "/" /\ "refresh" \in Kinds BY <1>9, KindsAre DEF RefreshMetrics, pageOnly
  <2>2. req'["refresh"].st = "sent" BY <1>1, <1>9, <2>1, SendTyped DEF RefreshMetrics
  <2> QED BY <2>1, <2>2 DEF SpinnersTruthful, InFlight
<1>10. ASSUME NEW k \in Kinds, Arrive(k) PROVE SpinnersTruthful'
  <2>1. \A j \in Kinds : req'[j] = IF j = k THEN NoRequest ELSE req[j]
    BY <1>1, <1>10 DEF Arrive, TypeOK
  <2>2. page' = page /\ view' = Done(k) BY <1>10 DEF Arrive, pageOnly
  <2>3. k \in Asked(page) /\ page \in Page BY <1>10 DEF Arrive, TypeInv, TypeOK, OwnPage, InFlight
  <2>4. CASE k \in Plugin
    <3>1. page = "/scanners" BY <2>3, <2>4, AskedOnly
    <3>2. view \in [scanners : SUBSET Plugin, loading : [Plugin -> BOOLEAN]] BY <1>1, <3>1, ViewTyped
    <3>3. Done(k) = TriggerDone(k) BY <2>4, PluginsApart DEF Done
    <3>4. view'.loading = [view.loading EXCEPT ![k] = FALSE] BY <2>2, <3>3 DEF TriggerDone, Scanners
    <3>5. \A q \in Plugin : q \in Kinds BY KindsAre
    <3> QED BY <2>1, <2>2, <2>4, <3>1, <3>2, <3>4, <3>5, NoRequestUnsettled DEF SpinnersTruthful, InFlight
  <2>5. CASE k = "scanners"
    <3>1. page = "/scanners" BY <2>3, <2>5, AskedOnly
    <3>2. view'.loading = view.loading BY <2>2, <2>5 DEF Done, ScannersDone, Scanners
    <3>3. \A q \in Plugin : req'[q] = req[q] BY <2>1, <2>5, KindsAre, PluginsApart
    <3> QED BY <2>2, <3>1, <3>2, <3>3 DEF SpinnersTruthful, InFlight
  <2>6. CASE k = "findings"
    <3>1. page = "/findings" BY <2>3, <2>6, AskedOnly
    <3> QED BY <2>2, <3>1 DEF SpinnersTruthful
  <2>7. CASE k = "status"
    <3>1. page = "/" BY <2>3, <2>7, AskedOnly
    <3>2. view'.loading = view.loading BY <2>2, <2>7 DEF Done, StatusDone, Dashboard
    <3>3. req'["metrics"] = req["metrics"] /\ req'["refresh"] = req["refresh"] BY <2>1, <2>7, KindsAre
    <3> QED BY <2>2, <3>1, <3>2, <3>3 DEF SpinnersTruthful, InFlight
  <2>8. CASE k \in {"metrics", "refresh"}
    <3>1. page = "/" BY <2>3, <2>8, AskedOnly
    <3>2. view' = MetricsDone(req[k]) BY <2>2, <2>8 DEF Done
    <3>3. view'.loading = FALSE BY <3>2 DEF MetricsDone, Dashboard
    <3> QED BY <2>2, <3>1, <3>3 DEF SpinnersTruthful
  <2> QED BY <2>4, <2>5, <2>6, <2>7, <2>8, KindsAre
<1>11. ASSUME NEW k \in Kinds, InFlight(k), UNCHANGED <<page, view>>, req'[k].st # "none",
              \A j \in Kinds \ {k} : req'[j] = req[j]
       PROVE  SpinnersTruthful'
  BY <1>2, <1>11 DEF InFlight
<1>12. ASSUME NEW k \in Kinds,
              ProxyChecks(k) \/ ApiServes(k) \/ CountFindings(k) \/ NetworkFails(k)
       PROVE  SpinnersTruthful'
  <2>1. InFlight(k) /\ UNCHANGED <<page, view>>
    BY <1>12 DEF ProxyChecks, ApiServes, CountFindings, NetworkFails, serverOnly, InFlight
  <2>2. req'[k].st # "none" /\ \A j \in Kinds \ {k} : req'[j] = req[j]
    <3>1. req' = [req EXCEPT ![k] = req'[k]] /\ req'[k].st # "none"
      BY <1>1, <1>12 DEF ProxyChecks, ApiServes, CountFindings, NetworkFails,
         HandleTrigger, HandleRead, Moves, Replies, Rq, TypeOK
    <3> QED BY <1>1, <3>1 DEF TypeOK
  <2> QED BY <1>11, <2>1, <2>2
<1>13. CASE Reload
  <2>1. \A k \in Kinds : req'[k] = Unsettled(req[k]) BY <1>13 DEF Reload
  <2>2. \A k \in Kinds : req'[k].st = req[k].st BY <1>1, <2>1, UnsettledTyped DEF TypeOK
  <2> QED BY <1>2, <1>13, <2>2 DEF Reload, serverOnly
<1>14. ASSUME NEW s \in {"api", "ui"}, UpdateConfig(s) PROVE SpinnersTruthful'
  BY <1>2, <1>14 DEF UpdateConfig, serverOnly
<1> QED
  BY <1>4, <1>5, <1>6, <1>7, <1>8, <1>9, <1>10, <1>12, <1>13, <1>14 DEF Next

(* A spinner turns exactly while its request is on its way. *)
THEOREM SpinnersTruthfulHolds == Spec => []SpinnersTruthful
BY InitTyped, TypeInvStep, SpinnersInit, SpinnersStep, PTL DEF Spec

-----------------------------------------------------------------------------
(* What the pages show.  What the history lost does not come back, and     *)
(* whatever is counted for a request of the page is counted after the page *)
(* was opened.                                                             *)
Counted(k) ==
    req[k].st = "counting" \/ (req[k].st = "back" /\ req[k].code = "ok")

(* A body that was counted since the page was opened. *)
Recent(body) ==
    /\ \A i \in 1..Len(body) : body[i] \subseteq 1..results /\ Follows(body[i], openedWith)
    /\ Len(body) = 2 => Follows(body[2], body[1])

Counts == \A k \in Kinds : Counted(k) => Recent(req[k].body)

ShownRecorded == page = "/" /\ view.metrics # << >> => ResultsCount \subseteq 1..results

FreshInv == TypeInv /\ Counts /\ ShownRecorded /\ FreshAtOpening

LEMMA FreshInit == Init => FreshInv
<1> SUFFICES ASSUME Init PROVE FreshInv OBVIOUS
<1>1. TypeInv BY InitTyped
<1>2. \A k \in Kinds : ~Counted(k) BY DEF Init, Counted, NoRequest, Rq
<1>3. Counts BY <1>2 DEF Counts
<1>4. page = "/" => view.metrics = << >> BY DEF Init, Hooks, Dashboard
<1>5. page = "/findings" => view.findings = {} BY DEF Init, Hooks, Findings
<1> QED BY <1>1, <1>3, <1>4, <1>5 DEF FreshInv, FreshAtOpening, ShownRecorded, FindingsTable

(* The view stays as it was, or shows what is already shown. *)
LEMMA SameShown ==
  ASSUME TypeOK, FreshAtOpening, ShownRecorded, DaemonMoves, UNCHANGED <<page, openedWith>>,
         page = "/" => view'.metrics = view.metrics,
         page = "/findings" => view'.findings = view.findings
  PROVE  FreshAtOpening' /\ ShownRecorded'
<1>1. openedWith \subseteq 1..results BY DEF TypeOK
<1>2. CASE page = "/" /\ view.metrics # << >>
  <2>1. view'.metrics = view.metrics /\ page' = "/" BY <1>2
  <2>2. /\ ResultsCount \subseteq 1..results
        /\ openedWith \cap history \subseteq ResultsCount
        /\ ResultsCount \cap history \subseteq FindingsCard
    BY <1>2 DEF FreshAtOpening, ShownRecorded, Follows
  <2>3. ResultsCount' = ResultsCount /\ FindingsCard' = FindingsCard
    BY <2>1 DEF ResultsCount, FindingsCard
  <2>4. ResultsCount' \subseteq 1..results' BY <2>2, <2>3 DEF DaemonMoves
  <2>5. Follows(ResultsCount, openedWith)' BY <1>1, <2>2, <2>3 DEF DaemonMoves, Follows
  <2>6. Follows(FindingsCard, ResultsCount)' BY <2>2, <2>3 DEF DaemonMoves, Follows
  <2> QED BY <2>1, <2>4, <2>5, <2>6 DEF FreshAtOpening, ShownRecorded
<1>3. CASE page = "/findings" /\ FindingsTable # {}
  <2>1. openedWith \cap history \subseteq FindingsTable BY <1>3 DEF FreshAtOpening, Follows
  <2>2. FindingsTable' = FindingsTable BY <1>3 DEF FindingsTable
  <2>3. Follows(FindingsTable, openedWith)' BY <1>1, <2>1, <2>2 DEF DaemonMoves, Follows
  <2> QED BY <1>3, <2>3 DEF FreshAtOpening, ShownRecorded
<1>4. CASE ~(page = "/" /\ view.metrics # << >>) /\ ~(page = "/findings" /\ FindingsTable # {})
  <2>1. ~(page' = "/" /\ view'.metrics # << >>) /\ ~(page' = "/findings" /\ FindingsTable' # {})
    BY <1>4 DEF FindingsTable
  <2> QED BY <2>1 DEF FreshAtOpening, ShownRecorded
<1> QED BY <1>2, <1>3, <1>4

(* What was counted stays recent as long as the page is open. *)
LEMMA RecentStays ==
  ASSUME TypeOK, DaemonMoves, UNCHANGED openedWith, NEW body \in Seq(Results), Recent(body)
  PROVE  /\ \A i \in 1..Len(body) :
               body[i] \subseteq 1..results' /\ openedWith \cap history' \subseteq body[i]
         /\ Len(body) = 2 => body[1] \cap history' \subseteq body[2]
<1>1. openedWith \subseteq 1..results BY DEF TypeOK
<1>2. ASSUME NEW i \in 1..Len(body)
      PROVE  body[i] \subseteq 1..results' /\ openedWith \cap history' \subseteq body[i]
  BY <1>1 DEF Recent, Follows, DaemonMoves
<1>3. ASSUME Len(body) = 2 PROVE body[1] \cap history' \subseteq body[2]
  <2>1. 1 \in 1..Len(body) BY <1>3
  <2>2. body[1] \subseteq 1..results /\ body[1] \cap history \subseteq body[2]
    BY <1>3, <2>1 DEF Recent, Follows
  <2> QED BY <2>2 DEF DaemonMoves
<1> QED BY <1>2, <1>3

(* Recent in the next state, of a body in this one. *)
RecentNext(body) ==
    /\ \A i \in 1..Len(body) :
         body[i] \subseteq 1..results' /\ openedWith' \cap history' \subseteq body[i]
    /\ Len(body) = 2 => body[1] \cap history' \subseteq body[2]

LEMMA CountsNext ==
  ASSUME \A k \in Kinds : Counted(k)' => RecentNext(req'[k].body)
  PROVE  Counts'
BY DEF Counts, Recent, RecentNext, Follows

LEMMA FreshStep == FreshInv /\ [Next]_vars => FreshInv'
<1> SUFFICES ASSUME FreshInv, [Next]_vars PROVE FreshInv' OBVIOUS
<1> USE DEF FreshInv
<1>1. TypeOK /\ TypeInv' BY TypeInvStep DEF TypeInv
<1>2. /\ history \in Results /\ history \subseteq 1..results
      /\ \A k \in Kinds : req[k].body \in Seq(Results)
  BY <1>1, HistoryTyped DEF TypeOK, Request
<1>3. ASSUME DaemonMoves, UNCHANGED openedWith, NEW k \in Kinds, Counted(k)
      PROVE  RecentNext(req[k].body)
  <2>1. Recent(req[k].body) BY <1>3 DEF Counts
  <2> QED BY <1>1, <1>2, <1>3, <2>1, RecentStays DEF RecentNext
(* No reply is added. *)
<1>4. ASSUME UNCHANGED openedWith, DaemonMoves,
             \A k \in Kinds :
               \/ req'[k].st \in {"none", "sent", "proxied"}
               \/ req'[k].st = "back" /\ req'[k].code # "ok"
               \/ req'[k].st = req[k].st /\ req'[k].code = req[k].code /\ req'[k].body = req[k].body
      PROVE  Counts'
  <2>1. \A k \in Kinds : Counted(k)' => Counted(k) /\ req'[k].body = req[k].body
    BY <1>4 DEF Counted
  <2>2. ASSUME NEW k \in Kinds, Counted(k)' PROVE RecentNext(req'[k].body)
    <3>1. RecentNext(req[k].body) BY <1>3, <1>4, <2>1, <2>2
    <3> QED BY <2>1, <2>2, <3>1
  <2> QED BY <2>2, CountsNext
<1>5. ASSUME NEW p \in Page, NEW t \in Entered, Mounts(p, t) PROVE FreshInv'
  <2>1. \A k \in Kinds : req'[k].st \in {"none", "sent"}
    BY <1>5, EffectTyped, FreshTyped, NoRequestTyped DEF Mounts
  <2>2. Counts' BY <2>1 DEF Counts, Counted
  <2>3. page' = p /\ view' = Hooks(p, t) BY <1>5 DEF Mounts
  <2>4. page' = "/" => view'.metrics = << >> BY <2>3 DEF Hooks, Dashboard
  <2>5. page' = "/findings" => view'.findings = {} BY <2>3 DEF Hooks, Findings
  <2> QED BY <1>1, <2>2, <2>4, <2>5 DEF FreshAtOpening, ShownRecorded, FindingsTable
<1>6. CASE (\E p \in Page : Follow(p) \/ LoadPage(p)) \/ Logout
  BY <1>1, <1>5, <1>6, TokenFacts DEF Follow, LoadPage, Logout, TypeOK
<1>7. CASE OtherTab \/ UNCHANGED vars
  <2>1. UNCHANGED <<page, view, openedWith, results, history, req>> BY <1>7 DEF OtherTab, vars
  <2>2. DaemonMoves BY <1>1, <2>1, DaemonStays
  <2> QED BY <1>1, <1>4, <2>1, <2>2, SameShown
<1>8. CASE (\E t \in Entered : Enter(t)) \/ Save
  <2>1. page = "/settings" /\ UNCHANGED <<page, openedWith, results, history, req>>
    BY <1>8 DEF Enter, Save, pageOnly
  <2>2. DaemonMoves BY <1>1, <2>1, DaemonStays
  <2> QED BY <1>1, <1>4, <2>1, <2>2, SameShown
<1>9. CASE Render
  <2>1. /\ UNCHANGED <<page, openedWith, results, history, req>>
        /\ page = "/" /\ view'.metrics = view.metrics
    BY <1>9 DEF Render, Dashboard, pageOnly
  <2>2. DaemonMoves BY <1>1, <2>1, DaemonStays
  <2> QED BY <1>1, <1>4, <2>1, <2>2, SameShown
<1>10. ASSUME NEW k \in Kinds, Send(k), UNCHANGED <<page, openedWith, results, history>>,
              page \in {"/", "/scanners"}, page = "/" => view'.metrics = view.metrics
       PROVE  FreshInv'
  <2>1. \A j \in Kinds : req'[j] = req[j] \/ req'[j].st = "sent" BY <1>1, <1>10, SendTyped
  <2>2. DaemonMoves BY <1>1, <1>10, DaemonStays
  <2> QED BY <1>1, <1>4, <1>10, <2>1, <2>2, SameShown
<1>11. CASE (\E p \in Plugin : Trigger(p)) \/ RefreshMetrics
  <2>1. ASSUME NEW p \in Plugin, Trigger(p) PROVE FreshInv'
    <3>1. p \in Kinds /\ Send(p) /\ page = "/scanners" BY <2>1, KindsAre DEF Trigger
    <3>2. UNCHANGED <<page, openedWith, results, history>> BY <2>1 DEF Trigger, pageOnly
    <3> QED BY <1>10, <3>1, <3>2
  <2>2. CASE RefreshMetrics
    <3>1. "refresh" \in Kinds /\ Send("refresh") /\ page = "/" BY <2>2, KindsAre DEF RefreshMetrics
    <3>2. UNCHANGED <<page, openedWith, results, history>> BY <2>2 DEF RefreshMetrics, pageOnly
    <3>3. view'.metrics = view.metrics BY <2>2 DEF RefreshMetrics, Dashboard
    <3> QED BY <1>10, <3>1, <3>2, <3>3
  <2> QED BY <1>11, <2>1, <2>2
<1>12. ASSUME NEW k \in Kinds, Arrive(k) PROVE FreshInv'
  <2>1. \A j \in Kinds : req'[j] \in {req[j], NoRequest} BY <1>1, <1>12 DEF Arrive, TypeOK
  <2>2. UNCHANGED <<page, openedWith, results, history>> /\ view' = Done(k)
    BY <1>12 DEF Arrive, pageOnly
  <2>3. DaemonMoves BY <1>1, <2>2, DaemonStays
  <2>4. Counts' BY <1>4, <2>1, <2>2, <2>3, NoRequestTyped
  <2>5. k \in Asked(page) /\ page \in Page
    BY <1>1, <1>12 DEF Arrive, TypeInv, OwnPage, InFlight, TypeOK
  <2>6. CASE k \in {"metrics", "refresh"} /\ req[k].code = "ok"
    <3> DEFINE body == req[k].body
    <3>1. page = "/" BY <2>5, <2>6, AskedOnly
    <3>2. Len(body) = 2 /\ Counted(k) BY <1>12, <2>6 DEF Arrive, TypeInv, Numbers, Counted
    <3>3. RecentNext(body) BY <1>3, <2>2, <2>3, <3>2
    <3>4. view'.metrics = body BY <2>2, <2>6 DEF Done, MetricsDone, Dashboard
    <3>5. ResultsCount' = body[1] /\ FindingsCard' = body[2]
      BY <3>4 DEF ResultsCount, FindingsCard
    <3> HIDE DEF body
    <3>6. 1 \in 1..Len(body) BY <3>2
    <3>7. /\ body[1] \subseteq 1..results' /\ openedWith' \cap history' \subseteq body[1]
          /\ body[1] \cap history' \subseteq body[2]
      BY <3>2, <3>3, <3>6 DEF RecentNext
    <3>8. ResultsCount' \subseteq 1..results' BY <3>5, <3>7
    <3>9. Follows(ResultsCount, openedWith)' /\ Follows(FindingsCard, ResultsCount)'
      BY <3>5, <3>7 DEF Follows
    <3> QED BY <1>1, <2>2, <2>4, <3>1, <3>8, <3>9 DEF FreshAtOpening, ShownRecorded
  <2>7. CASE k \in {"metrics", "refresh", "status"} /\ ~(k # "status" /\ req[k].code = "ok")
    <3>1. page = "/" BY <2>5, <2>7, AskedOnly
    <3>2. view'.metrics = view.metrics
      BY <2>2, <2>7 DEF Done, StatusDone, MetricsDone, Dashboard
    <3> QED BY <1>1, <2>2, <2>3, <2>4, <3>1, <3>2, SameShown
  <2>8. CASE k = "findings"
    <3>1. page = "/findings" BY <2>5, <2>8, AskedOnly
    <3>2. CASE req[k].code = "ok"
      <4>1. Len(req[k].body) = 1 /\ Counted(k)
        BY <1>12, <2>8, <3>2 DEF Arrive, TypeInv, Numbers, Counted
      <4>2. RecentNext(req[k].body) BY <1>3, <2>2, <2>3, <4>1
      <4>3. openedWith' \cap history' \subseteq req[k].body[1]
        <5>1. 1 \in 1..Len(req[k].body) BY <4>1
        <5> QED BY <4>2, <5>1 DEF RecentNext
      <4>4. FindingsTable' = req[k].body[1]
        BY <2>2, <2>8, <3>2 DEF Done, FindingsDone, Findings, FindingsTable
      <4>5. Follows(FindingsTable, openedWith)' BY <4>3, <4>4 DEF Follows
      <4> QED BY <1>1, <2>2, <2>4, <3>1, <4>5 DEF FreshAtOpening, ShownRecorded
    <3>3. CASE req[k].code # "ok"
      <4>1. view' = view BY <2>2, <2>8, <3>3 DEF Done, FindingsDone
      <4> QED BY <1>1, <2>2, <2>3, <2>4, <4>1, SameShown
    <3> QED BY <3>2, <3>3
  <2>9. CASE k \in {"scanners"} \cup Plugin
    <3>1. page = "/scanners" BY <2>5, <2>9, AskedOnly
    <3> QED BY <1>1, <2>2, <2>3, <2>4, <3>1, SameShown
  <2> QED BY <2>6, <2>7, <2>8, <2>9, KindsAre
(* A reply or a count of one request. *)
<1>13. ASSUME NEW k \in Kinds, \A j \in Kinds \ {k} : req'[j] = req[j],
              UNCHANGED <<page, view, openedWith>>, DaemonMoves,
              Counted(k)' => RecentNext(req'[k].body)
       PROVE  FreshInv'
  <2>1. ASSUME NEW j \in Kinds \ {k}, Counted(j)' PROVE RecentNext(req'[j].body)
    <3>1. req'[j] = req[j] /\ Counted(j) BY <1>13, <2>1 DEF Counted
    <3>2. RecentNext(req[j].body) BY <1>3, <1>13, <3>1
    <3> QED BY <3>1, <3>2
  <2>2. Counts' BY <1>13, <2>1, CountsNext
  <2> QED BY <1>1, <1>13, <2>2, SameShown
<1>14. ASSUME NEW k \in Kinds,
              ProxyChecks(k) \/ ApiServes(k) \/ CountFindings(k) \/ NetworkFails(k)
       PROVE  FreshInv'
  <2>1. UNCHANGED <<page, view, openedWith>>
    BY <1>14 DEF ProxyChecks, ApiServes, CountFindings, NetworkFails, serverOnly
  <2>2. DaemonMoves BY <1>14, ServerTypeStep DEF TypeInv
  <2>3. "unauthorized" \in Codes /\ "broken" \in Codes /\ "ok" \in Codes BY DEF Codes
  <2>4. RecentNext(<< >>) BY DEF RecentNext
  <2>5. ASSUME NEW code \in Codes, Replies(k, code, << >>) PROVE FreshInv'
    <3>1. req'[k].body = << >> /\ \A j \in Kinds \ {k} : req'[j] = req[j]
      BY <1>1, <2>5, EmptyBody, RepliesTyped
    <3> QED BY <1>13, <2>1, <2>2, <2>4, <3>1
  <2>6. <<history>> \in Seq(Results) BY <1>2
(* What the history holds when it is listed. *)
  <2>7. ASSUME UNCHANGED <<results, history>> PROVE RecentNext(<<history>>)
    <3>1. history \subseteq 1..results' /\ openedWith' \cap history' \subseteq history BY <1>2, <2>7
    <3> DEFINE body == <<history>>
    <3>2. Len(body) = 1 /\ body[1] = history OBVIOUS
    <3>3. \A i \in 1..Len(body) : i = 1 BY <3>2
    <3> HIDE DEF body
    <3>4. RecentNext(body) BY <3>1, <3>2, <3>3 DEF RecentNext
    <3> QED BY <3>4 DEF body
  <2>8. CASE ProxyChecks(k)
    <3>1. Moves(k, "proxied", << >>) \/ Replies(k, "unauthorized", << >>) BY <2>8 DEF ProxyChecks
    <3>2. CASE Moves(k, "proxied", << >>)
      <4>1. req'[k].body = << >> /\ \A j \in Kinds \ {k} : req'[j] = req[j]
        BY <1>1, <3>2, EmptyBody, MovesTyped
      <4> QED BY <1>13, <2>1, <2>2, <2>4, <4>1
    <3> QED BY <2>3, <2>5, <3>1, <3>2
  <2>9. CASE ApiServes(k)
    <3>1. CASE Replies(k, "unauthorized", << >>) BY <2>3, <2>5, <3>1
    <3>2. CASE HandleTrigger(k)
      <4>1. PICK code \in Codes : Replies(k, code, << >>) BY <1>1, <3>2, HandleTriggerTyped
      <4> QED BY <2>5, <4>1
    <3>3. CASE HandleRead(k)
      <4>1. RecentNext(<<history>>) BY <1>1, <2>7, <3>3, HandleReadTyped
      <4>2. CASE Replies(k, "ok", << >>) BY <2>3, <2>5, <4>2
      <4>3. CASE Replies(k, "ok", <<history>>)
        <5>1. req'[k].body = <<history>> /\ \A j \in Kinds \ {k} : req'[j] = req[j]
          BY <1>1, <2>3, <2>6, <4>3, RepliesTyped
        <5> QED BY <1>13, <2>1, <2>2, <4>1, <5>1
      <4>4. CASE Moves(k, "counting", <<history>>)
        <5>1. req'[k].body = <<history>> /\ \A j \in Kinds \ {k} : req'[j] = req[j]
          BY <1>1, <2>6, <4>4, MovesTyped
        <5> QED BY <1>13, <2>1, <2>2, <4>1, <5>1
      <4> QED BY <1>1, <3>3, <4>2, <4>3, <4>4, HandleReadTyped
    <3> QED BY <2>9, <3>1, <3>2, <3>3, ApiServesMoves
  <2>10. CASE CountFindings(k)
    <3> DEFINE body == Append(req[k].body, history)
    <3>1. UNCHANGED <<results, history>> /\ Replies(k, "ok", body) /\ Counted(k)
      BY <2>10 DEF CountFindings, Counted
    <3>2. Len(req[k].body) = 1 BY <2>10 DEF CountFindings, TypeInv, Numbers
    <3>3. /\ body \in Seq(Results) /\ Len(body) = 2
          /\ body[1] = req[k].body[1] /\ body[2] = history
      <4>1. /\ body \in Seq(Results) /\ Len(body) = Len(req[k].body) + 1
            /\ \A i \in 1..Len(req[k].body) : body[i] = req[k].body[i]
            /\ body[Len(req[k].body) + 1] = history
        BY <1>2, AppendTyped
      <4> HIDE DEF body
      <4> QED BY <3>2, <4>1
    <3>4. RecentNext(req[k].body) BY <1>3, <2>1, <2>2, <3>1
    <3>5. req[k].body[1] \subseteq 1..results' /\ openedWith' \cap history' \subseteq req[k].body[1]
      <4>1. 1 \in 1..Len(req[k].body) BY <3>2
      <4> QED BY <3>4, <4>1 DEF RecentNext
    <3> HIDE DEF body
    <3>6. req'[k].body = body /\ \A j \in Kinds \ {k} : req'[j] = req[j]
      BY <1>1, <2>3, <3>1, <3>3, RepliesTyped
    <3>7. RecentNext(body)
      <4>1. \A i \in 1..Len(body) : i = 1 \/ i = 2 BY <3>3
      <4>2. body[1] \subseteq 1..results' /\ openedWith' \cap history' \subseteq body[1]
        BY <3>3, <3>5
      <4>3. body[2] \subseteq 1..results' /\ openedWith' \cap history' \subseteq body[2]
        BY <1>2, <3>1, <3>3
      <4>4. body[1] \cap history' \subseteq body[2] BY <3>1, <3>3
      <4> QED BY <4>1, <4>2, <4>3, <4>4 DEF RecentNext
    <3> QED BY <1>13, <2>1, <2>2, <3>6, <3>7
  <2>11. CASE NetworkFails(k)
    BY <2>3, <2>5, <2>11 DEF NetworkFails
  <2> QED BY <1>14, <2>8, <2>9, <2>10, <2>11
<1>15. CASE ResultArrives
  <2>1. UNCHANGED <<page, view, openedWith, req>> /\ DaemonMoves
    BY <1>1, <1>15, AddMoves DEF ResultArrives, serverOnly
  <2>2. Counts' BY <1>4, <2>1
  <2> QED BY <1>1, <2>1, <2>2, SameShown
<1>16. CASE Reload
  <2>1. UNCHANGED <<page, view, openedWith, results, history>> BY <1>16 DEF Reload, serverOnly
  <2>2. DaemonMoves BY <1>1, <2>1, DaemonStays
  <2>3. \A k \in Kinds : req'[k] = Unsettled(req[k]) /\ req[k] \in Request
    BY <1>1, <1>16 DEF Reload, TypeOK
  <2>4. Counts' BY <1>4, <2>1, <2>2, <2>3, UnsettledTyped
  <2> QED BY <1>1, <2>1, <2>2, <2>4, SameShown
<1>17. ASSUME NEW s \in {"api", "ui"}, UpdateConfig(s) PROVE FreshInv'
  <2>1. UNCHANGED <<page, view, openedWith, results, history, req>>
    BY <1>17 DEF UpdateConfig, serverOnly
  <2>2. DaemonMoves BY <1>1, <2>1, DaemonStays
  <2> QED BY <1>1, <1>4, <2>1, <2>2, SameShown
<1> QED
  BY <1>6, <1>7, <1>8, <1>9, <1>11, <1>12, <1>14, <1>15, <1>16, <1>17 DEF Next

(* A page misses nothing that the daemon had when it was opened and has    *)
(* still, although results arrive all the time and push others out.        *)
THEOREM FreshAtOpeningHolds == Spec => []FreshAtOpening
<1>1. FreshInv => FreshAtOpening BY DEF FreshInv
<1> QED BY <1>1, FreshInit, FreshStep, PTL DEF Spec
=============================================================================
