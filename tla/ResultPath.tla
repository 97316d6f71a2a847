----------------------------- MODULE ResultPath -----------------------------
(***************************************************************************)
(* The way of a result through onResult (internal/daemon/runner.go:135-    *)
(* 179): drift detection and baseline (Baseline), rules, the correlator of *)
(* internal/detection/correlation.go, the result cache of internal/state,  *)
(* and the hand-over of its findings to the alert engine (AlertEngine).    *)
(*                                                                         *)
(* The sources deliver results of one plugin, step by step; what other     *)
(* scanners report reaches the correlator and the cache at any time.  Time *)
(* is the age of what happened, up to Horizon, where it no longer counts.  *)
(* Saving a result (Storage) changes nothing that is read on the way.      *)
(***************************************************************************)
EXTENDS Baseline, Sequences, FiniteSets

CONSTANTS
    Plugin,          \* the scanner that the sources run
    Other,           \* the other scanners
    Configs,         \* correlation settings of configuration files, 0 if unset
    DefaultWindow,   \* 5 minutes
    HistoryLimit,    \* 50
    Horizon          \* the longest window or cooldown

Scanner == Other \cup {Plugin}

Setting == [window : 0..Horizon, minScan : Nat, cooldown : 0..Horizon]

ASSUME ResultPathAssumption ==
    /\ Plugin \notin Other /\ IsFiniteSet(Other)
    /\ Configs # {} /\ Configs \subseteq Setting
    /\ Horizon \in Nat /\ DefaultWindow \in 1..Horizon
    /\ HistoryLimit \in Nat \ {0}

VARIABLES
    path,         \* what each source is doing in onResult
    correlator,   \* the correlator in use
    history,      \* ResultCache.history: results of the plugin by number
    reported,     \* ages of the last report of each scanner (observer)
    raised        \* age of the last correlation finding (observer)

pathVars == <<path, correlator, history, reported, raised>>
vars == <<serial, db, source, handled, streak, delivered,
          path, correlator, history, reported, raised>>

(* A source on its way: the number and the findings of its result, whether *)
(* a reload has come since it began to look for the correlator, and how    *)
(* many results have entered the cache after its own.                      *)
Way == [stage : {"idle", "metrics", "correlate", "cache", "send"},
        number : 0..MaxResults, findings : SUBSET {"own", "drift", "multi"},
        late : BOOLEAN, passed : 0..HistoryLimit]

On(stage, number, findings, late, passed) ==
    [stage |-> stage, number |-> number, findings |-> findings, late |-> late,
     passed |-> passed]

Resting == On("idle", 0, {}, FALSE, 0)

(* NewCorrelator with its defaults; nothing was triggered for ages. *)
NewCorrelator(c) ==
    LET window == IF c.window = 0 THEN DefaultWindow ELSE c.window
    IN  [window |-> window,
         minScan |-> IF c.minScan < 1 THEN 2 ELSE c.minScan,
         cooldown |-> IF c.cooldown = 0 THEN window ELSE c.cooldown,
         events |-> {}, lastTriggered |-> Horizon]

(* Events of one scanner and age count once. *)
Event == [scanner : Scanner, age : 0..Horizon]
Correlator ==
    [window : 1..Horizon, minScan : Nat \ {0}, cooldown : 1..Horizon,
     events : SUBSET Event, lastTriggered : 0..Horizon]

TypeOK ==
    /\ BaselineTypeOK
    /\ path \in [Source -> Way] /\ correlator \in Correlator
    /\ history \in Seq(0..MaxResults) /\ Len(history) <= HistoryLimit
    /\ reported \in [Scanner -> 0..Horizon] /\ raised \in 0..Horizon

Fresh ==
    /\ path' = [s \in Source |-> Resting]
    /\ history' = <<>>

(* The observers start over with every correlator. *)
NewCorrelatorInUse ==
    /\ \E c \in Configs : correlator' = NewCorrelator(c)
    /\ reported' = [t \in Scanner |-> Horizon] /\ raised' = Horizon

Init ==
    /\ BaselineInit
    /\ path = [s \in Source |-> Resting] /\ history = <<>>
    /\ \E c \in Configs : correlator = NewCorrelator(c)
    /\ reported = [t \in Scanner |-> Horizon] /\ raised = Horizon

-----------------------------------------------------------------------------
Goes(s, stage, findings) ==
    path' = [path EXCEPT ![s] = On(stage, path[s].number, findings, FALSE, path[s].passed)]

Receive(s, outlier) ==
    /\ path[s].stage = "idle"
    /\ serial => \A t \in Source : path[t].stage = "idle"
    /\ Deliver(s, outlier)
    /\ path' = [path EXCEPT ![s] = On("metrics", delivered', {}, FALSE, 0)]
    /\ UNCHANGED <<correlator, history, reported, raised>>

(* The loop over the values, for the one that has a baseline here. *)
Measure(s) ==
    /\ \/ (DriftGet(s) \/ Judge(s) \/ UpdateGet(s)) /\ UNCHANGED path
       \/ DriftPut(s) /\ Goes(s, "metrics", IF ReportsDrift(s) THEN {"drift"} ELSE {})
       \/ UpdatePut(s) /\ Goes(s, "correlate", path[s].findings)
    /\ UNCHANGED <<correlator, history, reported, raised>>

(* Mutant: an event as old as the window is kept. *)
KeptTooLong(events, window) == {e \in events : e.age <= window}

(* prune. *)
Kept(events, window) == {e \in events : e.age < window}

Heard(c, t) == Kept(c.events, c.window) \cup {[scanner |-> t, age |-> 0]}

Triggers(c, t) ==
    /\ Cardinality({e.scanner : e \in Heard(c, t)}) >= c.minScan
    /\ c.lastTriggered >= c.cooldown

(* Correlator.Add. *)
Added(c, t) ==
    [c EXCEPT !.events = Heard(c, t),
              !.lastTriggered = IF Triggers(c, t) THEN 0 ELSE @]

Reports(t) ==
    /\ correlator' = Added(correlator, t)
    /\ reported' = [reported EXCEPT ![t] = 0]
    /\ raised' = IF Triggers(correlator, t) THEN 0 ELSE raised

(* The findings of the plugin and of the rules, with what was found before. *)
Found(s, own) == path[s].findings \cup (IF own THEN {"own"} ELSE {})

(* A result without findings is not reported.  *)
Correlate(s, own) ==
    /\ path[s].stage = "correlate"
    /\ IF Found(s, own) = {}
       THEN Goes(s, "cache", {}) /\ UNCHANGED <<correlator, reported, raised>>
       ELSE /\ Goes(s, "cache", Found(s, own) \cup
                       (IF Triggers(correlator, Plugin) THEN {"multi"} ELSE {}))
            /\ Reports(Plugin)
    /\ UNCHANGED <<baselineVars, history>>

(* onResult reads the variable that a reload assigns: the source may still *)
(* have the correlator before, whatever that one finds.                    *)
CorrelateLate(s, own, multi) ==
    /\ path[s].stage = "correlate" /\ path[s].late /\ Found(s, own) # {}
    /\ Goes(s, "cache", Found(s, own) \cup (IF multi THEN {"multi"} ELSE {}))
    /\ UNCHANGED <<baselineVars, correlator, history, reported, raised>>

OtherReports(t) == Reports(t) /\ UNCHANGED <<baselineVars, path, history>>

(* Mutant: the first results are kept, not the last. *)
TrimmedEarly(h) == IF Len(h) > HistoryLimit THEN SubSeq(h, 1, HistoryLimit) ELSE h

(* ResultCache.Add to the history; latest, the other half of the cache, is *)
(* the last result of each scanner.                                        *)
Trimmed(h) ==
    IF Len(h) > HistoryLimit THEN SubSeq(h, Len(h) - HistoryLimit + 1, Len(h)) ELSE h

Passed(w) ==
    IF w.stage = "send" /\ w.passed < HistoryLimit
    THEN On(w.stage, w.number, w.findings, w.late, w.passed + 1) ELSE w

Cache(s) ==
    /\ path[s].stage = "cache"
    /\ history' = Trimmed(Append(history, path[s].number))
    /\ path' = [[t \in Source |-> Passed(path[t])]
                  EXCEPT ![s] = On("send", path[s].number, path[s].findings, FALSE, 0)]
    /\ UNCHANGED <<baselineVars, correlator, reported, raised>>

OtherCached ==
    /\ history' = Trimmed(Append(history, 0))
    /\ path' = [t \in Source |-> Passed(path[t])]
    /\ UNCHANGED <<baselineVars, correlator, reported, raised>>

(* One alert for each finding, if there is any. *)
Send(s) ==
    /\ path[s].stage = "send"
    /\ path' = [path EXCEPT ![s] = Resting]
    /\ UNCHANGED <<baselineVars, correlator, history, reported, raised>>

Reload ==
    /\ NewCorrelatorInUse
    /\ path' = [s \in Source |-> IF path[s].stage = "correlate"
                                 THEN [path[s] EXCEPT !.late = TRUE] ELSE path[s]]
    /\ UNCHANGED <<baselineVars, history>>

Restart == Crash /\ Fresh /\ NewCorrelatorInUse

Older(age) == IF age < Horizon THEN age + 1 ELSE age

Tick ==
    /\ correlator' = [correlator EXCEPT
         !.events = {[scanner |-> e.scanner, age |-> Older(e.age)] : e \in @},
         !.lastTriggered = Older(@)]
    /\ reported' = [t \in Scanner |-> Older(reported[t])] /\ raised' = Older(raised)
    /\ UNCHANGED <<baselineVars, path, history>>

Next ==
    \/ \E s \in Source, b, c \in BOOLEAN :
         Receive(s, b) \/ Correlate(s, b) \/ CorrelateLate(s, b, c)
    \/ \E s \in Source : Measure(s) \/ Cache(s) \/ Send(s)
    \/ \E t \in Other : OtherReports(t)
    \/ OtherCached \/ Reload \/ Restart \/ Tick

Spec == Init /\ [][Next]_vars

-----------------------------------------------------------------------------
(* Properties. *)

(* RUNBOOK.md:28, "Correlation triggers when multiple scanners report      *)
(* findings within correlation_window": a result gets the finding exactly  *)
(* when its scanner and those that reported within the window are enough,  *)
(* and the last such finding is out of the cooldown.                       *)
CorrelationTriggers ==
    [][\A s \in Source, own \in BOOLEAN :
         Correlate(s, own) /\ Found(s, own) # {} =>
           ("multi" \in path'[s].findings <=>
              /\ Cardinality({t \in Other : reported[t] < correlator.window}) + 1
                   >= correlator.minScan
              /\ raised >= correlator.cooldown)]_vars

(* What an alert is sent for can be looked up in the history and the       *)
(* findings (INCIDENT_RESPONSE.md:7), unless as many results as it holds   *)
(* came in between; and with results one at a time a drift is alerted      *)
(* exactly for the results that end a long enough row of anomalies.        *)
AlertsOnRecord ==
    [][\A s \in Source : Send(s) =>
         /\ (\E i \in DOMAIN history : history[i] = path[s].number)
              \/ path[s].passed = HistoryLimit
         /\ serial => ("drift" \in path[s].findings <=> streak >= Consecutive)]_vars
=============================================================================
