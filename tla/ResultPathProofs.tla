-------------------------- MODULE ResultPathProofs --------------------------
(***************************************************************************)
(* Proofs about ResultPath: what BaselineProofs shows of a baseline holds  *)
(* on the whole way of a result; the correlation findings are those that   *)
(* the last reports justify; alerts are on record and drifts are alerted.  *)
(***************************************************************************)
EXTENDS ResultPath, BaselineProofs, FiniteSetTheorems, SequenceTheorems

-----------------------------------------------------------------------------
(* Composition: each step of ResultPath is one of Baseline, or leaves it   *)
(* as it is.                                                               *)
LEMMA BaselineStep == [Next]_vars => [BaselineNext]_baselineVars
<1> SUFFICES ASSUME [Next]_vars PROVE [BaselineNext]_baselineVars
  OBVIOUS
<1>1. ASSUME NEW s \in Source, NEW b \in BOOLEAN, Receive(s, b) PROVE BaselineNext
  BY <1>1 DEF Receive, BaselineNext, SourceStep
<1>2. ASSUME NEW s \in Source, Measure(s) PROVE BaselineNext
  BY <1>2 DEF Measure, BaselineNext, SourceStep
<1>3. CASE Restart
  BY <1>3 DEF Restart, BaselineNext
<1>4. ASSUME NEW s \in Source, NEW b \in BOOLEAN, NEW c \in BOOLEAN,
             Correlate(s, b) \/ CorrelateLate(s, b, c)
      PROVE  UNCHANGED baselineVars
  BY <1>4 DEF Correlate, CorrelateLate
<1>5. ASSUME NEW s \in Source, Cache(s) \/ Send(s) PROVE UNCHANGED baselineVars
  BY <1>5 DEF Cache, Send
<1>6. CASE (\E t \in Other : OtherReports(t)) \/ OtherCached \/ Reload \/ Tick
  BY <1>6 DEF OtherReports, OtherCached, Reload, Tick
<1>7. CASE UNCHANGED vars
  BY <1>7 DEF vars, baselineVars
<1> QED
  BY <1>1, <1>2, <1>3, <1>4, <1>5, <1>6, <1>7 DEF Next

(* The whole way of a result implements Baseline: its theorems hold here.  *)
THEOREM PathImplementsBaseline == Spec => BaselineSpec
<1>1. Init => BaselineInit BY DEF Init
<1> QED BY <1>1, BaselineStep, PTL DEF Spec, BaselineSpec

(* The baseline is whole, and without concurrency complete, whatever the   *)
(* rest of onResult, the reloads and the restarts do.                      *)
THEOREM PathKeepsBaseline ==
  Spec => [](SamplesFollowCount /\ NoSampleInvented /\ NoSampleLost) /\ DriftAfterRow
BY PathImplementsBaseline, SamplesFollowCountHolds, NoSampleInventedHolds,
   NoSampleLostHolds, DriftAfterRowHolds, PTL

-----------------------------------------------------------------------------
(* The correlator: what is left of its events is what was reported within  *)
(* the window.                                                             *)
USE ResultPathAssumption, BaselineAssumption DEF ResultPathAssumption, BaselineAssumption

Within(t, n) == \E e \in correlator.events : e.scanner = t /\ e.age <= n

CorrelatorInv ==
    /\ correlator \in Correlator
    /\ reported \in [Scanner -> 0..Horizon] /\ raised \in 0..Horizon
    /\ correlator.lastTriggered = raised
    /\ \A t \in Scanner, n \in 0..Horizon :
         n < correlator.window => (Within(t, n) <=> reported[t] <= n)

LEMMA NewCorrelatorTyped ==
  ASSUME NEW c \in Configs
  PROVE  /\ NewCorrelator(c) \in Correlator
         /\ NewCorrelator(c).events = {} /\ NewCorrelator(c).lastTriggered = Horizon
<1>1. c.window \in 0..Horizon /\ c.minScan \in Nat /\ c.cooldown \in 0..Horizon
  BY DEF Setting
<1> QED BY <1>1 DEF NewCorrelator, Correlator

LEMMA NewCorrelatorInv ==
  NewCorrelatorInUse => CorrelatorInv'
<1> SUFFICES ASSUME NewCorrelatorInUse PROVE CorrelatorInv' OBVIOUS
<1>1. PICK c \in Configs : correlator' = NewCorrelator(c) BY DEF NewCorrelatorInUse
<1>2. reported' = [t \in Scanner |-> Horizon] /\ raised' = Horizon BY DEF NewCorrelatorInUse
<1>3. correlator' \in Correlator /\ correlator'.events = {} /\ correlator'.lastTriggered = Horizon
  BY <1>1, NewCorrelatorTyped
<1>4. correlator'.window \in 1..Horizon BY <1>3 DEF Correlator
<1> QED BY <1>2, <1>3, <1>4 DEF CorrelatorInv, Within

LEMMA CorrelatorInit == Init => CorrelatorInv
<1> SUFFICES ASSUME Init PROVE CorrelatorInv OBVIOUS
<1>1. PICK c \in Configs : correlator = NewCorrelator(c) BY DEF Init
<1>2. reported = [t \in Scanner |-> Horizon] /\ raised = Horizon BY DEF Init
<1>3. correlator \in Correlator /\ correlator.events = {} /\ correlator.lastTriggered = Horizon
  BY <1>1, NewCorrelatorTyped
<1>4. correlator.window \in 1..Horizon BY <1>3 DEF Correlator
<1> QED BY <1>2, <1>3, <1>4 DEF CorrelatorInv, Within

LEMMA HeardTyped ==
  ASSUME NEW c \in Correlator, NEW t \in Scanner
  PROVE  /\ Heard(c, t) \in SUBSET Event
         /\ \A u \in Scanner, n \in 0..Horizon : n < c.window =>
              ((\E e \in Heard(c, t) : e.scanner = u /\ e.age <= n) <=>
               (u = t \/ \E e \in c.events : e.scanner = u /\ e.age <= n))
<1> DEFINE new == [scanner |-> t, age |-> 0]
<1>1. new \in Event /\ new.scanner = t /\ new.age = 0 BY DEF Event
<1>2. c.events \in SUBSET Event /\ c.window \in 1..Horizon BY DEF Correlator
<1>3. Heard(c, t) = {e \in c.events : e.age < c.window} \cup {new} BY DEF Heard, Kept
<1>4. \A e \in c.events : e.age \in 0..Horizon BY <1>2 DEF Event
<1> HIDE DEF new
<1>5. Heard(c, t) \in SUBSET Event BY <1>1, <1>2, <1>3
<1>6. ASSUME NEW u \in Scanner, NEW n \in 0..Horizon, n < c.window
      PROVE  (\E e \in Heard(c, t) : e.scanner = u /\ e.age <= n) <=>
             (u = t \/ \E e \in c.events : e.scanner = u /\ e.age <= n)
  <2>1. ASSUME NEW e \in Heard(c, t), e.scanner = u, e.age <= n
        PROVE  u = t \/ \E d \in c.events : d.scanner = u /\ d.age <= n
    BY <1>1, <1>3, <2>1
  <2>2. CASE u = t BY <1>1, <1>3, <2>2
  <2>3. ASSUME NEW e \in c.events, e.scanner = u, e.age <= n PROVE e \in Heard(c, t)
    BY <1>2, <1>3, <1>4, <1>6, <2>3
  <2> QED BY <2>1, <2>2, <2>3
<1> QED BY <1>5, <1>6

LEMMA ReportsInv ==
  ASSUME CorrelatorInv, NEW t \in Scanner, Reports(t)
  PROVE  CorrelatorInv'
<1> DEFINE c == correlator
           last == IF Triggers(c, t) THEN 0 ELSE c.lastTriggered
<1>1. c \in Correlator /\ raised \in 0..Horizon /\ c.lastTriggered = raised BY DEF CorrelatorInv
<1>2. c.window \in 1..Horizon /\ c.lastTriggered \in 0..Horizon BY <1>1 DEF Correlator
<1>3. Heard(c, t) \in SUBSET Event BY <1>1, HeardTyped
<1>4. /\ correlator' = [c EXCEPT !.events = Heard(c, t), !.lastTriggered = last]
      /\ reported' = [reported EXCEPT ![t] = 0] /\ raised' = last
  BY <1>1 DEF Reports, Added
<1>5. last \in 0..Horizon BY <1>2
<1> HIDE DEF last
<1>6. /\ correlator' \in Correlator /\ correlator'.window = c.window
      /\ correlator'.events = Heard(c, t) /\ correlator'.lastTriggered = last
  BY <1>1, <1>3, <1>4, <1>5 DEF Correlator
<1>7. ASSUME NEW u \in Scanner, NEW n \in 0..Horizon, n < c.window
      PROVE  (\E e \in Heard(c, t) : e.scanner = u /\ e.age <= n) <=> reported'[u] <= n
  <2>1. (\E e \in Heard(c, t) : e.scanner = u /\ e.age <= n) <=> (u = t \/ Within(u, n))
    BY <1>1, <1>7, HeardTyped DEF Within
  <2>2. Within(u, n) <=> reported[u] <= n BY <1>7 DEF CorrelatorInv
  <2>3. reported'[u] = IF u = t THEN 0 ELSE reported[u] BY <1>4 DEF CorrelatorInv
  <2> QED BY <2>1, <2>2, <2>3
<1>8. reported' \in [Scanner -> 0..Horizon] BY <1>4 DEF CorrelatorInv
<1> QED BY <1>4, <1>5, <1>6, <1>7, <1>8 DEF CorrelatorInv, Within

LEMMA TickInv == CorrelatorInv /\ Tick => CorrelatorInv'
<1> SUFFICES ASSUME CorrelatorInv, Tick PROVE CorrelatorInv' OBVIOUS
<1> DEFINE c == correlator
           aged == {[scanner |-> e.scanner, age |-> Older(e.age)] : e \in c.events}
<1>1. c \in Correlator /\ raised \in 0..Horizon /\ c.lastTriggered = raised BY DEF CorrelatorInv
<1>2. /\ c.window \in 1..Horizon /\ c.events \in SUBSET Event
      /\ \A e \in c.events : e.scanner \in Scanner /\ e.age \in 0..Horizon
  BY <1>1 DEF Correlator, Event
<1>3. \A a \in 0..Horizon : Older(a) \in 0..Horizon BY DEF Older
<1>4. aged \in SUBSET Event BY <1>2, <1>3 DEF Event
<1>5. /\ correlator' = [c EXCEPT !.events = aged, !.lastTriggered = Older(c.lastTriggered)]
      /\ reported' = [t \in Scanner |-> Older(reported[t])] /\ raised' = Older(raised)
  BY DEF Tick
<1>6. \A t \in Scanner : reported[t] \in 0..Horizon BY DEF CorrelatorInv
<1>7. ASSUME NEW t \in Scanner, NEW n \in 0..Horizon, n < c.window
      PROVE  (\E e \in aged : e.scanner = t /\ e.age <= n) <=> reported'[t] <= n
  <2>1. ASSUME NEW a \in 0..Horizon PROVE Older(a) <= n <=> n > 0 /\ a <= n - 1
    BY <1>2, <1>7 DEF Older
  <2>2. (\E e \in aged : e.scanner = t /\ e.age <= n) <=>
        (\E e \in c.events : e.scanner = t /\ Older(e.age) <= n)
    <3>1. ASSUME NEW e \in aged, e.scanner = t, e.age <= n
          PROVE  \E d \in c.events : d.scanner = t /\ Older(d.age) <= n
      <4>1. PICK d \in c.events : e = [scanner |-> d.scanner, age |-> Older(d.age)] OBVIOUS
      <4>2. d.scanner = t /\ Older(d.age) <= n BY <3>1, <4>1
      <4> QED BY <4>2
    <3>2. ASSUME NEW d \in c.events, d.scanner = t, Older(d.age) <= n
          PROVE  \E e \in aged : e.scanner = t /\ e.age <= n
      <4> DEFINE e == [scanner |-> d.scanner, age |-> Older(d.age)]
      <4>1. e \in aged /\ e.scanner = t /\ e.age <= n BY <3>2
      <4> HIDE DEF e
      <4> QED BY <4>1
    <3> QED BY <3>1, <3>2
  <2>3. reported'[t] = Older(reported[t]) BY <1>5
  <2>4. CASE n = 0 BY <1>2, <1>6, <2>1, <2>2, <2>3, <2>4
  <2>5. CASE n > 0
    <3>1. n - 1 \in 0..Horizon /\ n - 1 < c.window BY <1>2, <1>7, <2>5
    <3>2. Within(t, n - 1) <=> reported[t] <= n - 1 BY <3>1 DEF CorrelatorInv
    <3>3. (\E e \in c.events : e.scanner = t /\ Older(e.age) <= n) <=> Within(t, n - 1)
      BY <1>2, <2>1, <2>5 DEF Within
    <3>4. Older(reported[t]) <= n <=> reported[t] <= n - 1 BY <1>6, <2>1, <2>5
    <3> QED BY <2>2, <2>3, <3>2, <3>3, <3>4
  <2> QED BY <2>4, <2>5
<1> HIDE DEF aged
<1>8. /\ correlator' \in Correlator /\ correlator'.window = c.window
      /\ correlator'.events = aged /\ correlator'.lastTriggered = Older(c.lastTriggered)
  BY <1>1, <1>3, <1>4, <1>5 DEF Correlator
<1>9. reported' \in [Scanner -> 0..Horizon] /\ raised' \in 0..Horizon BY <1>1, <1>3, <1>5, <1>6
<1> QED BY <1>1, <1>5, <1>7, <1>8, <1>9 DEF CorrelatorInv, Within

LEMMA CorrelatorStep == CorrelatorInv /\ [Next]_vars => CorrelatorInv'
<1> SUFFICES ASSUME CorrelatorInv, [Next]_vars PROVE CorrelatorInv' OBVIOUS
<1>1. ASSUME UNCHANGED <<correlator, reported, raised>> PROVE CorrelatorInv'
  BY <1>1 DEF CorrelatorInv, Within
<1>2. ASSUME NEW s \in Source, NEW b \in BOOLEAN, NEW c \in BOOLEAN,
             Receive(s, b) \/ CorrelateLate(s, b, c)
      PROVE  CorrelatorInv'
  BY <1>1, <1>2 DEF Receive, CorrelateLate
<1>3. ASSUME NEW s \in Source, NEW b \in BOOLEAN, Correlate(s, b) PROVE CorrelatorInv'
  <2>1. UNCHANGED <<correlator, reported, raised>> \/ Reports(Plugin) BY <1>3 DEF Correlate
  <2> QED BY <1>1, <2>1, ReportsInv DEF Scanner
<1>4. ASSUME NEW s \in Source, Measure(s) \/ Cache(s) \/ Send(s) PROVE CorrelatorInv'
  BY <1>1, <1>4 DEF Measure, Cache, Send
<1>5. ASSUME NEW t \in Other, OtherReports(t) PROVE CorrelatorInv'
  BY <1>5, ReportsInv DEF OtherReports, Scanner
<1>6. CASE OtherCached \/ UNCHANGED vars BY <1>1, <1>6 DEF OtherCached, vars
<1>7. CASE Reload \/ Restart BY <1>7, NewCorrelatorInv DEF Reload, Restart
<1>8. CASE Tick BY <1>8, TickInv
<1> QED BY <1>2, <1>3, <1>4, <1>5, <1>6, <1>7, <1>8 DEF Next

LEMMA CorrelatorInvHolds == Spec => []CorrelatorInv
BY CorrelatorInit, CorrelatorStep, PTL DEF Spec

(* Who is heard with a report of the plugin. *)
LEMMA HeardIs ==
  ASSUME CorrelatorInv
  PROVE  {e.scanner : e \in Heard(correlator, Plugin)} =
           {t \in Other : reported[t] < correlator.window} \cup {Plugin}
<1> DEFINE c == correlator
           H == Heard(c, Plugin)
           R == {t \in Other : reported[t] < c.window}
           n == c.window - 1
<1>1. c \in Correlator /\ Plugin \in Scanner BY DEF CorrelatorInv, Scanner
<1>2. c.window \in 1..Horizon /\ n \in 0..Horizon /\ n < c.window BY <1>1 DEF Correlator
<1>3. H \in SUBSET Event
      /\ \A u \in Scanner : (\E e \in H : e.scanner = u /\ e.age <= n) <=> (u = Plugin \/ Within(u, n))
  BY <1>1, <1>2, HeardTyped DEF Within
<1>4. \A e \in H : e.scanner \in Scanner /\ e.age <= n
  <2>1. \A e \in c.events : e \in Event BY <1>1 DEF Correlator
  <2>2. \A e \in Event : e.scanner \in Scanner /\ e.age \in 0..Horizon BY DEF Event
  <2>3. \A e \in H : e.age < c.window BY <1>2 DEF Heard, Kept
  <2> QED BY <1>2, <1>3, <2>2, <2>3
<1>5. \A u \in Scanner : Within(u, n) <=> reported[u] <= n BY <1>2 DEF CorrelatorInv
<1>6. \A u \in Scanner : reported[u] <= n <=> reported[u] < c.window BY <1>2 DEF CorrelatorInv
<1> HIDE DEF H, n
<1>7. ASSUME NEW e \in H PROVE e.scanner \in R \cup {Plugin}
  <2>1. e.scanner = Plugin \/ Within(e.scanner, n) BY <1>3, <1>4
  <2> QED BY <1>4, <1>5, <1>6, <2>1 DEF Scanner
<1>8. ASSUME NEW u \in R \cup {Plugin} PROVE \E e \in H : e.scanner = u
  <2>1. u \in Scanner BY DEF Scanner
  <2>2. u = Plugin \/ Within(u, n) BY <1>5, <1>6, <2>1
  <2> QED BY <1>3, <2>1, <2>2
<1>9. {e.scanner : e \in H} = R \cup {Plugin} BY <1>7, <1>8
<1> QED BY <1>9 DEF H

-----------------------------------------------------------------------------
(* The sources on their way. *)
Recorded(w) ==
    w.stage = "send" /\ w.passed < HistoryLimit =>
      w.passed < Len(history) /\ history[Len(history) - w.passed] = w.number

(* DetectDrift has judged the value of the source's result. *)
Judged(s) ==
    source[s].pc \in {"updateGet", "updatePut"} \/ path[s].stage \in {"correlate", "cache", "send"}

WayOK(s) ==
    /\ source[s].pc # "idle" <=> path[s].stage = "metrics"
    /\ path[s].stage \in {"idle", "metrics", "correlate"} => "multi" \notin path[s].findings
    /\ source[s].pc \in {"driftGet", "judge", "driftPut"} => path[s].findings = {}
    /\ source[s].pc \in {"judge", "driftPut"} => source[s].copy.count > 0
    /\ serial /\ Judged(s) => ("drift" \in path[s].findings <=> streak >= Consecutive)
    /\ Recorded(path[s])

PathInv ==
    /\ path \in [Source -> Way]
    /\ history \in Seq(0..MaxResults) /\ Len(history) <= HistoryLimit
    /\ db.count = 0 => db.drift = 0
    /\ serial => \A s, t \in Source : path[s].stage # "idle" /\ path[t].stage # "idle" => s = t
    /\ \A s \in Source : WayOK(s)

LEMMA OnTyped ==
  ASSUME NEW stage \in {"idle", "metrics", "correlate", "cache", "send"},
         NEW number \in 0..MaxResults, NEW findings \in SUBSET {"own", "drift", "multi"},
         NEW late \in BOOLEAN, NEW passed \in 0..HistoryLimit
  PROVE  On(stage, number, findings, late, passed) \in Way
BY DEF On, Way

LEMMA WayTyped ==
  ASSUME NEW w \in Way
  PROVE  /\ w.stage \in {"idle", "metrics", "correlate", "cache", "send"}
         /\ w.number \in 0..MaxResults /\ w.findings \in SUBSET {"own", "drift", "multi"}
         /\ w.late \in BOOLEAN /\ w.passed \in 0..HistoryLimit
BY DEF Way

LEMMA RestingTyped == Resting \in Way /\ Resting.stage = "idle" /\ Resting.findings = {}
BY DEF Resting, On, Way

LEMMA PathInit == Init => PathInv
<1> SUFFICES ASSUME Init PROVE PathInv OBVIOUS
<1>1. /\ path = [s \in Source |-> Resting] /\ history = <<>> /\ db = NoRecord
      /\ source = [s \in Source |-> Idle]
  BY DEF Init, BaselineInit
<1>2. Idle.pc = "idle" BY DEF Idle, Doing
<1>3. NoRecord.count = 0 /\ NoRecord.drift = 0 BY DEF NoRecord
<1>4. \A s \in Source : WayOK(s) BY <1>1, <1>2, RestingTyped DEF WayOK, Judged, Recorded
<1> QED BY <1>1, <1>3, <1>4, RestingTyped DEF PathInv

(* The cache after one more result. *)
Moved(h, g, n) ==
    /\ g \in Seq(0..MaxResults) /\ Len(g) <= HistoryLimit
    /\ Len(g) > 0 /\ g[Len(g)] = n
    /\ \A p \in Nat : p < Len(h) /\ p + 1 < HistoryLimit =>
         p + 1 < Len(g) /\ g[Len(g) - (p + 1)] = h[Len(h) - p]

LEMMA TrimmedIs ==
  ASSUME NEW h \in Seq(0..MaxResults), Len(h) <= HistoryLimit, NEW n \in 0..MaxResults
  PROVE  Moved(h, Trimmed(Append(h, n)), n)
<1> DEFINE a == Append(h, n)
           g == Trimmed(a)
<1> SUFFICES Moved(h, g, n) OBVIOUS
<1>1. /\ a \in Seq(0..MaxResults) /\ Len(a) = Len(h) + 1 /\ a[Len(a)] = n
      /\ \A i \in 1..Len(h) : a[i] = h[i]
  OBVIOUS
<1>2. Len(h) \in Nat OBVIOUS
<1> HIDE DEF a
<1>3. CASE Len(a) <= HistoryLimit
  <2>1. g = a BY <1>1, <1>2, <1>3 DEF Trimmed
  <2>2. ASSUME NEW p \in Nat, p < Len(h)
        PROVE  p + 1 < Len(a) /\ a[Len(a) - (p + 1)] = h[Len(h) - p]
    <3>1. Len(a) - (p + 1) = Len(h) - p /\ Len(h) - p \in 1..Len(h) BY <1>1, <1>2, <2>2
    <3>2. p + 1 < Len(a) BY <1>1, <1>2, <2>2
    <3> QED BY <1>1, <3>1, <3>2
  <2>3. Len(a) > 0 BY <1>1, <1>2
  <2> HIDE DEF g
  <2>4. Moved(h, a, n) BY <1>1, <1>3, <2>2, <2>3 DEF Moved
  <2> QED BY <2>1, <2>4
<1>4. CASE Len(a) > HistoryLimit
  <2>1. Len(h) = HistoryLimit /\ Len(a) = HistoryLimit + 1 BY <1>1, <1>2, <1>4
  <2>2. g = SubSeq(a, 2, HistoryLimit + 1) BY <1>4, <2>1 DEF Trimmed
  <2>3. /\ g \in Seq(0..MaxResults) /\ Len(g) = HistoryLimit
        /\ \A i \in 1..HistoryLimit : g[i] = a[i + 1]
    <3>1. \A i \in 2..(HistoryLimit + 1) : a[i] \in 0..MaxResults BY <1>1, <2>1
    <3>2. /\ SubSeq(a, 2, HistoryLimit + 1) \in Seq(0..MaxResults)
          /\ Len(SubSeq(a, 2, HistoryLimit + 1)) = HistoryLimit
          /\ \A i \in 1..HistoryLimit : SubSeq(a, 2, HistoryLimit + 1)[i] = a[i + 1]
      BY <3>1, SubSeqProperties
    <3> QED BY <2>2, <3>2
  <2> HIDE DEF g
  <2>4. g[Len(g)] = n BY <1>1, <2>1, <2>3
  <2>5. ASSUME NEW p \in Nat, p < Len(h), p + 1 < HistoryLimit
        PROVE  p + 1 < Len(g) /\ g[Len(g) - (p + 1)] = h[Len(h) - p]
    <3>1. Len(g) - (p + 1) \in 1..HistoryLimit /\ Len(g) - (p + 1) + 1 = Len(h) - p
          /\ Len(h) - p \in 1..Len(h)
      BY <2>1, <2>3, <2>5
    <3> QED BY <1>1, <2>3, <2>5, <3>1
  <2> QED BY <2>3, <2>4, <2>5 DEF Moved
<1>5. Len(a) \in Nat BY <1>1
<1> QED BY <1>2, <1>3, <1>4, <1>5

(* One source moves to w; what else changes concerns only a source that is *)
(* alone if results come one at a time.                                    *)
LEMMA OneGoes ==
  ASSUME PathInv, NEW s \in Source, NEW w \in Way, path' = [path EXCEPT ![s] = w],
         UNCHANGED <<serial, history>>,
         db'.count = 0 => db'.drift = 0,
         \A t \in Source \ {s} : source'[t] = source[t],
         serial => \A t \in Source \ {s} : path[t].stage = "idle",
         WayOK(s)'
  PROVE  PathInv'
<1>1. path' \in [Source -> Way] /\ path'[s] = w /\ \A t \in Source \ {s} : path'[t] = path[t]
  BY DEF PathInv
<1>2. ASSUME NEW t \in Source \ {s} PROVE WayOK(t)'
  <2>1. WayOK(t) BY DEF PathInv
  <2>2. serial => path[t].stage = "idle" /\ source[t].pc = "idle" BY <2>1 DEF WayOK
  <2> QED BY <1>1, <2>1, <2>2 DEF WayOK, Judged, Recorded
<1>3. serial' => \A t, u \in Source : path'[t].stage # "idle" /\ path'[u].stage # "idle" => t = u
  BY <1>1
<1> QED BY <1>1, <1>2, <1>3 DEF PathInv

LEMMA AloneAtWork ==
  ASSUME PathInv, NEW s \in Source, path[s].stage # "idle"
  PROVE  serial => \A t \in Source \ {s} : path[t].stage = "idle"
BY DEF PathInv

LEMMA GoesTo ==
  ASSUME PathInv, NEW s \in Source,
         NEW stage \in {"metrics", "correlate", "cache"},
         NEW findings \in SUBSET {"own", "drift", "multi"}, Goes(s, stage, findings)
  PROVE  \E w \in Way : /\ path' = [path EXCEPT ![s] = w]
                        /\ path'[s] = w /\ w.stage = stage /\ w.findings = findings
<1> DEFINE w == On(stage, path[s].number, findings, FALSE, path[s].passed)
<1>1. path \in [Source -> Way] BY DEF PathInv
<1>2. path[s].number \in 0..MaxResults /\ path[s].passed \in 0..HistoryLimit BY <1>1, WayTyped
<1>3. w \in Way /\ w.stage = stage /\ w.findings = findings BY <1>2, OnTyped DEF On
<1>4. path' = [path EXCEPT ![s] = w] BY DEF Goes
<1> HIDE DEF w
<1> QED BY <1>1, <1>3, <1>4

LEMMA StepMoves ==
  ASSUME BaselineInv, NEW s \in Source, NEW pc, NEW outlier, NEW anomaly, NEW copy,
         Step(s, pc, outlier, anomaly, copy)
  PROVE  /\ source'[s].pc = pc /\ source'[s].copy = copy
         /\ \A t \in Source \ {s} : source'[t] = source[t]
BY DEF BaselineInv, BaselineTypeOK, Step, Doing

LEMMA PathMeasures ==
  ASSUME PathInv, BaselineInv, NEW s \in Source, Measure(s)
  PROVE  PathInv'
<1>1. /\ db \in Record /\ db.count \in Nat /\ streak \in Nat /\ source[s] \in SourceState
      /\ source[s].copy \in Record /\ source[s].copy.count \in Nat
  BY DEF BaselineInv, BaselineTypeOK, SourceState, Record
<1>2. path \in [Source -> Way] /\ WayOK(s) /\ UNCHANGED history /\ path[s] \in Way
  BY DEF PathInv, Measure
<1>3. ASSUME source[s].pc # "idle"
      PROVE  path[s].stage = "metrics" /\ (serial => \A t \in Source \ {s} : path[t].stage = "idle")
  BY <1>2, <1>3, AloneAtWork DEF WayOK
<1>4. CASE DriftGet(s) /\ UNCHANGED path
  <2> DEFINE pc == IF Exists THEN "judge" ELSE "updateGet"
  <2>1. /\ source[s].pc = "driftGet" /\ UNCHANGED <<serial, db, streak>>
        /\ Step(s, pc, source[s].outlier, FALSE, db)
    BY <1>4 DEF DriftGet, At
  <2>p. (Exists => pc = "judge") /\ (~Exists => pc = "updateGet") OBVIOUS
  <2> HIDE DEF pc
  <2>2. /\ source'[s].pc = pc /\ source'[s].copy = db
        /\ \A t \in Source \ {s} : source'[t] = source[t]
    BY <2>1, StepMoves
  <2>3. ~Exists /\ serial => streak = 0
    BY <1>1 DEF Exists, PathInv, BaselineInv, OneAtATime
  <2>4. path' = [path EXCEPT ![s] = path[s]] BY <1>2, <1>4
  <2>5. path[s].findings = {} /\ path[s].stage = "metrics" BY <1>2, <1>3, <2>1 DEF WayOK
  <2>6. WayOK(s)' BY <1>4, <2>1, <2>p, <2>2, <2>3, <2>5 DEF WayOK, Judged, Recorded, Exists
  <2> QED BY <1>2, <1>3, <2>1, <2>p, <2>2, <2>4, <2>6, OneGoes DEF PathInv
<1>5. CASE Judge(s) /\ UNCHANGED path
  <2> DEFINE copy == WithDrift(source[s].copy, DriftCount(source[s].copy.drift, IsAnomaly(s)))
  <2>1. /\ source[s].pc = "judge" /\ UNCHANGED <<serial, db, streak>>
        /\ Step(s, "driftPut", source[s].outlier, IsAnomaly(s), copy)
    BY <1>5 DEF Judge, At
  <2>2. copy.count = source[s].copy.count BY DEF WithDrift
  <2> HIDE DEF copy
  <2>3. /\ source'[s].pc = "driftPut" /\ source'[s].copy = copy
        /\ \A t \in Source \ {s} : source'[t] = source[t]
    BY <2>1, StepMoves
  <2>4. path' = [path EXCEPT ![s] = path[s]] BY <1>2, <1>5
  <2>5. WayOK(s)' BY <1>2, <1>3, <1>5, <2>1, <2>2, <2>3 DEF WayOK, Judged, Recorded
  <2> QED BY <1>2, <1>3, <2>1, <2>3, <2>4, <2>5, OneGoes DEF PathInv
<1>6. CASE UpdateGet(s) /\ UNCHANGED path
  <2>1. /\ source[s].pc = "updateGet" /\ UNCHANGED <<serial, db, streak>>
        /\ Step(s, "updatePut", source[s].outlier, source[s].anomaly, db)
    BY <1>6 DEF UpdateGet, At
  <2>2. /\ source'[s].pc = "updatePut"
        /\ \A t \in Source \ {s} : source'[t] = source[t]
    BY <2>1, StepMoves
  <2>3. path' = [path EXCEPT ![s] = path[s]] BY <1>2, <1>6
  <2>4. WayOK(s)' BY <1>2, <1>3, <1>6, <2>1, <2>2 DEF WayOK, Judged, Recorded
  <2> QED BY <1>2, <1>3, <2>1, <2>2, <2>3, <2>4, OneGoes DEF PathInv
<1>7. CASE DriftPut(s) /\ Goes(s, "metrics", IF ReportsDrift(s) THEN {"drift"} ELSE {})
  <2>1. /\ source[s].pc = "driftPut" /\ UNCHANGED serial /\ db' = source[s].copy
        /\ streak' = DriftCount(streak, source[s].anomaly)
        /\ Step(s, "updateGet", source[s].outlier, source[s].anomaly, source[s].copy)
    BY <1>7 DEF DriftPut, At, DriftCount
  <2>2. /\ source'[s].pc = "updateGet"
        /\ \A t \in Source \ {s} : source'[t] = source[t]
    BY <2>1, StepMoves
  <2>3. serial => (ReportsDrift(s) <=> streak' >= Consecutive)
    BY <2>1 DEF BaselineInv, OneAtATime, UpToDate, ReportsDrift
  <2>4. PICK w \in Way : /\ path' = [path EXCEPT ![s] = w] /\ path'[s] = w
                        /\ w.stage = "metrics"
                        /\ w.findings = IF ReportsDrift(s) THEN {"drift"} ELSE {}
    BY <1>7, GoesTo
  <2>5. WayOK(s)' BY <2>1, <2>2, <2>3, <2>4 DEF WayOK, Judged, Recorded
  <2>6. db'.count # 0 BY <1>1, <1>2, <2>1 DEF WayOK
  <2> QED BY <1>2, <1>3, <2>1, <2>2, <2>4, <2>5, <2>6, OneGoes
<1>8. CASE UpdatePut(s) /\ Goes(s, "correlate", path[s].findings)
  <2>1. /\ source[s].pc = "updatePut" /\ UNCHANGED <<serial, streak>> /\ db' = Counted(source[s].copy)
        /\ Step(s, "idle", FALSE, FALSE, NoRecord)
    BY <1>8 DEF UpdatePut, At
  <2>2. /\ source'[s].pc = "idle"
        /\ \A t \in Source \ {s} : source'[t] = source[t]
    BY <2>1, StepMoves
  <2>3. PICK w \in Way : /\ path' = [path EXCEPT ![s] = w] /\ path'[s] = w
                        /\ w.stage = "correlate" /\ w.findings = path[s].findings
    BY <1>2, <1>8, GoesTo, WayTyped
  <2>4. WayOK(s)' BY <1>2, <1>3, <2>1, <2>2, <2>3 DEF WayOK, Judged, Recorded
  <2>5. db'.count # 0 BY <1>1, <2>1 DEF Counted
  <2> QED BY <1>2, <1>3, <2>1, <2>2, <2>3, <2>4, <2>5, OneGoes
<1> QED BY <1>4, <1>5, <1>6, <1>7, <1>8 DEF Measure

LEMMA PathCorrelates ==
  ASSUME PathInv, NEW s \in Source, NEW F \in SUBSET {"own", "drift", "multi"},
         path[s].stage = "correlate", Goes(s, "cache", F), UNCHANGED <<baselineVars, history>>,
         "drift" \in F <=> "drift" \in path[s].findings
  PROVE  PathInv'
<1>1. PICK w \in Way : /\ path' = [path EXCEPT ![s] = w] /\ path'[s] = w
                      /\ w.stage = "cache" /\ w.findings = F
  BY GoesTo
<1>2. WayOK(s) BY DEF PathInv
<1>3. UNCHANGED <<serial, db, source, streak>> BY DEF baselineVars
<1>4. WayOK(s)' BY <1>1, <1>2, <1>3 DEF WayOK, Judged, Recorded
<1> QED BY <1>1, <1>3, <1>4, AloneAtWork, OneGoes DEF PathInv

LEMMA PassedIs ==
  ASSUME NEW w \in Way
  PROVE  /\ Passed(w) \in Way /\ Passed(w).stage = w.stage
         /\ Passed(w).findings = w.findings /\ Passed(w).number = w.number
         /\ w.stage = "send" /\ Passed(w).passed < HistoryLimit =>
               Passed(w).passed = w.passed + 1
<1>1. CASE w.stage = "send" /\ w.passed < HistoryLimit
  <2>1. w.passed + 1 \in 0..HistoryLimit BY <1>1, WayTyped
  <2>2. Passed(w) = On(w.stage, w.number, w.findings, w.late, w.passed + 1) BY <1>1 DEF Passed
  <2>3. Passed(w) \in Way BY <2>1, <2>2, WayTyped, OnTyped
  <2> QED BY <2>2, <2>3 DEF On
<1>2. CASE ~(w.stage = "send" /\ w.passed < HistoryLimit)
  BY <1>2, WayTyped DEF Passed
<1> QED BY <1>1, <1>2

(* A result enters the cache, of a source or of another scanner. *)
LEMMA PassedOK ==
  ASSUME PathInv, NEW t \in Source, NEW n \in 0..MaxResults,
         history' = Trimmed(Append(history, n)),
         UNCHANGED baselineVars, path'[t] = Passed(path[t])
  PROVE  WayOK(t)'
<1>1. WayOK(t) /\ path[t] \in Way BY DEF PathInv
<1>2. UNCHANGED <<serial, db, source, streak>> BY DEF baselineVars
<1>3. Moved(history, history', n) BY TrimmedIs DEF PathInv
<1>4. ASSUME path'[t].stage = "send", path'[t].passed < HistoryLimit
      PROVE  /\ path'[t].passed < Len(history')
             /\ history'[Len(history') - path'[t].passed] = path'[t].number
  <2> DEFINE p == path[t].passed
  <2>1. path'[t].passed = p + 1 /\ path[t].stage = "send" /\ path'[t].number = path[t].number
    BY <1>1, <1>4, PassedIs
  <2>2. p \in Nat BY <1>1, WayTyped
  <2>3. p < HistoryLimit BY <1>4, <2>1, <2>2
  <2>4. p < Len(history) /\ history[Len(history) - p] = path[t].number
    BY <1>1, <2>1, <2>3 DEF WayOK, Recorded
  <2> QED BY <1>3, <1>4, <2>1, <2>2, <2>4 DEF Moved
<1>5. Recorded(path[t])' BY <1>4 DEF Recorded
<1> QED BY <1>1, <1>2, <1>5, PassedIs DEF WayOK, Judged

LEMMA PathStep == PathInv /\ BaselineInv /\ BaselineInv' /\ [Next]_vars => PathInv'
<1> SUFFICES ASSUME PathInv, BaselineInv, BaselineInv', [Next]_vars PROVE PathInv' OBVIOUS
<1>p. path \in [Source -> Way] /\ \A s \in Source : WayOK(s) /\ path[s] \in Way BY DEF PathInv
<1>1. ASSUME NEW s \in Source, NEW b \in BOOLEAN, Receive(s, b) PROVE PathInv'
  <2> DEFINE w == On("metrics", delivered', {}, FALSE, 0)
  <2>1. delivered' \in 0..MaxResults BY DEF BaselineInv, BaselineTypeOK
  <2>2. w \in Way /\ w.stage = "metrics" /\ w.findings = {} BY <2>1 DEF On, Way
  <2>3. path' = [path EXCEPT ![s] = w] BY <1>1 DEF Receive
  <2> HIDE DEF w
  <2>4. /\ Step(s, "driftGet", b, FALSE, NoRecord) /\ UNCHANGED <<serial, db, streak, history>>
        /\ serial => \A t \in Source : path[t].stage = "idle"
    BY <1>1 DEF Receive, Deliver
  <2>5. source'[s].pc = "driftGet" /\ \A t \in Source \ {s} : source'[t] = source[t]
    BY <2>4, StepMoves
  <2>6. path'[s] = w BY <1>p, <2>3
  <2>7. WayOK(s)' BY <2>2, <2>5, <2>6 DEF WayOK, Judged, Recorded
  <2> QED BY <2>2, <2>3, <2>4, <2>5, <2>7, OneGoes DEF PathInv
<1>2. ASSUME NEW s \in Source, Measure(s) PROVE PathInv'
  BY <1>2, PathMeasures
<1>3. ASSUME NEW s \in Source, NEW b \in BOOLEAN, NEW c \in BOOLEAN,
             Correlate(s, b) \/ CorrelateLate(s, b, c)
      PROVE  PathInv'
  <2>1. Found(s, b) \in SUBSET {"own", "drift", "multi"} /\ {} \in SUBSET {"own", "drift", "multi"}
    BY <1>p, WayTyped DEF Found
  <2>2. path[s].stage = "correlate" /\ UNCHANGED <<baselineVars, history>>
    BY <1>3 DEF Correlate, CorrelateLate
  <2>3. "drift" \in Found(s, b) <=> "drift" \in path[s].findings BY DEF Found
  <2>4. \/ Found(s, b) = {} /\ Goes(s, "cache", {})
        \/ \E multi \in BOOLEAN :
             Goes(s, "cache", Found(s, b) \cup (IF multi THEN {"multi"} ELSE {}))
    BY <1>3 DEF Correlate, CorrelateLate
  <2>5. CASE Found(s, b) = {} /\ Goes(s, "cache", {})
    BY <2>1, <2>2, <2>3, <2>5, PathCorrelates
  <2>6. ASSUME NEW multi \in BOOLEAN,
               Goes(s, "cache", Found(s, b) \cup (IF multi THEN {"multi"} ELSE {}))
        PROVE  PathInv'
    <3> DEFINE F == Found(s, b) \cup (IF multi THEN {"multi"} ELSE {})
    <3>1. F \in SUBSET {"own", "drift", "multi"} /\ ("drift" \in F <=> "drift" \in path[s].findings)
      BY <2>1, <2>3
    <3>2. Goes(s, "cache", F) BY <2>6
    <3> HIDE DEF F
    <3> QED BY <2>2, <3>1, <3>2, PathCorrelates
  <2> QED BY <2>4, <2>5, <2>6
<1>4. ASSUME NEW s \in Source, Cache(s) PROVE PathInv'
  <2> DEFINE w == On("send", path[s].number, path[s].findings, FALSE, 0)
             n == path[s].number
  <2>1. n \in 0..MaxResults /\ w \in Way
    <3>1. n \in 0..MaxResults /\ path[s].findings \in SUBSET {"own", "drift", "multi"}
      BY <1>p, WayTyped
    <3> QED BY <3>1 DEF On, Way
  <2>2. w.stage = "send" /\ w.number = n /\ w.findings = path[s].findings /\ w.passed = 0 BY DEF On
  <2>3. /\ path[s].stage = "cache" /\ history' = Trimmed(Append(history, n))
        /\ UNCHANGED baselineVars
        /\ path' = [[t \in Source |-> Passed(path[t])] EXCEPT ![s] = w]
    BY <1>4 DEF Cache
  <2> HIDE DEF w
  <2>4. path'[s] = w /\ \A t \in Source \ {s} : path'[t] = Passed(path[t]) BY <2>3
  <2>5. path' \in [Source -> Way] BY <1>p, <2>1, <2>3, PassedIs
  <2>6. Moved(history, history', n) BY <2>1, <2>3, TrimmedIs DEF PathInv
  <2>7. UNCHANGED <<serial, db, source, streak>> BY <2>3 DEF baselineVars
  <2>8. Recorded(path[s])' BY <2>2, <2>4, <2>6 DEF Recorded, Moved
  <2>9. WayOK(s)' BY <1>p, <2>2, <2>3, <2>4, <2>7, <2>8 DEF WayOK, Judged
  <2>10. \A t \in Source \ {s} : WayOK(t)' BY <2>1, <2>3, <2>4, PassedOK
  <2>11. \A t \in Source : path'[t].stage # "idle" => path[t].stage # "idle"
    BY <1>p, <2>3, <2>4, PassedIs
  <2> QED BY <2>5, <2>6, <2>7, <2>9, <2>10, <2>11 DEF PathInv, Moved
<1>5. CASE OtherCached
  <2>1. /\ history' = Trimmed(Append(history, 0)) /\ UNCHANGED baselineVars
        /\ path' = [t \in Source |-> Passed(path[t])] /\ 0 \in 0..MaxResults
    BY <1>5 DEF OtherCached
  <2>2. path' \in [Source -> Way] BY <1>p, <2>1, PassedIs
  <2>3. \A t \in Source : path'[t] = Passed(path[t]) /\ path'[t].stage = path[t].stage
    BY <1>p, <2>1, PassedIs
  <2>4. \A t \in Source : WayOK(t)' BY <2>1, <2>3, PassedOK
  <2>5. Moved(history, history', 0) BY <2>1, TrimmedIs DEF PathInv
  <2>6. UNCHANGED <<serial, db>> BY <2>1 DEF baselineVars
  <2> QED BY <2>2, <2>3, <2>4, <2>5, <2>6 DEF PathInv, Moved
<1>6. ASSUME NEW s \in Source, Send(s) PROVE PathInv'
  <2>1. /\ path[s].stage = "send" /\ path' = [path EXCEPT ![s] = Resting]
        /\ UNCHANGED <<serial, db, source, streak, history>>
    BY <1>6 DEF Send, baselineVars
  <2>2. path'[s] = Resting BY <1>p, <2>1
  <2>3. WayOK(s)' BY <1>p, <2>1, <2>2, RestingTyped DEF WayOK, Judged, Recorded
  <2> QED BY <2>1, <2>3, RestingTyped, AloneAtWork, OneGoes DEF PathInv
<1>7. CASE Reload
  <2>1. /\ UNCHANGED <<serial, db, source, streak, history>>
        /\ path' = [s \in Source |-> IF path[s].stage = "correlate"
                                     THEN [path[s] EXCEPT !.late = TRUE] ELSE path[s]]
    BY <1>7 DEF Reload, baselineVars
  <2>2. \A s \in Source : /\ path'[s] \in Way /\ path'[s].stage = path[s].stage
                          /\ path'[s].findings = path[s].findings
                          /\ path'[s].number = path[s].number /\ path'[s].passed = path[s].passed
    BY <1>p, <2>1 DEF Way
  <2>3. path' \in [Source -> Way] BY <2>1, <2>2
  <2>4. \A s \in Source : WayOK(s)' BY <1>p, <2>1, <2>2 DEF WayOK, Judged, Recorded
  <2> QED BY <2>1, <2>2, <2>3, <2>4 DEF PathInv
<1>8. CASE Restart
  <2>1. /\ path' = [s \in Source |-> Resting] /\ history' = <<>> /\ UNCHANGED <<serial, db>>
        /\ source' = [s \in Source |-> Idle]
    BY <1>8 DEF Restart, Fresh, Crash
  <2>2. Idle.pc = "idle" BY DEF Idle, Doing
  <2>3. \A s \in Source : WayOK(s)' BY <2>1, <2>2, RestingTyped DEF WayOK, Judged, Recorded
  <2> QED BY <2>1, <2>3, RestingTyped DEF PathInv
<1>9. CASE (\E t \in Other : OtherReports(t)) \/ Tick \/ UNCHANGED vars
  <2>1. UNCHANGED <<serial, db, source, streak, history, path>>
    BY <1>9 DEF OtherReports, Tick, vars, baselineVars
  <2> QED BY <1>p, <2>1 DEF PathInv, WayOK, Judged, Recorded
<1> QED BY <1>1, <1>2, <1>3, <1>4, <1>5, <1>6, <1>7, <1>8, <1>9 DEF Next

LEMMA PathInvHolds == Spec => [](PathInv /\ BaselineInv)
<1>1. Spec => []BaselineInv BY PathImplementsBaseline, Invariant, PTL
<1> QED BY <1>1, PathInit, PathStep, PTL DEF Spec

(* The state keeps its shape on the whole way of a result, the limit of    *)
(* the cache and the ages of the observers included.                       *)
THEOREM PathTypeCorrect == Spec => []TypeOK
<1>1. PathInv /\ BaselineInv /\ CorrelatorInv => TypeOK
  BY DEF PathInv, BaselineInv, CorrelatorInv, TypeOK
<1> QED BY <1>1, PathInvHolds, CorrelatorInvHolds, PTL

(* RUNBOOK.md:28: a result carries the correlation finding exactly when    *)
(* enough scanners reported within the window and the last one is out of   *)
(* the cooldown, for any scanners, windows and cooldowns.                  *)
THEOREM CorrelationTriggersHolds == Spec => CorrelationTriggers
<1> DEFINE Right(s, own) ==
      Correlate(s, own) /\ Found(s, own) # {} =>
        ("multi" \in path'[s].findings <=>
           /\ Cardinality({t \in Other : reported[t] < correlator.window}) + 1
                >= correlator.minScan
           /\ raised >= correlator.cooldown)
<1>1. ASSUME CorrelatorInv, PathInv, NEW s \in Source, NEW own \in BOOLEAN PROVE Right(s, own)
  <2> SUFFICES ASSUME Correlate(s, own), Found(s, own) # {} PROVE Right(s, own) OBVIOUS
  <2> DEFINE R == {t \in Other : reported[t] < correlator.window}
  <2>1. Cardinality({e.scanner : e \in Heard(correlator, Plugin)}) = Cardinality(R) + 1
    <3>1. IsFiniteSet(R) BY FS_Subset
    <3>2. Plugin \notin R OBVIOUS
    <3>3. Cardinality(R \cup {Plugin}) = Cardinality(R) + 1 BY <3>1, <3>2, FS_AddElement
    <3> QED BY <1>1, <3>3, HeardIs
  <2>2. Triggers(correlator, Plugin) <=>
          Cardinality(R) + 1 >= correlator.minScan /\ raised >= correlator.cooldown
    BY <1>1, <2>1 DEF Triggers, CorrelatorInv
  <2>3. path'[s].findings = Found(s, own) \cup
           (IF Triggers(correlator, Plugin) THEN {"multi"} ELSE {})
    BY <1>1 DEF Correlate, Goes, On, PathInv
  <2>4. path[s].stage = "correlate" /\ "multi" \notin Found(s, own)
    BY <1>1 DEF Correlate, Found, PathInv, WayOK
  <2> QED BY <2>2, <2>3, <2>4
<1>2. CorrelatorInv /\ PathInv =>
        [\A s \in Source, own \in BOOLEAN : Right(s, own)]_vars
  BY <1>1
<1> QED BY <1>2, CorrelatorInvHolds, PathInvHolds, PTL DEF CorrelationTriggers

(* An alert can be looked up while it is sent, unless newer results have   *)
(* pushed its result out; and with results one at a time a drift is        *)
(* alerted exactly for the results that end a long enough row of anomalies.*)
THEOREM AlertsOnRecordHolds == Spec => AlertsOnRecord
<1> DEFINE Right(s) == Send(s) =>
         /\ (\E i \in DOMAIN history : history[i] = path[s].number)
              \/ path[s].passed = HistoryLimit
         /\ serial => ("drift" \in path[s].findings <=> streak >= Consecutive)
<1>1. ASSUME PathInv, NEW s \in Source PROVE Right(s)
  <2> SUFFICES ASSUME Send(s) PROVE Right(s) OBVIOUS
  <2>1. WayOK(s) /\ path[s] \in Way /\ history \in Seq(0..MaxResults) BY <1>1 DEF PathInv
  <2>2. path[s].stage = "send" BY DEF Send
  <2>3. serial => ("drift" \in path[s].findings <=> streak >= Consecutive)
    BY <2>1, <2>2 DEF WayOK, Judged
  <2>4. CASE path[s].passed < HistoryLimit
    <3>1. path[s].passed < Len(history) /\ history[Len(history) - path[s].passed] = path[s].number
      BY <2>1, <2>2, <2>4 DEF WayOK, Recorded
    <3>2. Len(history) - path[s].passed \in DOMAIN history BY <2>1, <3>1, WayTyped
    <3> QED BY <2>3, <3>1, <3>2
  <2>5. CASE ~(path[s].passed < HistoryLimit)
    <3>1. path[s].passed = HistoryLimit BY <2>1, <2>5, WayTyped
    <3> QED BY <2>3, <3>1
  <2> QED BY <2>4, <2>5
<1>2. PathInv => [\A s \in Source : Right(s)]_vars BY <1>1
<1> QED BY <1>2, PathInvHolds, PTL DEF AlertsOnRecord
=============================================================================
