--------------------------- MODULE BaselineProofs ---------------------------
(***************************************************************************)
(* Proofs about Baseline, for any number of sources, any limits on samples *)
(* and any number of anomalies that make a drift.                          *)
(***************************************************************************)
EXTENDS Baseline, TLAPS

USE BaselineAssumption DEF BaselineAssumption

Follows(r) == r.samples = IF r.count < MaxSamples THEN r.count ELSE MaxSamples

(* Every record, stored or held by a source, is one that Update wrote. *)
WholeRecords ==
    /\ Follows(db) /\ db.count <= handled
    /\ \A s \in Source : /\ Follows(source[s].copy)
                         /\ source[s].copy.count <= handled

(* What a source at work holds when no other one is. *)
UpToDate(r) ==
    /\ r.pc \in {"judge", "driftPut", "updatePut"} => r.copy.count = handled
    /\ r.pc \in {"judge", "updatePut"} => r.copy.drift = streak
    /\ r.pc = "driftPut" => r.copy.drift = DriftCount(streak, r.anomaly)

(* With results one at a time there is at most one source at work, and its *)
(* copy is not older than the stored record.                               *)
OneAtATime ==
    serial =>
      /\ db.count = handled /\ db.drift = streak
      /\ \A s, t \in Source :
           source[s].pc # "idle" /\ source[t].pc # "idle" => s = t
      /\ \A s \in Source : UpToDate(source[s])

BaselineInv == BaselineTypeOK /\ WholeRecords /\ OneAtATime

(* Update keeps a record well formed. *)
LEMMA CountedWhole ==
    ASSUME NEW r \in Record, Follows(r)
    PROVE  /\ Counted(r) \in Record /\ Follows(Counted(r))
           /\ Counted(r).count = r.count + 1 /\ Counted(r).drift = r.drift
<1>1. r.count \in Nat /\ r.samples \in 0..MaxSamples /\ r.drift \in Nat
  BY DEF Record
<1>2. Trim(r.samples) \in 0..MaxSamples
  BY <1>1 DEF Trim
<1>3. Follows(Counted(r))
  BY <1>1 DEF Follows, Trim, Counted
<1> QED
  BY <1>1, <1>2, <1>3 DEF Record, Counted

(* A source moves on with the record n, while the stored record may change. *)
Moves(s, n) ==
    /\ n \in SourceState /\ source' = [source EXCEPT ![s] = n]
    /\ serial' = serial

(* The invariant after a step of one source follows from what the step     *)
(* does to this source and to the stored record.                           *)
LEMMA MoveInv ==
    ASSUME BaselineInv, NEW s \in Source, NEW n, Moves(s, n),
           db' \in Record, Follows(db'),
           handled' \in Nat, handled <= handled', db'.count <= handled',
           streak' \in Nat, delivered' \in 0..MaxResults,
           Follows(n.copy), n.copy.count <= handled',
           serial => /\ db'.count = handled' /\ db'.drift = streak'
                     /\ \A t \in Source \ {s} : source[t].pc = "idle"
                     /\ source'[s] = n => UpToDate(source[s])'
    PROVE  BaselineInv'
<1>1. source' \in [Source -> SourceState]
  BY DEF Moves, BaselineInv, BaselineTypeOK
<1>2. /\ source'[s] = n
      /\ \A t \in Source : t # s => source'[t] = source[t]
  BY DEF Moves, BaselineInv, BaselineTypeOK
<1>3. BaselineTypeOK'
  BY <1>1 DEF Moves, BaselineInv, BaselineTypeOK
<1>4. ASSUME NEW t \in Source
      PROVE  Follows(source'[t].copy) /\ source'[t].copy.count <= handled'
  <2>1. CASE t = s
    BY <1>2, <2>1
  <2>2. CASE t # s
    <3>1. /\ Follows(source[t].copy) /\ source[t].copy.count <= handled
          /\ source[t].copy.count \in Nat /\ handled \in Nat
      BY DEF BaselineInv, BaselineTypeOK, WholeRecords, SourceState, Record
    <3> QED
      BY <1>2, <2>2, <3>1
  <2> QED
    BY <2>1, <2>2
<1>5. WholeRecords'
  BY <1>4 DEF WholeRecords, Follows
<1>6. ASSUME serial PROVE OneAtATime'
  <2>1. \A t \in Source \ {s} : source'[t].pc = "idle"
    BY <1>2, <1>6
  <2>2. ASSUME NEW t \in Source PROVE UpToDate(source[t])'
    BY <1>2, <1>6, <2>1 DEF UpToDate
  <2> QED
    BY <1>6, <2>1, <2>2 DEF OneAtATime
<1>7. OneAtATime'
  BY <1>6 DEF OneAtATime, Moves
<1> QED
  BY <1>3, <1>5, <1>7 DEF BaselineInv

LEMMA InitInv == BaselineInit => BaselineInv
<1>1. NoRecord \in Record /\ Follows(NoRecord)
  BY DEF NoRecord, Record, Follows
<1>2. Idle \in SourceState
  BY <1>1 DEF Idle, Doing, SourceState
<1> QED
  BY <1>1, <1>2 DEF BaselineInit, BaselineInv, BaselineTypeOK, WholeRecords, OneAtATime,
                    UpToDate, Idle, Doing, NoRecord

LEMMA NextInv == BaselineInv /\ [BaselineNext]_baselineVars => BaselineInv'
<1> SUFFICES ASSUME BaselineInv, [BaselineNext]_baselineVars PROVE BaselineInv'
  OBVIOUS
<1>t. /\ db \in Record /\ Follows(db) /\ db.count <= handled
      /\ db.count \in Nat /\ db.drift \in Nat
      /\ handled \in Nat /\ streak \in Nat /\ delivered \in 0..MaxResults
      /\ serial \in BOOLEAN
  BY DEF BaselineInv, BaselineTypeOK, WholeRecords, Record
<1>n. NoRecord \in Record /\ Follows(NoRecord) /\ NoRecord.count = 0
  BY DEF NoRecord, Record, Follows
<1>c. ASSUME NEW s \in Source
      PROVE  /\ source[s] \in SourceState /\ source[s].copy \in Record
             /\ source[s].outlier \in BOOLEAN /\ source[s].anomaly \in BOOLEAN
             /\ Follows(source[s].copy) /\ source[s].copy.count <= handled
             /\ source[s].copy.count \in Nat /\ source[s].copy.drift \in Nat
  BY DEF BaselineInv, BaselineTypeOK, WholeRecords, SourceState, Record
<1>o. ASSUME serial
      PROVE  db.count = handled /\ db.drift = streak
  BY <1>o DEF BaselineInv, OneAtATime
<1>a. ASSUME serial, NEW s \in Source, source[s].pc # "idle"
      PROVE  /\ UpToDate(source[s])
             /\ \A t \in Source \ {s} : source[t].pc = "idle"
  BY <1>a DEF BaselineInv, OneAtATime
<1>1. ASSUME NEW s \in Source, NEW outlier \in BOOLEAN, Deliver(s, outlier)
      PROVE  BaselineInv'
  <2> DEFINE n == Doing("driftGet", outlier, FALSE, NoRecord)
  <2>1. Moves(s, n)
    BY <1>1, <1>n DEF Deliver, Step, Moves, Doing, SourceState
  <2>2. n.copy = NoRecord /\ n.pc = "driftGet"
    BY DEF Doing
  <2> HIDE DEF n
  <2>3. /\ UNCHANGED <<db, handled, streak>> /\ delivered' \in 0..MaxResults
        /\ serial => \A t \in Source : source[t].pc = "idle"
    BY <1>1, <1>t DEF Deliver, At
  <2>4. source'[s] = n => UpToDate(source[s])'
    BY <2>2 DEF UpToDate
  <2> QED
    BY <1>t, <1>n, <1>o, <2>1, <2>2, <2>3, <2>4, MoveInv DEF Follows
<1>2. ASSUME NEW s \in Source, DriftGet(s) PROVE BaselineInv'
  <2> DEFINE n == Doing(IF Exists THEN "judge" ELSE "updateGet",
                        source[s].outlier, FALSE, db)
  <2>1. Moves(s, n)
    BY <1>2, <1>t, <1>c DEF DriftGet, Step, Moves, Doing, SourceState
  <2>2. n.copy = db /\ n.pc \in {"judge", "updateGet"}
    BY DEF Doing
  <2> HIDE DEF n
  <2>3. UNCHANGED <<db, handled, streak, delivered>> /\ source[s].pc # "idle"
    BY <1>2 DEF DriftGet, At
  <2>4. serial /\ source'[s] = n => UpToDate(source[s])'
    BY <1>o, <2>2, <2>3 DEF UpToDate
  <2> QED
    BY <1>t, <1>o, <1>a, <2>1, <2>2, <2>3, <2>4, MoveInv DEF Follows
<1>3. ASSUME NEW s \in Source, Judge(s) PROVE BaselineInv'
  <2> DEFINE old == source[s].copy
             d == DriftCount(old.drift, IsAnomaly(s))
             n == Doing("driftPut", source[s].outlier, IsAnomaly(s),
                        WithDrift(old, d))
  <2>1. IsAnomaly(s) \in BOOLEAN /\ d \in Nat
    BY <1>t, <1>c DEF IsAnomaly, DriftCount
  <2>2. WithDrift(old, d) \in Record
    BY <1>c, <2>1 DEF WithDrift, Record
  <2>3. Moves(s, n)
    BY <1>3, <1>c, <2>1, <2>2 DEF Judge, Step, Moves, Doing, SourceState
  <2>4. /\ n.pc = "driftPut" /\ n.anomaly = IsAnomaly(s) /\ n.copy.drift = d
        /\ n.copy.count = old.count /\ n.copy.samples = old.samples
    BY DEF Doing, WithDrift
  <2>5. /\ UNCHANGED <<db, handled, streak, delivered>>
        /\ source[s].pc = "judge"
    BY <1>3 DEF Judge, At
  <2>6. serial => old.count = handled /\ old.drift = streak
    BY <1>a, <2>5 DEF UpToDate
  <2>7. n.copy.count <= handled /\ Follows(n.copy)
    BY <1>c, <2>4 DEF Follows
  <2> HIDE DEF n
  <2>8. serial /\ source'[s] = n => UpToDate(source[s])'
    BY <2>4, <2>5, <2>6 DEF UpToDate, DriftCount
  <2> QED
    BY <1>t, <1>o, <1>a, <2>3, <2>5, <2>7, <2>8, MoveInv DEF Follows
<1>4. ASSUME NEW s \in Source, DriftPut(s) PROVE BaselineInv'
  <2> DEFINE n == Doing("updateGet", source[s].outlier, source[s].anomaly,
                        source[s].copy)
  <2>1. Moves(s, n)
    BY <1>4, <1>c DEF DriftPut, Step, Moves, Doing, SourceState
  <2>2. n.pc = "updateGet" /\ n.copy = source[s].copy
    BY DEF Doing
  <2> HIDE DEF n
  <2>3. /\ UNCHANGED <<handled, delivered>> /\ db' = source[s].copy
        /\ streak' = DriftCount(streak, source[s].anomaly)
        /\ source[s].pc = "driftPut"
    BY <1>4 DEF DriftPut, At, DriftCount
  <2>4. streak' \in Nat
    BY <1>t, <2>3 DEF DriftCount
  <2>5. serial => db'.count = handled' /\ db'.drift = streak'
    BY <1>a, <2>3 DEF UpToDate
  <2>6. source'[s] = n => UpToDate(source[s])'
    BY <2>2 DEF UpToDate
  <2> QED
    BY <1>t, <1>c, <1>a, <2>1, <2>2, <2>3, <2>4, <2>5, <2>6, MoveInv
       DEF Follows
<1>5. ASSUME NEW s \in Source, UpdateGet(s) PROVE BaselineInv'
  <2> DEFINE n == Doing("updatePut", source[s].outlier, source[s].anomaly, db)
  <2>1. Moves(s, n)
    BY <1>5, <1>t, <1>c DEF UpdateGet, Step, Moves, Doing, SourceState
  <2>2. n.copy = db /\ n.pc = "updatePut"
    BY DEF Doing
  <2> HIDE DEF n
  <2>3. UNCHANGED <<db, handled, streak, delivered>> /\ source[s].pc # "idle"
    BY <1>5 DEF UpdateGet, At
  <2>4. serial /\ source'[s] = n => UpToDate(source[s])'
    BY <1>o, <2>2, <2>3 DEF UpToDate
  <2> QED
    BY <1>t, <1>o, <1>a, <2>1, <2>2, <2>3, <2>4, MoveInv DEF Follows
<1>6. ASSUME NEW s \in Source, UpdatePut(s) PROVE BaselineInv'
  <2> DEFINE n == Doing("idle", FALSE, FALSE, NoRecord)
  <2>1. Moves(s, n)
    BY <1>6, <1>n DEF UpdatePut, Step, Moves, Doing, SourceState
  <2>2. n.copy = NoRecord /\ n.pc = "idle"
    BY DEF Doing
  <2> HIDE DEF n
  <2>3. /\ UNCHANGED <<streak, delivered>> /\ source[s].pc = "updatePut"
        /\ db' = Counted(source[s].copy) /\ handled' = handled + 1
    BY <1>6 DEF UpdatePut, At
  <2>4. /\ db' \in Record /\ Follows(db')
        /\ db'.count = source[s].copy.count + 1
        /\ db'.drift = source[s].copy.drift
    BY <1>c, <2>3, CountedWhole
  <2>5. serial => db'.count = handled' /\ db'.drift = streak'
    BY <1>a, <2>3, <2>4 DEF UpToDate
  <2>6. source'[s] = n => UpToDate(source[s])'
    BY <2>2 DEF UpToDate
  <2>7. /\ handled' \in Nat /\ handled <= handled' /\ db'.count <= handled'
        /\ n.copy.count <= handled'
    BY <1>t, <1>c, <1>n, <2>2, <2>3, <2>4
  <2> QED
    BY <1>t, <1>n, <1>a, <2>1, <2>2, <2>3, <2>4, <2>5, <2>6, <2>7, MoveInv
       DEF Follows
<1>7. CASE Crash
  <2>1. Idle \in SourceState /\ Idle.pc = "idle" /\ Idle.copy = NoRecord
    BY <1>n DEF Idle, Doing, SourceState
  <2>2. /\ source' = [s \in Source |-> Idle]
        /\ UNCHANGED <<serial, db, handled, streak, delivered>>
    BY <1>7 DEF Crash
  <2>3. BaselineTypeOK' /\ WholeRecords'
    BY <1>t, <1>n, <2>1, <2>2 DEF BaselineTypeOK, WholeRecords, Follows
  <2>4. OneAtATime'
    BY <1>o, <2>1, <2>2 DEF OneAtATime, UpToDate
  <2> QED
    BY <2>3, <2>4 DEF BaselineInv
<1>8. CASE UNCHANGED baselineVars
  BY <1>8 DEF baselineVars, BaselineInv, BaselineTypeOK, WholeRecords, OneAtATime, UpToDate,
              Follows
<1> QED
  BY <1>1, <1>2, <1>3, <1>4, <1>5, <1>6, <1>7, <1>8 DEF BaselineNext, SourceStep

-----------------------------------------------------------------------------
LEMMA Invariant == BaselineSpec => []BaselineInv
  BY InitInv, NextInv, PTL DEF BaselineSpec

(* Whatever the interleaving of the goroutines that feed a baseline and    *)
(* whatever the crashes, the stored record is whole: its window of samples *)
(* holds as many as its count says, up to maxSamples.                      *)
THEOREM SamplesFollowCountHolds == BaselineSpec => []SamplesFollowCount
<1>1. BaselineInv => SamplesFollowCount
  BY DEF BaselineInv, WholeRecords, Follows, SamplesFollowCount
<1> QED
  BY <1>1, Invariant, PTL

(* Overlapping updates may lose samples and never count one twice.         *)
THEOREM NoSampleInventedHolds == BaselineSpec => []NoSampleInvented
<1>1. BaselineInv => NoSampleInvented
  BY DEF BaselineInv, WholeRecords, NoSampleInvented
<1> QED
  BY <1>1, Invariant, PTL

(* While results come one at a time no sample is lost, crashes between     *)
(* DetectDrift and Update included.                                        *)
THEOREM NoSampleLostHolds == BaselineSpec => []NoSampleLost
<1>1. BaselineInv => NoSampleLost
  BY DEF BaselineInv, OneAtATime, NoSampleLost
<1> QED
  BY <1>1, Invariant, PTL

(* RUNBOOK.md:27: with results one at a time, DetectDrift reports a drift  *)
(* exactly when at least drift_consecutive anomalies came in a row.        *)
THEOREM DriftAfterRowHolds == BaselineSpec => DriftAfterRow
<1>1. ASSUME BaselineInv, NEW s \in Source, DriftPut(s), serial
      PROVE  ReportsDrift(s) <=> streak' >= Consecutive
  <2>1. source[s].copy.drift = DriftCount(streak, source[s].anomaly)
    BY <1>1 DEF DriftPut, At, BaselineInv, OneAtATime, UpToDate
  <2>2. streak' = DriftCount(streak, source[s].anomaly)
    BY <1>1 DEF DriftPut, DriftCount
  <2> QED
    BY <2>1, <2>2 DEF ReportsDrift
<1>2. BaselineInv => [\A s \in Source :
        DriftPut(s) /\ serial => (ReportsDrift(s) <=> streak' >= Consecutive)]_baselineVars
  BY <1>1
<1> QED
  BY <1>2, Invariant, PTL DEF DriftAfterRow
=============================================================================
