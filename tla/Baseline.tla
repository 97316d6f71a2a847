------------------------------ MODULE Baseline ------------------------------
(***************************************************************************)
(* One baseline of internal/detection/baseline.go under the goroutines     *)
(* that feed it: for every numeric value of a result, onResult             *)
(* (internal/daemon/runner.go:136-153) calls DetectDrift and then Update,  *)
(* and both read the stored record, change their copy and write the whole  *)
(* record back, without a lock around it.                                  *)
(*                                                                         *)
(* Of a value the model keeps whether it is an outlier to the baseline, of *)
(* the record its counters.                                                *)
(***************************************************************************)
EXTENDS Naturals

CONSTANTS
    Source,        \* goroutines that deliver results of the plugin: its jobs
                   \* and manual runs
    MinSamples,    \* minSamples (10 in the code)
    MaxSamples,    \* maxSamples (200 in the code)
    Consecutive,   \* drift_consecutive, raised to 1 if it is smaller
    MaxResults     \* bounds the values ever delivered

ASSUME BaselineAssumption ==
    /\ MinSamples \in Nat /\ MaxSamples \in Nat \ {0}
    /\ Consecutive \in Nat \ {0} /\ MaxResults \in Nat

Record == [count : Nat, samples : 0..MaxSamples, drift : Nat]
NoRecord == [count |-> 0, samples |-> 0, drift |-> 0]

VARIABLES
    serial,     \* is there one source of results only?
    db,         \* the stored record; NoRecord stands for none
    source,     \* where each source is in DetectDrift and Update
    handled,    \* values for which Update has written (observer)
    streak,     \* outliers in a row among the values judged (observer)
    delivered   \* values delivered so far, for the bound

baselineVars == <<serial, db, source, handled, streak, delivered>>

(* A source before the step pc, with the value and the record it holds. *)
Doing(pc, outlier, anomaly, copy) ==
    [pc |-> pc, outlier |-> outlier, anomaly |-> anomaly, copy |-> copy]

Idle == Doing("idle", FALSE, FALSE, NoRecord)

SourceState ==
    [pc : {"idle", "driftGet", "judge", "driftPut", "updateGet", "updatePut"},
     outlier : BOOLEAN, anomaly : BOOLEAN, copy : Record]

BaselineTypeOK ==
    /\ serial \in BOOLEAN
    /\ db \in Record
    /\ source \in [Source -> SourceState]
    /\ handled \in Nat /\ streak \in Nat
    /\ delivered \in 0..MaxResults

BaselineInit ==
    /\ serial \in BOOLEAN
    /\ db = NoRecord
    /\ source = [s \in Source |-> Idle]
    /\ handled = 0 /\ streak = 0 /\ delivered = 0

(* A record exists as soon as Update has written it once. *)
Exists == db.count > 0

At(s, label) == source[s].pc = label
Step(s, pc, outlier, anomaly, copy) ==
    source' = [source EXCEPT ![s] = Doing(pc, outlier, anomaly, copy)]

WithDrift(r, d) == [count |-> r.count, samples |-> r.samples, drift |-> d]

-----------------------------------------------------------------------------
Deliver(s, outlier) ==
    /\ At(s, "idle") /\ delivered < MaxResults
    /\ serial => \A t \in Source : At(t, "idle")
    /\ delivered' = delivered + 1
    /\ Step(s, "driftGet", outlier, FALSE, NoRecord)
    /\ UNCHANGED <<serial, db, handled, streak>>

(* DetectDrift returns ErrNotFound before there is a record. *)
DriftGet(s) ==
    /\ At(s, "driftGet")
    /\ Step(s, IF Exists THEN "judge" ELSE "updateGet",
               source[s].outlier, FALSE, db)
    /\ UNCHANGED <<serial, db, handled, streak, delivered>>

(* IsAnomaly on the record it reads itself; too few samples are no anomaly. *)
IsAnomaly(s) == source[s].outlier /\ db.count >= MinSamples

(* Mutant: a value that is no outlier does not end the row. *)
DriftCountKept(d, anomaly) == IF anomaly THEN d + 1 ELSE d

DriftCount(d, anomaly) == IF anomaly THEN d + 1 ELSE 0

Judge(s) ==
    /\ At(s, "judge")
    /\ LET anomaly == IsAnomaly(s)
           copy == source[s].copy
       IN  Step(s, "driftPut", source[s].outlier, anomaly,
                WithDrift(copy, DriftCount(copy.drift, anomaly)))
    /\ UNCHANGED <<serial, db, handled, streak, delivered>>

(* Mutant: DetectDrift counts the value as a sample, and so does Update. *)
DriftPutCounts(s) ==
    /\ At(s, "driftPut")
    /\ db' = [source[s].copy EXCEPT !.count = @ + 1]
    /\ streak' = IF source[s].anomaly THEN streak + 1 ELSE 0
    /\ Step(s, "updateGet", source[s].outlier, source[s].anomaly, source[s].copy)
    /\ UNCHANGED <<serial, handled, delivered>>

DriftPut(s) ==
    /\ At(s, "driftPut")
    /\ db' = source[s].copy
    /\ streak' = IF source[s].anomaly THEN streak + 1 ELSE 0
    /\ Step(s, "updateGet", source[s].outlier, source[s].anomaly, source[s].copy)
    /\ UNCHANGED <<serial, handled, delivered>>

(* What DetectDrift answers once it has written. *)
ReportsDrift(s) == source[s].copy.drift >= Consecutive

(* Mutant: Update rebuilds the record and forgets the drift count. *)
UpdateGetFresh(s) ==
    /\ At(s, "updateGet")
    /\ Step(s, "updatePut", source[s].outlier, source[s].anomaly, WithDrift(db, 0))
    /\ UNCHANGED <<serial, db, handled, streak, delivered>>

UpdateGet(s) ==
    /\ At(s, "updateGet")
    /\ Step(s, "updatePut", source[s].outlier, source[s].anomaly, db)
    /\ UNCHANGED <<serial, db, handled, streak, delivered>>

(* Mutant: the window of samples is trimmed one value too late. *)
TrimLate(n) == IF n > MaxSamples THEN MaxSamples ELSE n + 1

Trim(n) == IF n = MaxSamples THEN MaxSamples ELSE n + 1

(* Mutant: the count starts over when the window is full. *)
CountedWindow(r) ==
    [r EXCEPT !.count = IF r.samples = MaxSamples THEN MaxSamples ELSE @ + 1,
              !.samples = Trim(@)]

Counted(r) == [count |-> r.count + 1, samples |-> Trim(r.samples),
               drift |-> r.drift]

UpdatePut(s) ==
    /\ At(s, "updatePut")
    /\ db' = Counted(source[s].copy)
    /\ handled' = handled + 1
    /\ Step(s, "idle", FALSE, FALSE, NoRecord)
    /\ UNCHANGED <<serial, streak, delivered>>

(* The daemon dies and starts again: the record stays. (The pruning of the *)
(* start-up, which removes records that are long out of date, is in        *)
(* Storage.)                                                               *)
Crash ==
    /\ source' = [s \in Source |-> Idle]
    /\ UNCHANGED <<serial, db, handled, streak, delivered>>

SourceStep(s) ==
    \/ \E outlier \in BOOLEAN : Deliver(s, outlier)
    \/ DriftGet(s) \/ Judge(s) \/ DriftPut(s) \/ UpdateGet(s) \/ UpdatePut(s)

BaselineNext == Crash \/ \E s \in Source : SourceStep(s)

BaselineSpec == BaselineInit /\ [][BaselineNext]_baselineVars

-----------------------------------------------------------------------------
(* Properties. *)

(* The number of samples follows the count up to maxSamples, even when     *)
(* concurrent writers overwrite each other: a record is written whole.     *)
SamplesFollowCount ==
    db.samples = IF db.count < MaxSamples THEN db.count ELSE MaxSamples

(* The count never exceeds the values that were written, and with a single *)
(* source none is lost, whatever crash falls between DetectDrift and       *)
(* Update.                                                                 *)
NoSampleInvented == db.count <= handled
NoSampleLost == serial => db.count = handled

(* RUNBOOK.md:27, "Drift detection triggers after drift_consecutive        *)
(* anomalies": with a single source, DetectDrift reports a drift exactly   *)
(* when at least that many of the last values were anomalies in a row, and *)
(* Update does not disturb the row.                                        *)
DriftAfterRow ==
    [][\A s \in Source :
         DriftPut(s) /\ serial => (ReportsDrift(s) <=> streak' >= Consecutive)]_baselineVars
=============================================================================
