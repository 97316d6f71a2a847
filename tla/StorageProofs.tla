--------------------------- MODULE StorageProofs ---------------------------
(***************************************************************************)
(* Proofs about Storage, for any keys, any retention time and any bound on *)
(* the time a start lasts.                                                 *)
(***************************************************************************)
EXTENDS Storage, TLAPS

USE StorageAssumption DEF StorageAssumption

LEMMA Buckets ==
  /\ Bucket = {"baselines", "results", "scheduler_state", "signatures"}
  /\ Place["baselines"] = 1 /\ \A c \in Bucket : Place[c] \in 1..4
BY DEF Bucket, Place

(* Ages and absence are told apart. *)
LEMMA Ages == Absent \notin Age /\ 0 \in Age /\ Oldest \in Age
BY DEF Absent, Age, Oldest

LEMMA StartTyped == 0 \in 0..MaxUptime
OBVIOUS

LEMMA DeleteAllTyped ==
  ASSUME TypeOK, NEW es, DeleteAll(es)
  PROVE  /\ db' \in [Entry -> Age \cup {Absent}]
         /\ \A e \in Entry : db'[e] = IF e \in es THEN Absent ELSE db[e]
BY DEF DeleteAll, TypeOK

LEMMA PutTyped ==
  ASSUME TypeOK, NEW b \in Bucket, NEW i \in Id, Put(b, i)
  PROVE  /\ db' \in [Entry -> Age \cup {Absent}]
         /\ \A e \in Entry : db'[e] = IF e = <<b, i>> THEN 0 ELSE db[e]
BY Ages DEF Put, TypeOK, Entry

LEMMA TickTyped ==
  ASSUME TypeOK, Tick
  PROVE  /\ db' \in [Entry -> Age \cup {Absent}]
         /\ \A e \in Entry :
              db'[e] = IF db[e] \in {Absent, Oldest} THEN db[e] ELSE db[e] + 1
<1>1. ASSUME NEW e \in Entry, db[e] \notin {Absent, Oldest} PROVE db[e] + 1 \in Age
  BY <1>1 DEF TypeOK, Age, Oldest
<1> QED BY <1>1 DEF Tick, TypeOK

LEMMA TypeStep == TypeOK /\ [Next]_vars => TypeOK'
<1> SUFFICES ASSUME TypeOK, [Next]_vars PROVE TypeOK' OBVIOUS
<1>1. CASE Boot \/ Stop
  <2>1. since' \in 0..MaxUptime BY <1>1, StartTyped DEF Boot, Stop, TypeOK
  <2> QED BY <1>1, <2>1 DEF Boot, Stop, TypeOK
<1>2. CASE PruneResults BY <1>2, DeleteAllTyped DEF PruneResults, TypeOK
<1>3. CASE PruneBaselines BY <1>3, DeleteAllTyped DEF PruneBaselines, TypeOK
<1>4. CASE CrashInPrune BY <1>4, DeleteAllTyped DEF CrashInPrune, TypeOK
<1>5. ASSUME NEW i \in Id, SaveResult(i) PROVE TypeOK'
  <2>1. "results" \in Bucket BY Buckets
  <2> QED BY <1>5, <2>1, PutTyped DEF SaveResult, TypeOK
<1>6. ASSUME NEW i \in Id, NEW b \in Bucket, PutOther(b, i) PROVE TypeOK'
  BY <1>6, PutTyped DEF PutOther, TypeOK
<1>7. CASE Tick
  <2>1. since' \in 0..MaxUptime BY <1>7 DEF Tick, TypeOK
  <2> QED BY <1>7, <2>1, TickTyped DEF Tick, TypeOK
<1>8. CASE UNCHANGED vars BY <1>8 DEF vars, TypeOK
<1> QED BY <1>1, <1>2, <1>3, <1>4, <1>5, <1>6, <1>7, <1>8 DEF Next

(* The database is well typed: no entry is stored without its time.        *)
THEOREM StorageTypeCorrect == Spec => []TypeOK
<1>1. Init => TypeOK BY StartTyped DEF Init, TypeOK
<1> QED BY <1>1, TypeStep, PTL DEF Spec

(* ForEach reaches the bucket of the smallest name, whatever is stored.    *)
LEMMA SmallestReached == ForEach("baselines") = Stored("baselines")
BY Buckets DEF ForEach

(* What the pruning of the baselines leaves, if it ends without an error.  *)
LEMMA PruningComplete ==
  ASSUME TypeOK, DeleteAll(Expired("baselines"))
  PROVE  \A e \in Stored("baselines")' : db'[e] <= RetentionDays + since
<1> SUFFICES ASSUME NEW e \in Stored("baselines")' PROVE db'[e] <= RetentionDays + since OBVIOUS
<1>1. e \in Entry /\ e[1] = "baselines" /\ db'[e] # Absent BY DEF Stored
<1>2. db'[e] = IF e \in Expired("baselines") THEN Absent ELSE db[e] BY <1>1, DeleteAllTyped
<1>3. db'[e] = db[e] /\ e \notin Expired("baselines") BY <1>1, <1>2
<1>4. e \in ForEach("baselines") BY <1>1, <1>3, SmallestReached DEF Stored
<1>5. db[e] \in Nat /\ since \in Nat BY <1>1, <1>3 DEF TypeOK, Age
<1>6. ~(db[e] > RetentionDays + since) BY <1>3, <1>4 DEF Expired
<1> QED BY <1>3, <1>5, <1>6

(* README.md:144: while the daemon is up, no baseline is kept that was     *)
(* beyond the retention time when it started, unless a delete failed.      *)
THEOREM NoBaselineOutlivesHolds == Spec => []NoBaselineOutlives
<1>1. Init => NoBaselineOutlives BY DEF Init, NoBaselineOutlives
<1>2. TypeOK /\ NoBaselineOutlives /\ [Next]_vars => NoBaselineOutlives'
  <2> SUFFICES ASSUME TypeOK, NoBaselineOutlives, [Next]_vars,
                      phase' = "up", pruned', NEW e \in Stored("baselines")'
               PROVE  db'[e] <= RetentionDays + since'
    BY DEF NoBaselineOutlives
  <2>1. e \in Entry /\ e[1] = "baselines" /\ db'[e] # Absent BY DEF Stored
  <2>2. db[e] # Absent => db[e] \in Age BY <2>1 DEF TypeOK
  <2>3. since \in Nat BY DEF TypeOK
  <2>4. ASSUME phase = "up", pruned, db[e] # Absent PROVE db[e] <= RetentionDays + since
    BY <2>1, <2>4 DEF NoBaselineOutlives, Stored
  <2>5. ASSUME NEW b \in Bucket, NEW i \in Id, Put(b, i), UNCHANGED <<phase, since, pruned>>
        PROVE  db'[e] <= RetentionDays + since'
    <3>1. db'[e] = IF e = <<b, i>> THEN 0 ELSE db[e] BY <2>1, <2>5, PutTyped
    <3> QED BY <2>1, <2>3, <2>4, <2>5, <3>1
  <2>6. CASE PruneResults BY <2>6 DEF PruneResults
  <2>7. CASE PruneBaselines
    <3>1. DeleteAll(Expired("baselines")) /\ since' = since BY <2>7 DEF PruneBaselines
    <3> QED BY <3>1, PruningComplete
  <2>8. CASE Boot \/ CrashInPrune \/ Stop BY <2>8 DEF Boot, CrashInPrune, Stop
  <2>9. ASSUME NEW i \in Id, SaveResult(i) PROVE db'[e] <= RetentionDays + since'
    BY <2>5, <2>9, Buckets DEF SaveResult
  <2>10. ASSUME NEW i \in Id, NEW b \in Bucket, PutOther(b, i)
         PROVE  db'[e] <= RetentionDays + since'
    BY <2>5, <2>10 DEF PutOther
  <2>11. CASE Tick
    <3>1. phase = "up" /\ pruned /\ since' = since + 1 BY <2>11 DEF Tick
    <3>2. db'[e] = IF db[e] \in {Absent, Oldest} THEN db[e] ELSE db[e] + 1
      BY <2>1, <2>11, TickTyped
    <3>3. db[e] # Absent BY <2>1, <3>2
    <3>4. db[e] <= RetentionDays + since BY <2>4, <3>1, <3>3
    <3>5. db'[e] \in {db[e], db[e] + 1} BY <3>2
    <3> QED BY <2>2, <2>3, <3>1, <3>3, <3>4, <3>5 DEF Age
  <2>12. CASE UNCHANGED vars BY <2>1, <2>4, <2>12 DEF vars
  <2> QED BY <2>6, <2>7, <2>8, <2>9, <2>10, <2>11, <2>12 DEF Next
<1> QED BY <1>1, <1>2, StorageTypeCorrect, PTL DEF Spec

(* Nothing is ever removed but results and baselines that were beyond the  *)
(* retention time when the daemon started, by prunings that fail or die    *)
(* in the middle neither.                                                  *)
THEOREM OnlyExpiredRemovedHolds == Spec => OnlyExpiredRemoved
<1> DEFINE Right(e) == db[e] # Absent /\ db'[e] = Absent =>
                         e[1] \in {"results", "baselines"} /\ db[e] > RetentionDays + since
<1>1. ASSUME TypeOK, Next, NEW e \in Entry PROVE Right(e)
  <2>1. ASSUME NEW b \in {"results", "baselines"}, NEW es \in SUBSET Expired(b), DeleteAll(es)
        PROVE  Right(e)
    <3>1. db'[e] = IF e \in es THEN Absent ELSE db[e] BY <1>1, <2>1, DeleteAllTyped
    <3>2. e \in Expired(b) => e[1] = b /\ db[e] > RetentionDays + since
      BY DEF Expired, ForEach, Stored
    <3> QED BY <3>1, <3>2
  <2>2. ASSUME NEW b \in Bucket, NEW i \in Id, Put(b, i) PROVE Right(e)
    BY <1>1, <2>2, PutTyped, Ages
  <2>3. ASSUME UNCHANGED db PROVE Right(e) BY <2>3
  <2>4. CASE PruneResults BY <2>1, <2>4 DEF PruneResults
  <2>5. CASE PruneBaselines
    <3>1. PICK es \in SUBSET Expired("baselines") : DeleteAll(es) BY <2>5 DEF PruneBaselines
    <3> QED BY <2>1, <3>1
  <2>6. CASE CrashInPrune
    <3>1. PICK es \in SUBSET Expired(IF phase = "pruneResults" THEN "results" ELSE "baselines") :
            DeleteAll(es)
      BY <2>6 DEF CrashInPrune
    <3> QED BY <2>1, <3>1
  <2>7. ASSUME NEW i \in Id, SaveResult(i) PROVE Right(e)
    BY <2>2, <2>7, Buckets DEF SaveResult
  <2>8. ASSUME NEW i \in Id, NEW b \in Bucket, PutOther(b, i) PROVE Right(e)
    BY <2>2, <2>8 DEF PutOther
  <2>9. CASE Boot \/ Stop BY <2>3, <2>9 DEF Boot, Stop
  <2>10. CASE Tick
    <3>1. db'[e] = IF db[e] \in {Absent, Oldest} THEN db[e] ELSE db[e] + 1
      BY <1>1, <2>10, TickTyped
    <3> QED BY <1>1, <3>1 DEF TypeOK, Age, Absent
  <2> QED BY <1>1, <2>4, <2>5, <2>6, <2>7, <2>8, <2>9, <2>10 DEF Next
<1>2. TypeOK /\ [Next]_vars => [\A e \in Entry : Right(e)]_vars BY <1>1
<1> QED BY <1>2, StorageTypeCorrect, PTL DEF OnlyExpiredRemoved, Spec
=============================================================================
