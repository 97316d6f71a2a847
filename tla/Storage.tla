------------------------------ MODULE Storage ------------------------------
(***************************************************************************)
(* The database shared by the daemon's components (internal/storage): one  *)
(* ordered key space, split into buckets by key prefix only, with the      *)
(* listings and the retention pruning built on BadgerStore.ForEach.  The   *)
(* keys of Badger come in byte order, so all keys of a bucket are          *)
(* neighbours and the buckets follow each other in alphabetical order.     *)
(*                                                                         *)
(* Of an entry the model keeps its age (FinishedAt of a result, UpdatedAt  *)
(* of a baseline) in units of retention time.  The cutoff of a start is    *)
(* computed once, before both prunings, so the model counts the time since *)
(* then: an entry was beyond the cutoff if it was too old at that moment.  *)
(***************************************************************************)
EXTENDS Integers

CONSTANTS
    Id,             \* keys within a bucket; bounds the stored results
    RetentionDays,  \* storage.retention_days
    MaxUptime       \* bounds the time one start of the daemon lasts

ASSUME StorageAssumption == RetentionDays \in Nat \ {0} /\ MaxUptime \in Nat

(* The buckets in use, with their places in byte order. *)
Place == [baselines |-> 1, results |-> 2, scheduler_state |-> 3,
          signatures |-> 4]
Bucket == DOMAIN Place
Entry == Bucket \X Id
Absent == -1

(* The largest age is beyond the cutoff of every start that still runs, so *)
(* that ages need not grow further.                                        *)
Oldest == RetentionDays + MaxUptime + 1
Age == 0..Oldest

VARIABLES
    phase,     \* "down", the two prunings of start-up, "up"
    since,     \* time since this start computed its cutoff
    pruned,    \* the baselines of this start were pruned without an error
    db         \* the age of every entry; survives restarts

vars == <<phase, since, pruned, db>>

TypeOK ==
    /\ phase \in {"down", "pruneResults", "pruneBaselines", "up"}
    /\ since \in 0..MaxUptime
    /\ pruned \in BOOLEAN
    /\ db \in [Entry -> Age \cup {Absent}]

Init ==
    /\ phase = "down" /\ since = 0 /\ pruned = FALSE
    /\ db = [e \in Entry |-> Absent]

Stored(b) == {e \in Entry : e[1] = b /\ db[e] # Absent}

(* Mutant: the iterator runs backwards, from the largest key. *)
ForEachBackwards(b) ==
    IF \E c \in Bucket : Place[c] > Place[b] /\ Stored(c) # {} THEN {}
    ELSE Stored(b)

(* ForEach rewinds to the smallest key of the whole database and stops at  *)
(* the first key without the prefix: it reaches a bucket only if no bucket *)
(* before it holds a key.                                                  *)
ForEach(b) ==
    IF \E c \in Bucket : Place[c] < Place[b] /\ Stored(c) # {} THEN {}
    ELSE Stored(b)

(* ResultsStore.List. *)
ListResults == ForEach("results")

(* Mutant: the entry is written without its time. *)
PutUnstamped(b, i) == db' = [db EXCEPT ![<<b, i>>] = Oldest + 1]

Put(b, i) == db' = [db EXCEPT ![<<b, i>>] = 0]

(* Mutant: the comparison with the cutoff is the wrong way round. *)
ExpiredSwapped(b) == {e \in ForEach(b) : db[e] < RetentionDays + since}

(* What PruneOlderThan is to delete: what is before the cutoff. *)
Expired(b) == {e \in ForEach(b) : db[e] > RetentionDays + since}

DeleteAll(es) == db' = [e \in Entry |-> IF e \in es THEN Absent ELSE db[e]]

-----------------------------------------------------------------------------
Boot ==
    /\ phase = "down" /\ phase' = "pruneResults"
    /\ since' = 0 /\ pruned' = FALSE
    /\ UNCHANGED db

(* Each Delete is a transaction; the first that fails ends the pruning,    *)
(* and the caller drops its error and starts the daemon all the same.      *)
PruneResults ==
    /\ phase = "pruneResults" /\ phase' = "pruneBaselines"
    /\ \E es \in SUBSET Expired("results") : DeleteAll(es)
    /\ UNCHANGED <<since, pruned>>

PruneBaselines ==
    /\ phase = "pruneBaselines" /\ phase' = "up"
    /\ \/ pruned' = TRUE /\ DeleteAll(Expired("baselines"))
       \/ pruned' = FALSE /\ \E es \in SUBSET Expired("baselines") : DeleteAll(es)
    /\ UNCHANGED since

(* The process dies between two deletes. *)
CrashInPrune ==
    /\ phase \in {"pruneResults", "pruneBaselines"} /\ phase' = "down"
    /\ \E es \in SUBSET Expired(IF phase = "pruneResults" THEN "results"
                                ELSE "baselines") : DeleteAll(es)
    /\ UNCHANGED <<since, pruned>>

(* ResultsStore.Save makes a new key, the others overwrite. *)
SaveResult(i) ==
    /\ phase = "up" /\ db[<<"results", i>>] = Absent
    /\ Put("results", i)
    /\ UNCHANGED <<phase, since, pruned>>

PutOther(b, i) ==
    /\ phase = "up" /\ b # "results"
    /\ Put(b, i)
    /\ UNCHANGED <<phase, since, pruned>>

Stop == phase = "up" /\ phase' = "down" /\ UNCHANGED <<since, pruned, db>>

Tick ==
    /\ \/ phase = "down" /\ UNCHANGED since
       \/ phase # "down" /\ since < MaxUptime /\ since' = since + 1
    /\ db' = [e \in Entry |-> IF db[e] \in {Absent, Oldest} THEN db[e] ELSE db[e] + 1]
    /\ UNCHANGED <<phase, pruned>>

Next ==
    \/ Boot \/ PruneResults \/ PruneBaselines \/ CrashInPrune
    \/ \E i \in Id : SaveResult(i) \/ \E b \in Bucket : PutOther(b, i)
    \/ Stop \/ Tick

Spec == Init /\ [][Next]_vars

-----------------------------------------------------------------------------
(* Properties. *)

(* README.md:144, "prunes old results/baselines", of the baselines: while  *)
(* the daemon is up, none is kept that was beyond the retention time when  *)
(* it started, whatever the other buckets hold, wherever earlier prunings  *)
(* failed or died, and however much time passed while it pruned; unless    *)
(* Badger failed to delete one at this start.                              *)
NoBaselineOutlives ==
    phase = "up" /\ pruned =>
        \A e \in Stored("baselines") : db[e] <= RetentionDays + since

(* Nothing is ever removed but results and baselines that were beyond the  *)
(* retention time when the daemon started: job states and the signature    *)
(* status stay, by prunings that fail or die in the middle too.            *)
OnlyExpiredRemoved ==
    [][\A e \in Entry :
         db[e] # Absent /\ db'[e] = Absent =>
             e[1] \in {"results", "baselines"} /\ db[e] > RetentionDays + since]_vars

(* API.md:26, GET /export/results "Returns all stored results".            *)
ResultsListed == ListResults = Stored("results")
=============================================================================
