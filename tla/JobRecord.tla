----------------------------- MODULE JobRecord -----------------------------
(***************************************************************************)
(* What the scheduler promises about the record of a job in the database,  *)
(* without goroutines, timers, retries and job objects: runs of a job come *)
(* one at a time, a run of an interval job begins only when its interval   *)
(* has passed since the last run on record, and each save tells of exactly *)
(* one run, the one that has just ended.  The daemon may end at any point  *)
(* and start again with other entries; what is on record stays.            *)
(***************************************************************************)
EXTENDS Integers

CONSTANTS
    Name,       \* job names
    Config,     \* entries of configuration files
    Horizon,    \* where the age of a run saturates
    FailCap     \* where the number of failures saturates

Never == -1     \* the age of no run

VARIABLES
    entry,      \* the entry each job was loaded with, as a set of at most one
    record,     \* what the database holds of each job
    run         \* the run of each job that is under way or not yet on record

vars == <<entry, record, run>>

NoRun == [at |-> "idle", ok |-> FALSE, age |-> 0]

Init ==
    /\ entry = [n \in Name |-> {}]
    /\ record = [n \in Name |-> [last |-> Never, fails |-> 0]]
    /\ run = [n \in Name |-> NoRun]

Load(n, c) ==
    /\ entry[n] = {}
    /\ entry' = [entry EXCEPT ![n] = {c}]
    /\ UNCHANGED <<record, run>>

(* A run on start does not reschedule the job, so that only interval jobs  *)
(* without one keep their distance.                                        *)
Rested(c, r) ==
    c.kind = "interval" /\ ~c.runOnStart /\ r.last # Never => r.last >= c.every

Begin(n) ==
    /\ run[n] = NoRun
    /\ \E c \in entry[n] : Rested(c, record[n])
    /\ run' = [run EXCEPT ![n] = [at |-> "runs", ok |-> FALSE, age |-> 0]]
    /\ UNCHANGED <<entry, record>>

End(n, ok) ==
    /\ run[n].at = "runs"
    /\ run' = [run EXCEPT ![n] = [at |-> "ended", ok |-> ok, age |-> 0]]
    /\ UNCHANGED <<entry, record>>

Failures(r, ok) ==
    IF ok THEN 0 ELSE IF r.fails < FailCap THEN r.fails + 1 ELSE FailCap

Save(n) ==
    /\ run[n].at = "ended"
    /\ record' = [record EXCEPT ![n] =
                    [last |-> run[n].age, fails |-> Failures(record[n], run[n].ok)]]
    /\ run' = [run EXCEPT ![n] = NoRun]
    /\ UNCHANGED entry

(* The process ends: runs that are not on record are forgotten. *)
Die ==
    /\ entry' = [n \in Name |-> {}]
    /\ run' = [n \in Name |-> NoRun]
    /\ UNCHANGED record

Older(a) == IF a = Never \/ a = Horizon THEN a ELSE a + 1

Tick ==
    /\ record' = [n \in Name |-> [record[n] EXCEPT !.last = Older(@)]]
    /\ run' = [n \in Name |->
                 IF run[n].at = "ended" THEN [run[n] EXCEPT !.age = Older(@)] ELSE run[n]]
    /\ UNCHANGED entry

JobStep(n) ==
    \/ \E c \in Config : Load(n, c)
    \/ Begin(n)
    \/ \E ok \in BOOLEAN : End(n, ok)
    \/ Save(n)

Next == (\E n \in Name : JobStep(n)) \/ Die \/ Tick

Spec == Init /\ [][Next]_vars
=============================================================================
