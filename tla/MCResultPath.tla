---------------------------- MODULE MCResultPath ----------------------------
(* Instances of ResultPath for TLC: a job and a manual run of one plugin. *)
EXTENDS ResultPath, TLC

CONSTANTS job, manual

(* The window and the number of scanners by default, a shorter cooldown. *)
MCConfigs ==
    {[window |-> 0, minScan |-> 0, cooldown |-> 1]}

Symmetry == Permutations(Source)
=============================================================================
