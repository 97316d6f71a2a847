---------------------------- MODULE MCScheduler ----------------------------
(* Instances of Scheduler for TLC. *)
EXTENDS Scheduler, TLC

CONSTANTS o1, o2, o3

Entry(n, kind, every, onStart, overlap, retries) ==
    [name |-> n, valid |-> TRUE, kind |-> kind, every |-> every,
     runOnStart |-> onStart, allowOverlap |-> overlap, retries |-> retries]

(* Entries of a configuration file. *)
Plain    == Entry("a", "interval", 2, FALSE, FALSE, 1)
PlainOnce == Entry("a", "interval", 2, FALSE, FALSE, 0)
Slower   == Entry("a", "interval", 3, FALSE, FALSE, 0)
Faster   == Entry("a", "interval", 1, FALSE, FALSE, 0)
OnStart  == Entry("a", "interval", 2, TRUE, FALSE, 0)
OnStartFast == Entry("a", "interval", 1, TRUE, FALSE, 0)
Cron     == Entry("a", "cron", 1, FALSE, TRUE, 0)
Other    == Entry("b", "interval", 1, FALSE, FALSE, 0)
OtherOnStart == Entry("b", "cron", 1, TRUE, FALSE, 1)
Unparsed == [Other EXCEPT !.valid = FALSE]

ConfigA  == {Plain, PlainOnce, Faster, OnStart, Cron}
ConfigLive == {Faster, OnStartFast}
ConfigAB == ConfigA \cup {Other, OtherOnStart, Unparsed}
ConfigABSlow == ConfigAB \cup {Slower}

RestartLists == {<<Slower>>, <<OnStart, OnStart>>, <<Cron>>, <<Plain, Unparsed, Other>>}
ReloadLists  == {<<PlainOnce>>, <<Faster, Faster>>}
LiveLists    == {<<OnStartFast>>, <<Faster>>}
OneOnStart   == {<<OnStart>>}
OnePlain     == {<<Plain>>}

Symmetry == Permutations(Object)
=============================================================================
