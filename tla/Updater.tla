------------------------------ MODULE Updater ------------------------------
(***************************************************************************)
(* The signatures updater of internal/signatures/updater.go: the timer     *)
(* loop and the API's handlers run runOnce under one mutex, while a reload *)
(* replaces the configuration under another.  The status of the last run   *)
(* is kept in the database, the feeds in a cache directory, where an       *)
(* air-gap import writes too.                                              *)
(*                                                                         *)
(* The cache directory and the address of a feed are the same in all       *)
(* settings: each feed has one file, which an import can hold as well, and *)
(* OtherFile is what else an import brings.  A process that dies leaves    *)
(* what it has written.                                                    *)
(*                                                                         *)
(* A Status carries the number of its run where the code has LastRun, and  *)
(* of each entry only whether it has an error.  Errors of the database are *)
(* left out.                                                               *)
(***************************************************************************)
EXTENDS Naturals, Sequences

CONSTANTS
    Source,      \* identifiers of feeds
    Configs,     \* signature settings that a configuration file can hold
    Bundles,     \* the files that an import can find at its path, in order
    Handler,     \* requests that the API can handle at the same time
    MaxRuns      \* bounds the updates ever asked for

Timer == "timer"
Nobody == "nobody"
Worker == Handler \cup {Timer}
OtherFile == "other"
CachedFile == Source \cup {OtherFile}

(* sources is the list of enabled feeds, registered those with a URL of    *)
(* their own or a built-in one (builtInSources).                           *)
ConfigShape(c) ==
    /\ DOMAIN c = {"enabled", "airgap", "sources", "registered"}
    /\ c.enabled \in BOOLEAN /\ c.airgap \in BOOLEAN
    /\ c.sources \in Seq(Source) /\ c.registered \subseteq Source

ASSUME UpdaterAssumption ==
    /\ {Timer, Nobody} \cap Handler = {} /\ {"airgap", OtherFile} \cap Source = {}
    /\ Bundles \subseteq Seq(CachedFile)
    /\ Configs # {} /\ \A c \in Configs : ConfigShape(c)
    /\ MaxRuns \in Nat

Entry == Source \cup {"airgap"}
Status == [run : Nat, result : [Entry -> {"absent", "ok", "error"}]]
EmptyStatus(n) == [run |-> n, result |-> [e \in Entry |-> "absent"]]

VARIABLES
    up,          \* FALSE once ctx is cancelled
    cfg,         \* Updater.cfg
    registered,  \* Updater.sources
    lock,        \* holder of Updater.mu
    runs,        \* runs begun so far
    asked,       \* updates asked for so far, for the bound
    worker,      \* goroutines on their way through runOnce
    db,          \* bucket signatures
    file,        \* the files of the cache directory
    opened       \* run of the last import that opened each file (observer)

updaterVars ==
    <<up, cfg, registered, lock, runs, asked, worker, db, file, opened>>

WorkerState ==
    [pc : {"idle", "lock", "fetch", "import", "copy", "save"},
     cancelled : BOOLEAN, todo : Seq(CachedFile), status : Status]

At(pc, cancelled, todo, status) ==
    [pc |-> pc, cancelled |-> cancelled, todo |-> todo, status |-> status]

Idle == At("idle", FALSE, <<>>, EmptyStatus(0))
Busy(w) == worker[w].pc # "idle"

UpdaterTypeOK ==
    /\ up \in BOOLEAN /\ cfg \in Configs
    /\ registered \subseteq Source
    /\ lock \in Worker \cup {Nobody}
    /\ runs \in Nat /\ asked \in 0..MaxRuns
    /\ worker \in [Worker -> WorkerState]
    /\ \A w \in Worker : /\ worker[w].pc = "fetch" => worker[w].todo \in Seq(Source)
                         /\ worker[w].pc = "copy" => worker[w].todo # <<>>
    /\ db \in Status
    /\ file \in [CachedFile -> {"none", "whole", "torn"}]
    /\ opened \in [CachedFile -> Nat]

UpdaterInit ==
    /\ up = TRUE /\ cfg \in Configs /\ registered = cfg.registered
    /\ lock = Nobody /\ runs = 0 /\ asked = 0
    /\ worker = [w \in Worker |-> Idle]
    /\ db = EmptyStatus(0)
    /\ file = [f \in CachedFile |-> "none"]
    /\ opened = [f \in CachedFile |-> 0]

Goes(w, pc, todo, status) ==
    worker' = [worker EXCEPT ![w] = At(pc, worker[w].cancelled, todo, status)]

CancelledAt(w) == At(worker[w].pc, TRUE, worker[w].todo, worker[w].status)

-----------------------------------------------------------------------------
(* Trigger and the timer loop look at Enabled before they wait for the     *)
(* mutex.                                                                  *)
Enter(w) == worker' = [worker EXCEPT ![w] = At("lock", FALSE, <<>>, EmptyStatus(0))]

TimerFires ==
    /\ up /\ ~Busy(Timer) /\ cfg.enabled /\ asked < MaxRuns
    /\ asked' = asked + 1
    /\ Enter(Timer)
    /\ UNCHANGED <<up, cfg, registered, lock, runs, db, file, opened>>

(* What the run goes through, file by file: an import what its path holds  *)
(* now, an update the list of its settings.                                *)
Starts(w, st) ==
    IF cfg.airgap THEN \E todo \in Bundles : Goes(w, "import", todo, st)
    ELSE Goes(w, "fetch", cfg.sources, st)

(* Mutant: the mutex is not taken. *)
BeginUnlocked(w) ==
    /\ worker[w].pc = "lock"
    /\ lock' = w
    /\ runs' = runs + 1
    /\ Starts(w, EmptyStatus(runs + 1))
    /\ UNCHANGED <<up, cfg, registered, asked, db, file, opened>>

(* The head of runOnce: mu.Lock, getConfig and lastRun.                    *)
Begin(w) ==
    /\ worker[w].pc = "lock" /\ lock = Nobody
    /\ lock' = w
    /\ runs' = runs + 1
    /\ Starts(w, EmptyStatus(runs + 1))
    /\ UNCHANGED <<up, cfg, registered, asked, db, file, opened>>

With(status, e, r) ==
    [run |-> status.run, result |-> [status.result EXCEPT ![e] = r]]

(* What a download leaves of the file it replaces: it is written beside it *)
(* and renamed when it is complete.                                        *)
(* Mutant: it is written in place.                                         *)
DownloadedInPlace(s, ok) == IF ok THEN "whole" ELSE "torn"

Downloaded(s, ok) == IF ok THEN "whole" ELSE file[s]

(* The next feed of the list.  Updater.sources is read here, without       *)
(* cfgMu; a cancelled context makes the download fail.                     *)
Fetch(w, ok) ==
    /\ worker[w].pc = "fetch" /\ worker[w].todo # <<>>
    /\ LET s == Head(worker[w].todo)
       IN  /\ ok => s \in registered /\ ~worker[w].cancelled
           /\ Goes(w, "fetch", Tail(worker[w].todo),
                   With(worker[w].status, s, IF ok THEN "ok" ELSE "error"))
           /\ file' = IF s \in registered
                      THEN [file EXCEPT ![s] = Downloaded(s, ok)]
                      ELSE file
    /\ UNCHANGED <<up, cfg, registered, lock, runs, asked, db, opened>>

(* importAirgap: the path may be missing, an archive damaged, a name in it *)
(* refused.  What was copied before stays.                                 *)
ImportFails(w) ==
    /\ worker[w].pc = "import"
    /\ Goes(w, "save", <<>>, With(worker[w].status, "airgap", "error"))
    /\ UNCHANGED <<up, cfg, registered, lock, runs, asked, db, file, opened>>

(* os.Create cuts the old file off, in the directory of the feeds, and     *)
(* whatever becomes of the context.                                        *)
ImportOpens(w) ==
    /\ worker[w].pc = "import" /\ worker[w].todo # <<>>
    /\ file' = [file EXCEPT ![Head(worker[w].todo)] = "torn"]
    /\ opened' = [opened EXCEPT ![Head(worker[w].todo)] = worker[w].status.run]
    /\ Goes(w, "copy", worker[w].todo, worker[w].status)
    /\ UNCHANGED <<up, cfg, registered, lock, runs, asked, db>>

FileCopied(w) ==
    /\ worker[w].pc = "copy"
    /\ file' = [file EXCEPT ![Head(worker[w].todo)] = "whole"]
    /\ Goes(w, "import", Tail(worker[w].todo), worker[w].status)
    /\ UNCHANGED <<up, cfg, registered, lock, runs, asked, db, opened>>

(* Mutant: an error in the middle of the copy is dropped. *)
CopyErrorDropped == "ok"

CopyError == "error"

(* The copy breaks off: the file stays as far as it got. *)
CopyFails(w) ==
    /\ worker[w].pc = "copy"
    /\ Goes(w, "save", <<>>, With(worker[w].status, "airgap", CopyError))
    /\ UNCHANGED <<up, cfg, registered, lock, runs, asked, db, file, opened>>

ImportEnds(w) ==
    /\ worker[w].pc = "import" /\ worker[w].todo = <<>>
    /\ Goes(w, "save", <<>>, With(worker[w].status, "airgap", "ok"))
    /\ UNCHANGED <<up, cfg, registered, lock, runs, asked, db, file, opened>>

(* SaveStatus and the deferred Unlock. *)
Ready(w) ==
    \/ worker[w].pc = "save"
    \/ worker[w].pc = "fetch" /\ worker[w].todo = <<>>

Save(w) ==
    /\ Ready(w)
    /\ db' = worker[w].status
    /\ lock' = Nobody
    /\ worker' = [worker EXCEPT ![w] = Idle]
    /\ UNCHANGED <<up, cfg, registered, runs, asked, file, opened>>

Work(w) ==
    \/ \E ok \in BOOLEAN : Fetch(w, ok)
    \/ ImportFails(w) \/ ImportOpens(w) \/ FileCopied(w) \/ CopyFails(w) \/ ImportEnds(w)

-----------------------------------------------------------------------------
(* UpdateConfig, called by a reload. *)
UpdateConfig ==
    /\ up
    /\ cfg' \in Configs /\ registered' = cfg'.registered
    /\ UNCHANGED <<up, lock, runs, asked, worker, db, file, opened>>

(* SIGTERM cancels the context of the timer loop. *)
Stop ==
    /\ up /\ up' = FALSE
    /\ worker' = [worker EXCEPT ![Timer] = IF Busy(Timer) THEN CancelledAt(Timer) ELSE @]
    /\ UNCHANGED <<cfg, registered, lock, runs, asked, db, file, opened>>

(* The process ends and is started again, with any configuration: what was *)
(* in memory is gone, the database and the files stay as they are.         *)
Restart ==
    /\ up' = TRUE
    /\ cfg' \in Configs /\ registered' = cfg'.registered
    /\ lock' = Nobody
    /\ worker' = [w \in Worker |-> Idle]
    /\ UNCHANGED <<runs, asked, db, file, opened>>

-----------------------------------------------------------------------------
(* Properties. *)

(* An update that began earlier never overwrites the status of a later     *)
(* one: lastRun is taken and the status saved under one mutex.             *)
SavedNewest == [][db'.run >= db.run]_updaterVars

(* What a status says of the cache: a feed it calls updated has its whole  *)
(* file, and so has all that an import has copied which it calls complete, *)
(* unless a later import has opened the file again.                        *)
Truthful(status) ==
    /\ \A s \in Source :
         status.result[s] = "ok" => file[s] = "whole" \/ opened[s] > status.run
    /\ status.result["airgap"] = "ok" =>
         \A f \in CachedFile : opened[f] = status.run => file[f] = "whole"

(* After whatever failures, cancellations and crashes the stored status is *)
(* true, but for files that an import has opened which is still at work or *)
(* died before it saved a status of its own: an import that fails says so, *)
(* and takes back what the status before it said of the feeds.             *)
StatusMeansCached == Truthful(db)
=============================================================================
