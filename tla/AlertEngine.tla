---------------------------- MODULE AlertEngine ----------------------------
(***************************************************************************)
(* The alert engine of internal/alerting/engine.go with the goroutines     *)
(* that call Send (onResult of internal/daemon/runner.go:166) and the      *)
(* reload that replaces the engine (runner.go:240-249).  An engine is a    *)
(* number: a reload creates the next one and leaves the worker of the old  *)
(* one running.                                                            *)
(*                                                                         *)
(* Time is relative: lastSeen keeps how long ago a fingerprint was let     *)
(* through, saturating at the dedup window.                                *)
(***************************************************************************)
EXTENDS Integers, Sequences, FiniteSets

CONSTANTS
    Sender,       \* goroutines that report findings
    Alert,        \* alerts, told apart by their evidence too
    NoAlert,
    KeyOf,        \* fingerprint: scanner, severity, finding id, description
    NumChannels,  \* registered channels
    Allows,       \* the alerts the severity filter of a channel lets pass
    Window,       \* dedup_window
    QueueCap,     \* capacity of the queue (256 in the code)
    RetryMax,     \* retry_max
    Engines       \* engines created by start-up and reloads (a bound)

Channel == 1..NumChannels
Engine == 1..Engines
Key == {KeyOf[a] : a \in Alert}

ASSUME EngineAssumption ==
    /\ NoAlert \notin Alert
    /\ NumChannels \in Nat \ {0} /\ QueueCap \in Nat \ {0}
    /\ Window \in Nat \ {0} /\ RetryMax \in Nat /\ Engines \in Nat \ {0}
    /\ DOMAIN KeyOf = Alert
    /\ Allows \in [Channel -> SUBSET Alert]

Never == -1
Age == 0..Window

VARIABLES
    current,    \* the engine the variable alertEngine of Run points to
    lastSeen,   \* lastSeen of each engine, as ages
    queue,      \* queue of each engine
    worker,     \* the worker goroutine of each engine
    sender      \* a caller between isThrottled and the send on the channel

vars == <<current, lastSeen, queue, worker, sender>>

Open == [c \in Channel |-> "open"]
IdleWorker ==
    [pc |-> "idle", alert |-> NoAlert, ch |-> 1, attempt |-> 0,
     outcome |-> Open]
IdleSender == [alert |-> NoAlert, engine |-> 1, held |-> 0]

TypeOK ==
    /\ current \in Engine
    /\ lastSeen \in [Engine -> [Key -> Age \cup {Never}]]
    /\ queue \in [Engine -> Seq(Alert)]
    /\ \A e \in Engine : Len(queue[e]) <= QueueCap
    /\ worker \in [Engine ->
         [pc : {"idle", "send", "sleep"}, alert : Alert \cup {NoAlert},
          ch : Channel, attempt : 0..RetryMax,
          outcome : [Channel -> {"open", "sent", "failed"}]]]
    /\ sender \in [Sender ->
         [alert : Alert \cup {NoAlert}, engine : Engine, held : Age]]

Init ==
    /\ current = 1
    /\ lastSeen = [e \in Engine |-> [k \in Key |-> Never]]
    /\ queue = [e \in Engine |-> <<>>]
    /\ worker = [e \in Engine |-> IdleWorker]
    /\ sender = [s \in Sender |-> IdleSender]

-----------------------------------------------------------------------------
(* Send. *)

Throttled(e, k) == lastSeen[e][k] # Never /\ lastSeen[e][k] < Window

(* Mutant: isThrottled does not record the time. *)
recordSeenNot(e, k) == UNCHANGED lastSeen

recordSeen(e, k) == lastSeen' = [lastSeen EXCEPT ![e][k] = 0]

(* isThrottled lets the alert pass; a throttled one changes nothing. *)
PassThrottle(s, a) ==
    /\ sender[s].alert = NoAlert
    /\ ~Throttled(current, KeyOf[a])
    /\ recordSeen(current, KeyOf[a])
    /\ sender' = [sender EXCEPT ![s] =
                    [alert |-> a, engine |-> current, held |-> 0]]
    /\ UNCHANGED <<current, queue, worker>>

Return(s) ==
    /\ sender' = [sender EXCEPT ![s] = IdleSender]
    /\ UNCHANGED <<current, lastSeen, worker>>

(* Mutant: the queue takes one alert too many. *)
HasRoomOneMore(e) == Len(queue[e]) <= QueueCap

(* The send on the channel is possible. *)
HasRoom(e) == Len(queue[e]) < QueueCap

Enqueue(s) ==
    LET e == sender[s].engine
    IN  /\ sender[s].alert # NoAlert
        /\ HasRoom(e)
        /\ queue' = [queue EXCEPT ![e] = Append(@, sender[s].alert)]
        /\ Return(s)

(* The default case of the select: the queue is full, the alert is lost    *)
(* while its fingerprint stays recorded.                                   *)
Drop(s) ==
    /\ sender[s].alert # NoAlert
    /\ ~HasRoom(sender[s].engine)
    /\ Return(s)
    /\ UNCHANGED queue

-----------------------------------------------------------------------------
(* The worker. *)

SetWorker(e, w) ==
    worker' = [worker EXCEPT ![e] = w] /\ UNCHANGED <<current, lastSeen, sender>>

Take(e) ==
    /\ worker[e].pc = "idle" /\ queue[e] # <<>>
    /\ SetWorker(e, [IdleWorker EXCEPT !.pc = "send", !.alert = Head(queue[e])])
    /\ queue' = [queue EXCEPT ![e] = Tail(@)]

(* Mutant: a failed channel ends the delivery. *)
ChannelDoneReturns(w, how) ==
    IF w.ch = NumChannels \/ how = "failed" THEN IdleWorker
    ELSE [w EXCEPT !.pc = "send", !.ch = @ + 1, !.attempt = 0,
                   !.outcome[w.ch] = how]

(* On to the next channel, or back to the queue after the last one. *)
ChannelDone(w, how) ==
    IF w.ch = NumChannels THEN IdleWorker
    ELSE [w EXCEPT !.pc = "send", !.ch = @ + 1, !.attempt = 0,
                   !.outcome[w.ch] = how]

(* The channel takes the alert, or filters it out and returns nil too. *)
ChannelSends(e) ==
    /\ worker[e].pc = "send"
    /\ SetWorker(e, ChannelDone(worker[e], "sent"))
    /\ UNCHANGED queue

ChannelFails(e) ==
    /\ worker[e].pc = "send"
    /\ worker[e].alert \in Allows[worker[e].ch]
    /\ SetWorker(e, [worker[e] EXCEPT !.pc = "sleep"])
    /\ UNCHANGED queue

(* Mutant: the attempts are not counted. *)
RetryForever(w) == [w EXCEPT !.pc = "send"]

(* The end of the loop body: the sleep follows the last attempt as well. *)
Retry(w) ==
    IF w.attempt < RetryMax
    THEN [w EXCEPT !.pc = "send", !.attempt = @ + 1]
    ELSE ChannelDone(w, "failed")

BackoffEnds(e) ==
    /\ worker[e].pc = "sleep"
    /\ SetWorker(e, Retry(worker[e]))
    /\ UNCHANGED queue

-----------------------------------------------------------------------------
Reload ==
    /\ current < Engines
    /\ current' = current + 1
    /\ UNCHANGED <<lastSeen, queue, worker, sender>>

Tick ==
    /\ lastSeen' = [e \in Engine |-> [k \in Key |->
                      IF lastSeen[e][k] \in {Never, Window} THEN lastSeen[e][k]
                      ELSE lastSeen[e][k] + 1]]
    /\ sender' = [s \in Sender |->
                    IF sender[s].alert = NoAlert \/ sender[s].held = Window
                    THEN sender[s] ELSE [sender[s] EXCEPT !.held = @ + 1]]
    /\ UNCHANGED <<current, queue, worker>>

WorkerStep(e) ==
    Take(e) \/ ChannelSends(e) \/ ChannelFails(e) \/ BackoffEnds(e)

SenderStep(s) ==
    (\E a \in Alert : PassThrottle(s, a)) \/ Enqueue(s) \/ Drop(s)

Next ==
    \/ \E s \in Sender : SenderStep(s)
    \/ \E e \in Engine : WorkerStep(e)
    \/ Reload \/ Tick

Spec == Init /\ [][Next]_vars

(* Go runs a worker that has something to do and a caller that is past     *)
(* isThrottled; a channel's Send returns, and so does time.Sleep.          *)
Fairness ==
    /\ \A e \in Engine : WF_vars(WorkerStep(e))
    /\ \A s \in Sender : WF_vars(Enqueue(s) \/ Drop(s))

FairSpec == Spec /\ Fairness

-----------------------------------------------------------------------------
(* Properties. *)

(* Of several goroutines that report the same finding to one engine at     *)
(* once, one gets past isThrottled per dedup window: a second one that     *)
(* holds the same fingerprint came at least a window later or earlier.     *)
OneWinnerPerWindow ==
    \A s, t \in Sender :
        (/\ s # t /\ sender[s].alert # NoAlert /\ sender[t].alert # NoAlert
         /\ sender[s].engine = sender[t].engine
         /\ KeyOf[sender[s].alert] = KeyOf[sender[t].alert])
            => sender[s].held = Window \/ sender[t].held = Window

(* A replaced engine finishes the alerts it has accepted: its worker is    *)
(* never stopped, and it ends up idle with an empty queue.                 *)
OldEnginesDrain ==
    \A e \in Engine :
        e < current ~> (queue[e] = <<>> /\ worker[e].pc = "idle")

(* The alerts the first engine has accepted, the one its worker holds      *)
(* first.  The engines are alike, and a reload makes this one an old one.  *)
Owed ==
    IF worker[1].pc = "idle" THEN queue[1]
    ELSE <<worker[1].alert>> \o queue[1]

Delivery == INSTANCE AlertDelivery WITH
    Room <- QueueCap + 1, owed <- Owed, outcome <- worker[1].outcome

(* An engine keeps the promise of AlertDelivery, replaced or not: first    *)
(* in, first out, each channel settled once and in order in spite of       *)
(* retries and failing channels, and every accepted alert settled in the   *)
(* end.                                                                    *)
DeliversAccepted == Delivery!Spec
=============================================================================
