---------------------------- MODULE AlertProofs ----------------------------
(***************************************************************************)
(* Proofs about AlertEngine: type correctness, one winner per window among *)
(* concurrent senders, and the safety part of the refinement: the first    *)
(* engine with its queue, worker and retries takes only steps that         *)
(* AlertDelivery allows.                                                   *)
(***************************************************************************)
EXTENDS AlertEngine, SequenceTheorems, TLAPS

USE EngineAssumption DEF EngineAssumption

WorkerState ==
    [pc : {"idle", "send", "sleep"}, alert : Alert \cup {NoAlert},
     ch : Channel, attempt : 0..RetryMax,
     outcome : [Channel -> {"open", "sent", "failed"}]]

SenderState == [alert : Alert \cup {NoAlert}, engine : Engine, held : Age]

(* A worker at work holds an alert and has settled the channels before its *)
(* own, an idle one holds nothing.                                         *)
WorkerOK(w) ==
    /\ w.pc = "idle" => w = IdleWorker
    /\ w.pc # "idle" => w.alert \in Alert
    /\ \A c \in Channel : w.outcome[c] = "open" <=> c >= w.ch

EngineInv == TypeOK /\ \A e \in Engine : WorkerOK(worker[e])

LEMMA One == 1 \in Channel /\ 1 \in Engine /\ NumChannels \in Channel /\ 0 \in Age /\ Never \notin Age
BY DEF Channel, Engine, Age, Never

LEMMA IdleOK == /\ IdleWorker \in WorkerState /\ WorkerOK(IdleWorker)
                /\ IdleWorker.pc = "idle" /\ IdleWorker.outcome = Open
<1>1. Open \in [Channel -> {"open", "sent", "failed"}] BY DEF Open
<1>2. \A c \in Channel : Open[c] = "open" /\ c >= 1 BY DEF Open, Channel
<1> HIDE DEF Open
<1> QED BY <1>1, <1>2, One DEF IdleWorker, WorkerState, WorkerOK

LEMMA IdleSenderTyped == IdleSender \in SenderState /\ IdleSender.alert = NoAlert
BY One DEF IdleSender, SenderState

(* The record of a worker that goes on to channel c, in two updates.       *)
LEMMA NextChannelTyped ==
  ASSUME NEW w \in WorkerState, NEW c \in Channel, NEW o \in [Channel -> {"open", "sent", "failed"}]
  PROVE  [w EXCEPT !.pc = "send", !.ch = c, !.attempt = 0, !.outcome = o] \in WorkerState
<1> DEFINE u == [w EXCEPT !.pc = "send", !.ch = c]
<1>1. u \in WorkerState BY DEF WorkerState
<1>2. 0 \in 0..RetryMax OBVIOUS
<1> HIDE DEF u
<1>3. [u EXCEPT !.attempt = 0, !.outcome = o] \in WorkerState BY <1>1, <1>2 DEF WorkerState
<1> QED BY <1>3 DEF u

(* The worker goes on to the next channel, or is done. *)
LEMMA DoneOK ==
  ASSUME NEW w \in WorkerState, WorkerOK(w), w.pc # "idle", NEW how \in {"sent", "failed"}
  PROVE  /\ ChannelDone(w, how) \in WorkerState /\ WorkerOK(ChannelDone(w, how))
         /\ w.ch # NumChannels =>
              /\ ChannelDone(w, how).pc = "send" /\ ChannelDone(w, how).alert = w.alert
              /\ ChannelDone(w, how).outcome = [w.outcome EXCEPT ![w.ch] = how]
<1>1. CASE w.ch = NumChannels BY <1>1, IdleOK DEF ChannelDone
<1>2. CASE w.ch # NumChannels
  <2> DEFINE o == [w.outcome EXCEPT ![w.ch] = how]
             v == [w EXCEPT !.pc = "send", !.ch = w.ch + 1, !.attempt = 0, !.outcome = o]
  <2>1. ChannelDone(w, how) = v BY <1>2 DEF ChannelDone, WorkerState
  <2>2. w.ch + 1 \in Channel /\ w.ch \in Channel BY <1>2 DEF WorkerState, Channel
  <2>3. w.outcome \in [Channel -> {"open", "sent", "failed"}] BY DEF WorkerState
  <2>4. o \in [Channel -> {"open", "sent", "failed"}] BY <2>2, <2>3
  <2>5. \A c \in Channel : o[c] = "open" <=> c >= w.ch + 1
    <3>1. \A c \in Channel : c >= w.ch + 1 <=> c >= w.ch /\ c # w.ch BY <2>2 DEF Channel
    <3> QED BY <2>2, <2>3, <3>1 DEF WorkerOK
  <2> HIDE DEF o
  <2>6. /\ v \in WorkerState /\ v.pc = "send" /\ v.alert = w.alert /\ v.outcome = o
        /\ v.ch = w.ch + 1
    <3>1. v.pc = "send" /\ v.ch = w.ch + 1 /\ v.attempt = 0 /\ v.outcome = o BY DEF WorkerState
    <3>2. v.alert = w.alert BY DEF WorkerState
    <3>3. v \in WorkerState BY <2>2, <2>4, NextChannelTyped
    <3> HIDE DEF v
    <3> QED BY <3>1, <3>2, <3>3
  <2>7. WorkerOK(v) BY <2>5, <2>6 DEF WorkerOK
  <2> HIDE DEF v
  <2> QED BY <2>1, <2>6, <2>7 DEF o
<1> QED BY <1>1, <1>2

LEMMA RetryOK ==
  ASSUME NEW w \in WorkerState, WorkerOK(w), w.pc # "idle"
  PROVE  Retry(w) \in WorkerState /\ WorkerOK(Retry(w))
<1>1. CASE w.attempt < RetryMax
  <2> DEFINE v == [w EXCEPT !.pc = "send", !.attempt = w.attempt + 1]
  <2>1. Retry(w) = v BY <1>1 DEF Retry, WorkerState
  <2>2. w.attempt + 1 \in 0..RetryMax BY <1>1 DEF WorkerState
  <2>3. v \in WorkerState /\ v.pc = "send" /\ v.alert = w.alert /\ v.ch = w.ch /\ v.outcome = w.outcome
    BY <2>2 DEF WorkerState
  <2> HIDE DEF v
  <2> QED BY <2>1, <2>3 DEF WorkerOK
<1>2. CASE ~(w.attempt < RetryMax) BY <1>2, DoneOK DEF Retry
<1> QED BY <1>1, <1>2

(* What a step of a worker does to the workers. *)
LEMMA WorkerMoves ==
  ASSUME EngineInv, NEW e \in Engine, WorkerStep(e)
  PROVE  \E w \in WorkerState :
           /\ worker' = [worker EXCEPT ![e] = w] /\ WorkerOK(w)
           /\ UNCHANGED <<current, lastSeen, sender>>
<1>1. worker[e] \in WorkerState /\ WorkerOK(worker[e]) /\ queue[e] \in Seq(Alert)
  BY DEF EngineInv, TypeOK, WorkerState
<1>2. CASE Take(e)
  <2> DEFINE a == Head(queue[e])
             w == [IdleWorker EXCEPT !.pc = "send", !.alert = a]
  <2>1. a \in Alert BY <1>1, <1>2 DEF Take
  <2> HIDE DEF a
  <2>2. w \in WorkerState /\ w.pc = "send" /\ w.alert = a /\ w.ch = 1 /\ w.outcome = Open
    BY <2>1, IdleOK DEF WorkerState, IdleWorker
  <2>3. IdleWorker.ch = 1 /\ IdleWorker.outcome = Open BY DEF IdleWorker
  <2>4. WorkerOK(w) BY <2>1, <2>2, <2>3, IdleOK DEF WorkerOK
  <2>5. worker' = [worker EXCEPT ![e] = w] /\ UNCHANGED <<current, lastSeen, sender>>
    BY <1>2 DEF Take, SetWorker, a
  <2> HIDE DEF w
  <2> QED BY <2>2, <2>4, <2>5
<1>3. CASE ChannelSends(e)
  BY <1>1, <1>3, DoneOK DEF ChannelSends, SetWorker
<1>4. CASE ChannelFails(e)
  <2> DEFINE w == [worker[e] EXCEPT !.pc = "sleep"]
  <2>1. w \in WorkerState /\ w.pc = "sleep" /\ w.alert = worker[e].alert
        /\ w.ch = worker[e].ch /\ w.outcome = worker[e].outcome
    BY <1>1 DEF WorkerState
  <2>2. worker' = [worker EXCEPT ![e] = w] /\ worker[e].pc = "send"
        /\ UNCHANGED <<current, lastSeen, sender>>
    BY <1>4 DEF ChannelFails, SetWorker
  <2> HIDE DEF w
  <2>3. WorkerOK(w) BY <1>1, <2>1, <2>2 DEF WorkerOK
  <2> QED BY <2>1, <2>2, <2>3
<1>5. CASE BackoffEnds(e)
  BY <1>1, <1>5, RetryOK DEF BackoffEnds, SetWorker
<1> QED BY <1>2, <1>3, <1>4, <1>5 DEF WorkerStep

LEMMA QueueTyped ==
  ASSUME EngineInv, NEW e \in Engine, WorkerStep(e)
  PROVE  queue' \in [Engine -> Seq(Alert)] /\ \A d \in Engine : Len(queue'[d]) <= QueueCap
<1>1. queue \in [Engine -> Seq(Alert)] /\ \A d \in Engine : Len(queue[d]) <= QueueCap
  BY DEF EngineInv, TypeOK
<1>2. CASE Take(e)
  <2>1. queue[e] # <<>> /\ queue' = [queue EXCEPT ![e] = Tail(queue[e])] BY <1>2 DEF Take
  <2>2. Tail(queue[e]) \in Seq(Alert) /\ Len(Tail(queue[e])) <= QueueCap BY <1>1, <2>1
  <2> QED BY <1>1, <2>1, <2>2
<1>3. CASE UNCHANGED queue BY <1>1, <1>3
<1> QED BY <1>2, <1>3 DEF WorkerStep, ChannelSends, ChannelFails, BackoffEnds

LEMMA EngineStep == EngineInv /\ [Next]_vars => EngineInv'
<1> SUFFICES ASSUME EngineInv, [Next]_vars PROVE EngineInv' OBVIOUS
<1>t. /\ current \in Engine /\ lastSeen \in [Engine -> [Key -> Age \cup {Never}]]
      /\ queue \in [Engine -> Seq(Alert)] /\ \A e \in Engine : Len(queue[e]) <= QueueCap
      /\ worker \in [Engine -> WorkerState] /\ sender \in [Sender -> SenderState]
      /\ \A e \in Engine : WorkerOK(worker[e])
  BY DEF EngineInv, TypeOK, WorkerState, SenderState
<1>k. \A a \in Alert : KeyOf[a] \in Key BY DEF Key
<1>1. ASSUME NEW s \in Sender, NEW a \in Alert, PassThrottle(s, a) PROVE EngineInv'
  <2> DEFINE w == [alert |-> a, engine |-> current, held |-> 0]
  <2>1. w \in SenderState BY <1>t, One DEF SenderState
  <2>2. sender' = [sender EXCEPT ![s] = w] /\ UNCHANGED <<current, queue, worker>>
    BY <1>1 DEF PassThrottle
  <2> HIDE DEF w
  <2>3. sender' \in [Sender -> SenderState] BY <1>t, <2>1, <2>2
  <2>4. lastSeen' = [lastSeen EXCEPT ![current][KeyOf[a]] = 0]
    BY <1>1 DEF PassThrottle, recordSeen
  <2>5. lastSeen' \in [Engine -> [Key -> Age \cup {Never}]] BY <1>t, <1>k, <2>4, One
  <2> QED BY <1>t, <2>2, <2>3, <2>5 DEF EngineInv, TypeOK, WorkerState, SenderState
<1>2. ASSUME NEW s \in Sender, Enqueue(s) PROVE EngineInv'
  <2> DEFINE e == sender[s].engine
             a == sender[s].alert
  <2>1. e \in Engine /\ a \in Alert BY <1>t, <1>2 DEF Enqueue, SenderState
  <2>2. /\ queue' = [queue EXCEPT ![e] = Append(queue[e], a)] /\ Len(queue[e]) < QueueCap
        /\ sender' = [sender EXCEPT ![s] = IdleSender] /\ UNCHANGED <<current, lastSeen, worker>>
    BY <1>2 DEF Enqueue, Return, HasRoom
  <2> HIDE DEF e, a
  <2>3. Append(queue[e], a) \in Seq(Alert) /\ Len(Append(queue[e], a)) <= QueueCap
    BY <1>t, <2>1, <2>2
  <2>4. queue' \in [Engine -> Seq(Alert)] /\ \A d \in Engine : Len(queue'[d]) <= QueueCap
    BY <1>t, <2>1, <2>2, <2>3
  <2>5. sender' \in [Sender -> SenderState] BY <1>t, <2>2, IdleSenderTyped
  <2> QED BY <1>t, <2>2, <2>4, <2>5 DEF EngineInv, TypeOK, WorkerState, SenderState
<1>3. ASSUME NEW s \in Sender, Drop(s) PROVE EngineInv'
  <2>1. sender' = [sender EXCEPT ![s] = IdleSender] /\ UNCHANGED <<current, lastSeen, worker, queue>>
    BY <1>3 DEF Drop, Return
  <2>2. sender' \in [Sender -> SenderState] BY <1>t, <2>1, IdleSenderTyped
  <2> QED BY <1>t, <2>1, <2>2 DEF EngineInv, TypeOK, WorkerState, SenderState
<1>4. ASSUME NEW e \in Engine, WorkerStep(e) PROVE EngineInv'
  <2>1. PICK w \in WorkerState :
          /\ worker' = [worker EXCEPT ![e] = w] /\ WorkerOK(w)
          /\ UNCHANGED <<current, lastSeen, sender>>
    BY <1>4, WorkerMoves
  <2>2. worker' \in [Engine -> WorkerState] /\ \A d \in Engine : WorkerOK(worker'[d])
    BY <1>t, <2>1
  <2>3. queue' \in [Engine -> Seq(Alert)] /\ \A d \in Engine : Len(queue'[d]) <= QueueCap
    BY <1>4, QueueTyped
  <2> QED BY <1>t, <2>1, <2>2, <2>3 DEF EngineInv, TypeOK, WorkerState, SenderState
<1>5. CASE Reload
  <2>1. current' \in Engine BY <1>5, <1>t DEF Reload, Engine
  <2> QED BY <1>t, <1>5, <2>1 DEF Reload, EngineInv, TypeOK, WorkerState, SenderState
<1>6. CASE Tick
  <2>1. \A e \in Engine, k \in Key : lastSeen[e][k] \in Age \cup {Never} BY <1>t
  <2>2. \A n \in Age \ {Window} : n + 1 \in Age BY DEF Age
  <2>3. lastSeen' \in [Engine -> [Key -> Age \cup {Never}]] BY <1>6, <2>1, <2>2 DEF Tick
  <2>4. ASSUME NEW s \in Sender PROVE sender'[s] \in SenderState
    <3>1. sender[s] \in SenderState BY <1>t
    <3>2. sender[s].held # Window => sender[s].held + 1 \in Age BY <2>2, <3>1 DEF SenderState
    <3> QED BY <1>6, <3>1, <3>2 DEF Tick, SenderState
  <2>5. sender' \in [Sender -> SenderState] BY <1>6, <2>4 DEF Tick
  <2> QED BY <1>t, <1>6, <2>3, <2>5 DEF Tick, EngineInv, TypeOK, WorkerState, SenderState
<1>7. CASE UNCHANGED vars BY <1>7 DEF vars, EngineInv, TypeOK
<1> QED BY <1>1, <1>2, <1>3, <1>4, <1>5, <1>6, <1>7 DEF Next, SenderStep

LEMMA EngineInit == Init => EngineInv
<1> SUFFICES ASSUME Init PROVE EngineInv OBVIOUS
<1>1. queue \in [Engine -> Seq(Alert)] /\ \A e \in Engine : Len(queue[e]) <= QueueCap BY DEF Init
<1>2. lastSeen \in [Engine -> [Key -> Age \cup {Never}]] BY DEF Init
<1>3. worker \in [Engine -> WorkerState] /\ \A e \in Engine : WorkerOK(worker[e]) BY IdleOK DEF Init
<1>4. sender \in [Sender -> SenderState] BY IdleSenderTyped DEF Init
<1> QED BY <1>1, <1>2, <1>3, <1>4, One DEF Init, EngineInv, TypeOK, WorkerState, SenderState

LEMMA EngineInvHolds == Spec => []EngineInv
BY EngineInit, EngineStep, PTL DEF Spec

(* Engines, queues, workers and callers of Send are well typed for any     *)
(* numbers of them; no queue is longer than its capacity.                  *)
THEOREM EngineTypeCorrect == Spec => []TypeOK
<1>1. EngineInv => TypeOK BY DEF EngineInv
<1> QED BY <1>1, EngineInvHolds, PTL

-----------------------------------------------------------------------------
(* A caller past isThrottled has just recorded its fingerprint, or a       *)
(* window ago.                                                             *)
HolderRecorded ==
    \A s \in Sender :
      LET e == sender[s].engine
          k == KeyOf[sender[s].alert]
      IN  sender[s].alert # NoAlert /\ sender[s].held < Window
            => lastSeen[e][k] = sender[s].held

WinnerInv == HolderRecorded /\ OneWinnerPerWindow

LEMMA WinnerStep == EngineInv /\ WinnerInv /\ [Next]_vars => WinnerInv'
<1> SUFFICES ASSUME EngineInv, WinnerInv, [Next]_vars PROVE WinnerInv' OBVIOUS
<1>t. /\ current \in Engine /\ lastSeen \in [Engine -> [Key -> Age \cup {Never}]]
      /\ sender \in [Sender -> SenderState]
  BY DEF EngineInv, TypeOK, SenderState
<1>k. \A a \in Alert : KeyOf[a] \in Key BY DEF Key
<1>s. \A s \in Sender :
        /\ sender[s].engine \in Engine /\ sender[s].held \in 0..Window
        /\ sender[s].alert # NoAlert => sender[s].alert \in Alert
  BY <1>t DEF SenderState, Age
<1>1. ASSUME NEW s \in Sender, NEW a \in Alert, PassThrottle(s, a) PROVE WinnerInv'
  <2> DEFINE w == [alert |-> a, engine |-> current, held |-> 0]
             k == KeyOf[a]
  <2>1. w.alert = a /\ w.engine = current /\ w.held = 0 /\ k \in Key BY <1>k
  <2>2. /\ sender' = [sender EXCEPT ![s] = w] /\ ~Throttled(current, k)
        /\ lastSeen' = [lastSeen EXCEPT ![current][k] = 0]
    BY <1>1 DEF PassThrottle, recordSeen
  <2> HIDE DEF w, k
  <2>3. sender'[s] = w /\ \A t \in Sender \ {s} : sender'[t] = sender[t] BY <1>t, <2>2
  <2>4. lastSeen'[current][k] = 0 BY <1>t, <2>1, <2>2
  <2>5. \A e \in Engine, j \in Key :
          e # current \/ j # k => lastSeen'[e][j] = lastSeen[e][j]
    BY <1>t, <2>1, <2>2
  <2>6. ASSUME NEW t \in Sender \ {s}, sender[t].alert # NoAlert,
               sender[t].engine = current, KeyOf[sender[t].alert] = k
        PROVE  sender[t].held = Window
    <3>1. sender[t].held < Window => lastSeen[current][k] = sender[t].held
      BY <2>6 DEF WinnerInv, HolderRecorded
    <3>2. sender[t].held \in 0..Window BY <1>s
    <3> QED BY <2>2, <3>1, <3>2 DEF Throttled, Never
  <2>7. HolderRecorded'
    <3> SUFFICES ASSUME NEW t \in Sender, sender'[t].alert # NoAlert, sender'[t].held < Window
                 PROVE  lastSeen'[sender'[t].engine][KeyOf[sender'[t].alert]] = sender'[t].held
      BY DEF HolderRecorded
    <3>1. CASE t = s BY <2>1, <2>3, <2>4, <3>1 DEF k
    <3>2. CASE t # s
      <4>1. sender'[t] = sender[t] BY <2>3, <3>2
      <4>2. sender[t].engine # current \/ KeyOf[sender[t].alert] # k BY <1>s, <2>6, <3>2, <4>1
      <4>3. sender[t].alert \in Alert /\ sender[t].engine \in Engine
        <5>1. sender[t] \in SenderState /\ sender[t].alert # NoAlert BY <1>t, <4>1
        <5> QED BY <5>1 DEF SenderState
      <4> QED BY <1>k, <2>5, <4>1, <4>2, <4>3 DEF WinnerInv, HolderRecorded
    <3> QED BY <3>1, <3>2
  <2>8. OneWinnerPerWindow' BY <2>1, <2>3, <2>6 DEF WinnerInv, OneWinnerPerWindow, k
  <2> QED BY <2>7, <2>8 DEF WinnerInv
<1>2. ASSUME NEW s \in Sender, Enqueue(s) \/ Drop(s) PROVE WinnerInv'
  <2>1. sender' = [sender EXCEPT ![s] = IdleSender] /\ UNCHANGED lastSeen
    BY <1>2 DEF Enqueue, Drop, Return
  <2>2. sender'[s].alert = NoAlert /\ \A t \in Sender \ {s} : sender'[t] = sender[t]
    BY <1>t, <2>1, IdleSenderTyped
  <2> QED BY <2>1, <2>2 DEF WinnerInv, HolderRecorded, OneWinnerPerWindow
<1>3. ASSUME NEW e \in Engine, WorkerStep(e) PROVE WinnerInv'
  <2>1. UNCHANGED <<lastSeen, sender>> BY <1>3, WorkerMoves
  <2> QED BY <2>1 DEF WinnerInv, HolderRecorded, OneWinnerPerWindow
<1>4. CASE Reload \/ UNCHANGED vars
  BY <1>4 DEF Reload, vars, WinnerInv, HolderRecorded, OneWinnerPerWindow
<1>5. CASE Tick
  <2>1. ASSUME NEW s \in Sender
        PROVE  /\ sender'[s].alert = sender[s].alert /\ sender'[s].engine = sender[s].engine
               /\ sender[s].alert # NoAlert =>
                    sender'[s].held = IF sender[s].held = Window THEN Window ELSE sender[s].held + 1
    <3>1. sender[s] \in SenderState BY <1>t
    <3> QED BY <1>5, <3>1 DEF Tick, SenderState
  <2>2. \A e \in Engine, k \in Key : lastSeen'[e][k] =
          IF lastSeen[e][k] \in {Never, Window} THEN lastSeen[e][k] ELSE lastSeen[e][k] + 1
    BY <1>5 DEF Tick
  <2>3. HolderRecorded'
    <3> SUFFICES ASSUME NEW s \in Sender, sender'[s].alert # NoAlert, sender'[s].held < Window
                 PROVE  lastSeen'[sender'[s].engine][KeyOf[sender'[s].alert]] = sender'[s].held
      BY DEF HolderRecorded
    <3>1. sender[s].alert \in Alert /\ sender[s].engine \in Engine /\ sender[s].held \in 0..Window
      <4>1. sender[s] \in SenderState /\ sender[s].alert # NoAlert BY <1>t, <2>1
      <4> QED BY <4>1 DEF SenderState, Age
    <3>2. sender[s].held < Window /\ sender'[s].held = sender[s].held + 1 BY <2>1, <3>1
    <3>3. lastSeen[sender[s].engine][KeyOf[sender[s].alert]] = sender[s].held
      BY <2>1, <3>2 DEF WinnerInv, HolderRecorded
    <3> QED BY <1>k, <2>1, <2>2, <3>1, <3>2, <3>3 DEF Never
  <2>4. OneWinnerPerWindow' BY <1>s, <2>1 DEF WinnerInv, OneWinnerPerWindow
  <2> QED BY <2>3, <2>4 DEF WinnerInv
<1> QED BY <1>1, <1>2, <1>3, <1>4, <1>5 DEF Next, SenderStep

(* Of any number of goroutines that report findings of one fingerprint to  *)
(* one engine, one gets past isThrottled per window.                       *)
THEOREM OneWinnerHolds == Spec => []OneWinnerPerWindow
<1>1. Init => WinnerInv
  BY IdleSenderTyped DEF Init, WinnerInv, HolderRecorded, OneWinnerPerWindow
<1>2. WinnerInv => OneWinnerPerWindow BY DEF WinnerInv
<1> QED BY <1>1, <1>2, WinnerStep, EngineInvHolds, PTL DEF Spec

-----------------------------------------------------------------------------
(* The refinement: what the first engine owes, and the outcome of the      *)
(* delivery at work, are taken only through steps of AlertDelivery.        *)
LEMMA OwedIs ==
  /\ worker[1].pc = "idle" => Owed = queue[1]
  /\ worker[1].pc # "idle" => Owed = <<worker[1].alert>> \o queue[1]
BY DEF Owed

LEMMA Sequences ==
  ASSUME NEW q \in Seq(Alert), NEW a \in Alert, NEW b \in Alert
  PROVE  /\ <<a>> \o q # <<>> /\ Tail(<<a>> \o q) = q
         /\ Len(<<a>> \o q) = Len(q) + 1
         /\ <<a>> \o Append(q, b) = Append(<<a>> \o q, b)
         /\ q # <<>> => <<Head(q)>> \o Tail(q) = q
OBVIOUS

(* A worker that is done with a channel settles it. *)
LEMMA ChannelSettles ==
  ASSUME EngineInv, worker[1].pc # "idle", NEW how \in {"sent", "failed"},
         SetWorker(1, ChannelDone(worker[1], how)), UNCHANGED queue
  PROVE  Delivery!Next
<1> DEFINE w == worker[1]
           q == queue[1]
<1>1. w \in WorkerState /\ WorkerOK(w) /\ w.alert \in Alert /\ q \in Seq(Alert)
  BY One DEF EngineInv, TypeOK, WorkerState, WorkerOK
<1>n. w.pc # "idle" OBVIOUS
<1>2. w.ch \in Channel /\ w.outcome[w.ch] = "open" /\ \A d \in Channel : d < w.ch => w.outcome[d] # "open"
  BY <1>1 DEF WorkerState, WorkerOK, Channel
<1>3. worker'[1] = ChannelDone(w, how) /\ queue'[1] = q
  BY One DEF SetWorker, EngineInv, TypeOK
<1>4. Owed = <<w.alert>> \o q BY OwedIs
<1>5. Owed # <<>> /\ Tail(Owed) = q BY <1>1, <1>4, Sequences
<1>6. CASE w.ch = NumChannels
  <2>1. worker'[1] = IdleWorker BY <1>3, <1>6 DEF ChannelDone
  <2>2. Owed' = q /\ worker'[1].outcome = Open BY <1>3, <2>1, IdleOK DEF Owed
  <2>3. Delivery!Settle(w.ch, how)
    BY <1>2, <1>5, <1>6, <2>2 DEF Delivery!Settle, Delivery!Channel, Channel, Delivery!Open, Open
  <2> QED BY <1>2, <2>3 DEF Delivery!Next, Delivery!SettleSome, Delivery!Channel, Channel
<1>7. CASE w.ch # NumChannels
  <2>1. /\ worker'[1].pc = "send" /\ worker'[1].alert = w.alert
        /\ worker'[1].outcome = [w.outcome EXCEPT ![w.ch] = how]
    <3> HIDE DEF w
    <3>1. ChannelDone(w, how).pc = "send" /\ ChannelDone(w, how).alert = w.alert
          /\ ChannelDone(w, how).outcome = [w.outcome EXCEPT ![w.ch] = how]
      BY <1>1, <1>7, <1>n, DoneOK
    <3> QED BY <1>3, <3>1
  <2>2. UNCHANGED Owed BY <1>3, <1>4, <2>1 DEF Owed
  <2>3. Delivery!Settle(w.ch, how)
    BY <1>2, <1>5, <1>7, <2>1, <2>2 DEF Delivery!Settle, Delivery!Channel, Channel
  <2> QED BY <1>2, <2>3 DEF Delivery!Next, Delivery!SettleSome, Delivery!Channel, Channel
<1> QED BY <1>6, <1>7

LEMMA DeliveryStep == EngineInv /\ [Next]_vars => [Delivery!Next]_(Delivery!vars)
<1> SUFFICES ASSUME EngineInv, [Next]_vars PROVE [Delivery!Next]_(Delivery!vars) OBVIOUS
<1>t. /\ queue \in [Engine -> Seq(Alert)] /\ worker \in [Engine -> WorkerState]
      /\ \A e \in Engine : WorkerOK(worker[e]) /\ Len(queue[e]) <= QueueCap
      /\ worker[1] \in WorkerState /\ queue[1] \in Seq(Alert) /\ WorkerOK(worker[1])
  BY One DEF EngineInv, TypeOK, WorkerState
<1>1. ASSUME worker'[1].pc = worker[1].pc, worker'[1].alert = worker[1].alert,
             worker'[1].outcome = worker[1].outcome, queue'[1] = queue[1]
      PROVE  UNCHANGED Delivery!vars
  BY <1>1 DEF Delivery!vars, Owed
<1>2. ASSUME NEW s \in Sender, Enqueue(s) PROVE [Delivery!Next]_(Delivery!vars)
  <2> DEFINE e == sender[s].engine
             a == sender[s].alert
  <2>1. /\ queue' = [queue EXCEPT ![e] = Append(queue[e], a)] /\ Len(queue[e]) < QueueCap
        /\ UNCHANGED worker
    BY <1>2 DEF Enqueue, Return, HasRoom
  <2>2. e \in Engine /\ a \in Alert BY <1>2 DEF Enqueue, EngineInv, TypeOK
  <2> HIDE DEF e, a
  <2>3. CASE e # 1 BY <1>1, <1>t, <2>1, <2>3, One
  <2>4. CASE e = 1
    <3>1. queue'[1] = Append(queue[1], a) BY <1>t, <2>1, <2>4, One
    <3>2. CASE worker[1].pc = "idle"
      <4>1. Owed' = Append(Owed, a) /\ Len(Owed) < QueueCap + 1
        BY <1>t, <2>1, <2>4, <3>1, <3>2 DEF Owed
      <4> QED BY <2>1, <2>2, <4>1 DEF Delivery!Next, Delivery!Accept
    <3>3. CASE worker[1].pc # "idle"
      <4>1. worker[1].alert \in Alert BY <1>t, <3>3 DEF WorkerOK
      <4>2. Owed = <<worker[1].alert>> \o queue[1] /\ Owed' = <<worker[1].alert>> \o queue'[1]
        BY <2>1, <3>3 DEF Owed
      <4>3. Owed' = Append(Owed, a) /\ Len(Owed) < QueueCap + 1
        BY <1>t, <2>1, <2>2, <2>4, <3>1, <4>1, <4>2, Sequences
      <4> QED BY <2>1, <2>2, <4>3 DEF Delivery!Next, Delivery!Accept
    <3> QED BY <3>2, <3>3
  <2> QED BY <2>3, <2>4
<1>3. ASSUME NEW e \in Engine, WorkerStep(e), e # 1 PROVE [Delivery!Next]_(Delivery!vars)
  <2>1. worker'[1] = worker[1]
    <3>1. PICK w \in WorkerState : worker' = [worker EXCEPT ![e] = w] BY <1>3, WorkerMoves
    <3> QED BY <1>t, <1>3, <3>1, One
  <2>2. queue'[1] = queue[1]
    BY <1>t, <1>3, One DEF WorkerStep, Take, ChannelSends, ChannelFails, BackoffEnds
  <2> QED BY <1>1, <2>1, <2>2
<1>4. CASE Take(1)
  <2>1. worker[1].pc = "idle" /\ queue[1] # <<>> /\ queue'[1] = Tail(queue[1])
    BY <1>t, <1>4, One DEF Take
  <2>2. worker'[1] = [IdleWorker EXCEPT !.pc = "send", !.alert = Head(queue[1])]
    BY <1>t, <1>4, One DEF Take, SetWorker
  <2>3. worker'[1].pc = "send" /\ worker'[1].alert = Head(queue[1]) /\ worker'[1].outcome = Open
    BY <2>2 DEF IdleWorker
  <2>4. worker[1].outcome = Open BY <1>t, <2>1, IdleOK DEF WorkerOK
  <2>5. Head(queue[1]) \in Alert BY <1>t, <2>1
  <2>6. Owed' = Owed BY <1>t, <2>1, <2>3, <2>5, Sequences DEF Owed
  <2> QED BY <2>3, <2>4, <2>6 DEF Delivery!vars
<1>5. CASE ChannelSends(1)
  BY <1>5, ChannelSettles DEF ChannelSends
<1>6. CASE ChannelFails(1)
  <2>1. worker'[1] = [worker[1] EXCEPT !.pc = "sleep"] /\ worker[1].pc = "send" /\ UNCHANGED queue
    BY <1>t, <1>6, One DEF ChannelFails, SetWorker
  <2>2. worker'[1].pc = "sleep" /\ worker'[1].alert = worker[1].alert
        /\ worker'[1].outcome = worker[1].outcome
    BY <1>t, <2>1 DEF WorkerState
  <2> QED BY <2>1, <2>2 DEF Delivery!vars, Owed
<1>7. CASE BackoffEnds(1)
  <2>1. worker[1].pc = "sleep" /\ SetWorker(1, Retry(worker[1])) /\ UNCHANGED queue
    BY <1>7 DEF BackoffEnds
  <2>2. CASE ~(worker[1].attempt < RetryMax)
    BY <2>1, <2>2, ChannelSettles DEF Retry
  <2>3. CASE worker[1].attempt < RetryMax
    <3>1. worker'[1] = [worker[1] EXCEPT !.pc = "send", !.attempt = worker[1].attempt + 1]
      BY <1>t, <2>1, <2>3, One DEF Retry, SetWorker, WorkerState
    <3>2. worker'[1].pc = "send" /\ worker'[1].alert = worker[1].alert
          /\ worker'[1].outcome = worker[1].outcome
      BY <1>t, <3>1 DEF WorkerState
    <3> QED BY <2>1, <3>2 DEF Delivery!vars, Owed
  <2> QED BY <2>2, <2>3
<1>8. CASE \/ \E s \in Sender : Drop(s) \/ \E a \in Alert : PassThrottle(s, a)
           \/ Reload \/ Tick \/ UNCHANGED vars
  <2>1. UNCHANGED <<queue, worker>> BY <1>8 DEF Drop, Return, PassThrottle, Reload, Tick, vars
  <2> QED BY <1>1, <2>1
<1> QED BY <1>2, <1>3, <1>4, <1>5, <1>6, <1>7, <1>8 DEF Next, SenderStep, WorkerStep

(* The safety of DeliversAccepted: first in, first out, each channel       *)
(* settled once and in order whatever fails and however often it is tried, *)
(* in spite of reloads.                                                    *)
THEOREM EngineImplementsDelivery == Spec => Delivery!Init /\ [][Delivery!Next]_(Delivery!vars)
<1>1. Init => Delivery!Init
  BY IdleOK, One DEF Init, Delivery!Init, Owed, Delivery!Open, Open, Delivery!Channel, Channel
<1> QED BY <1>1, DeliveryStep, EngineInvHolds, PTL DEF Spec
=============================================================================
