--------------------------- MODULE AlertDelivery ---------------------------
(***************************************************************************)
(* What one alert engine promises about an alert once its queue has        *)
(* accepted it, without queues, workers or retries: the accepted alerts    *)
(* are settled one after the other in the order they came, each of them    *)
(* with every channel in turn, and a channel that fails for good delays    *)
(* the next one but never keeps the alert from it.                         *)
(***************************************************************************)
EXTENDS Naturals, Sequences

CONSTANTS
    Alert,          \* alerts
    NumChannels,    \* registered channels, in order
    Room            \* alerts that may be owed at a time

Channel == 1..NumChannels

VARIABLES
    owed,       \* accepted alerts, the one being delivered first
    outcome     \* what became of the first one at each channel

vars == <<owed, outcome>>

Open == [c \in Channel |-> "open"]

Init == owed = <<>> /\ outcome = Open

Accept(a) ==
    /\ Len(owed) < Room
    /\ owed' = Append(owed, a)
    /\ UNCHANGED outcome

(* Channels are settled in order, each of them once; settling the last one *)
(* ends the delivery of the first alert.                                   *)
Settle(c, how) ==
    /\ owed # <<>>
    /\ outcome[c] = "open"
    /\ \A d \in Channel : d < c => outcome[d] # "open"
    /\ IF c = NumChannels
       THEN owed' = Tail(owed) /\ outcome' = Open
       ELSE outcome' = [outcome EXCEPT ![c] = how] /\ UNCHANGED owed

SettleSome == \E c \in Channel, how \in {"sent", "failed"} : Settle(c, how)

Next == (\E a \in Alert : Accept(a)) \/ SettleSome

Spec == Init /\ [][Next]_vars /\ WF_vars(SettleSome)
=============================================================================
