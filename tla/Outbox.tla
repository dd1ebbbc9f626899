------------------------------- MODULE Outbox -------------------------------
(***************************************************************************)
(* What the sending side of UavProtocol promises to the code that submits  *)
(* messages, without its lists, priorities and timers: for every subject   *)
(* (a command, a parameter, ...) the latest submitted message is pending   *)
(* until it is settled, and only a pending message is transmitted, each of *)
(* its packets a limited number of times.                                  *)
(***************************************************************************)
EXTENDS Integers

CONSTANTS
  Messages,     \* the message objects
  Subject,      \* Subject[m]: what m is about
  PacketCount,  \* PacketCount[m]: the number of packets of m
  Limit         \* Limit[m]: the bound on the transmissions of a packet of m

VARIABLES
  fresh,    \* messages not submitted yet
  pending,  \* messages submitted and not settled
  sent      \* sent[m][k]: transmissions of the k-th packet of m

vars == <<fresh, pending, sent>>

Init ==
  /\ fresh = Messages
  /\ pending = {}
  /\ sent = [m \in Messages |-> [k \in 1 .. PacketCount[m] |-> 0]]

\* A submission takes the place of the message with the same subject.
Submit(m) ==
  /\ m \in fresh
  /\ fresh' = fresh \ {m}
  /\ pending' = {n \in pending : Subject[n] # Subject[m]} \cup {m}
  /\ UNCHANGED sent

\* A transmission, which may be the last one.
Transmit(m) ==
  /\ m \in pending
  /\ \E k \in 1 .. PacketCount[m] : \E n \in sent[m][k] .. Limit[m] :
       sent' = [sent EXCEPT ![m][k] = n]
  /\ pending' = pending \/ pending' = pending \ {m}
  /\ UNCHANGED fresh

\* The vehicle has answered.
Settle(m) ==
  /\ m \in pending
  /\ pending' = pending \ {m}
  /\ UNCHANGED <<fresh, sent>>

Next == \E m \in Messages : Submit(m) \/ Transmit(m) \/ Settle(m)

Spec == Init /\ [][Next]_vars
=============================================================================
