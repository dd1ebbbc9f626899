------------------------------ MODULE Registry ------------------------------
(***************************************************************************)
(* What the discovery promises the leafs, without its threads, buffers and *)
(* trials: one protocol that understands a vehicle serves the connection,  *)
(* for ever; it registers each of its vehicles once; and the leafs are     *)
(* told only of registered vehicles, once, or twice if the vehicle was     *)
(* found in the middle of the change-over to the protocol.                 *)
(***************************************************************************)
EXTENDS Integers

CONSTANTS
  Vehicles, Protocols,
  Understands,  \* Understands[p]: the vehicles whose packets p can parse
  None          \* no protocol serves the connection yet

VARIABLES
  serving,  \* the protocol that serves the connection
  known,    \* known[p]: the vehicles p has registered
  told,     \* told[v]: how often the leafs were told of v
  between   \* vehicles found in the middle of the change-over

vars == <<serving, known, told, between>>

Init ==
  /\ serving = None
  /\ known = [p \in Protocols |-> {}]
  /\ told = [v \in Vehicles |-> 0]
  /\ between = {}

Serve(p) ==
  /\ serving = None
  /\ Understands[p] # {}
  /\ serving' = p
  /\ UNCHANGED <<known, told>>

\* Every protocol on trial registers vehicles, and later only the one chosen.
Register(p, v) ==
  /\ serving \in {None, p}
  /\ v \in Understands[p] \ known[p]
  /\ known' = [known EXCEPT ![p] = @ \cup {v}]
  /\ UNCHANGED <<serving, told>>

Tell(v) ==
  /\ serving # None
  /\ v \in known[serving]
  /\ told[v] = 0 \/ (told[v] = 1 /\ v \in between')
  /\ told' = [told EXCEPT ![v] = @ + 1]
  /\ UNCHANGED <<serving, known>>

\* Vehicles come into the change-over at any time.
Next ==
  /\ between \subseteq between' /\ between' \subseteq Vehicles
  /\ \/ \E p \in Protocols : Serve(p) \/ \E v \in Vehicles : Register(p, v)
     \/ \E v \in Vehicles : Tell(v)
     \/ UNCHANGED <<serving, known, told>>

Spec == Init /\ [][Next]_vars
=============================================================================
