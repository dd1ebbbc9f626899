-------------------------------- MODULE Link --------------------------------
(***************************************************************************)
(* What a data link promises the protocols above it, whichever plugin      *)
(* provides it: the messages it is given go out in the order it was given  *)
(* them, at most Limit of them wait and the oldest go first when more      *)
(* come, nothing goes out while there is no peer, and once a change of the *)
(* wanted peer has settled, the peer is the one that was asked for last.   *)
(***************************************************************************)
EXTENDS Integers, Sequences

CONSTANTS
  Peers,  \* what the link may be asked to connect to
  NoPeer, \* not connected
  Limit,  \* the most messages that may wait
  Bound   \* bound on the messages given to the link

VARIABLES
  wanted,   \* the peer asked for last
  settled,  \* FALSE from a request until the link has taken it in
  peer,     \* the peer the link is connected to
  given,    \* how many messages have been given to it: they are 1, 2, ...
  waiting,  \* the messages that have not gone out
  onWire    \* the last message that has gone out

vars == <<wanted, settled, peer, given, waiting, onWire>>

Init ==
  /\ wanted \in Peers /\ settled \in BOOLEAN
  /\ peer = NoPeer
  /\ given = 0 /\ waiting = << >> /\ onWire = 0

\* A request, or a part of one that is being made or taken in.
Ask ==
  /\ wanted' \in Peers
  /\ settled' = FALSE
  /\ UNCHANGED <<peer, given, waiting, onWire>>

Settle ==
  /\ settled' = TRUE
  /\ peer' \in {peer, NoPeer}
  /\ peer' \in {wanted, NoPeer}
  /\ UNCHANGED <<wanted, given, waiting, onWire>>

\* While a request is being made a link may connect to anything.
Connect ==
  /\ peer = NoPeer
  /\ peer' \in IF settled THEN {wanted} ELSE Peers
  /\ settled' \in {settled} \cup {s \in {TRUE} : peer' = wanted}
  /\ UNCHANGED <<wanted, given, waiting, onWire>>

Disconnect ==
  /\ peer # NoPeer
  /\ peer' = NoPeer
  /\ UNCHANGED <<wanted, settled, given, waiting, onWire>>

Give ==
  /\ given < Bound
  /\ given' = given + 1
  /\ LET all == Append(waiting, given')
     IN  waiting' = IF Len(all) > Limit THEN Tail(all) ELSE all
  /\ UNCHANGED <<wanted, settled, peer, onWire>>

GoOut ==
  /\ peer # NoPeer /\ waiting # << >>
  /\ onWire' = Head(waiting)
  /\ waiting' = Tail(waiting)
  /\ UNCHANGED <<wanted, settled, peer, given>>

Next == Ask \/ Settle \/ Connect \/ Disconnect \/ Give \/ GoOut

Spec == Init /\ [][Next]_vars
=============================================================================
