-------------------------- MODULE DiscoveryRegistry --------------------------
(***************************************************************************)
(* The router and the protocols implement Registry: the change-over is the *)
(* unlocked call of addUavCreateHandler.                                   *)
(***************************************************************************)
EXTENDS UavDiscovery

\* The chosen protocol serves the connection once the others are deleted: until
\* then their readers may register vehicles.
serving == IF router \in {"popping", "joining"} THEN None ELSE m_protocol

AsRegistry == INSTANCE Registry WITH
  serving <- serving, known <- m_uavs, told <- announced, between <- overlapped

\* The router's trials, the readers that register vehicles meanwhile and the
\* two ways in which a leaf hears of a vehicle, from addUavCreateHandler and from
\* the reader, make up one Registry: no leaf hears of a vehicle of a protocol
\* that was rejected, of one that is not registered, or too often of any.
ImplementsRegistry == AsRegistry!Spec
=============================================================================
