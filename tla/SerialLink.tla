----------------------------- MODULE SerialLink -----------------------------
(***************************************************************************)
(* A serial connection is a data link: the peer is the port that is open,  *)
(* and a request has settled when its port has been opened.                *)
(***************************************************************************)
EXTENDS SerialConnection

settled == ~m_isDirty /\ caller.at = "idle"

AsLink == INSTANCE Link WITH
  Peers <- Names, NoPeer <- Closed, Limit <- MAX_BUFFER_SIZE - 1, Bound <- MaxMessages,
  wanted <- m_portName, settled <- settled, peer <- serialDsc,
  given <- pushed, waiting <- m_writeBuffer, onWire <- written

\* SerialConnection implements Link: messages go out in order and only through
\* an open port, the oldest are given up when too many wait, and a port opened
\* for a request that has settled is the port of the last request.
ImplementsLink == AsLink!Spec
=============================================================================
