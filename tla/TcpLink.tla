------------------------------- MODULE TcpLink -------------------------------
(***************************************************************************)
(* A TCP client is a data link that never gives a message up: the peer is  *)
(* the address the socket is connected to, and a request has settled when  *)
(* the thread has taken _dirty down and no call is going on.               *)
(***************************************************************************)
EXTENDS TcpClient

AsLink == INSTANCE Link WITH
  Peers <- Addresses, NoPeer <- Closed, Limit <- MaxMessages, Bound <- MaxMessages,
  wanted <- named, settled <- ~_dirty /\ caller.at = "idle", peer <- sock,
  given <- pushed, waiting <- m_writeBuffer, onWire <- written

\* TcpClient implements Link: messages go out in order and only through an
\* open socket, none is given up, and a connection made for a request that has
\* settled is a connection to the host and port of the last request.
ImplementsLink == AsLink!Spec
=============================================================================
