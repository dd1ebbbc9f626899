----------------------------- MODULE MCTcpClient -----------------------------
(***************************************************************************)
(* Instances of TcpClient, with its refinement of Link.                    *)
(***************************************************************************)
EXTENDS TcpLink
=============================================================================
