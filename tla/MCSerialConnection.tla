------------------------- MODULE MCSerialConnection -------------------------
(***************************************************************************)
(* Instances of SerialConnection, with its refinement of Link.             *)
(***************************************************************************)
EXTENDS SerialLink
=============================================================================
