------------------------- MODULE MCRunConfiguration -------------------------
(***************************************************************************)
(* Instances of RunConfiguration.                                          *)
(***************************************************************************)
EXTENDS RunConfiguration
=============================================================================
