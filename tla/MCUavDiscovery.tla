--------------------------- MODULE MCUavDiscovery ---------------------------
(***************************************************************************)
(* Instances of UavDiscovery, with its refinement of Registry.             *)
(***************************************************************************)
EXTENDS DiscoveryRegistry, TLC

\* Two protocol plugins, of which the first understands one of the vehicles and
\* the second both: either may be chosen while the reader of the other is at work.
TwoProtocols == <<"other", "mavlink">>
TwoKnow      == "other" :> {1} @@ "mavlink" :> {1, 2}
=============================================================================
