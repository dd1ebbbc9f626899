----------------------------- MODULE MCCommandLink -----------------------------
(***************************************************************************)
(* An instance of CommandLink: an arming and a disarming of two and one    *)
(* transmissions, and the heartbeat of the station, which has no last      *)
(* transmission.                                                           *)
(***************************************************************************)
EXTENDS CommandLink, MavlinkMatch, TLC

NoAnswers(p) == {}

MCReplies(p) ==
  IF p.id = "COMMAND_LONG" THEN {[id |-> "COMMAND_ACK", key |-> p.key]} ELSE {}

Command(c) == [id |-> "COMMAND_LONG", key |-> c]

MCPackets ==
  "arm"       :> <<Command("ARM_DISARM")>> @@
  "disarm"    :> <<Command("ARM_DISARM")>> @@
  "heartbeat" :> <<[id |-> "HEARTBEAT", key |-> ""]>>
MCTicks == "arm" :> 2 @@ "disarm" :> 1 @@ "heartbeat" :> -1
MCPrio  == "arm" :> HIGHT @@ "disarm" :> HIGHT @@ "heartbeat" :> LOW
=============================================================================
