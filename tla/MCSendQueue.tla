----------------------------- MODULE MCSendQueue -----------------------------
(***************************************************************************)
(* Instances of SendQueue with the messages the MAVLink plugin sends.  The *)
(* numbers of transmissions are scaled down from 3, 5 and 10 to 1 and 2.   *)
(***************************************************************************)
EXTENDS SendQueueOutbox, MavlinkMatch, MavlinkRTCM, TLC

Command(c) == [id |-> "COMMAND_LONG", key |-> c]

\* What the vehicle answers.
MCAnswers(p) ==
  CASE p.id = "COMMAND_LONG" -> {[id |-> "COMMAND_ACK", key |-> p.key]}
    [] p.id = "SET_MODE"     -> {[id |-> "COMMAND_ACK", key |-> "DO_SET_MODE"]}
    [] p.id = "PARAM_SET"    -> {[id |-> "PARAM_VALUE", key |-> p.key]}
    [] OTHER                 -> {}

\* An operator at work: arming, a change of mode and a disarming, with the GCS
\* heartbeat behind them.
CommandPackets ==
  "arm"       :> <<Command("ARM_DISARM")>> @@
  "disarm"    :> <<Command("ARM_DISARM")>> @@
  "mode"      :> <<[id |-> "SET_MODE", key |-> "LOITER"]>> @@
  "heartbeat" :> <<[id |-> "HEARTBEAT", key |-> ""]>>
CommandTicks == "arm" :> 2 @@ "disarm" :> 2 @@ "mode" :> 1 @@ "heartbeat" :> -1
CommandPrio  == "arm" :> HIGHT @@ "disarm" :> HIGHT @@ "mode" :> HIGHT
                  @@ "heartbeat" :> LOW

\* The stack of message intervals, the longest correction, which is sent in two
\* fragments, a request of the default priority and the heartbeat, with commands
\* that replace each other.
StackPackets ==
  "intervals" :> <<Command("SET_MESSAGE_INTERVAL"), Command("SET_MESSAGE_INTERVAL"),
                   Command("SET_MESSAGE_INTERVAL")>> @@
  "long"      :> SendRTCM("first", 2 * MAX_RTCM_L, 0) @@
  "home"      :> <<Command("GET_HOME_POSITION")>> @@
  "arm"       :> <<Command("ARM_DISARM")>> @@
  "disarm"    :> <<Command("ARM_DISARM")>> @@
  "heartbeat" :> <<[id |-> "HEARTBEAT", key |-> ""]>>
StackTicks == "intervals" :> 2 @@ "long" :> 1 @@ "home" :> 1 @@ "arm" :> 2
                @@ "disarm" :> 2 @@ "heartbeat" :> -1
StackPrio  == "intervals" :> HIGHT @@ "long" :> HIGHT @@ "home" :> NORMAL
                @@ "arm" :> HIGHT @@ "disarm" :> HIGHT @@ "heartbeat" :> LOW
=============================================================================
