---------------------------- MODULE MavlinkMatch ----------------------------
(***************************************************************************)
(* MavlinkMessageTypeI::compare (plugins/PluginMavlink/MavlinkHelper.h):   *)
(* does the packet `a`, which was just submitted or just received, concern *)
(* the pending packet `p`?                                                 *)
(*                                                                         *)
(* A packet is a record [id, key]: its MAVLink message id and the field    *)
(* of the payload the comparison reads (the command of a COMMAND_LONG or   *)
(* of its COMMAND_ACK, a parameter name, a mission sequence number, the    *)
(* type of a MISSION_ACK or of a DATA32, the flags of a GPS_RTCM_DATA with *)
(* the bytes read as a command below).  No other field takes part, the     *)
(* target system and the result of an acknowledgement included.            *)
(***************************************************************************)
EXTENDS Naturals

\* Heartbeats and pings concern nothing.
NeverMatched == {"HEARTBEAT", "PING"}

\* Two packets with the same id are about the same thing unless the id is one
\* of these, which are told apart by their key.  GPS_RTCM_DATA falls through
\* to the COMMAND_LONG case, so its key is <<flags, bytes 26 and 27 of data>>.
KeyedIds == {"COMMAND_LONG", "PARAM_SET", "PARAM_REQUEST_READ", "DATA32",
             "GPS_RTCM_DATA"}

SameRequest(p, a) == p.id \in KeyedIds => p.key = a.key

\* <<pending, arrived>> ids that correspond when their keys are equal ...
SameKeyPairs ==
  { <<"COMMAND_LONG", "COMMAND_ACK">>, <<"COMMAND_ACK", "COMMAND_LONG">>,
    <<"MISSION_REQUEST", "MISSION_ITEM">>,
    <<"MISSION_SET_CURRENT", "MISSION_CURRENT">>,
    <<"PARAM_SET", "PARAM_VALUE">>, <<"PARAM_REQUEST_READ", "PARAM_VALUE">> }

\* ... and whatever their keys are.
AnyKeyPairs ==
  { <<"MISSION_REQUEST_LIST", "MISSION_COUNT">>,
    <<"MISSION_COUNT", "MISSION_REQUEST">>,
    <<"MISSION_WRITE_PARTIAL_LIST", "MISSION_REQUEST">> }

\* Requests that a MISSION_ACK of type ACCEPTED ends.
MissionRequests == {"MISSION_CLEAR_ALL", "MISSION_COUNT",
                    "MISSION_WRITE_PARTIAL_LIST", "MISSION_ITEM"}

IsReply(p, a) ==
  \/ <<p.id, a.id>> \in SameKeyPairs /\ p.key = a.key
  \/ <<p.id, a.id>> \in AnyKeyPairs
  \/ p.id \in MissionRequests /\ a.id = "MISSION_ACK" /\ a.key = "ACCEPTED"
  \/ p.id = "MISSION_ITEM" /\ a.id = "MISSION_REQUEST" /\ p.key < a.key
  \/ p.id = "SET_MODE" /\ a.id = "COMMAND_ACK" /\ a.key = "DO_SET_MODE"
  \/ p.id = "COMMAND_ACK" /\ a.id = "SET_MODE" /\ p.key = "DO_SET_MODE"
  \* MISSION_SET_CURRENT falls through to PARAM_SET: its payload, decoded as a
  \* PARAM_SET, has the empty parameter name.
  \/ p.id = "MISSION_SET_CURRENT" /\ a.id = "PARAM_VALUE" /\ a.key = ""

MavlinkCompare(p, a) ==
  /\ p.id \notin NeverMatched
  /\ a.id \notin NeverMatched
  /\ IF p.id = a.id THEN SameRequest(p, a) ELSE IsReply(p, a)
=============================================================================
