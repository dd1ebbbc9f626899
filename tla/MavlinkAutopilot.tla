--------------------------- MODULE MavlinkAutopilot ---------------------------
(***************************************************************************)
(* What the autopilots of the MAVLink plugin have in common:               *)
(* plugins/PluginMavlink/IAutopilot, the queue it submits to and the       *)
(* reader that updates it.                                                 *)
(*                                                                         *)
(* The threads of the leafs call the controls of a vehicle, which submit   *)
(* messages to UavProtocol.  This module sees of it what Outbox promises:  *)
(* a submission takes the place of the pending messages it is about, a     *)
(* packet that arrives settles those it answers, and a pending message is  *)
(* transmitted a number of times.  The reader's thread updates the         *)
(* autopilot from the packets of the vehicle, the newest first.            *)
(*                                                                         *)
(* IAutopilot's setHeartbeat, setParamValue and magCal are not virtual and *)
(* MavlinkProtocol calls them through an IAutopilot *: those of the        *)
(* derived classes are never called and are no actions.  The state that    *)
(* setHeartbeat computes with getState is passed to UAV::state, the        *)
(* getter, and is lost.                                                    *)
(***************************************************************************)
EXTENDS Integers, Sequences, MavlinkMatch

CONSTANTS
  Operations, \* the operations the leafs ask for
  Reports,    \* the packets the vehicle sends of its own accord
  MaxCalls,   \* bound on the calls of the leafs
  MaxStore    \* bound on the packets the reader has not taken yet

ASSUME AutopilotAssumption ==
  /\ Reports \subseteq [id : {"HEARTBEAT", "COMMAND_ACK", "GPS_RAW_INT", "MISSION_ACK"},
                        key : STRING]
  /\ MaxCalls \in Nat /\ MaxStore \in Nat \ {0}

VARIABLES
  m_customMode,       \* the mode of the last heartbeat
  m_initialized,      \* the rates of the telemetry have been asked for
  m_waitForHomePoint,
  pending,    \* messages submitted and not settled: [packet, n]
  heard,      \* answers the vehicle may send, once or more
  store,      \* packets that arrived and the reader has not taken
  calls,      \* calls made
  requests,   \* history: what the operator asked for, as submitted
  applied     \* history: the last of each kind the vehicle has heard

telemetryVars == <<m_customMode, m_initialized, m_waitForHomePoint>>
linkVars      == <<heard, store, applied>>

\* The kinds of what the operator asks for in an order that matters: the
\* commands, and the ids of the other messages.
Commands == {"ARM_DISARM", "DO_CHANGE_SPEED", "PREFLIGHT_CALIBRATION"}
Kinds    == {"SET_MODE", "MISSION_ITEM"} \cup Commands

Kind(p) == IF p.id = "COMMAND_LONG" THEN p.key ELSE p.id

-----------------------------------------------------------------------------
(* Messages                                                                 *)

SetMode(mode)  == [id |-> "SET_MODE", key |-> mode]
Command(c)     == [id |-> "COMMAND_LONG", key |-> c]
Ack(c)         == [id |-> "COMMAND_ACK", key |-> c]
Heartbeat(mode) == [id |-> "HEARTBEAT", key |-> mode]
HomePosition   == [id |-> "HOME_POSITION", key |-> ""]
Fix            == [id |-> "GPS_RAW_INT", key |-> ""]

\* What a vehicle sends only when it is asked.  An acknowledgement may be late,
\* repeated or for another station, as setAck and compare look neither at who
\* sent the command nor at when: it is among the reports, which come at any time.
Answers(p) == IF p = Command("GET_HOME_POSITION") THEN {HomePosition} ELSE {}

\* Mutant: what is pending stays.
UnsettledAll(a) == pending

Unsettled(a) == {m \in pending : ~MavlinkCompare(m.packet, a)}

Submit(p) == pending' = Unsettled(p) \cup {[packet |-> p, n |-> 0]}

\* What the operator asks for, numbered in the order of the submissions.
SubmitRequest(p) ==
  /\ requests' = requests + 1
  /\ pending' = Unsettled(p) \cup {[packet |-> p, n |-> requests + 1]}

\* sendSpeed, and magCal to begin or to end.
SendSpeed == SubmitRequest(Command("DO_CHANGE_SPEED"))
MagCal    == SubmitRequest(Command("PREFLIGHT_CALIBRATION"))

AutopilotInit ==
  /\ m_customMode = "NONE" /\ m_initialized = FALSE /\ m_waitForHomePoint = TRUE
  /\ pending = {} /\ heard = {} /\ store = << >>
  /\ calls = 0 /\ requests = 0 /\ applied = [k \in Kinds |-> 0]

-----------------------------------------------------------------------------
(* The link                                                                 *)

\* A pending message is transmitted, for the last time or not, and the vehicle
\* hears it ...
Transmit(m) ==
  /\ m \in pending
  /\ heard' = heard \cup Answers(m.packet)
  /\ applied' = IF m.n = 0 THEN applied ELSE [applied EXCEPT ![Kind(m.packet)] = m.n]
  /\ pending' \in {pending, pending \ {m}}
  /\ UNCHANGED <<telemetryVars, calls, requests, store>>

\* ... or does not, which only matters the last time.
Lose(m) ==
  /\ m \in pending
  /\ pending' = pending \ {m}
  /\ UNCHANGED <<telemetryVars, calls, requests, linkVars>>

\* UavProtocol::processFromParent
Arrive(a) ==
  /\ Len(store) < MaxStore
  /\ store' = Append(store, a)
  /\ pending' = Unsettled(a)
  /\ UNCHANGED <<telemetryVars, calls, requests, heard, applied>>

Link ==
  \/ \E m \in pending : Transmit(m) \/ Lose(m)
  \/ \E a \in Reports \cup heard : Arrive(a)

-----------------------------------------------------------------------------
(* The reader                                                               *)

\* IAutopilot::setHeartbeat, with what the derived class's setInterval submits.
SetHeartbeat(mode, intervals) ==
  /\ m_customMode' = mode
  /\ m_initialized' = TRUE
  /\ pending' = IF m_initialized THEN pending
                ELSE pending \cup {[packet |-> intervals, n |-> 0]}
  /\ UNCHANGED m_waitForHomePoint

SendGetHomePoint == Submit(Command("GET_HOME_POSITION"))

\* setAck, setGPSRawInt.  An acknowledgement may say that the vehicle refused.
SetAck(a) ==
  /\ \/ a.key = "ARM_DISARM" /\ SendGetHomePoint
     \/ UNCHANGED pending
  /\ UNCHANGED telemetryVars

\* Mutant: the home point is asked for after arming only.
SetGPSRawIntOnly == UNCHANGED <<pending, telemetryVars>>

SetGPSRawInt ==
  /\ IF m_waitForHomePoint THEN SendGetHomePoint ELSE UNCHANGED pending
  /\ UNCHANGED telemetryVars

SetHomePosition ==
  /\ m_waitForHomePoint' = FALSE
  /\ UNCHANGED <<m_customMode, m_initialized, pending>>

\* MavlinkProtocol::runMessageReader takes the newest packet.
Taken ==
  /\ store # << >>
  /\ store' = SubSeq(store, 1, Len(store) - 1)
  /\ UNCHANGED <<calls, requests, heard, applied>>

TakePacket(intervals) ==
  /\ Taken
  /\ LET a == store[Len(store)]
     IN  \/ a.id = "HEARTBEAT" /\ SetHeartbeat(a.key, intervals)
         \/ a.id = "COMMAND_ACK" /\ SetAck(a)
         \/ a.id = "GPS_RAW_INT" /\ SetGPSRawInt
         \/ a.id = "HOME_POSITION" /\ SetHomePosition
         \/ a.id = "MISSION_ACK" /\ UNCHANGED <<pending, telemetryVars>>

-----------------------------------------------------------------------------
\* The vehicle never hears an older mode after a newer one, nor an older arming
\* or disarming, target, speed or word on the calibration, whatever is lost,
\* repeated or acknowledged.
NewestHeardLast ==
  [][\A k \in DOMAIN applied : applied'[k] >= applied[k]]_applied
=============================================================================
