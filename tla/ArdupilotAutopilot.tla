-------------------------- MODULE ArdupilotAutopilot --------------------------
(***************************************************************************)
(* The flight commands of an ArduPilot vehicle:                            *)
(* plugins/PluginMavlink/AutopilotAPMImpl.                                 *)
(*                                                                         *)
(* A call reads the mode of the last heartbeat and submits one message at  *)
(* most, so that it is one action: the reader, which may change the mode   *)
(* in between, then comes after it.  The flags and the timer of an arming  *)
(* in a wrong mode are read only by the setHeartbeat that is never called  *)
(* and by getState, whose result is lost; they are left out, as is the     *)
(* branch of requestTakeOff for modeStart, which comes after one for       *)
(* modeAuto, the same mode.                                                *)
(***************************************************************************)
EXTENDS MavlinkAutopilot

VARIABLE m_processingMode  \* the type of the vehicle, from its first heartbeat

vars == <<telemetryVars, pending, linkVars, calls, requests, m_processingMode>>

Types == {"UAV_MC", "UAV_PLANE", "UNDEFINED"}  \* a VTOL is flown like a plane

\* modeStart and modeAuto; a vehicle of no type has the number INT32_MAX.
ModeStart ==
  [UAV_MC |-> "POSHOLD", UAV_PLANE |-> "LOITER", UNDEFINED |-> "INT32_MAX"][m_processingMode]

LandModes == [UAV_MC |-> "LAND", UAV_PLANE |-> "QLAND"]
RTLModes  == [UAV_MC |-> "RTL", UAV_PLANE |-> "RTL"]

\* The ten rates of setInterval, and an item whose sequence number is 0.
Rates  == [id |-> "PARAM_SET", key |-> "SR1"]
Target == [id |-> "MISSION_ITEM", key |-> "0"]

Init == AutopilotInit /\ m_processingMode \in Types

SendMode(mode) == SubmitRequest(SetMode(mode))

-----------------------------------------------------------------------------
Called(op) ==
  /\ op \in Operations /\ calls < MaxCalls
  /\ calls' = calls + 1
  /\ UNCHANGED <<telemetryVars, linkVars, m_processingMode>>

\* requestARM, which asks for the mode to start in if the vehicle is in another.
RequestARM ==
  /\ Called("PREPARED")
  /\ \/ m_customMode = ModeStart /\ SubmitRequest(Command("ARM_DISARM"))
     \/ m_customMode # ModeStart /\ SendMode(ModeStart)

RequestDisARM == Called("KILL") /\ SubmitRequest(Command("ARM_DISARM"))

RequestTakeOff ==
  /\ Called("STARTED")
  /\ IF m_customMode = ModeStart THEN Submit(Command("MISSION_START")) ELSE UNCHANGED pending
  /\ UNCHANGED requests

\* requestLand and requestRTL, which a vehicle of no type ignores.
RequestMode(op, modes) ==
  /\ Called(op)
  /\ IF m_processingMode \in DOMAIN modes
     THEN SendMode(modes[m_processingMode])
     ELSE UNCHANGED <<pending, requests>>

\* repositionOnboard and repositionOffboard; no target is checked.
Reposition(op) == Called(op) /\ SubmitRequest(Target)

\* repositionAzimuth does nothing.
RepositionAzimuth == Called("sendYaw") /\ UNCHANGED <<pending, requests>>

\* sendSpeed and magCal, as of any vehicle.
RequestSpeed       == Called("sendSpeed") /\ SendSpeed
RequestCalibration == Called("magCal") /\ MagCal

\* The reader drops what a vehicle of no type sends.
Read ==
  /\ IF m_processingMode = "UNDEFINED" THEN Taken /\ UNCHANGED <<telemetryVars, pending>>
                                       ELSE TakePacket(Rates)
  /\ UNCHANGED m_processingMode

Next ==
  \/ RequestARM \/ RequestDisARM \/ RequestTakeOff
  \/ RequestMode("LAND", LandModes) \/ RequestMode("RTL", RTLModes)
  \/ \E op \in {"goTo", "MANUAL_ONBOARD", "MANUAL_OFFBOARD"} : Reposition(op)
  \/ RepositionAzimuth \/ RequestSpeed \/ RequestCalibration
  \/ Link /\ UNCHANGED m_processingMode
  \/ Read

Spec == Init /\ [][Next]_vars

-----------------------------------------------------------------------------
\* The type invariant.
TypeOK ==
  /\ m_customMode \in {a.key : a \in {r \in Reports : r.id = "HEARTBEAT"}} \cup {"NONE"}
  /\ m_initialized \in BOOLEAN /\ m_waitForHomePoint \in BOOLEAN
  /\ m_processingMode \in Types
  /\ \A m \in pending : m.n \in 0..requests
  /\ heard \subseteq {HomePosition}
  /\ store \in Seq(Reports \cup {HomePosition})
  /\ calls \in Nat /\ requests \in Nat
  /\ applied \in [Kinds -> Nat]
=============================================================================
