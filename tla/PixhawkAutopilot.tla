--------------------------- MODULE PixhawkAutopilot ---------------------------
(***************************************************************************)
(* The flight commands of a PX4 vehicle:                                   *)
(* plugins/PluginMavlink/AutopilotPixhawkImpl with the parts of IAutopilot *)
(* and MavlinkProtocol that call it.                                       *)
(*                                                                         *)
(* A call of a leaf goes through several unlocked steps.  The reposition   *)
(* thread sends a set-point every 100 ms while m_repositionThreadWorks is  *)
(* set.  They share the autopilot's fields, of which only the target       *)
(* position and the yaw have a lock.  Left out are `force`, the            *)
(* coordinates themselves and the base position, which nothing reads.      *)
(***************************************************************************)
EXTENDS MavlinkAutopilot

CONSTANTS
  Callers,    \* the threads of the leafs
  Positions,  \* valid coordinates
  NoPos,      \* coordinates that are NaN
  Yaws,       \* angles
  NoYaw       \* NaN

ASSUME PixhawkAssumption == NoPos \notin Positions /\ NoYaw \notin Yaws

VARIABLES
  m_waitPrepareToARM,       \* requestARM has asked for a mode
  m_target,                 \* m_target_main_mode, m_target_sub_mode
  m_repositionThreadWorks,
  m_lastRepositionPos, m_lastYaw,
  call,       \* call[c]: the call c is in, [at, op, pos]; history: cut, what has
              \* stopped the stream since the call turned it on
  tick,       \* the reposition thread: [at, pos, yaw]
  asked,      \* history: [mode, since]: last mode submitted, and what came since
              \* its call turned the stream on
  stray,      \* history: set-points since the stream was stopped, -1 when it runs
  outdated    \* history: set-points to another target or yaw since these were set

armVars       == <<m_waitPrepareToARM, m_target>>
targetVars    == <<m_lastRepositionPos, m_lastYaw, outdated>>
streamVars    == <<m_repositionThreadWorks, stray>>
callVars      == <<call, calls>>
requestVars   == <<requests, asked>>

\* What neither the link nor the reader changes.
ownVars == <<armVars, targetVars, streamVars, call, tick, asked>>

vars == <<telemetryVars, pending, linkVars, calls, requests, ownVars>>

AutoModes   == {"AUTO_MISSION", "AUTO_LAND", "AUTO_RTL"}
ManualModes == {"POSCTL", "ALTCTL"}
StopOperations == {"LAND", "RTL", "KILL", "PREPARED"}

Idle == [at |-> "idle", op |-> "none", pos |-> NoPos, cut |-> {}]

-----------------------------------------------------------------------------
(* Messages                                                                 *)

Setpoint  == [id |-> "SET_POSITION_TARGET_GLOBAL_INT", key |-> ""]
Intervals == Command("SET_MESSAGE_INTERVAL")

\* IAutopilot::sendMode, arm and disarm.
SendMode(mode, since) ==
  /\ SubmitRequest(SetMode(mode))
  /\ asked' = [mode |-> mode, since |-> since]

ArmOrDisarm(op) ==
  /\ SubmitRequest(Command("ARM_DISARM"))
  /\ asked' = [asked EXCEPT !.since = @ \cup {op}]

-----------------------------------------------------------------------------
Init ==
  /\ AutopilotInit
  /\ m_waitPrepareToARM = FALSE /\ m_target = "NONE"
  /\ m_lastRepositionPos = NoPos /\ m_lastYaw = NoYaw
  /\ m_repositionThreadWorks = FALSE
  /\ call = [c \in Callers |-> Idle]
  /\ tick = [at |-> "test", pos |-> NoPos, yaw |-> NoYaw]
  /\ asked = [mode |-> "NONE", since |-> {}]
  /\ stray = 0 /\ outdated = 0

-----------------------------------------------------------------------------
(* Calls of the leafs: MavlinkARMControl, MavlinkPositionControl and        *)
(* MavlinkAHRSControl                                                       *)

MayCall(c) == call[c].at = "idle" /\ calls < MaxCalls
Enter(c, at, op, pos) ==
  /\ call' = [call EXCEPT ![c] = [Idle EXCEPT !.at = at, !.op = op, !.pos = pos]]
  /\ calls' = calls + 1
GoOn(c, at)  == call' = [call EXCEPT ![c].at = at] /\ UNCHANGED calls
Return(c)    == call' = [call EXCEPT ![c] = Idle] /\ UNCHANGED calls

\* Those that have turned the stream on and not yet asked for OFFBOARD see it stopped.
Stopped(op) ==
  [d \in Callers |-> IF call[d].at \in {"store", "mode"}
                     THEN [call[d] EXCEPT !.cut = @ \cup {op}] ELSE call[d]]

EnterStop(c, op) ==
  /\ call' = [Stopped(op) EXCEPT ![c] = [Idle EXCEPT !.at = "request", !.op = op]]
  /\ calls' = calls + 1

StopStream == m_repositionThreadWorks' = FALSE /\ stray' = 0
RunStream  == m_repositionThreadWorks' = TRUE /\ stray' = -1

\* Mutant: a return to launch leaves the stream on.
StopExceptRTL(c, op) ==
  /\ MayCall(c) /\ EnterStop(c, op)
  /\ IF op = "RTL" THEN UNCHANGED m_repositionThreadWorks /\ stray' = 0 ELSE StopStream
  /\ m_waitPrepareToARM' = (op # "KILL" /\ m_waitPrepareToARM)
  /\ UNCHANGED <<telemetryVars, m_target, targetVars, tick, pending, requestVars, linkVars>>

\* The first half of requestLand, requestRTL, requestDisARM and requestARM.
Stop(c, op) ==
  /\ MayCall(c) /\ EnterStop(c, op)
  /\ StopStream
  /\ m_waitPrepareToARM' = (op # "KILL" /\ m_waitPrepareToARM)
  /\ UNCHANGED <<telemetryVars, m_target, targetVars, tick, pending, requestVars, linkVars>>

\* requestARM, as changeState calls it: with a change of mode and not in AUTO.
RequestARM ==
  \/ /\ m_customMode \in ManualModes
     /\ ArmOrDisarm("PREPARED")
     /\ UNCHANGED armVars
  \/ /\ m_customMode \notin ManualModes
     /\ m_target' = "ALTCTL" /\ m_waitPrepareToARM' = TRUE
     /\ SendMode("ALTCTL", {})

\* The second half.
Request(c) ==
  /\ call[c].at = "request" /\ Return(c)
  /\ \/ call[c].op = "LAND" /\ SendMode("AUTO_LAND", {}) /\ UNCHANGED armVars
     \/ call[c].op = "RTL" /\ SendMode("AUTO_RTL", {}) /\ UNCHANGED armVars
     \/ call[c].op = "KILL" /\ ArmOrDisarm("KILL") /\ UNCHANGED armVars
     \/ call[c].op = "PREPARED" /\ RequestARM
  /\ UNCHANGED <<telemetryVars, targetVars, streamVars, tick, linkVars>>

\* requestTakeOff
RequestTakeOff(c) ==
  /\ MayCall(c) /\ calls' = calls + 1 /\ UNCHANGED call
  /\ \/ m_customMode \in AutoModes /\ Submit(Command("MISSION_START"))
     \/ m_customMode \in ManualModes /\ Submit(Command("NAV_TAKEOFF"))
     \/ m_customMode \notin AutoModes \cup ManualModes /\ UNCHANGED pending
  /\ UNCHANGED <<telemetryVars, armVars, targetVars, streamVars, tick, requestVars, linkVars>>

\* MavlinkSpeedControl and MavlinkCalibrationControl
ControlKeeps == UNCHANGED <<telemetryVars, armVars, targetVars, streamVars, call, tick,
                            asked, linkVars>>

RequestSpeed(c)       == MayCall(c) /\ calls' = calls + 1 /\ SendSpeed /\ ControlKeeps
RequestCalibration(c) == MayCall(c) /\ calls' = calls + 1 /\ MagCal /\ ControlKeeps

\* repositionAzimuth, and its call of repositionOffboard without a position.
SetYaw(c, yaw) ==
  /\ MayCall(c) /\ Enter(c, "resume", "sendYaw", NoPos)
  /\ m_lastYaw' = yaw
  /\ outdated' = 0
  /\ UNCHANGED <<telemetryVars, armVars, m_lastRepositionPos, streamVars, tick, pending,
                 requestVars, linkVars>>

\* repositionOffboard sets the flag and calls repositionOnboard, which returns
\* if the position is not valid ...
Resume(c) ==
  /\ call[c].at = "resume"
  /\ RunStream
  /\ IF call[c].pos = NoPos THEN Return(c) ELSE GoOn(c, "onboard")
  /\ UNCHANGED <<telemetryVars, armVars, targetVars, tick, pending, requestVars, linkVars>>

GoTo(c, pos) ==
  /\ MayCall(c) /\ Enter(c, "resume", "goTo", pos)
  /\ UNCHANGED <<telemetryVars, armVars, targetVars, streamVars, tick, pending,
                 requestVars, linkVars>>

\* ... as does the call that MANUAL_ONBOARD makes of it directly.
Onboard(c, pos) ==
  /\ MayCall(c) /\ Enter(c, "onboard", "MANUAL_ONBOARD", pos)
  /\ pos # NoPos
  /\ UNCHANGED <<telemetryVars, armVars, targetVars, streamVars, tick, pending,
                 requestVars, linkVars>>

\* Mutant: a reposition from on board relies on a stream that is on.
RepositionUnset(c) ==
  /\ call[c].at = "onboard" /\ GoOn(c, "store")
  /\ UNCHANGED <<telemetryVars, armVars, targetVars, streamVars, tick, pending,
                 requestVars, linkVars>>

\* repositionOnboard
Reposition(c) ==
  /\ call[c].at = "onboard" /\ GoOn(c, "store")
  /\ RunStream
  /\ UNCHANGED <<telemetryVars, armVars, targetVars, tick, pending, requestVars, linkVars>>

StorePosition(c) ==
  /\ call[c].at = "store" /\ GoOn(c, "mode")
  /\ m_lastRepositionPos' = call[c].pos
  /\ outdated' = 0
  /\ UNCHANGED <<telemetryVars, armVars, m_lastYaw, streamVars, tick, pending,
                 requestVars, linkVars>>

GoOffboard(c) ==
  /\ call[c].at = "mode" /\ Return(c)
  /\ \/ m_customMode # "OFFBOARD" /\ SendMode("OFFBOARD", call[c].cut)
     \/ m_customMode = "OFFBOARD" /\ UNCHANGED <<pending, requestVars>>
  /\ UNCHANGED <<telemetryVars, armVars, targetVars, streamVars, tick, linkVars>>

CallStep(c) == Request(c) \/ Resume(c) \/ Reposition(c) \/ StorePosition(c) \/ GoOffboard(c)

-----------------------------------------------------------------------------
(* doRepositionTick                                                         *)

TickKeeps == UNCHANGED <<telemetryVars, armVars, m_lastRepositionPos, m_lastYaw,
                         m_repositionThreadWorks, callVars, requestVars, linkVars>>

TestFlag ==
  /\ tick.at = "test" /\ m_repositionThreadWorks
  /\ tick' = [tick EXCEPT !.at = "copy"]
  /\ TickKeeps /\ UNCHANGED <<outdated, stray, pending>>

\* Mutants: the position is not looked at; no set-point without a yaw; the yaw
\* of the tick before.
CopyUnchecked ==
  /\ tick.at = "copy"
  /\ tick' = [at |-> "send", pos |-> m_lastRepositionPos, yaw |-> m_lastYaw]
  /\ TickKeeps /\ UNCHANGED <<outdated, stray, pending>>

CopyWithYaw ==
  /\ tick.at = "copy"
  /\ tick' = IF m_lastRepositionPos = NoPos \/ m_lastYaw = NoYaw
             THEN [tick EXCEPT !.at = "test"]
             ELSE [at |-> "send", pos |-> m_lastRepositionPos, yaw |-> m_lastYaw]
  /\ TickKeeps /\ UNCHANGED <<outdated, stray, pending>>

CopyPositionOnly ==
  /\ tick.at = "copy"
  /\ tick' = IF m_lastRepositionPos = NoPos THEN [tick EXCEPT !.at = "test"]
             ELSE [tick EXCEPT !.at = "send", !.pos = m_lastRepositionPos]
  /\ TickKeeps /\ UNCHANGED <<outdated, stray, pending>>

\* Position and yaw are read under m_repositionLock.
Copy ==
  /\ tick.at = "copy"
  /\ tick' = IF m_lastRepositionPos = NoPos THEN [tick EXCEPT !.at = "test"]
             ELSE [at |-> "send", pos |-> m_lastRepositionPos, yaw |-> m_lastYaw]
  /\ TickKeeps /\ UNCHANGED <<outdated, stray, pending>>

Counted(counts, n) == IF counts THEN n + 1 ELSE n

Send ==
  /\ tick.at = "send"
  /\ Submit(Setpoint)
  /\ stray' = Counted(stray >= 0, stray)
  /\ outdated' = Counted(<<tick.pos, tick.yaw>> # <<m_lastRepositionPos, m_lastYaw>>, outdated)
  /\ tick' = [tick EXCEPT !.at = "test"]
  /\ TickKeeps

DoRepositionTick == TestFlag \/ Copy \/ Send

-----------------------------------------------------------------------------
Next ==
  \/ \E c \in Callers :
       \/ \E op \in Operations \cap StopOperations : Stop(c, op)
       \/ "sendYaw" \in Operations /\ \E yaw \in Yaws : SetYaw(c, yaw)
       \/ "goTo" \in Operations /\ \E pos \in Positions \cup {NoPos} : GoTo(c, pos)
       \/ "MANUAL_ONBOARD" \in Operations /\ \E pos \in Positions : Onboard(c, pos)
       \/ "STARTED" \in Operations /\ RequestTakeOff(c)
       \/ "sendSpeed" \in Operations /\ RequestSpeed(c)
       \/ "magCal" \in Operations /\ RequestCalibration(c)
       \/ CallStep(c)
  \/ DoRepositionTick
  \/ (Link \/ TakePacket(Intervals)) /\ UNCHANGED ownVars

Spec == Init /\ [][Next]_vars

\* The reposition thread runs.
StreamSpec == Spec /\ WF_vars(DoRepositionTick)

\* The threads run.  The vehicle goes on sending heartbeats and positions, and not
\* all the requests for the home point, nor all its answers, are lost.
Comes(a) == Arrive(a) /\ UNCHANGED ownVars

FairSpec ==
  /\ Spec
  /\ \A c \in Callers : WF_vars(CallStep(c))
  /\ WF_vars(DoRepositionTick)
  /\ WF_vars(TakePacket(Intervals) /\ UNCHANGED ownVars)
  /\ SF_vars(Comes(Fix)) /\ SF_vars(\E a \in Reports : a.id = "HEARTBEAT" /\ Comes(a))
  /\ SF_vars(HomePosition \in heard /\ Comes(HomePosition))
  /\ SF_vars(\E m \in pending : /\ m.packet = Command("GET_HOME_POSITION")
                                /\ Transmit(m) /\ UNCHANGED ownVars)

-----------------------------------------------------------------------------
(* Properties                                                               *)

RequestedModes == {"AUTO_LAND", "AUTO_RTL", "ALTCTL", "OFFBOARD"}

Packets ==
  {SetMode(mode) : mode \in RequestedModes}
    \cup {Command(c) : c \in {"ARM_DISARM", "MISSION_START", "NAV_TAKEOFF",
                              "GET_HOME_POSITION", "SET_MESSAGE_INTERVAL",
                              "DO_CHANGE_SPEED", "PREFLIGHT_CALIBRATION"}}
    \cup {Setpoint}

CallStates == [at : {"idle", "request", "resume", "onboard", "store", "mode"},
               op : StopOperations \cup {"none", "goTo", "MANUAL_ONBOARD", "sendYaw"},
               pos : Positions \cup {NoPos}, cut : SUBSET StopOperations]

TickStates == [at : {"test", "copy", "send"}, pos : Positions \cup {NoPos},
               yaw : Yaws \cup {NoYaw}]

Asked == [mode : RequestedModes \cup {"NONE"}, since : SUBSET StopOperations]

\* The type of every variable; the coordinates of a set-point are numbers.
TypeOK ==
  /\ m_customMode \in {a.key : a \in {r \in Reports : r.id = "HEARTBEAT"}} \cup {"NONE"}
  /\ m_initialized \in BOOLEAN /\ m_waitForHomePoint \in BOOLEAN
  /\ m_waitPrepareToARM \in BOOLEAN /\ m_target \in {"NONE", "ALTCTL"}
  /\ m_repositionThreadWorks \in BOOLEAN
  /\ m_lastRepositionPos \in Positions \cup {NoPos} /\ m_lastYaw \in Yaws \cup {NoYaw}
  /\ call \in [Callers -> CallStates] /\ tick \in TickStates
  /\ pending \subseteq [packet : Packets, n : Nat]
  /\ heard \subseteq {HomePosition}
  /\ store \in Seq(Reports \cup {HomePosition})
  /\ calls \in Nat /\ requests \in Nat
  /\ applied \in [Kinds -> Nat]
  /\ asked \in Asked
  /\ stray \in Nat \cup {-1} /\ outdated \in Nat
  /\ tick.at = "send" => tick.pos \in Positions

\* Once landing, a return, a disarming or an arming has stopped the stream, the
\* tick that is under way sends at most one more set-point.
StopIsPrompt == stray <= 1

\* Once a target or a yaw is stored, at most one more set-point has an older one.
TargetIsPrompt == outdated <= 1

\* A vehicle that was last told to go OFFBOARD gets set-points to a valid target,
\* whatever the other leafs ask for, unless one of them has stopped the stream
\* after the call that asks for OFFBOARD turned it on: the steps are not locked.
OffboardIsFed ==
  asked.mode = "OFFBOARD" /\ asked.since = {}
    /\ (\A c \in Callers : call[c].at # "request")
  => m_repositionThreadWorks /\ m_lastRepositionPos # NoPos

\* While the stream is on and has a target, set-points go on being sent, with
\* or without a yaw.
StreamGoesOn ==
  (m_repositionThreadWorks /\ m_lastRepositionPos # NoPos)
    ~> (tick.at = "send" \/ ~m_repositionThreadWorks)

\* requestARM arms (IAutopilot.h:76), changing the mode if it is wrong: when the
\* mode that was asked for has come, an arming is submitted.
PreparedIsArmed ==
  (m_waitPrepareToARM /\ m_customMode = m_target)
    ~> (\E m \in pending : m.packet = Command("ARM_DISARM")) \/ m_customMode # m_target
=============================================================================
