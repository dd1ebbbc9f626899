------------------------ MODULE PixhawkAutopilotProofs ------------------------
(***************************************************************************)
(* Proofs about PixhawkAutopilot for any number of leafs, targets, reports *)
(* and calls.                                                              *)
(***************************************************************************)
EXTENDS Autopilots, MavlinkAutopilotProofs

-----------------------------------------------------------------------------
(* Type correctness                                                         *)

LEMMA SubmitType ==
  ASSUME TypeOK, NEW p \in Packets, Submit(p)
  PROVE  pending' \subseteq [packet : Packets, n : Nat]
  BY DEF TypeOK, Submit, Unsettled

LEMMA SubmitRequestType ==
  ASSUME TypeOK, NEW p \in Packets, SubmitRequest(p)
  PROVE  /\ pending' \subseteq [packet : Packets, n : Nat]
         /\ requests' \in Nat
  BY DEF TypeOK, SubmitRequest, Unsettled

LEMMA SendModeType ==
  ASSUME TypeOK, NEW mode \in RequestedModes, NEW since \in SUBSET StopOperations,
         SendMode(mode, since)
  PROVE  /\ pending' \subseteq [packet : Packets, n : Nat]
         /\ requests' \in Nat
         /\ asked' \in Asked
<1>1. SetMode(mode) \in Packets BY DEF Packets
<1>2. SubmitRequest(SetMode(mode)) BY DEF SendMode
<1>3. [mode |-> mode, since |-> since] \in Asked BY DEF Asked
<1> QED BY <1>1, <1>2, <1>3, SubmitRequestType DEF SendMode

LEMMA ArmOrDisarmType ==
  ASSUME TypeOK, NEW op \in {"KILL", "PREPARED"}, ArmOrDisarm(op)
  PROVE  /\ pending' \subseteq [packet : Packets, n : Nat]
         /\ requests' \in Nat
         /\ asked' \in Asked
<1>1. Command("ARM_DISARM") \in Packets BY DEF Packets
<1>2. SubmitRequest(Command("ARM_DISARM")) BY DEF ArmOrDisarm
<1> QED BY <1>1, <1>2, SubmitRequestType DEF ArmOrDisarm, TypeOK, Asked, StopOperations

LEMMA ControlType ==
  ASSUME TypeOK, NEW c \in Callers, RequestSpeed(c) \/ RequestCalibration(c)
  PROVE  TypeOK'
<1>1. /\ Command("DO_CHANGE_SPEED") \in Packets
      /\ Command("PREFLIGHT_CALIBRATION") \in Packets
  BY DEF Packets
<1>2. \/ SubmitRequest(Command("DO_CHANGE_SPEED"))
      \/ SubmitRequest(Command("PREFLIGHT_CALIBRATION"))
  BY DEF RequestSpeed, RequestCalibration, SendSpeed, MagCal
<1>3. /\ pending' \subseteq [packet : Packets, n : Nat]
      /\ requests' \in Nat
  BY <1>1, <1>2, SubmitRequestType
<1>4. calls' = calls + 1 /\ ControlKeeps
  BY DEF RequestSpeed, RequestCalibration
<1>5. calls' \in Nat
  BY <1>4 DEF TypeOK
<1> QED BY <1>3, <1>4, <1>5
        DEF TypeOK, ControlKeeps, telemetryVars, armVars, targetVars, streamVars, linkVars

LEMMA ReturnType ==
  ASSUME call \in [Callers -> CallStates], NEW c \in Callers, Return(c)
  PROVE  call' \in [Callers -> CallStates] /\ calls' = calls
<1>1. Idle \in CallStates BY DEF Idle, CallStates
<1> HIDE DEF CallStates, Idle
<1> QED BY <1>1 DEF Return

LEMMA EnterType ==
  ASSUME call \in [Callers -> CallStates], calls \in Nat,
         NEW c \in Callers, NEW at \in {"resume", "onboard"},
         NEW op \in {"goTo", "MANUAL_ONBOARD", "sendYaw"}, NEW pos \in Positions \cup {NoPos},
         Enter(c, at, op, pos)
  PROVE  call' \in [Callers -> CallStates] /\ calls' \in Nat
<1>1. [Idle EXCEPT !.at = at, !.op = op, !.pos = pos] \in CallStates
  BY DEF Idle, CallStates
<1> HIDE DEF CallStates, Idle
<1> QED BY <1>1 DEF Enter

LEMMA EnterStopType ==
  ASSUME call \in [Callers -> CallStates], NEW c \in Callers, NEW op \in StopOperations,
         EnterStop(c, op)
  PROVE  call' \in [Callers -> CallStates]
<1>1. [Idle EXCEPT !.at = "request", !.op = op] \in CallStates
  BY DEF Idle, CallStates
<1>2. ASSUME NEW d \in Callers
      PROVE  [call[d] EXCEPT !.cut = @ \cup {op}] \in CallStates
  <2>1. call[d] \in CallStates OBVIOUS
  <2> QED BY <2>1 DEF CallStates
<1> HIDE DEF CallStates
<1>3. Stopped(op) \in [Callers -> CallStates]
  BY <1>2 DEF Stopped
<1> QED BY <1>1, <1>3 DEF EnterStop

LEMMA GoOnType ==
  ASSUME call \in [Callers -> CallStates], NEW c \in Callers,
         NEW at \in {"onboard", "store", "mode"}, GoOn(c, at)
  PROVE  call' \in [Callers -> CallStates] /\ calls' = calls
<1>1. [call[c] EXCEPT !.at = at] \in CallStates
  <2>1. call[c] \in CallStates OBVIOUS
  <2> QED BY <2>1 DEF CallStates
<1>2. call' = [call EXCEPT ![c] = [call[c] EXCEPT !.at = at]]
  BY DEF GoOn
<1> HIDE DEF CallStates
<1> QED BY <1>1, <1>2 DEF GoOn

\* Every variable keeps its type, and a set-point that is about to be sent has
\* coordinates that are numbers.
THEOREM TypeCorrect == Spec => []TypeOK
<1> USE DEF StopOperations, RequestedModes, CallStates, TickStates, Asked,
            telemetryVars, armVars, targetVars, streamVars, callVars, requestVars, linkVars
<1>1. Init => TypeOK
  <2> SUFFICES ASSUME Init PROVE TypeOK
    OBVIOUS
  <2> USE DEF AutopilotInit
  <2>1. call \in [Callers -> CallStates]
    BY DEF Init, Idle
  <2>2. /\ tick \in TickStates
        /\ tick.at # "send"
    BY DEF Init
  <2>3. asked \in Asked
    BY DEF Init
  <2>4. /\ store \in Seq(Reports \cup {HomePosition})
        /\ applied \in [Kinds -> Nat]
    BY DEF Init
  <2> QED BY <2>1, <2>2, <2>3, <2>4 DEF Init, TypeOK
<1>2. TypeOK /\ [Next]_vars => TypeOK'
  <2> SUFFICES ASSUME TypeOK, [Next]_vars PROVE TypeOK'
    OBVIOUS
  <2>1. ASSUME NEW c \in Callers, NEW op \in StopOperations, Stop(c, op)
        PROVE  TypeOK'
    <3>1. m_waitPrepareToARM' \in BOOLEAN
      BY <2>1 DEF Stop
    <3>2. call' \in [Callers -> CallStates]
      BY <2>1, EnterStopType DEF TypeOK, Stop
    <3>3. m_repositionThreadWorks' \in BOOLEAN
      BY <2>1, Zenon DEF Stop, StopStream
    <3>4. stray' \in Nat \cup {-1} /\ calls' \in Nat
      <4>1. stray' = 0 /\ calls' = calls + 1
        BY <2>1 DEF Stop, EnterStop, StopStream
      <4> QED BY <4>1 DEF TypeOK
    <3>5. UNCHANGED <<telemetryVars, m_target, targetVars, tick, pending, requestVars, linkVars>>
      BY <2>1 DEF Stop
    <3> HIDE DEF CallStates, TickStates, Asked
    <3> QED BY <3>1, <3>2, <3>3, <3>4, <3>5 DEF TypeOK
  <2>2. ASSUME NEW c \in Callers, NEW yaw \in Yaws, SetYaw(c, yaw)
        PROVE  TypeOK'
    <3>1. Enter(c, "resume", "sendYaw", NoPos)
      BY <2>2 DEF SetYaw
    <3>2. call' \in [Callers -> CallStates] /\ calls' \in Nat
      <4> HIDE DEF CallStates
      <4> QED BY <3>1, EnterType DEF TypeOK
    <3>3. /\ m_lastYaw' = yaw /\ outdated' = 0
          /\ UNCHANGED <<telemetryVars, armVars, m_lastRepositionPos, streamVars, tick, pending,
                        requestVars, linkVars>>
      BY <2>2 DEF SetYaw
    <3> HIDE DEF CallStates, TickStates, Asked
    <3> QED BY <3>2, <3>3 DEF TypeOK
  <2>3. ASSUME NEW c \in Callers, NEW pos \in Positions \cup {NoPos}, GoTo(c, pos)
        PROVE  TypeOK'
    <3>1. Enter(c, "resume", "goTo", pos)
      BY <2>3 DEF GoTo
    <3>2. call' \in [Callers -> CallStates] /\ calls' \in Nat
      <4> HIDE DEF CallStates
      <4> QED BY <3>1, EnterType DEF TypeOK
    <3>3. UNCHANGED <<telemetryVars, armVars, targetVars, streamVars, tick, pending,
                        requestVars, linkVars>>
      BY <2>3 DEF GoTo
    <3> HIDE DEF CallStates, TickStates, Asked
    <3> QED BY <3>2, <3>3 DEF TypeOK
  <2>4. ASSUME NEW c \in Callers, NEW pos \in Positions, Onboard(c, pos)
        PROVE  TypeOK'
    <3>1. Enter(c, "onboard", "MANUAL_ONBOARD", pos)
      BY <2>4 DEF Onboard
    <3>2. call' \in [Callers -> CallStates] /\ calls' \in Nat
      <4> HIDE DEF CallStates
      <4> QED BY <3>1, EnterType DEF TypeOK
    <3>3. UNCHANGED <<telemetryVars, armVars, targetVars, streamVars, tick, pending,
                        requestVars, linkVars>>
      BY <2>4 DEF Onboard
    <3> HIDE DEF CallStates, TickStates, Asked
    <3> QED BY <3>2, <3>3 DEF TypeOK
  <2>5. ASSUME NEW c \in Callers, RequestTakeOff(c)
        PROVE  TypeOK'
    <3>1. /\ Command("MISSION_START") \in Packets
          /\ Command("NAV_TAKEOFF") \in Packets
      BY DEF Packets
    <3>2. pending' \subseteq [packet : Packets, n : Nat]
      BY <2>5, <3>1, SubmitType DEF RequestTakeOff, TypeOK
    <3> QED BY <2>5, <3>2 DEF TypeOK, RequestTakeOff, MayCall
  <2>6. ASSUME NEW c \in Callers, Request(c)
        PROVE  TypeOK'
    <3>1. /\ pending' \subseteq [packet : Packets, n : Nat]
          /\ requests' \in Nat
          /\ asked' \in Asked
      BY <2>6, SendModeType, ArmOrDisarmType DEF Request, RequestARM
    <3>2. m_waitPrepareToARM' \in BOOLEAN /\ m_target' \in {"NONE", "ALTCTL"}
      BY <2>6 DEF TypeOK, Request, RequestARM, armVars
    <3>3. call' \in [Callers -> CallStates]
      BY <2>6 DEF TypeOK, Request, Return, Idle
    <3>4. UNCHANGED <<telemetryVars, targetVars, streamVars, tick, linkVars, calls>>
      BY <2>6 DEF Request, Return
    <3> QED BY <3>1, <3>2, <3>3, <3>4
      DEF TypeOK, telemetryVars, targetVars, streamVars, linkVars
  <2>7. ASSUME NEW c \in Callers, Resume(c)
        PROVE  TypeOK'
    <3>1. call' \in [Callers -> CallStates]
      <4>1. Return(c) \/ GoOn(c, "onboard")
        BY <2>7 DEF Resume
      <4> HIDE DEF CallStates
      <4> QED BY <4>1, ReturnType, GoOnType DEF TypeOK
    <3>2. /\ m_repositionThreadWorks' = TRUE /\ stray' = -1
          /\ UNCHANGED <<telemetryVars, armVars, targetVars, tick, pending, requestVars,
                         linkVars, calls>>
      BY <2>7 DEF Resume, RunStream, Return, GoOn
    <3> HIDE DEF CallStates, TickStates, Asked
    <3> QED BY <3>1, <3>2 DEF TypeOK
  <2>8. ASSUME NEW c \in Callers, Reposition(c)
        PROVE  TypeOK'
    <3>1. call' \in [Callers -> CallStates]
      <4>1. GoOn(c, "store")
        BY <2>8 DEF Reposition
      <4> HIDE DEF CallStates
      <4> QED BY <4>1, GoOnType DEF TypeOK
    <3>2. /\ m_repositionThreadWorks' = TRUE /\ stray' = -1
          /\ UNCHANGED <<telemetryVars, armVars, targetVars, tick, pending, requestVars,
                         linkVars, calls>>
      BY <2>8 DEF Reposition, RunStream, GoOn
    <3> HIDE DEF CallStates, TickStates, Asked
    <3> QED BY <3>1, <3>2 DEF TypeOK
  <2>9. ASSUME NEW c \in Callers, StorePosition(c)
        PROVE  TypeOK'
    <3>1. call' \in [Callers -> CallStates] /\ calls' = calls
      <4>1. GoOn(c, "mode")
        BY <2>9 DEF StorePosition
      <4> HIDE DEF CallStates
      <4> QED BY <4>1, GoOnType DEF TypeOK
    <3>2. /\ m_lastRepositionPos' \in Positions \cup {NoPos} /\ outdated' = 0
          /\ UNCHANGED <<telemetryVars, armVars, m_lastYaw, streamVars, tick, pending,
                         requestVars, linkVars>>
      BY <2>9 DEF StorePosition, TypeOK
    <3> HIDE DEF CallStates, TickStates, Asked
    <3> QED BY <3>1, <3>2 DEF TypeOK
  <2>10. ASSUME NEW c \in Callers, GoOffboard(c)
         PROVE  TypeOK'
    <3>1. /\ pending' \subseteq [packet : Packets, n : Nat]
          /\ requests' \in Nat
          /\ asked' \in Asked
      <4>1. call[c].cut \in SUBSET StopOperations
        BY DEF TypeOK
      <4> QED BY <2>10, <4>1, SendModeType DEF GoOffboard, TypeOK, requestVars
    <3>2. call' \in [Callers -> CallStates]
      <4>1. Return(c)
        BY <2>10 DEF GoOffboard
      <4> HIDE DEF CallStates
      <4> QED BY <4>1, ReturnType DEF TypeOK
    <3>3. UNCHANGED <<telemetryVars, armVars, targetVars, streamVars, tick, linkVars, calls>>
      BY <2>10 DEF GoOffboard, Return
    <3> HIDE DEF CallStates, TickStates, Asked
    <3> QED BY <3>1, <3>2, <3>3 DEF TypeOK
  <2>11. CASE TestFlag
    <3>1. tick' \in TickStates /\ tick'.at # "send"
      BY <2>11 DEF TypeOK, TestFlag
    <3>2. UNCHANGED <<telemetryVars, armVars, targetVars, streamVars, pending, callVars,
                      requestVars, linkVars>>
      BY <2>11 DEF TestFlag, TickKeeps
    <3> HIDE DEF CallStates, TickStates, Asked
    <3> QED BY <3>1, <3>2 DEF TypeOK
  <2>12. CASE Copy
    <3>1. tick' \in TickStates /\ (tick'.at = "send" => tick'.pos \in Positions)
      BY <2>12 DEF TypeOK, Copy
    <3>2. UNCHANGED <<telemetryVars, armVars, targetVars, streamVars, pending, callVars,
                      requestVars, linkVars>>
      BY <2>12 DEF Copy, TickKeeps
    <3> HIDE DEF CallStates, TickStates, Asked
    <3> QED BY <3>1, <3>2 DEF TypeOK
  <2>13. CASE Send
    <3>1. pending' \subseteq [packet : Packets, n : Nat]
      <4>1. Setpoint \in Packets BY DEF Packets
      <4> QED BY <2>13, <4>1, SubmitType DEF Send
    <3>2. stray' \in Nat \cup {-1} /\ outdated' \in Nat
      BY <2>13 DEF TypeOK, Send, Counted
    <3>3. tick' \in TickStates /\ tick'.at # "send"
      BY <2>13 DEF TypeOK, Send
    <3>4. UNCHANGED <<telemetryVars, armVars, m_lastRepositionPos, m_lastYaw,
                      m_repositionThreadWorks, callVars, requestVars, linkVars>>
      BY <2>13 DEF Send, TickKeeps
    <3> HIDE DEF CallStates, TickStates, Asked
    <3> QED BY <3>1, <3>2, <3>3, <3>4 DEF TypeOK
  <2>14. ASSUME NEW m \in pending, Transmit(m), UNCHANGED ownVars
         PROVE  TypeOK'
    <3>1. heard' \subseteq {HomePosition}
      BY <2>14 DEF TypeOK, Transmit, Answers
    <3>2. applied' \in [Kinds -> Nat]
      BY <2>14 DEF TypeOK, Transmit
    <3> QED BY <2>14, <3>1, <3>2 DEF TypeOK, Transmit, ownVars
  <2>15. ASSUME NEW m \in pending, Lose(m), UNCHANGED ownVars
         PROVE  TypeOK'
    BY <2>15 DEF TypeOK, Lose, ownVars
  <2>16. ASSUME NEW a \in Reports \cup heard, Arrive(a), UNCHANGED ownVars
         PROVE  TypeOK'
    <3>1. store' \in Seq(Reports \cup {HomePosition})
      BY <2>16 DEF TypeOK, Arrive
    <3>2. pending' \subseteq [packet : Packets, n : Nat]
      BY <2>16 DEF TypeOK, Arrive, Unsettled
    <3> QED BY <2>16, <3>1, <3>2 DEF TypeOK, Arrive, ownVars
  <2>17. CASE TakePacket(Intervals) /\ UNCHANGED ownVars
    <3> DEFINE a == store[Len(store)]
    <3>1. a \in Reports \cup {HomePosition}
      BY <2>17 DEF TypeOK, TakePacket, Taken
    <3>2. store' \in Seq(Reports \cup {HomePosition})
      BY <2>17 DEF TypeOK, TakePacket, Taken
    <3>3. /\ Command("GET_HOME_POSITION") \in Packets
          /\ Intervals \in Packets
      BY DEF Packets, Intervals
    <3>4. CASE a.id = "HEARTBEAT" /\ SetHeartbeat(a.key, Intervals)
      <4>1. a \in Reports
        <5>1. HomePosition.id # "HEARTBEAT" BY DEF HomePosition
        <5> HIDE DEF a
        <5> QED BY <3>1, <3>4, <5>1
      <4>2. pending' \subseteq [packet : Packets, n : Nat]
        BY <3>3, <3>4 DEF TypeOK, SetHeartbeat
      <4>3. m_customMode' \in {r.key : r \in {q \in Reports : q.id = "HEARTBEAT"}}
        BY <3>4, <4>1 DEF SetHeartbeat
      <4> HIDE DEF a
      <4> QED BY <2>17, <3>2, <3>4, <4>2, <4>3 DEF TypeOK, TakePacket, Taken, SetHeartbeat, ownVars
    <3>5. CASE ~(a.id = "HEARTBEAT" /\ SetHeartbeat(a.key, Intervals))
      <4>1. pending' \subseteq [packet : Packets, n : Nat]
        BY <2>17, <3>3, <3>5, SubmitType
        DEF TypeOK, TakePacket, Taken, SetAck, SetGPSRawInt, SetHomePosition, SendGetHomePoint
      <4>2. /\ UNCHANGED <<m_customMode, m_initialized>>
            /\ m_waitForHomePoint' \in BOOLEAN
        BY <2>17, <3>5
        DEF TypeOK, TakePacket, Taken, SetAck, SetGPSRawInt, SetHomePosition, telemetryVars
      <4> HIDE DEF a
      <4> QED BY <2>17, <3>2, <4>1, <4>2 DEF TypeOK, TakePacket, Taken, ownVars
    <3> QED BY <3>4, <3>5
  <2>18. CASE UNCHANGED vars
    BY <2>18 DEF TypeOK, vars, ownVars
  <2> QED BY <2>1, <2>2, <2>3, <2>4, <2>5, <2>6, <2>7, <2>8, <2>9, <2>10, <2>11, <2>12,
             <2>13, <2>14, <2>15, <2>16, <2>17, <2>18, ControlType
          DEF Next, Link, CallStep, DoRepositionTick
<1> QED BY <1>1, <1>2, PTL DEF Spec
-----------------------------------------------------------------------------
(* The stream of set-points                                                 *)

\* While the stream is off the thread may be in a tick it began before; the
\* tick that sends the one stray set-point is over.
StrayInv ==
  /\ stray >= 0 => ~m_repositionThreadWorks
  /\ stray = 1 => tick.at = "test"
  /\ stray <= 1

\* Stopping the stream is prompt for any number of leafs and calls.
THEOREM StopAlwaysPrompt == Spec => []StopIsPrompt
<1>1. Init => StrayInv
  BY DEF Init, StrayInv
<1>2. TypeOK /\ StrayInv /\ [Next]_vars => StrayInv'
  <2> SUFFICES ASSUME TypeOK, StrayInv, [Next]_vars PROVE StrayInv'
    OBVIOUS
  <2>1. CASE StopStream /\ UNCHANGED tick
    BY <2>1 DEF StopStream, StrayInv
  <2>2. CASE RunStream /\ UNCHANGED tick
    BY <2>2 DEF RunStream, StrayInv
  <2>3. CASE UNCHANGED <<streamVars, tick>>
    BY <2>3 DEF streamVars, StrayInv
  <2>4. ASSUME NEW c \in Callers, NEW op \in StopOperations, Stop(c, op)
        PROVE  StrayInv'
    BY <2>1, <2>4 DEF Stop
  <2>5. ASSUME NEW c \in Callers, CallStep(c)
        PROVE  StrayInv'
    BY <2>2, <2>3, <2>5
    DEF CallStep, Request, Resume, Reposition, StorePosition, GoOffboard
  <2>6. CASE TestFlag
    <3>1. m_repositionThreadWorks /\ UNCHANGED <<m_repositionThreadWorks, stray>>
      BY <2>6 DEF TestFlag, TickKeeps
    <3> QED BY <3>1 DEF StrayInv, TypeOK
  <2>7. CASE Copy
    <3>1. tick.at = "copy" /\ UNCHANGED <<m_repositionThreadWorks, stray>>
      BY <2>7 DEF Copy, TickKeeps
    <3> QED BY <3>1 DEF StrayInv
  <2>8. CASE Send
    <3>1. tick.at = "send" /\ tick'.at = "test" /\ UNCHANGED m_repositionThreadWorks
      BY <2>8 DEF Send, TickKeeps, TypeOK, TickStates
    <3>2. stray # 1 /\ stray <= 1 BY <3>1 DEF StrayInv
    <3>3. stray' = IF stray >= 0 THEN stray + 1 ELSE stray
      BY <2>8 DEF Send, Counted
    <3>4. stray \in Nat \cup {-1} BY DEF TypeOK
    <3>5. (stray = -1 /\ stray' = -1) \/ (stray = 0 /\ stray' = 1)
      <4>1. CASE stray = -1 BY <3>3, <4>1
      <4>2. CASE stray \in Nat
        <5>1. stray = 0 BY <3>2, <4>2
        <5> QED BY <3>3, <5>1
      <4> QED BY <3>4, <4>1, <4>2
    <3> QED BY <3>1, <3>5 DEF StrayInv
  <2>9. ASSUME NEW c \in Callers,
               \/ \E yaw \in Yaws : SetYaw(c, yaw)
               \/ \E pos \in Positions \cup {NoPos} : GoTo(c, pos)
               \/ \E pos \in Positions : Onboard(c, pos)
               \/ RequestTakeOff(c) \/ RequestSpeed(c) \/ RequestCalibration(c)
        PROVE  StrayInv'
    BY <2>3, <2>9
    DEF SetYaw, GoTo, Onboard, RequestTakeOff, RequestSpeed, RequestCalibration, ControlKeeps
  <2>10. CASE UNCHANGED ownVars
    BY <2>3, <2>10 DEF ownVars
  <2>11. CASE UNCHANGED vars
    BY <2>3, <2>11 DEF vars, ownVars
  <2> QED BY <2>4, <2>5, <2>6, <2>7, <2>8, <2>9, <2>10, <2>11 DEF Next, DoRepositionTick
<1>3. StrayInv => StopIsPrompt
  BY DEF StrayInv, StopIsPrompt
<1> QED BY <1>1, <1>2, <1>3, TypeCorrect, PTL DEF Spec

\* Once one set-point to an older target or yaw has been sent, those the thread
\* has copied are the newest.
OutdatedInv ==
  /\ outdated \in {0, 1}
  /\ outdated = 1 /\ tick.at = "send"
       => tick.pos = m_lastRepositionPos /\ tick.yaw = m_lastYaw

\* So is a new target, for any number of leafs, targets and angles.
THEOREM TargetAlwaysPrompt == Spec => []TargetIsPrompt
<1>1. Init => OutdatedInv
  BY DEF Init, OutdatedInv
<1>2. TypeOK /\ OutdatedInv /\ [Next]_vars => OutdatedInv'
  <2> SUFFICES ASSUME TypeOK, OutdatedInv, [Next]_vars PROVE OutdatedInv'
    OBVIOUS
  <2>1. CASE outdated' = 0
    BY <2>1 DEF OutdatedInv
  <2>2. CASE UNCHANGED <<targetVars, tick>>
    BY <2>2 DEF targetVars, OutdatedInv
  <2>3. ASSUME NEW c \in Callers, CallStep(c)
        PROVE  OutdatedInv'
    BY <2>1, <2>2, <2>3
    DEF CallStep, Request, Resume, Reposition, StorePosition, GoOffboard
  <2>4. CASE TestFlag
    <3>1. tick'.at = "copy" /\ UNCHANGED outdated
      BY <2>4 DEF TestFlag, TypeOK, TickStates
    <3> QED BY <3>1 DEF OutdatedInv
  <2>5. CASE Copy
    <3>1. UNCHANGED <<outdated, m_lastRepositionPos, m_lastYaw>>
      BY <2>5 DEF Copy, TickKeeps
    <3>2. tick'.at = "send" => tick'.pos = m_lastRepositionPos /\ tick'.yaw = m_lastYaw
      BY <2>5 DEF Copy, TypeOK, TickStates
    <3> QED BY <3>1, <3>2 DEF OutdatedInv
  <2>6. CASE Send
    <3>1. tick.at = "send" /\ tick'.at = "test"
      BY <2>6 DEF Send, TypeOK, TickStates
    <3>2. outdated' = IF <<tick.pos, tick.yaw>> # <<m_lastRepositionPos, m_lastYaw>>
                      THEN outdated + 1 ELSE outdated
      BY <2>6 DEF Send, Counted
    <3>3. outdated' \in {0, 1}
      BY <3>1, <3>2 DEF OutdatedInv
    <3> QED BY <3>1, <3>3 DEF OutdatedInv
  <2>7. ASSUME NEW c \in Callers, NEW yaw \in Yaws, SetYaw(c, yaw)
        PROVE  OutdatedInv'
    BY <2>1, <2>7 DEF SetYaw
  <2>8. ASSUME NEW c \in Callers,
               \/ \E op \in StopOperations : Stop(c, op)
               \/ \E pos \in Positions \cup {NoPos} : GoTo(c, pos)
               \/ \E pos \in Positions : Onboard(c, pos)
               \/ RequestTakeOff(c) \/ RequestSpeed(c) \/ RequestCalibration(c)
        PROVE  OutdatedInv'
    BY <2>2, <2>8
    DEF Stop, GoTo, Onboard, RequestTakeOff, RequestSpeed, RequestCalibration, ControlKeeps
  <2>9. CASE UNCHANGED ownVars
    BY <2>2, <2>9 DEF ownVars
  <2>10. CASE UNCHANGED vars
    BY <2>2, <2>10 DEF vars, ownVars
  <2> QED BY <2>3, <2>4, <2>5, <2>6, <2>7, <2>8, <2>9, <2>10 DEF Next, DoRepositionTick
<1>3. OutdatedInv => TargetIsPrompt
  BY DEF OutdatedInv, TargetIsPrompt
<1> QED BY <1>1, <1>2, <1>3, TypeCorrect, PTL DEF Spec
-----------------------------------------------------------------------------
(* The order of the requests                                                *)

\* A mode, an arming and a disarming are numbered.
LEMMA SendModeInv ==
  ASSUME RequestTypes, RequestInv, NEW mode, NEW since, SendMode(mode, since),
         UNCHANGED applied
  PROVE  RequestInv' /\ Ordered
<1>1. IsRequest(SetMode(mode)) BY DEF SetMode, IsRequest
<1> QED BY <1>1, SubmitRequestInv DEF SendMode

LEMMA ArmOrDisarmInv ==
  ASSUME RequestTypes, RequestInv, NEW op, ArmOrDisarm(op), UNCHANGED applied
  PROVE  RequestInv' /\ Ordered
<1>1. IsRequest(Command("ARM_DISARM")) BY DEF Command, IsRequest, Commands
<1> QED BY <1>1, SubmitRequestInv DEF ArmOrDisarm

\* So are a speed and a word on the calibration.
LEMMA ControlInv ==
  ASSUME RequestTypes, RequestInv, NEW c, RequestSpeed(c) \/ RequestCalibration(c)
  PROVE  RequestInv' /\ Ordered
<1>1. /\ IsRequest(Command("DO_CHANGE_SPEED"))
      /\ IsRequest(Command("PREFLIGHT_CALIBRATION"))
  BY DEF Command, IsRequest, Commands
<1>2. \/ SubmitRequest(Command("DO_CHANGE_SPEED"))
      \/ SubmitRequest(Command("PREFLIGHT_CALIBRATION"))
  BY DEF RequestSpeed, RequestCalibration, SendSpeed, MagCal
<1>3. UNCHANGED applied
  BY DEF RequestSpeed, RequestCalibration, ControlKeeps, linkVars
<1> QED BY <1>1, <1>2, <1>3, SubmitRequestInv

\* Every step of the autopilot, the leafs, the link and the reader keeps the order.
LEMMA NextRequestInv ==
  ASSUME TypeOK, RequestInv, [Next]_vars
  PROVE  RequestInv' /\ Ordered
<1>1. RequestTypes
  BY DEF TypeOK, RequestTypes
<1>2. ASSUME Numbered' \subseteq Numbered, UNCHANGED <<requests, applied>>
      PROVE  RequestInv' /\ Ordered
  BY <1>1, <1>2, FewerRequests
<1>3. CASE UNCHANGED <<pending, requestVars, linkVars>>
  BY <1>2, <1>3 DEF Numbered, requestVars, linkVars
<1>4. ASSUME NEW c \in Callers, Request(c)
      PROVE  RequestInv' /\ Ordered
  <2>1. UNCHANGED applied BY <1>4 DEF Request, linkVars
  <2> QED BY <1>1, <1>4, <2>1, SendModeInv, ArmOrDisarmInv DEF Request, RequestARM
<1>5. ASSUME NEW c \in Callers, GoOffboard(c)
      PROVE  RequestInv' /\ Ordered
  <2>1. UNCHANGED linkVars BY <1>5 DEF GoOffboard
  <2>2. UNCHANGED applied BY <2>1 DEF linkVars
  <2> QED BY <1>1, <1>3, <1>5, <2>1, <2>2, SendModeInv DEF GoOffboard
<1>6. ASSUME NEW c \in Callers, RequestTakeOff(c)
      PROVE  Numbered' \subseteq Numbered /\ UNCHANGED <<requests, applied>>
  BY <1>6, SubmitKeepsRequests DEF RequestTakeOff, Numbered, requestVars, linkVars
<1>7. CASE Send
  BY <1>2, <1>7, SubmitKeepsRequests DEF Send, TickKeeps, requestVars, linkVars
<1>8. ASSUME NEW c \in Callers,
             \/ \E op \in StopOperations : Stop(c, op)
             \/ \E yaw \in Yaws : SetYaw(c, yaw)
             \/ \E pos \in Positions \cup {NoPos} : GoTo(c, pos)
             \/ \E pos \in Positions : Onboard(c, pos)
             \/ Resume(c) \/ Reposition(c) \/ StorePosition(c)
      PROVE  UNCHANGED <<pending, requestVars, linkVars>>
  BY <1>8 DEF Stop, SetYaw, GoTo, Onboard, Resume, Reposition, StorePosition
<1>9. CASE TestFlag \/ Copy
  BY <1>3, <1>9 DEF TestFlag, Copy, TickKeeps
<1>10. CASE Link \/ TakePacket(Intervals)
  BY <1>1, <1>10, LinkInv, TakePacketInv
<1>11. CASE UNCHANGED vars
  BY <1>3, <1>11 DEF vars, ownVars, requestVars
<1> QED BY <1>1, <1>2, <1>3, <1>4, <1>5, <1>6, <1>7, <1>8, <1>9, <1>10, <1>11, ControlInv
        DEF Next, CallStep, DoRepositionTick

\* The vehicle hears each kind of request in the order of the submissions, for any number of leafs, calls and reports.
THEOREM NewestAlwaysLast == Spec => NewestHeardLast
<1>1. Init => RequestInv
  BY InitRequestInv DEF Init
<1>2. TypeOK /\ RequestInv /\ [Next]_vars => RequestInv'
  BY NextRequestInv
<1>3. TypeOK /\ RequestInv /\ [Next]_vars
        => [\A k \in DOMAIN applied : applied'[k] >= applied[k]]_applied
  BY NextRequestInv DEF Ordered
<1> QED BY <1>1, <1>2, <1>3, TypeCorrect, PTL DEF Spec, NewestHeardLast
-----------------------------------------------------------------------------
(* The stream of a vehicle in OFFBOARD                                      *)

\* How far the call of a reposition has come tells what it has done, which only
\* those undo that it finds in cut.  A stop that turned the stream off has still
\* to ask for something else.
FedInv ==
  /\ \A c \in Callers :
       /\ call[c].at \in {"store", "mode"} /\ call[c].cut = {} => m_repositionThreadWorks
       /\ call[c].at \in {"onboard", "store"} => call[c].pos # NoPos
       /\ call[c].at \in {"resume", "onboard"} => call[c].cut = {}
       /\ call[c].at = "mode" => m_lastRepositionPos # NoPos
  /\ OffboardIsFed

\* A vehicle told to go OFFBOARD is fed, for any number of leafs, targets, angles,
\* reports and calls, unless another call has stopped the stream in between.
THEOREM OffboardAlwaysFed == Spec => []OffboardIsFed
<1>1. Init => FedInv
  BY DEF Init, FedInv, OffboardIsFed, Idle
<1>2. TypeOK /\ FedInv /\ [Next]_vars => FedInv'
  <2> SUFFICES ASSUME TypeOK, FedInv, [Next]_vars PROVE FedInv'
    OBVIOUS
  <2> USE DEF FedInv, OffboardIsFed
  <2>1. CASE UNCHANGED <<call, m_repositionThreadWorks, m_lastRepositionPos, asked>>
    BY <2>1
  <2>2. call \in [Callers -> CallStates]
    BY DEF TypeOK
  <2>3. ASSUME NEW c \in Callers, NEW op \in StopOperations, Stop(c, op)
        PROVE  FedInv'
    <3>1. /\ call'[c].at = "request"
          /\ \A d \in Callers \ {c} :
               /\ call'[d].at = call[d].at /\ call'[d].pos = call[d].pos
               /\ call[d].at \in {"store", "mode"} => call'[d].cut # {}
               /\ call[d].at \in {"resume", "onboard"} => call'[d].cut = call[d].cut
      BY <2>2, <2>3 DEF Stop, EnterStop, Stopped, Idle, CallStates
    <3>2. UNCHANGED <<m_lastRepositionPos, asked>>
      BY <2>3 DEF Stop, targetVars, requestVars
    <3> QED BY <3>1, <3>2
  <2>4. ASSUME NEW c \in Callers, Request(c)
        PROVE  FedInv'
    <3>1. asked'.mode # "OFFBOARD" \/ asked'.since # {}
      <4>1. ASSUME NEW mode, mode # "OFFBOARD", SendMode(mode, {})
            PROVE  asked'.mode # "OFFBOARD"
        BY <4>1 DEF SendMode
      <4>2. ASSUME NEW op, ArmOrDisarm(op)
            PROVE  asked'.since # {}
        BY <4>2 DEF ArmOrDisarm, TypeOK, Asked
      <4> QED BY <2>4, <4>1, <4>2 DEF Request, RequestARM
    <3>2. /\ call'[c].at = "idle"
          /\ \A d \in Callers \ {c} : call'[d] = call[d]
          /\ UNCHANGED <<m_repositionThreadWorks, m_lastRepositionPos>>
      BY <2>2, <2>4 DEF Request, Return, Idle, streamVars, targetVars
    <3> QED BY <3>1, <3>2
  <2>5. ASSUME NEW c \in Callers, NEW pos \in Positions \cup {NoPos},
               GoTo(c, pos) \/ Onboard(c, pos)
        PROVE  FedInv'
    <3>1. call[c].at = "idle"
      BY <2>5 DEF GoTo, Onboard, MayCall
    <3>2. /\ call'[c].at = "resume" \/ (call'[c].at = "onboard" /\ call'[c].pos # NoPos)
          /\ call'[c].cut = {}
          /\ \A d \in Callers \ {c} : call'[d] = call[d]
      BY <2>2, <2>5, PixhawkAssumption DEF GoTo, Onboard, Enter, Idle
    <3>3. UNCHANGED <<m_repositionThreadWorks, m_lastRepositionPos, asked>>
      BY <2>5 DEF GoTo, Onboard, streamVars, targetVars, requestVars
    <3> QED BY <3>1, <3>2, <3>3
  <2>6. ASSUME NEW c \in Callers, NEW yaw \in Yaws, SetYaw(c, yaw)
        PROVE  FedInv'
    BY <2>2, <2>6 DEF SetYaw, Enter, MayCall, CallStates, Idle, streamVars, requestVars
  <2>7. ASSUME NEW c \in Callers, Resume(c)
        PROVE  FedInv'
    BY <2>2, <2>7 DEF Resume, RunStream, Return, GoOn, Idle, CallStates, targetVars, requestVars
  <2>8. ASSUME NEW c \in Callers, Reposition(c)
        PROVE  FedInv'
    BY <2>2, <2>8 DEF Reposition, RunStream, GoOn, CallStates, targetVars, requestVars
  <2>9. ASSUME NEW c \in Callers, StorePosition(c)
        PROVE  FedInv'
    BY <2>2, <2>9 DEF StorePosition, GoOn, CallStates, streamVars, requestVars
  <2>10. ASSUME NEW c \in Callers, GoOffboard(c)
         PROVE  FedInv'
    BY <2>2, <2>10 DEF GoOffboard, Return, Idle, CallStates, SendMode, streamVars, targetVars,
                       requestVars
  <2>11. ASSUME NEW c \in Callers,
                RequestTakeOff(c) \/ RequestSpeed(c) \/ RequestCalibration(c)
         PROVE  FedInv'
    BY <2>1, <2>11
    DEF RequestTakeOff, RequestSpeed, RequestCalibration, ControlKeeps, streamVars,
        targetVars, requestVars
  <2>12. CASE DoRepositionTick
    BY <2>1, <2>12 DEF DoRepositionTick, TestFlag, Copy, Send, TickKeeps, callVars, requestVars
  <2>13. CASE UNCHANGED ownVars
    BY <2>1, <2>13 DEF ownVars, streamVars, targetVars
  <2>14. CASE UNCHANGED vars
    BY <2>1, <2>14 DEF vars, ownVars, callVars, streamVars, targetVars, requestVars
  <2> QED BY <2>3, <2>4, <2>5, <2>6, <2>7, <2>8, <2>9, <2>10, <2>11, <2>12, <2>13, <2>14
          DEF Next, CallStep
<1> QED BY <1>1, <1>2, TypeCorrect, PTL DEF Spec, FedInv
-----------------------------------------------------------------------------
(* Whatever autopilot the vehicle has                                       *)

Proved == INSTANCE ArdupilotAutopilotProofs
  WITH Operations <- ArdupilotOperations, Reports <- ArdupilotReports

\* Autopilots has an instance of ArdupilotAutopilot, and so has the instance of
\* the module with its theorems: they define the same.
LEMMA SameArdupilot ==
  /\ Ardupilot!Init <=> Proved!Init
  /\ Ardupilot!Next <=> Proved!Next
  /\ Ardupilot!vars = Proved!vars
<1>1. \A p, a : Ardupilot!MavlinkCompare(p, a) <=> Proved!MavlinkCompare(p, a)
  BY DEF Ardupilot!MavlinkCompare, Proved!MavlinkCompare, Ardupilot!SameRequest,
         Proved!SameRequest, Ardupilot!IsReply, Proved!IsReply, Ardupilot!KeyedIds,
         Proved!KeyedIds, Ardupilot!NeverMatched, Proved!NeverMatched,
         Ardupilot!SameKeyPairs, Proved!SameKeyPairs, Ardupilot!AnyKeyPairs,
         Proved!AnyKeyPairs, Ardupilot!MissionRequests, Proved!MissionRequests
<1>2. /\ \A mode : Ardupilot!SetMode(mode) = Proved!SetMode(mode)
      /\ \A c : Ardupilot!Command(c) = Proved!Command(c)
      /\ Ardupilot!HomePosition = Proved!HomePosition
      /\ Ardupilot!Rates = Proved!Rates /\ Ardupilot!Target = Proved!Target
  BY DEF Ardupilot!SetMode, Proved!SetMode, Ardupilot!Command, Proved!Command,
         Ardupilot!HomePosition, Proved!HomePosition, Ardupilot!Rates, Proved!Rates,
         Ardupilot!Target, Proved!Target
<1>3. \A p : Ardupilot!Answers(p) = Proved!Answers(p) /\ Ardupilot!Kind(p) = Proved!Kind(p)
  BY <1>2 DEF Ardupilot!Answers, Proved!Answers, Ardupilot!Kind, Proved!Kind
<1>4. \A a : Ardupilot!Unsettled(a) = Proved!Unsettled(a)
  BY <1>1 DEF Ardupilot!Unsettled, Proved!Unsettled
<1>5. \A p : /\ Ardupilot!Submit(p) <=> Proved!Submit(p)
             /\ Ardupilot!SubmitRequest(p) <=> Proved!SubmitRequest(p)
  BY <1>4 DEF Ardupilot!Submit, Proved!Submit, Ardupilot!SubmitRequest, Proved!SubmitRequest
<1>6. /\ Ardupilot!telemetryVars = Proved!telemetryVars
      /\ Ardupilot!linkVars = Proved!linkVars /\ Ardupilot!vars = Proved!vars
  BY DEF Ardupilot!telemetryVars, Proved!telemetryVars, Ardupilot!linkVars,
         Proved!linkVars, Ardupilot!vars, Proved!vars
<1>7. Ardupilot!Init <=> Proved!Init
  BY DEF Ardupilot!Init, Proved!Init, Ardupilot!AutopilotInit, Proved!AutopilotInit,
         Ardupilot!Types, Proved!Types, Ardupilot!Kinds, Proved!Kinds,
         Ardupilot!Commands, Proved!Commands
\* The calls of the leafs, ...
<1>8. \A op : Ardupilot!Called(op) <=> Proved!Called(op)
  BY DEF Ardupilot!Called, Proved!Called, Ardupilot!telemetryVars, Proved!telemetryVars,
         Ardupilot!linkVars, Proved!linkVars
<1>9. /\ Ardupilot!LandModes = Proved!LandModes /\ Ardupilot!RTLModes = Proved!RTLModes
      /\ Ardupilot!ModeStart = Proved!ModeStart
  BY DEF Ardupilot!LandModes, Proved!LandModes, Ardupilot!RTLModes, Proved!RTLModes,
         Ardupilot!ModeStart, Proved!ModeStart
<1>10. \A mode : Ardupilot!SendMode(mode) <=> Proved!SendMode(mode)
  BY <1>2, <1>5 DEF Ardupilot!SendMode, Proved!SendMode
<1>11. /\ Ardupilot!RequestARM <=> Proved!RequestARM
       /\ Ardupilot!RequestDisARM <=> Proved!RequestDisARM
       /\ Ardupilot!RequestTakeOff <=> Proved!RequestTakeOff
  BY <1>2, <1>5, <1>8, <1>9, <1>10
     DEF Ardupilot!RequestARM, Proved!RequestARM, Ardupilot!RequestDisARM,
         Proved!RequestDisARM, Ardupilot!RequestTakeOff, Proved!RequestTakeOff
<1>12. \A op, modes : Ardupilot!RequestMode(op, modes) <=> Proved!RequestMode(op, modes)
  BY <1>8, <1>10 DEF Ardupilot!RequestMode, Proved!RequestMode
<1>13. /\ \A op : Ardupilot!Reposition(op) <=> Proved!Reposition(op)
       /\ Ardupilot!RepositionAzimuth <=> Proved!RepositionAzimuth
       /\ Ardupilot!RequestSpeed <=> Proved!RequestSpeed
       /\ Ardupilot!RequestCalibration <=> Proved!RequestCalibration
  BY <1>2, <1>5, <1>8
     DEF Ardupilot!Reposition, Proved!Reposition, Ardupilot!RepositionAzimuth,
         Proved!RepositionAzimuth, Ardupilot!RequestSpeed, Proved!RequestSpeed,
         Ardupilot!RequestCalibration, Proved!RequestCalibration, Ardupilot!SendSpeed,
         Proved!SendSpeed, Ardupilot!MagCal, Proved!MagCal
\* ... the link and the reader.
<1>14. Ardupilot!Link <=> Proved!Link
  BY <1>3, <1>4
     DEF Ardupilot!Link, Proved!Link, Ardupilot!telemetryVars, Proved!telemetryVars,
         Ardupilot!linkVars, Proved!linkVars, Ardupilot!Transmit, Proved!Transmit,
         Ardupilot!Lose, Proved!Lose, Ardupilot!Arrive, Proved!Arrive
<1>15. Ardupilot!Read <=> Proved!Read
  <2>1. Ardupilot!SendGetHomePoint <=> Proved!SendGetHomePoint
    BY <1>2, <1>5 DEF Ardupilot!SendGetHomePoint, Proved!SendGetHomePoint
  <2>2. Ardupilot!Taken <=> Proved!Taken
    BY DEF Ardupilot!Taken, Proved!Taken
  <2> QED
    BY <1>2, <2>1, <2>2
       DEF Ardupilot!telemetryVars, Proved!telemetryVars, Ardupilot!Read, Proved!Read,
           Ardupilot!TakePacket, Proved!TakePacket, Ardupilot!SetHeartbeat,
           Proved!SetHeartbeat, Ardupilot!SetAck, Proved!SetAck, Ardupilot!SetGPSRawInt,
           Proved!SetGPSRawInt, Ardupilot!SetHomePosition, Proved!SetHomePosition
<1> QED
  BY <1>6, <1>7, <1>9, <1>11, <1>12, <1>13, <1>14, <1>15 DEF Ardupilot!Next, Proved!Next

\* The autopilot of a vehicle is made once, so that all its steps are steps of
\* the same class; ...
LEMMA PixhawkForEver ==
  AutopilotsSpec /\ autopilot = "PX4" => Spec
<1>1. AutopilotsInit /\ autopilot = "PX4" => Init
  BY DEF AutopilotsInit
<1>2. autopilot = "PX4" /\ [AutopilotsNext]_<<vars, autopilot, m_processingMode>>
        => (autopilot = "PX4")' /\ [Next]_vars
  BY DEF AutopilotsNext
<1> QED  BY <1>1, <1>2, PTL DEF AutopilotsSpec, Spec

LEMMA ArdupilotForEver ==
  AutopilotsSpec /\ autopilot = "ARDUPILOTMEGA" => Proved!Spec
<1>1. AutopilotsInit /\ autopilot = "ARDUPILOTMEGA" => Proved!Init
  BY SameArdupilot DEF AutopilotsInit
<1>2. autopilot = "ARDUPILOTMEGA" /\ [AutopilotsNext]_<<vars, autopilot, m_processingMode>>
        => (autopilot = "ARDUPILOTMEGA")' /\ [Proved!Next]_Proved!vars
  <2>1. UNCHANGED <<vars, m_processingMode>> => UNCHANGED Proved!vars
    BY DEF vars, requestVars, telemetryVars, linkVars,
           Proved!vars, Proved!telemetryVars, Proved!linkVars
  <2> QED  BY <2>1, SameArdupilot DEF AutopilotsNext
<1> QED  BY <1>1, <1>2, PTL DEF AutopilotsSpec, Proved!Spec

\* ... and so a vehicle hears each kind of request in the order of the
\* submissions, whichever of the two classes its first heartbeat asks for.
THEOREM NewestAlwaysLastOfAny == AutopilotsSpec => NewestHeardLast
<1>1. AutopilotsSpec => autopilot = "PX4" \/ autopilot = "ARDUPILOTMEGA"
  <2>1. AutopilotsInit => autopilot = "PX4" \/ autopilot = "ARDUPILOTMEGA"
    BY DEF AutopilotsInit
  <2> QED  BY <2>1, PTL DEF AutopilotsSpec
<1>2. Proved!Spec => Proved!NewestHeardLast
  BY Proved!NewestAlwaysLast, ArdupilotAssumption DEF Ardupilot!AutopilotAssumption
<1>3. Proved!NewestHeardLast => NewestHeardLast
  BY PTL DEF Proved!NewestHeardLast, NewestHeardLast
<1> QED  BY <1>1, <1>2, <1>3, PixhawkForEver, ArdupilotForEver, NewestAlwaysLast, PTL
=============================================================================
