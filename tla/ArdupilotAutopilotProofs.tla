------------------------ MODULE ArdupilotAutopilotProofs ------------------------
(***************************************************************************)
(* Proofs about ArdupilotAutopilot for any operations, reports and number  *)
(* of calls.                                                               *)
(***************************************************************************)
EXTENDS ArdupilotAutopilot, MavlinkAutopilotProofs

-----------------------------------------------------------------------------
\* What a call of a leaf changes.
LEMMA CalledKeeps ==
  ASSUME TypeOK, NEW op, Called(op)
  PROVE  /\ calls' \in Nat
         /\ UNCHANGED <<m_customMode, m_initialized, m_waitForHomePoint, heard, store,
                        applied, m_processingMode>>
BY DEF TypeOK, Called, telemetryVars, linkVars

\* A submission keeps the numbers within those given.
LEMMA SubmitNumbers ==
  ASSUME \A m \in pending : m.n \in 0..requests, requests \in Nat,
         NEW p, SubmitRequest(p) \/ (Submit(p) /\ UNCHANGED requests)
                  \/ UNCHANGED <<pending, requests>>
  PROVE  requests' \in Nat /\ \A m \in pending' : m.n \in 0..requests'
<1>1. CASE SubmitRequest(p)
  <2>1. requests' = requests + 1
    BY <1>1 DEF SubmitRequest
  <2>2. \A m \in pending' : m \in pending \/ m.n = requests + 1
    BY <1>1 DEF SubmitRequest, Unsettled
  <2> QED BY <2>1, <2>2
<1>2. CASE Submit(p) /\ UNCHANGED requests
  <2>1. \A m \in pending' : m \in pending \/ m.n = 0
    BY <1>2 DEF Submit, Unsettled
  <2> QED BY <1>2, <2>1
<1>3. CASE UNCHANGED <<pending, requests>>
  BY <1>3
<1> QED BY <1>1, <1>2, <1>3

\* A call of a leaf, whatever the operation, is one submission at most.
LEMMA CallSubmits ==
  ASSUME RequestARM \/ RequestDisARM \/ RequestTakeOff
           \/ RequestMode("LAND", LandModes) \/ RequestMode("RTL", RTLModes)
           \/ (\E op \in {"goTo", "MANUAL_ONBOARD", "MANUAL_OFFBOARD"} : Reposition(op))
           \/ RepositionAzimuth \/ RequestSpeed \/ RequestCalibration
  PROVE  /\ \E op : Called(op)
         /\ \E p : \/ /\ SubmitRequest(p)
                      /\ IsRequest(p)
                   \/ Submit(p) /\ UNCHANGED requests
                   \/ UNCHANGED <<pending, requests>>
<1> DEFINE One(p) ==
      \/ /\ SubmitRequest(p)
         /\ IsRequest(p)
      \/ Submit(p) /\ UNCHANGED requests
      \/ UNCHANGED <<pending, requests>>
<1>1. \E op : Called(op)
  BY DEF RequestARM, RequestDisARM, RequestTakeOff, RequestMode, Reposition, RepositionAzimuth,
         RequestSpeed, RequestCalibration
<1>2. \A mode : IsRequest(SetMode(mode))
  BY DEF SetMode, IsRequest
<1>3. /\ IsRequest(Command("ARM_DISARM")) /\ IsRequest(Target)
      /\ IsRequest(Command("DO_CHANGE_SPEED")) /\ IsRequest(Command("PREFLIGHT_CALIBRATION"))
  BY DEF Command, Target, IsRequest, Commands
<1>4. ASSUME RequestARM PROVE \E p : One(p)
  <2>1. One(Command("ARM_DISARM")) \/ One(SetMode(ModeStart))
    BY <1>2, <1>3, <1>4, Zenon DEF RequestARM, SendMode
  <2> HIDE DEF One
  <2> QED BY <2>1
<1>5. ASSUME RequestDisARM PROVE \E p : One(p)
  <2>1. One(Command("ARM_DISARM"))
    BY <1>3, <1>5, Zenon DEF RequestDisARM
  <2> HIDE DEF One
  <2> QED BY <2>1
<1>6. ASSUME RequestTakeOff PROVE \E p : One(p)
  <2>1. One(Command("MISSION_START"))
    BY <1>6, Zenon DEF RequestTakeOff
  <2> HIDE DEF One
  <2> QED BY <2>1
<1>7. ASSUME NEW op, NEW modes, RequestMode(op, modes)
      PROVE  One(SetMode(modes[m_processingMode]))
  BY <1>2, <1>7, Zenon DEF RequestMode, SendMode
<1>8. ASSUME NEW op, Reposition(op)
      PROVE  One(Target)
  BY <1>3, <1>8, Zenon DEF Reposition
<1>9. ASSUME RepositionAzimuth PROVE \E p : One(p)
  <2>1. One(Target)
    BY <1>9, Zenon DEF RepositionAzimuth
  <2> HIDE DEF One
  <2> QED BY <2>1
<1>10. ASSUME RequestSpeed \/ RequestCalibration PROVE \E p : One(p)
  <2>1. One(Command("DO_CHANGE_SPEED")) \/ One(Command("PREFLIGHT_CALIBRATION"))
    BY <1>3, <1>10, Zenon DEF RequestSpeed, RequestCalibration, SendSpeed, MagCal
  <2> HIDE DEF One
  <2> QED BY <2>1
<1>11. \E p : One(p)
  <2> HIDE DEF One
  <2> QED BY <1>4, <1>5, <1>6, <1>7, <1>8, <1>9, <1>10, Zenon
<1> QED BY <1>1, <1>11 DEF One

-----------------------------------------------------------------------------
\* Every variable keeps its type, and no message has a number that was not given.
THEOREM TypeCorrect == Spec => []TypeOK
<1>1. Init => TypeOK
  <2>1. ASSUME Init
        PROVE  store \in Seq(Reports \cup {HomePosition}) /\ applied \in [Kinds -> Nat]
    BY <2>1 DEF Init, AutopilotInit, Kinds
  <2>2. ASSUME Init
        PROVE  /\ m_customMode = "NONE" /\ m_initialized \in BOOLEAN
               /\ m_waitForHomePoint \in BOOLEAN /\ m_processingMode \in Types
               /\ pending = {} /\ heard = {} /\ calls \in Nat /\ requests \in Nat
    BY <2>2 DEF Init, AutopilotInit
  <2> QED BY <2>1, <2>2 DEF TypeOK
<1>2. TypeOK /\ [Next]_vars => TypeOK'
  <2> SUFFICES ASSUME TypeOK, [Next]_vars PROVE TypeOK'
    OBVIOUS
  <2> USE DEF telemetryVars, linkVars
  <2>1. CASE RequestARM \/ RequestDisARM \/ RequestTakeOff
               \/ RequestMode("LAND", LandModes) \/ RequestMode("RTL", RTLModes)
               \/ (\E op \in {"goTo", "MANUAL_ONBOARD", "MANUAL_OFFBOARD"} : Reposition(op))
               \/ RepositionAzimuth \/ RequestSpeed \/ RequestCalibration
    <3>1. PICK op : Called(op)
      BY <2>1, CallSubmits
    <3>2. PICK p : SubmitRequest(p) \/ (Submit(p) /\ UNCHANGED requests)
                     \/ UNCHANGED <<pending, requests>>
      BY <2>1, CallSubmits
    <3>3. requests' \in Nat /\ \A m \in pending' : m.n \in 0..requests'
      BY <3>2, SubmitNumbers DEF TypeOK
    <3>4. /\ calls' \in Nat
          /\ UNCHANGED <<m_customMode, m_initialized, m_waitForHomePoint, heard, store,
                         applied, m_processingMode>>
      BY <3>1, CalledKeeps
    <3> QED BY <3>3, <3>4 DEF TypeOK
  <2>2. ASSUME NEW m \in pending, Transmit(m), UNCHANGED m_processingMode
        PROVE  TypeOK'
    <3>1. heard' \subseteq {HomePosition}
      BY <2>2 DEF TypeOK, Transmit, Answers
    <3>2. applied' \in [Kinds -> Nat]
      <4>1. m.n \in Nat /\ applied \in [Kinds -> Nat]
        BY DEF TypeOK
      <4> QED BY <2>2, <4>1 DEF Transmit
    <3>3. pending' \subseteq pending /\ UNCHANGED <<telemetryVars, calls, requests, store>>
      BY <2>2 DEF Transmit
    <3>4. \A l \in pending' : l.n \in 0..requests'
      BY <3>3 DEF TypeOK
    <3> QED BY <2>2, <3>1, <3>2, <3>3, <3>4 DEF TypeOK
  <2>3. ASSUME NEW m \in pending, Lose(m), UNCHANGED m_processingMode
        PROVE  TypeOK'
    BY <2>3 DEF TypeOK, Lose
  <2>4. ASSUME NEW a \in Reports \cup heard, Arrive(a), UNCHANGED m_processingMode
        PROVE  TypeOK'
    <3>1. store' \in Seq(Reports \cup {HomePosition})
      BY <2>4 DEF TypeOK, Arrive
    <3>2. pending' \subseteq pending
      BY <2>4 DEF Arrive, Unsettled
    <3> QED BY <2>4, <3>1, <3>2 DEF TypeOK, Arrive
  <2>5. CASE Read
    <3> DEFINE a == store[Len(store)]
    <3>1. Taken
      BY <2>5 DEF Read, TakePacket
    <3>2. store' \in Seq(Reports \cup {HomePosition}) /\ a \in Reports \cup {HomePosition}
      BY <3>1 DEF TypeOK, Taken
    <3>3. UNCHANGED <<calls, requests, heard, applied, m_processingMode>>
      BY <2>5, <3>1 DEF Taken, Read
    <3>4. CASE UNCHANGED <<telemetryVars, pending>>
      BY <3>2, <3>3, <3>4 DEF TypeOK
    <3>5. CASE a.id = "HEARTBEAT" /\ SetHeartbeat(a.key, Rates)
      <4>1. a \in Reports
        <5>1. HomePosition.id # "HEARTBEAT" BY DEF HomePosition
        <5> HIDE DEF a
        <5> QED BY <3>2, <3>5, <5>1
      <4>2. m_customMode' \in {b.key : b \in {r \in Reports : r.id = "HEARTBEAT"}}
        <5> HIDE DEF a
        <5> QED BY <3>5, <4>1 DEF SetHeartbeat
      <4>3. \A m \in pending' : m \in pending \/ m.n = 0
        BY <3>5 DEF SetHeartbeat
      <4>4. m_initialized' = TRUE /\ UNCHANGED m_waitForHomePoint
        BY <3>5 DEF SetHeartbeat
      <4> HIDE DEF a
      <4> QED BY <3>2, <3>3, <4>2, <4>3, <4>4 DEF TypeOK
    <3>6. CASE SendGetHomePoint /\ UNCHANGED telemetryVars
      <4>1. requests' \in Nat /\ \A m \in pending' : m.n \in 0..requests'
        BY <3>3, <3>6, SubmitNumbers DEF TypeOK, SendGetHomePoint
      <4> QED BY <3>2, <3>3, <3>6, <4>1 DEF TypeOK
    <3>7. CASE SetHomePosition
      BY <3>2, <3>3, <3>7 DEF TypeOK, SetHomePosition
    <3>8. \/ UNCHANGED <<telemetryVars, pending>>
          \/ a.id = "HEARTBEAT" /\ SetHeartbeat(a.key, Rates)
          \/ SendGetHomePoint /\ UNCHANGED telemetryVars
          \/ SetHomePosition
      <4> HIDE DEF telemetryVars
      <4> QED BY <2>5, Zenon DEF Read, TakePacket, SetAck, SetGPSRawInt
    <3> QED BY <3>4, <3>5, <3>6, <3>7, <3>8
  <2>6. CASE UNCHANGED vars
    BY <2>6 DEF TypeOK, vars
  <2> QED BY <2>1, <2>2, <2>3, <2>4, <2>5, <2>6 DEF Next, Link
<1> QED BY <1>1, <1>2, PTL DEF Spec

\* The vehicle hears each kind of request in the order in
\* which the leafs asked for them.
THEOREM NewestAlwaysLast == Spec => NewestHeardLast
<1>1. Init => RequestInv
  BY InitRequestInv DEF Init
<1>2. TypeOK => RequestTypes
  BY DEF TypeOK, RequestTypes
<1>3. TypeOK /\ RequestInv /\ [Next]_vars => RequestInv' /\ [Ordered]_applied
  <2> SUFFICES ASSUME TypeOK, RequestInv, [Next]_vars
               PROVE  RequestInv' /\ [Ordered]_applied
    OBVIOUS
  <2>1. CASE RequestARM \/ RequestDisARM \/ RequestTakeOff
               \/ RequestMode("LAND", LandModes) \/ RequestMode("RTL", RTLModes)
               \/ (\E op \in {"goTo", "MANUAL_ONBOARD", "MANUAL_OFFBOARD"} : Reposition(op))
               \/ RepositionAzimuth \/ RequestSpeed \/ RequestCalibration
    <3>1. UNCHANGED applied
      <4>1. PICK op : Called(op) BY <2>1, CallSubmits
      <4> QED BY <4>1, CalledKeeps
    <3>2. PICK p : \/ /\ SubmitRequest(p)
                      /\ IsRequest(p)
                   \/ Submit(p) /\ UNCHANGED requests
                   \/ UNCHANGED <<pending, requests>>
      BY <2>1, CallSubmits
    <3>3. CASE SubmitRequest(p) /\ IsRequest(p)
      BY <1>2, <3>1, <3>3, SubmitRequestInv
    <3>4. CASE Submit(p) /\ UNCHANGED requests
      BY <1>2, <3>1, <3>4, SubmitKeepsRequests, FewerRequests
    <3>5. CASE UNCHANGED <<pending, requests>>
      <4>1. Numbered' \subseteq Numbered
        BY <3>5 DEF Numbered
      <4> QED BY <1>2, <3>1, <3>5, <4>1, FewerRequests
    <3> QED BY <3>2, <3>3, <3>4, <3>5
  <2>2. CASE Link
    BY <1>2, <2>2, LinkInv
  <2>3. CASE Read
    <3>1. CASE TakePacket(Rates)
      BY <1>2, <3>1, TakePacketInv
    <3>2. CASE Taken /\ UNCHANGED <<telemetryVars, pending>>
      <4>1. Numbered' \subseteq Numbered /\ UNCHANGED <<requests, applied>>
        BY <3>2 DEF Numbered, Taken
      <4> QED BY <1>2, <4>1, FewerRequests
    <3> QED BY <2>3, <3>1, <3>2 DEF Read
  <2>4. CASE UNCHANGED vars
    <3>1. Numbered' \subseteq Numbered /\ UNCHANGED <<requests, applied>>
      BY <2>4 DEF Numbered, vars, linkVars
    <3> QED BY <1>2, <3>1, FewerRequests
  <2> QED BY <2>1, <2>2, <2>3, <2>4 DEF Next
<1> QED BY <1>1, <1>3, TypeCorrect, PTL DEF Spec, NewestHeardLast, Ordered
=============================================================================
