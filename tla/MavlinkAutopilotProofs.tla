------------------------ MODULE MavlinkAutopilotProofs ------------------------
(***************************************************************************)
(* What the comparison of packets makes of those the program submits, and  *)
(* the order in which a vehicle hears what the operator asks for, for any  *)
(* autopilot that submits through IAutopilot.                              *)
(***************************************************************************)
EXTENDS MavlinkAutopilot, MavlinkRTCM, TLAPS

-----------------------------------------------------------------------------
(* What MavlinkCompare makes of the packets the program submits             *)

\* The ids of what IAutopilot and the classes derived from it submit.
SubmittedIds ==
  {"COMMAND_LONG", "SET_MODE", "MISSION_ITEM", "PARAM_SET", "PARAM_REQUEST_READ",
   "SET_POSITION_TARGET_GLOBAL_INT", "SET_POSITION_TARGET_LOCAL_NED", "HEARTBEAT"}

\* Every packet submitted alone: intervals are set by a stack only, and a
\* correction that fits a packet is not a fragment ...
IsSingle(p) ==
  \/ p.id \in SubmittedIds /\ (p.id = "COMMAND_LONG" => p.key # "SET_MESSAGE_INTERVAL")
  \/ \E correction : \E size, seq \in Nat :
       size <= MAX_RTCM_L /\ p = SendRTCM(correction, size, seq)[1]

\* ... and every packet of a stack.
IsStacked(p) ==
  \/ p.id = "COMMAND_LONG" /\ p.key = "SET_MESSAGE_INTERVAL"
  \/ \E correction : \E size, seq \in Nat : \E k \in 1 .. 1 + (size - 1) \div MAX_RTCM_L :
       MAX_RTCM_L < size /\ size <= 4 * MAX_RTCM_L /\ p = SendRTCM(correction, size, seq)[k]

\* A fragment is told from a whole correction by its flags, ...
LEMMA FlagsTell ==
  ASSUME NEW k \in Nat, NEW seq \in Nat, NEW whole \in Nat
  PROVE  Flags(k, seq) # Flags(-1, whole)
<1>1. PICK a \in Int, b \in Int, c \in Int : a = k % 4 /\ b = seq % 32 /\ c = whole % 32
  OBVIOUS
<1>2. Flags(k, seq) = 1 + 2 * a + 8 * b /\ Flags(-1, whole) = 8 * c
  BY <1>1 DEF Flags
<1>3. 1 + 2 * a + 8 * b # 8 * c
  OBVIOUS
<1> QED  BY <1>2, <1>3

LEMMA CorrectionFlags ==
  ASSUME NEW flags, NEW correction, NEW pointer,
         NEW p, p = [id |-> "GPS_RTCM_DATA", key |-> <<flags, correction, pointer>>]
  PROVE  p.id = "GPS_RTCM_DATA" /\ p.key[1] = flags
<1>1. PICK key : key = <<flags, correction, pointer>>
  OBVIOUS
<1>2. key[1] = flags
  BY <1>1
<1>3. p.key = key
  BY <1>1
<1> QED  BY <1>2, <1>3

LEMMA SingleCorrection ==
  ASSUME NEW correction, NEW size \in Nat, NEW seq \in Nat, size <= MAX_RTCM_L
  PROVE  SendRTCM(correction, size, seq)[1]
           = [id |-> "GPS_RTCM_DATA", key |-> <<Flags(-1, seq), correction, 0>>]
BY DEF SendRTCM, CreateRTCM, MAX_RTCM_L

LEMMA FragmentOfCorrection ==
  ASSUME NEW correction, NEW size \in Nat, NEW seq \in Nat,
         MAX_RTCM_L < size, size <= 4 * MAX_RTCM_L,
         NEW k \in 1 .. 1 + (size - 1) \div MAX_RTCM_L
  PROVE  SendRTCM(correction, size, seq)[k]
           = [id |-> "GPS_RTCM_DATA",
              key |-> <<Flags(k - 1, seq), correction, (k - 1) * MAX_RTCM_L>>]
BY DEF SendRTCM, CreateRTCM, MAX_RTCM_L

LEMMA SinglePacket ==
  ASSUME NEW p, IsSingle(p)
  PROVE  \/ p.id \in SubmittedIds /\ (p.id = "COMMAND_LONG" => p.key # "SET_MESSAGE_INTERVAL")
         \/ p.id = "GPS_RTCM_DATA" /\ \E whole \in Nat : p.key[1] = Flags(-1, whole)
<1>1. ASSUME NEW correction, NEW size \in Nat, NEW seq \in Nat, size <= MAX_RTCM_L,
             p = SendRTCM(correction, size, seq)[1]
      PROVE  p.id = "GPS_RTCM_DATA" /\ p.key[1] = Flags(-1, seq)
  <2>1. p = [id |-> "GPS_RTCM_DATA", key |-> <<Flags(-1, seq), correction, 0>>]
    BY <1>1, SingleCorrection
  <2> QED  BY <2>1, CorrectionFlags
<1> QED  BY <1>1 DEF IsSingle

\* ... and packets that are submitted are only compared by their id and key: none
\* is the answer to another.
LEMMA SingleCompare ==
  ASSUME NEW p, IsSingle(p), NEW a, IsSingle(a)
  PROVE  MavlinkCompare(p, a) <=>
           p.id = a.id /\ p.id # "HEARTBEAT" /\ (p.id \in KeyedIds => p.key = a.key)
<1>1. /\ p.id \in SubmittedIds \cup {"GPS_RTCM_DATA"}
      /\ a.id \in SubmittedIds \cup {"GPS_RTCM_DATA"}
  BY SinglePacket
<1>2. /\ p.id \in NeverMatched <=> p.id = "HEARTBEAT"
      /\ a.id \in NeverMatched <=> a.id = "HEARTBEAT"
  BY <1>1 DEF SubmittedIds, NeverMatched
<1>3. ~IsReply(p, a)
  BY <1>1 DEF SubmittedIds, IsReply, SameKeyPairs, AnyKeyPairs, MissionRequests
<1> QED  BY <1>2, <1>3 DEF MavlinkCompare, SameRequest

\* What SendQueue assumes of the comparison is true of the MAVLink plugin: among
\* the packets the program submits alone, to be about the same request is
\* symmetric and transitive, whatever the modes, parameters and corrections, and
\* no packet of a stack, a fragment of any correction included, is about the
\* request of one of them.
THEOREM SubmittedCompare ==
  /\ \A m, n : IsSingle(m) /\ IsSingle(n) /\ MavlinkCompare(m, n) => MavlinkCompare(n, m)
  /\ \A l, m, n : (/\ IsSingle(l) /\ IsSingle(m) /\ IsSingle(n)
                   /\ MavlinkCompare(l, m) /\ MavlinkCompare(m, n)) => MavlinkCompare(l, n)
  /\ \A s, m : IsStacked(s) /\ IsSingle(m) => ~MavlinkCompare(s, m)
<1>1. \A m, n : IsSingle(m) /\ IsSingle(n) /\ MavlinkCompare(m, n) => MavlinkCompare(n, m)
  <2> TAKE m, n
  <2> QED  BY SingleCompare
<1>2. \A l, m, n : (/\ IsSingle(l) /\ IsSingle(m) /\ IsSingle(n)
                   /\ MavlinkCompare(l, m) /\ MavlinkCompare(m, n)) => MavlinkCompare(l, n)
  <2> TAKE l, m, n
  <2> QED  BY SingleCompare
<1>3. \A s, m : IsStacked(s) /\ IsSingle(m) => ~MavlinkCompare(s, m)
  <2> TAKE s, m
  <2> HAVE IsStacked(s) /\ IsSingle(m)
  <2>1. /\ m.id \in SubmittedIds \cup {"GPS_RTCM_DATA"}
        /\ m.id = "COMMAND_LONG" => m.key # "SET_MESSAGE_INTERVAL"
        /\ m.id = "GPS_RTCM_DATA" => \E whole \in Nat : m.key[1] = Flags(-1, whole)
    BY SinglePacket DEF SubmittedIds
  <2>2. ASSUME s.id \in {"COMMAND_LONG", "GPS_RTCM_DATA"}, s.id = m.id => s.key # m.key
        PROVE  ~MavlinkCompare(s, m)
    <3>1. s.id # m.id => ~IsReply(s, m)
      BY <2>1, <2>2 DEF SubmittedIds, IsReply, SameKeyPairs, AnyKeyPairs, MissionRequests
    <3> QED  BY <2>2, <3>1 DEF MavlinkCompare, SameRequest, KeyedIds
  <2>3. CASE s.id = "COMMAND_LONG" /\ s.key = "SET_MESSAGE_INTERVAL"
    BY <2>1, <2>2, <2>3
  <2>4. ASSUME NEW correction, NEW size \in Nat, NEW seq \in Nat,
               NEW k \in 1 .. 1 + (size - 1) \div MAX_RTCM_L,
               MAX_RTCM_L < size, size <= 4 * MAX_RTCM_L, s = SendRTCM(correction, size, seq)[k]
        PROVE  ~MavlinkCompare(s, m)
    <3>1. s.id = "GPS_RTCM_DATA" /\ s.key[1] = Flags(k - 1, seq)
      <4>1. s = [id |-> "GPS_RTCM_DATA",
                 key |-> <<Flags(k - 1, seq), correction, (k - 1) * MAX_RTCM_L>>]
        BY <2>4, FragmentOfCorrection
      <4> QED  BY <4>1, CorrectionFlags
    <3>2. k - 1 \in Nat
      BY DEF MAX_RTCM_L
    <3>3. m.id = "GPS_RTCM_DATA" => s.key # m.key
      BY <2>1, <3>1, <3>2, FlagsTell
    <3> QED  BY <2>2, <3>1, <3>3
  <2>5. CASE \E correction : \E size, seq \in Nat : \E k \in 1 .. 1 + (size - 1) \div MAX_RTCM_L :
               /\ MAX_RTCM_L < size /\ size <= 4 * MAX_RTCM_L
               /\ s = SendRTCM(correction, size, seq)[k]
    BY <2>4, <2>5
  <2> QED  BY <2>3, <2>5 DEF IsStacked
<1> QED  BY <1>1, <1>2, <1>3

-----------------------------------------------------------------------------
(* The order of what the operator asks for                                  *)

Numbered == {m \in pending : m.n # 0}

\* The types the order rests on.
RequestTypes ==
  /\ \A m \in pending : m.n \in Nat
  /\ requests \in Nat /\ applied \in [Kinds -> Nat]

IsRequest(p) ==
  \/ p.id \in {"SET_MODE", "MISSION_ITEM"}
  \/ p.id = "COMMAND_LONG" /\ p.key \in Commands

\* Of each kind of request one at most is pending: the last, as it replaces those
\* before it.
RequestInv ==
  /\ \A m \in Numbered :
       /\ IsRequest(m.packet)
       /\ m.n <= requests /\ m.n >= applied[Kind(m.packet)]
  /\ \A l, m \in Numbered : Kind(l.packet) = Kind(m.packet) => l = m
  /\ \A k \in Kinds : applied[k] <= requests

\* No request is taken back.
Ordered == \A k \in DOMAIN applied : applied'[k] >= applied[k]

-----------------------------------------------------------------------------
\* Nothing is numbered in the beginning.
LEMMA InitRequestInv == AutopilotInit => RequestInv
BY DEF AutopilotInit, RequestInv, Numbered, Kinds

\* A step after which no more is numbered, and which the vehicle does not hear.
LEMMA FewerRequests ==
  ASSUME RequestTypes, RequestInv, Numbered' \subseteq Numbered,
         UNCHANGED <<requests, applied>>
  PROVE  RequestInv' /\ Ordered
  BY DEF RequestTypes, RequestInv, Ordered, Kinds

\* What is submitted without a number leaves no more numbered messages.
LEMMA SubmitKeepsRequests ==
  ASSUME NEW p, Submit(p)
  PROVE  Numbered' \subseteq Numbered
  BY DEF Submit, Unsettled, Numbered

\* The newest of its kind replaces the others of its kind.
LEMMA SubmitRequestInv ==
  ASSUME RequestTypes, RequestInv, NEW p, SubmitRequest(p), UNCHANGED applied,
         IsRequest(p)
  PROVE  RequestInv' /\ Ordered
<1> USE DEF Kinds, Commands
<1>1. requests \in Nat /\ requests' = requests + 1
  BY DEF RequestTypes, SubmitRequest
<1>2. ASSUME NEW m \in Numbered'
      PROVE  m = [packet |-> p, n |-> requests'] \/ (m \in Numbered /\ ~MavlinkCompare(m.packet, p))
  BY <1>1, <1>2 DEF Numbered, SubmitRequest, Unsettled
<1>3. ASSUME NEW m \in Numbered, Kind(m.packet) = Kind(p)
      PROVE  MavlinkCompare(m.packet, p)
  <2>1. IsRequest(m.packet)
    BY DEF RequestInv
  <2>2. m.packet.id = p.id /\ (p.id = "COMMAND_LONG" => m.packet.key = p.key)
    BY <1>3, <2>1 DEF IsRequest, Kind
  <2> QED BY <2>1, <2>2
          DEF IsRequest, MavlinkCompare, NeverMatched, SameRequest, KeyedIds
<1>4. ASSUME NEW m \in Numbered'
      PROVE  (m \in Numbered /\ Kind(m.packet) # Kind(p)) \/ m = [packet |-> p, n |-> requests']
  BY <1>2, <1>3
<1>5. applied \in [Kinds -> Nat] /\ \A m \in Numbered : m.n \in Nat
  BY DEF RequestTypes, Numbered
<1>6. ASSUME NEW m \in Numbered'
      PROVE  /\ IsRequest(m.packet)
             /\ m.n <= requests' /\ m.n >= applied'[Kind(m.packet)]
  <2>1. CASE m \in Numbered
    BY <1>1, <1>5, <2>1 DEF RequestInv
  <2>2. CASE m = [packet |-> p, n |-> requests']
    <3>1. m.packet = p /\ Kind(p) \in Kinds /\ applied[Kind(p)] <= requests
      BY <2>2 DEF RequestInv, IsRequest, Kind
    <3>2. m.n = requests + 1 /\ applied[Kind(p)] \in Nat
      BY <1>1, <1>5, <2>2, <3>1
    <3> QED BY <1>1, <3>1, <3>2
  <2> QED BY <1>4, <2>1, <2>2
<1>7. ASSUME NEW l \in Numbered', NEW m \in Numbered', Kind(l.packet) = Kind(m.packet)
      PROVE  l = m
  <2>1. CASE l \in Numbered /\ Kind(l.packet) # Kind(p)
    BY <1>4, <1>7, <2>1 DEF RequestInv
  <2>2. CASE l = [packet |-> p, n |-> requests']
    BY <1>4, <1>7, <2>2
  <2> QED BY <1>4, <2>1, <2>2
<1>8. \A k \in Kinds : applied'[k] <= requests'
  BY <1>1, <1>5 DEF RequestInv
<1>9. Ordered
  BY <1>5 DEF Ordered
<1> QED BY <1>6, <1>7, <1>8, <1>9 DEF RequestInv

\* What the vehicle hears is not older than what it has heard.
LEMMA TransmitInv ==
  ASSUME RequestTypes, RequestInv, NEW m \in pending, Transmit(m)
  PROVE  RequestInv' /\ Ordered
<1> USE DEF Kinds, Commands
<1>1. applied \in [Kinds -> Nat] /\ requests \in Nat /\ m.n \in Nat
  BY DEF RequestTypes
<1>2. Numbered' \subseteq Numbered /\ UNCHANGED requests
  BY DEF Transmit, Numbered
<1>3. CASE m.n = 0
  <2>1. UNCHANGED applied BY <1>3 DEF Transmit
  <2> QED BY <1>2, <2>1, FewerRequests
<1>4. CASE m.n # 0
  <2>1. /\ m \in Numbered /\ Kind(m.packet) \in Kinds
        /\ m.n <= requests /\ m.n >= applied[Kind(m.packet)]
    BY <1>4 DEF Numbered, RequestInv, IsRequest, Kind
  <2>2. applied' = [applied EXCEPT ![Kind(m.packet)] = m.n]
    BY <1>4 DEF Transmit
  <2>3. \A k \in Kinds : applied'[k] = IF k = Kind(m.packet) THEN m.n ELSE applied[k]
    BY <1>1, <2>1, <2>2
  <2>4. Ordered
    BY <1>1, <2>1, <2>3 DEF Ordered
  <2>5. \A k \in Kinds : applied'[k] <= requests'
    BY <1>1, <1>2, <2>1, <2>3 DEF RequestInv
  <2>6. ASSUME NEW l \in Numbered'
        PROVE  l.n >= applied'[Kind(l.packet)]
    <3>1. l \in Numbered /\ Kind(l.packet) \in Kinds /\ l.n >= applied[Kind(l.packet)]
      BY <1>2, <2>6 DEF RequestInv, IsRequest, Kind
    <3>2. Kind(l.packet) = Kind(m.packet) => l = m
      BY <2>1, <3>1 DEF RequestInv
    <3>3. CASE Kind(l.packet) = Kind(m.packet)
      BY <1>1, <2>3, <3>1, <3>2, <3>3
    <3>4. CASE Kind(l.packet) # Kind(m.packet)
      BY <2>3, <3>1, <3>4
    <3> QED BY <3>3, <3>4
  <2> QED BY <1>2, <2>4, <2>5, <2>6 DEF RequestInv
<1> QED BY <1>3, <1>4

\* The link keeps the order, whatever it loses or repeats.
LEMMA LinkInv ==
  ASSUME RequestTypes, RequestInv, Link
  PROVE  RequestInv' /\ Ordered
<1>1. ASSUME NEW m \in pending, Lose(m)
      PROVE  Numbered' \subseteq Numbered /\ UNCHANGED <<requests, applied>>
  BY <1>1 DEF Lose, Numbered, linkVars
<1>2. ASSUME NEW a \in Reports \cup heard, Arrive(a)
      PROVE  Numbered' \subseteq Numbered /\ UNCHANGED <<requests, applied>>
  BY <1>2 DEF Arrive, Unsettled, Numbered
<1> QED BY <1>1, <1>2, FewerRequests, TransmitInv DEF Link

\* So does the reader, whatever it submits at the first heartbeat.
LEMMA TakePacketInv ==
  ASSUME RequestTypes, RequestInv, NEW intervals, TakePacket(intervals)
  PROVE  RequestInv' /\ Ordered
<1>1. UNCHANGED <<requests, applied>>
  BY DEF TakePacket, Taken
<1>2. \/ pending' = pending
      \/ pending' = pending \cup {[packet |-> intervals, n |-> 0]}
      \/ SendGetHomePoint
  BY DEF TakePacket, SetHeartbeat, SetAck, SetGPSRawInt, SetHomePosition
<1>3. Numbered' \subseteq Numbered
  BY <1>2, SubmitKeepsRequests DEF Numbered, SendGetHomePoint
<1> QED BY <1>1, <1>3, FewerRequests
=============================================================================
