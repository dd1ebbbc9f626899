------------------------------- MODULE Telemetry -------------------------------
(***************************************************************************)
(* The telemetry of a vehicle: what MavlinkProtocol's reader makes of its  *)
(* reports in IAutopilot's setters, and what the objects of libUAV keep of *)
(* it for the leafs to show.                                               *)
(*                                                                         *)
(* The vehicle flies, so that what it reports changes.  The reader takes   *)
(* the newest packet first: an older report is applied after a newer one   *)
(* when two of them wait.  A setter drops what is nearly what it has.      *)
(* Left out are the time since the boot, the throttle and the state that   *)
(* is computed from it, which do not reach the UAV, the precision of a fix *)
(* (setDop), and the UAV's type, which setProcessingMode finds to be the   *)
(* one the constructor was given.                                          *)
(***************************************************************************)
EXTENDS MavlinkAutopilot

CONSTANTS
  Values,     \* Values[id]: what the vehicle may say in a message of that id
  NaN,        \* the coordinates before the first position
  MaxChanges  \* bound on the changes of what it says

Axes    == {"roll", "pitch", "yaw"}
Sensors == {"mag3d", "accel3d", "accel23d", "gps"}

\* The types of fix that have a position, and what the UAV calls them.
FixTypes ==
  [RTK_FIXED |-> "RTK", RTK_FLOAT |-> "RTK_FLOAT", FIX_3D |-> "FIX3D", DGPS |-> "FIX3D"]

\* Numbers are in tenths of the difference that matters: thousandths of a degree
\* for the attitude, 1E-7 degrees and millimetres for the coordinates, and
\* millivolts.
ASSUME TelemetryAssumption ==
  /\ DOMAIN Values = {"ATTITUDE", "GLOBAL_POSITION_INT", "GPS_RAW_INT", "SYS_STATUS"}
  /\ \A id \in DOMAIN Values : Values[id] # {}
  /\ Values["ATTITUDE"] \subseteq [Axes -> Int]
  /\ Values["GLOBAL_POSITION_INT"] \subseteq [{"lat", "lon", "alt"} -> Int]
  /\ NaN \notin Values["GLOBAL_POSITION_INT"]
  /\ Values["GPS_RAW_INT"] \subseteq [fix_type : STRING, satellites_visible : Nat]
  /\ Values["SYS_STATUS"] \subseteq
       [voltage_battery : Nat, health : SUBSET Sensors, present : SUBSET Sensors,
        enabled : SUBSET Sensors]
  /\ MaxChanges \in Nat

VARIABLES
  m_uav,   \* what the objects of the UAV keep
  truth,   \* truth[id]: what the vehicle says now in a message of that id
  changes  \* how often that has changed

vars == <<telemetryVars, pending, linkVars, calls, requests, m_uav, truth, changes>>

Init ==
  /\ AutopilotInit
  /\ m_uav = [ahrs |-> [axis \in Axes |-> 0], position |-> NaN, prov |-> 0,
              fixType |-> "NOGPS", voltage |-> 0, failures |-> {}]
  /\ truth \in {t \in [DOMAIN Values -> UNION {Values[id] : id \in DOMAIN Values}] :
                  \A id \in DOMAIN Values : t[id] \in Values[id]}
  /\ changes = 0

-----------------------------------------------------------------------------
(* libUAV                                                                   *)

Difference(x, y) == IF x > y THEN x - y ELSE y - x

\* Coords::operator==, false if there are no coordinates.
SameCoords(p, q) ==
  p # NaN /\ q # NaN /\ \A i \in DOMAIN p : Difference(p[i], q[i]) < 10

\* Mutant: all of the angles must have changed.
SetAHRSOfAll(att) ==
  IF \A axis \in Axes : Difference(m_uav.ahrs[axis], att[axis]) > 10 THEN att ELSE m_uav.ahrs

\* AHRS::set, Position::setGps and Power::setVoltage
SetAHRS(att) ==
  IF \E axis \in Axes : Difference(m_uav.ahrs[axis], att[axis]) > 10 THEN att ELSE m_uav.ahrs

SetGps(coords) == IF SameCoords(m_uav.position, coords) THEN m_uav.position ELSE coords

SetVoltage(v) == IF Difference(m_uav.voltage, v) < 10 THEN m_uav.voltage ELSE v

-----------------------------------------------------------------------------
(* The setters of IAutopilot                                                *)

SetAttitudes(att) == m_uav' = [m_uav EXCEPT !.ahrs = SetAHRS(att)]

SetGlobalPositionInt(coords) == m_uav' = [m_uav EXCEPT !.position = SetGps(coords)]

FixType(gps) ==
  IF gps.fix_type \in DOMAIN FixTypes THEN FixTypes[gps.fix_type] ELSE "NOGPS"

SetGPS(gps) ==
  /\ m_uav' = [m_uav EXCEPT !.prov = gps.satellites_visible, !.fixType = FixType(gps)]
  /\ IF FixType(gps) # "NOGPS" THEN SetGPSRawInt ELSE UNCHANGED <<pending, telemetryVars>>

\* A sensor that the vehicle has and uses is not healthy.
Failures(stat) ==
  LET failed == (stat.present \cap stat.enabled) \ stat.health
  IN  {f \in {"MAG", "ACCEL", "GPS"} :
         [MAG |-> {"mag3d"}, ACCEL |-> {"accel3d", "accel23d"}, GPS |-> {"gps"}][f]
           \cap failed # {}}

SetSysStatus(stat) ==
  m_uav' = [m_uav EXCEPT !.voltage = SetVoltage(stat.voltage_battery),
                         !.failures = Failures(stat)]

-----------------------------------------------------------------------------
\* The vehicle, and the packets that come of it.
Change(id) ==
  /\ changes < MaxChanges
  /\ truth' \in {[truth EXCEPT ![id] = v] : v \in Values[id]}
  /\ changes' = changes + 1
  /\ UNCHANGED <<telemetryVars, pending, linkVars, calls, requests, m_uav>>

Report(id) == Arrive([id |-> id, key |-> "", value |-> truth[id]])

\* MavlinkProtocol::runMessageReader, for a vehicle with a type.
Read ==
  /\ store # << >>
  /\ LET a == store[Len(store)]
     IN  IF a.id \notin DOMAIN Values
         THEN TakePacket(Command("SET_MESSAGE_INTERVAL")) /\ UNCHANGED m_uav
         ELSE /\ Taken
              /\ \/ a.id = "GPS_RAW_INT" /\ SetGPS(a.value)
                 \/ /\ \/ a.id = "ATTITUDE" /\ SetAttitudes(a.value)
                       \/ a.id = "GLOBAL_POSITION_INT" /\ SetGlobalPositionInt(a.value)
                       \/ a.id = "SYS_STATUS" /\ SetSysStatus(a.value)
                    /\ UNCHANGED <<pending, telemetryVars>>
  /\ UNCHANGED <<truth, changes>>

Quietly(A) == A /\ UNCHANGED <<m_uav, truth, changes>>

Next ==
  \/ Read
  \/ Quietly(Link \/ \E id \in DOMAIN Values : Report(id))
  \/ \E id \in DOMAIN Values : Change(id)

Spec == Init /\ [][Next]_vars

\* The reader runs.  The vehicle goes on reporting, and not all its reports, the
\* requests for the home point or the answers to them are lost.
FairSpec ==
  /\ Spec
  /\ WF_vars(Read)
  /\ \A id \in DOMAIN Values : SF_vars(Quietly(Report(id)))
  /\ SF_vars(Quietly(HomePosition \in heard /\ Arrive(HomePosition)))
  /\ SF_vars(Quietly(\E m \in pending : /\ m.packet = Command("GET_HOME_POSITION")
                                       /\ Transmit(m)))

-----------------------------------------------------------------------------
\* What the leafs are shown of the vehicle comes to be what the vehicle says,
\* within the differences that the setters drop, and stays so: an older report
\* that is applied late is corrected, and changes that are each too small to be
\* stored do not add up.
SettledIsShown ==
  <>[]( /\ \A axis \in Axes : Difference(m_uav.ahrs[axis], truth["ATTITUDE"][axis]) <= 10
        /\ SameCoords(m_uav.position, truth["GLOBAL_POSITION_INT"])
        /\ m_uav.prov = truth["GPS_RAW_INT"].satellites_visible
        /\ m_uav.fixType = FixType(truth["GPS_RAW_INT"])
        /\ Difference(m_uav.voltage, truth["SYS_STATUS"].voltage_battery) < 10
        /\ m_uav.failures = Failures(truth["SYS_STATUS"]) )

\* The home point is learnt if the vehicle has a fix again and again, although a
\* request for it that is pending is replaced by the one the next fix brings.
HomeIsLearnt ==
  []<>(FixType(truth["GPS_RAW_INT"]) # "NOGPS") => <>[]~m_waitForHomePoint
=============================================================================
