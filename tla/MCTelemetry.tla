------------------------------ MODULE MCTelemetry ------------------------------
(***************************************************************************)
(* An instance of Telemetry.                                               *)
(***************************************************************************)
EXTENDS Telemetry

\* A vehicle that rolls by less than what is dropped, which adds up to more, that
\* gets or loses its fix, and one of whose two accelerometers has failed.
MCValues ==
  [ATTITUDE |-> {[roll |-> r, pitch |-> 0, yaw |-> 0] : r \in {0, 8, 16}},
   GLOBAL_POSITION_INT |-> {[lat |-> 0, lon |-> 0, alt |-> 400]},
   GPS_RAW_INT |-> {[fix_type |-> "NO_FIX", satellites_visible |-> 5],
                    [fix_type |-> "RTK_FLOAT", satellites_visible |-> 9]},
   SYS_STATUS |-> {[voltage_battery |-> 15, health |-> {"gps"}, present |-> Sensors,
                    enabled |-> {"gps", "accel23d"}]}]
=============================================================================
