----------------------------- MODULE MCAutopilots -----------------------------
(***************************************************************************)
(* An instance of Autopilots.                                              *)
(***************************************************************************)
EXTENDS Autopilots

\* A heartbeat may be any that comes late, or of another component.
PX4Reports == {Heartbeat("POSCTL"), Heartbeat("OFFBOARD"), Heartbeat("AUTO_MISSION"),
               Ack("DO_SET_MODE")}
APMReports == {Heartbeat("POSHOLD"), Heartbeat("LOITER"), Ack("ARM_DISARM"), Fix,
               [id |-> "MISSION_ACK", key |-> "ACCEPTED"]}
=============================================================================
