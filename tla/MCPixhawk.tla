------------------------------ MODULE MCPixhawk ------------------------------
(***************************************************************************)
(* Instances of PixhawkAutopilot.                                          *)
(***************************************************************************)
EXTENDS PixhawkAutopilot

\* What the vehicle sends: for the stream of set-points, and for the home point,
\* which an acknowledged arming asks for as well.
StreamReports == {Heartbeat("POSCTL"), Heartbeat("OFFBOARD")}
HomeReports   == {Heartbeat("ALTCTL"), Ack("ARM_DISARM"), Fix}
=============================================================================
