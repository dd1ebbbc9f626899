------------------------------ MODULE Autopilots ------------------------------
(***************************************************************************)
(* The autopilot of a vehicle, which MavlinkProtocol's reader makes by     *)
(* what the first heartbeat says of it.                                    *)
(***************************************************************************)
EXTENDS PixhawkAutopilot

CONSTANTS
  ArdupilotOperations,  \* what the leafs ask of an ArduPilot vehicle
  ArdupilotReports      \* what it sends of its own accord

VARIABLES
  autopilot,        \* the class of the autopilot
  m_processingMode

Ardupilot == INSTANCE ArdupilotAutopilot
  WITH Operations <- ArdupilotOperations, Reports <- ArdupilotReports

\* ASSUMEs of an instance are facts about what it is instantiated with.
ASSUME ArdupilotAssumption == Ardupilot!AutopilotAssumption

AutopilotsInit ==
  \/ autopilot = "PX4" /\ Init /\ m_processingMode = "UAV_MC"
  \/ autopilot = "ARDUPILOTMEGA" /\ Init /\ Ardupilot!Init

AutopilotsNext ==
  \/ autopilot = "PX4" /\ Next /\ UNCHANGED <<autopilot, m_processingMode>>
  \/ autopilot = "ARDUPILOTMEGA" /\ Ardupilot!Next /\ UNCHANGED <<autopilot, ownVars>>

AutopilotsSpec == AutopilotsInit /\ [][AutopilotsNext]_<<vars, autopilot, m_processingMode>>
=============================================================================
