CONSTANTS
  Messages = {"arm", "disarm", "mode", "heartbeat"}
  Stacks = {}
  Packets <- CommandPackets
  Ticks <- CommandTicks
  Prio <- CommandPrio
  Compare <- MavlinkCompare
  Answers <- MCAnswers
SPECIFICATION Spec
PROPERTIES
  AcceptedWasSent
