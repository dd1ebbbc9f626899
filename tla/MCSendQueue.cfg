CONSTANTS
  Messages = {"intervals", "home", "arm", "disarm", "long", "heartbeat"}
  Stacks = {"intervals", "long"}
  Packets <- StackPackets
  Ticks <- StackTicks
  Prio <- StackPrio
  Compare <- MavlinkCompare
  Answers <- MCAnswers
SPECIFICATION Spec
INVARIANTS
  TypeOK
  NoExhaustedEntry
  OnePlace
  LatestWins
  RetryBound
  BoundedInversion
PROPERTIES
  ImplementsOutbox
