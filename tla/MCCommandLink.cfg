CONSTANTS
  Messages = {"arm", "disarm", "heartbeat"}
  Stacks = {}
  Packets <- MCPackets
  Ticks <- MCTicks
  Prio <- MCPrio
  Compare <- MavlinkCompare
  Answers <- NoAnswers
  Replies <- MCReplies
  Limit = 2
SPECIFICATION LinkSpec
PROPERTIES
  WireNewestLast
  SubmittedGoesOut
  DueIsServed
