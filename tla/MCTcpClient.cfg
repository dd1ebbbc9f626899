CONSTANTS
  Hosts = {host1, host2}
  NoHost = empty
  PortNumbers = {1, 2}
  Closed = closed
  MaxMessages = 3
  MaxChanges = 2
SPECIFICATION FairSpec
INVARIANTS
  TypeOK
  ConnectedIsConfigured
  QueueIsComplete
PROPERTIES
  ImplementsLink
  NamedHostIsConnected
