CONSTANTS
  Ports = {tty1, tty2}
  NoName = empty
  Closed = closed
  MAX_BUFFER_SIZE = 3
  MaxMessages = 4
  MaxChanges = 3
SPECIFICATION FairSpec
INVARIANTS
  TypeOK
  OpenIsConfigured
  NewestInOrder
PROPERTIES
  ImplementsLink
  NamedPortIsOpened
  QueueIsWritten
  ThreadEnds
