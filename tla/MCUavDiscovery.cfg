CONSTANTS
  Vehicles = {1, 2}
  Protos <- TwoProtocols
  Understands <- TwoKnow
  MaxBuffer = 2
  MaxStore = 1
SPECIFICATION FairSpec
INVARIANTS
  TypeOK
  DeletedIsUnreachable
  OneParser
  AnnouncedOnce
PROPERTIES
  ImplementsRegistry
  SearchEnds
  EveryVehicleIsFound
