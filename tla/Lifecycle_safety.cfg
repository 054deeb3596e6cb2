CONSTANTS
  Gens <- TwoGens
  Nobody = Nobody
  Bounds <- AllBounds
SPECIFICATION FairSpec
INVARIANTS
  TypeOK
  CleanHandover
  FreshStart
  NoOrphanGo
PROPERTIES
  
  
  
  MasterFollows
  FailureEnds
  CallsEnd
CHECK_DEADLOCK FALSE
