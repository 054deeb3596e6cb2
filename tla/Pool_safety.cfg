CONSTANTS
  p1 = p1
  p2 = p2
  p3 = p3
  s1 = s1
  s2 = s2
  s3 = s3
  s4 = s4
  run = run
  Runner = run
  Callers <- ThreeCallers
  Slots <- FourSlots
  MinWorkers = 1
  MaxWorkers = 2
  ScaleUpStep = 2
SPECIFICATION Spec
SYMMETRY Symmetry3x4
INVARIANTS
  TypeOK
  ExclusiveLease
  OnlyRunningWorkersServe
  NoOrphan
  Accounting
  MaxRespected
  NothingIdleAfterStop
  NoStrandedWaiter
PROPERTIES
  ImplementsLease
