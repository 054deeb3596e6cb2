CONSTANTS
  p1 = p1
  p2 = p2
  p3 = p3
  s1 = s1
  s2 = s2
  s3 = s3
  s4 = s4
  run = run
  Runner = run
  Callers <- ThreeCallers
  Slots <- OneSlot
  MinWorkers = 1
  MaxWorkers = 1
  ScaleUpStep = 1
SPECIFICATION FairSpec
PROPERTIES
  BlockedIsWoken
  CancelClosesAll
