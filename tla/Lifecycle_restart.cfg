CONSTANTS
  Gens <- TwoGens
  Nobody = Nobody
  Bounds <- RestartBounds
SPECIFICATION Spec
INVARIANTS
  RestartServes
CHECK_DEADLOCK FALSE
