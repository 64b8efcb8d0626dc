SPECIFICATION Spec
CONSTANTS
  a = a
  b = b
  c = c
  Node = {a, b, c}
  InRange <- All
  MaxAdv = 3
  MaxDsc = 1
  StopTicks = 2
  AwakeTicks = 4
  ConnectTicks = 1
  SleepTicks = 1
  MaxOffset = 0
  Disturbances = 1
INVARIANTS
  TypeOK
  MeshIsForest
  
