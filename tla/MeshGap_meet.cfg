SPECIFICATION Spec
CONSTANTS
  a = a
  b = b
  c = c
  Node = {a, b}
  InRange <- Pair
  MaxAdv = 4
  MaxDsc = 4
  StopTicks = 2
  AwakeTicks = 8
  ConnectTicks = 4
  SleepTicks = 8
  MaxOffset = 0
  Disturbances = 0
INVARIANT NodesMeet
