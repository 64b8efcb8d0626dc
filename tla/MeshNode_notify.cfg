SPECIFICATION Spec
CONSTANTS
  a = a
  b = b
  h = h
  none = none
  Node = {a, b}
  Hub = h
  NoAddr = none
  Links <- Line
  UInt8 = 256
  StdTtl = 5
  MaxPars = 2
  NodeIds = {2, 3}
  Commands = {}
  Budget <- NoFaults
INVARIANT OnlyHubIsNotified
CHECK_DEADLOCK FALSE
