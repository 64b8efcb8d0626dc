SPECIFICATION SettledSpec
CONSTANTS
  a = a
  b = b
  h = h
  none = none
  Node = {a, b}
  Hub = h
  NoAddr = none
  Links <- Triangle
  UInt8 = 8
  StdTtl = 2
  MaxPars = 2
  NodeIds = {2, 3}
  Commands = {"UPDATE", "GO_TO_SLEEP"}
  Budget <- SleepAndWake
INVARIANTS
  AppliedAtMostOnce
  RepliesAttributable
  UnansweredRequestIsRetried
CHECK_DEADLOCK FALSE
