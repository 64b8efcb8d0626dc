SPECIFICATION FairSettledSpec
CONSTANTS
  a = a
  b = b
  h = h
  none = none
  Node = {a, b}
  Hub = h
  NoAddr = none
  Links <- Triangle
  UInt8 = 8
  StdTtl = 2
  MaxPars = 2
  NodeIds = {2, 3}
  Commands = {"REQ", "UPDATE"}
  Budget <- LossyCommands
INVARIANTS
  AppliedAtMostOnce
  RepliesAttributable
  OnlyDuplicatesDropped
  TtlNeverWraps
CHECK_DEADLOCK FALSE
PROPERTIES
  Quiesces
  ImplementsCommandService
