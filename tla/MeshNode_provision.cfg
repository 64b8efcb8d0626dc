SPECIFICATION Spec
CONSTANTS
  a = a
  b = b
  h = h
  none = none
  Node = {a, b}
  Hub = h
  NoAddr = none
  Links <- Line
  UInt8 = 4
  StdTtl = 2
  MaxPars = 2
  NodeIds = {2, 3}
  Commands = {}
  Budget <- LossyProvisioning
INVARIANTS
  TypeOK
  UniqueIds
  UnansweredRequestIsRetried
  TtlNeverWraps
CHECK_DEADLOCK FALSE
