SPECIFICATION FairSpec
CONSTANTS
  UInt32 = 1000
  MaxVoltage = 4
  MaxVersion = 2
  Broken = {}
  Keys = {}
  Values = {1, 2, 3}
  Default <- DefaultConfig
  MaxUpdates = 0
  Faults <- OneLostWrite
PROPERTY PromiseIsKept
