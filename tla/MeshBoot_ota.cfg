SPECIFICATION FairSpec
CONSTANTS
  UInt32 = 1000
  MaxVoltage = 4
  MaxVersion = 3
  Broken = {2}
  Keys = {"sensor_hv", "sleep_duration"}
  Values = {1, 2, 3}
  Default <- DefaultConfig
  MaxUpdates = 2
  Faults <- EveryFault
INVARIANTS
  TypeOK
  
  PercentsInRange
  AckedTakesEffect
  PromiseIsRecorded
PROPERTIES
  NeverDowngraded
  
  PromiseIsTried
