SPECIFICATION FairSpec
CONSTANTS
  c1 = c1
  c2 = c2
  Conn = {c1, c2}
  Databases <- All
  MaxPeers = 3
  MaxSvcs = 4
  MaxChrs = 4
  MaxDscs = 3
INVARIANTS
  TypeOK
  CompleteOnSuccess
  ReportedOnce
  PoolAccounting
PROPERTIES
  DiscoveryEnds
  ChainAdvances
  ImplementsPeerTable
