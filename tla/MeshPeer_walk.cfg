SPECIFICATION Spec
CONSTANTS
  c1 = c1
  c2 = c2
  Conn = {c1, c2}
  Databases <- All
  MaxPeers = 5
  MaxSvcs = 4
  MaxChrs = 3
  MaxDscs = 2
INVARIANT EveryPeerDisconnected
