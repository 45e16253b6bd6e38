SPECIFICATION Spec
CONSTANTS
  m1 = m1  m2 = m2  m3 = m3
  parent = parent  child = child  other = other
  Genesis = Genesis
  None = None
  MinerOf <- MCMinerOf
  Parent <- MCParent
  Miners = {m1, m2}
  Linked <- MCLinked
  Blocks = {parent, other}
  Needy = {}
  MinPeers = 1
  OutCap = 2
  Stopping = {}
  Syncing = {m1, m2}
  MaxDrops = 1
PROPERTIES
  FloodsEnd
  
  
CHECK_DEADLOCK FALSE
