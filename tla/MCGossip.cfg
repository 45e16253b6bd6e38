SPECIFICATION Spec
CONSTANTS
  m1 = m1  m2 = m2  m3 = m3
  parent = parent  child = child  other = other
  Genesis = Genesis
  None = None
  MinerOf <- MCMinerOf
  Parent <- MCParent
  Miners = {m1, m2, m3}
  Linked <- MCLinked
  Blocks = {parent, child}
  Needy = {child}
  MinPeers = 2
  OutCap = 1
  Stopping = {m2}
  Syncing = {m3}
  MaxDrops = 0
INVARIANTS
  FloodsBounded
  OnlyNeedyBlocksLost
  
