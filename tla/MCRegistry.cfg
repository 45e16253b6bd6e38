SPECIFICATION FairSpec
CONSTANTS
  k1 = k1  k2 = k2
  a1 = a1  a2 = a2
  NoMiner = NoMiner
  Keys = {k1, k2}
  Addresses = {a1, a2}
  HeartBeatInterval = 2
  NumMinerToReturn = 1
  MaxStarts = 3
INVARIANTS
  Watched
  NodesAreRecent
  NeverItsOwnPeer
  PromptMinersStay
  ReturningSucceeds
PROPERTIES
  DroppedComeBack
