SPECIFICATION MiningSpec
CONSTANTS
  k1 = k1  k2 = k2
  a1 = a1  a2 = a2
  NoMiner = NoMiner
  Keys = {k1}
  Addresses = {a1, a2}
  HeartBeatInterval = 2
  NumMinerToReturn = 1
  MaxStarts = 2
PROPERTIES
  StartedBecomeKnown
