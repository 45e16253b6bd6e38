SPECIFICATION Spec
CONSTANTS
  Workers = {w1, w2}
  Jobs = {j1, j2, j3}
  NoJob = NoJob
  OpCap = 2
  BlockCap = 1
  OutCap = 1
INVARIANTS
  TypeOK
  PanicOnlyAtStart
  AlwaysMining
  OneJobOpen
PROPERTIES
  WorkersEnd
  OpsAreTaken
