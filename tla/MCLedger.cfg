SPECIFICATION Spec
CONSTANTS
  k1 = k1  k2 = k2
  a = a  b = b  c = c  delA = delA  delA2 = delA2  theft = theft  bad = bad
  NoOp = NoOp
  Nobody = Nobody
  Keys = {k1, k2}
  Me = k1
  Ops <- MCOps
  OpType <- MCType
  PubKey <- MCKey
  AddSig <- MCAddSig
  Pixels <- MCPixels
  Cost <- MCCost
  WellFormed <- MCWellFormed
  InkPerOpBlock = 3
  InkPerNoOpBlock = 2
  Wrap = 64
  MaxBlocks = 6
  MaxOps = 2
INVARIANTS
  TypeOK
  NoReplay
  DeletesAreOwned
  NoOverlap
  Solvent
  JobIsAccepted
PROPERTIES
  OnlyStaleSolutionsForget
