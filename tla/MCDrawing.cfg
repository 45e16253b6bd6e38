SPECIFICATION FairSpec
CONSTANTS
  shape = shape  delete = delete
  Draws = {shape}
  Deletes = {delete}
  Target <- MCTarget
  ValidateNum <- MCValidateNum
  BLOCKS_BEFORE_REPROPAGATE = 1
  Cap = 2
  MaxForks = 2
INVARIANTS
  ConfirmedUnlessReorganised
PROPERTIES
  DrawsEnd
  UncontestedDeletesEnd
