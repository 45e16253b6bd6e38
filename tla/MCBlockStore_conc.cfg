SPECIFICATION Spec
CONSTANTS
  b1 = b1  b2 = b2  b3 = b3  b4 = b4  b5 = b5  b6 = b6  b7 = b7  b8 = b8
  t1 = t1  t2 = t2
  Genesis = Genesis
  Empty = Empty
  Depth <- MCDepth
  HashRank <- Rank
  Blocks <- BushBlocks
  PrevHash <- BushPrev
  Valid <- AllButB7
  Threads = {t1, t2}
SYMMETRY ThreadSymmetry
INVARIANTS
  TypeOK
  LinksAreReal
  CopiesBounded

  
