---------------------------- MODULE MCBlockStore ----------------------------
(* Small trees of blocks for BlockStore.                                   *)
EXTENDS BlockStore, TLC

CONSTANTS b1, b2, b3, b4, b5, b6, b7, b8, t1, t2

\* g <- b1 <- b2 <- {b3, b4}, b3 <- b5: the two children of b2 extend a path of
\* three blocks, whose array has a free cell.  b6 names the hash of the dummy
\* block, as a miner does while its chain is the dummy block alone.  b7 fails
\* VerifyBlock, so its child b8 never finds its parent.
ForkBlocks == {b1, b2, b3, b4, b5, b6, b7, b8}
ForkPrev == b1 :> Genesis @@ b2 :> b1 @@ b3 :> b2 @@ b4 :> b2 @@ b5 :> b3
            @@ b6 :> Empty @@ b7 :> b1 @@ b8 :> b7

\* g <- b1 <- {b2, b3}: orphans and siblings for two threads to meet on.
BushBlocks == {b1, b2, b3}
BushPrev == b1 :> Genesis @@ b2 :> b1 @@ b3 :> b1

AllButB7 == Blocks \ {b7}

MCDepth ==
  LET depth[h \in Hashes] ==
        IF h \in Blocks /\ PrevHash[h] # Empty THEN depth[PrevHash[h]] + 1 ELSE 1
  IN depth

MCRank ==
  b1 :> 1 @@ b2 :> 2 @@ b3 :> 3 @@ b4 :> 4 @@ b5 :> 5 @@ b6 :> 6 @@ b7 :> 7 @@ b8 :> 8
  @@ Genesis :> 9 @@ Empty :> 10

Rank == [h \in Hashes |-> MCRank[h]]

ThreadSymmetry == Permutations(Threads)
=============================================================================
