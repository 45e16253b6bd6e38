------------------------------- MODULE Gossip -------------------------------
(***************************************************************************)
(* How blocks travel: ManageConnections of each miner, the handlers of its *)
(* calls on other miners (PropagateBlock, Connect, GetBlockChain), and the *)
(* channels pblock and peerconn.  A miner's calls are synchronous and come *)
(* from one goroutine, so it has one call of PropagateBlock under way.     *)
(*                                                                         *)
(* The store is the order in which its blocks were inserted (BlockStore    *)
(* has the rest); operations and the server's timeouts are not here.       *)
(***************************************************************************)
EXTENDS Integers, FiniteSets, Sequences, SequencesExt

CONSTANTS
  Miners,
  Linked,      \* miner -> its PeerList at first
  Blocks,      \* the blocks that are solved, bound on the run
  MinerOf,     \* block -> the miner that solves it
  Parent,      \* block -> the block it builds on, or Genesis
  Needy,       \* bound on the blocks with operations that only their chain pays for
  Genesis,
  None,        \* no block, no miner
  MinPeers,    \* MinNumMinerConnections
  OutCap,      \* capacity of pblock
  Stopping,    \* bound on the miners that stop
  Syncing,     \* bound on the miners that run long enough for a PeerSync
  MaxDrops     \* bound on the live peers taken for stale

ASSUME BlocksAssumption ==
  /\ Genesis \notin Blocks
  /\ None \notin Blocks \cup Miners
  /\ Linked \in [Miners -> SUBSET Miners] /\ \A m \in Miners : m \notin Linked[m]
  /\ MinerOf \in [Blocks -> Miners]
  /\ Parent \in [Blocks -> Blocks \cup {Genesis}]
  /\ Needy \subseteq Blocks

ASSUME BoundsAssumption ==
  /\ IsFiniteSet(Miners) /\ MinPeers \in Nat /\ OutCap \in Nat
  /\ Stopping \subseteq Miners /\ Syncing \subseteq Miners
  /\ MaxDrops \in Nat

VARIABLES
  up,        \* the miners that run
  needy,     \* the blocks with operations that only their whole chain pays for
  stored,    \* miner -> BlockNodeArray without the genesis block
  blks,      \* miner -> the blocks PropagateBlock has seen
  pblock,    \* miner -> that channel
  peerconn,  \* miner -> the addresses in that channel
  PeerList,  \* miner -> its peers
  solved,    \* miner -> the block ProblemSolver is about to send to pblock
  manager,   \* miner -> what its ManageConnections does, to whom it still has to,
             \* and the blocks of an answer it has still to insert
  call,      \* miner -> the PropagateBlock handler that serves its call
  floods,    \* miner -> block -> how often it has propagated the block, up to 3
  drops      \* live peers taken for stale so far

store   == <<stored, blks>>
network == <<peerconn, PeerList, drops>>
vars == <<up, needy, stored, blks, pblock, peerconn, PeerList, solved, manager, call, floods, drops>>

Idle == [task |-> "select", block |-> None, left |-> {}, rest |-> <<>>]
NoCall == [to |-> None, step |-> "none"]

Init ==
  /\ up = Miners
  /\ needy \in SUBSET Needy
  /\ stored = [m \in Miners |-> <<>>]
  /\ blks = [m \in Miners |-> {}]
  /\ pblock = [m \in Miners |-> <<>>]
  /\ peerconn = [m \in Miners |-> {}]
  /\ PeerList = Linked
  /\ solved = [m \in Miners |-> None]
  /\ manager = [m \in Miners |-> Idle]
  /\ call = [m \in Miners |-> NoCall]
  /\ floods = [m \in Miners |-> [b \in Blocks |-> 0]]
  /\ drops = 0

\* InsertBlock ignores a block it has.
Insert(seq, b) == IF b \in ToSet(seq) THEN seq ELSE Append(seq, b)

Has(m, b) == b \in ToSet(stored[m])

\* The blocks whose path goes back to the genesis block: those that came after
\* their parent.
Rooted(seq) ==
  FoldLeft(LAMBDA R, b : IF Parent[b] \in R THEN R \cup {b} ELSE R, {Genesis}, seq)

\* Faulty: a path is asked of every block.
ValidateRooted(b, seq) == Parent[b] \in Rooted(seq)

ValidateBlock(b, seq) == b \in needy => Parent[b] \in Rooted(seq)

-----------------------------------------------------------------------------
(* ProblemSolver                                                           *)

\* A solution is inserted.  A miner builds on the end of a chain it has.
Solve(m, b) ==
  /\ m \in up
  /\ solved[m] = None
  /\ MinerOf[b] = m
  /\ b \notin ToSet(stored[m])
  /\ Parent[b] \in Rooted(stored[m])
  /\ stored' = [stored EXCEPT ![m] = Insert(@, b)]
  /\ solved' = [solved EXCEPT ![m] = b]
  /\ UNCHANGED <<up, needy, blks, pblock, network, manager, call, floods>>

\* It is sent to pblock.
Publish(m) ==
  /\ m \in up
  /\ solved[m] # None
  /\ Len(pblock[m]) < OutCap
  /\ pblock' = [pblock EXCEPT ![m] = Append(@, solved[m])]
  /\ solved' = [solved EXCEPT ![m] = None]
  /\ UNCHANGED <<up, needy, store, network, manager, call, floods>>

-----------------------------------------------------------------------------
(* ManageConnections                                                       *)

Selecting(m) == m \in up /\ manager[m].task = "select"

Begin(m, task, b, left) ==
  manager' = [manager EXCEPT ![m] = [task |-> task, block |-> b, left |-> left, rest |-> <<>>]]

\* A peer that is down is stale some time, a live one when its answers were late.
Stale(m, old) ==
  LET live == old \cap up IN
  /\ old \subseteq PeerList[m]
  /\ drops + Cardinality(live) <= MaxDrops
  /\ drops' = drops + Cardinality(live)

\* The default case: CheckLiveliness deletes the stale peers, then the server is
\* asked for miners if there are too few.  It names some that it knows of; an
\* answer with none to add changes nothing.
Default(m, old, answer) ==
  LET left == PeerList[m] \ old
      asks == Cardinality(left) < MinPeers /\ answer # {} IN
  /\ Selecting(m)
  /\ Stale(m, old)
  /\ answer \subseteq up \ (left \cup {m})
  /\ old # {} \/ asks
  /\ PeerList' = [PeerList EXCEPT ![m] = left]
  /\ IF asks THEN Begin(m, "connect", None, answer) ELSE UNCHANGED manager
  /\ UNCHANGED <<up, needy, store, pblock, peerconn, solved, call, floods>>

\* Connect asked for a connection back.
TakePeer(m) ==
  /\ Selecting(m)
  /\ \E p \in peerconn[m] :
       /\ peerconn' = [peerconn EXCEPT ![m] = @ \ {p}]
       /\ Begin(m, "connect", None, {p})
  /\ UNCHANGED <<up, needy, store, pblock, PeerList, solved, call, floods, drops>>

\* PeerPropagateBlock begins.
TakeBlock(m) ==
  /\ Selecting(m)
  /\ pblock[m] # <<>>
  /\ pblock' = [pblock EXCEPT ![m] = Tail(@)]
  /\ Begin(m, "flood", Head(pblock[m]), PeerList[m])
  /\ floods' = [floods EXCEPT ![m][Head(pblock[m])] = IF @ < 3 THEN @ + 1 ELSE 3]
  /\ UNCHANGED <<up, needy, store, network, solved, call>>

\* Faulty: only a miner with too few peers asks them.
StartSyncAlone(m) ==
  /\ Selecting(m)
  /\ m \in Syncing
  /\ PeerList[m] # {} /\ Cardinality(PeerList[m]) < MinPeers
  /\ Begin(m, "sync", None, PeerList[m])
  /\ UNCHANGED <<up, needy, store, pblock, network, solved, call, floods>>

\* The heartbeat case, once in 50 times.
StartSync(m) ==
  /\ Selecting(m)
  /\ m \in Syncing
  /\ PeerList[m] # {}
  /\ Begin(m, "sync", None, PeerList[m])
  /\ UNCHANGED <<up, needy, store, pblock, network, solved, call, floods>>

Advance(m, p) == manager' = [manager EXCEPT ![m].left = @ \ {p}]

\* p's answer holds all its blocks.
AdvanceWith(m, p) ==
  manager' = [manager EXCEPT ![m].left = @ \ {p}, ![m].rest = stored[p]]

\* The loop over the blocks of an answer.
InsertNext(m) ==
  /\ m \in up
  /\ manager[m].rest # <<>>
  /\ stored' = [stored EXCEPT ![m] = Insert(@, Head(manager[m].rest))]
  /\ manager' = [manager EXCEPT ![m].rest = Tail(@)]
  /\ UNCHANGED <<up, needy, blks, pblock, network, solved, call, floods>>

\* One turn of GetPeers: Connect asks to be connected to and returns all blocks.
ConnectTo(m, p) ==
  /\ m \in up
  /\ manager[m].task = "connect"
  /\ manager[m].rest = <<>>
  /\ p \in manager[m].left
  /\ IF p \in PeerList[m] \/ p \notin up
     THEN Advance(m, p) /\ UNCHANGED <<peerconn, PeerList>>
     ELSE /\ AdvanceWith(m, p)
          /\ peerconn' = [peerconn EXCEPT ![p] = @ \cup {m}]
          /\ PeerList' = [PeerList EXCEPT ![m] = @ \cup {p}]
  /\ UNCHANGED <<up, needy, store, pblock, solved, call, floods, drops>>

\* One turn of PeerSync.
SyncWith(m, p) ==
  /\ m \in up
  /\ manager[m].task = "sync"
  /\ manager[m].rest = <<>>
  /\ p \in manager[m].left
  /\ IF p \in up THEN AdvanceWith(m, p) ELSE Advance(m, p)
  /\ UNCHANGED <<up, needy, store, pblock, network, solved, call, floods>>

\* One turn of PeerPropagateBlock.
CallPeer(m, p) ==
  /\ m \in up
  /\ manager[m].task = "flood"
  /\ call[m] = NoCall
  /\ p \in manager[m].left
  /\ Advance(m, p)
  /\ call' = IF p \in up THEN [call EXCEPT ![m] = [to |-> p, step |-> "mark"]] ELSE call
  /\ UNCHANGED <<up, needy, store, pblock, network, solved, floods>>

\* The loop over the peers ends.
Done(m) ==
  /\ m \in up
  /\ manager[m].task # "select"
  /\ manager[m].left = {} /\ manager[m].rest = <<>>
  /\ call[m] = NoCall
  /\ manager' = [manager EXCEPT ![m] = Idle]
  /\ UNCHANGED <<up, needy, store, pblock, network, solved, call, floods>>

-----------------------------------------------------------------------------
(* The handler of PropagateBlock for the call of m                         *)

Handling(m, step) == call[m].step = step

Goto(m, step) == call' = [call EXCEPT ![m].step = step]

Return(m) == call' = [call EXCEPT ![m] = NoCall]

\* Faulty: a block is known once it is stored.
MarkStored(m) ==
  /\ Handling(m, "mark")
  /\ \/ Has(call[m].to, manager[m].block) /\ Return(m)
     \/ ~Has(call[m].to, manager[m].block) /\ Goto(m, "validate")
  /\ UNCHANGED <<up, needy, store, pblock, network, solved, manager, floods>>

\* Faulty: a block is never known.
MarkNothing(m) ==
  /\ Handling(m, "mark")
  /\ Goto(m, "validate")
  /\ UNCHANGED <<up, needy, store, pblock, network, solved, manager, floods>>

\* Under msgLock: a block seen before is ignored.
Mark(m) ==
  LET t == call[m].to
      b == manager[m].block IN
  /\ Handling(m, "mark")
  /\ \/ b \in blks[t] /\ Return(m) /\ UNCHANGED blks
     \/ /\ b \notin blks[t]
        /\ blks' = [blks EXCEPT ![t] = @ \cup {b}]
        /\ Goto(m, "validate")
  /\ UNCHANGED <<up, needy, stored, pblock, network, solved, manager, floods>>

\* Faulty: the handler waits for a lock that ManageConnections holds while it
\* goes through its peers.
ForwardAlone(m) ==
  LET t == call[m].to
      b == manager[m].block IN
  /\ Handling(m, "validate")
  /\ Selecting(t)
  /\ \/ ~ValidateBlock(b, stored[t]) /\ Return(m) /\ UNCHANGED pblock
     \/ /\ ValidateBlock(b, stored[t])
        /\ Len(pblock[t]) < OutCap
        /\ pblock' = [pblock EXCEPT ![t] = Append(@, b)]
        /\ Goto(m, "insert")
  /\ UNCHANGED <<up, needy, store, network, solved, manager, floods>>

\* An invalid block is dropped; a valid one is sent on before it is inserted.
Forward(m) ==
  LET t == call[m].to
      b == manager[m].block IN
  /\ Handling(m, "validate")
  /\ \/ ~ValidateBlock(b, stored[t]) /\ Return(m) /\ UNCHANGED pblock
     \/ /\ ValidateBlock(b, stored[t])
        /\ Len(pblock[t]) < OutCap
        /\ pblock' = [pblock EXCEPT ![t] = Append(@, b)]
        /\ Goto(m, "insert")
  /\ UNCHANGED <<up, needy, store, network, solved, manager, floods>>

\* What the handler then sends to sblock is Ledger's and Solver's matter.
InsertBlock(m) ==
  LET t == call[m].to
      b == manager[m].block IN
  /\ Handling(m, "insert")
  /\ stored' = [stored EXCEPT ![t] = Insert(@, b)]
  /\ Return(m)
  /\ UNCHANGED <<up, needy, blks, pblock, network, solved, manager, floods>>

-----------------------------------------------------------------------------

\* A miner stops: its handlers end, and calls to it return.
Crash(m) ==
  /\ m \in up \cap Stopping
  /\ up' = up \ {m}
  /\ call' = [c \in Miners |-> IF call[c].to = m THEN NoCall ELSE call[c]]
  /\ UNCHANGED <<needy, store, pblock, network, solved, manager, floods>>

DefaultCase(m) == \E old \in SUBSET PeerList[m], answer \in SUBSET up : Default(m, old, answer)

Select(m) == DefaultCase(m) \/ TakePeer(m) \/ TakeBlock(m) \/ StartSync(m)

Turn(m) == Done(m) \/ InsertNext(m) \/ \E p \in Miners : ConnectTo(m, p) \/ SyncWith(m, p) \/ CallPeer(m, p)

Handler(m) == Mark(m) \/ Forward(m) \/ InsertBlock(m)

Next ==
  \/ \E m \in Miners :
       \/ \E b \in Blocks : Solve(m, b)
       \/ Publish(m)
       \/ Select(m)
       \/ Turn(m)
       \/ Handler(m)
       \/ Crash(m)

\* The scheduler runs every goroutine, select does not pass over a case for ever.
Fairness ==
  \A m \in Miners :
    /\ WF_vars(Publish(m))
    /\ WF_vars(Turn(m))
    /\ WF_vars(Handler(m))
    /\ WF_vars(DefaultCase(m))
    /\ WF_vars(TakePeer(m))
    /\ SF_vars(TakeBlock(m))
    /\ SF_vars(StartSync(m))

Spec == Init /\ [][Next]_vars /\ Fairness

-----------------------------------------------------------------------------
(* Properties                                                              *)

\* Type invariant.
TypeOK ==
  /\ up \subseteq Miners
  /\ needy \subseteq Needy
  /\ drops \in 0..MaxDrops
  /\ stored \in [Miners -> Seq(Blocks)]
  /\ blks \in [Miners -> SUBSET Blocks]
  /\ pblock \in [Miners -> Seq(Blocks)]
  /\ peerconn \in [Miners -> SUBSET Miners]
  /\ PeerList \in [Miners -> SUBSET Miners]
  /\ solved \in [Miners -> Blocks \cup {None}]
  /\ manager \in [Miners -> [task  : {"select", "connect", "flood", "sync"},
                             block : Blocks \cup {None},
                             left  : SUBSET Miners,
                             rest  : Seq(Blocks)]]
  /\ call \in [Miners -> [to   : Miners \cup {None},
                          step : {"none", "mark", "validate", "insert"}]]
  /\ floods \in [Miners -> [Blocks -> 0..3]]
  /\ \A m \in Miners :
       /\ IsInjective(stored[m])
       /\ Len(pblock[m]) <= OutCap
       /\ m \notin peerconn[m] \cup PeerList[m] \cup manager[m].left
       /\ manager[m].task = "flood" => manager[m].block \in Blocks
       /\ call[m] # NoCall =>
            /\ call[m].to \in up /\ call[m].step # "none"
            /\ manager[m].task = "flood"

\* A miner propagates a block once, and its own block twice: it does not count
\* as received until a peer sends it back.  TTL plays no part in it
\* (peer-rpc.go:196-205, 216-221, ink-miner.go:1073-1074).
FloodsBounded ==
  \A m \in Miners, b \in Blocks : floods[m][b] <= IF MinerOf[b] = m THEN 2 ELSE 1

Serving(m, b) == \E c \in Miners : call[c].to = m /\ manager[c].block = b

\* A block is marked as received before it is validated and inserted.  Only one
\* that needs a chain can be lost by that: every other is stored, or its
\* handler is still at work (peer-rpc.go:203-228).
OnlyNeedyBlocksLost ==
  \A m \in up : \A b \in blks[m] : Has(m, b) \/ Serving(m, b) \/ b \in needy

Blocked(m) == Handling(m, "validate") /\ Len(pblock[call[m].to]) = OutCap

\* No miners wait on each other in a circle, each in a call whose handler
\* waits for room in the channel that the next one would empty
\* (ink-miner.go:922-924, 979, peer-rpc.go:220).
NoCircularWait ==
  \A S \in (SUBSET Miners) \ {{}} : \E m \in S : ~Blocked(m) \/ call[m].to \notin S

Flooding(m) == pblock[m] # <<>> \/ manager[m].task = "flood"

\* The flood of a block ends (peer-rpc.go:198-201).
FloodsEnd == <>[](\A m \in up : ~Flooding(m))

Kept(b) == \E m \in up : Has(m, b)

\* A block reaches every miner that runs, whenever they connect, although it is
\* never sent again: unless all that have it stop (ink-miner.go:880-882,
\* 907-910, 945-947).
BlocksSpread ==
  \A b \in Blocks, m \in Miners : Kept(b) ~> (Has(m, b) \/ m \notin up \/ ~Kept(b))

\* Every call of PropagateBlock returns, also when both sides call each other
\* (ink-miner.go:979).
CallsReturn == \A m \in Miners : call[m] # NoCall ~> call[m] = NoCall
=============================================================================
