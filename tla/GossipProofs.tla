---------------------------- MODULE GossipProofs ----------------------------
(***************************************************************************)
(* How often a miner floods a block, which blocks a miner can lose, and    *)
(* when miners cannot wait on each other in a circle, for any number of    *)
(* miners and blocks, any links and any capacity of pblock.                *)
(***************************************************************************)
EXTENDS Gossip, FiniteSetTheorems, SequenceTheorems, TLAPS

One(P) == IF P THEN 1 ELSE 0

\* How often b is in a channel.
Count(seq, b) == Cardinality({i \in DOMAIN seq : seq[i] = b})

AtWork(c, m, b) == call[c].to = m /\ manager[c].block = b

Validating(m, b) == \E c \in Miners : call[c].step = "validate" /\ AtWork(c, m, b)

\* The handlers of calls to m that hold b.
Working(m, b) ==
  \E c \in Miners : call[c].step \in {"validate", "insert"} /\ AtWork(c, m, b)

\* The floods of b that m has still before it: those on their way to or in
\* pblock, one for its first receipt, one more if m is to solve it.
Pending(m, b) ==
  Count(pblock[m], b) + One(solved[m] = b) + One(Validating(m, b))
    + One(b \notin blks[m]) + One(MinerOf[b] = m /\ ~Has(m, b))

Bound(m, b) == IF MinerOf[b] = m THEN 2 ELSE 1

FloodsAndPending ==
  \A m \in Miners : \A b \in Blocks : floods[m][b] + Pending(m, b) <= Bound(m, b)

\* One handler holds a block that was received, and is the one that received it.
HeldOnce ==
  \A c \in Miners : call[c].step = "validate" =>
    /\ manager[c].block \in blks[call[c].to]
    /\ \A d \in Miners :
         call[d].step = "validate" /\ AtWork(d, call[c].to, manager[c].block) => d = c

\* What is received is stored, held by a handler, or needed its chain.
Accounted ==
  \A m \in up : \A b \in blks[m] : Has(m, b) \/ Working(m, b) \/ b \in needy

Floods == FloodsAndPending /\ HeldOnce /\ Accounted

GInv == TypeOK /\ Floods

USE BlocksAssumption, BoundsAssumption

-----------------------------------------------------------------------------
(* Channels and stores                                                     *)

LEMMA CountType ==
  ASSUME NEW s \in Seq(Blocks), NEW b
  PROVE  /\ IsFiniteSet({i \in DOMAIN s : s[i] = b})
         /\ Count(s, b) \in Nat
<1>1. DOMAIN s = 1..Len(s) /\ Len(s) \in Nat
  OBVIOUS
<1>2. IsFiniteSet(1..Len(s))
  BY <1>1, FS_Interval
<1>3. IsFiniteSet({i \in DOMAIN s : s[i] = b})
  BY <1>1, <1>2, FS_Subset
<1> QED
  BY <1>3, FS_CardinalityType DEF Count

LEMMA CountEmpty == \A b : Count(<<>>, b) = 0
<1> SUFFICES ASSUME NEW b
             PROVE  Count(<<>>, b) = 0
  OBVIOUS
<1>1. {i \in DOMAIN <<>> : <<>>[i] = b} = {}
  OBVIOUS
<1> QED
  BY <1>1, FS_EmptySet DEF Count

LEMMA CountAppend ==
  ASSUME NEW s \in Seq(Blocks), NEW x \in Blocks, NEW b
  PROVE  Count(Append(s, x), b) = Count(s, b) + One(x = b)
<1> DEFINE S == {i \in DOMAIN s : s[i] = b}
           T == {i \in DOMAIN Append(s, x) : Append(s, x)[i] = b}
<1>1. IsFiniteSet(S) /\ Cardinality(S) \in Nat
  BY CountType DEF Count
<1>2. /\ Len(s) + 1 \notin S
      /\ T = IF x = b THEN S \cup {Len(s) + 1} ELSE S
  OBVIOUS
<1>3. Cardinality(S \cup {Len(s) + 1}) = Cardinality(S) + 1
  BY <1>1, <1>2, FS_AddElement
<1> HIDE DEF S, T
<1>4. Cardinality(T) = Cardinality(S) + One(x = b)
  BY <1>1, <1>2, <1>3 DEF One
<1> QED
  BY <1>4 DEF Count, S, T

LEMMA CountTail ==
  ASSUME NEW s \in Seq(Blocks), s # <<>>, NEW b
  PROVE  Count(s, b) = Count(Tail(s), b) + One(Head(s) = b)
<1> DEFINE S == {i \in DOMAIN s : s[i] = b}
           T == {i \in DOMAIN Tail(s) : Tail(s)[i] = b}
           f == [i \in T |-> i + 1]
<1>1. Tail(s) \in Seq(Blocks)
  OBVIOUS
<1>2. IsFiniteSet(S) /\ IsFiniteSet(T) /\ Cardinality(T) \in Nat
  BY <1>1, CountType DEF Count
<1>3. /\ S \ {1} = {i \in 2..Len(s) : s[i] = b}
      /\ T = {i \in 1..(Len(s) - 1) : s[i + 1] = b}
  OBVIOUS
<1>4. f \in Bijection(T, S \ {1})
  <2> HIDE DEF S, T
  <2>1. f \in [T -> S \ {1}]
    <3>1. \A i \in T : i + 1 \in S \ {1}
      BY <1>3
    <3> QED
      BY <3>1
  <2>2. \A i, j \in T : f[i] = f[j] => i = j
    BY <1>3
  <2>3. \A i \in S \ {1} : i - 1 \in T /\ f[i - 1] = i
    BY <1>3
  <2> QED
    BY <2>1, <2>2, <2>3 DEF Bijection, Injection, Surjection, IsInjective
<1>5. Cardinality(T) = Cardinality(S \ {1})
  <2> HIDE DEF S, T, f
  <2> QED
    BY <1>2, <1>4, FS_Bijection DEF ExistsBijection
<1>6. 1 \in S <=> Head(s) = b
  OBVIOUS
<1>7. IF 1 \in S THEN Cardinality(S) = Cardinality(S \ {1}) + 1 ELSE S = S \ {1}
  <2>1. ASSUME 1 \in S PROVE Cardinality(S \ {1}) = Cardinality(S) - 1
    BY <1>2, <2>1, FS_RemoveElement
  <2>2. Cardinality(S) \in Nat
    BY <1>2, FS_CardinalityType
  <2> HIDE DEF S, T
  <2> QED
    BY <2>1, <2>2
<1> HIDE DEF S, T
<1>8. Cardinality(S) = Cardinality(T) + One(Head(s) = b)
  <2>1. CASE 1 \in S
    BY <1>5, <1>6, <1>7, <2>1 DEF One
  <2>2. CASE 1 \notin S
    <3>1. Cardinality(S) = Cardinality(T)
      BY <1>5, <1>7, <2>2
    <3> QED
      BY <1>2, <1>6, <2>2, <3>1 DEF One
  <2> QED
    BY <2>1, <2>2
<1> QED
  BY <1>8 DEF Count, S, T

\* A store keeps what it has, and has no block twice.
LEMMA InsertKeeps ==
  ASSUME NEW s \in Seq(Blocks), IsInjective(s), NEW b \in Blocks
  PROVE  /\ Insert(s, b) \in Seq(Blocks) /\ IsInjective(Insert(s, b))
         /\ ToSet(s) \subseteq ToSet(Insert(s, b)) /\ b \in ToSet(Insert(s, b))
<1>1. CASE b \in ToSet(s)
  BY <1>1 DEF Insert
<1>2. CASE b \notin ToSet(s)
  <2>1. Insert(s, b) = Append(s, b) /\ Append(s, b) \in Seq(Blocks)
    BY <1>2 DEF Insert
  <2>2. \A i \in DOMAIN s : s[i] # b
    BY <1>2 DEF ToSet
  <2>3. IsInjective(Append(s, b))
    BY <2>2 DEF IsInjective
  <2>4. \A i \in DOMAIN s : i \in DOMAIN Append(s, b) /\ Append(s, b)[i] = s[i]
    OBVIOUS
  <2>5. Len(s) + 1 \in DOMAIN Append(s, b) /\ Append(s, b)[Len(s) + 1] = b
    OBVIOUS
  <2>6. ToSet(s) \subseteq ToSet(Append(s, b))
    BY <2>4 DEF ToSet
  <2>7. b \in ToSet(Append(s, b))
    BY <2>5 DEF ToSet
  <2> QED
    BY <2>1, <2>3, <2>6, <2>7
<1> QED
  BY <1>1, <1>2

-----------------------------------------------------------------------------
(* Types                                                                   *)

LEMMA TypesInit == Init => TypeOK
BY DEF Init, TypeOK, Idle, NoCall, IsInjective

\* ProblemSolver.
LEMMA SolverTypes ==
  ASSUME TypeOK, NEW m \in Miners
  PROVE  /\ \A b \in Blocks : Solve(m, b) => TypeOK'
         /\ Publish(m) => TypeOK'
<1>1. ASSUME NEW b \in Blocks, Solve(m, b)
      PROVE  TypeOK'
  <2>1. Insert(stored[m], b) \in Seq(Blocks) /\ IsInjective(Insert(stored[m], b))
    BY InsertKeeps DEF TypeOK
  <2>2. stored' \in [Miners -> Seq(Blocks)] /\ \A q \in Miners : IsInjective(stored'[q])
    BY <1>1, <2>1 DEF Solve, TypeOK
  <2> QED
    BY <1>1, <2>2 DEF Solve, network, TypeOK
<1>2. ASSUME Publish(m)
      PROVE  TypeOK'
  <2>1. solved[m] \in Blocks
    BY <1>2 DEF Publish, TypeOK
  <2>2. /\ Append(pblock[m], solved[m]) \in Seq(Blocks)
        /\ Len(Append(pblock[m], solved[m])) <= OutCap
    BY <1>2, <2>1 DEF Publish, TypeOK
  <2>3. pblock' \in [Miners -> Seq(Blocks)] /\ \A q \in Miners : Len(pblock'[q]) <= OutCap
    BY <1>2, <2>2 DEF Publish, TypeOK
  <2>4. solved' \in [Miners -> Blocks \cup {None}]
    BY <1>2 DEF Publish, TypeOK
  <2> QED
    BY <1>2, <2>3, <2>4 DEF Publish, store, network, TypeOK
<1> QED
  BY <1>1, <1>2

Task == [task  : {"select", "connect", "flood", "sync"},
         block : Blocks \cup {None},
         left  : SUBSET Miners,
         rest  : Seq(Blocks)]

TaskOK(q, r) == q \notin r.left /\ (r.task = "flood" => r.block \in Blocks)

\* ManageConnections of one miner turns to something else.
LEMMA TaskTypes ==
  ASSUME TypeOK, NEW m \in Miners, NEW r \in Task, TaskOK(m, r),
         manager' = [manager EXCEPT ![m] = r]
  PROVE  /\ manager' \in [Miners -> Task]
         /\ \A q \in Miners : TaskOK(q, manager'[q])
         /\ \A q \in Miners \ {m} : manager'[q] = manager[q]
         /\ manager'[m] = r
<1>1. manager \in [Miners -> Task] /\ \A q \in Miners : TaskOK(q, manager[q])
  BY DEF TypeOK, Task, TaskOK
<1> HIDE DEF Task
<1> QED
  BY <1>1

LEMMA BeginTypes ==
  ASSUME TypeOK, NEW m \in Miners, call[m] = NoCall,
         NEW task \in {"select", "connect", "flood", "sync"}, NEW b \in Blocks \cup {None},
         NEW left \in SUBSET (Miners \ {m}), Begin(m, task, b, left),
         task = "flood" => b \in Blocks
  PROVE  /\ manager' \in [Miners -> Task]
         /\ \A q \in Miners :
              TaskOK(q, manager'[q]) /\ (call[q] # NoCall => manager'[q].task = "flood")
<1> DEFINE r == [task |-> task, block |-> b, left |-> left, rest |-> <<>>]
<1>1. r \in Task /\ TaskOK(m, r)
  BY DEF Task, TaskOK
<1>2. manager' = [manager EXCEPT ![m] = r]
  BY DEF Begin
<1>3. \A q \in Miners : call[q] # NoCall => q # m /\ manager[q].task = "flood"
  BY DEF TypeOK
<1> HIDE DEF r
<1> QED
  BY <1>1, <1>2, <1>3, TaskTypes

LEMMA SelectTypes ==
  ASSUME TypeOK, NEW m \in Miners, Select(m)
  PROVE  TypeOK'
<1>1. /\ m \in up
      /\ call[m] = NoCall
  BY DEF Select, DefaultCase, Default, TakePeer, TakeBlock, StartSync, Selecting, TypeOK
<1>2. CASE DefaultCase(m)
  <2>1. PICK old \in SUBSET PeerList[m], answer \in SUBSET up : Default(m, old, answer)
    BY <1>2 DEF DefaultCase
  <2>2. drops' \in 0..MaxDrops
    <3>1. IsFiniteSet(old \cap up)
      BY FS_Subset DEF TypeOK
    <3>2. Cardinality(old \cap up) \in Nat
      BY <3>1, FS_CardinalityType
    <3> QED
      BY <2>1, <3>2 DEF Default, Stale, TypeOK
  <2>3. PeerList' \in [Miners -> SUBSET Miners] /\ \A q \in Miners : q \notin PeerList'[q]
    BY <2>1 DEF Default, TypeOK
  <2>4. /\ manager' \in [Miners -> Task]
        /\ \A q \in Miners :
             TaskOK(q, manager'[q]) /\ (call[q] # NoCall => manager'[q].task = "flood")
    <3>1. CASE Begin(m, "connect", None, answer)
      <4>1. answer \in SUBSET (Miners \ {m})
        BY <2>1 DEF Default, TypeOK
      <4> QED
        BY <1>1, <3>1, <4>1, BeginTypes
    <3>2. CASE manager' = manager
      BY <3>2 DEF TypeOK, Task, TaskOK
    <3> QED
      BY <2>1, <3>1, <3>2 DEF Default
  <2> QED
    BY <2>1, <2>2, <2>3, <2>4 DEF Default, store, Task, TaskOK, TypeOK
<1>3. CASE TakePeer(m)
  <2>1. PICK p \in peerconn[m] : /\ peerconn' = [peerconn EXCEPT ![m] = @ \ {p}]
                                 /\ Begin(m, "connect", None, {p})
    BY <1>3 DEF TakePeer
  <2>2. {p} \in SUBSET (Miners \ {m})
    BY DEF TypeOK
  <2>3. peerconn' \in [Miners -> SUBSET Miners] /\ \A q \in Miners : q \notin peerconn'[q]
    BY <2>1 DEF TypeOK
  <2> QED
    BY <1>1, <1>3, <2>1, <2>2, <2>3, BeginTypes DEF TakePeer, store, Task, TaskOK, TypeOK
<1>4. CASE TakeBlock(m)
  <2>1. Head(pblock[m]) \in Blocks /\ PeerList[m] \in SUBSET (Miners \ {m})
    BY <1>4 DEF TakeBlock, TypeOK
  <2>2. Begin(m, "flood", Head(pblock[m]), PeerList[m])
    BY <1>4 DEF TakeBlock
  <2>3. pblock' \in [Miners -> Seq(Blocks)] /\ \A q \in Miners : Len(pblock'[q]) <= OutCap
    BY <1>4 DEF TakeBlock, TypeOK
  <2>4. floods' \in [Miners -> [Blocks -> 0..3]]
    <3> DEFINE b == Head(pblock[m])
               n == IF floods[m][b] < 3 THEN floods[m][b] + 1 ELSE 3
    <3>1. floods' = [floods EXCEPT ![m] = [floods[m] EXCEPT ![b] = n]]
      BY <1>4, <2>1 DEF TakeBlock, TypeOK
    <3>2. floods[m] \in [Blocks -> 0..3]
      BY DEF TypeOK
    <3>3. n \in 0..3
      BY <2>1, <3>2
    <3>4. [floods[m] EXCEPT ![b] = n] \in [Blocks -> 0..3]
      BY <3>2, <3>3
    <3> HIDE DEF b, n
    <3> QED
      BY <3>1, <3>4 DEF TypeOK
  <2> QED
    BY <1>1, <1>4, <2>1, <2>2, <2>3, <2>4, BeginTypes DEF TakeBlock, store, network, Task, TaskOK, TypeOK
<1>5. CASE StartSync(m)
  <2>1. PeerList[m] \in SUBSET (Miners \ {m})
    BY DEF TypeOK
  <2>2. Begin(m, "sync", None, PeerList[m])
    BY <1>5 DEF StartSync
  <2> QED
    BY <1>1, <1>5, <2>1, <2>2, BeginTypes DEF StartSync, store, network, Task, TaskOK, TypeOK
<1> QED
  BY <1>2, <1>3, <1>4, <1>5 DEF Select

\* The loops over peers and blocks.
LEMMA TurnTypes ==
  ASSUME TypeOK, NEW m \in Miners, Turn(m)
  PROVE  TypeOK'
<1> DEFINE now == manager[m]
<1>1. now \in Task /\ TaskOK(m, now)
  BY DEF TypeOK, Task, TaskOK
<1>2. \A q \in Miners : call[q] # NoCall => manager[q].task = "flood"
  BY DEF TypeOK
<1>3. \A p \in Miners : LET r == [now EXCEPT !.left = @ \ {p}] IN
        /\ r \in Task /\ TaskOK(m, r) /\ r.task = now.task
        /\ Advance(m, p) => manager' = [manager EXCEPT ![m] = r]
  BY <1>1 DEF Advance, Task, TaskOK, TypeOK
<1>4. \A p \in Miners : LET r == [now EXCEPT !.left = @ \ {p}, !.rest = stored[p]] IN
        /\ r \in Task /\ TaskOK(m, r) /\ r.task = now.task
        /\ AdvanceWith(m, p) => manager' = [manager EXCEPT ![m] = r]
  BY <1>1 DEF AdvanceWith, Task, TaskOK, TypeOK
<1>5. \A p \in Miners : Advance(m, p) \/ AdvanceWith(m, p) =>
        /\ manager' \in [Miners -> Task]
        /\ \A q \in Miners : TaskOK(q, manager'[q])
        /\ \A q \in Miners : manager'[q].task = manager[q].task
  <2> HIDE DEF now
  <2> SUFFICES ASSUME NEW p \in Miners, Advance(m, p) \/ AdvanceWith(m, p)
               PROVE  /\ manager' \in [Miners -> Task]
                      /\ \A q \in Miners : TaskOK(q, manager'[q])
                      /\ \A q \in Miners : manager'[q].task = manager[q].task
    OBVIOUS
  <2>1. PICK r \in Task : TaskOK(m, r) /\ r.task = now.task /\ manager' = [manager EXCEPT ![m] = r]
    BY <1>3, <1>4
  <2> QED
    BY <2>1, TaskTypes DEF now
<1> HIDE DEF now
<1>6. CASE Done(m)
  <2>1. Idle \in Task /\ TaskOK(m, Idle)
    BY DEF Idle, Task, TaskOK
  <2>2. /\ manager' \in [Miners -> Task]
        /\ \A q \in Miners : TaskOK(q, manager'[q])
        /\ \A q \in Miners \ {m} : manager'[q] = manager[q]
    BY <1>6, <2>1, TaskTypes DEF Done
  <2> QED
    BY <1>6, <2>2 DEF Done, store, network, Task, TaskOK, TypeOK
<1>7. CASE InsertNext(m)
  <2>1. Head(now.rest) \in Blocks /\ Tail(now.rest) \in Seq(Blocks)
    BY <1>1, <1>7 DEF InsertNext, Task, now
  <2>2. /\ Insert(stored[m], Head(now.rest)) \in Seq(Blocks)
        /\ IsInjective(Insert(stored[m], Head(now.rest)))
    BY <2>1, InsertKeeps DEF TypeOK
  <2>3. stored' \in [Miners -> Seq(Blocks)] /\ \A q \in Miners : IsInjective(stored'[q])
    BY <1>7, <2>2 DEF InsertNext, TypeOK, now
  <2> DEFINE r == [now EXCEPT !.rest = Tail(now.rest)]
  <2>4. r \in Task /\ TaskOK(m, r) /\ r.task = now.task
    BY <1>1, <2>1 DEF Task, TaskOK
  <2>5. manager' = [manager EXCEPT ![m] = r]
    BY <1>7 DEF InsertNext, now, TypeOK
  <2> HIDE DEF r
  <2>6. /\ manager' \in [Miners -> Task]
        /\ \A q \in Miners : TaskOK(q, manager'[q])
        /\ \A q \in Miners : manager'[q].task = manager[q].task
    BY <2>4, <2>5, TaskTypes DEF now
  <2> QED
    BY <1>7, <2>3, <2>6 DEF InsertNext, network, Task, TaskOK, TypeOK
<1>8. ASSUME NEW p \in Miners, ConnectTo(m, p)
      PROVE  TypeOK'
  <2>1. Advance(m, p) \/ AdvanceWith(m, p)
    BY <1>8 DEF ConnectTo
  <2>2. p # m
    BY <1>8 DEF ConnectTo, TypeOK
  <2>3. /\ peerconn' \in [Miners -> SUBSET Miners] /\ PeerList' \in [Miners -> SUBSET Miners]
        /\ \A q \in Miners : q \notin peerconn'[q] \cup PeerList'[q]
    <3>1. CASE UNCHANGED <<peerconn, PeerList>>
      BY <3>1 DEF TypeOK
    <3>2. CASE /\ peerconn' = [peerconn EXCEPT ![p] = @ \cup {m}]
               /\ PeerList' = [PeerList EXCEPT ![m] = @ \cup {p}]
      BY <2>2, <3>2 DEF TypeOK
    <3> QED
      BY <1>8, <3>1, <3>2 DEF ConnectTo
  <2> QED
    BY <1>5, <1>8, <2>1, <2>3 DEF ConnectTo, store, Task, TaskOK, TypeOK
<1>9. ASSUME NEW p \in Miners, SyncWith(m, p)
      PROVE  TypeOK'
  <2>1. Advance(m, p) \/ AdvanceWith(m, p)
    BY <1>9 DEF SyncWith
  <2> QED
    BY <1>5, <1>9, <2>1 DEF SyncWith, store, network, Task, TaskOK, TypeOK
<1>10. ASSUME NEW p \in Miners, CallPeer(m, p)
       PROVE  TypeOK'
  <2>1. Advance(m, p) /\ manager[m].task = "flood"
    BY <1>10 DEF CallPeer
  <2>2. \/ call' = call
        \/ p \in up /\ call' = [call EXCEPT ![m] = [to |-> p, step |-> "mark"]]
    BY <1>10 DEF CallPeer
  <2>3. /\ call' \in [Miners -> [to : Miners \cup {None}, step : {"none", "mark", "validate", "insert"}]]
        /\ \A q \in Miners : call'[q] # NoCall =>
             call'[q].to \in up /\ call'[q].step # "none" /\ manager[q].task = "flood"
    <3> DEFINE called == [to |-> p, step |-> "mark"]
    <3>1. /\ called \in [to : Miners \cup {None}, step : {"none", "mark", "validate", "insert"}]
          /\ called.to = p /\ called.step = "mark"
      OBVIOUS
    <3> HIDE DEF called
    <3>2. CASE call' = call
      BY <3>2 DEF TypeOK
    <3>3. CASE p \in up /\ call' = [call EXCEPT ![m] = called]
      BY <2>1, <3>1, <3>3 DEF TypeOK
    <3> QED
      BY <2>2, <3>2, <3>3 DEF called
  <2>4. /\ manager' \in [Miners -> Task]
        /\ \A q \in Miners : TaskOK(q, manager'[q])
        /\ \A q \in Miners : manager'[q].task = manager[q].task
    BY <1>5, <2>1
  <2>5. UNCHANGED <<up, needy, stored, blks, pblock, peerconn, PeerList, drops, solved, floods>>
    BY <1>10 DEF CallPeer, store, network
  <2> QED
    BY <2>3, <2>4, <2>5 DEF Task, TaskOK, TypeOK
<1> QED
  BY <1>6, <1>7, <1>8, <1>9, <1>10 DEF Turn

\* The handlers.
LEMMA HandlerTypes ==
  ASSUME TypeOK, NEW m \in Miners, Handler(m)
  PROVE  TypeOK'
<1> DEFINE t == call[m].to
           b == manager[m].block
           Calls == [to : Miners \cup {None}, step : {"none", "mark", "validate", "insert"}]
<1>1. /\ call[m] # NoCall
      /\ t \in up /\ t \in Miners /\ b \in Blocks /\ manager[m].task = "flood"
  BY DEF Handler, Mark, Forward, InsertBlock, Handling, NoCall, TypeOK
<1>3. ASSUME NEW step \in {"validate", "insert"}, Goto(m, step)
      PROVE  /\ call' \in [Miners -> Calls]
             /\ \A q \in Miners : call'[q] # NoCall =>
                  call'[q].to \in up /\ call'[q].step # "none" /\ manager[q].task = "flood"
  <2> DEFINE now == [call[m] EXCEPT !.step = step]
  <2>1. now \in Calls /\ now.to = t /\ now.step # "none"
    <3>1. call[m] \in Calls
      BY DEF TypeOK
    <3>2. \A r \in Calls : LET s == [r EXCEPT !.step = step] IN
            s \in Calls /\ s.to = r.to /\ s.step = step
      OBVIOUS
    <3> HIDE DEF Calls
    <3> QED
      BY <3>1, <3>2
  <2>2. call' = [call EXCEPT ![m] = now]
    BY <1>3 DEF Goto, TypeOK
  <2>3. call \in [Miners -> Calls]
    BY DEF TypeOK
  <2> HIDE DEF now, Calls, t
  <2>4. call' \in [Miners -> Calls] /\ call'[m] = now /\ \A q \in Miners \ {m} : call'[q] = call[q]
    BY <2>1, <2>2, <2>3
  <2> QED
    BY <1>1, <2>1, <2>4 DEF TypeOK
<1>4. ASSUME Return(m)
      PROVE  /\ call' \in [Miners -> Calls]
             /\ \A q \in Miners : call'[q] # NoCall =>
                  call'[q].to \in up /\ call'[q].step # "none" /\ manager[q].task = "flood"
  <2>1. NoCall \in Calls
    BY DEF NoCall
  <2>2. call' = [call EXCEPT ![m] = NoCall] /\ call \in [Miners -> Calls]
    BY <1>4 DEF Return, TypeOK
  <2> HIDE DEF Calls
  <2>3. call' \in [Miners -> Calls] /\ call'[m] = NoCall /\ \A q \in Miners \ {m} : call'[q] = call[q]
    BY <2>1, <2>2
  <2> QED
    BY <2>3 DEF TypeOK
<1>5. /\ call' \in [Miners -> Calls]
      /\ \A q \in Miners : call'[q] # NoCall =>
           call'[q].to \in up /\ call'[q].step # "none" /\ manager[q].task = "flood"
  BY <1>3, <1>4 DEF Handler, Mark, Forward, InsertBlock
<1>6. CASE Mark(m)
  <2>1. blks' \in [Miners -> SUBSET Blocks]
    <3>1. CASE UNCHANGED blks
      BY <3>1 DEF TypeOK
    <3>2. CASE blks' = [blks EXCEPT ![t] = @ \cup {b}]
      BY <1>1, <3>2 DEF TypeOK
    <3> QED
      BY <1>6, <3>1, <3>2 DEF Mark
  <2> QED
    BY <1>5, <1>6, <2>1 DEF Mark, network, TypeOK
<1>7. CASE Forward(m)
  <2>1. pblock' \in [Miners -> Seq(Blocks)] /\ \A q \in Miners : Len(pblock'[q]) <= OutCap
    <3>1. CASE UNCHANGED pblock
      BY <3>1 DEF TypeOK
    <3>2. CASE Len(pblock[t]) < OutCap /\ pblock' = [pblock EXCEPT ![t] = Append(@, b)]
      <4>1. Append(pblock[t], b) \in Seq(Blocks) /\ Len(Append(pblock[t], b)) <= OutCap
        BY <1>1, <3>2 DEF TypeOK
      <4> QED
        BY <1>1, <3>2, <4>1 DEF TypeOK
    <3> QED
      BY <1>7, <3>1, <3>2 DEF Forward
  <2> QED
    BY <1>5, <1>7, <2>1 DEF Forward, store, network, TypeOK
<1>8. CASE InsertBlock(m)
  <2>1. Insert(stored[t], b) \in Seq(Blocks) /\ IsInjective(Insert(stored[t], b))
    BY <1>1, InsertKeeps DEF TypeOK
  <2>2. stored' \in [Miners -> Seq(Blocks)] /\ \A q \in Miners : IsInjective(stored'[q])
    BY <1>1, <1>8, <2>1 DEF InsertBlock, TypeOK
  <2> QED
    BY <1>5, <1>8, <2>2 DEF InsertBlock, network, TypeOK
<1> QED
  BY <1>6, <1>7, <1>8 DEF Handler

LEMMA CrashTypes ==
  ASSUME TypeOK, NEW m \in Miners, Crash(m)
  PROVE  TypeOK'
<1> DEFINE Calls == [to : Miners \cup {None}, step : {"none", "mark", "validate", "insert"}]
<1>1. NoCall \in Calls /\ call \in [Miners -> Calls]
  BY DEF NoCall, TypeOK
<1>2. /\ call' \in [Miners -> Calls]
      /\ \A q \in Miners : call'[q] # NoCall => call'[q] = call[q] /\ call[q].to # m
  <2> HIDE DEF Calls
  <2> QED
    BY <1>1 DEF Crash
<1>3. /\ up' = up \ {m}
      /\ UNCHANGED <<needy, stored, blks, pblock, peerconn, PeerList, drops, solved, manager, floods>>
  BY DEF Crash, store, network
<1> QED
  BY <1>2, <1>3 DEF TypeOK

LEMMA TypesStep == TypeOK /\ [Next]_vars => TypeOK'
<1> SUFFICES ASSUME TypeOK, [Next]_vars
             PROVE  TypeOK'
  OBVIOUS
<1>1. CASE Next
  <2>1. PICK m \in Miners :
          \/ \E b \in Blocks : Solve(m, b)
          \/ Publish(m) \/ Select(m) \/ Turn(m) \/ Handler(m) \/ Crash(m)
    BY <1>1 DEF Next
  <2> QED
    BY <2>1, SolverTypes, SelectTypes, TurnTypes, HandlerTypes, CrashTypes
<1>2. CASE UNCHANGED vars
  BY <1>2 DEF vars, TypeOK
<1> QED
  BY <1>1, <1>2

-----------------------------------------------------------------------------
(* Floods and losses                                                       *)

LEMMA FloodsInit == Init => Floods
<1> SUFFICES ASSUME Init
             PROVE  Floods
  OBVIOUS
<1>1. \A c \in Miners : call[c].step = "none"
  BY DEF Init, NoCall
<1>2. \A m \in Miners : stored[m] = <<>> /\ pblock[m] = <<>> /\ blks[m] = {} /\ solved[m] = None
  BY DEF Init
<1>3. FloodsAndPending
  <2> SUFFICES ASSUME NEW m \in Miners, NEW b \in Blocks
               PROVE  floods[m][b] + Pending(m, b) <= Bound(m, b)
    BY DEF FloodsAndPending
  <2>1. floods[m][b] = 0
    BY DEF Init
  <2>2. Count(pblock[m], b) = 0
    BY <1>2, CountEmpty
  <2>3. ~Validating(m, b) /\ solved[m] # b
    BY <1>1, <1>2 DEF Validating
  <2> QED
    BY <2>1, <2>2, <2>3 DEF Pending, Bound, One
<1> QED
  <2>1. HeldOnce
    BY <1>1 DEF HeldOnce
  <2>2. Accounted
    BY <1>2 DEF Init, Accounted
  <2> QED
    BY <1>3, <2>1, <2>2 DEF Floods

LEMMA CountAndFloodTypes ==
  ASSUME TypeOK, NEW m \in Miners, NEW b \in Blocks
  PROVE  Count(pblock[m], b) \in Nat /\ floods[m][b] \in 0..3
<1>1. pblock[m] \in Seq(Blocks) /\ floods[m] \in [Blocks -> 0..3]
  BY DEF TypeOK
<1> QED
  BY <1>1, CountType

\* No handler takes a block in hand or drops one, but those of a miner that stops.
HandlersStay ==
  /\ up' \subseteq up /\ UNCHANGED <<needy, blks>>
  /\ \A m \in Miners : ToSet(stored[m]) \subseteq ToSet(stored'[m])
  /\ \A c \in Miners : call'[c].step \in {"validate", "insert"} =>
       call'[c] = call[c] /\ manager'[c].block = manager[c].block
  /\ \A c \in Miners : call[c].step \in {"validate", "insert"} /\ call[c].to \in up' =>
       call'[c] = call[c] /\ manager'[c].block = manager[c].block

LEMMA StayingKeeps ==
  ASSUME TypeOK, Floods, HandlersStay
  PROVE  /\ HeldOnce' /\ Accounted'
         /\ \A m \in Miners : \A b \in Blocks :
              (Validating(m, b)' => Validating(m, b)) /\ (Has(m, b) => Has(m, b)')
<1> USE DEF HandlersStay
<1>1. HeldOnce'
  BY DEF Floods, HeldOnce, AtWork
<1>2. Accounted'
  <2> SUFFICES ASSUME NEW m \in up', NEW b \in blks'[m]
               PROVE  Has(m, b)' \/ Working(m, b)' \/ b \in needy'
    BY DEF Accounted
  <2>1. Has(m, b) \/ Working(m, b) \/ b \in needy
    BY DEF Floods, Accounted
  <2>2. m \in Miners
    BY DEF TypeOK
  <2>3. Has(m, b) => Has(m, b)'
    BY <2>2 DEF Has
  <2>4. Working(m, b) => Working(m, b)'
    BY DEF Working, AtWork
  <2> QED
    BY <2>1, <2>3, <2>4
<1>3. ASSUME NEW m \in Miners, NEW b \in Blocks
      PROVE  (Validating(m, b)' => Validating(m, b)) /\ (Has(m, b) => Has(m, b)')
  BY DEF Validating, AtWork, Has
<1> QED
  BY <1>1, <1>2, <1>3

\* Such a step keeps the bound when it leaves the channels alone as well.
LEMMA QuietKeeps ==
  ASSUME TypeOK, Floods, HandlersStay, UNCHANGED <<pblock, solved, floods>>
  PROVE  Floods'
<1>1. FloodsAndPending'
  <2> SUFFICES ASSUME NEW m \in Miners, NEW b \in Blocks
               PROVE  floods'[m][b] + Pending(m, b)' <= Bound(m, b)
    BY DEF FloodsAndPending, Bound
  <2>1. floods[m][b] + Pending(m, b) <= Bound(m, b)
    BY DEF Floods, FloodsAndPending
  <2>2. (Validating(m, b)' => Validating(m, b)) /\ (Has(m, b) => Has(m, b)')
    BY StayingKeeps
  <2>3. Count(pblock[m], b) \in Nat /\ floods[m][b] \in 0..3
    BY CountAndFloodTypes
  <2>4. UNCHANGED blks
    BY DEF HandlersStay
  <2> QED
    BY <2>1, <2>2, <2>3, <2>4 DEF Pending, Bound, One
<1> QED
  BY <1>1, StayingKeeps DEF Floods

\* The steps of ManageConnections, but for the one that takes a block.
LEMMA ManagingKeeps ==
  ASSUME TypeOK, Floods, NEW m \in Miners,
         DefaultCase(m) \/ TakePeer(m) \/ StartSync(m) \/ Turn(m) \/ Crash(m)
  PROVE  Floods'
<1>1. \A c \in Miners : call[c].step \in {"validate", "insert"} => call[c] # NoCall
  BY DEF NoCall
<1>2. \A c \in Miners : call[c] # NoCall => manager[c].task = "flood"
  BY DEF TypeOK
<1>3. manager \in [Miners -> Task] /\ call \in [Miners -> [to : Miners \cup {None}, step : {"none", "mark", "validate", "insert"}]]
  BY DEF TypeOK, Task
<1>4. CASE DefaultCase(m)
  <2>1. /\ up' = up /\ UNCHANGED <<needy, stored, blks, pblock, solved, floods, call>>
        /\ manager[m].task = "select"
    BY <1>4 DEF DefaultCase, Default, store, Selecting
  <2>2. \A c \in Miners \ {m} : manager'[c] = manager[c]
    BY <1>3, <1>4 DEF DefaultCase, Default, Begin
  <2> QED
    BY <1>1, <1>2, <2>1, <2>2, QuietKeeps DEF HandlersStay
<1>5. CASE TakePeer(m)
  <2>1. /\ up' = up /\ UNCHANGED <<needy, stored, blks, pblock, solved, floods, call>>
        /\ manager[m].task = "select"
    BY <1>5 DEF TakePeer, store, Selecting
  <2>2. \A c \in Miners \ {m} : manager'[c] = manager[c]
    BY <1>3, <1>5 DEF TakePeer, Begin
  <2> QED
    BY <1>1, <1>2, <2>1, <2>2, QuietKeeps DEF HandlersStay
<1>6. CASE StartSync(m)
  <2>1. /\ up' = up /\ UNCHANGED <<needy, stored, blks, pblock, solved, floods, call>>
        /\ manager[m].task = "select"
    BY <1>6 DEF StartSync, store, Selecting
  <2>2. \A c \in Miners \ {m} : manager'[c] = manager[c]
    BY <1>3, <1>6 DEF StartSync, Begin
  <2> QED
    BY <1>1, <1>2, <2>1, <2>2, QuietKeeps DEF HandlersStay
<1>7. CASE Done(m)
  <2>1. /\ up' = up /\ UNCHANGED <<needy, stored, blks, pblock, solved, floods, call>>
        /\ call[m] = NoCall
    BY <1>7 DEF Done, store
  <2>2. \A c \in Miners \ {m} : manager'[c] = manager[c]
    BY <1>3, <1>7 DEF Done
  <2> QED
    BY <1>1, <1>2, <2>1, <2>2, QuietKeeps DEF HandlersStay
<1>8. CASE InsertNext(m)
  <2>1. /\ up' = up /\ UNCHANGED <<needy, blks, pblock, solved, floods, call>>
    BY <1>8 DEF InsertNext
  <2>2. \A c \in Miners : manager'[c].block = manager[c].block
    BY <1>3, <1>8 DEF InsertNext, Task
  <2>3. \A q \in Miners : ToSet(stored[q]) \subseteq ToSet(stored'[q])
    <3>1. Head(manager[m].rest) \in Blocks
      BY <1>8 DEF InsertNext, TypeOK
    <3>2. ToSet(stored[m]) \subseteq ToSet(Insert(stored[m], Head(manager[m].rest)))
      BY <3>1, InsertKeeps DEF TypeOK
    <3>3. \A q \in Miners : stored'[q] = IF q = m THEN Insert(stored[m], Head(manager[m].rest))
                                            ELSE stored[q]
      BY <1>8 DEF InsertNext, TypeOK
    <3> QED
      BY <3>2, <3>3
  <2> QED
    BY <2>1, <2>2, <2>3, QuietKeeps DEF HandlersStay
<1>9. ASSUME NEW p \in Miners, Advance(m, p) \/ AdvanceWith(m, p)
      PROVE  \A c \in Miners : manager'[c].block = manager[c].block
  <2>1. /\ [manager[m] EXCEPT !.left = @ \ {p}].block = manager[m].block
        /\ [manager[m] EXCEPT !.left = @ \ {p}, !.rest = stored[p]].block = manager[m].block
    BY <1>3 DEF Task
  <2>2. \/ manager' = [manager EXCEPT ![m] = [manager[m] EXCEPT !.left = @ \ {p}]]
        \/ manager' = [manager EXCEPT ![m] = [manager[m] EXCEPT !.left = @ \ {p}, !.rest = stored[p]]]
    BY <1>3, <1>9 DEF Advance, AdvanceWith
  <2> QED
    BY <1>3, <2>1, <2>2
<1>10. ASSUME NEW p \in Miners, ConnectTo(m, p) \/ SyncWith(m, p)
       PROVE  Floods'
  <2>1. /\ up' = up /\ UNCHANGED <<needy, stored, blks, pblock, solved, floods, call>>
    BY <1>10 DEF ConnectTo, SyncWith, store
  <2>2. \A c \in Miners : manager'[c].block = manager[c].block
    BY <1>9, <1>10 DEF ConnectTo, SyncWith
  <2> QED
    BY <2>1, <2>2, QuietKeeps DEF HandlersStay
<1>11. ASSUME NEW p \in Miners, CallPeer(m, p)
       PROVE  Floods'
  <2>1. /\ up' = up /\ UNCHANGED <<needy, stored, blks, pblock, solved, floods>>
    BY <1>11 DEF CallPeer, store
  <2>2. \A c \in Miners : manager'[c].block = manager[c].block
    BY <1>9, <1>11 DEF CallPeer
  <2>3. /\ call[m].step = "none"
        /\ call'[m].step \in {"none", "mark"} /\ \A c \in Miners \ {m} : call'[c] = call[c]
    BY <1>3, <1>11 DEF CallPeer, NoCall
  <2> QED
    BY <2>1, <2>2, <2>3, QuietKeeps DEF HandlersStay
<1>12. CASE Crash(m)
  <2>1. /\ up' = up \ {m} /\ UNCHANGED <<needy, stored, blks, pblock, solved, floods, manager>>
    BY <1>12 DEF Crash, store
  <2>2. \A c \in Miners : IF call[c].to = m THEN call'[c].step = "none" ELSE call'[c] = call[c]
    BY <1>12 DEF Crash, NoCall
  <2> QED
    BY <2>1, <2>2, QuietKeeps DEF HandlersStay
<1> QED
  BY <1>4, <1>5, <1>6, <1>7, <1>8, <1>10, <1>11, <1>12 DEF Turn

\* A block that m solves is inserted and then flooded once.
LEMMA SolvingKeeps ==
  ASSUME TypeOK, Floods, NEW m \in Miners, NEW x \in Blocks, Solve(m, x)
  PROVE  Floods'
<1>1. ToSet(stored[m]) \subseteq ToSet(Insert(stored[m], x)) /\ x \in ToSet(Insert(stored[m], x))
  BY InsertKeeps DEF TypeOK
<1>2. \A q \in Miners : stored'[q] = IF q = m THEN Insert(stored[m], x) ELSE stored[q]
  BY DEF Solve, TypeOK
<1>3. \A q \in Miners : solved'[q] = IF q = m THEN x ELSE solved[q]
  BY DEF Solve, TypeOK
<1>4. HandlersStay
  BY <1>1, <1>2 DEF Solve, HandlersStay
<1>5. FloodsAndPending'
  <2> SUFFICES ASSUME NEW q \in Miners, NEW b \in Blocks
               PROVE  floods'[q][b] + Pending(q, b)' <= Bound(q, b)
    BY DEF FloodsAndPending, Bound
  <2>1. floods[q][b] + Pending(q, b) <= Bound(q, b)
    BY DEF Floods, FloodsAndPending
  <2>2. (Validating(q, b)' => Validating(q, b)) /\ (Has(q, b) => Has(q, b)')
    BY <1>4, StayingKeeps
  <2>3. Count(pblock[q], b) \in Nat /\ floods[q][b] \in 0..3
    BY CountAndFloodTypes
  <2>4. UNCHANGED <<blks, pblock, floods>>
    BY DEF Solve
  <2>5. q = m /\ b = x => MinerOf[b] = q /\ ~Has(q, b) /\ Has(q, b)' /\ solved[q] # b
    BY <1>1, <1>2 DEF Solve, Has
  <2>6. ~(q = m /\ b = x) => (solved'[q] = b => solved[q] = b)
    BY <1>3
  <2>7. CASE q = m /\ b = x
    BY <2>1, <2>2, <2>3, <2>4, <2>5, <2>7 DEF Pending, Bound, One
  <2>8. CASE ~(q = m /\ b = x)
    BY <2>1, <2>2, <2>3, <2>4, <2>6, <2>8 DEF Pending, Bound, One
  <2> QED
    BY <2>7, <2>8
<1> QED
  BY <1>4, <1>5, StayingKeeps DEF Floods

LEMMA PublishKeeps ==
  ASSUME TypeOK, Floods, NEW m \in Miners, Publish(m)
  PROVE  Floods'
<1> DEFINE x == solved[m]
<1>1. x \in Blocks /\ solved' = [solved EXCEPT ![m] = None] /\ None \notin Blocks
  BY DEF Publish, TypeOK
<1>2. /\ \A q \in Miners : pblock'[q] = IF q = m THEN Append(pblock[m], x) ELSE pblock[q]
      /\ \A q \in Miners : solved'[q] = IF q = m THEN None ELSE solved[q]
  BY DEF Publish, TypeOK
<1>3. HandlersStay
  BY DEF Publish, store, HandlersStay
<1>4. FloodsAndPending'
  <2> SUFFICES ASSUME NEW q \in Miners, NEW b \in Blocks
               PROVE  floods'[q][b] + Pending(q, b)' <= Bound(q, b)
    BY DEF FloodsAndPending, Bound
  <2>1. floods[q][b] + Pending(q, b) <= Bound(q, b)
    BY DEF Floods, FloodsAndPending
  <2>2. (Validating(q, b)' => Validating(q, b)) /\ (Has(q, b) => Has(q, b)')
    BY <1>3, StayingKeeps
  <2>3. Count(pblock[q], b) \in Nat /\ floods[q][b] \in 0..3
    BY CountAndFloodTypes
  <2>4. UNCHANGED <<blks, floods>>
    BY DEF Publish, store
  <2>5. Count(pblock'[q], b) + One(solved'[q] = b) = Count(pblock[q], b) + One(solved[q] = b)
    <3>1. CASE q = m
      <4>1. Count(pblock'[q], b) = Count(pblock[q], b) + One(x = b)
        BY <1>1, <1>2, <3>1, CountAppend DEF TypeOK
      <4> QED
        BY <1>1, <1>2, <2>3, <3>1, <4>1 DEF One
    <3>2. CASE q # m
      BY <1>2, <3>2
    <3> QED
      BY <3>1, <3>2
  <2>6. Count(pblock'[q], b) \in Nat
    <3>1. pblock'[q] \in Seq(Blocks)
      <4>1. pblock[q] \in Seq(Blocks) /\ Append(pblock[m], x) \in Seq(Blocks)
        BY <1>1 DEF TypeOK
      <4> QED
        BY <1>2, <4>1
    <3> QED
      BY <3>1, CountType
  <2> QED
    BY <2>1, <2>2, <2>3, <2>4, <2>5, <2>6 DEF Pending, Bound, One
<1> QED
  BY <1>3, <1>4, StayingKeeps DEF Floods

\* A flood begins.
LEMMA TakeBlockKeeps ==
  ASSUME TypeOK, Floods, NEW m \in Miners, TakeBlock(m)
  PROVE  Floods'
<1> DEFINE x == Head(pblock[m])
<1>1. /\ pblock[m] \in Seq(Blocks) /\ pblock[m] # <<>> /\ x \in Blocks
      /\ floods[m] \in [Blocks -> 0..3] /\ floods \in [Miners -> [Blocks -> 0..3]]
  BY DEF TakeBlock, TypeOK
<1>2. /\ \A q \in Miners : pblock'[q] = IF q = m THEN Tail(pblock[m]) ELSE pblock[q]
      /\ \A q \in Miners \ {m} : floods'[q] = floods[q]
      /\ \A b \in Blocks \ {x} : floods'[m][b] = floods[m][b]
      /\ floods'[m][x] = IF floods[m][x] < 3 THEN floods[m][x] + 1 ELSE 3
  BY <1>1 DEF TakeBlock, TypeOK
<1>3. HandlersStay
  <2>1. call[m] = NoCall /\ \A q \in Miners \ {m} : manager'[q] = manager[q]
    BY DEF TakeBlock, Selecting, Begin, TypeOK
  <2> QED
    BY <2>1 DEF TakeBlock, store, NoCall, HandlersStay
<1>4. FloodsAndPending'
  <2> SUFFICES ASSUME NEW q \in Miners, NEW b \in Blocks
               PROVE  floods'[q][b] + Pending(q, b)' <= Bound(q, b)
    BY DEF FloodsAndPending, Bound
  <2>1. floods[q][b] + Pending(q, b) <= Bound(q, b)
    BY DEF Floods, FloodsAndPending
  <2>2. (Validating(q, b)' => Validating(q, b)) /\ (Has(q, b) => Has(q, b)')
    BY <1>3, StayingKeeps
  <2>3. Count(pblock[q], b) \in Nat /\ floods[q][b] \in 0..3
    BY CountAndFloodTypes
  <2>4. UNCHANGED <<blks, solved>>
    BY DEF TakeBlock, store
  <2>5. /\ Count(pblock'[q], b) \in Nat /\ floods'[q][b] \in 0..3
        /\ floods'[q][b] + Count(pblock'[q], b) <= floods[q][b] + Count(pblock[q], b)
    <3>1. CASE q = m
      <4>1. Tail(pblock[m]) \in Seq(Blocks)
        BY <1>1
      <4>2. Count(pblock[m], b) = Count(Tail(pblock[m]), b) + One(x = b)
        BY <1>1, CountTail
      <4>3. Count(Tail(pblock[m]), b) \in Nat
        BY <4>1, CountType
      <4>4. floods'[m][b] = IF b = x /\ floods[m][b] < 3 THEN floods[m][b] + 1 ELSE floods[m][b]
        BY <1>1, <1>2
      <4> HIDE DEF x
      <4> QED
        BY <1>2, <2>3, <3>1, <4>2, <4>3, <4>4 DEF One
    <3>2. CASE q # m
      BY <1>2, <2>3, <3>2
    <3> QED
      BY <3>1, <3>2
  <2> QED
    BY <2>1, <2>2, <2>3, <2>4, <2>5 DEF Pending, Bound, One
<1> QED
  BY <1>3, <1>4, StayingKeeps DEF Floods

\* A first receipt: the handler takes the block in hand.
LEMMA MarkKeeps ==
  ASSUME TypeOK, Floods, NEW m \in Miners, Mark(m)
  PROVE  Floods'
<1>1. PICK t \in Miners, x \in Blocks :
        /\ t = call[m].to /\ x = manager[m].block /\ call[m].step = "mark"
        /\ UNCHANGED <<up, needy, stored, pblock, solved, manager, floods>>
  BY DEF Mark, Handling, NoCall, TypeOK
<1>2. CASE Return(m) /\ UNCHANGED blks
  <2>1. call'[m].step = "none" /\ \A c \in Miners \ {m} : call'[c] = call[c]
    BY <1>2 DEF Return, NoCall, TypeOK
  <2>2. HandlersStay
    BY <1>1, <1>2, <2>1 DEF HandlersStay
  <2> QED
    BY <1>1, <2>2, QuietKeeps
<1>3. CASE x \notin blks[t] /\ blks' = [blks EXCEPT ![t] = @ \cup {x}] /\ Goto(m, "validate")
  <2>1. /\ \A c \in Miners \ {m} : call'[c] = call[c]
        /\ call'[m].to = t /\ call'[m].step = "validate"
    BY <1>1, <1>3 DEF Goto, TypeOK
  <2>2. \A q \in Miners : blks'[q] = IF q = t THEN blks[q] \cup {x} ELSE blks[q]
    BY <1>1, <1>3 DEF TypeOK
  <2>3. ~Validating(t, x)
    BY <1>3 DEF Floods, HeldOnce, Validating, AtWork
  <2>4. HeldOnce'
    <3> SUFFICES ASSUME NEW c \in Miners, call'[c].step = "validate"
                 PROVE  /\ manager'[c].block \in blks'[call'[c].to]
                        /\ \A d \in Miners :
                             call'[d].step = "validate" /\ AtWork(d, call[c].to, manager[c].block)' => d = c
      BY <2>1 DEF HeldOnce, AtWork
    <3>1. CASE c = m
      BY <1>1, <2>1, <2>2, <2>3, <3>1 DEF Validating, AtWork
    <3>2. CASE c # m
      <4>1. call'[c] = call[c] /\ manager'[c] = manager[c]
        BY <1>1, <2>1, <3>2
      <4>2. /\ manager[c].block \in blks[call[c].to]
            /\ \A d \in Miners :
                 call[d].step = "validate" /\ AtWork(d, call[c].to, manager[c].block) => d = c
        BY <4>1 DEF Floods, HeldOnce
      <4>3. call[c].to \in Miners
        BY <4>1 DEF NoCall, TypeOK
      <4>4. ~(call[c].to = t /\ manager[c].block = x)
        BY <1>3, <4>2
      <4> QED
        <5>1. manager'[c].block \in blks'[call'[c].to]
          BY <1>1, <2>2, <4>1, <4>2, <4>3
        <5>2. ASSUME NEW d \in Miners, call'[d].step = "validate",
                     AtWork(d, call[c].to, manager[c].block)'
              PROVE  d = c
          <6>1. d # m
            BY <1>1, <2>1, <4>1, <4>4, <5>2 DEF AtWork
          <6> QED
            BY <1>1, <2>1, <4>1, <4>2, <5>2, <6>1 DEF AtWork
        <5> QED
          BY <5>1, <5>2
    <3> QED
      BY <3>1, <3>2
  <2>5. Accounted'
    <3> SUFFICES ASSUME NEW q \in up, NEW b \in blks'[q]
                 PROVE  Has(q, b)' \/ Working(q, b)' \/ b \in needy'
      BY <1>1 DEF Accounted
    <3>1. q \in Miners
      BY DEF TypeOK
    <3>2. CASE q = t /\ b = x
      BY <1>1, <2>1, <3>2 DEF Working, AtWork
    <3>3. CASE b \in blks[q]
      <4>1. Has(q, b) \/ Working(q, b) \/ b \in needy
        BY <3>3 DEF Floods, Accounted
      <4>2. Working(q, b) => Working(q, b)'
        BY <1>1, <2>1 DEF Working, AtWork
      <4> QED
        BY <1>1, <4>1, <4>2 DEF Has
    <3> QED
      BY <2>2, <3>1, <3>2, <3>3
  <2>6. FloodsAndPending'
    <3> SUFFICES ASSUME NEW q \in Miners, NEW b \in Blocks
                 PROVE  floods'[q][b] + Pending(q, b)' <= Bound(q, b)
      BY DEF FloodsAndPending, Bound
    <3>1. floods[q][b] + Pending(q, b) <= Bound(q, b)
      BY DEF Floods, FloodsAndPending
    <3>2. Count(pblock[q], b) \in Nat /\ floods[q][b] \in 0..3
      BY CountAndFloodTypes
    <3>3. Has(q, b)' = Has(q, b)
      BY <1>1 DEF Has
    <3>4. CASE q = t /\ b = x
      <4>1. b \notin blks[q] /\ b \in blks'[q] /\ ~Validating(q, b)
        BY <1>3, <2>2, <2>3, <3>4
      <4>2. UNCHANGED <<floods, pblock, solved>>
        BY <1>1
      <4> QED
        BY <3>1, <3>2, <3>3, <4>1, <4>2 DEF Pending, Bound, One
    <3>5. CASE ~(q = t /\ b = x)
      <4>1. Validating(q, b)' => Validating(q, b)
        BY <1>1, <2>1, <3>5 DEF Validating, AtWork
      <4>2. b \notin blks'[q] <=> b \notin blks[q]
        BY <2>2, <3>5
      <4> QED
        BY <1>1, <3>1, <3>2, <3>3, <4>1, <4>2 DEF Pending, Bound, One
    <3> QED
      BY <3>4, <3>5
  <2> QED
    BY <2>4, <2>5, <2>6 DEF Floods
<1> QED
  BY <1>1, <1>2, <1>3 DEF Mark

\* The handler sends its block on, or drops one that needs its chain.
LEMMA ForwardKeeps ==
  ASSUME TypeOK, Floods, NEW m \in Miners, Forward(m)
  PROVE  Floods'
<1>1. PICK t \in Miners, x \in Blocks :
        /\ t = call[m].to /\ x = manager[m].block /\ call[m].step = "validate"
        /\ UNCHANGED <<up, needy, stored, blks, solved, manager, floods>>
  BY DEF Forward, Handling, NoCall, store, TypeOK
<1>2. /\ \A c \in Miners \ {m} : call'[c] = call[c]
      /\ \/ call'[m].step = "none" /\ x \in needy /\ UNCHANGED pblock
         \/ /\ call'[m].step = "insert" /\ call'[m].to = t
            /\ pblock' = [pblock EXCEPT ![t] = Append(@, x)]
  <2>1. \/ call' = [call EXCEPT ![m] = NoCall] /\ x \in needy /\ UNCHANGED pblock
        \/ /\ call' = [call EXCEPT ![m].step = "insert"]
           /\ pblock' = [pblock EXCEPT ![t] = Append(@, x)]
    BY <1>1 DEF Forward, Return, Goto, ValidateBlock
  <2>2. call \in [Miners -> [to : Miners \cup {None}, step : {"none", "mark", "validate", "insert"}]]
    BY DEF TypeOK
  <2>3. CASE call' = [call EXCEPT ![m] = NoCall] /\ x \in needy /\ UNCHANGED pblock
    BY <2>2, <2>3 DEF NoCall
  <2>4. CASE /\ call' = [call EXCEPT ![m].step = "insert"]
             /\ pblock' = [pblock EXCEPT ![t] = Append(@, x)]
    BY <1>1, <2>2, <2>4
  <2> QED
    BY <2>1, <2>3, <2>4
<1>3. Validating(t, x) /\ ~Validating(t, x)'
  <2>1. Validating(t, x)
    BY <1>1 DEF Validating, AtWork
  <2>2. \A d \in Miners : call[d].step = "validate" /\ AtWork(d, t, x) => d = m
    BY <1>1 DEF Floods, HeldOnce
  <2>3. ASSUME NEW d \in Miners, call'[d].step = "validate", AtWork(d, t, x)'
        PROVE  FALSE
    BY <1>1, <1>2, <2>2, <2>3 DEF AtWork
  <2> QED
    BY <2>1, <2>3 DEF Validating
<1>4. \A q \in Miners : \A b \in Blocks : Validating(q, b)' => Validating(q, b)
  BY <1>1, <1>2 DEF Validating, AtWork
<1>5. HeldOnce'
  BY <1>1, <1>2 DEF Floods, HeldOnce, AtWork
<1>6. Accounted'
  <2> SUFFICES ASSUME NEW q \in up, NEW b \in blks[q]
               PROVE  Has(q, b)' \/ Working(q, b)' \/ b \in needy'
    BY <1>1 DEF Accounted
  <2>1. Has(q, b) \/ Working(q, b) \/ b \in needy
    BY DEF Floods, Accounted
  <2>2. Working(q, b) => Working(q, b)' \/ b \in needy
    BY <1>1, <1>2 DEF Working, AtWork
  <2> QED
    BY <1>1, <2>1, <2>2 DEF Has
<1>7. FloodsAndPending'
  <2> SUFFICES ASSUME NEW q \in Miners, NEW b \in Blocks
               PROVE  floods'[q][b] + Pending(q, b)' <= Bound(q, b)
    BY DEF FloodsAndPending, Bound
  <2>1. floods[q][b] + Pending(q, b) <= Bound(q, b)
    BY DEF Floods, FloodsAndPending
  <2>2. Count(pblock[q], b) \in Nat /\ floods[q][b] \in 0..3
    BY CountAndFloodTypes
  <2>3. Has(q, b)' = Has(q, b)
    BY <1>1 DEF Has
  <2>4. /\ Count(pblock'[q], b) \in Nat
        /\ Count(pblock'[q], b) + One(Validating(q, b)') <= Count(pblock[q], b) + One(Validating(q, b))
    <3>1. CASE pblock'[q] = pblock[q]
      BY <1>4, <2>2, <3>1 DEF One
    <3>2. CASE q = t /\ pblock'[q] = Append(pblock[q], x)
      <4>1. Count(pblock'[q], b) = Count(pblock[q], b) + One(x = b)
        BY <1>1, <3>2, CountAppend DEF TypeOK
      <4>2. CASE b = x
        BY <1>3, <2>2, <3>2, <4>1, <4>2 DEF One
      <4>3. CASE b # x
        BY <1>4, <2>2, <4>1, <4>3 DEF One
      <4> QED
        BY <4>2, <4>3
    <3>3. pblock' = pblock \/ pblock' = [pblock EXCEPT ![t] = Append(pblock[t], x)]
      BY <1>2
    <3>4. pblock \in [Miners -> Seq(Blocks)]
      BY DEF TypeOK
    <3> QED
      BY <3>1, <3>2, <3>3, <3>4
  <2> QED
    BY <1>1, <2>1, <2>2, <2>3, <2>4 DEF Pending, Bound, One
<1> QED
  BY <1>5, <1>6, <1>7 DEF Floods

LEMMA InsertBlockKeeps ==
  ASSUME TypeOK, Floods, NEW m \in Miners, InsertBlock(m)
  PROVE  Floods'
<1>1. PICK t \in Miners, x \in Blocks :
        /\ t = call[m].to /\ x = manager[m].block /\ call[m].step = "insert"
        /\ UNCHANGED <<up, needy, pblock, blks, solved, manager, floods>>
  BY DEF InsertBlock, Handling, NoCall, TypeOK
<1>2. call'[m].step = "none" /\ \A c \in Miners \ {m} : call'[c] = call[c]
  BY DEF InsertBlock, Return, NoCall, TypeOK
<1>3. ToSet(stored[t]) \subseteq ToSet(Insert(stored[t], x)) /\ x \in ToSet(Insert(stored[t], x))
  BY <1>1, InsertKeeps DEF TypeOK
<1>4. \A q \in Miners : stored'[q] = IF q = t THEN Insert(stored[t], x) ELSE stored[q]
  BY <1>1 DEF InsertBlock, TypeOK
<1>5. Has(t, x)' /\ \A q \in Miners : \A b \in Blocks : Has(q, b) => Has(q, b)'
  BY <1>3, <1>4 DEF Has
<1>6. HeldOnce'
  BY <1>1, <1>2 DEF Floods, HeldOnce, AtWork
<1>7. Accounted'
  <2> SUFFICES ASSUME NEW q \in up, NEW b \in blks[q]
               PROVE  Has(q, b)' \/ Working(q, b)' \/ b \in needy'
    BY <1>1 DEF Accounted
  <2>1. Has(q, b) \/ Working(q, b) \/ b \in needy
    BY DEF Floods, Accounted
  <2>2. q \in Miners /\ b \in Blocks
    BY DEF TypeOK
  <2>3. Working(q, b) => Working(q, b)' \/ (q = t /\ b = x)
    BY <1>1, <1>2 DEF Working, AtWork
  <2> QED
    BY <1>1, <1>5, <2>1, <2>2, <2>3
<1>8. FloodsAndPending'
  <2> SUFFICES ASSUME NEW q \in Miners, NEW b \in Blocks
               PROVE  floods'[q][b] + Pending(q, b)' <= Bound(q, b)
    BY DEF FloodsAndPending, Bound
  <2>1. floods[q][b] + Pending(q, b) <= Bound(q, b)
    BY DEF Floods, FloodsAndPending
  <2>2. Count(pblock[q], b) \in Nat /\ floods[q][b] \in 0..3
    BY CountAndFloodTypes
  <2>3. Validating(q, b)' => Validating(q, b)
    BY <1>1, <1>2 DEF Validating, AtWork
  <2>4. Has(q, b) => Has(q, b)'
    BY <1>5
  <2> QED
    BY <1>1, <2>1, <2>2, <2>3, <2>4 DEF Pending, Bound, One
<1> QED
  BY <1>6, <1>7, <1>8 DEF Floods

LEMMA FloodsStep == GInv /\ [Next]_vars => Floods'
<1> SUFFICES ASSUME GInv, [Next]_vars
             PROVE  Floods'
  OBVIOUS
<1> USE DEF GInv
<1>1. CASE Next
  <2>1. PICK m \in Miners :
          \/ \E b \in Blocks : Solve(m, b)
          \/ Publish(m) \/ Select(m) \/ Turn(m) \/ Handler(m) \/ Crash(m)
    BY <1>1 DEF Next
  <2> QED
    BY <2>1, SolvingKeeps, PublishKeeps, TakeBlockKeeps, ManagingKeeps, MarkKeeps, ForwardKeeps,
       InsertBlockKeeps DEF Select, Handler
<1>2. CASE UNCHANGED vars
  <2>1. HandlersStay /\ UNCHANGED <<pblock, solved, floods>>
    BY <1>2 DEF vars, HandlersStay
  <2> QED
    BY <2>1, QuietKeeps
<1> QED
  BY <1>1, <1>2

-----------------------------------------------------------------------------
(* Theorems                                                                *)

\* The inductive invariant: types, the floods of a block that a miner has still
\* before it, the handler that holds it, and what became of what was received.
THEOREM GossipInvariant == Spec => []GInv
<1>1. Init => GInv
  BY TypesInit, FloodsInit DEF GInv
<1>2. GInv /\ [Next]_vars => GInv'
  BY TypesStep, FloodsStep DEF GInv
<1> QED
  BY <1>1, <1>2, PTL DEF Spec

\* For any miners, links, blocks and any capacity of pblock, and whichever miners
\* stop: a miner floods a block at most once, its own at most twice
\* (peer-rpc.go:196-205, 216-221, ink-miner.go:1073-1074).
THEOREM FloodsAreBounded == Spec => []FloodsBounded
<1>1. GInv => FloodsBounded
  <2> SUFFICES ASSUME GInv, NEW m \in Miners, NEW b \in Blocks
               PROVE  floods[m][b] <= IF MinerOf[b] = m THEN 2 ELSE 1
    BY DEF FloodsBounded
  <2>1. floods[m][b] + Pending(m, b) <= Bound(m, b)
    BY DEF GInv, Floods, FloodsAndPending
  <2>2. Count(pblock[m], b) \in Nat /\ floods[m][b] \in 0..3
    BY CountAndFloodTypes DEF GInv
  <2> QED
    BY <2>1, <2>2 DEF Pending, Bound, One
<1> QED
  BY <1>1, GossipInvariant, PTL

\* For the same instances: a block that a running miner received is stored, in a
\* handler, or needed its chain (peer-rpc.go:203-228).
THEOREM OnlyNeedyLost == Spec => []OnlyNeedyBlocksLost
<1>1. GInv => OnlyNeedyBlocksLost
  BY DEF GInv, Floods, Accounted, Working, AtWork, Serving, OnlyNeedyBlocksLost
<1> QED
  BY <1>1, GossipInvariant, PTL

-----------------------------------------------------------------------------
(* Miners that wait on each other.                                         *)

\* A miner that goes through its peers has counted the flood, and calls others.
Calling ==
  \A m \in Miners :
    /\ manager[m].task = "flood" => floods[m][manager[m].block] >= 1
    /\ call[m].to # m

LEMMA CallingInit == Init => Calling
BY DEF Init, Calling, Idle, NoCall

LEMMA CallingStep ==
  ASSUME TypeOK, Calling, [Next]_vars
  PROVE  Calling'
<1>1. ASSUME NEW m \in Miners, UNCHANGED floods, call'[m].to \in {call[m].to, None},
             \/ manager'[m].task # "flood"
             \/ manager'[m].task = manager[m].task /\ manager'[m].block = manager[m].block
      PROVE  /\ manager'[m].task = "flood" => floods'[m][manager'[m].block] >= 1
             /\ call'[m].to # m
  BY <1>1 DEF Calling
<1>2. CASE UNCHANGED vars
  BY <1>2 DEF vars, Calling
<1>3. ASSUME NEW m \in Miners, (\E b \in Blocks : Solve(m, b)) \/ Publish(m)
      PROVE  Calling'
  <2>1. UNCHANGED <<floods, manager, call>>
    BY <1>3 DEF Solve, Publish
  <2> QED
    BY <2>1 DEF Calling
<1>4. ASSUME NEW m \in Miners, Select(m)
      PROVE  Calling'
  <2>1. CASE TakeBlock(m)
    <3>1. PICK x : x = Head(pblock[m])
      OBVIOUS
    <3>2. /\ manager' = [manager EXCEPT ![m] = [task |-> "flood", block |-> x,
                                               left |-> PeerList[m], rest |-> <<>>]]
          /\ floods' = [floods EXCEPT ![m][x] = IF @ < 3 THEN @ + 1 ELSE 3]
          /\ UNCHANGED call
          /\ x \in Blocks /\ floods \in [Miners -> [Blocks -> 0..3]]
      BY <2>1, <3>1 DEF TakeBlock, Begin, TypeOK
    <3>3. manager'[m].block = x /\ floods'[m][x] >= 1
      <4>1. manager'[m].block = x
        BY <3>2 DEF TypeOK
      <4>2. /\ floods[m] \in [Blocks -> 0..3] /\ floods[m][x] \in 0..3
            /\ floods'[m] = [floods[m] EXCEPT ![x] = IF @ < 3 THEN @ + 1 ELSE 3]
        BY <3>2
      <4>3. floods'[m][x] = IF floods[m][x] < 3 THEN floods[m][x] + 1 ELSE 3
        BY <3>2, <4>2
      <4> QED
        BY <4>1, <4>2, <4>3
    <3>4. \A q \in Miners \ {m} : manager'[q] = manager[q] /\ floods'[q] = floods[q]
      BY <3>2 DEF TypeOK
    <3> QED
      BY <3>2, <3>3, <3>4 DEF Calling
  <2>2. ASSUME NEW task \in {"connect", "sync"}, NEW left, Begin(m, task, None, left),
               UNCHANGED <<floods, call>>
        PROVE  Calling'
    <3>1. \A q \in Miners : manager'[q].task # "flood" \/ manager'[q] = manager[q]
      BY <2>2 DEF Begin, TypeOK
    <3> QED
      BY <1>1, <2>2, <3>1 DEF Calling
  <2>3. CASE DefaultCase(m)
    <3>1. PICK old \in SUBSET PeerList[m], answer \in SUBSET up : Default(m, old, answer)
      BY <2>3 DEF DefaultCase
    <3> QED
      BY <2>2, <3>1 DEF Default, Calling
  <2>4. CASE TakePeer(m)
    BY <2>2, <2>4 DEF TakePeer
  <2>5. CASE StartSync(m)
    BY <2>2, <2>5 DEF StartSync, network
  <2> QED
    BY <1>4, <2>1, <2>3, <2>4, <2>5 DEF Select
<1>5. ASSUME NEW m \in Miners, Turn(m)
      PROVE  Calling'
  <2>1. /\ UNCHANGED floods
        /\ \A q \in Miners : \/ manager'[q].task # "flood"
                             \/ /\ manager'[q].task = manager[q].task
                                /\ manager'[q].block = manager[q].block
    <3>1. ASSUME NEW p \in Miners, Advance(m, p) \/ AdvanceWith(m, p), NEW q \in Miners
          PROVE  manager'[q].task = manager[q].task /\ manager'[q].block = manager[q].block
      <4>1. manager \in [Miners -> Task]
        BY DEF TypeOK, Task
      <4>2. CASE Advance(m, p)
        BY <4>1, <4>2 DEF Advance, Task
      <4>3. CASE AdvanceWith(m, p)
        BY <4>1, <4>3 DEF AdvanceWith, Task
      <4> QED
        BY <3>1, <4>2, <4>3
    <3>2. CASE Done(m)
      BY <3>2 DEF Done, Idle, TypeOK
    <3>3. CASE InsertNext(m)
      BY <3>3 DEF InsertNext, TypeOK
    <3>4. ASSUME NEW p \in Miners, ConnectTo(m, p) \/ SyncWith(m, p) \/ CallPeer(m, p)
          PROVE  (Advance(m, p) \/ AdvanceWith(m, p)) /\ UNCHANGED floods
      BY <3>4 DEF ConnectTo, SyncWith, CallPeer
    <3> QED
      BY <1>5, <3>1, <3>2, <3>3, <3>4 DEF Turn, Done, InsertNext
  <2>2. \A q \in Miners : call'[q].to # q
    <3>1. CASE UNCHANGED call
      BY <3>1 DEF Calling
    <3>2. ASSUME NEW p \in Miners, CallPeer(m, p) PROVE \A q \in Miners : call'[q].to # q
      BY <3>2 DEF CallPeer, Calling, TypeOK
    <3> QED
      BY <1>5, <3>1, <3>2 DEF Turn, Done, InsertNext, ConnectTo, SyncWith
  <2> QED
    BY <2>1, <2>2 DEF Calling
<1>6. ASSUME NEW m \in Miners, Handler(m) \/ Crash(m)
      PROVE  Calling'
  <2>1. UNCHANGED <<floods, manager>>
    BY <1>6 DEF Handler, Mark, Forward, InsertBlock, Crash
  <2>2. \A q \in Miners : call'[q].to \in {call[q].to, None}
    BY <1>6 DEF Handler, Mark, Forward, InsertBlock, Crash, Goto, Return, NoCall, TypeOK
  <2> QED
    BY <1>1, <2>1, <2>2 DEF Calling
<1> QED
  BY <1>2, <1>3, <1>4, <1>5, <1>6 DEF Next

LEMMA Copies ==
  ASSUME NEW s \in Seq(Blocks), NEW b, NEW T \in SUBSET {i \in DOMAIN s : s[i] = b}
  PROVE  Cardinality(T) <= Count(s, b)
<1>1. IsFiniteSet({i \in DOMAIN s : s[i] = b})
  BY CountType
<1>2. Cardinality(T) <= Cardinality({i \in DOMAIN s : s[i] = b})
  BY <1>1, FS_Subset
<1> QED
  BY <1>2 DEF Count

LEMMA Pairs ==
  \A i, j : i # j => /\ IsFiniteSet({i} \cup {j}) /\ Cardinality({i} \cup {j}) = 2
                     /\ \A k : k # i /\ k # j => Cardinality(({i} \cup {j}) \cup {k}) = 3
<1> SUFFICES ASSUME NEW i, NEW j, i # j
             PROVE  /\ IsFiniteSet({i} \cup {j}) /\ Cardinality({i} \cup {j}) = 2
                    /\ \A k : k # i /\ k # j => Cardinality(({i} \cup {j}) \cup {k}) = 3
  OBVIOUS
<1>1. PICK S : S = {i}
  OBVIOUS
<1>2. IsFiniteSet(S) /\ Cardinality(S) = 1 /\ j \notin S
  BY <1>1, FS_Singleton
<1>3. PICK T : T = S \cup {j}
  OBVIOUS
<1>4. IsFiniteSet(T) /\ Cardinality(T) = 2
  BY <1>2, <1>3, FS_AddElement
<1>5. ASSUME NEW k, k # i, k # j PROVE Cardinality(T \cup {k}) = 3
  <2>1. k \notin T
    BY <1>1, <1>3, <1>5
  <2>2. Cardinality(T \cup {k}) = Cardinality(T) + 1
    BY <1>4, <2>1, FS_AddElement
  <2> QED
    BY <1>4, <2>2
<1> QED
  BY <1>1, <1>3, <1>4, <1>5

\* A sequence with no more than two copies of a block is as long as there are
\* blocks in it, counting those with two copies twice.
LEMMA FewCopies ==
  ASSUME IsFiniteSet(Blocks), NEW s \in Seq(Blocks), \A b \in Blocks : Count(s, b) <= 2,
         NEW F, F = {b \in Blocks : Count(s, b) >= 1},
         NEW G, G = {b \in Blocks : Count(s, b) >= 2}
  PROVE  Len(s) <= Cardinality(F) + Cardinality(G)
<1>1. PICK Again : Again = {i \in 1..Len(s) : \E j \in 1..Len(s) : j < i /\ s[j] = s[i]}
  OBVIOUS
<1>2. PICK First : First = (1..Len(s)) \ Again
  OBVIOUS
<1>3. /\ Len(s) \in Nat /\ DOMAIN s = 1..Len(s) /\ \A i \in 1..Len(s) : s[i] \in Blocks
      /\ \A b \in Blocks : Count(s, b) \in Nat
  <2>1. ASSUME NEW b \in Blocks PROVE Count(s, b) \in Nat
    BY CountType
  <2> QED
    BY <2>1
<1>4. IsFiniteSet(F) /\ IsFiniteSet(G) /\ Cardinality(F) \in Nat /\ Cardinality(G) \in Nat
  BY FS_Subset, FS_CardinalityType
<1>5. Len(s) = Cardinality(First) + Cardinality(Again)
  <2>1. IsFiniteSet(1..Len(s)) /\ Cardinality(1..Len(s)) = Len(s)
    <3>1. PICK n \in Nat : n = Len(s)
      BY <1>3
    <3>2. 1 \in Int /\ n \in Int
      OBVIOUS
    <3>3. IsFiniteSet(1..n) /\ Cardinality(1..n) = IF 1 > n THEN 0 ELSE n - 1 + 1
      BY <3>2, FS_Interval
    <3> QED
      BY <3>1, <3>3
  <2>2. IsFiniteSet(First) /\ IsFiniteSet(Again)
    BY <1>1, <1>2, <2>1, FS_Subset
  <2>3. First \cup Again = 1..Len(s) /\ First \cap Again = {}
    BY <1>1, <1>2
  <2>4. Cardinality(First) \in Nat /\ Cardinality(Again) \in Nat
    BY <2>2, FS_CardinalityType
  <2> QED
    <3>1. /\ Cardinality(First \cup Again)
               = Cardinality(First) + Cardinality(Again) - Cardinality(First \cap Again)
      BY <2>2, FS_Union
    <3>2. Cardinality(First \cap Again) = 0
      BY <2>3, FS_EmptySet
    <3>3. Cardinality(First \cup Again) = Len(s)
      BY <2>1, <2>3
    <3> QED
      BY <2>4, <3>1, <3>2, <3>3
<1>6. Cardinality(First) <= Cardinality(F)
  <2>1. PICK f : f = [i \in First |-> s[i]]
    OBVIOUS
  <2>2. ASSUME NEW i \in First PROVE s[i] \in F
    <3>1. i \in 1..Len(s) /\ s[i] \in Blocks
      BY <1>2, <1>3
    <3>2. Cardinality({i}) <= Count(s, s[i])
      BY <1>3, <3>1, Copies
    <3>3. Cardinality({i}) = 1
      BY FS_Singleton
    <3>4. Count(s, s[i]) >= 1
      BY <1>3, <3>1, <3>2, <3>3
    <3> QED
      BY <3>1, <3>4
  <2>3. ASSUME NEW i \in First, NEW j \in First, s[i] = s[j] PROVE i = j
    <3>1. i \in 1..Len(s) /\ j \in 1..Len(s) /\ i \notin Again /\ j \notin Again
      BY <1>2
    <3>2. ~(i < j) /\ ~(j < i)
      BY <1>1, <2>3, <3>1
    <3> QED
      BY <3>1, <3>2
  <2>4. f \in Injection(First, F)
    BY <2>1, <2>2, <2>3 DEF Injection, IsInjective
  <2> QED
    BY <1>4, <2>4, FS_Injection
<1>7. Cardinality(Again) <= Cardinality(G)
  <2>1. PICK f : f = [i \in Again |-> s[i]]
    OBVIOUS
  <2>2. ASSUME NEW i \in Again
        PROVE  i \in 1..Len(s) /\ \E j \in 1..Len(s) : j < i /\ s[j] = s[i]
    BY <1>1
  <2>3. ASSUME NEW i \in Again PROVE s[i] \in G
    <3>1. PICK j \in 1..Len(s) : j < i /\ s[j] = s[i]
      BY <2>2
    <3>2. i \in 1..Len(s) /\ s[i] \in Blocks /\ i # j
      BY <1>3, <2>2, <3>1
    <3>3. {i} \cup {j} \in SUBSET {k \in DOMAIN s : s[k] = s[i]}
      BY <1>3, <3>1, <3>2
    <3>4. Cardinality({i} \cup {j}) <= Count(s, s[i])
      BY <3>3, Copies
    <3>5. Cardinality({i} \cup {j}) = 2
      BY <3>2, Pairs
    <3>6. Count(s, s[i]) >= 2
      BY <1>3, <3>2, <3>4, <3>5
    <3> QED
      BY <3>2, <3>6
  <2>4. ASSUME NEW i \in Again, NEW j \in Again, s[i] = s[j], i < j PROVE FALSE
    <3>1. PICK k \in 1..Len(s) : k < i /\ s[k] = s[i]
      BY <2>2
    <3>2. i \in 1..Len(s) /\ j \in 1..Len(s) /\ s[i] \in Blocks /\ k # i /\ k # j /\ i # j
      BY <1>3, <2>2, <2>4, <3>1
    <3>3. PICK T : T = ({i} \cup {j}) \cup {k}
      OBVIOUS
    <3>4. T \in SUBSET {l \in DOMAIN s : s[l] = s[i]}
      BY <1>3, <2>4, <3>1, <3>2, <3>3
    <3>5. Cardinality(T) <= Count(s, s[i])
      BY <3>4, Copies
    <3>6. Cardinality(T) = 3
      BY <3>2, <3>3, Pairs
    <3>7. Count(s, s[i]) \in Nat /\ Count(s, s[i]) <= 2
      BY <1>3, <3>2
    <3> QED
      BY <3>5, <3>6, <3>7
  <2>5. ASSUME NEW i \in Again, NEW j \in Again, s[i] = s[j] PROVE i = j
    <3>1. i \in Int /\ j \in Int
      BY <2>2
    <3> QED
      BY <2>4, <2>5, <3>1
  <2>6. f \in Injection(Again, G)
    BY <2>1, <2>3, <2>5 DEF Injection, IsInjective
  <2> QED
    BY <1>4, <2>6, FS_Injection
<1>8. Cardinality(First) \in Nat /\ Cardinality(Again) \in Nat
  <2>1. IsFiniteSet(1..Len(s))
    BY <1>3, FS_Interval
  <2>2. IsFiniteSet(First) /\ IsFiniteSet(Again)
    BY <1>1, <1>2, <2>1, FS_Subset
  <2> QED
    BY <2>2, FS_CardinalityType
<1> QED
  BY <1>3, <1>4, <1>5, <1>6, <1>7, <1>8

LEMMA Missing ==
  ASSUME NEW S, IsFiniteSet(S), NEW T \in SUBSET S, NEW x \in S \ T
  PROVE  /\ Cardinality(T) <= Cardinality(S) - 1
         /\ \A y \in S \ T : y # x => Cardinality(T) <= Cardinality(S) - 2
<1>1. /\ IsFiniteSet(S \ {x}) /\ Cardinality(S \ {x}) = Cardinality(S) - 1
      /\ Cardinality(S) \in Nat
  BY FS_RemoveElement, FS_CardinalityType
<1>2. Cardinality(T) <= Cardinality(S \ {x})
  BY <1>1, FS_Subset
<1>3. ASSUME NEW y \in S \ T, y # x PROVE Cardinality(T) <= Cardinality(S) - 2
  <2>1. /\ IsFiniteSet((S \ {x}) \ {y})
        /\ Cardinality((S \ {x}) \ {y}) = Cardinality(S \ {x}) - 1
    BY <1>1, <1>3, FS_RemoveElement
  <2>2. T \in SUBSET ((S \ {x}) \ {y})
    BY <1>3
  <2>3. Cardinality(T) <= Cardinality((S \ {x}) \ {y})
    BY <2>1, <2>2, FS_Subset
  <2> QED
    BY <1>1, <2>1, <2>3
<1> QED
  BY <1>1, <1>2, <1>3

OwnBlocks(m) == {b \in Blocks : MinerOf[b] = m}

\* A miner t that floods while a handler waits for room in its pblock: the
\* flood it is at, the block that waits and those in the channel are all
\* floods of t.
LEMMA FullChannel ==
  ASSUME IsFiniteSet(Blocks), GInv, Calling, NEW m \in Miners, NEW t \in Miners,
         Blocked(m), call[m].to = t, manager[t].task = "flood"
  PROVE  OutCap + 2 <= Cardinality(Blocks) + Cardinality(OwnBlocks(t))
<1>1. PICK s, F, G, O, x, y :
        /\ s = pblock[t]
        /\ F = {b \in Blocks : Count(s, b) >= 1} /\ G = {b \in Blocks : Count(s, b) >= 2}
        /\ O = OwnBlocks(t)
        /\ x = manager[t].block /\ y = manager[m].block
  OBVIOUS
<1>2. /\ s \in Seq(Blocks) /\ Len(s) = OutCap
      /\ x \in Blocks /\ floods[t][x] >= 1
      /\ y \in Blocks /\ Validating(t, y)
  <2>1. s \in Seq(Blocks) /\ Len(s) = OutCap /\ call[m].step = "validate"
    BY <1>1 DEF GInv, TypeOK, Blocked, Handling
  <2>2. call[m] # NoCall
    BY <2>1 DEF NoCall
  <2>3. x \in Blocks /\ floods[t][x] >= 1 /\ y \in Blocks
    BY <1>1, <2>2 DEF GInv, TypeOK, Calling
  <2> QED
    BY <1>1, <2>1, <2>3 DEF Validating, AtWork
<1>3. ASSUME NEW b \in Blocks
      PROVE  /\ floods[t][b] \in 0..3 /\ Count(s, b) \in Nat
             /\ floods[t][b] + Count(s, b) + One(Validating(t, b)) <= Bound(t, b)
  <2>1. floods[t][b] \in 0..3 /\ Count(s, b) \in Nat
    BY <1>1, CountAndFloodTypes DEF GInv
  <2>2. floods[t][b] + Pending(t, b) <= Bound(t, b)
    BY DEF GInv, Floods, FloodsAndPending
  <2> QED
    BY <1>1, <2>1, <2>2 DEF Pending, Bound, One
<1>4. /\ \A b \in Blocks : Count(s, b) <= 2
      /\ F \in SUBSET Blocks /\ O \in SUBSET Blocks /\ G \in SUBSET O
  <2>1. ASSUME NEW b \in Blocks
        PROVE  Count(s, b) <= 2 /\ (Count(s, b) >= 2 => MinerOf[b] = t)
    BY <1>3 DEF Bound, One
  <2> QED
    BY <1>1, <2>1 DEF OwnBlocks
<1>5. OutCap <= Cardinality(F) + Cardinality(G)
  BY <1>1, <1>2, <1>4, FewCopies
<1>6. /\ IsFiniteSet(O)
      /\ Cardinality(Blocks) \in Nat /\ Cardinality(O) \in Nat
      /\ Cardinality(F) \in Nat /\ Cardinality(G) \in Nat
      /\ Cardinality(F) <= Cardinality(Blocks) /\ Cardinality(G) <= Cardinality(O)
  BY <1>4, FS_Subset, FS_CardinalityType
<1>7. ASSUME NEW b \in Blocks, floods[t][b] >= 1 \/ Validating(t, b)
      PROVE  b \in Blocks \ F \/ b \in O \ G
  <2>1. Count(s, b) + 1 <= Bound(t, b) /\ Count(s, b) \in Nat
    BY <1>3, <1>7 DEF One, Bound
  <2>2. CASE MinerOf[b] = t
    <3>1. b \in O /\ ~(Count(s, b) >= 2)
      BY <1>1, <2>1, <2>2 DEF Bound, OwnBlocks
    <3> QED
      BY <1>1, <3>1
  <2>3. CASE MinerOf[b] # t
    <3>1. ~(Count(s, b) >= 1)
      BY <2>1, <2>3 DEF Bound
    <3> QED
      BY <1>1, <3>1
  <2> QED
    BY <2>2, <2>3
<1>8. (x \in Blocks \ F \/ x \in O \ G) /\ (y \in Blocks \ F \/ y \in O \ G)
  BY <1>2, <1>7
<1>9. x = y => x \in Blocks \ F /\ x \in O \ G
  BY <1>1, <1>2, <1>3 DEF Bound, One, OwnBlocks
<1>10. \A z \in Blocks \ F : /\ Cardinality(F) <= Cardinality(Blocks) - 1
                             /\ \A w \in Blocks \ F :
                                  w # z => Cardinality(F) <= Cardinality(Blocks) - 2
  BY <1>4, Missing
<1>11. \A z \in O \ G : /\ Cardinality(G) <= Cardinality(O) - 1
                        /\ \A w \in O \ G : w # z => Cardinality(G) <= Cardinality(O) - 2
  BY <1>4, <1>6, Missing
<1>12. Cardinality(F) + Cardinality(G) + 2 <= Cardinality(Blocks) + Cardinality(O)
  BY <1>6, <1>8, <1>9, <1>10, <1>11
<1> QED
  BY <1>1, <1>5, <1>6, <1>12 DEF BoundsAssumption

\* For any miners and links: as long as no two miners could fill their pblock
\* with blocks that are solved in the run, no miners wait on each other in a
\* circle, whatever is lost and whoever stops (ink-miner.go:922-924, 979,
\* peer-rpc.go:220).
THEOREM RoomBreaksCircles ==
  ASSUME IsFiniteSet(Blocks),
         \A m, n \in Miners : m # n =>
           \E t \in {m, n} : Cardinality(Blocks) + Cardinality(OwnBlocks(t)) <= OutCap + 1
  PROVE  Spec => []NoCircularWait
<1>1. GInv /\ Calling => NoCircularWait
  <2> SUFFICES ASSUME GInv, Calling, NEW S \in (SUBSET Miners) \ {{}},
                      \A m \in S : Blocked(m) /\ call[m].to \in S
               PROVE  FALSE
    BY DEF NoCircularWait
  <2>1. PICK m \in S : TRUE
    OBVIOUS
  <2>2. PICK t, u : t = call[m].to /\ u = call[t].to
    OBVIOUS
  <2>3. t \in S /\ u \in S /\ Blocked(m) /\ Blocked(t) /\ Blocked(u)
    BY <2>1, <2>2
  <2>4. t # u
    BY <2>2, <2>3 DEF Calling
  <2>5. manager[t].task = "flood" /\ manager[u].task = "flood"
    BY <2>3 DEF GInv, TypeOK, Blocked, Handling, NoCall
  <2>6. /\ OutCap + 2 <= Cardinality(Blocks) + Cardinality(OwnBlocks(t))
        /\ OutCap + 2 <= Cardinality(Blocks) + Cardinality(OwnBlocks(u))
    BY <2>1, <2>2, <2>3, <2>5, FullChannel
  <2>7. /\ Cardinality(Blocks) \in Nat
        /\ Cardinality(OwnBlocks(t)) \in Nat /\ Cardinality(OwnBlocks(u)) \in Nat
    BY FS_Subset, FS_CardinalityType DEF OwnBlocks
  <2> QED
    BY <2>3, <2>4, <2>6, <2>7 DEF BoundsAssumption
<1>2. Init => GInv /\ Calling
  BY TypesInit, FloodsInit, CallingInit DEF GInv
<1>3. GInv /\ Calling /\ [Next]_vars => GInv' /\ Calling'
  BY TypesStep, FloodsStep, CallingStep DEF GInv
<1> QED
  BY <1>1, <1>2, <1>3, PTL DEF Spec
=============================================================================
