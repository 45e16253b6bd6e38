------------------------------- MODULE Solver -------------------------------
(***************************************************************************)
(* ProblemSolver, the workers of its jobs (pow.Solve) and the channels     *)
(* done and solved between them: who may block, who may panic, who ends.   *)
(* What the blocks hold is not here: see Ledger.                           *)
(*                                                                         *)
(* A job has a done and a solved channel of its own.  A job's slot can be  *)
(* used again when its workers have ended.                                 *)
(***************************************************************************)
EXTENDS Integers, FiniteSets

CONSTANTS
  Workers,   \* the workers of a job, MAX_THREADS + 1 of them
  Jobs,      \* bound on the jobs that have a worker left
  OpCap,     \* capacity of sop
  BlockCap,  \* capacity of sblock
  OutCap,    \* capacity of pblock
  NoJob      \* the nil channel done has before the first job

ASSUME JobsAssumption ==
  /\ Workers # {}
  /\ NoJob \notin Jobs

ASSUME CapAssumption == OpCap \in Nat /\ BlockCap \in Nat /\ OutCap \in Nat

VARIABLES
  pc,       \* where ProblemSolver is: in select, sending to pblock, about to
            \* start the job after a solution, or exited with the program
  current,  \* the job whose channels are the locals done and solved
  worker,   \* job -> worker -> what it does
  done,     \* job -> whether its channel done is closed
  solved,   \* job -> whether its channel solved is closed
  sop, sblock, pblock  \* the number of messages in these channels

jobs     == <<current, worker, done, solved>>
channels == <<sop, sblock, pblock>>
vars     == <<pc, current, worker, done, solved, sop, sblock, pblock>>

Init ==
  /\ pc = "select"
  /\ current = NoJob
  /\ worker = [j \in Jobs |-> [w \in Workers |-> "ended"]]
  /\ done = [j \in Jobs |-> FALSE]
  /\ solved = [j \in Jobs |-> FALSE]
  /\ sop = 0 /\ sblock = 0 /\ pblock = 0

Ended(j) == \A w \in Workers : worker[j][w] = "ended"

\* The bound Jobs: ProblemSolver waits until a slot is free.
RoomForJob == \E j \in Jobs : j # current /\ Ended(j)

CanClose == current # NoJob /\ ~done[current] /\ ~solved[current]

\* close(done) of a nil channel, or close() of a closed one, ends the program.
Panic == pc' = "exited" /\ UNCHANGED jobs

\* Faulty: the workers are given the old solved channel.
StartOnClosed(j) ==
  /\ j # current /\ Ended(j)
  /\ current' = j
  /\ worker' = [worker EXCEPT ![j] = [w \in Workers |-> "searching"]]
  /\ done' = [i \in Jobs |-> IF i = j THEN FALSE ELSE i = current \/ done[i]]
  /\ solved' = [i \in Jobs |-> i \in {j, current} \/ solved[i]]

\* Faulty: the old job's channels stay open.
StartBeside(j) ==
  /\ j # current /\ Ended(j)
  /\ current' = j
  /\ worker' = [worker EXCEPT ![j] = [w \in Workers |-> "searching"]]
  /\ done' = [done EXCEPT ![j] = FALSE]
  /\ solved' = [solved EXCEPT ![j] = FALSE]

\* Faulty: solved is not closed.
StartDoneOnly(j) ==
  /\ j # current /\ Ended(j)
  /\ current' = j
  /\ worker' = [worker EXCEPT ![j] = [w \in Workers |-> "searching"]]
  /\ done' = [i \in Jobs |-> IF i = j THEN FALSE ELSE i = current \/ done[i]]
  /\ solved' = [solved EXCEPT ![j] = FALSE]

\* The channels of the current job are closed and another job is started:
\* NoopJob or OpJob.
Start(j) ==
  /\ j # current /\ Ended(j)
  /\ current' = j
  /\ worker' = [worker EXCEPT ![j] = [w \in Workers |-> "searching"]]
  /\ done' = [i \in Jobs |-> IF i = j THEN FALSE ELSE i = current \/ done[i]]
  /\ solved' = [i \in Jobs |-> IF i = j THEN FALSE ELSE i = current \/ solved[i]]

\* The default case, when no other is ready.
FirstJob ==
  /\ pc = "select"
  /\ current = NoJob
  /\ sop = 0 /\ sblock = 0
  /\ \E j \in Jobs : Start(j)
  /\ UNCHANGED <<pc, channels>>

Replace == \/ CanClose /\ (\E j \in Jobs : Start(j)) /\ UNCHANGED pc
           \/ ~CanClose /\ Panic

TakeOp ==
  /\ pc = "select"
  /\ sop > 0
  /\ sop' = sop - 1
  /\ Replace
  /\ UNCHANGED <<sblock, pblock>>

TakeBlock ==
  /\ pc = "select"
  /\ sblock > 0
  /\ sblock' = sblock - 1
  /\ Replace
  /\ UNCHANGED <<sop, pblock>>

\* A worker's send meets the select; done and solved are closed.
TakeSolution(w) ==
  /\ pc = "select"
  /\ RoomForJob
  /\ current # NoJob
  /\ worker[current][w] = "found"
  /\ worker' = [worker EXCEPT ![current][w] = "ended"]
  /\ IF CanClose
     THEN /\ done' = [done EXCEPT ![current] = TRUE]
          /\ solved' = [solved EXCEPT ![current] = TRUE]
          /\ pc' = "publish"
          /\ UNCHANGED current
     ELSE /\ pc' = "exited"
          /\ UNCHANGED <<current, done, solved>>
  /\ UNCHANGED channels

\* Faulty: the send does not wait for room.
PublishAnyway ==
  /\ pc = "publish"
  /\ pblock' = pblock + 1
  /\ pc' = "restart"
  /\ UNCHANGED <<jobs, sop, sblock>>

\* The send to pblock, which ManageConnections empties.
Publish ==
  /\ pc = "publish"
  /\ pblock < OutCap
  /\ pblock' = pblock + 1
  /\ pc' = "restart"
  /\ UNCHANGED <<jobs, sop, sblock>>

\* Faulty: a next job is left to the default case, which starts the first only.
RestartNothing ==
  /\ pc = "restart"
  /\ pc' = "select"
  /\ UNCHANGED <<jobs, channels>>

Restart ==
  /\ pc = "restart"
  /\ \E j \in Jobs : Start(j)
  /\ pc' = "select"
  /\ UNCHANGED channels

SolverStep ==
  \/ FirstJob
  \/ TakeOp
  \/ TakeBlock
  \/ \E w \in Workers : TakeSolution(w)
  \/ Publish
  \/ Restart

\* One turn of a worker's loop: it looks at done, then tries a nonce.
Find(j, w) ==
  /\ pc # "exited"
  /\ worker[j][w] = "searching"
  /\ worker' = [worker EXCEPT ![j][w] = "found"]
  /\ UNCHANGED <<pc, current, done, solved, channels>>

Stop(j, w) ==
  /\ pc # "exited"
  /\ worker[j][w] = "searching"
  /\ done[j]
  /\ worker' = [worker EXCEPT ![j][w] = "ended"]
  /\ UNCHANGED <<pc, current, done, solved, channels>>

\* A send on a closed channel panics, and the worker recovers.
RecoverSend(j, w) ==
  /\ pc # "exited"
  /\ worker[j][w] = "found"
  /\ solved[j]
  /\ worker' = [worker EXCEPT ![j][w] = "ended"]
  /\ UNCHANGED <<pc, current, done, solved, channels>>

\* PropagateOp, Draw and Delete.
SendOp ==
  /\ pc # "exited"
  /\ sop < OpCap
  /\ sop' = sop + 1
  /\ UNCHANGED <<pc, jobs, sblock, pblock>>

\* PropagateBlock.
SendBlock ==
  /\ pc # "exited"
  /\ sblock < BlockCap
  /\ sblock' = sblock + 1
  /\ UNCHANGED <<pc, jobs, sop, pblock>>

\* Faulty: blocks are propagated while ProblemSolver waits for messages only.
PropagatePeersBetween ==
  /\ pc = "select"
  /\ pblock > 0
  /\ pblock' = pblock - 1
  /\ UNCHANGED <<pc, jobs, sop, sblock>>

\* ManageConnections takes a block to propagate.
PropagatePeers ==
  /\ pc # "exited"
  /\ pblock > 0
  /\ pblock' = pblock - 1
  /\ UNCHANGED <<pc, jobs, sop, sblock>>

Exited == pc = "exited" /\ UNCHANGED vars

WorkerEnds(j, w) == Stop(j, w) \/ RecoverSend(j, w)

Next ==
  \/ SolverStep
  \/ \E j \in Jobs, w \in Workers : Find(j, w) \/ Stop(j, w) \/ RecoverSend(j, w)
  \/ SendOp
  \/ SendBlock
  \/ PropagatePeers
  \/ Exited

\* The scheduler runs every goroutine, select does not pass over a case that
\* stays ready, and ManageConnections keeps emptying pblock.
Fairness ==
  /\ WF_vars(SolverStep)
  /\ SF_vars(TakeOp)
  /\ SF_vars(TakeBlock)
  /\ \A j \in Jobs, w \in Workers : WF_vars(WorkerEnds(j, w))
  /\ WF_vars(PropagatePeers)

Spec == Init /\ [][Next]_vars /\ Fairness

-----------------------------------------------------------------------------
(* Properties                                                              *)

\* Type invariant.
TypeOK ==
  /\ pc \in {"select", "publish", "restart", "exited"}
  /\ current \in Jobs \cup {NoJob}
  /\ worker \in [Jobs -> [Workers -> {"searching", "found", "ended"}]]
  /\ done \in [Jobs -> BOOLEAN]
  /\ solved \in [Jobs -> BOOLEAN]
  /\ sop \in 0..OpCap /\ sblock \in 0..BlockCap /\ pblock \in 0..OutCap

\* ProblemSolver closes each channel once.  Only a message that is there before
\* its first turn of the loop makes it close a nil channel (ink-miner.go:1021,
\* 1046, 1067, against 1085-1087).
PanicOnlyAtStart == pc = "exited" => current = NoJob

\* A miner that has started never stops searching: when ProblemSolver waits,
\* a worker of its job is searching or about to hand over a solution
\* (ink-miner.go:1032-1036, 1056-1060, 1081).
AlwaysMining ==
  pc = "select" /\ current # NoJob => \E w \in Workers : worker[current][w] # "ended"

\* The workers of every other job have been told to end, and none of them can
\* hand over a solution any more: a stale block is never inserted
\* (ink-miner.go:1021-1025, 1046-1050, 1067-1070, pow.go:26-37).
OneJobOpen ==
  \A j \in Jobs : ~Ended(j) /\ (j # current \/ pc \in {"publish", "restart"})
                    => done[j] /\ solved[j]

\* No worker outlives its job: one that searches sees done, one that blocks in
\* its send is woken by the close of solved (pow.go:24-42).
WorkersEnd ==
  \A j \in Jobs, w \in Workers :
    (j # current /\ worker[j][w] # "ended") ~> (worker[j][w] = "ended" \/ pc = "exited")

\* Operations that keep arriving keep being taken, although each one restarts
\* the search, and although ProblemSolver blocks on pblock after a solution
\* (ink-miner.go:1012-1015, 1074).
OpsAreTaken == []<>(sop = 0 \/ pc = "exited") \/ []<><<TakeOp>>_vars
=============================================================================
