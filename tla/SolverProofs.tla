---------------------------- MODULE SolverProofs ----------------------------
(***************************************************************************)
(* ProblemSolver closes its channels once, never stops mining and leaves   *)
(* no other job open, for any number of workers and jobs.                  *)
(***************************************************************************)
EXTENDS Solver, TLAPS

(***************************************************************************)
(* The inductive invariant: while ProblemSolver waits its job is open and  *)
(* complete, from a solution to the next job it is closed, and every job   *)
(* before it is closed.                                                    *)
(***************************************************************************)

CurrentOpen ==
  pc = "select" /\ current # NoJob =>
    /\ ~done[current] /\ ~solved[current]
    /\ \A w \in Workers : worker[current][w] # "ended"

CurrentClosed ==
  pc \in {"publish", "restart"} => current # NoJob /\ done[current] /\ solved[current]

OthersClosed ==
  \A j \in Jobs : j # current /\ ~Ended(j) => done[j] /\ solved[j]

SInv == TypeOK /\ CurrentOpen /\ CurrentClosed /\ OthersClosed /\ PanicOnlyAtStart

LEMMA SInit == Init => SInv
BY CapAssumption, JobsAssumption
   DEF Init, SInv, TypeOK, CurrentOpen, CurrentClosed, OthersClosed, PanicOnlyAtStart, Ended

\* A new job is open, and the job it replaces is closed.
LEMMA StartKeeps ==
  ASSUME SInv, NEW j \in Jobs, Start(j), pc' = "select",
         sop' \in 0..OpCap, sblock' \in 0..BlockCap, pblock' \in 0..OutCap
  PROVE  SInv'
<1>1. /\ TypeOK
      /\ \A i \in Jobs : i # current /\ ~Ended(i) => done[i] /\ solved[i]
  BY DEF SInv, OthersClosed
<1>2. /\ current' = j /\ j # current
      /\ worker' = [worker EXCEPT ![j] = [w \in Workers |-> "searching"]]
      /\ done' = [i \in Jobs |-> IF i = j THEN FALSE ELSE i = current \/ done[i]]
      /\ solved' = [i \in Jobs |-> IF i = j THEN FALSE ELSE i = current \/ solved[i]]
  BY DEF Start
<1>3. TypeOK'
  <2>1. worker' \in [Jobs -> [Workers -> {"searching", "found", "ended"}]]
    BY <1>1, <1>2 DEF TypeOK
  <2>2. done' \in [Jobs -> BOOLEAN] /\ solved' \in [Jobs -> BOOLEAN]
    BY <1>1, <1>2 DEF TypeOK
  <2> QED
    BY <1>2, <2>1, <2>2 DEF TypeOK
<1>4. CurrentOpen'
  BY <1>1, <1>2, JobsAssumption DEF CurrentOpen, TypeOK
<1>5. OthersClosed'
  <2> SUFFICES ASSUME NEW i \in Jobs, i # j, ~Ended(i)'
               PROVE  done'[i] /\ solved'[i]
    BY <1>2 DEF OthersClosed
  <2>1. worker'[i] = worker[i]
    BY <1>1, <1>2 DEF TypeOK
  <2>2. ~Ended(i)
    BY <2>1 DEF Ended
  <2> QED
    BY <1>1, <1>2, <2>2
<1> QED
  BY <1>3, <1>4, <1>5 DEF SInv, CurrentClosed, PanicOnlyAtStart

\* With an open job, ProblemSolver closes and replaces it.
LEMMA ReplaceKeeps ==
  ASSUME SInv, pc = "select", Replace,
         sop' \in 0..OpCap, sblock' \in 0..BlockCap, pblock' \in 0..OutCap
  PROVE  SInv'
<1>1. CASE CanClose /\ (\E j \in Jobs : Start(j)) /\ UNCHANGED pc
  BY <1>1, StartKeeps
<1>2. CASE ~CanClose /\ Panic
  <2>1. current = NoJob
    BY <1>2 DEF SInv, CurrentOpen, CanClose
  <2>2. pc' = "exited" /\ UNCHANGED jobs
    BY <1>2 DEF Panic
  <2> QED
    BY <2>1, <2>2 DEF SInv, TypeOK, CurrentOpen, CurrentClosed, OthersClosed, PanicOnlyAtStart,
                      Ended, jobs
<1> QED
  BY <1>1, <1>2 DEF Replace

\* A worker that ends or finds a solution leaves an open job complete.
LEMMA WorkerKeeps ==
  ASSUME SInv, NEW j \in Jobs, NEW w \in Workers, pc # "exited",
         NEW s \in {"found", "ended"},
         s = "ended" => done[j] \/ solved[j],
         worker[j][w] # "ended",
         worker' = [worker EXCEPT ![j][w] = s],
         UNCHANGED <<pc, current, done, solved, channels>>
  PROVE  SInv'
<1>1. TypeOK /\ CurrentOpen /\ CurrentClosed /\ OthersClosed /\ PanicOnlyAtStart
  BY DEF SInv
<1>2. \A i \in Jobs, v \in Workers :
        worker'[i][v] = IF i = j /\ v = w THEN s ELSE worker[i][v]
  BY <1>1 DEF TypeOK
<1>3. TypeOK'
  <2>1. worker' \in [Jobs -> [Workers -> {"searching", "found", "ended"}]]
    BY <1>1 DEF TypeOK
  <2> QED
    BY <1>1, <2>1 DEF TypeOK, channels
<1>4. CurrentOpen'
  <2> SUFFICES ASSUME pc = "select", current # NoJob
               PROVE  /\ ~done[current] /\ ~solved[current]
                      /\ \A v \in Workers : worker'[current][v] # "ended"
    BY DEF CurrentOpen
  <2>1. /\ ~done[current] /\ ~solved[current]
        /\ \A v \in Workers : worker[current][v] # "ended"
    BY <1>1 DEF CurrentOpen
  <2>2. current \in Jobs
    BY <1>1 DEF TypeOK
  <2> QED
    BY <1>2, <2>1, <2>2
<1>5. OthersClosed'
  <2> SUFFICES ASSUME NEW i \in Jobs, i # current, ~Ended(i)'
               PROVE  done[i] /\ solved[i]
    BY DEF OthersClosed
  <2>1. ~Ended(i)
    BY <1>2 DEF Ended
  <2> QED
    BY <1>1, <2>1 DEF OthersClosed
<1>6. CurrentClosed' /\ PanicOnlyAtStart'
  BY <1>1 DEF CurrentClosed, PanicOnlyAtStart
<1> QED
  BY <1>3, <1>4, <1>5, <1>6 DEF SInv

LEMMA SNext == SInv /\ [Next]_vars => SInv'
<1> SUFFICES ASSUME SInv, [Next]_vars
             PROVE  SInv'
  OBVIOUS
<1> USE CapAssumption
<1>1. CASE FirstJob
  BY <1>1, StartKeeps DEF FirstJob, channels, SInv, TypeOK
<1>2. CASE TakeOp
  <2>1. sop' \in 0..OpCap /\ sblock' \in 0..BlockCap /\ pblock' \in 0..OutCap
    BY <1>2 DEF TakeOp, SInv, TypeOK
  <2> QED
    BY <1>2, <2>1, ReplaceKeeps DEF TakeOp
<1>3. CASE TakeBlock
  <2>1. sop' \in 0..OpCap /\ sblock' \in 0..BlockCap /\ pblock' \in 0..OutCap
    BY <1>3 DEF TakeBlock, SInv, TypeOK
  <2> QED
    BY <1>3, <2>1, ReplaceKeeps DEF TakeBlock
<1>4. ASSUME NEW w \in Workers, TakeSolution(w) PROVE SInv'
  <2>1. current \in Jobs /\ CanClose
    BY <1>4 DEF TakeSolution, SInv, TypeOK, CurrentOpen, CanClose
  <2>2. /\ pc' = "publish" /\ current' = current
        /\ worker' = [worker EXCEPT ![current][w] = "ended"]
        /\ done' = [done EXCEPT ![current] = TRUE]
        /\ solved' = [solved EXCEPT ![current] = TRUE]
        /\ UNCHANGED channels
    BY <1>4, <2>1 DEF TakeSolution
  <2>3. TypeOK'
    <3>1. worker' \in [Jobs -> [Workers -> {"searching", "found", "ended"}]]
      BY <2>1, <2>2 DEF SInv, TypeOK
    <3> QED
      BY <2>2, <3>1 DEF SInv, TypeOK, channels
  <2>4. CurrentClosed'
    BY <2>1, <2>2 DEF CurrentClosed, SInv, TypeOK, CanClose
  <2>5. OthersClosed'
    <3> SUFFICES ASSUME NEW i \in Jobs, i # current, ~Ended(i)'
                 PROVE  done'[i] /\ solved'[i]
      BY <2>2 DEF OthersClosed
    <3>1. worker'[i] = worker[i] /\ done'[i] = done[i] /\ solved'[i] = solved[i]
      BY <2>1, <2>2 DEF SInv, TypeOK
    <3>2. ~Ended(i)
      BY <3>1 DEF Ended
    <3> QED
      BY <3>1, <3>2 DEF SInv, OthersClosed
  <2> QED
    BY <2>2, <2>3, <2>4, <2>5 DEF SInv, CurrentOpen, PanicOnlyAtStart
<1>5. CASE Publish
  <2>1. pblock' \in 0..OutCap
    BY <1>5 DEF Publish, SInv, TypeOK
  <2> QED
    BY <1>5, <2>1 DEF Publish, jobs, SInv, TypeOK, CurrentOpen, CurrentClosed, OthersClosed,
                      PanicOnlyAtStart, Ended
<1>6. CASE Restart
  BY <1>6, StartKeeps DEF Restart, channels, SInv, TypeOK
<1>7. ASSUME NEW j \in Jobs, NEW w \in Workers, Find(j, w) \/ Stop(j, w) \/ RecoverSend(j, w)
      PROVE  SInv'
  <2>1. CASE Find(j, w)
    BY <2>1, WorkerKeeps DEF Find
  <2>2. CASE Stop(j, w)
    BY <2>2, WorkerKeeps DEF Stop
  <2>3. CASE RecoverSend(j, w)
    BY <2>3, WorkerKeeps DEF RecoverSend
  <2> QED
    BY <1>7, <2>1, <2>2, <2>3
<1>8. CASE SendOp \/ SendBlock \/ PropagatePeers
  <2>1. sop' \in 0..OpCap /\ sblock' \in 0..BlockCap /\ pblock' \in 0..OutCap
    BY <1>8 DEF SendOp, SendBlock, PropagatePeers, SInv, TypeOK
  <2>2. UNCHANGED pc /\ UNCHANGED jobs
    BY <1>8 DEF SendOp, SendBlock, PropagatePeers
  <2> QED
    BY <2>1, <2>2 DEF jobs, SInv, TypeOK, CurrentOpen, CurrentClosed, OthersClosed,
                      PanicOnlyAtStart, Ended
<1>9. CASE UNCHANGED vars
  BY <1>9 DEF vars, SInv, TypeOK, CurrentOpen, CurrentClosed, OthersClosed, PanicOnlyAtStart,
              Ended
<1> QED
  BY <1>1, <1>2, <1>3, <1>4, <1>5, <1>6, <1>7, <1>8, <1>9 DEF Next, SolverStep, Exited

\* The inductive invariant holds of the solver.
THEOREM SolverInvariant == Spec => []SInv
BY SInit, SNext, PTL DEF Spec

\* The types of ProblemSolver's channels and jobs (TypeOK).
THEOREM SolverTypes == Spec => []TypeOK
BY SolverInvariant, PTL DEF SInv

\* ProblemSolver panics on a nil or closed channel only before its first job.
THEOREM NoLatePanic == Spec => []PanicOnlyAtStart
BY SolverInvariant, PTL DEF SInv

\* While ProblemSolver waits in select, its job has a worker that searches or
\* hands over a solution.
THEOREM NeverIdle == Spec => []AlwaysMining
<1>1. SInv => AlwaysMining
  BY JobsAssumption DEF SInv, CurrentOpen, AlwaysMining
<1> QED
  BY <1>1, SolverInvariant, PTL

\* A job that was replaced, or is about to be, can hand over no solution.
THEOREM StaleJobsClosed == Spec => []OneJobOpen
<1>1. SInv => OneJobOpen
  BY DEF SInv, CurrentClosed, OthersClosed, OneJobOpen
<1> QED
  BY <1>1, SolverInvariant, PTL
=============================================================================
