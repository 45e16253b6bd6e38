--------------------------- MODULE RegistryProofs ---------------------------
(***************************************************************************)
(* What the server's table and its miners keep, for any keys, addresses    *)
(* and intervals.                                                          *)
(***************************************************************************)
EXTENDS Registry, SequenceTheorems, TLAPS

Entries == [Address : Addresses, RecentHeartbeat : Nat]

ServerTypes ==
  /\ all \in [Keys -> Entries \cup {NoMiner}]
  /\ sleeps \in [Keys -> Seq(0..HeartBeatInterval)]

MinerTypes ==
  /\ phase \in [Keys -> {"down", "starting", "idle", "beating", "returning"}]
  /\ reply \in [Keys -> {"none", "ok", "error"}]
  /\ settings \in [Keys -> {"unset", "zero", "received"}]
  /\ ticking \in [Keys -> BOOLEAN]
  /\ connected \in [Keys -> BOOLEAN]
  /\ listening \in [Keys -> Addresses \cup {NoMiner}]
  /\ starts \in 0..MaxStarts
  /\ silence \in [Keys -> 0..(HeartBeatInterval + 1)]

\* A process listens on an address of its own, one that is down has nothing, and
\* there is an answer only to a call under way.
Processes ==
  /\ \A k \in Keys : phase[k] \in {"down", "idle"} => reply[k] = "none"
  /\ \A k \in Keys : (phase[k] = "down") <=> (listening[k] = NoMiner)
  /\ \A j \in Keys : \A k \in Keys :
       j # k /\ Up(j) => listening[j] # listening[k]
  /\ \A k \in Keys : ~Up(k) =>
       /\ ~connected[k] /\ ~ticking[k]
       /\ settings[k] = "unset"
       /\ silence[k] = HeartBeatInterval + 1

\* A monitor looks at its entry within two intervals of the last heartbeat.
Timed ==
  \A k \in Keys : Registered(k) =>
    all[k].RecentHeartbeat + sleeps[k][1] <= 2 * HeartBeatInterval

\* k holds its settings, or is about to.
Holds(k) ==
  settings[k] = "received" \/ (phase[k] \in {"starting", "returning"} /\ reply[k] = "ok")

\* The address of such a miner is in its own entry and in no other.
Owned ==
  \A k \in Keys : Holds(k) =>
    \A j \in Keys : Registered(j) => ((all[j].Address = listening[k]) <=> (j = k))

\* The server counts no more time since a heartbeat than the miner does.
Answered ==
  \A k \in Keys : connected[k] /\ silence[k] <= HeartBeatInterval =>
    Registered(k) /\ all[k].RecentHeartbeat <= silence[k]

\* A miner is only told that it is unknown when it is.
Dropped ==
  \A k \in Keys : connected[k] =>
    /\ phase[k] = "beating" /\ reply[k] = "error" => ~Registered(k)
    /\ phase[k] = "returning" /\ reply[k] = "none" => ~Registered(k)

\* A miner with a ticker and a connection has its settings and keeps them.
Kept ==
  \A k \in Keys : ticking[k] /\ connected[k] =>
    settings[k] = "received" /\ ~(phase[k] = "returning" /\ reply[k] = "error")

Types == ServerTypes /\ MinerTypes /\ Processes

RInv == Types /\ Watched /\ Timed /\ Owned /\ Answered /\ Dropped /\ Kept

USE RegistryAssumption

-----------------------------------------------------------------------------
(* Steps of the server                                                     *)

\* One look of a monitor that has an entry.
LEMMA GoneIsEmpty ==
  ASSUME ServerTypes, NEW k \in Keys, Len(sleeps[k]) = 1, Gone(k, 1)
  PROVE  sleeps' = [sleeps EXCEPT ![k] = <<>>]
<1>1. sleeps[k] \in Seq(0..HeartBeatInterval)
  BY DEF ServerTypes
<1>2. SubSeq(sleeps[k], 1, 1 - 1) = <<>>
  BY SubSeqEmpty
<1>3. SubSeq(sleeps[k], 1 + 1, Len(sleeps[k])) = <<>>
  BY <1>1, SubSeqEmpty
<1>4. SubSeq(sleeps[k], 1, 1 - 1) \o SubSeq(sleeps[k], 1 + 1, Len(sleeps[k])) = <<>>
  BY <1>2, <1>3
<1> QED
  BY <1>4, Zenon DEF Gone

\* A heartbeat is sent.
LEMMA ServerHeartBeatKeeps ==
  ASSUME RInv, NEW k \in Keys, ServerHeartBeat(k)
  PROVE  RInv'
<1> USE DEF RInv, Types
<1>1. ServerTypes'
  BY DEF ServerTypes, Entries, MinerTypes, Processes, Up, ServerHeartBeat, Idle, server
<1>2. MinerTypes'
  BY DEF MinerTypes, Processes, Up, ServerHeartBeat, Idle, server
<1>3. Processes'
  BY DEF MinerTypes, Processes, Up, ServerHeartBeat, Idle, server
<1>4. Watched'
  BY DEF ServerTypes, Watched, Registered, ServerHeartBeat, Idle, server
<1>5. Timed'
  BY DEF ServerTypes, Entries, Timed, Registered, Watched, ServerHeartBeat, Idle, server
<1>6. Owned'
  BY DEF ServerTypes, MinerTypes, Entries, Processes, Up, Owned, Holds, Registered, ServerHeartBeat, Idle, server
<1>7. Answered'
  BY DEF ServerTypes, MinerTypes, Entries, Answered, Registered, Processes, Up, ServerHeartBeat, Idle, server
<1>8. Dropped'
  BY DEF ServerTypes, MinerTypes, Processes, Dropped, Registered, ServerHeartBeat, Idle, server
<1>9. Kept'
  BY DEF MinerTypes, Kept, Processes, Up, ServerHeartBeat, Idle, server
<1> QED
  BY <1>1, <1>2, <1>3, <1>4, <1>5, <1>6, <1>7, <1>8, <1>9

\* A process starts.
LEMMA StartKeeps ==
  ASSUME RInv, NEW k \in Keys, Start(k)
  PROVE  RInv'
<1> USE DEF RInv, Types
<1>1. ServerTypes'
  BY DEF ServerTypes, Entries, MinerTypes, Processes, Up, Start, ConnectToServer, server
<1>2. MinerTypes'
  BY DEF MinerTypes, Processes, Up, Start, ConnectToServer, server
<1>3. Processes'
  BY DEF MinerTypes, Processes, Up, Start, ConnectToServer, server
<1>4. Watched'
  BY DEF ServerTypes, Watched, Registered, Start, ConnectToServer, server
<1>5. Timed'
  BY DEF ServerTypes, Entries, Timed, Registered, Watched, Start, ConnectToServer, server
<1>6. Owned'
  BY DEF ServerTypes, MinerTypes, Entries, Processes, Up, Owned, Holds, Registered, Start, ConnectToServer, server
<1>7. Answered'
  BY DEF ServerTypes, MinerTypes, Entries, Answered, Registered, Processes, Up, Start, ConnectToServer, server
<1>8. Dropped'
  BY DEF ServerTypes, MinerTypes, Dropped, Registered, Start, ConnectToServer, server
<1>9. Kept'
  BY DEF MinerTypes, Kept, Processes, Up, Start, ConnectToServer, server
<1> QED
  BY <1>1, <1>2, <1>3, <1>4, <1>5, <1>6, <1>7, <1>8, <1>9

\* A process ends.
LEMMA CrashKeeps ==
  ASSUME RInv, NEW k \in Keys, Crash(k)
  PROVE  RInv'
<1> USE DEF RInv, Types
<1>1. ServerTypes'
  BY DEF ServerTypes, Entries, MinerTypes, Processes, Up, Crash, server
<1>2. MinerTypes'
  BY DEF MinerTypes, Processes, Up, Crash, server
<1>3. Processes'
  BY DEF MinerTypes, Processes, Up, Crash, server
<1>4. Watched'
  BY DEF ServerTypes, Watched, Registered, Crash, server
<1>5. Timed'
  BY DEF ServerTypes, Entries, Timed, Registered, Watched, Crash, server
<1>6. Owned'
  BY DEF ServerTypes, MinerTypes, Entries, Processes, Up, Owned, Holds, Registered, Crash, server
<1>7. Answered'
  BY DEF ServerTypes, MinerTypes, Entries, Answered, Registered, Processes, Up, Crash, server
<1>8. Dropped'
  BY DEF ServerTypes, MinerTypes, Dropped, Registered, Crash, server
<1>9. Kept'
  BY DEF MinerTypes, Kept, Processes, Up, Crash, server
<1> QED
  BY <1>1, <1>2, <1>3, <1>4, <1>5, <1>6, <1>7, <1>8, <1>9

\* A connection breaks.
LEMMA DisconnectKeeps ==
  ASSUME RInv, NEW k \in Keys, Disconnect(k)
  PROVE  RInv'
<1> USE DEF RInv, Types
<1>1. ServerTypes'
  BY DEF ServerTypes, Entries, MinerTypes, Processes, Up, Disconnect, server
<1>2. MinerTypes'
  BY DEF MinerTypes, Processes, Up, Disconnect, server
<1>3. Processes'
  BY DEF MinerTypes, Processes, Up, Disconnect, server
<1>4. Watched'
  BY DEF ServerTypes, Watched, Registered, Disconnect, server
<1>5. Timed'
  BY DEF ServerTypes, Entries, Timed, Registered, Watched, Disconnect, server
<1>6. Owned'
  BY DEF ServerTypes, MinerTypes, Entries, Processes, Up, Owned, Holds, Registered, Disconnect, server
<1>7. Answered'
  BY DEF ServerTypes, MinerTypes, Entries, Answered, Registered, Processes, Up, Disconnect, server
<1>8. Dropped'
  BY DEF ServerTypes, MinerTypes, Dropped, Registered, Disconnect, server
<1>9. Kept'
  BY DEF MinerTypes, Kept, Processes, Up, Disconnect, server
<1> QED
  BY <1>1, <1>2, <1>3, <1>4, <1>5, <1>6, <1>7, <1>8, <1>9

\* The registration of Mine returns.
LEMMA StartedKeeps ==
  ASSUME RInv, NEW k \in Keys, Started(k)
  PROVE  RInv'
<1> USE DEF RInv, Types
<1>1. ServerTypes'
  BY DEF ServerTypes, Entries, MinerTypes, Processes, Up, Started, Received, Result, server
<1>2. MinerTypes'
  BY DEF MinerTypes, Processes, Up, Started, Received, Result, server
<1>3. Processes'
  BY DEF MinerTypes, Processes, Up, Started, Received, Result, server
<1>4. Watched'
  BY DEF ServerTypes, Watched, Registered, Started, Received, Result, server
<1>5. Timed'
  BY DEF ServerTypes, Entries, Timed, Registered, Watched, Started, Received, Result, server
<1>6. Owned'
  BY DEF ServerTypes, MinerTypes, Entries, Processes, Up, Owned, Holds, Registered, Started, Received, Result, server
<1>7. Answered'
  BY DEF ServerTypes, MinerTypes, Entries, Answered, Registered, Processes, Up, Started, Received, Result, server
<1>8. Dropped'
  BY DEF ServerTypes, MinerTypes, Dropped, Registered, Started, Received, Result, server
<1>9. Kept'
  BY DEF MinerTypes, Kept, Processes, Up, Started, Received, Result, server
<1> QED
  BY <1>1, <1>2, <1>3, <1>4, <1>5, <1>6, <1>7, <1>8, <1>9

\* The registration of ServerHeartBeat returns.
LEMMA ReturnedKeeps ==
  ASSUME RInv, NEW k \in Keys, Returned(k)
  PROVE  RInv'
<1> USE DEF RInv, Types
<1>1. ServerTypes'
  BY DEF ServerTypes, Entries, MinerTypes, Processes, Up, Returned, Received, Result, server
<1>2. MinerTypes'
  BY DEF MinerTypes, Processes, Up, Returned, Received, Result, server
<1>3. Processes'
  BY DEF MinerTypes, Processes, Up, Returned, Received, Result, server
<1>4. Watched'
  BY DEF ServerTypes, Watched, Registered, Returned, Received, Result, server
<1>5. Timed'
  BY DEF ServerTypes, Entries, Timed, Registered, Watched, Returned, Received, Result, server
<1>6. Owned'
  BY DEF ServerTypes, MinerTypes, Entries, Processes, Up, Owned, Holds, Registered, Returned, Received, Result, server
<1>7. Answered'
  BY DEF ServerTypes, MinerTypes, Entries, Answered, Registered, Processes, Up, Returned, Received, Result, server
<1>8. Dropped'
  BY DEF ServerTypes, MinerTypes, Dropped, Registered, Returned, Received, Result, server
<1>9. Kept'
  BY DEF MinerTypes, Kept, Processes, Up, Returned, Received, Result, server
<1> QED
  BY <1>1, <1>2, <1>3, <1>4, <1>5, <1>6, <1>7, <1>8, <1>9

\* A heartbeat returns.
LEMMA BeatenKeeps ==
  ASSUME RInv, NEW k \in Keys, Beaten(k)
  PROVE  RInv'
<1> USE DEF RInv, Types
<1>1. ServerTypes'
  BY DEF ServerTypes, Entries, MinerTypes, Processes, Up, Beaten, Result, server
<1>2. MinerTypes'
  BY DEF MinerTypes, Processes, Up, Beaten, Result, server
<1>3. Processes'
  BY DEF MinerTypes, Processes, Up, Beaten, Result, server
<1>4. Watched'
  BY DEF ServerTypes, Watched, Registered, Beaten, Result, server
<1>5. Timed'
  BY DEF ServerTypes, Entries, Timed, Registered, Watched, Beaten, Result, server
<1>6. Owned'
  BY DEF ServerTypes, MinerTypes, Entries, Processes, Up, Owned, Holds, Registered, Beaten, Result, server
<1>7. Answered'
  BY DEF ServerTypes, MinerTypes, Entries, Answered, Registered, Processes, Up, Beaten, Result, server
<1>8. Dropped'
  BY DEF ServerTypes, MinerTypes, Dropped, Registered, Beaten, Result, server
<1>9. Kept'
  BY DEF MinerTypes, Kept, Processes, Up, Beaten, Result, server
<1> QED
  BY <1>1, <1>2, <1>3, <1>4, <1>5, <1>6, <1>7, <1>8, <1>9

\* A miner is entered, under its address, with a monitor.
LEMMA EnterKeeps ==
  ASSUME RInv, NEW k \in Keys, Asks(k, {"starting", "returning"}),
         ~Registered(k), ~AddressAlreadyRegistered(listening[k]), Enter(k, "ok")
  PROVE  RInv'
<1> USE DEF RInv, Types
<1>1. listening[k] \in Addresses
  BY DEF Asks, MinerTypes, Processes
<1>2. all' = [all EXCEPT ![k] = [Address |-> listening[k], RecentHeartbeat |-> 0]]
  BY DEF Enter
<1>3. Len(sleeps[k]) = 0 /\ sleeps[k] \in Seq(0..HeartBeatInterval)
  BY DEF Watched, ServerTypes
<1>4. /\ Append(sleeps[k], 0) \in Seq(0..HeartBeatInterval)
      /\ Len(Append(sleeps[k], 0)) = 1
      /\ Append(sleeps[k], 0)[1] = 0
  BY <1>3
<1>5. sleeps' = [sleeps EXCEPT ![k] = Append(sleeps[k], 0)]
  BY DEF Enter
<1>6. /\ reply' = [reply EXCEPT ![k] = "ok"]
      /\ silence' = [silence EXCEPT ![k] = 0]
      /\ UNCHANGED <<phase, settings, ticking, connected, listening, starts>>
  BY DEF Enter, Answer
<1>7. ServerTypes'
  BY <1>1, <1>2, <1>4, <1>5 DEF ServerTypes, Entries
<1>8. MinerTypes'
  BY <1>6 DEF MinerTypes
<1>9. Processes'
  BY <1>6 DEF MinerTypes, Processes, Up, Asks
<1>10. Watched'
  <2>1. Registered(k)' /\ Len(sleeps'[k]) = 1
    BY <1>1, <1>2, <1>4, <1>5 DEF ServerTypes, Registered
  <2>2. \A j \in Keys \ {k} : all'[j] = all[j] /\ sleeps'[j] = sleeps[j]
    BY <1>2, <1>5 DEF ServerTypes
  <2> QED
    BY <2>1, <2>2 DEF Watched, Registered
<1>11. Timed'
  BY <1>2, <1>4, <1>5 DEF ServerTypes, Entries, Timed, Registered
<1>12. Owned'
  BY <1>1, <1>2, <1>6 DEF ServerTypes, MinerTypes, Entries, Processes, Up, Owned, Holds,
       Registered, Asks, AddressAlreadyRegistered
<1>13. Answered'
  BY <1>1, <1>2, <1>6 DEF ServerTypes, MinerTypes, Entries, Answered, Registered
<1>14. Dropped'
  BY <1>2, <1>6 DEF ServerTypes, MinerTypes, Dropped, Registered, Asks
<1>15. Kept'
  BY <1>6 DEF MinerTypes, Kept
<1> QED
  BY <1>7, <1>8, <1>9, <1>10, <1>11, <1>12, <1>13, <1>14, <1>15

\* Register refuses, and then nobody that has its settings asked.
LEMMA RegisterKeeps ==
  ASSUME RInv, NEW k \in Keys, Register(k)
  PROVE  RInv'
<1> USE DEF RInv, Types
<1>1. CASE KeyAlreadyRegistered(k) \/ AddressAlreadyRegistered(listening[k])
  <2>1. /\ UNCHANGED server
        /\ reply' = [reply EXCEPT ![k] = "error"]
        /\ UNCHANGED <<phase, settings, ticking, connected, listening, starts, silence>>
    BY <1>1 DEF Register, Answer
  <2>2. ServerTypes' /\ MinerTypes' /\ Watched' /\ Timed'
    BY <2>1 DEF server, ServerTypes, MinerTypes, Watched, Timed, Registered
  <2>3. Processes'
    BY <2>1 DEF MinerTypes, Processes, Up, Register, Asks
  <2>4. Owned'
    BY <2>1 DEF server, MinerTypes, Owned, Holds, Registered
  <2>5. Answered' /\ Dropped'
    BY <2>1 DEF server, MinerTypes, Answered, Dropped, Registered, Register, Asks
  <2>6. Kept'
    <3>1. ASSUME phase[k] = "returning", ticking[k], connected[k]
          PROVE  FALSE
      <4>1. ~Registered(k) /\ Holds(k)
        BY <3>1 DEF Dropped, Kept, Holds, Register, Asks
      <4>2. ~AddressAlreadyRegistered(listening[k])
        BY <4>1 DEF Owned, AddressAlreadyRegistered
      <4> QED
        BY <1>1, <4>1, <4>2 DEF KeyAlreadyRegistered
    <3> QED
      BY <2>1, <3>1 DEF MinerTypes, Kept
  <2> QED
    BY <2>2, <2>3, <2>4, <2>5, <2>6
<1>2. CASE ~(KeyAlreadyRegistered(k) \/ AddressAlreadyRegistered(listening[k]))
  BY <1>2, EnterKeeps DEF Register, KeyAlreadyRegistered
<1> QED
  BY <1>1, <1>2

\* A heartbeat is served.
LEMMA HeartBeatKeeps ==
  ASSUME RInv, NEW k \in Keys, HeartBeat(k)
  PROVE  RInv'
<1> USE DEF RInv, Types
<1>1. CASE Registered(k)
  <2>1. /\ all' = [all EXCEPT ![k].RecentHeartbeat = 0] /\ UNCHANGED sleeps
        /\ reply' = [reply EXCEPT ![k] = "ok"]
        /\ silence' = [silence EXCEPT ![k] = 0]
        /\ UNCHANGED <<phase, settings, ticking, connected, listening, starts>>
    BY <1>1 DEF HeartBeat, Answer
  <2>2. phase[k] = "beating"
    BY DEF HeartBeat, Asks
  <2>3. all[k] \in Entries
    BY <1>1 DEF ServerTypes, Registered
  <2>4. /\ all'[k] \in Entries /\ all'[k].Address = all[k].Address
        /\ all'[k].RecentHeartbeat = 0
        /\ \A j \in Keys \ {k} : all'[j] = all[j]
    BY <2>1, <2>3 DEF ServerTypes, Entries
  <2>5. \A j \in Keys : Registered(j)' <=> Registered(j)
    BY <1>1, <2>4 DEF Registered, Entries
  <2>6. ServerTypes'
    BY <2>1, <2>4 DEF ServerTypes
  <2>7. MinerTypes' /\ Watched'
    BY <2>1, <2>5 DEF MinerTypes, Watched
  <2>8. Processes'
    BY <2>1, <2>2 DEF MinerTypes, Processes, Up
  <2>9. Timed'
    <3>1. sleeps[k][1] \in 0..HeartBeatInterval
      BY <1>1 DEF ServerTypes, Watched
    <3> QED
      BY <2>1, <2>4, <2>5, <3>1 DEF Timed
  <2>10. Owned'
    BY <2>1, <2>2, <2>4, <2>5 DEF MinerTypes, Owned, Holds
  <2>11. Answered'
    BY <1>1, <2>1, <2>4, <2>5 DEF MinerTypes, Answered
  <2>12. Dropped' /\ Kept'
    BY <2>1, <2>2, <2>5 DEF MinerTypes, Dropped, Kept
  <2> QED
    BY <2>6, <2>7, <2>8, <2>9, <2>10, <2>11, <2>12
<1>2. CASE ~Registered(k)
  <2>1. /\ UNCHANGED server
        /\ reply' = [reply EXCEPT ![k] = "error"]
        /\ UNCHANGED <<phase, settings, ticking, connected, listening, starts, silence>>
    BY <1>2 DEF HeartBeat, Answer, server
  <2>2. phase[k] = "beating"
    BY DEF HeartBeat, Asks
  <2>3. ServerTypes' /\ MinerTypes' /\ Watched' /\ Timed'
    BY <2>1 DEF server, ServerTypes, MinerTypes, Watched, Timed, Registered
  <2>4. Processes'
    BY <2>1, <2>2 DEF MinerTypes, Processes, Up
  <2>5. Owned' /\ Answered'
    BY <2>1, <2>2 DEF server, MinerTypes, Owned, Holds, Answered, Registered
  <2>6. Dropped' /\ Kept'
    BY <1>2, <2>1, <2>2 DEF server, MinerTypes, Dropped, Kept, Registered
  <2> QED
    BY <2>3, <2>4, <2>5, <2>6
<1> QED
  BY <1>1, <1>2

\* A monitor finds its entry overdue, and both go; or it sleeps again.
LEMMA MonitorKeeps ==
  ASSUME RInv, NEW k \in Keys, NEW i \in DOMAIN sleeps[k], Monitor(k, i)
  PROVE  RInv'
<1> USE DEF RInv, Types
<1>1. sleeps[k] \in Seq(0..HeartBeatInterval) /\ i \in 1..Len(sleeps[k])
  BY DEF ServerTypes
<1>2. Registered(k) /\ i = 1 /\ Len(sleeps[k]) = 1
  <2>1. Len(sleeps[k]) >= 1
    BY <1>1
  <2>2. Len(sleeps[k]) = IF Registered(k) THEN 1 ELSE 0
    BY DEF Watched
  <2> QED
    BY <1>1, <2>1, <2>2
<1>3. all[k] \in Entries
  BY <1>2 DEF ServerTypes, Registered
<1>4. UNCHANGED miner /\ UNCHANGED silence
  BY DEF Monitor
<1>5. MinerTypes' /\ Processes' /\ Kept'
  BY <1>4 DEF miner, MinerTypes, Processes, Up, Kept
<1>6. CASE Overdue(k)
  <2>1. all' = [all EXCEPT ![k] = NoMiner] /\ Gone(k, 1)
    BY <1>2, <1>6 DEF Monitor
  <2>2. sleeps' = [sleeps EXCEPT ![k] = <<>>]
    BY <1>2, <2>1, GoneIsEmpty
  <2>3. ServerTypes'
    BY <2>1, <2>2 DEF ServerTypes
  <2>4. Watched' /\ Timed'
    BY <2>1, <2>2 DEF ServerTypes, Watched, Timed, Registered
  <2>5. Owned' /\ Dropped'
    BY <1>4, <2>1 DEF miner, ServerTypes, Owned, Holds, Dropped, Registered
  <2>6. ~(connected[k] /\ silence[k] <= HeartBeatInterval)
    BY <1>3, <1>6 DEF Answered, Overdue, MinerTypes, Entries
  <2>7. Answered'
    BY <1>4, <2>1, <2>6 DEF miner, ServerTypes, Answered, Registered
  <2> QED
    BY <1>5, <2>3, <2>4, <2>5, <2>7
<1>7. CASE ~Overdue(k)
  <2>1. UNCHANGED all /\ sleeps' = [sleeps EXCEPT ![k][1] = HeartBeatInterval]
    BY <1>2, <1>7 DEF Monitor, Asleep
  <2>2. /\ sleeps'[k] \in Seq(0..HeartBeatInterval) /\ Len(sleeps'[k]) = 1
        /\ sleeps'[k][1] = HeartBeatInterval
        /\ \A j \in Keys \ {k} : sleeps'[j] = sleeps[j]
    <3>1. sleeps' = [sleeps EXCEPT ![k] = [sleeps[k] EXCEPT ![1] = HeartBeatInterval]]
      BY <2>1
    <3>2. /\ [sleeps[k] EXCEPT ![1] = HeartBeatInterval] \in Seq(0..HeartBeatInterval)
          /\ Len([sleeps[k] EXCEPT ![1] = HeartBeatInterval]) = 1
          /\ [sleeps[k] EXCEPT ![1] = HeartBeatInterval][1] = HeartBeatInterval
      BY <1>1, <1>2
    <3> QED
      BY <3>1, <3>2 DEF ServerTypes
  <2>3. ServerTypes'
    BY <2>1, <2>2 DEF ServerTypes
  <2>4. Watched'
    BY <1>2, <2>1, <2>2 DEF Watched, Registered
  <2>5. Timed'
    BY <1>3, <1>7, <2>1, <2>2 DEF Timed, Registered, Overdue, Entries
  <2>6. Owned' /\ Answered' /\ Dropped'
    BY <1>4, <2>1 DEF miner, Owned, Holds, Answered, Dropped, Registered
  <2> QED
    BY <1>5, <2>3, <2>4, <2>5, <2>6
<1> QED
  BY <1>6, <1>7

\* The server starts again.
LEMMA RestartKeeps ==
  ASSUME RInv, RestartServer
  PROVE  RInv'
<1> USE DEF RInv, Types, RestartServer
<1>1. ServerTypes' /\ Watched' /\ Timed'
  BY DEF ServerTypes, Watched, Timed, Registered
<1>2. MinerTypes' /\ Processes'
  BY DEF MinerTypes, Processes, Up
<1>3. Owned' /\ Answered' /\ Dropped' /\ Kept'
  BY DEF Owned, Answered, Dropped, Kept, Registered
<1> QED
  BY <1>1, <1>2, <1>3

\* Time passes, and no monitor is due.
LEMMA TickKeeps ==
  ASSUME RInv, Tick
  PROVE  RInv'
<1> USE DEF RInv, Types
<1>1. \A k \in Keys :
        /\ Registered(k)' <=> Registered(k)
        /\ Registered(k) => /\ all[k] \in Entries /\ all'[k] \in Entries
                            /\ all'[k].Address = all[k].Address
                            /\ all'[k].RecentHeartbeat = all[k].RecentHeartbeat + 1
        /\ ~Registered(k) => all'[k] = NoMiner
  <2> TAKE k \in Keys
  <2>1. CASE Registered(k)
    <3>1. all[k] \in Entries
      BY <2>1 DEF ServerTypes, Registered
    <3>2. all'[k] = [all[k] EXCEPT !.RecentHeartbeat = @ + 1]
      BY <2>1 DEF Tick
    <3>3. /\ all'[k] \in Entries /\ all'[k].Address = all[k].Address
          /\ all'[k].RecentHeartbeat = all[k].RecentHeartbeat + 1
      BY <3>1, <3>2 DEF Entries
    <3> QED
      BY <2>1, <3>1, <3>3 DEF Registered, Entries
  <2>2. CASE ~Registered(k)
    BY <2>2 DEF Tick, Registered
  <2> QED
    BY <2>1, <2>2
<1>2. \A k \in Keys :
        /\ sleeps'[k] \in Seq(0..HeartBeatInterval)
        /\ Len(sleeps'[k]) = Len(sleeps[k])
        /\ \A i \in 1..Len(sleeps[k]) : sleeps'[k][i] = sleeps[k][i] - 1
  <2> TAKE k \in Keys
  <2>1. sleeps[k] \in Seq(0..HeartBeatInterval)
    BY DEF ServerTypes
  <2>2. \A i \in 1..Len(sleeps[k]) : sleeps[k][i] \in 0..HeartBeatInterval /\ sleeps[k][i] > 0
    BY <2>1 DEF Tick
  <2>3. sleeps'[k] = [i \in 1..Len(sleeps[k]) |-> sleeps[k][i] - 1]
    BY <2>1 DEF Tick
  <2> QED
    BY <2>1, <2>2, <2>3
<1>3. ServerTypes'
  <2>1. all' \in [Keys -> Entries \cup {NoMiner}]
    BY <1>1 DEF Tick
  <2>2. sleeps' \in [Keys -> Seq(0..HeartBeatInterval)]
    BY <1>2 DEF Tick
  <2> QED
    BY <2>1, <2>2 DEF ServerTypes
<1>4. UNCHANGED miner
  BY DEF Tick
<1>5. /\ silence' \in [Keys -> 0..(HeartBeatInterval + 1)]
      /\ \A k \in Keys : silence'[k] = IF silence[k] > HeartBeatInterval
                                       THEN silence[k] ELSE silence[k] + 1
  BY DEF Tick, MinerTypes
<1>6. MinerTypes' /\ Processes' /\ Kept'
  BY <1>4, <1>5 DEF miner, MinerTypes, Processes, Up, Kept
<1>7. Watched'
  BY <1>1, <1>2 DEF Watched
<1>8. Timed'
  <2> SUFFICES ASSUME NEW k \in Keys, Registered(k)
               PROVE  all'[k].RecentHeartbeat + sleeps'[k][1] <= 2 * HeartBeatInterval
    BY <1>1 DEF Timed
  <2>1. Len(sleeps[k]) = 1 /\ sleeps[k][1] \in 0..HeartBeatInterval
    BY DEF Watched, ServerTypes
  <2>2. all[k].RecentHeartbeat \in Nat
    BY <1>1 DEF Entries
  <2>3. all[k].RecentHeartbeat + sleeps[k][1] <= 2 * HeartBeatInterval
    BY DEF Timed
  <2>4. sleeps'[k][1] = sleeps[k][1] - 1
    <3>1. 1 \in 1..Len(sleeps[k])
      BY <2>1
    <3> QED
      BY <1>2, <3>1, Zenon
  <2> QED
    BY <1>1, <2>1, <2>2, <2>3, <2>4
<1>9. Owned' /\ Dropped'
  BY <1>1, <1>4 DEF miner, Owned, Holds, Dropped
<1>10. Answered'
  BY <1>1, <1>4, <1>5 DEF miner, MinerTypes, Answered, Entries
<1> QED
  BY <1>3, <1>6, <1>7, <1>8, <1>9, <1>10

-----------------------------------------------------------------------------
(* Theorems                                                                *)

LEMMA RegistryInit == Init => RInv
BY DEF Init, RInv, Types, ServerTypes, MinerTypes, Processes, Up, Watched, Timed, Owned, Holds,
       Answered, Dropped, Kept, Registered

LEMMA RegistryStep == RInv /\ [Next]_vars => RInv'
<1> SUFFICES ASSUME RInv, [Next]_vars
             PROVE  RInv'
  OBVIOUS
<1>1. ASSUME NEW k \in Keys, Serve(k)
      PROVE  RInv'
  BY <1>1, RegisterKeeps, HeartBeatKeeps DEF Serve
<1>2. ASSUME NEW k \in Keys, Monitors(k)
      PROVE  RInv'
  BY <1>2, MonitorKeeps DEF Monitors
<1>3. ASSUME NEW k \in Keys, MinerStep(k)
      PROVE  RInv'
  BY <1>3, StartedKeeps, BeatenKeeps, ReturnedKeeps DEF MinerStep
<1>4. ASSUME NEW k \in Keys, Start(k) \/ ServerHeartBeat(k) \/ Crash(k) \/ Disconnect(k)
      PROVE  RInv'
  BY <1>4, StartKeeps, ServerHeartBeatKeeps, CrashKeeps, DisconnectKeeps
<1>5. CASE UNCHANGED vars
  BY <1>5 DEF vars, server, miner, RInv, Types, ServerTypes, MinerTypes, Processes, Up, Watched,
       Timed, Owned, Holds, Answered, Dropped, Kept, Registered
<1> QED
  BY <1>1, <1>2, <1>3, <1>4, <1>5, RestartKeeps, TickKeeps DEF Next

\* The state of the server and of the miners keeps its types, and the facts
\* that the invariants below rest on hold in every state.
THEOREM RegistryInvariant == Spec => []RInv
BY RegistryInit, RegistryStep, PTL DEF Spec

\* For any keys and any interval: each entry has one monitor, and a monitor
\* always finds its entry (server.go:182-195).
THEOREM OneMonitor == Spec => []Watched
<1>1. RInv => Watched
  BY DEF RInv
<1> QED
  BY <1>1, RegistryInvariant, PTL

\* For any keys and any interval: the server gives away no address of a miner
\* it has not heard from for two intervals (server.go:185, 262-284).
THEOREM NodesRecent == Spec => []NodesAreRecent
<1>1. RInv => NodesAreRecent
  <2> SUFFICES ASSUME RInv, NEW k \in Keys, NEW nodes \in GetNodes(k), NEW addr \in nodes
               PROVE  \E j \in Keys \ {k} :
                        /\ Registered(j) /\ all[j].Address = addr
                        /\ all[j].RecentHeartbeat <= 2 * HeartBeatInterval
    BY DEF NodesAreRecent
  <2>1. PICK j \in Keys \ {k} : Registered(j) /\ all[j].Address = addr
    BY DEF GetNodes
  <2>2. Len(sleeps[j]) = 1 /\ sleeps[j][1] \in 0..HeartBeatInterval /\ all[j] \in Entries
    BY <2>1 DEF RInv, Types, Watched, ServerTypes, Registered
  <2>3. all[j].RecentHeartbeat <= 2 * HeartBeatInterval
    BY <2>1, <2>2 DEF RInv, Timed, Entries
  <2> QED
    BY <2>1, <2>3
<1> QED
  BY <1>1, RegistryInvariant, PTL

\* For any keys and addresses, however addresses are used again: a miner that
\* holds its settings is never sent to itself (server.go:218-222, 265-267).
THEOREM NoSelfConnection == Spec => []NeverItsOwnPeer
<1>1. RInv => NeverItsOwnPeer
  <2> SUFFICES ASSUME RInv, NEW k \in Keys, settings[k] = "received",
                      NEW nodes \in GetNodes(k), listening[k] \in nodes
               PROVE  FALSE
    BY DEF NeverItsOwnPeer
  <2>1. PICK j \in Keys \ {k} : Registered(j) /\ all[j].Address = listening[k]
    BY DEF GetNodes
  <2> QED
    BY <2>1 DEF RInv, Owned, Holds
<1> QED
  BY <1>1, RegistryInvariant, PTL

\* For any interval: the server keeps a miner that it answered within one, at
\* its address (server.go:185, 306).
THEOREM PromptStay == Spec => []PromptMinersStay
<1>1. RInv => PromptMinersStay
  BY DEF RInv, Owned, Holds, Answered, PromptMinersStay, AtHome
<1> QED
  BY <1>1, RegistryInvariant, PTL

\* For any keys and addresses: a connected miner that was dropped is let in
\* again (ink-miner.go:846-849).
THEOREM ReturnSucceeds == Spec => []ReturningSucceeds
<1>1. RInv => ReturningSucceeds
  BY DEF RInv, Kept, ReturningSucceeds
<1> QED
  BY <1>1, RegistryInvariant, PTL
=============================================================================
