------------------------------ MODULE Registry ------------------------------
(***************************************************************************)
(* The registration server and the part of a miner that keeps it           *)
(* registered.  The server knows a miner by its key; a monitor per entry   *)
(* drops it when no heartbeat came for a while.  A miner registers once    *)
(* when it starts, sends heartbeats, and registers again when one is       *)
(* refused.  Processes crash and start again under another address,        *)
(* connections break, the server restarts with an empty table.             *)
(*                                                                         *)
(* Time is a step of its own.  It passes only when no monitor is due: a    *)
(* sleep of the server ends on time.  Miners may be late as they please.   *)
(***************************************************************************)
EXTENDS Integers, Sequences, FiniteSets

CONSTANTS
  Keys,              \* public keys, one process at a time for each
  Addresses,         \* the addresses a process can listen on
  NoMiner,           \* nil: no entry, or the address of no process
  HeartBeatInterval, \* config.MinerSettings.HeartBeat, in steps of time
  NumMinerToReturn,  \* config.NumMinerToReturn
  MaxStarts          \* bound on the starts of processes

ASSUME RegistryAssumption ==
  /\ HeartBeatInterval \in Nat \ {0}
  /\ NumMinerToReturn \in Nat
  /\ MaxStarts \in Nat
  /\ NoMiner \notin Addresses \cup [Address : Addresses, RecentHeartbeat : Nat]

VARIABLES
  all,        \* allMiners.all: an entry's RecentHeartbeat is the time since
  sleeps,     \* per key, what the monitors of its entry have left to sleep
  phase,      \* per key, where its process is: down, starting (the Register
              \* of Mine is under way), idle, beating (HeartBeat under way) or
              \* returning (the Register of ServerHeartBeat is under way)
  reply,      \* the answer to the call under way: none, ok or error
  settings,   \* MinerInstance.Settings: unset, zero or received
  ticking,    \* the ticker of ManageConnections fires
  connected,  \* the connection to the server stands
  listening,  \* MinerInstance.Addr
  starts,     \* how many processes were started
  silence     \* time since the server last answered it without an error

server == <<all, sleeps>>
miner == <<phase, reply, settings, ticking, connected, listening, starts>>
vars == <<server, miner, silence>>

Up(k) == phase[k] # "down"

Idle(k) == phase[k] = "idle"

Init ==
  /\ all = [k \in Keys |-> NoMiner]
  /\ sleeps = [k \in Keys |-> <<>>]
  /\ phase = [k \in Keys |-> "down"]
  /\ reply = [k \in Keys |-> "none"]
  /\ settings = [k \in Keys |-> "unset"]
  /\ ticking = [k \in Keys |-> FALSE]
  /\ connected = [k \in Keys |-> FALSE]
  /\ listening = [k \in Keys |-> NoMiner]
  /\ starts = 0
  /\ silence = [k \in Keys |-> HeartBeatInterval + 1]

-----------------------------------------------------------------------------
(* The server                                                              *)

Registered(k) == all[k] # NoMiner

KeyAlreadyRegistered(k) == Registered(k)

AddressAlreadyRegistered(addr) ==
  \E j \in Keys : Registered(j) /\ all[j].Address = addr

\* The server's answer to k; silence is the model's own.
Answer(k, result) ==
  /\ reply' = [reply EXCEPT ![k] = result]
  /\ silence' = IF result = "ok" THEN [silence EXCEPT ![k] = 0] ELSE silence
  /\ UNCHANGED <<phase, settings, ticking, connected, listening, starts>>

Asks(k, phases) == phase[k] \in phases /\ connected[k] /\ reply[k] = "none"

\* Each registration starts a monitor.
Enter(k, result) ==
  /\ all' = [all EXCEPT ![k] = [Address |-> listening[k], RecentHeartbeat |-> 0]]
  /\ sleeps' = [sleeps EXCEPT ![k] = Append(@, 0)]
  /\ Answer(k, result)

\* Faulty: a known key is entered again.
RegisterAgain(k) ==
  /\ Asks(k, {"starting", "returning"})
  /\ Enter(k, "ok")

\* Faulty: an address is entered for every key that comes with it.
RegisterKey(k) ==
  /\ Asks(k, {"starting", "returning"})
  /\ IF KeyAlreadyRegistered(k)
     THEN UNCHANGED server /\ Answer(k, "error")
     ELSE Enter(k, "ok")

\* Faulty: a known key is told so with its settings.
RegisterKindly(k) ==
  /\ Asks(k, {"starting", "returning"})
  /\ IF Registered(k)
     THEN UNCHANGED server /\ Answer(k, "ok")
     ELSE Enter(k, "ok")

\* Register: a key or an address is entered once.
Register(k) ==
  /\ Asks(k, {"starting", "returning"})
  /\ IF KeyAlreadyRegistered(k) \/ AddressAlreadyRegistered(listening[k])
     THEN UNCHANGED server /\ Answer(k, "error")
     ELSE Enter(k, "ok")

\* What GetNodes may answer to k, nothing for an unknown key.  Which of the
\* others are left out is fixed by the key and the addresses.
GetNodes(k) ==
  LET others == {all[j].Address : j \in {j \in Keys \ {k} : Registered(j)}}
      least(m, n) == IF m < n THEN m ELSE n
  IN  {nodes \in SUBSET others :
         /\ Registered(k)
         /\ Cardinality(nodes) = least(NumMinerToReturn, Cardinality(others))}

\* HeartBeat of a registered key.
HeartBeat(k) ==
  /\ Asks(k, {"beating"})
  /\ IF Registered(k)
     THEN /\ all' = [all EXCEPT ![k].RecentHeartbeat = 0]
          /\ Answer(k, "ok")
     ELSE UNCHANGED all /\ Answer(k, "error")
  /\ UNCHANGED sleeps

Woken(k, i) == i \in DOMAIN sleeps[k] /\ sleeps[k][i] = 0

Asleep(k, i) == sleeps' = [sleeps EXCEPT ![k][i] = HeartBeatInterval]

Gone(k, i) ==
  sleeps' = [sleeps EXCEPT ![k] = SubSeq(@, 1, i - 1) \o SubSeq(@, i + 1, Len(@))]

Overdue(k) == all[k].RecentHeartbeat > HeartBeatInterval

\* Faulty: the entry stays, its monitor does not.
MonitorLeaves(k, i) ==
  /\ Woken(k, i)
  /\ IF Overdue(k) THEN Gone(k, i) ELSE Asleep(k, i)
  /\ UNCHANGED <<all, miner, silence>>

\* One turn of monitor, under the lock.
Monitor(k, i) ==
  /\ Woken(k, i)
  /\ IF Overdue(k)
     THEN all' = [all EXCEPT ![k] = NoMiner] /\ Gone(k, i)
     ELSE UNCHANGED all /\ Asleep(k, i)
  /\ UNCHANGED <<miner, silence>>

-----------------------------------------------------------------------------
(* The miner                                                               *)

\* It dials once; nothing else does.
ConnectToServer(k) == connected' = [connected EXCEPT ![k] = TRUE]

\* Mine: a free port, a connection, and the call to Register.
Start(k) ==
  /\ phase[k] = "down"
  /\ starts < MaxStarts
  /\ \E addr \in Addresses \ {listening[j] : j \in Keys} :
       listening' = [listening EXCEPT ![k] = addr]
  /\ phase' = [phase EXCEPT ![k] = "starting"]
  /\ reply' = [reply EXCEPT ![k] = "none"]
  /\ settings' = [settings EXCEPT ![k] = "unset"]
  /\ ticking' = [ticking EXCEPT ![k] = FALSE]
  /\ ConnectToServer(k)
  /\ starts' = starts + 1
  /\ UNCHANGED <<server, silence>>

Result(k) ==
  IF connected[k] THEN reply[k] ELSE "error"

\* What Register leaves: the settings of the answer, zeroes without one.  The
\* error is printed.
Received(k) == IF Result(k) = "ok" THEN "received" ELSE "zero"

\* Register returns to Mine, which goes on whatever the result; the ticker of
\* ManageConnections is made from the settings, and never fires for zero.
Started(k) ==
  /\ phase[k] = "starting"
  /\ Result(k) # "none"
  /\ settings' = [settings EXCEPT ![k] = Received(k)]
  /\ ticking' = [ticking EXCEPT ![k] = settings'[k] = "received"]
  /\ phase' = [phase EXCEPT ![k] = "idle"]
  /\ reply' = [reply EXCEPT ![k] = "none"]
  /\ UNCHANGED <<server, connected, listening, starts, silence>>

\* ManageConnections calls ServerHeartBeat: its ticker fired, or there is an
\* operation or a block to propagate.
ServerHeartBeat(k) ==
  /\ Idle(k)
  /\ phase' = [phase EXCEPT ![k] = "beating"]
  /\ UNCHANGED <<server, reply, settings, ticking, connected, listening, starts, silence>>

\* Faulty: a miner that was refused waits for its next heartbeat.
BeatenIdly(k) ==
  /\ phase[k] = "beating"
  /\ Result(k) # "none"
  /\ phase' = [phase EXCEPT ![k] = "idle"]
  /\ reply' = [reply EXCEPT ![k] = "none"]
  /\ UNCHANGED <<server, settings, ticking, connected, listening, starts, silence>>

\* Faulty: a miner that was answered registers again as well.
BeatenTwice(k) ==
  /\ phase[k] = "beating"
  /\ Result(k) # "none"
  /\ phase' = [phase EXCEPT ![k] = "returning"]
  /\ reply' = [reply EXCEPT ![k] = "none"]
  /\ UNCHANGED <<server, settings, ticking, connected, listening, starts, silence>>

\* The heartbeat returns; any error is taken for "timed out".
Beaten(k) ==
  /\ phase[k] = "beating"
  /\ Result(k) # "none"
  /\ phase' = [phase EXCEPT ![k] = IF Result(k) = "ok" THEN "idle" ELSE "returning"]
  /\ reply' = [reply EXCEPT ![k] = "none"]
  /\ UNCHANGED <<server, settings, ticking, connected, listening, starts, silence>>

\* Register returns to ServerHeartBeat; the ticker stays what it was.
Returned(k) ==
  /\ phase[k] = "returning"
  /\ Result(k) # "none"
  /\ settings' = [settings EXCEPT ![k] = Received(k)]
  /\ phase' = [phase EXCEPT ![k] = "idle"]
  /\ reply' = [reply EXCEPT ![k] = "none"]
  /\ UNCHANGED <<server, ticking, connected, listening, starts, silence>>

-----------------------------------------------------------------------------
(* The environment                                                         *)

\* A process ends; the call it made, if the server has not served it, is lost.
Crash(k) ==
  /\ Up(k)
  /\ phase' = [phase EXCEPT ![k] = "down"]
  /\ reply' = [reply EXCEPT ![k] = "none"]
  /\ settings' = [settings EXCEPT ![k] = "unset"]
  /\ ticking' = [ticking EXCEPT ![k] = FALSE]
  /\ connected' = [connected EXCEPT ![k] = FALSE]
  /\ listening' = [listening EXCEPT ![k] = NoMiner]
  /\ silence' = [silence EXCEPT ![k] = HeartBeatInterval + 1]
  /\ UNCHANGED <<server, starts>>

\* A connection breaks, with the call or the answer on it; nothing dials again.
Disconnect(k) ==
  /\ connected[k]
  /\ connected' = [connected EXCEPT ![k] = FALSE]
  /\ reply' = [reply EXCEPT ![k] = "none"]
  /\ UNCHANGED <<server, phase, settings, ticking, listening, starts, silence>>

\* The server starts again: the table was in memory only.
RestartServer ==
  /\ all' = [k \in Keys |-> NoMiner]
  /\ sleeps' = [k \in Keys |-> <<>>]
  /\ connected' = [k \in Keys |-> FALSE]
  /\ reply' = [k \in Keys |-> "none"]
  /\ silence' = [k \in Keys |-> HeartBeatInterval + 1]
  /\ UNCHANGED <<phase, settings, ticking, listening, starts>>

\* Time passes for the entries and the monitors.
Tick ==
  /\ \A k \in Keys : \A i \in DOMAIN sleeps[k] : sleeps[k][i] > 0
  /\ all' = [k \in Keys |->
               IF Registered(k)
               THEN [all[k] EXCEPT !.RecentHeartbeat = @ + 1] ELSE NoMiner]
  /\ sleeps' = [k \in Keys |-> [i \in DOMAIN sleeps[k] |-> sleeps[k][i] - 1]]
  /\ silence' = [k \in Keys |-> IF silence[k] > HeartBeatInterval
                                THEN silence[k] ELSE silence[k] + 1]
  /\ UNCHANGED miner

Serve(k) == Register(k) \/ HeartBeat(k)

Monitors(k) == \E i \in DOMAIN sleeps[k] : Monitor(k, i)

MinerStep(k) == Started(k) \/ Beaten(k) \/ Returned(k)

Next ==
  \/ \E k \in Keys :
       \/ Serve(k) \/ Monitors(k) \/ MinerStep(k)
       \/ Start(k) \/ ServerHeartBeat(k) \/ Crash(k) \/ Disconnect(k)
  \/ RestartServer
  \/ Tick

Spec == Init /\ [][Next]_vars

\* The server serves what it gets and its monitors wake, a call returns, time
\* passes, and the ticker of a miner fires.
Fairness ==
  /\ WF_vars(Tick)
  /\ \A k \in Keys :
       /\ WF_vars(Serve(k))
       /\ WF_vars(Monitors(k))
       /\ WF_vars(MinerStep(k))
       /\ WF_vars(ticking[k] /\ ServerHeartBeat(k))

FairSpec == Spec /\ Fairness

\* As above for a miner that keeps on solving blocks: each one it propagates
\* brings a heartbeat, with a ticker or without.
MiningSpec == FairSpec /\ \A k \in Keys : WF_vars(ServerHeartBeat(k))

-----------------------------------------------------------------------------
(* Properties                                                              *)

AtHome(k) == Registered(k) /\ all[k].Address = listening[k]

\* Type invariant.
TypeOK ==
  /\ all \in [Keys -> [Address : Addresses, RecentHeartbeat : Nat] \cup {NoMiner}]
  /\ sleeps \in [Keys -> Seq(0..HeartBeatInterval)]
  /\ phase \in [Keys -> {"down", "starting", "idle", "beating", "returning"}]
  /\ reply \in [Keys -> {"none", "ok", "error"}]
  /\ settings \in [Keys -> {"unset", "zero", "received"}]
  /\ ticking \in [Keys -> BOOLEAN]
  /\ connected \in [Keys -> BOOLEAN]
  /\ listening \in [Keys -> Addresses \cup {NoMiner}]
  /\ starts \in 0..MaxStarts
  /\ silence \in [Keys -> 0..(HeartBeatInterval + 1)]

\* An entry has exactly one monitor, and a monitor always finds its entry,
\* however miners time out, come back and are dropped again: two monitors
\* would check twice as often, and one without an entry reads a nil pointer
\* (server.go:182-195, 229).
Watched == \A k \in Keys : Len(sleeps[k]) = IF Registered(k) THEN 1 ELSE 0

\* Every address the server gives away is of a miner it heard from at most two
\* intervals ago, since a monitor looks once per interval (server.go:185, 193,
\* 262-284).
NodesAreRecent ==
  \A k \in Keys : \A nodes \in GetNodes(k) : \A addr \in nodes :
    \E j \in Keys \ {k} :
      /\ Registered(j)
      /\ all[j].Address = addr
      /\ all[j].RecentHeartbeat <= 2 * HeartBeatInterval

\* A miner that got its settings is never given its own address to connect to,
\* although ports are used again and entries outlive their miners
\* (server.go:218-222, 265-267).
NeverItsOwnPeer ==
  \A k \in Keys : settings[k] = "received" =>
    \A nodes \in GetNodes(k) : listening[k] \notin nodes

\* A miner that the server answered within the last interval and that holds its
\* settings is registered under the address it listens on (server.go:185,
\* 224-227, 306; ink-miner.go:833-851).
PromptMinersStay ==
  \A k \in Keys :
    settings[k] = "received" /\ connected[k] /\ silence[k] <= HeartBeatInterval => AtHome(k)

\* A miner that was once registered loses its settings only with its
\* connection: when its heartbeat finds it dropped, nobody else took its place
\* meanwhile (ink-miner.go:836-849).
ReturningSucceeds ==
  \A k \in Keys : ticking[k] /\ settings[k] = "zero" => ~connected[k]

\* A miner with a ticker that was dropped, for being slow, is registered again
\* (ink-miner.go:847-850).
DroppedComeBack ==
  \A k \in Keys : ticking[k] ~> AtHome(k) \/ ~connected[k]

\* "Send the server heartbeat to maintain connectivity", "Reconnect to server
\* if timed out" (ink-miner.go:892, 848): a miner that started is registered
\* where it listens, sooner or later, as long as it runs and is connected.
StartedBecomeKnown ==
  \A k \in Keys : phase[k] = "starting" ~> AtHome(k) \/ ~connected[k]
=============================================================================
