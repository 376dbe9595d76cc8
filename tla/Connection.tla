----------------------------- MODULE Connection ------------------------------
(***************************************************************************)
(* How the parties come together and part: init_from_file                  *)
(* (init_from_path and connect_to_all), is_init and deinit.                *)
(*                                                                         *)
(* The processes are started in any order.  A worker binds its address,    *)
(* takes exactly one connection and closes the listener; the master        *)
(* connects to the workers one after the other and tries again while a     *)
(* worker is not there yet.  Then all make one round with the master, so   *)
(* that nobody returns from init before the whole star is up.              *)
(***************************************************************************)
EXTENDS Integers, FiniteSets

CONSTANTS
  N,          \* the number of lines of the configuration file: the parties
  Tick,       \* the wait between two attempts (10 ms)
  Report,     \* how often the wait is logged (3000 ms)
  Limit,      \* the wait for one peer after which to give up (30000 ms)
  MaxWaited,  \* where the count of the time waited saturates
  MayFail     \* whether a start or a connection may meet an error, which panics

ASSUME PartiesAssumption == N \in Nat \ {0}
ASSUME TimesAssumption ==
  /\ {Tick, Report, Limit, MaxWaited} \subseteq Nat \ {0}
  /\ Limit + 2 * Tick < MaxWaited
ASSUME FailAssumption == MayFail \in BOOLEAN

Party  == 0..(N - 1)
Worker == 1..(N - 1)

VARIABLES
  life,       \* life[p]: where p is in its life
  peers,      \* peers[p]: self.peers.len(), 0 until init
  toId,       \* the peer the master connects to
  waited,     \* how long it has waited for that peer (history)
  streams,    \* streams[p]: the peers p has a stream to
  hello,      \* the workers whose message of the first round is on its way
  reply       \* the workers the master has answered in the first round

vars == <<life, peers, toId, waited, streams, hello, reply>>

Lives == {"off", "connecting", "listening", "round", "ready", "down", "panicked"}

-----------------------------------------------------------------------------
\* Faulty variant: init is called again after deinit.
StartWorker_Again(w) ==
  /\ life[w] \in {"off", "down"}
  /\ peers' = [peers EXCEPT ![w] = @ + N]
  /\ life' = [life EXCEPT ![w] = "listening"]
  /\ UNCHANGED <<toId, waited, streams, hello, reply>>

\* A worker reads the configuration and binds its address.
StartWorker(w) ==
  /\ life[w] = "off"
  /\ peers' = [peers EXCEPT ![w] = @ + N]
  /\ life' = [life EXCEPT ![w] = "listening"]
  /\ UNCHANGED <<toId, waited, streams, hello, reply>>

StartMaster ==
  /\ life[0] = "off"
  /\ peers' = [peers EXCEPT ![0] = @ + N]
  /\ life' = [life EXCEPT ![0] = "connecting"]
  /\ toId' = 1 /\ waited' = 0
  /\ UNCHANGED <<streams, hello, reply>>

\* A process that cannot begin: the configuration file cannot be read, holds
\* something else than addresses or too few of them, or a worker's address
\* cannot be bound.
StartFails(p) ==
  /\ MayFail /\ life[p] = "off"
  /\ life' = [life EXCEPT ![p] = "panicked"]
  /\ UNCHANGED <<peers, toId, waited, streams, hello, reply>>

Connecting == life[0] = "connecting" /\ toId < peers[0]

\* Faulty variant: the loop connects to the same peer again.
Connect_Again ==
  /\ Connecting /\ life[toId] = "listening"
  /\ streams' = [streams EXCEPT ![0] = @ \cup {toId}]
  /\ UNCHANGED <<life, peers, toId, waited, hello, reply>>

\* The kernel completes the connection as soon as the worker listens.
Connect ==
  /\ Connecting /\ life[toId] = "listening"
  /\ streams' = [streams EXCEPT ![0] = @ \cup {toId}]
  /\ toId' = toId + 1 /\ waited' = 0
  /\ UNCHANGED <<life, peers, hello, reply>>

\* ms_waited is declared inside the loop: it starts from 0 in every attempt.
MsWaited == 0 + Tick
GivesUp(ms) == ms % Report # 0 /\ ms > Limit

\* ConnectionRefused or ConnectionReset: wait, perhaps give up, try again.
Refused ==
  /\ Connecting /\ life[toId] # "listening"
  /\ waited' = IF waited + Tick > MaxWaited THEN waited ELSE waited + Tick
  /\ life' = IF GivesUp(MsWaited) THEN [life EXCEPT ![0] = "panicked"] ELSE life
  /\ UNCHANGED <<peers, toId, streams, hello, reply>>

\* Any other error of connect.
ConnectFails ==
  /\ MayFail /\ Connecting
  /\ life' = [life EXCEPT ![0] = "panicked"]
  /\ UNCHANGED <<peers, toId, waited, streams, hello, reply>>

\* accept; the threads start, and send_to_master only enqueues.
Accept(w) ==
  /\ life[w] = "listening" /\ w \in streams[0]
  /\ streams' = [streams EXCEPT ![w] = {0}]
  /\ hello' = hello \cup {w}
  /\ life' = [life EXCEPT ![w] = "round"]
  /\ UNCHANGED <<peers, toId, waited, reply>>

\* accept, or setting up the stream it returns, fails: the listener and the
\* stream go, even if the master has been told that it is connected.
AcceptFails(w) ==
  /\ MayFail /\ life[w] = "listening"
  /\ life' = [life EXCEPT ![w] = "panicked"]
  /\ UNCHANGED <<peers, toId, waited, streams, hello, reply>>

\* All the streams are there: the threads start.
StartThreads ==
  /\ life[0] = "connecting" /\ toId >= peers[0]
  /\ life' = [life EXCEPT ![0] = "round"]
  /\ UNCHANGED <<peers, toId, waited, streams, hello, reply>>

\* Faulty variant: the first message makes a round.
RoundComplete_First == hello # {}

\* Faulty variant: the master waits for a message of its own.
RoundComplete_Self == Cardinality(hello) = peers[0]

\* recv_thread passes a round on when a message makes it complete: without
\* peers there is no message, and no round.
RoundComplete == hello # {} /\ Cardinality(hello) = peers[0] - 1

\* The first round at the master: send_to_master, then recv_from_master.
MasterRound ==
  /\ life[0] = "round" /\ RoundComplete
  /\ reply' = Worker
  /\ life' = [life EXCEPT ![0] = "ready"]
  /\ UNCHANGED <<peers, toId, waited, streams, hello>>

\* Faulty variant: the end of the stream goes unnoticed.
WorkerRound_Waits(w) ==
  /\ life[w] = "round" /\ w \in reply
  /\ life' = [life EXCEPT ![w] = "ready"]
  /\ UNCHANGED <<peers, toId, waited, streams, hello, reply>>

\* A worker's recv_from_master returns, or finds that the master is gone.
WorkerRound(w) ==
  /\ life[w] = "round"
  /\ w \in reply \/ life[0] = "panicked"
  /\ life' = [life EXCEPT ![w] = IF w \in reply THEN "ready" ELSE "panicked"]
  /\ UNCHANGED <<peers, toId, waited, streams, hello, reply>>

\* deinit shuts the streams down and leaves the rest as it is.
Deinit(p) ==
  /\ life[p] = "ready"
  /\ life' = [life EXCEPT ![p] = "down"]
  /\ UNCHANGED <<peers, toId, waited, streams, hello, reply>>

-----------------------------------------------------------------------------
Init ==
  /\ life = [p \in Party |-> "off"]
  /\ peers = [p \in Party |-> 0]
  /\ toId = 1 /\ waited = 0
  /\ streams = [p \in Party |-> {}]
  /\ hello = {} /\ reply = {}

Master     == Connect \/ Refused \/ StartThreads \/ MasterRound
Joining(w) == Accept(w) \/ WorkerRound(w)

Next ==
  \/ StartMaster \/ Master \/ ConnectFails
  \/ \E w \in Worker : StartWorker(w) \/ Joining(w) \/ AcceptFails(w)
  \/ \E p \in Party : StartFails(p) \/ Deinit(p)

Spec == Init /\ [][Next]_vars

(* Every process is started in the end and runs.  Nothing need ever fail.  *)
Fairness ==
  /\ WF_vars(StartMaster) /\ WF_vars(Master)
  /\ \A w \in Worker : WF_vars(StartWorker(w)) /\ WF_vars(Joining(w))

FairSpec == Spec /\ Fairness

-----------------------------------------------------------------------------
TypeOK ==
  /\ life \in [Party -> Lives]
  /\ peers \in [Party -> {0, N}]
  /\ toId \in 1..N /\ waited \in 0..MaxWaited
  /\ streams \in [Party -> SUBSET Party]
  /\ hello \subseteq Worker /\ reply \subseteq Worker

\* "to be sure everyone is ready": when init returns to any party, every
\* party has its streams and its threads, so a message sent from then on is
\* read by somebody and nobody can meet a connection that is refused.  In
\* particular nobody returns when a party has failed on the way.
ReadyMeansAllUp ==
  (\E p \in Party : life[p] \in {"ready", "down"}) =>
    /\ streams[0] = Worker
    /\ \A w \in Worker : streams[w] = {0} /\ life[w] \in {"round", "ready", "down"}

\* A listener is closed after one connection: the master never comes to a
\* worker twice, nor to one that has accepted and so closed its listener.
NoDoubleConnect ==
  \A w \in Worker : Connecting /\ toId = w => w \notin streams[0] /\ streams[w] = {}

\* Whatever the order the processes are started in, they all come up, unless
\* one of them meets an error.  (When a worker does, the master tries to
\* reach it, or waits for its message, for ever.)
AllReady ==
  <>(\/ \E p \in Party : life[p] = "panicked"
     \/ \A p \in Party : life[p] \in {"ready", "down"})

\* When the master gives up, the workers that have joined it do not wait for
\* the first round for ever.  (Those that still listen do.)
LossReachesJoined == life[0] = "panicked" ~> \A w \in Worker : life[w] # "round"

\* "Could not find peer in 30s": the master gives up on a peer that does not
\* come (one attempt of slack for the attempt that is also a report).
GivesUpInTime == waited =< Limit + 2 * Tick
=============================================================================
