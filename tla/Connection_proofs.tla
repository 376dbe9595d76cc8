-------------------------- MODULE Connection_proofs -------------------------
(***************************************************************************)
(* With any number of parties, started in any order, any of which may fail *)
(* to start or to connect: what init promises when it returns.             *)
(*                                                                         *)
(* The invariant says how far everybody is: the master has a stream to the *)
(* first toId - 1 workers; a worker has accepted only if it is one of      *)
(* these, and has then sent its message of the first round, which one that *)
(* fails before never does; an answer exists only if all of these messages *)
(* have come.                                                              *)
(***************************************************************************)
EXTENDS Connection, FiniteSetTheorems, TLAPS

MasterLives == {"off", "connecting", "round", "ready", "down", "panicked"}
WorkerLives == {"off", "listening", "round", "ready", "down", "panicked"}

\* A worker that has accepted the master's connection.
Joined(w) == w \in hello

Kinds ==
  /\ life[0] \in MasterLives
  /\ \A w \in Worker : life[w] \in WorkerLives
  /\ \A p \in Party :
       /\ life[p] = "off" => peers[p] = 0
       /\ life[p] \notin {"off", "panicked"} => peers[p] = N

Progress ==
  /\ streams[0] = 1..(toId - 1)
  /\ life[0] = "off" => toId = 1
  /\ life[0] \in {"round", "ready", "down"} => toId = N
  /\ \A w \in Worker :
       /\ Joined(w) => w \in streams[0] /\ streams[w] = {0}
       /\ ~Joined(w) => streams[w] = {}
       /\ life[w] \in {"off", "listening"} => ~Joined(w)
       /\ life[w] \in {"round", "ready", "down"} => Joined(w)

Answers ==
  /\ reply # {} => life[0] \in {"ready", "down"}
  /\ life[0] \in {"ready", "down"} => hello = Worker
  /\ \A w \in Worker :
       /\ life[w] \in {"ready", "down"} => w \in reply
       /\ life[w] = "panicked" /\ Joined(w) => life[0] = "panicked"

IInv == TypeOK /\ Kinds /\ Progress /\ Answers

-----------------------------------------------------------------------------
LEMMA PartyFacts ==
  /\ N \in Nat /\ N >= 1
  /\ Party = {0} \cup Worker /\ 0 \in Party /\ 0 \notin Worker
  /\ \A w \in Worker : w \in Party /\ w \in Nat /\ w >= 1 /\ w < N
  /\ Worker = 1..(N - 1)
BY PartiesAssumption DEF Party, Worker

(* As many messages as there are workers are the messages of all of them.  *)
LEMMA FullRound ==
  ASSUME hello \subseteq Worker, Cardinality(hello) = N - 1
  PROVE  hello = Worker
<1>1. IsFiniteSet(Worker) /\ Cardinality(Worker) = N - 1
  BY PartiesAssumption, FS_Interval DEF Worker
<1> QED BY <1>1, FS_Subset

LEMMA InitIInv == Init => IInv
<1> SUFFICES ASSUME Init PROVE IInv
  OBVIOUS
<1> USE PartyFacts DEF Init
<1>1. TypeOK
  BY TimesAssumption DEF TypeOK, Lives
<1>2. Kinds
  BY DEF Kinds, MasterLives, WorkerLives
<1>3. Progress
  BY DEF Progress, Joined
<1>4. Answers
  BY DEF Answers, Joined
<1> QED BY <1>1, <1>2, <1>3, <1>4 DEF IInv

-----------------------------------------------------------------------------
(* The steps of the master.                                                *)

LEMMA StartMasterKeeps == ASSUME IInv, StartMaster PROVE IInv'
<1> USE PartyFacts DEF IInv, StartMaster
<1>1. TypeOK'
  BY TimesAssumption DEF TypeOK, Lives, Kinds
<1>2. Kinds'
  BY DEF TypeOK, Kinds, MasterLives, WorkerLives
<1>3. Progress'
  BY DEF TypeOK, Progress, Joined
<1>4. Answers'
  BY DEF TypeOK, Answers, Joined
<1> QED BY <1>1, <1>2, <1>3, <1>4

LEMMA ConnectKeeps == ASSUME IInv, Connect PROVE IInv'
<1> USE PartyFacts DEF IInv, Connect, Connecting
<1>1. peers[0] = N /\ toId \in 1..(N - 1) /\ toId \in Worker
  BY DEF TypeOK, Kinds
<1>2. TypeOK'
  BY <1>1, TimesAssumption DEF TypeOK
<1>3. Kinds'
  BY DEF Kinds
<1>4. Progress'
  <2>1. streams'[0] = 1..(toId' - 1) /\ \A w \in Worker : streams'[w] = streams[w]
    BY <1>1 DEF TypeOK, Progress
  <2>2. life' = life /\ hello' = hello /\ life[0] = "connecting"
    OBVIOUS
  <2>3. \A w \in Worker : w \in streams[0] => w \in streams'[0]
    BY <1>1 DEF TypeOK
  <2> QED BY <2>1, <2>2, <2>3 DEF Progress, Joined
<1>5. Answers'
  BY DEF Answers, Joined
<1> QED BY <1>2, <1>3, <1>4, <1>5

LEMMA GivingUpKeeps == ASSUME IInv, Refused \/ ConnectFails PROVE IInv'
<1> USE PartyFacts DEF IInv
<1>1. /\ life[0] = "connecting"
      /\ life' = life \/ life' = [life EXCEPT ![0] = "panicked"]
      /\ UNCHANGED <<peers, toId, streams, hello, reply>>
  BY DEF Refused, ConnectFails, Connecting
<1>2. waited' \in 0..MaxWaited
  BY TimesAssumption DEF Refused, ConnectFails, TypeOK
<1>3. /\ life'[0] \in {"connecting", "panicked"}
      /\ \A w \in Worker : life'[w] = life[w]
  BY <1>1 DEF TypeOK
<1>4. TypeOK'
  BY <1>1, <1>2 DEF TypeOK, Lives
<1>5. Kinds'
  BY <1>1, <1>3 DEF Kinds, MasterLives
<1>6. Progress'
  BY <1>1, <1>3 DEF Progress, Joined
<1>7. Answers'
  BY <1>1, <1>3 DEF Answers, Joined
<1> QED BY <1>4, <1>5, <1>6, <1>7

LEMMA StartThreadsKeeps == ASSUME IInv, StartThreads PROVE IInv'
<1> USE PartyFacts DEF IInv, StartThreads
<1>1. /\ life'[0] = "round" /\ toId = N
      /\ \A w \in Worker : life'[w] = life[w]
  BY DEF TypeOK, Kinds
<1>2. TypeOK'
  BY DEF TypeOK, Lives
<1>3. Kinds'
  BY <1>1 DEF Kinds, MasterLives
<1>4. Progress'
  BY <1>1 DEF Progress, Joined
<1>5. Answers'
  BY <1>1 DEF Answers, Joined
<1> QED BY <1>2, <1>3, <1>4, <1>5

LEMMA MasterRoundKeeps == ASSUME IInv, MasterRound PROVE IInv'
<1> USE PartyFacts DEF IInv, MasterRound
<1>1. /\ life'[0] = "ready"
      /\ \A w \in Worker : life'[w] = life[w]
  BY DEF TypeOK
<1>2. hello = Worker
  BY FullRound DEF RoundComplete, TypeOK, Kinds
<1>3. TypeOK'
  BY DEF TypeOK, Lives
<1>4. Kinds'
  BY <1>1 DEF Kinds, MasterLives
<1>5. Progress'
  BY <1>1 DEF Progress, Joined
<1>6. Answers'
  BY <1>1, <1>2 DEF Answers, Joined
<1> QED BY <1>3, <1>4, <1>5, <1>6

-----------------------------------------------------------------------------
(* The steps of a worker, and deinit.                                      *)

LEMMA StartWorkerKeeps == ASSUME IInv, NEW w \in Worker, StartWorker(w) PROVE IInv'
<1> USE PartyFacts DEF IInv, StartWorker
<1>1. /\ life'[w] = "listening" /\ peers'[w] = N
      /\ \A p \in Party : p # w => life'[p] = life[p] /\ peers'[p] = peers[p]
  BY DEF TypeOK, Kinds
<1>2. TypeOK'
  BY DEF TypeOK, Lives, Kinds
<1>3. Kinds'
  BY <1>1 DEF Kinds, WorkerLives
<1>4. Progress'
  BY <1>1 DEF Progress, Joined
<1>5. Answers'
  BY <1>1 DEF Answers, Joined
<1> QED BY <1>2, <1>3, <1>4, <1>5

LEMMA FailingKeeps ==
  ASSUME IInv, NEW p \in Party, StartFails(p) \/ (p \in Worker /\ AcceptFails(p))
  PROVE  IInv'
<1> USE PartyFacts DEF IInv
<1>1. /\ life[p] \in {"off", "listening"} /\ life' = [life EXCEPT ![p] = "panicked"]
      /\ UNCHANGED <<peers, toId, waited, streams, hello, reply>>
  BY DEF StartFails, AcceptFails
<1>2. /\ life'[p] = "panicked"
      /\ \A q \in Party : q # p => life'[q] = life[q]
  BY <1>1 DEF TypeOK
<1>3. TypeOK'
  BY <1>1 DEF TypeOK, Lives
<1>4. Kinds'
  BY <1>1, <1>2 DEF Kinds, MasterLives, WorkerLives
<1>5. Progress'
  BY <1>1, <1>2 DEF Progress, Joined
<1>6. Answers'
  BY <1>1, <1>2 DEF Answers, Progress, Joined
<1> QED BY <1>3, <1>4, <1>5, <1>6

LEMMA AcceptKeeps == ASSUME IInv, NEW w \in Worker, Accept(w) PROVE IInv'
<1> USE PartyFacts DEF IInv, Accept
<1>1. /\ life'[w] = "round" /\ streams'[w] = {0}
      /\ \A p \in Party : p # w => life'[p] = life[p] /\ streams'[p] = streams[p]
  BY DEF TypeOK
<1>2. life[0] \notin {"ready", "down"}
  BY DEF Answers, Progress, Joined
<1>3. TypeOK'
  BY DEF TypeOK, Lives
<1>4. Kinds'
  BY <1>1 DEF Kinds, WorkerLives
<1>5. Progress'
  BY <1>1 DEF Progress, Joined
<1>6. Answers'
  BY <1>1, <1>2 DEF Answers, Joined
<1> QED BY <1>3, <1>4, <1>5, <1>6

LEMMA WorkerRoundKeeps == ASSUME IInv, NEW w \in Worker, WorkerRound(w) PROVE IInv'
<1> USE PartyFacts DEF IInv, WorkerRound
<1>1. /\ life'[w] = IF w \in reply THEN "ready" ELSE "panicked"
      /\ \A p \in Party : p # w => life'[p] = life[p]
  BY DEF TypeOK
<1>2. Joined(w) /\ hello' = hello /\ streams' = streams /\ toId' = toId
  BY DEF Progress
<1>3. TypeOK'
  BY DEF TypeOK, Lives
<1>4. Kinds'
  BY <1>1 DEF Kinds, WorkerLives
<1>5. Progress'
  <2>1. life'[0] = life[0]
    BY <1>1
  <2>2. ASSUME NEW v \in Worker
        PROVE  /\ life'[v] \in {"off", "listening"} => ~Joined(v)
               /\ life'[v] \in {"round", "ready", "down"} => Joined(v)
    BY <1>1, <1>2 DEF Progress
  <2> HIDE DEF WorkerRound
  <2> QED BY <1>2, <2>1, <2>2 DEF Progress, Joined
<1>6. Answers'
  BY <1>1 DEF Answers, Joined
<1> QED BY <1>3, <1>4, <1>5, <1>6

LEMMA DeinitKeeps == ASSUME IInv, NEW p \in Party, Deinit(p) PROVE IInv'
<1> USE PartyFacts DEF IInv, Deinit
<1>1. /\ life'[p] = "down"
      /\ \A q \in Party : q # p => life'[q] = life[q]
  BY DEF TypeOK
<1>2. TypeOK'
  BY DEF TypeOK, Lives
<1>3. Kinds'
  BY <1>1 DEF Kinds, MasterLives, WorkerLives
<1>4. Progress'
  BY <1>1 DEF Progress, Joined
<1>5. Answers'
  BY <1>1 DEF Answers, Joined
<1> QED BY <1>2, <1>3, <1>4, <1>5

LEMMA NextIInv == IInv /\ [Next]_vars => IInv'
<1> SUFFICES ASSUME IInv, [Next]_vars PROVE IInv'
  OBVIOUS
<1>1. CASE StartMaster \/ Master \/ ConnectFails
  BY <1>1, StartMasterKeeps, ConnectKeeps, GivingUpKeeps, StartThreadsKeeps,
     MasterRoundKeeps DEF Master
<1>2. CASE \E w \in Worker : StartWorker(w) \/ Joining(w) \/ AcceptFails(w)
  BY <1>2, PartyFacts, StartWorkerKeeps, AcceptKeeps, WorkerRoundKeeps, FailingKeeps DEF Joining
<1>3. CASE \E p \in Party : StartFails(p) \/ Deinit(p)
  BY <1>3, FailingKeeps, DeinitKeeps
<1>4. CASE UNCHANGED vars
  BY <1>4 DEF vars, IInv, TypeOK, Kinds, Progress, Answers, Joined
<1> QED BY <1>1, <1>2, <1>3, <1>4 DEF Next

-----------------------------------------------------------------------------
(* connect_to_all's "Do a round with the master, to be sure everyone is    *)
(* ready": whoever returns from init finds the whole star up.              *)
THEOREM InitReturnsToAStar == Spec => [](TypeOK /\ ReadyMeansAllUp)
<1>1. IInv => ReadyMeansAllUp
  <2> SUFFICES ASSUME IInv, NEW p \in Party, life[p] \in {"ready", "down"}
               PROVE  /\ streams[0] = Worker
                      /\ \A w \in Worker :
                           streams[w] = {0} /\ life[w] \in {"round", "ready", "down"}
    BY DEF ReadyMeansAllUp
  <2>1. life[0] \in {"ready", "down"}
    BY PartyFacts DEF IInv, Answers, Joined
  <2>2. hello = Worker /\ streams[0] = Worker
    BY <2>1, PartyFacts DEF IInv, Answers, Progress
  <2>3. ASSUME NEW w \in Worker
        PROVE  streams[w] = {0} /\ life[w] \in {"round", "ready", "down"}
    <3>1. Joined(w)
      BY <2>2 DEF Joined
    <3>2. life[w] \notin {"off", "listening", "panicked"}
      BY <2>1, <3>1 DEF IInv, Answers, Progress
    <3> QED BY <3>1, <3>2 DEF IInv, Progress, Kinds, WorkerLives
  <2> QED BY <2>2, <2>3
<1>2. Init => IInv
  BY InitIInv
<1>3. IInv /\ [Next]_vars => IInv'
  BY NextIInv
<1>4. IInv => TypeOK
  BY DEF IInv
<1> QED BY <1>1, <1>2, <1>3, <1>4, PTL DEF Spec

(* The states of connect_to_all: the master's loop never counts past the   *)
(* last worker, nor waits longer than it says before it gives up, and no   *)
(* party ever has a stream to anything but a party.                        *)
THEOREM WellTyped == Spec => []TypeOK
<1>1. IInv => TypeOK
  BY DEF IInv
<1> QED BY <1>1, InitIInv, NextIInv, PTL DEF Spec

(* A worker's listener takes one connection: the master comes to a worker  *)
(* it has no stream to, and that has not accepted one.                     *)
THEOREM ComesOnce == Spec => []NoDoubleConnect
<1>1. IInv => NoDoubleConnect
  <2> SUFFICES ASSUME IInv, NEW w \in Worker, toId = w
               PROVE  w \notin streams[0] /\ streams[w] = {}
    BY DEF NoDoubleConnect
  <2>1. w \notin streams[0]
    BY PartyFacts DEF IInv, Progress
  <2> QED BY <2>1 DEF IInv, Progress
<1>2. Init => IInv
  BY InitIInv
<1>3. IInv /\ [Next]_vars => IInv'
  BY NextIInv
<1> QED BY <1>1, <1>2, <1>3, PTL DEF Spec
=============================================================================
