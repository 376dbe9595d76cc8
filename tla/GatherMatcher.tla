--------------------------- MODULE GatherMatcher ----------------------------
(***************************************************************************)
(* How the master's receiver thread turns the messages of n-1 independent  *)
(* TCP streams into gather rounds (recv_thread, the `am_master` half).     *)
(*                                                                         *)
(* For every channel it keeps a queue of messages per worker and counts    *)
(* the workers whose queue is not empty (num_peers_ready).  When a message *)
(* makes the count reach n-1 it takes the head of every queue and passes   *)
(* them, as one round, to the thread that waits in send_to_master.         *)
(*                                                                         *)
(* Workers run ahead of each other freely: a queue may hold several        *)
(* messages while another is empty.  The code emits at most one round per  *)
(* message and never looks at the queues again until the next one, so it   *)
(* relies on an invariant it does not state: a counter that is off by one, *)
(* or a second round left behind in the queues, would pair the messages of *)
(* different calls, or block the program, for good.                        *)
(***************************************************************************)
EXTENDS Integers, Sequences, FiniteSets

CONSTANTS
  Worker,    \* the parties but the master
  Channel,   \* the channel ids
  Data       \* message payloads

ASSUME WorkerAssumption == IsFiniteSet(Worker) /\ Worker # {}

VARIABLES
  queue,    \* queue[c][w]: channel_messages[c][w]
  ready,    \* ready[c]: num_peers_ready[c]
  sent,     \* sent[c][w]: all the messages w has sent on c so far (history)
  rounds    \* rounds[c]: all the rounds passed on so far (history)

vars == <<queue, ready, sent, rounds>>

TypeOK ==
  /\ queue  \in [Channel -> [Worker -> Seq(Data)]]
  /\ ready  \in [Channel -> Nat]
  /\ sent   \in [Channel -> [Worker -> Seq(Data)]]
  /\ rounds \in [Channel -> Seq([Worker -> Data])]

-----------------------------------------------------------------------------
(* One channel's matching, as a state [queue, ready]: the body of the      *)
(* closure recv_thread gives to parse_buffer.                              *)
\* Faulty variant: every message counts, not only the first in a queue.
Pushed_CountsAll(m, w, d) ==
  [queue |-> [m.queue EXCEPT ![w] = Append(@, d)], ready |-> m.ready + 1]

Pushed(m, w, d) ==
  [queue |-> [m.queue EXCEPT ![w] = Append(@, d)],
   ready |-> IF m.queue[w] = <<>> THEN m.ready + 1 ELSE m.ready]

\* Faulty variant: the master is waited for too.
Complete_OffByOne(m) == m.ready = Cardinality(Worker) + 1

\* "Everyone else have messages ready"
Complete(m) == m.ready = Cardinality(Worker)

\* Faulty variant: pop_back.
Heads_Back(m)  == [w \in Worker |-> m.queue[w][Len(m.queue[w])]]

Heads(m)  == [w \in Worker |-> Head(m.queue[w])]

\* Faulty variant: the queues are cleared, with what came early in them.
Popped_Clears(m) == [queue |-> [w \in Worker |-> <<>>], ready |-> 0]

Popped(m) ==
  [queue |-> [w \in Worker |-> Tail(m.queue[w])],
   ready |-> m.ready - Cardinality({w \in Worker : Tail(m.queue[w]) = <<>>})]

\* The state after message d of worker w, and the rounds it completes.
Accept(m, w, d) ==
  LET p == Pushed(m, w, d) IN
  IF Complete(p) THEN [state |-> Popped(p), out |-> <<Heads(p)>>]
                 ELSE [state |-> p, out |-> <<>>]

NoMessages == [queue |-> [w \in Worker |-> <<>>], ready |-> 0]

-----------------------------------------------------------------------------
Init ==
  /\ queue  = [c \in Channel |-> NoMessages.queue]
  /\ ready  = [c \in Channel |-> NoMessages.ready]
  /\ sent   = [c \in Channel |-> [w \in Worker |-> <<>>]]
  /\ rounds = [c \in Channel |-> <<>>]

Receive(c, w, d) ==
  LET r == Accept([queue |-> queue[c], ready |-> ready[c]], w, d) IN
  /\ queue'  = [queue  EXCEPT ![c] = r.state.queue]
  /\ ready'  = [ready  EXCEPT ![c] = r.state.ready]
  /\ sent'   = [sent   EXCEPT ![c][w] = Append(@, d)]
  /\ rounds' = [rounds EXCEPT ![c] = @ \o r.out]

Next == \E c \in Channel, w \in Worker, d \in Data : Receive(c, w, d)

Spec == Init /\ [][Next]_vars

-----------------------------------------------------------------------------
NonEmpty(c) == {w \in Worker : queue[c][w] # <<>>}

(* num_peers_ready is the number of workers that have a message queued,    *)
(* and a complete round never stays behind in the queues.                  *)
ReadyExact ==
  \A c \in Channel : ready[c] = Cardinality(NonEmpty(c)) /\ NonEmpty(c) # Worker

(* The k-th round on a channel holds the k-th message of every worker on   *)
(* that channel, whatever the order they came in: slot w of a gather is    *)
(* what w contributed to that gather.                                      *)
RoundsAligned ==
  \A c \in Channel, w \in Worker :
    /\ Len(rounds[c]) =< Len(sent[c][w])
    /\ \A k \in 1..Len(rounds[c]) : rounds[c][k][w] = sent[c][w][k]

(* No gather is held back: there is always a worker all of whose messages  *)
(* are in rounds already, so the next round really lacks a message.        *)
NoRoundHeldBack ==
  \A c \in Channel : \E w \in Worker : Len(rounds[c]) = Len(sent[c][w])

(* Nothing is lost or duplicated on the way: what is not in a round yet is *)
(* in the worker's queue, in order.                                        *)
NothingLost ==
  \A c \in Channel, w \in Worker :
    /\ Len(sent[c][w]) = Len(rounds[c]) + Len(queue[c][w])
    /\ \A k \in 1..Len(queue[c][w]) :
         queue[c][w][k] = sent[c][w][Len(rounds[c]) + k]
=============================================================================
