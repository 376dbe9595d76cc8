------------------------------ MODULE DeNetwork -----------------------------
(***************************************************************************)
(* deNetwork/src/multi.rs: a star of TCP connections between the master    *)
(* (party 0) and the workers, from the moment connect_to_all has started   *)
(* the threads until every process has gone.                               *)
(*                                                                         *)
(* Every process runs, besides one program thread per channel,             *)
(*   - a send thread, the only writer of the sockets, fed by one unbounded *)
(*     queue that the program threads of all the channels share;           *)
(*   - a receive thread, the only reader, that passes what it parses to    *)
(*     one unbounded queue per channel.                                    *)
(*                                                                         *)
(* The unit here is a message: Framing.tla shows that a connection moves   *)
(* whole messages in order, although reads and writes split them.          *)
(***************************************************************************)
EXTENDS Integers, Sequences, FiniteSets, Functions

CONSTANTS
  Master, Worker, Channel, NoData,
  MainChannel,  \* channel 0, the one a thread uses unless it asks otherwise
  Bodies,       \* what the program threads may run after the connection round
  SockCap,      \* how many messages the socket buffers of a direction hold
  Crashable     \* the parties that may crash

Party == {Master} \cup Worker
Op    == {"gather", "scatter", "uniform"}

\* "Do a round with the master, to be sure everyone is ready"
ConnectRound == <<"gather", "scatter">>

Programs == Bodies \cup {ConnectRound \o b : b \in Bodies}

ASSUME PartyAssumption ==
  /\ IsFiniteSet(Worker) /\ Worker # {}
  /\ Master \notin Worker /\ NoData \notin Party
ASSUME ChannelAssumption == MainChannel \in Channel
ASSUME BodiesAssumption  == Bodies \subseteq Seq(Op)
ASSUME SockCapAssumption == SockCap \in Nat \ {0}
ASSUME CrashAssumption   == Crashable \subseteq Party

VARIABLES
  prog,     \* prog[c]: the calls the program threads of channel c make
  pos,      \* pos[p][c]: how many of them p's thread has returned from
  ret,      \* ret[p][c]: what the last of them returned
  proc,     \* proc[p]: "up", "joining" (in deinit), "exited" or "aborted"
  sendq,    \* sendq[p]: the send thread's channel, of [ch, data] entries
  writing,  \* writing[p]: the messages its send thread is writing, by peer
  shut,     \* shut[p]: p has shut its sockets down and ended its send thread
  sock,     \* sock[p][q]: what p has written and q has not read
  inbuf,    \* inbuf[p]: what p's receive thread has read and not yet parsed
  from,     \* from[p]: the peer it is reading from, or NoData if it polls
  closed,   \* closed[p]: the peers whose stream it has seen end (peer_closed)
  match,    \* match[c]: the master's queues and count of ready peers
  recvq     \* recvq[p][c]: recv_channels[c], what is ready for a call to take

mainVars == <<prog, pos, ret>>
sendVars == <<sendq, writing, shut>>
recvVars == <<inbuf, from, closed, match, recvq>>
vars     == <<mainVars, proc, sendVars, sock, recvVars>>

Payload == [ch : Channel, op : Nat, party : Party]
M == INSTANCE GatherMatcher WITH
       Data <- Payload, queue <- [c \in Channel |-> match[c].queue],
       ready <- [c \in Channel |-> match[c].ready],
       sent <- <<>>, rounds <- <<>>

-----------------------------------------------------------------------------
(* Program threads.                                                        *)

Step(p, c)   == pos[p][c] + 1
OpAt(p, c)   == prog[c][Step(p, c)]
Arg(c, k, p) == [ch |-> c, op |-> k, party |-> p]

\* init holds the lock until the connection round is over; a call then needs
\* the process and its send queue.
Calls(p, c, o) ==
  /\ proc[p] = "up"
  /\ pos[p][c] < Len(prog[c]) /\ OpAt(p, c) = o
  /\ c # MainChannel => pos[p][MainChannel] >= Len(ConnectRound)

Returns(p, c, v) ==
  /\ pos' = [pos EXCEPT ![p][c] = @ + 1]
  /\ ret' = [ret EXCEPT ![p][c] = v]
  /\ UNCHANGED <<prog, proc>>

Single(v) == [kind |-> "Single", bytes |-> v]
Multi(f)  == [kind |-> "Multi", slots |-> f]
Shutdown  == [kind |-> "Shutdown"]

Enqueue(p, c, d) ==
  /\ sendq' = [sendq EXCEPT ![p] = Append(@, [ch |-> c, data |-> d])]
  /\ UNCHANGED <<writing, shut, sock, recvVars>>

Dequeue(p, c) ==
  /\ recvq' = [recvq EXCEPT ![p][c] = Tail(@)]
  /\ UNCHANGED <<sendVars, sock, inbuf, from, closed, match>>

\* send_to_master, at a worker: it does not wait.
GatherWorker(w, c) ==
  /\ Calls(w, c, "gather")
  /\ Enqueue(w, c, Single(Arg(c, Step(w, c), w)))
  /\ Returns(w, c, NoData)

\* send_to_master, at the master: it waits for a round and fills in its slot.
GatherMaster(c) ==
  /\ Calls(Master, c, "gather")
  /\ recvq[Master][c] # <<>>
  /\ Dequeue(Master, c)
  /\ Returns(Master, c, Multi([Head(recvq[Master][c])
                           EXCEPT ![Master] = Arg(c, Step(Master, c), Master)]))

\* recv_from_master, at the master: it does not wait.
ScatterMaster(c) ==
  LET slots == [p \in Party |-> Arg(c, Step(Master, c), p)] IN
  /\ Calls(Master, c, "scatter")
  /\ Enqueue(Master, c, Multi(slots))
  /\ Returns(Master, c, Single(slots[Master]))

\* recv_from_master_uniform, at the master.
UniformMaster(c) ==
  LET v == Arg(c, Step(Master, c), Master) IN
  /\ Calls(Master, c, "uniform")
  /\ Enqueue(Master, c, Single(v))
  /\ Returns(Master, c, Single(v))

\* recv_from_master and recv_from_master_uniform, at a worker.
ReceiveWorker(w, c) ==
  /\ Calls(w, c, "scatter") \/ Calls(w, c, "uniform")
  /\ recvq[w][c] # <<>>
  /\ Dequeue(w, c)
  /\ Returns(w, c, Single(Head(recvq[w][c])))

\* Faulty variant: deinit may come before the program has ended.
Finished_Round(p) == pos[p][MainChannel] >= Len(ConnectRound)

Finished(p) == \A c \in Channel : pos[p][c] = Len(prog[c])

\* deinit: its write lock waits for the calls of all the threads.
Deinit(p) ==
  /\ proc[p] = "up" /\ Finished(p)
  /\ proc' = [proc EXCEPT ![p] = "joining"]
  /\ Enqueue(p, MainChannel, Shutdown)
  /\ UNCHANGED mainVars

\* The send thread is joined, the receive thread is not: it ends with main.
JoinSender(p) ==
  /\ proc[p] = "joining" /\ shut[p]
  /\ proc' = [proc EXCEPT ![p] = "exited"]
  /\ UNCHANGED <<mainVars, sendVars, sock, recvVars>>

-----------------------------------------------------------------------------
(* Death of a process.  The release profile has panic = "abort": a panic   *)
(* of any thread ends the process.  Its memory goes, and its sockets are   *)
(* reset: the peers may lose the end of what it had written.               *)

NoFun == [q \in {} |-> NoData]

Abort(p) ==
  /\ proc' = [proc EXCEPT ![p] = "aborted"]
  /\ sendq' = [sendq EXCEPT ![p] = <<>>]
  /\ writing' = [writing EXCEPT ![p] = NoFun]
  /\ inbuf' = [inbuf EXCEPT ![p] = <<>>]
  /\ from' = [from EXCEPT ![p] = NoData]
  /\ recvq' = [recvq EXCEPT ![p] = [c \in Channel |-> <<>>]]
  /\ \E kept \in [Party -> 0..SockCap] :
       /\ \A q \in Party : kept[q] =< Len(sock[p][q])
       /\ sock' = [s \in Party |-> [q \in Party |->
                     IF s = p THEN SubSeq(sock[p][q], 1, kept[q])
                     ELSE IF q = p THEN <<>> ELSE sock[s][q]]]
  /\ UNCHANGED <<mainVars, shut, closed, match>>

Alive(p) == proc[p] \in {"up", "joining"}

Crash(p) == p \in Crashable /\ Alive(p) /\ Abort(p)

\* Faulty variant: the receive thread never drops its ends of the channels.
ReceiveFails_Never(w, c) == FALSE

\* A worker's receive thread has ended and dropped its ends of the channels:
\* recv().unwrap() takes what is left and panics after that.
ReceiveFails(w, c) ==
  /\ Calls(w, c, "scatter") \/ Calls(w, c, "uniform")
  /\ recvq[w][c] = <<>> /\ closed[w] # {} /\ from[w] = NoData
  /\ Abort(w)

-----------------------------------------------------------------------------
(* The send thread.                                                        *)

SenderIdle(p) == Alive(p) /\ writing[p] = NoFun /\ sendq[p] # <<>>
Entry(p)      == Head(sendq[p])

Peers(p)      == IF p = Master THEN Worker ELSE {Master}

\* What an entry has for peer q.
MessageTo(e, q) ==
  [ch |-> e.ch, bytes |-> IF e.data.kind = "Multi" THEN e.data.slots[q] ELSE e.data.bytes]

\* Faulty variant: every peer is written the first slot.
TakeEntry_FirstSlot(p) ==
  /\ SenderIdle(p) /\ Entry(p).data.kind # "Shutdown"
  /\ sendq' = [sendq EXCEPT ![p] = Tail(@)]
  /\ writing' = [writing EXCEPT ![p] = [q \in Peers(p) |-> MessageTo(Entry(p), Master)]]
  /\ UNCHANGED <<mainVars, proc, shut, sock, recvVars>>

\* It takes an entry: one message for every peer it is to write to.
TakeEntry(p) ==
  /\ SenderIdle(p) /\ Entry(p).data.kind # "Shutdown"
  /\ sendq' = [sendq EXCEPT ![p] = Tail(@)]
  /\ writing' = [writing EXCEPT ![p] = [q \in Peers(p) |-> MessageTo(Entry(p), q)]]
  /\ UNCHANGED <<mainVars, proc, shut, sock, recvVars>>

\* The peer's end is there to be written to.
Open(q) == Alive(q) /\ ~shut[q]

Written(p, q) ==
  /\ writing' = [writing EXCEPT ![p] = Restrict(@, DOMAIN @ \ {q})]
  /\ UNCHANGED <<mainVars, proc, sendq, shut, recvVars>>

\* write_data to one peer.  The master writes to its peers in parallel, so
\* in any order; a full socket makes the writer wait.
Write(p, q) ==
  /\ Alive(p) /\ q \in DOMAIN writing[p]
  /\ \/ /\ Open(q) /\ Len(sock[p][q]) < SockCap
        /\ sock' = [sock EXCEPT ![p][q] = Append(@, writing[p][q])]
        /\ Written(p, q)
     \* the peer has gone: the bytes may still go into the local buffer
     \/ ~Open(q) /\ Written(p, q) /\ UNCHANGED sock
     \* or the write fails, and panics
     \/ ~Open(q) /\ Abort(p)

\* Faulty variant: Shutdown overtakes what is in the queue.
TakeShutdown_Early(p) ==
  /\ Alive(p) /\ writing[p] = NoFun
  /\ \E i \in DOMAIN sendq[p] : sendq[p][i].data.kind = "Shutdown"
  /\ sendq' = [sendq EXCEPT ![p] = <<>>]
  /\ shut' = [shut EXCEPT ![p] = TRUE]
  /\ UNCHANGED <<mainVars, proc, writing, sock, recvVars>>

\* Data::Shutdown: everything queued before it has been written.
TakeShutdown(p) ==
  /\ SenderIdle(p) /\ Entry(p).data.kind = "Shutdown"
  /\ sendq' = [sendq EXCEPT ![p] = Tail(@)]
  /\ shut' = [shut EXCEPT ![p] = TRUE]
  /\ UNCHANGED <<mainVars, proc, writing, sock, recvVars>>

-----------------------------------------------------------------------------
(* The receive thread.                                                     *)

\* A read that finds the buffer empty returns 0, or an error: both end the
\* stream.  A shutdown of either side does that, and so does a death.
AtEnd(p, q) == shut[p] \/ shut[q] \/ ~Alive(q)

\* Faulty variant: a stream is taken for ended after one event.
ReadEvent_Once(p, q) ==
  /\ Alive(p) /\ from[p] = NoData /\ q \in Peers(p) \ closed[p]
  /\ sock[q][p] # <<>> \/ AtEnd(p, q)
  /\ inbuf' = [inbuf EXCEPT ![p] = sock[q][p]]
  /\ sock' = [sock EXCEPT ![q][p] = <<>>]
  /\ from' = [from EXCEPT ![p] = q]
  /\ closed' = [closed EXCEPT ![p] = @ \cup {q}]
  /\ UNCHANGED <<mainVars, proc, sendVars, match, recvq>>

\* An event for peer q: read until the socket would block, or has ended.
ReadEvent(p, q) ==
  /\ Alive(p) /\ from[p] = NoData /\ q \in Peers(p) \ closed[p]
  /\ sock[q][p] # <<>> \/ AtEnd(p, q)
  /\ inbuf' = [inbuf EXCEPT ![p] = sock[q][p]]
  /\ sock' = [sock EXCEPT ![q][p] = <<>>]
  /\ from' = [from EXCEPT ![p] = q]
  /\ closed' = [closed EXCEPT ![p] = IF AtEnd(p, q) THEN @ \cup {q} ELSE @]
  /\ UNCHANGED <<mainVars, proc, sendVars, match, recvq>>

\* Faulty variant: the channel in the header is not looked at.
ParseWorker_Main(w) ==
  /\ Alive(w) /\ from[w] # NoData /\ inbuf[w] # <<>>
  /\ recvq' = [recvq EXCEPT ![w][MainChannel] = Append(@, Head(inbuf[w]).bytes)]
  /\ inbuf' = [inbuf EXCEPT ![w] = Tail(@)]
  /\ UNCHANGED <<mainVars, proc, sendVars, sock, from, closed, match>>

\* parse_buffer at a worker: one message to its channel.
ParseWorker(w) ==
  /\ Alive(w) /\ from[w] # NoData /\ inbuf[w] # <<>>
  /\ LET m == Head(inbuf[w]) IN
       recvq' = [recvq EXCEPT ![w][m.ch] = Append(@, m.bytes)]
  /\ inbuf' = [inbuf EXCEPT ![w] = Tail(@)]
  /\ UNCHANGED <<mainVars, proc, sendVars, sock, from, closed, match>>

\* out_messages: one slot per party, the master's own left empty.
OutMessages(heads) == [p \in Party |-> IF p = Master THEN NoData ELSE heads[p]]

\* parse_buffer at the master: one message to the matcher, and on to the
\* program thread of its channel the round that it completes.
ParseMaster ==
  /\ Alive(Master) /\ from[Master] # NoData /\ inbuf[Master] # <<>>
  /\ LET m == Head(inbuf[Master])
         r == M!Accept(match[m.ch], from[Master], m.bytes)
     IN  /\ match' = [match EXCEPT ![m.ch] = r.state]
         /\ recvq' = [recvq EXCEPT ![Master][m.ch] =
                        @ \o [i \in DOMAIN r.out |-> OutMessages(r.out[i])]]
  /\ inbuf' = [inbuf EXCEPT ![Master] = Tail(@)]
  /\ UNCHANGED <<mainVars, proc, sendVars, sock, from, closed>>

\* Everything is parsed: back to poll; a worker whose stream has ended stops
\* (from then on closed[p] leaves it no event).
ParseDone(p) ==
  /\ Alive(p) /\ from[p] # NoData /\ inbuf[p] = <<>>
  /\ from' = [from EXCEPT ![p] = NoData]
  /\ UNCHANGED <<mainVars, proc, sendVars, sock, inbuf, closed, match, recvq>>

-----------------------------------------------------------------------------
Init ==
  /\ \E f \in [Channel -> Bodies] :
       prog = [f EXCEPT ![MainChannel] = ConnectRound \o @]
  /\ pos = [p \in Party |-> [c \in Channel |-> 0]]
  /\ ret = [p \in Party |-> [c \in Channel |-> NoData]]
  /\ proc = [p \in Party |-> "up"]
  /\ sendq = [p \in Party |-> <<>>]
  /\ writing = [p \in Party |-> NoFun]
  /\ shut = [p \in Party |-> FALSE]
  /\ sock = [p \in Party |-> [q \in Party |-> <<>>]]
  /\ inbuf = [p \in Party |-> <<>>]
  /\ from = [p \in Party |-> NoData]
  /\ closed = [p \in Party |-> {}]
  /\ match = [c \in Channel |-> M!NoMessages]
  /\ recvq = [p \in Party |-> [c \in Channel |-> <<>>]]

MasterCall(c)    == GatherMaster(c) \/ ScatterMaster(c) \/ UniformMaster(c)
WorkerCall(w, c) == GatherWorker(w, c) \/ ReceiveWorker(w, c) \/ ReceiveFails(w, c)
SendThread(p)    == TakeEntry(p) \/ TakeShutdown(p) \/ \E q \in Peers(p) : Write(p, q)

Parse(p)         == IF p = Master THEN ParseMaster ELSE ParseWorker(p)
Read(p)          == \E q \in Peers(p) : ReadEvent(p, q)
RecvThread(p)    == Read(p) \/ Parse(p) \/ ParseDone(p)

\* All the processes have gone, and nothing moves any more.
AllGone == (\A p \in Party : ~Alive(p)) /\ UNCHANGED vars

Next ==
  \/ \E c \in Channel : MasterCall(c) \/ \E w \in Worker : WorkerCall(w, c)
  \/ \E p \in Party : Deinit(p) \/ JoinSender(p) \/ SendThread(p) \/ RecvThread(p)
  \/ \E p \in Party : Crash(p)
  \/ AllGone

Spec == Init /\ [][Next]_vars

(* The operating system runs every thread, wakes a thread that waits for a *)
(* channel that has data, and reports a readable socket; the write to each *)
(* peer is a task of its own in rayon's pool.                              *)
Fairness ==
  /\ \A c \in Channel : WF_vars(MasterCall(c))
  /\ \A c \in Channel, w \in Worker : WF_vars(WorkerCall(w, c))
  /\ \A p \in Party :
       /\ WF_vars(Deinit(p)) /\ WF_vars(JoinSender(p))
       /\ WF_vars(TakeEntry(p) \/ TakeShutdown(p))
       /\ \A q \in Party : WF_vars(q \in Peers(p) /\ Write(p, q))
       /\ \A q \in Party : WF_vars(q \in Peers(p) /\ ReadEvent(p, q))
       /\ WF_vars(Parse(p) \/ ParseDone(p))

FairSpec == Spec /\ Fairness

-----------------------------------------------------------------------------
(* Properties.                                                             *)

Message == [ch : Channel, bytes : Payload]
Datum   == [kind : {"Single"}, bytes : Payload]
             \cup [kind : {"Multi"}, slots : [Party -> Payload]] \cup {Shutdown}
Matcher == [queue : [Worker -> Seq(Payload)], ready : Nat]
Round   == {r \in [Party -> Payload \cup {NoData}] : \A w \in Worker : r[w] \in Payload}

TypeOK ==
  /\ prog \in [Channel -> Programs]
  /\ pos \in [Party -> [Channel -> Nat]]
  /\ \A p \in Party, c \in Channel : pos[p][c] =< Len(prog[c])
  /\ DOMAIN ret = Party /\ \A p \in Party : DOMAIN ret[p] = Channel
  /\ proc \in [Party -> {"up", "joining", "exited", "aborted"}]
  /\ sendq \in [Party -> Seq([ch : Channel, data : Datum])]
  /\ \A w \in Worker : \A i \in DOMAIN sendq[w] : sendq[w][i].data.kind # "Multi"
  /\ DOMAIN writing = Party
  /\ \A p \in Party : /\ DOMAIN writing[p] \subseteq Peers(p)
                       /\ writing[p] \in [DOMAIN writing[p] -> Message]
  /\ shut \in [Party -> BOOLEAN]
  /\ sock \in [Party -> [Party -> Seq(Message)]]
  /\ \A p, q \in Party : Len(sock[p][q]) =< SockCap
  /\ inbuf \in [Party -> Seq(Message)]
  /\ DOMAIN from = Party /\ \A p \in Party : from[p] \in Peers(p) \cup {NoData}
  /\ DOMAIN closed = Party /\ \A p \in Party : closed[p] \subseteq Peers(p)
  /\ match \in [Channel -> Matcher]
  /\ DOMAIN recvq = Party
  /\ recvq[Master] \in [Channel -> Seq(Round)]
  /\ \A w \in Worker : recvq[w] \in [Channel -> Seq(Payload)]

\* DeNet, as Collective describes it, is what the threads and sockets
\* implement: every call returns exactly the value of that call of the other
\* side, in program order, on every channel, whatever the other channels and
\* parties do, and with crashes too (a crash only stops a party).
C == INSTANCE Collective

Implements == C!Spec

\* What p sends to q is, oldest first, ready for q's calls on a channel, or in
\* the flow: read and not parsed, in the socket, being written, or queued (a
\* Shutdown, the last entry, carries nothing).
Ready(p, q, c) ==
  IF q = Master
  THEN [i \in DOMAIN recvq[Master][c] |-> recvq[Master][c][i][p]] \o match[c].queue[p]
  ELSE recvq[q][c]

Unparsed(p, q)  == IF from[q] = p THEN inbuf[q] ELSE <<>>
InWriting(p, q) == IF q \in DOMAIN writing[p] THEN <<writing[p][q]>> ELSE <<>>
MessagesTo(s, q) ==
  LET n == Len(s)
      m == IF n > 0 /\ s[n].data.kind = "Shutdown" THEN n - 1 ELSE n
  IN  [i \in 1..m |-> MessageTo(s[i], q)]
Flow(p, q) ==
  (Unparsed(p, q) \o sock[p][q]) \o (InWriting(p, q) \o MessagesTo(sendq[p], q))

\* The arguments, by their calls, of the calls that p has made, q has not
\* completed and in which p is the side that sends.
SentBy(p) == IF p = Master THEN {"scatter", "uniform"} ELSE {"gather"}
Due(p, q, c) ==
  [k \in {k \in (pos[q][c] + 1)..pos[p][c] : prog[c][k] \in SentBy(p)} |->
     Arg(c, k, IF prog[c][k] = "scatter" THEN q ELSE p)]

\* The payloads r and then those of channel c in f are the due ones, in the
\* order of their calls, each once; the last ones may lack if the flow is cut.
Carries(r, f, c, due, cut) ==
  LET Of(j) == f[j].ch = c IN
  /\ \A i \in DOMAIN r : r[i].op \in DOMAIN due /\ r[i] = due[r[i].op]
  /\ \A j \in DOMAIN f : Of(j) =>
       f[j].bytes.op \in DOMAIN due /\ f[j].bytes = due[f[j].bytes.op]
  /\ \A i, j \in DOMAIN r : i < j => r[i].op < r[j].op
  /\ \A i, j \in DOMAIN f : i < j /\ Of(i) /\ Of(j) => f[i].bytes.op < f[j].bytes.op
  /\ \A i \in DOMAIN r, j \in DOMAIN f : Of(j) => r[i].op < f[j].bytes.op
  /\ \A k \in DOMAIN due :
       \/ \E i \in DOMAIN r : r[i].op = k
       \/ \E j \in DOMAIN f : Of(j) /\ f[j].bytes.op = k
       \/ /\ cut
          /\ \A i \in DOMAIN r : r[i].op < k
          /\ \A j \in DOMAIN f : Of(j) => f[j].bytes.op < k

\* The pipeline from a party to a peer holds exactly the payloads of the calls
\* one side has made and the other has yet to complete, in the order of the
\* program: nothing is lost, duplicated, reordered or moved to another channel
\* in any of the five buffers a message goes through.  From a party that has
\* died comes what it sent first, without a gap.
PipelineExact ==
  /\ TypeOK
  /\ \A p \in Party : \A q \in Peers(p), c \in Channel :
       proc[q] # "aborted" =>
         Carries(Ready(p, q, c), Flow(p, q), c, Due(p, q, c), proc[p] = "aborted")

\* A process that shuts its sockets down has taken everything that was sent
\* to it, and nothing more is being sent: shutdown(Both) and the exit that
\* follows cannot reset a connection that still carries data.  The 3 seconds
\* deinit sleeps for are not what this relies on.
NothingUnreadAtShutdown ==
  \A p \in Party : shut[p] =>
    /\ inbuf[p] = <<>>
    /\ \A c \in Channel : recvq[p][c] = <<>>
    /\ \A q \in Peers(p) :
         /\ sock[q][p] = <<>> /\ p \notin DOMAIN writing[q]
         /\ \A i \in DOMAIN sendq[q] : sendq[q][i].data.kind = "Shutdown"
    /\ p = Master => \A c \in Channel, w \in Worker : match[c].queue[w] = <<>>

\* Without a crash no thread panics: not the writer on a stream its peer has
\* shut down, nor a call on the channels of a receive thread that has ended.
NoPanic == \A p \in Party : proc[p] # "aborted"

\* Without a crash every party completes its calls and deinit returns,
\* although sockets are bounded and there is one writer for all channels.
Termination == <>(\A p \in Party : proc[p] = "exited")

\* When the master dies no worker is left hanging: each one finishes or
\* panics.  (The converse does not hold: see the README.)
MasterDeathEndsAll ==
  proc[Master] = "aborted" ~> \A p \in Party : ~Alive(p)
=============================================================================
