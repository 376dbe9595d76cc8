# A formal model of ligesis-pcs

`ligesis-pcs` is a Rust library of hash-based polynomial commitment schemes
(Ligero, DeepFold, LigeSIS) with distributed provers.  A distributed prover is
an SPMD program: every party runs the same function over `deNetwork`, a star
of TCP connections between party 0 (the master) and the other parties (the
workers).  This directory holds TLA+ modules of the parts of the system in
which an error is hard to test, the TLC configurations that check them, and
theorems about the core of them with proofs for TLAPS.

Paths below are relative to the repository's root.

## 1. Inventory

| Component | Source | State it keeps | Operations | Modelled by |
|---|---|---|---|---|
| Collective calls | `deNetwork/src/lib.rs` (trait `DeNet`) | traffic counters (`Stats`) | `send_bytes_to_master`, `recv_bytes_from_master`, `recv_bytes_from_master_uniform`, `barrier`, `master_compute` | `Collective` |
| Connection set-up | `deNetwork/src/multi.rs` (`init_from_path`, `connect_to_all`, `deinit`/`uninit`, `is_init`) | `id`, `peers`, `connections`, thread handles | read the hosts, bind or connect with retries, start the threads, one round | `Connection` |
| Send and receive threads | `multi.rs` (`send_thread`, `recv_thread`, `send_to_master`, `recv_from_master`, `recv_from_master_uniform`) | one shared send queue, one receive queue per channel, the master's queues per channel and peer with `num_peers_ready` | the calls, the two threads, `Shutdown` | `DeNetwork`, `GatherMatcher` |
| Framing | `multi.rs` (`write_data`, `parse_buffer`, `read_to_buffer`) | bytes written, bytes read and not parsed | partial writes, reads until the socket would block, parsing | `Framing` |
| Typed messages | `deNetwork/src/channel.rs` | none | serialize/deserialize around the calls | message types in `DDeepFold`, `DChunkedBatch`, `DLigeSIS` |
| Merkle trees | `ligesis-pcs/src/hash/mod.rs`, `deepfold/utils.rs` | digest layers, leaf size | build, prove, verify, `open_at`, `verify_at`, `d_prove` | `MerkleTree`, `DDeepFold`, `DChunkedBatch` |
| DeepFold, one polynomial | `deepfold/{mod,commit,open,verify,ext}.rs` | trees, roots, folded codewords, query position, per party | `deepfold_commit`, `deepfold_open`, their distributed twins, `deepfold_verify`, `deepfold_open_at_ext_point` and its verifier | `Folding`, `DeepFold`, `DDeepFold` |
| DeepFold, batches | `deepfold/open.rs`, `ext.rs`, `multi.rs` | as above, for several polynomials | `deepfold_batch_open`, `deepfold_d_batch_open`, both at extension points, and their verifiers | the same modules; `multi.rs` is not |
| DeepFold, chunked batches | `deepfold/chunked_batch.rs` | chunks, matrix rows, columns per party, upper tree | `d_chunked_batch_commit`, the opening LigeSIS uses and its queries, `split_polynomial_into_chunks` | `ChunkedBatch`, `DChunkedBatch`; the base-field openings are not |
| LigeSIS | `ligesis/*.rs` | the encoded rows, the portions of what is committed, per party | `d_setup`, `ligesis_commit`, `ligesis_open`, `ligesis_verify`, `ligesis_d_commit`, `ligesis_d_open`, the SIS hash | `LigeSIS`, `DLigeSIS` |
| Sumcheck | `sumcheck/*.rs`, `ext_sumcheck.rs` | partially folded polynomials | the four provers, distributed and not, and their verifiers; the reduction of a claim at an extension point | `VirtualPolynomial`, `Sumcheck`, `DSumcheck`, `ExtField` |
| Polynomials and helpers | `arithmetic/src/*.rs`, `utils.rs`, `poly_utils.rs`, `rscode.rs` | none | tables and their binding, tensors, interpolation, compression, division, matrices and bits | `Vectors`, `Polynomials`, `Folding`, `LigeSIS` |
| Transcript | `transcript/src/lib.rs` | the hash state | absorb, squeeze, draw indices | the list of what was absorbed and drawn; challenges of an oracle |
| Ligero, `util` | | none | sequential arithmetic | no |
| Drivers, scripts, third-party crates | | | | no |

### How the components interact

* A program thread of a party makes the calls of one channel.  A call of the
  sending side puts an entry into the send queue, which all the channels of
  the process share, and returns; a call of the receiving side waits on the
  queue of its channel.
* The send thread is the only writer of the sockets; the master's writes to
  its peers in parallel (rayon) and takes the next entry when all are done.
* The receive thread is the only reader.  At a worker it moves messages to the
  queue of their channel.  At the master it keeps a queue per channel and peer
  and passes a *round*, one message of every peer, to the program thread.
* The provers are written on the typed calls.  A message carries no name, only
  a channel and bytes: what it means is decided by the place in the program
  where the receiver stands.  Only the master has a transcript; challenges
  reach the workers by a broadcast.
* Nothing is persisted.  A panic of any thread ends its process
  (`panic = "abort"` in the release profile).

### What is hard, and what makes each part correct

* **Matching** – workers run ahead of each other, and the code emits at most
  one round per message.  Correct: slot *w* of round *k* is the *k*-th message
  of *w*, and a complete round is never left behind.
* **Threads** – several channels share a send queue, a writer and a stream.
  Correct: every call returns the value of the same call of the other side;
  barriers are barriers; nobody hangs with bounded sockets; `deinit` loses
  nothing.
* **Failures** – the death of the master must end the workers.
* **Bytes** – reads and writes cut messages anywhere, readiness is
  edge-triggered, the end of the stream may come with the last messages.
* **Start and end** – processes start in any order; `init` must return to
  nobody before the star is complete.
* **Mirrored branches** – the two sides of `am_master` must make the same
  calls in the same order, whatever the relative speed of the parties, and
  agree on the round, on the position of a query and on the owner of a leaf.
  Correct: the distributed prover makes the proof of the single machine.
* **Order of the transcript** – only the master has one, and it goes through
  rounds in which all take part and rounds that are its own.  Correct: it
  absorbs what the prover of one machine does, in that order, and the verifier
  that replays the proof absorbs the same.
* **The same value along two ways** – a party sums over its block, the verifier
  evaluates at a point; eq tables and tensors are built from opposite ends; the
  hash is computed in machine words and checked in the field.  Correct: they
  agree.
* **Portions** – a polynomial is spread over the parties by the high bits of
  the position; portions smaller than a chunk go to the master, larger ones
  stay, and every party works out the number of chunks, the length of a column
  and the length of the sumcheck for itself.  Correct: the rows are in the
  order of a single machine, and what the master adds up belongs together.

`PROJECT.json` lists these hazards one by one with the lines where they bite
and the properties that cover them.

## 2. Modules

```
   DLigeSIS ───────implements──▶ LigeSIS        } over the sum-checks, codes
   DChunkedBatch ──implements──▶ ChunkedBatch   } and polynomials of
   DDeepFold ──────implements──▶ DeepFold       } VirtualPolynomial, Folding,
   DSumcheck ──────implements──▶ Sumcheck       } ExtField, Polynomials,
       │                                        } Vectors; trees of MerkleTree
       │ run over FIFO queues, which is what
       ▼
   DeNetwork ──implements──▶ Collective
       │ composes program threads, send and receive threads and
       ├── GatherMatcher   (instance M: the master's closure)
       │ and relies on
       ├── Framing         (a stream moves whole messages in order)
       └── Connection      (the star is complete before the first call)
```

**Collective** is the abstract specification of `DeNet`: lists of calls
`prog[c]`, the place `pos[p][c]` of every party, and what the last call
returned, `ret[p][c]`.  `Gather` waits for the contribution of every worker to
*this* call, `Obtain` for the master's hand-out in *this* call; the other two
actions do not wait.  Payloads are named by channel, call and party, so a late,
early or misrouted value is another value.  `barrier` and `master_compute` are
a gather followed by a hand-out.

**GatherMatcher** is the closure the master's `recv_thread` gives to
`parse_buffer`.  `queue` and `ready` are `channel_messages` and
`num_peers_ready`.  `Accept` is one call of the closure: push, compare, pop.
It is an operator on one channel's state, used by the module's own `Receive`
and by `DeNetwork`.  `sent` and `rounds` are history variables.

**Framing** is one direction of one connection in bytes.  `NextMessage` and
`WriteSome` are `write_data` (with the part of the data still to be written);
`PollReturns`, `ReadSome`, `ReadStops`, `ParseOne` and `ParseStops` are the
loop of `recv_thread` with `read_to_buffer` and `parse_buffer`.  `event` is
the edge that `poll` reports.  The length of the header is a little-endian
number of `LenBytes` digits to the base `Base` (8 and 256 in the code): the
digit *i* of a length is `Shifted(n)[i] % Base`, with `Shifted(n)[i]` what is
left of `n` after *i* shifts, and a body has a length that fits
(`MessagesAssumption`), as every `usize` fits into a `u64`.

**DeNetwork** is the running system in messages: program threads, `sendq`, the
send thread (`TakeEntry`, one `Write` per peer, `TakeShutdown`), bounded
sockets, the receive thread (`ReadEvent`, `ParseMaster`/`ParseWorker`,
`ParseDone`), the matcher and `recvq`; `Deinit` and `JoinSender`; `Crash` and
the panics the code can reach (`ReceiveFails`, a failing `Write`).  The
program of channel 0 starts with the round of `connect_to_all`.  The module
keeps `prog`, `pos` and `ret` under the names of `Collective`, so that the
refinement mapping is the identity on them.

**Connection** is `init_from_file` for all the parties: `StartMaster` /
`StartWorker`, the master's loop `Connect` / `Refused` / `ConnectFails`, the
worker's `Accept`, the first round, and `Deinit`.  `StartFails` and
`AcceptFails` are the assertions and `unwrap`s of a process that cannot read its
configuration or bind its address, or whose `accept` fails.  The wait for a peer is
counted in `waited` (history) next to the code's own `ms_waited` (`MsWaited`).

**Vectors** and **Polynomials** are the data of the provers: a `Vec` is a
function on `0..n-1`, the field the integers modulo a small prime, a
multilinear polynomial its table of evaluations.  The operators are the
functions of `arithmetic`, `utils.rs` and `poly_utils.rs`.  **ExtField** has
the quadratic extension as pairs and the second half of `ext_sumcheck.rs`.
**VirtualPolynomial** has sums of products of tables, which share the tables
they have in common, and a round of a sum-check as a function.

**Sumcheck** is the four provers of one machine, one action a round, with their
verifiers: `virtual`, `ext`, `arbitrary` and `cubic`.  A challenge is any of
`Challenges`.  `transcript` lists what was appended; `Replay` is the list the
verifier makes.  **DSumcheck** is the same with a block of every table at every
party: local rounds in which the master adds up the shares and sends the
challenge back (`WorkerRound`, `MasterRound`, `WorkerChallenge`), the single
values that are left (`WorkerFinal`, `MasterFinal`) and the master's own rounds
(`PartyRound`).

**MerkleTree** has the trees as functions on `0..n-1`, with digests as terms:
equal only if made in the same way of the same things, which is SHA-256
without collisions.  **Folding** is the algebra of DeepFold: the codeword on a
cyclic group, a fold of the evaluations, the coefficients and the codeword at a
challenge, the linear polynomials that tie a fold to the value at the point,
and the verifier's checks of them.  **DeepFold** is the prover of one machine
for the four kinds of opening (`open`, `batch`, `ext`, `batch_ext`): the
commitments, a root per round, the queries, and for a batch the openings of the
committed codewords; and the whole verifier.

**DDeepFold** is `deepfold_d_commit` of every polynomial and then
`deepfold_d_open`, `deepfold_d_batch_open` or its twin at extension points, with
`d_prove`.  An
action takes one party from one blocking call to the next; the messages between
two of the master's blocking calls are sent in one action, since sending does
not wait and the queues are FIFO.  Every message carries the type the code
serializes; a receiver that expects another type is a panic (`Misread`), as
are an `unwrap` of another party's `None` and a remainder by a step of zero.

**ChunkedBatch** is the batch commitment on one machine: `Commit` cuts the
polynomials into chunks (`Split`), makes a row of every chunk and hashes the
columns; `Round` and `Query` fold the polynomial combined from all the chunks
and open it, with a column of every commitment; `VerifyQuery` is the Merkle and
collinearity part of the verifier.  An evaluation is `<<c, q, i>>` (commitment,
polynomial, position), an element of a row the chunk and the position, and an
element of the combined codeword `<<i, x>>`.

**DChunkedBatch** is `d_chunked_batch_commit`, called once for every
commitment, followed by `d_multi_chunked_batch_open_at_ext_point` with the
sumcheck session of `d_prove` and the queries of `d_query_merkle_proof`.  Its
style is that of `DDeepFold`.  The data the code computes from are kept as
terms: a row says of which chunk it is, so that a chunk in the wrong place, a
column of another party and a share of another polynomial are other values.
`sums` is history: the contributions the master has added up so far, with
which polynomials they are about.  The functions contain no barrier: those
around them are LigeSIS's, so that the module shows that they need none.

**LigeSIS** is the commitment, the opening and the verifier of one machine, one
action from one use of the transcript or of a commitment to the next: the
encoded rows `MatFPrime`, the hash `MatH` in words of `WORD` bits, the row `a`,
the bits `bI` of the columns the transcript picks, the sum-checks in their
order, and the nine points that are opened.  A commitment is the list of the
vectors it binds to and an opening gives their values, which is what
`DChunkedBatch` is about.

**DLigeSIS** is the commitment to A of `d_setup`, `ligesis_d_commit` and
`ligesis_d_open`, from barrier to barrier and call to call on both sides.
`local[p]` holds what party *p* has computed or received, under the names of
the code.  The three collective sub-protocols (`d_chunked_batch_commit`,
`d_run_ext_sumcheck`, the opening) are one call each: the parties hand in their
portions and the master has the result.  Each has a module of its own that shows
that.  The variables of `LigeSIS` are the master's, so that the refinement
mapping is the identity on them.

Modules whose name ends with `_proofs` hold the theorems about the module they
are named after and the lemmas of it; **DataLemmas** has the lemmas that are not
about one module: recursive functions on the naturals exist and have their
values, a sequence can be cut in two and the parts can be cut again, the
flattening of a sequence of sequences is the concatenation of its elements, and
what appending, concatenating and taking the tail do to a sequence of which
nobody says what it is of (`IsSeq`), sums of numbers over finite sets of positions
(`SumOver`), sequences that map to one another entry by entry (`Maps`), and the
powers of two.

Modules whose name starts with `MC` hold the small constants of the runs.
Operators whose comment starts with "Faulty variant" are mistakes one could
make in the code; nothing uses them in the specifications.  They are what the
properties were tried against: each property fails when one of them takes the
place of the definition it varies.

## 3. Runs

| Run | Question | Properties |
|---|---|---|
| `collective` | Is a gather followed by a hand-out a barrier, although only the receiving side of a call blocks? | `BarrierSafe` |
| `matcher` | Does the master pair the messages of its peers correctly, and at once, in any order of arrival? | `ReadyExact`, `RoundsAligned`, `NoRoundHeldBack`, `NothingLost` |
| `net_programs` | Does every program run to its end and shut down in order? | `NothingUnreadAtShutdown`, `NoPanic`, `Termination` |
| `net_crash` | Do channels that share queues, threads and streams stay apart, and what if any process dies at any point? | `PipelineExact`, `Implements`, `MasterDeathEndsAll` |
| `framing` | Do partial reads and writes, edges, ends of stream and resets lose or break a message? | `StreamExact`, `NoLostWakeup`, `AllReceived` |
| `connect` | Do all the parties come up, in any order of start? | `TypeOK`, `ReadyMeansAllUp`, `NoDoubleConnect`, `AllReady`, `LossReachesJoined` |
| `sumcheck` | Are the distributed proofs those of one machine, does the verifier draw the same challenges and end in the value of the polynomial, and do the ways in which values are computed agree? | `VerifierAccepts`, `MultilinearAgree`, `UnivariateAgree`, `ReductionExact`, `Implements` |
| `ddeepfold` | Do the distributed openings, of one polynomial, of a batch and at extension points, make the proof of the single machine, without a party misreading another? | `NoPanic`, `VerifierAccepts`, `Binding`, `Implements` |
| `dchunked` | Do the distributed commitments and the opening come out as on a single machine, with portions of all sizes? | `NoPanic`, `PartiesAgree`, `RowsAgree`, `SumsComplete`, `VerifierAccepts`, `Implements`, `Termination` |
| `dligesis` | Do the distributed commitment and opening of LigeSIS come out as on a single machine, does the verifier accept, and are the sums it never looks at right? | `NoPanic`, `VerifierAccepts`, `SumsExact`, `Implements` |
| `connect_timeout`, `deepfold_ext` | Two statements of the repository that the code does not meet (section 5). | `GivesUpInTime`, `ExtProofAccepted` |

The invariants of types (`TypeOK`) of the five network modules are proved:
`DeNetwork`'s and `Framing`'s are conjuncts of `PipelineExact` and
`StreamExact`.  Those of the provers are conjuncts of their `NoPanic`.  That
barriers work across processes is the theorem `NetworkBarrier`.

### Bounds, and why they are enough

* `collective`: two workers and every program of three calls.  The barrier
  relates two parties and two calls; the theorem removes the bounds.
* `matcher`: three workers with three messages each.  A worker may be two
  rounds ahead of one and one ahead of another, so a pop can leave one queue
  empty and another not.  The theorems remove the bounds.
* `net_programs`: every body of up to two calls, after the round of
  `connect_to_all` (so up to four calls), sockets of **one** message, no
  crashes.  A socket of one is the worst case for a writer that blocks.
  `net_crash`: two channels with a barrier on each, sockets of two messages, so
  that messages of both channels are in one socket, and all parties
  crashable; a crash keeps any prefix of what the dead process had in its
  sockets.
* `framing`: two messages with bodies of up to three bytes, headers of three
  bytes (two digits to the base 2, so that both digits of a length matter), a
  socket of four bytes and reads of at most three: a message does not fit into
  the socket nor into a read, and a read can hold the end of one message and
  the start of the next.
* `connect`: a master and three workers, so that there are workers that have
  joined, that listen, and that are not there when the master gives up.  The
  times are small numbers in the order of the code's (10 < 3000 < 30000).
* `sumcheck`: four parties with two variables each of their own, so that there
  is a first, a later and a last round of both phases.  The field is that of 13
  elements: 7 is not a square in it, as in the code's field, and it has the
  fourth roots of unity that a small code needs.  The products share tables,
  one holds a table twice, and they have different degrees.  The challenges are
  outside of the points 0, 1, 2, ... at which the messages are evaluated
  (`ChallengeAssumption`), where the code's interpolation divides by zero.  The
  two properties on helpers are evaluated in the initial states, at all
  points made of the challenges and, in one variable, at all field elements.
* `ddeepfold`: four parties, polynomials of four variables over the field of
  97 elements with codewords of 32 elements, two queries.  Leaf sizes and rate
  are a part of the code's (16, 8, 4 become 4, 2, 2), which keeps the
  relation the code depends on: the smallest codeword with a tree is not shorter
  than the leaf of the placeholder tree (`MerkleTree::default`).  The codewords
  have 8, 4, 2 and 1 leaves: some rounds are spread and some are not, and
  the master alone switches between the two.  The query positions are ones in
  the leaves of different parties and on both sides of the folds.  A batch has
  three points and two polynomials, so that a tree is opened once for two
  of its points.  There are two records of challenges: the proofs differ, the
  control does not.
* `dchunked`: four parties, two commitments of three polynomials each, chunks
  of eight evaluations and codewords of sixteen elements.  The portions are a
  chunk at each party, two chunks at the master, half a chunk that is padded,
  two chunks at each party, and exactly one chunk at the master; small and
  large ones alternate, so that the order of arrival is not the order of the
  rows.  The three points are about both commitments, two about one of them
  and they are about polynomials of both kinds.  Both leaf sizes (16 and 8 in
  the code) and the rate (4) are 2.  Each party has four columns; of the two
  folded codewords with a tree, one has as many leaves as there are parties and
  is spread, the other is not.  The query positions are in columns of the
  master and of two workers.
* `dligesis`: four parties with two of the eight rows each, and four columns,
  so that a party has a variable of its own among those of the rows and a
  portion of every vector.  The field is that of 241 elements: elements are
  bytes, 7 is not a square, and there are the eighth roots of unity of the
  code.  Words have 14 bits, just enough for the sum of all the entries of a row
  of A, as the code's entries of 40 bits are chosen for its words.  One point
  has a variable less than the polynomial; the columns picked differ
  in the two records of challenges.
* `deepfold_ext`: four variables; the error needs three.
* Symmetry is used where only invariants and the safety refinement are
  checked, over the workers, which the modules never tell apart, and over the
  payloads in `matcher`.

### Fairness

Only weak fairness is used.  It stands for: the operating system runs every
runnable thread; a thread waiting on a channel is woken when there is an
entry; `poll` reports a readable socket; a writer into a socket with room goes
on.  In `DeNetwork` the write to each peer has its own fairness because each
is a task of rayon's pool (which needs as many pool threads as there are peers
whose socket stays full; the receivers empty them without waiting for
anybody).  In `Connection` every process is started in the end, and
failures need not happen (they have no fairness).  In
`DChunkedBatch` every party runs, which `Termination` of `DeNetwork`
justifies.  `DSumcheck`, `DDeepFold` and `DLigeSIS` state no fairness and need
none: they have no loops, every step takes a party further in its program and a
party that is done stutters by an explicit action, so that TLC's search for
deadlocks finds any state in which somebody waits for ever.

`CHECK_DEADLOCK FALSE` is used in the runs in which the system may stop: after
crashes, when a connection attempt has failed for good, after `deinit`, and in
`deepfold_ext`, whose prover ends.

## 4. Proofs

`Collective_proofs`, `GatherMatcher_proofs`, `Connection_proofs`,
`Framing_proofs`, `DeNetwork_proofs`, `DChunkedBatch_proofs`, `DDeepFold_proofs` and
`DataLemmas` are checked by TLAPS for all values of the constants.  With them all
the safety properties of the network, from bytes to collective calls, are theorems,
and so are that the two branches of the chunked batch and those of DeepFold, the
longest protocols that run on it, fit together, that the master of a chunked batch
assembles its matrices in one order, and that all parties count the chunks alike.

**`MatcherCorrect`, `NoRoundWaits`, `QueuesLoseNothing`, `NeverHeldBack`**
(GatherMatcher): type correctness,
`ReadyExact`, `RoundsAligned`, `NothingLost` and `NoRoundHeldBack`, for any
non-empty finite set of workers, any channels and payloads and any number of
messages.  The argument is the one the code relies on and does not state.  Call
a channel *settled* when the count is the number of non-empty queues and some
queue is empty.  A push makes the count exact again (`PushCounts`); it
completes a round only if its own queue was empty (`PushCompletes`); that
queue then holds one message and is empty again after the pop, so popping once
is enough to settle the channel (`PopSettles`).  `ReadyExact` alone would not
be inductive without the types, nor `RoundsAligned` without `NothingLost`,
which says where the messages that are not in a round are.

**`BarrierHolds`** (Collective): with any number of parties
and channels and programs of any length, whoever returns from the second half
of a barrier knows that all have gone through the first.  `Causality`, that the
guards of `Gather` and `Obtain` stay true once they have been met, is inductive
together with the types; the barrier is two uses of it, from the waiting party
to the master and from the master to everybody.  That the code waits as these
guards say is not shown here but by `Refinement`.

**`InitReturnsToAStar`, `WellTyped`, `ComesOnce`** (Connection): for any number of parties,
started in any order, any of which may fail to start, to connect or to accept, whoever has
returned from `init` knows that every party is up with its streams, and no
worker is connected twice.  `ReadyMeansAllUp` says nothing of the way there, so
it is not inductive; the invariant says how far everybody is.  The master has
streams to the first `toId - 1` workers (`Progress`), a worker has
accepted only if it is one of these and has then sent its message of the first
round (a worker that fails before that never will), and an answer exists only if all of these messages have come
(`Answers`): `FullRound` turns the count the code compares into that.

**`Pipeline`, `Refinement`** (DeNetwork): with any number of workers and
channels, any programs, sockets of any size and crashes at any point, what is
under way from one party to another is what the receiver still has to receive,
channel by channel and in order, and what the threads, queues and sockets do is
what `Collective` promises.  The invariant is `PipelineExact` with three things
it needs.

* `Life`: which threads of a party can still be running, that a `Shutdown` is
  only at the end of a send queue and only of a party that has called `deinit`,
  and that a party which is not parsing holds no bytes.  Without it
  `JoinSender` and a message after a shutdown could drop a message.
* `Settled` of every channel's matcher, the invariant of `GatherMatcher`: what is
  ready for the master's thread of what a worker has sent (`Ready`) is the
  column of that worker in the complete rounds followed by its queue, and
  `Accept` extends that by the new message only if a round is popped as soon as
  it is complete.  The lemmas about `Accept` are those of `GatherMatcher_proofs`.
* `IInv` of `Collective_proofs`: that the worker whose message the master takes
  has made the call it belongs to is causality, which `Collective` has proved.

`PipelineExact` is about all that lies between two parties at once (`Flow`: the
send queue, the entry being written, the socket, the bytes being parsed), so
most actions move a message from one part of the flow to the next and leave
the flow as it is; the lemmas about it say that.  Only the call that sends, the
call that receives and a crash change it.  A dead sender's flow is a prefix of
what it would have sent (`CarriesCut`).  The step of `Collective` that a step of
the network implements is the one of the call that returns, and the
value is right because it is the head of what is `Ready`.

**`NetworkBarrier`** follows from `Refinement` and `BarrierHolds`: nothing about
barriers is proved again.

**`NobodyPanics`, `ShutdownReadsAll`** (DeNetwork): if nobody is killed from
outside (`Crashable = {}`), no thread panics, and no connection is shut down with
something unread on it.  The invariant added for them (`Calm`) says how far the
others are when a party has closed its ends: it has run its programs to the
end, and a receiver's program is as long, so its peers have sent it all they
ever will, and by `PipelineExact` it has received all of it.  That a peer has
come as far is `PipelineExact` again, and not a round trip of
acknowledgements, of which the code has none.

**`StreamIsExact`** (Framing): with messages of any length, headers, sockets and
buffers of any size, partial reads and writes and a reset at any time, what the
reader has handed over is what the writer has started on, up to what is under
way; without a reset the bytes under way complete it.  `StreamExact` relates
bytes that may be the middle of a header, which is not inductive: the invariant
`InFlight` names the messages that are not yet parsed (`rest`) and what
is missing of them on the way (`cut`), so that `buf \o sock \o cut` are the bytes of
`rest`.  Without a reset `cut` is what is still to be written.  A write moves
bytes from the one to the other; a reset lengthens `cut` by what the socket
lost.  When the reader parses, the header it sees is the header of the first of
`rest` (two sequences that begin both messages are equal up to the length of a
header), the number in it is that message's length (`RoundTrip`: the digits of
a number that fits give the number back), and what is left in the buffer is the
start of the others.

**`NoWakeupIsLost`** (Framing): a reader that waits for an edge without one
pending has left nothing behind.  `NoLostWakeup` speaks of the reader in poll,
which it reaches from parsing; the invariant adds that while it parses with no
event pending the socket is empty and an ended stream is in `eof` (`Settled`).
Whatever comes in the meantime makes an event (`WriterTellsPoll`).

**`BranchesAgree`, `SumsAreComplete`** (DChunkedBatch): `NoPanic` and
`SumsComplete` with any number of parties (a power of two), commitments,
polynomials, sizes of portions, points, rounds and queries: in no order of
events does a party take the bytes of one call for those of another, and what
the master adds up is the same thing of every party.

`NoPanic` looks at the heads of the queues only, so it is not inductive.  The
argument is that a protocol in lock step has a script, which is nowhere in the code.  Every
transfer has a name `<<call, a, b>>`, where *a* and *b* are the loop counters it
is in (commitment and polynomial, round, query and commitment), and `After` of a
name is the next transfer of the same direction.  What is under way between the
master and a worker carries the names from the one the receiver takes
next (`ToGather`, `Awaits`) to the one the sender sends next (`Sends`, `ToTell`),
each of the type, and where it matters with the value, that its name says (`Between`).
A step that sends appends the name at the end, a step that receives takes the
one at the front, and each of the thirty steps is one or both.  Three more things
are needed for a step to know where it goes next.

* `InPlace`: where a call can be in the loops: which commitment, round and query
  a party can be at in it.
* `Informed`: the worker's targets are the master's once it has been told
  them.  Nobody tells the workers how long the sumcheck is: they compute it from
  the targets, as the master does (`SumcheckRounds`).
* `MasterHas`, `WorkerHas`: how much of each list exists when; with it the
  indices into the advices are inside.

That a worker sends the portions of the polynomials smaller than a chunk in a
burst, and the master gathers them one by one between the large ones that it splits
alone, is `SmallSent`.  `SumsComplete` uses the same names: what the master adds up
are the heads of the queues, so they belong to the same round, and `Exact` says
what a message of that round is.

**`RowsAlwaysAgree`** (DChunkedBatch): `RowsAgree` for any number of parties and
commitments and any sizes.  The master gathers the rows, the coefficients
and the evaluations of the chunks in three calls, and picks each matrix out of
its own list (small polynomials) and the parties' lists (large ones) with
counters that run along; the codeword combined from the one and the polynomial combined
from the other only fit together if all three picks meet the same chunks.  The
invariant `Assembling` says what is true on the way.

* `Counting`: the counts the master has noted so far are those of its
  polynomials (a large one counts the chunks of all parties), and its own list is
  as long as the counts of the small ones add up to.
* `Brought`: what the first two gathers have brought are the rows and the coefficients
  of every party's `LocalChunks`.  That these are all of the same commitment is
  `Exact` of the names in `IInv`.
* `Matrices`: the three matrices have as many entries as each other, and `RowsAgree`.

Every party's portion of a polynomial has the same length, so the same number of
chunks (`PortionSize`, `LocalsAre`), and the ranges `Assemble` cuts out lie
inside the lists (`InMaster`, `InParty`: sums of the first counts do not sink).  Then
a function of the entries can be applied before cutting and flattening or after it
(`AssembledMaps`), and rows and coefficients are functions of the chunk.
Without the bounds that would be wrong: past the end of a list there are no
entries to map, and the code would panic there.

**`PartiesAlwaysAgree`** (DChunkedBatch): `PartiesAgree` for any number of
parties that is a power of two and any sizes.  The master cuts a small polynomial
once its portions are together and counts the chunks it gets; a worker never sees
that polynomial whole and computes the count from its own number of variables and
the logarithm of the number of parties; a polynomial whose portions are not
smaller than a chunk is counted by every party from its own chunks.  The invariant
`Agreeing` says that all of them are noting `CountsOf` of the commitment, an
expression in the sizes alone: the workers and the commitments all of it, the
master as far as it has come, and that the total the commitment says is `NumChunks`,
the sum of it.

* `PartiesArePower`: there are 2^`num_party_vars` parties.  Without
  `PowerAssumption` the logarithm is rounded up and the counts differ.
* `SmallIs`: *N* portions of 2^*m* evaluations make 2^(*m* + log *N*), and these
  make 2^(*m* + log *N* - `BaseMu`) chunks, or one if they are fewer than a chunk is
  long.
* `AssembledLen`: the matrix has as many rows as the counts add up to, because
  `Assemble` goes through the same list, so the total that the master hands out
  is the length of a column.

**`BranchesAgree`** (DDeepFold): `NoPanic` with any number of parties (a power of
two), variables, rate, leaf sizes, polynomials, points, queries and positions, in
each of the three openings.  The types are a part of it: a query stays inside the
current codeword and no list grows past its loop.  The names are as in `DChunkedBatch_proofs`, but
here what is sent decides what follows, so that *a* and *b* do not say everything.  A flag
decides whether leaves follow, and many steps later whether the parties are asked for a proof; a
position whose party it is that answers with `Some`; the list of the first of
equal polynomials how many proofs there are.  So a name is read with `Known`, what the
master has told so far: the positions of all queries and the list.  What was sent with
less known still is what its name says when more is known (`More`, `Grows`), and a
worker that is queries behind answers with what was asked then.

* `Distributed(i)`, that the codeword of level *i* has a leaf for each party, is a
  condition on the sizes alone.  It is the flag (`Says`), the branch of the
  master (`LeavesOf`), and by `HasTrees` the entry of `is_distributed` that
  everybody finds there in every query.
* `IsTree`: in such a level every party has a part of the same size, and the leaf
  size of the whole; so all work out the same `local_beta` and the same
  owner (`OwnerSame`), and it is one of the parties (`OwnerIs`).  In another the leaf size,
  for a worker that of the placeholder, is at most the length of the codeword, and
  the step is not zero.
* `WorkerHas`, `MasterHas`: the current position of a party is the position asked for modulo the
  length of the codeword of its level, as `NextBeta` keeps it (`NextBetaIs`).
* `TreesOf`: how many trees a party has where, in a batch one fewer, since its first tree
  belongs to the first fold; with it the index into them is inside (`TreeAt`).
* The openings of a batch in its commitments go through the same list at all parties
  (`idx[w] = idx[0]`), and the *t*-th position is found again in the *t*-th proof.

That the sizes fit rests on powers of two (`Leaves`): a codeword that is long enough
to be spread has a multiple of *N* leaves, and once one is too short all that follow are
(`~Distributed(i) => ~Distributed(i + 1)`), which is why nothing is skipped in the
round loop or the proof loop when a worker that learns only flags walks through them
with a master that looks at lengths.

The backends know of a power only that it is an integer, and its definition is an
induction that they do not see.  What a power of two is follows in `DataLemmas`
from how many subsets a set has, a theorem of the library (`FS_SUBSET`): the
subsets of `1..n + 1` with *n + 1* and those without it are as many as the subsets of
`1..n` (`PowerNext`); the law of exponents is an induction on that (`PowerSum`), and
with it quotients of powers are powers (`PowerGrows`).

The induction on numbers that the digits and `FlattenSeq` need is proved in
`DataLemmas` as a fact about sets (`SetInduction`: a set of naturals that has 0
and with *n* also *n + 1* has them all), since the theorem of the library takes
an operator, which the provers cannot instantiate.  It rests on finite
cardinalities: were *n* missing, adding one would map `0..n` into fewer elements.

Assumed: there is a worker and the set of workers is finite
(`WorkerAssumption`), the master is not a worker (`PartyAssumption`), programs
are sequences of calls (`ProgramAssumption`, `BodiesAssumption`), the channel of
the set-up is a channel, a socket holds a message, there is a party and the
waiting times are numbers (`PartiesAssumption`, `TimesAssumption`), headers and
buffers are not empty and a number has a digit to write (`SizesAssumption` of
`Framing`), and the length of a body fits into the header (`MessagesAssumption`).
For the chunked batch: the sizes are positive and the queries are positions of the codeword
(`SizesAssumption`, `QueryAssumption`), the number of parties is a power of two
(`PowerAssumption`), the targets are commitments and polynomials there are
(`TypesAssumption`, `CallAssumption`), every party has a column and the sumcheck
has a round before the shares are single values (`WorkAssumption`; without the
latter `d_prove` panics).  For DeepFold: the sizes are positive and the queries
positions of the codeword, every party has a leaf of the commitments
(`LeavesAssumption`), the number of parties, the rate and the leaf size are
powers of two (`PowersAssumption`; the last two are constants of the code, the
first is what `run.py` asks for), the leaf of the placeholder tree fits into the shortest codeword
that has a tree (`DefaultAssumption`; in the code 8 into 2 * 4, and a lower rate would
make the step zero), something is committed and opened (`TablesAssumption`), a batch has a
second round (`KindsAssumption`) and a challenge for each round
(`OraclesAssumption`).  TLC evaluates the assumptions in the runs.

Only model-checked: liveness, which is out of the prover's reach (`Termination`,
`MasterDeathEndsAll`, `AllReceived`, `AllReady`, `LossReachesJoined`), and what
else is said of the four distributed provers: their refinements of the provers of one
machine, that the verifier accepts, `Binding`, `NoPanic` of `DLigeSIS`, and `SumsExact`.

## 5. Findings

* **The 30 s limit of the master never applies** (`connect_timeout`).
  `ms_waited` is declared inside the retry loop, so it is 10 whenever it is
  compared with 3000 and 30000 (`deNetwork/src/multi.rs:335`).  The master
  waits for a missing worker without a limit and without a report, although
  the panic there says "Could not find peer in 30s".
* **A proof at an extension point is rejected** (`deepfold_ext`).  In every
  round `deepfold_open_at_ext_point` takes the linear polynomial with the
  tensor of `point[1..]`, where the variables left in round *i* are
  `point[i..]` (`deepfold/ext.rs:113`; its batch twins have it right).  The
  first round comes out right, and so the whole proof of up to two variables.
  `ddeepfold` says of the batch that its proof at points of the base field is
  accepted.

Noticed while modelling, and not the subject of a run:

* A single party hangs in `init`: a round is looked for only when a message
  comes, and with no peers none does; `dTests/run.py:626` accepts one party.
  `is_init` stays true after `deinit`, since `uninit` leaves `peers` as it is;
  nothing calls it.
* `deepfold_d_batch_open` (`open.rs:907`) and its extension twin (`ext.rs:978`)
  tell polynomials apart by the roots of the master's local trees, the
  single machine by the polynomials (`ext.rs:442` by their addresses) and the
  verifier by the commitments.  Two polynomials that are equal in the master's
  leaves alone would be one for the prover and two for the verifier.
* The verifier of a batch at extension points compares the real parts of the
  evaluations with a sum at the real parts of the points (`ext.rs:295` calls it
  a simplification).  With imaginary parts in two coordinates that is another
  number; `VerifierAccepts` is said of points of the base field.
* `deepfold_d_commit_v2` and `deepfold_d_commit_full_poly_v2` lay leaves out as
  `col + row * leaf_size`, unlike `get_leaf_elements`.
* `ligesis_d_open` admits a polynomial with fewer variables, and `ligesis_open`
  pads it, but the parties' `reshape` asserts the full size.  Every party of
  `d_setup` commits the whole of A as its portion; it is opened with zeros for
  the variables of the parties, and so comes out right.
* The verifier of LigeSIS leaves the sums of three kinds of sum-checks unseen
  (`_mat_g_claimed_sum` and others); `SumsExact` says what they are.
* `fix_one_variable_helper` (`multilinear_polynomial.rs:212`) and
  `bool_mat_mul_field_mat` (`utils.rs:252`, which takes the shape of one factor
  for the other's) are wrong and are called by nothing but benchmarks;
  `decompress_zerocheck` is right for quadratic polynomials only;
  `ZerocheckInstanceProof::verify` takes `zerocheck_r` in the order opposite to
  the prover's; the verifier of the reduction in `ext_sumcheck.rs` takes the
  expected evaluation for the value of the polynomial.

One comment is wrong without effect: the header of `d_query_merkle_proof`
(`deepfold/chunked_batch.rs:929`) gives the proof as the upper path followed by
the local one, while the code makes it the other way round, from the leaf to
the root as `MerkleTree::verify` needs it; `VerifierAccepts` of `dchunked`
depends on that order.

Two behaviours that nothing in the repository contradicts, and that a user
should know: when a *worker* dies, the master and the other workers wait for
ever in the next gather (`MasterDeathEndsAll` has no converse); and when the
master gives up while it connects, the workers it has not reached stay in
`accept` (`LossReachesJoined` speaks of those it has).

## 6. What is not modelled, and why

* **The real fields and the FFT**: the provers run over small prime fields,
  and a transform is modelled by what it computes.  The vendored arkworks
  crates, with their patches to the arithmetic of the 64-bit field, are left out.
* **Encodings** of `ark-serialize`: only the type of a message is kept.
* **SHA-256 and the hash of the transcript**: digests are terms, challenges are
  an oracle's or any of a small set.  Drawing distinct indices by rejection is
  left out; it ends, since no more are asked for than there are.
* **Fewer leaves than parties** at the commitment (`LeavesAssumption`):
  `deepfold_d_commit` divides without a check there.
* **A batch of polynomials in one variable** (`KindsAssumption`): its queries have no
  opening after the master's own, where the model's begin.
* **A rate too small for the leaf sizes**: the placeholder's leaf size would
  exceed the smallest codeword with a tree, `step` would be 0
  at the workers, and `beta % step` would panic; `gen_srs` uses the rate 4.
* **Stats**: counters nothing reads but reports.
* **The numbers in the sum-check of `DChunkedBatch`**: there the session is
  modelled, that is who sends which shares, of which polynomials, in which
  round, and when everybody stops; the numbers are `DSumcheck`'s.
* **No sumcheck round before single values** (`WorkAssumption`,
  `LocalAssumption`): the extension `d_prove` unwraps the challenge of its last
  round, which polynomials as small as the number of parties do not have.
* **Challenges at the points of interpolation** (`ChallengeAssumption`):
  `interpolate_uni_poly` divides by zero there.
* **In LigeSIS** the choice of the sizes by `gen_srs` (`(mu - 8) / 2` underflows
  for mu from 4 to 7) and the padding of smaller polynomials on one machine.
* **The base-field openings of the chunked batch**
  (`d_multi_chunked_batch_open`, `d_chunked_batch_open`), the chunks of
  `deepfold/multi.rs`, the v2 commitments, Ligero and the functions that
  nothing but benchmarks call.

## 7. Plan

Done: the network from bytes to collective calls, and on top of it all the
distributed provers that the drivers run: the sum-checks, DeepFold for one
polynomial and for batches, the chunked batch, and LigeSIS, each as an
implementation of the prover of one machine, with the verifiers.  What
remains, in this order:

1. The twins of the chunked opening, `d_multi_chunked_batch_open` and
   `d_chunked_batch_open`, as further programs of `DChunkedBatch`.
2. The chunks of `deepfold/multi.rs` in `DeepFold`, with polynomials of
   different sizes in a batch.
3. One module that runs `DLigeSIS` with `DChunkedBatch` and `DSumcheck` in the
   place of its three collective calls.
4. Ligero, from the operators of `LigeSIS`.
5. Proofs about the other provers by the method of `DChunkedBatch_proofs` and
   `DDeepFold_proofs`: `NoPanic` of `DLigeSIS`, then what the messages contain.
