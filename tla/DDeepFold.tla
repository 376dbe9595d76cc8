------------------------------ MODULE DDeepFold -----------------------------
(***************************************************************************)
(* The distributed DeepFold provers: deepfold_d_commit of each polynomial, *)
(* and then deepfold_d_open, deepfold_d_batch_open or                      *)
(* deepfold_d_batch_open_at_ext_point, with MerkleTree::d_prove.           *)
(*                                                                         *)
(* All the parties run one program.  Where it says am_master the branches  *)
(* differ, and nothing but care keeps the two sides making the same        *)
(* collective calls in the same order: a call carries no name, only bytes. *)
(* The master alone computes codewords and challenges; leaves are spread   *)
(* over the parties, each builds the tree of its own, and the master puts  *)
(* the upper tree on top.  A worker learns from a flag whether a codeword  *)
(* still has enough leaves to be spread.                                   *)
(*                                                                         *)
(* The network is what DeNetwork implements: a queue in each direction.    *)
(* An action takes a party from one blocking call to the next.  All the    *)
(* folds are computed where the master begins; round after round takes its *)
(* own.                                                                    *)
(***************************************************************************)
EXTENDS MerkleTree, Folding

CONSTANTS N, Kinds, Tables, BatchOf, Points, Oracles, Mu, Rate, S, Betas

Party  == 0..(N - 1)
Worker == 1..(N - 1)
LenL0  == 2^Mu * Rate

ASSUME SizesAssumption == {N, Mu, Rate, S} \subseteq Nat \ {0}
ASSUME QueryAssumption == Betas \subseteq 0..(LenL0 - 1)
\* d_commit gives every party the same number of leaves, at least one, and
\* does not fall back as d_open does; run.py asks for a power of two.
ASSUME LeavesAssumption == (LenL0 \div LEAF_SIZE) % N = 0 /\ LenL0 >= LEAF_SIZE * N
ASSUME PowersAssumption == \A n \in {N, Rate, LEAF_SIZE} : \E k \in 0..n : n = 2^k
\* A placeholder's leaf fits into the shortest codeword that is opened.
ASSUME DefaultAssumption == DEFAULT_LEAF_SIZE =< 2 * Rate
\* There is something to commit and to open, and in a batch a round after the
\* first: one variable alone is left out.
ASSUME TablesAssumption ==
  Len(Tables) \in Nat \ {0} /\ BatchOf \in Seq(1..Len(Tables)) /\ BatchOf # <<>>
ASSUME KindsAssumption ==
  Kinds \subseteq {"open", "batch", "batch_ext"} /\ ("batch" \in Kinds => Mu >= 2)
ASSUME OraclesAssumption == \A o \in Oracles : Len(o.r) = Mu

VARIABLES
  kind, oracle,   \* see DeepFold
  pc,             \* the call a party is in, or "done"
  round,          \* i, the round of the folding loop or of the proof loop
  queries,        \* t, the queries that a party has done
  beta,           \* the position of the current query in the current codeword
  mt0s,           \* the trees that a party keeps in its advices
  local_mts,      \* the trees a party keeps, by round
  is_distributed, \* which of them are parts of a spread tree
  idx,            \* which of a batch are opened in their commitments
  pending,        \* what a party has received and not yet made a tree of
  upper0s,        \* the master's upper trees of the commitments,
  upper_mts,      \* and by round
  commitments, codewords, sums, fold, mt_roots, mt_proofs, mt0_proofs,
                  \* the master's, see DeepFold
  proofs_for_t,   \* the master's openings of the current query
  transcript,     \* what the master has drawn from its transcript
  up, down        \* the messages of each worker to, and from, the master

case      == <<kind, oracle>>
loopVars  == <<round, queries, beta>>
treeVars  == <<local_mts, is_distributed>>
keptVars  == <<mt0s, pending, idx>>
comVars   == <<commitments, codewords, upper0s>>
beginVars == <<sums, fold>>
rootVars  == <<upper_mts, mt_roots>>
proofVars == <<proofs_for_t, mt_proofs, mt0_proofs>>
masterVars == <<comVars, beginVars, rootVars, proofVars, transcript>>
vars == <<case, pc, loopVars, treeVars, keptVars, masterVars, up, down>>

\* The codewords, the folds and the openings of the prover on one machine.
D == INSTANCE DeepFold

-----------------------------------------------------------------------------
(* Messages.  The type is what the receiver deserializes the bytes as.     *)

Msg(type, val) == [type |-> type, val |-> val]

\* What a party that waits in the call named pc takes the next message for.
Expects ==
  [chunk |-> "elements", sizes |-> "sizes", broadcast |-> "vectors", alpha |-> "field",
   r |-> "field", flag |-> "bool", leaves |-> "digests", leaf_size |-> "usize",
   beta |-> "usize", idx |-> "usizes", x0 |-> "usize"]

SendsUp(w, msgs) == up' = [up EXCEPT ![w] = @ \o msgs]
SendDown(msgs)   == down' = [w \in Worker |-> down[w] \o msgs[w]]
ToAll(msgs)      == SendDown([w \in Worker |-> msgs])
Arrived(w)       == down[w] # <<>>
Incoming(w)      == Head(down[w]).val
Receive(w, call) ==
  /\ pc[w] = call /\ Arrived(w) /\ Head(down[w]).type = Expects[call]
  /\ down' = [down EXCEPT ![w] = Tail(@)]

\* n gathers of the master in a row: each takes one message of every worker
\* and fills in the master's own.
CanGather(n)    == \A w \in Worker : Len(up[w]) >= n
Gathered(j, own) == [p \in Party |-> IF p = 0 THEN own ELSE up[p][j].val]
Pop(n)          == up' = [w \in Worker |-> SubSeq(up[w], n + 1, Len(up[w]))]
AreAll(n, type) == \A w \in Worker : \A j \in 1..n : up[w][j].type = type
Gathers(n, type) == CanGather(n) /\ AreAll(n, type) /\ Pop(n)

Becomes(p, call) == pc' = [pc EXCEPT ![p] = call]
KeepTree(p, t, spread) ==
  /\ local_mts' = [local_mts EXCEPT ![p] = Append(@, t)]
  /\ is_distributed' = [is_distributed EXCEPT ![p] = Append(@, spread)]

\* Party k's part of a vector that is cut into N.
PartOf(v, k) == LET n == Size(v) \div N IN Slice(v, k * n, (k + 1) * n)

-----------------------------------------------------------------------------
(* deepfold_d_commit                                                       *)

CommitLeafSize == LeafSizeOf(LenL0)
LeavesPerParty == (LenL0 \div CommitLeafSize) \div N

\* The elements of the leaves that party k is to hash, leaf after leaf.
Chunk(v0, k) ==
  LET step == LenL0 \div CommitLeafSize IN
  [j \in 0..(LeavesPerParty * CommitLeafSize - 1) |->
     v0[k * LeavesPerParty + (j \div CommitLeafSize) + (j % CommitLeafSize) * step]]

\* The tree over the leaves of its chunk that a party keeps.
ChunkTree(chunk, leafSize, leaves) ==
  WithLeafSize([i \in 0..(leaves - 1) |-> HashRow(Slice(chunk, i * leafSize, (i + 1) * leafSize))],
               leafSize)

\* A party's evaluations of the polynomial that is committed next.
Evals(p) == PartOf(Tables[Len(mt0s[p]) + 1], p)

\* The evaluations go to the master.
WorkerEvals(w) ==
  /\ pc[w] = "evals"
  /\ SendsUp(w, <<Msg("elements", Evals(w))>>)
  /\ Becomes(w, "chunk")
  /\ UNCHANGED <<case, loopVars, treeVars, keptVars, masterVars, down>>

\* The master computes the codeword and hands its elements out.
MasterEvals ==
  LET table == Concat(Gathered(1, Evals(0)))
      v0    == D!Codeword(table)
  IN  /\ pc[0] = "evals" /\ Gathers(1, "elements")
      /\ SendDown([w \in Worker |-> <<Msg("elements", Chunk(v0, w)),
                                       Msg("sizes", <<CommitLeafSize, LeavesPerParty>>)>>])
      /\ mt0s' = [mt0s EXCEPT ![0] =
                    Append(@, ChunkTree(Chunk(v0, 0), CommitLeafSize, LeavesPerParty))]
      /\ pending' = [pending EXCEPT ![0] = [table |-> table, v0 |-> v0]]
      /\ Becomes(0, "roots0")
      /\ UNCHANGED <<case, loopVars, treeVars, idx, masterVars>>

WorkerChunk(w) ==
  /\ Receive(w, "chunk")
  /\ pending' = [pending EXCEPT ![w] = Incoming(w)]
  /\ Becomes(w, "sizes")
  /\ UNCHANGED <<case, loopVars, treeVars, mt0s, idx, masterVars, up>>

\* Where a party goes after a commitment, the k-th; what is opened alone is
\* opened with the tree of its commitment as that of round 0.
AfterCommit(p, k, t, opens) ==
  IF k < D!ToCommit THEN Becomes(p, "evals") /\ UNCHANGED <<round, treeVars>>
  ELSE /\ Becomes(p, IF D!IsBatch THEN "batch" ELSE opens)
       /\ round' = [round EXCEPT ![p] = 1]
       /\ IF D!IsBatch THEN UNCHANGED treeVars ELSE KeepTree(p, t, TRUE)

\* Build the local tree and send its root.
WorkerSizes(w) ==
  LET sizes == Incoming(w)
      t     == ChunkTree(pending[w], sizes[1], sizes[2])
  IN  /\ Receive(w, "sizes")
      /\ mt0s' = [mt0s EXCEPT ![w] = Append(@, t)]
      /\ SendsUp(w, <<Msg("digest", Root(t))>>)
      /\ AfterCommit(w, Len(mt0s[w]) + 1, t, "alpha")
      /\ UNCHANGED <<case, queries, beta, pending, idx, masterVars>>

\* Faulty variant: the roots in the wrong order.
UpperTree_Reversed(roots, leafSize) ==
  WithLeafSize([p \in Party |-> roots[N - 1 - p]], leafSize)

UpperTree(roots, leafSize) == WithLeafSize(roots, leafSize)

\* The roots of the local trees are there: the upper tree is the commitment.
MasterCommits ==
  LET k   == Len(mt0s[0])
      own == mt0s[0][k]
      t   == UpperTree(Gathered(1, Root(own)), own.leaf_size)
  IN  /\ pc[0] = "roots0" /\ Gathers(1, "digest")
      /\ upper0s' = Append(upper0s, t)
      /\ commitments' = Append(commitments, Root(t))
      /\ codewords' = Append(codewords, pending[0].v0)
      /\ AfterCommit(0, k, own, "round")
      /\ IF D!IsBatch THEN UNCHANGED <<fold, rootVars>>
         ELSE /\ fold' = D!Folded(D!Unfolded(pending[0].table, pending[0].v0, Points[1].re),
                                oracle.alpha, oracle.r, FALSE)
              /\ upper_mts' = <<t>> /\ mt_roots' = <<Root(t)>>
      /\ UNCHANGED <<case, queries, beta, keptVars, sums, proofVars, transcript, down>>

-----------------------------------------------------------------------------
(* The start of a batch.                                                   *)

\* One gather for each polynomial of the batch.
WorkerBatch(w) ==
  /\ pc[w] = "batch"
  /\ SendsUp(w, [k \in DOMAIN BatchOf |-> Msg("elements", PartOf(Tables[BatchOf[k]], w))])
  /\ Becomes(w, IF D!IsExt THEN "broadcast" ELSE "alpha")
  /\ UNCHANGED <<case, loopVars, treeVars, keptVars, masterVars, down>>

\* The sum-check and the combination, on the master alone.
Combines ==
  LET all == [k \in DOMAIN BatchOf |-> Concat(Gathered(k, PartOf(Tables[BatchOf[k]], 0)))] IN
  /\ pc[0] = "batch" /\ Gathers(Len(BatchOf), "elements")
  /\ sums' = D!SumsOf(all, Points, D!IsExt, oracle)
  /\ fold' = D!BatchFold(all, D!IsExt, oracle)
  /\ transcript' = <<Draw("batched_sumcheck", oracle.batch)>>
                     \o SumcheckAppends(sums'.msgs, oracle.sumcheck) \o <<Draw("gamma", oracle.gamma)>>
  /\ Becomes(0, "round")
  /\ UNCHANGED <<case, loopVars, treeVars, keptVars, comVars, rootVars, proofVars>>

MasterBatch == ~D!IsExt /\ Combines /\ UNCHANGED down

\* At extension points the workers get the point, gamma and the codeword: they
\* make no use of them.
MasterBatchExt ==
  /\ D!IsExt /\ Combines
  /\ ToAll(<<Msg("vectors", <<oracle.sumcheck, oracle.gamma, fold'.v[1]>>)>>)

WorkerBroadcast(w) ==
  /\ Receive(w, "broadcast") /\ Becomes(w, "alpha")
  /\ UNCHANGED <<case, loopVars, treeVars, keptVars, masterVars, up>>

-----------------------------------------------------------------------------
(* The folding rounds.                                                     *)

\* The roots of the local trees are there: build the upper tree.
MasterRoots ==
  LET own == Last(local_mts[0])
      t   == UpperTree(Gathered(1, Root(own)), own.leaf_size)
  IN  /\ pc[0] = "roots" /\ Gathers(1, "digest")
      /\ upper_mts' = Append(upper_mts, t)
      /\ mt_roots' = Append(mt_roots, Root(t))
      /\ round' = [round EXCEPT ![0] = @ + 1]
      /\ Becomes(0, "round")
      /\ UNCHANGED <<case, queries, beta, treeVars, keptVars, comVars, beginVars, proofVars, transcript, down>>

CanDistribute(i) == Size(LeafHashes(D!V(i))) >= N

\* Faulty variant: the flag is sent only when it is set.
FlagMsgs_WhenSet(flag) == IF flag THEN <<Msg("bool", flag)>> ELSE <<>>

FlagMsgs(flag) == <<Msg("bool", flag)>>

\* The challenges of a round, drawn and sent.
ChallengeMsgs(i) == <<Msg("field", oracle.alpha[i]), Msg("field", oracle.r[i])>>
DrawsFold(i) ==
  transcript' = transcript \o <<Draw("alpha", oracle.alpha[i]), Draw("r", oracle.r[i])>>

\* A round whose codeword has leaves for everybody: spread them.
MasterSpreads ==
  LET i        == round[0]
      leaves   == LeafHashes(D!V(i))
      leafSize == LeafSizeOf(Size(D!V(i)))
  IN  /\ pc[0] = "round" /\ i < Mu /\ CanDistribute(i)
      /\ DrawsFold(i)
      /\ SendDown([w \in Worker |->
           ChallengeMsgs(i) \o FlagMsgs(TRUE)
             \o <<Msg("digests", PartOf(leaves, w)), Msg("usize", leafSize)>>])
      /\ KeepTree(0, WithLeafSize(PartOf(leaves, 0), leafSize), TRUE)
      /\ Becomes(0, "roots")
      /\ UNCHANGED <<case, loopVars, keptVars, comVars, beginVars, rootVars, proofVars, up>>

\* The master builds the whole tree, and the round is over.
BuildsAlone(i, msgs) ==
  LET t == BuildTree(D!V(i)) IN
  /\ pc[0] = "round" /\ i < Mu
  /\ DrawsFold(i)
  /\ ToAll(msgs)
  /\ KeepTree(0, t, FALSE)
  /\ mt_roots' = Append(mt_roots, Root(t))
  /\ upper_mts' = Append(upper_mts, Default)
  /\ round' = [round EXCEPT ![0] = @ + 1]
  /\ UNCHANGED <<case, pc, queries, beta, keptVars, comVars, beginVars, proofVars, up>>

\* A round whose codeword has not.
MasterKeeps ==
  /\ pc[0] = "round" /\ round[0] < Mu /\ ~CanDistribute(round[0])
  /\ BuildsAlone(round[0], ChallengeMsgs(round[0]) \o FlagMsgs(FALSE))

\* At extension points no tree is spread, and no flag sent.
MasterKeepsExt == BuildsAlone(round[0], ChallengeMsgs(round[0]))

\* The last round has no tree.
MasterLast ==
  /\ pc[0] = "round" /\ round[0] = Mu
  /\ DrawsFold(Mu)
  /\ ToAll(ChallengeMsgs(Mu))
  /\ Becomes(0, "query")
  /\ UNCHANGED <<case, loopVars, treeVars, keptVars, comVars, beginVars, rootVars, proofVars, up>>

MasterFolds      == MasterRoots \/ MasterSpreads \/ MasterKeeps \/ MasterLast
MasterFoldsOpen  == kind = "open" /\ MasterFolds
MasterFoldsBatch == kind = "batch" /\ MasterFolds
MasterFoldsExt   == kind = "batch_ext" /\ (MasterKeepsExt \/ MasterLast)

WorkerAlpha(w) ==
  /\ Receive(w, "alpha") /\ Becomes(w, "r")
  /\ UNCHANGED <<case, loopVars, treeVars, keptVars, masterVars, up>>

WorkerR(w) ==
  /\ Receive(w, "r")
  /\ Becomes(w, IF round[w] = Mu THEN "beta" ELSE "flag")
  /\ UNCHANGED <<case, loopVars, treeVars, keptVars, masterVars, up>>

\* The flag: the leaves follow, or the tree is the master's alone.
WorkerFlag(w) ==
  /\ Receive(w, "flag")
  /\ \/ Incoming(w) /\ Becomes(w, "leaves") /\ UNCHANGED <<treeVars, round>>
     \/ /\ ~Incoming(w)
        /\ KeepTree(w, Default, FALSE)
        /\ round' = [round EXCEPT ![w] = @ + 1]
        /\ Becomes(w, "alpha")
  /\ UNCHANGED <<case, queries, beta, keptVars, masterVars, up>>

WorkerLeaves(w) ==
  /\ Receive(w, "leaves")
  /\ pending' = [pending EXCEPT ![w] = Incoming(w)]
  /\ Becomes(w, "leaf_size")
  /\ UNCHANGED <<case, loopVars, treeVars, mt0s, idx, masterVars, up>>

\* Build the local tree and send its root.
WorkerLeafSize(w) ==
  LET t == WithLeafSize(pending[w], Incoming(w)) IN
  /\ Receive(w, "leaf_size")
  /\ KeepTree(w, t, TRUE)
  /\ SendsUp(w, <<Msg("digest", Root(t))>>)
  /\ round' = [round EXCEPT ![w] = @ + 1]
  /\ Becomes(w, "alpha")
  /\ UNCHANGED <<case, queries, beta, keptVars, masterVars>>

WorkerFolds(w) ==
  WorkerAlpha(w) \/ WorkerR(w) \/ WorkerFlag(w) \/ WorkerLeaves(w) \/ WorkerLeafSize(w)
WorkerFoldsOpen(w)  == kind = "open" /\ WorkerFolds(w)
WorkerFoldsBatch(w) == kind = "batch" /\ WorkerFolds(w)

\* At extension points a worker only keeps the challenges.
WorkerRExt(w) ==
  /\ Receive(w, "r")
  /\ IF round[w] = Mu THEN Becomes(w, "idx") /\ UNCHANGED round
     ELSE Becomes(w, "alpha") /\ round' = [round EXCEPT ![w] = @ + 1]
  /\ UNCHANGED <<case, queries, beta, treeVars, keptVars, masterVars, up>>
WorkerFoldsExt(w) == kind = "batch_ext" /\ (WorkerAlpha(w) \/ WorkerRExt(w))

-----------------------------------------------------------------------------
(* The queries, and MerkleTree::d_prove.                                   *)

\* An Option: a sequence of one proof, or None.
None == <<>>
Owner(t, pos)         == pos \div NumLeaves(t)
LocalProof(p, t, pos) ==
  IF Owner(t, pos) # p THEN None ELSE <<Prove(t, pos % NumLeaves(t))>>

\* Faulty variant: the two parts in the wrong order.
Combined_Swapped(proofs, owner, upper) == Prove(upper, owner) \o Head(proofs[owner])

\* The part of the owner, then the way up from its root.
Combined(proofs, owner, upper) == Head(proofs[owner]) \o Prove(upper, owner)

\* A batch has round 0 opened by the master alone.
StartsQuery(p, b) ==
  /\ beta' = [beta EXCEPT ![p] = IF D!IsBatch THEN D!NextBeta(0, b) ELSE b]
  /\ round' = [round EXCEPT ![p] = IF D!IsBatch THEN 1 ELSE 0]
  /\ Becomes(p, "prove")

\* The master draws a position and sends it.
Asks(b) ==
  /\ pc[0] = "query" /\ queries[0] < S
  /\ transcript' = Append(transcript, Draw("beta", b))
  /\ UNCHANGED <<case, treeVars, keptVars, comVars, beginVars, rootVars, mt0_proofs, up>>

MasterQuery(b) ==
  /\ ~D!IsExt /\ Asks(b)
  /\ ToAll(<<Msg("usize", b)>>)
  /\ StartsQuery(0, b)
  /\ proofs_for_t' = IF D!IsBatch THEN <<D!OpenWithoutProof(D!V(0), b)>> ELSE <<>>
  /\ UNCHANGED <<queries, mt_proofs>>

\* At extension points the master answers alone, from the trees it has.
MasterQueryExt(b) ==
  LET x == D!BetaAt(b) IN
  /\ D!IsExt /\ Asks(b)
  /\ mt_proofs' = Append(mt_proofs, [k \in 1..Mu |->
       IF k = 1 THEN D!OpenWithoutProof(D!V(0), b)
       ELSE OpenAt(local_mts[0][k - 1], D!V(k - 1), x[k - 1])])
  /\ queries' = [queries EXCEPT ![0] = @ + 1]
  /\ IF queries[0] + 1 < S THEN UNCHANGED pc ELSE Becomes(0, "idx")
  /\ UNCHANGED <<round, beta, proofs_for_t, down>>

WorkerBeta(w) ==
  /\ Receive(w, "beta")
  /\ StartsQuery(w, Incoming(w))
  /\ UNCHANGED <<case, queries, treeVars, keptVars, masterVars, up>>

\* The tree and the number of leaves that p computes local_beta with: the
\* leaf size is that of its own tree, a placeholder's in a round that is
\* not spread.
Index(p)  == IF D!IsBatch THEN round[p] ELSE round[p] + 1
MyTree(p) == local_mts[p][Index(p)]
Step(p)   == D!L(round[p]) \div MyTree(p).leaf_size
LocalBeta(p) == beta[p] % Step(p)
MyProof(p)   == LocalProof(p, MyTree(p), LocalBeta(p))

FoldBeta(p) == beta' = [beta EXCEPT ![p] = D!NextBeta(round[p], @)]

\* The end of an iteration of the proof loop, and of a query after the last.
Proved(p, again) ==
  /\ FoldBeta(p)
  /\ round' = [round EXCEPT ![p] = @ + 1]
  /\ IF round[p] + 1 < Mu THEN UNCHANGED <<pc, queries>>
     ELSE /\ queries' = [queries EXCEPT ![p] = @ + 1]
          /\ Becomes(p, IF queries[p] + 1 < S THEN again ELSE IF D!IsBatch THEN "idx" ELSE "done")

Proving(p) == pc[p] = "prove" /\ Step(p) > 0

\* Everybody calls d_prove in a round that is spread, and nobody in another.
JoinProof(w) ==
  IF is_distributed[w][Index(w)] THEN SendsUp(w, <<Msg("proof", MyProof(w))>>) ELSE UNCHANGED up

WorkerProve(w) ==
  /\ Proving(w) /\ JoinProof(w)
  /\ Proved(w, "beta")
  /\ UNCHANGED <<case, treeVars, keptVars, masterVars, down>>

\* The master's part of an opening: the values are its own.
Opened(proof) ==
  LET v == D!V(round[0])
      o == Opening(v, beta[0], LeafElements(v, LocalBeta(0), Step(0), MyTree(0).leaf_size), proof)
      openings == Append(proofs_for_t, o)
  IN  /\ proofs_for_t' = IF round[0] + 1 < Mu THEN openings ELSE <<>>
      /\ mt_proofs' = IF round[0] + 1 < Mu THEN mt_proofs ELSE Append(mt_proofs, openings)
      /\ Proved(0, "query")
      /\ UNCHANGED <<case, treeVars, keptVars, comVars, beginVars, rootVars, mt0_proofs, transcript, down>>

MasterProvesAlone ==
  /\ Proving(0) /\ ~is_distributed[0][Index(0)]
  /\ Opened(Prove(MyTree(0), LocalBeta(0)))
  /\ UNCHANGED up

MasterProves ==
  LET proofs == Gathered(1, MyProof(0))
      owner  == Owner(MyTree(0), LocalBeta(0))
  IN  /\ Proving(0) /\ is_distributed[0][Index(0)]
      /\ Gathers(1, "proof") /\ proofs[owner] # None
      /\ Opened(Combined(proofs, owner, upper_mts[Index(0)]))

MasterAnswers      == (\E b \in Betas : MasterQuery(b)) \/ MasterProvesAlone \/ MasterProves
MasterAnswersOpen  == kind = "open" /\ MasterAnswers
MasterAnswersBatch == kind = "batch" /\ MasterAnswers
MasterAnswersExt   == kind = "batch_ext" /\ \E b \in Betas : MasterQueryExt(b)
WorkerAnswersOpen(w)  == kind = "open" /\ (WorkerBeta(w) \/ WorkerProve(w))
WorkerAnswersBatch(w) == kind = "batch" /\ (WorkerBeta(w) \/ WorkerProve(w))

-----------------------------------------------------------------------------
(* The openings of a batch in its commitments.                             *)

\* Equal polynomials are found by the master's part of their trees.
StartsOpenings(p, list) ==
  /\ idx' = [idx EXCEPT ![p] = list]
  /\ queries' = [queries EXCEPT ![p] = 0]
  /\ Becomes(p, "x0")

MasterIdx ==
  LET list == D!FirstOf([k \in DOMAIN BatchOf |-> Root(mt0s[0][BatchOf[k]])]) IN
  /\ pc[0] = "idx"
  /\ ToAll(<<Msg("usizes", list)>>)
  /\ StartsOpenings(0, list)
  /\ UNCHANGED <<case, round, beta, treeVars, mt0s, pending, masterVars, up>>

WorkerIdx(w) ==
  /\ Receive(w, "idx")
  /\ StartsOpenings(w, Incoming(w))
  /\ UNCHANGED <<case, round, beta, treeVars, mt0s, pending, masterVars, up>>

\* The tree of the j-th in the list, and the leaf of x0 in it.
Mt0(p, j)        == mt0s[p][BatchOf[idx[p][j]]]
LocalX0(p, j, x) == x % (LenL0 \div Mt0(p, j).leaf_size)
Mt0Proof(p, j, x) == LocalProof(p, Mt0(p, j), LocalX0(p, j, x))

NextOpening(p) ==
  /\ queries' = [queries EXCEPT ![p] = @ + 1]
  /\ Becomes(p, IF queries[p] + 1 < S THEN "x0" ELSE "done")

\* A call of d_prove for each of the list.
WorkerX0(w) ==
  /\ Receive(w, "x0")
  /\ SendsUp(w, [j \in DOMAIN idx[w] |-> Msg("proof", Mt0Proof(w, j, Incoming(w)))])
  /\ NextOpening(w)
  /\ UNCHANGED <<case, round, beta, treeVars, keptVars, masterVars>>

X0 == mt_proofs[queries[0] + 1][1].x

MasterX0 ==
  /\ pc[0] = "x0"
  /\ ToAll(<<Msg("usize", X0)>>)
  /\ Becomes(0, "mt0")
  /\ UNCHANGED <<case, loopVars, treeVars, keptVars, masterVars, up>>

Mt0Owner(j)  == Owner(Mt0(0, j), LocalX0(0, j, X0))
Mt0Proofs(j) == Gathered(j, Mt0Proof(0, j, X0))

\* The opening of the j-th: the leaf is the master's own.
Mt0Opened(j) ==
  LET k == BatchOf[idx[0][j]] IN
  [leaf  |-> LeafElements(codewords[k], LocalX0(0, j, X0),
                          LenL0 \div Mt0(0, j).leaf_size, Mt0(0, j).leaf_size),
   proof |-> Combined(Mt0Proofs(j), Mt0Owner(j), upper0s[k])]

MasterMt0 ==
  /\ pc[0] = "mt0" /\ Gathers(Len(idx[0]), "proof")
  /\ \A j \in DOMAIN idx[0] : Mt0Proofs(j)[Mt0Owner(j)] # None
  /\ mt0_proofs' = Append(mt0_proofs, [j \in DOMAIN idx[0] |-> Mt0Opened(j)])
  /\ NextOpening(0)
  /\ UNCHANGED <<case, round, beta, treeVars, keptVars, comVars, beginVars, rootVars, proofs_for_t,
                 mt_proofs, transcript, down>>

MasterMt0s         == MasterIdx \/ MasterX0 \/ MasterMt0
WorkerMt0s(w)      == WorkerIdx(w) \/ WorkerX0(w)
MasterMt0sBatch    == kind = "batch" /\ MasterMt0s
MasterMt0sExt      == kind = "batch_ext" /\ MasterMt0s
WorkerMt0sBatch(w) == kind = "batch" /\ WorkerMt0s(w)
WorkerMt0sExt(w)   == kind = "batch_ext" /\ WorkerMt0s(w)

-----------------------------------------------------------------------------
(* What would panic: bytes that are not what the call takes them for, an   *)
(* unwrap of a party's None, a remainder by zero.                          *)

Waits(p) == pc[p] \in DOMAIN Expects /\ p # 0

Misread(w) == Waits(w) /\ Arrived(w) /\ Head(down[w]).type # Expects[pc[w]]

\* The gathers that the master is in: how many, and of what.
GatherOf ==
  CASE pc[0] = "evals"              -> <<1, "elements">>
    [] pc[0] = "batch"              -> <<Len(BatchOf), "elements">>
    [] pc[0] \in {"roots0", "roots"} -> <<1, "digest">>
    [] Proving(0) /\ is_distributed[0][Index(0)] -> <<1, "proof">>
    [] pc[0] = "mt0"                -> <<Len(idx[0]), "proof">>
    [] OTHER                        -> <<0, "nothing">>

MisreadGather == CanGather(GatherOf[1]) /\ ~AreAll(GatherOf[1], GatherOf[2])
UnwrapsNone   ==
  /\ CanGather(GatherOf[1])
  /\ \/ pc[0] = "prove" /\ GatherOf[1] = 1
        /\ Gathered(1, MyProof(0))[Owner(MyTree(0), LocalBeta(0))] = None
     \/ pc[0] = "mt0" /\ \E j \in DOMAIN idx[0] : Mt0Proofs(j)[Mt0Owner(j)] = None
NoStep(p)     == pc[p] = "prove" /\ Step(p) = 0

-----------------------------------------------------------------------------
Init ==
  /\ kind \in Kinds /\ oracle \in Oracles
  /\ pc = [p \in Party |-> "evals"]
  /\ round = [p \in Party |-> 0] /\ queries = [p \in Party |-> 0] /\ beta = [p \in Party |-> 0]
  /\ mt0s = [p \in Party |-> <<>>] /\ idx = [p \in Party |-> <<>>]
  /\ local_mts = [p \in Party |-> <<>>] /\ is_distributed = [p \in Party |-> <<>>]
  /\ pending = [p \in Party |-> <<>>]
  /\ commitments = <<>> /\ codewords = <<>> /\ upper0s = <<>> /\ sums = <<>> /\ fold = <<>>
  /\ upper_mts = <<>> /\ mt_roots = <<>>
  /\ proofs_for_t = <<>> /\ mt_proofs = <<>> /\ mt0_proofs = <<>> /\ transcript = <<>>
  /\ up = [w \in Worker |-> <<>>] /\ down = [w \in Worker |-> <<>>]

MasterRuns ==
  \/ MasterEvals \/ MasterCommits \/ MasterBatch \/ MasterBatchExt
  \/ MasterFoldsOpen \/ MasterFoldsBatch \/ MasterFoldsExt
  \/ MasterAnswersOpen \/ MasterAnswersBatch \/ MasterAnswersExt
  \/ MasterMt0sBatch \/ MasterMt0sExt

WorkerRuns(w) ==
  \/ WorkerEvals(w) \/ WorkerChunk(w) \/ WorkerSizes(w) \/ WorkerBatch(w) \/ WorkerBroadcast(w)
  \/ WorkerFoldsOpen(w) \/ WorkerFoldsBatch(w) \/ WorkerFoldsExt(w)
  \/ WorkerAnswersOpen(w) \/ WorkerAnswersBatch(w)
  \/ WorkerMt0sBatch(w) \/ WorkerMt0sExt(w)

AllDone == (\A p \in Party : pc[p] = "done") /\ UNCHANGED vars

Next ==
  \/ MasterRuns \/ \E w \in Worker : WorkerRuns(w)
  \/ AllDone

Spec == Init /\ [][Next]_vars

-----------------------------------------------------------------------------
(* Properties.                                                             *)

\* What each variable holds; a query stays inside the current codeword.
TypeOK ==
  /\ pc \in [Party -> DOMAIN Expects \cup {"evals", "roots0", "batch", "roots", "round", "query",
                                            "prove", "mt0", "done"}]
  /\ round \in [Party -> 0..Mu] /\ queries \in [Party -> 0..S]
  /\ \A p \in Party :
       /\ pc[p] = "prove" => beta[p] \in 0..(D!L(round[p]) - 1)
       /\ Len(local_mts[p]) = Len(is_distributed[p]) /\ Len(local_mts[p]) =< Mu
  /\ Len(mt_roots) = Len(upper_mts) /\ Len(mt_roots) =< Mu
  /\ Len(proofs_for_t) < Mu /\ Len(mt_proofs) =< S /\ Len(mt0_proofs) =< S
  /\ DOMAIN up = Worker /\ DOMAIN down = Worker

\* The two branches of am_master make the same calls in the same order: no
\* party ever takes the bytes of one call for those of another, unwraps the
\* None of a party that is not the owner, or divides by a step of zero,
\* however far the workers run behind or ahead of the master; and at the end
\* nothing is left on the channel for a later call to take for its own.
NoPanic ==
  /\ TypeOK
  /\ \A w \in Worker : ~Misread(w)
  /\ ~MisreadGather
  /\ \A p \in Party : ~NoStep(p)
  /\ ~UnwrapsNone
  /\ \A w \in Worker : pc[w] = "done" => down[w] = <<>>
  /\ pc[0] = "done" => \A w \in Worker : up[w] = <<>>

\* What the verifier appends to its transcript on the way through the proof.
Replay ==
  (IF D!IsBatch
   THEN <<Draw("batched_sumcheck", oracle.batch)>> \o SumcheckAppends(sums.msgs, oracle.sumcheck)
          \o <<Draw("gamma", oracle.gamma)>>
   ELSE <<>>)
  \o FlattenSeq([i \in 1..Mu |-> <<Draw("alpha", oracle.alpha[i]), Draw("r", oracle.r[i])>>])
  \o [t \in 1..S |-> Draw("beta", mt_proofs[t][1].x)]

\* The verifier draws the challenges that the master has drawn, and accepts
\* the whole proof: sum-check, linear polynomials, folds, paths and the
\* combination of the committed codewords.  At extension points this is said
\* of points of the base field only.
VerifierAccepts ==
  pc[0] = "done" => D!Verify /\ transcript = Replay

\* A root binds: what the verifier accepts at a position are the values of
\* the codeword there, so an opening of another position, of another round or
\* of another query is not accepted in its place.
Binding ==
  pc[0] = "done" =>
    \A t, s \in DOMAIN mt_proofs, k \in DOMAIN mt_roots, j \in 1..Mu :
      LET i  == D!LevelOf(k)
          at == mt_proofs[t][i + 1]
          o  == mt_proofs[s][j]
      IN  VerifyAt(mt_roots[k], D!L(i), at.x, o.vals, o.leaf, o.proof) => o.vals = at.vals

\* The distributed prover makes the proof of the single machine: the same
\* commitments and roots in the same order, and the same openings.
Implements == D!Spec
=============================================================================
