------------------------------- MODULE DeepFold ------------------------------
(***************************************************************************)
(* The DeepFold prover of a single machine and its verifier, for the four  *)
(* kinds of proof:                                                         *)
(*   "open"      deepfold_open, of one polynomial;                         *)
(*   "batch"     deepfold_batch_open, of several at a point each;          *)
(*   "ext"       deepfold_open_at_ext_point;                               *)
(*   "batch_ext" deepfold_batch_open_at_ext_point.                         *)
(* The distributed prover, DDeepFold, implements this one; "ext" has no    *)
(* distributed counterpart.                                                *)
(*                                                                         *)
(* The challenges are an oracle's: a function of what was appended to the  *)
(* transcript before.  The query positions are chosen one by one.          *)
(***************************************************************************)
EXTENDS MerkleTree, Folding

CONSTANTS
  Kinds,    \* what is to be proved, some of the four
  Tables,   \* the evaluations of the polynomials, a sequence of vectors
  BatchOf,  \* which of them a batch opens, a sequence of numbers
  Points,   \* for each in the batch its point re + im * u
  Oracles,  \* records of the challenges batch, sumcheck, gamma, alpha and r
  Mu,       \* the number of variables (mu = max_mu)
  Rate,     \* the code rate multiplier (4)
  S,        \* the number of queries (33 in the code)
  Betas     \* the query positions the transcript may give

\* gen_srs_with_rate: the length of the codeword.
LenL0 == 2^Mu * Rate

VARIABLES
  kind, oracle,
  commitments,  \* the roots of the committed polynomials
  codewords,    \* and their codewords, which the advices keep (v0)
  sums,         \* of a batch: the sum-check's messages, and both lists of values
  fold,         \* what is folded, with all the rounds (see Folding)
  mt_roots,     \* the roots of the rounds so far
  mt_proofs,    \* the openings of the queries so far, one per round in each
  mt0_proofs    \* of a batch: those of the committed codewords

vars == <<kind, oracle, commitments, codewords, sums, fold, mt_roots, mt_proofs, mt0_proofs>>

IsBatch == kind \in {"batch", "batch_ext"}
IsExt   == kind \in {"ext", "batch_ext"}
ToCommit == IF IsBatch THEN Len(Tables) ELSE 1

L(i) == LenL0 \div 2^i
V(i) == fold.v[i + 1]

Codeword(table) == Fft(0, LenL0, EvalsToCoeffs(Mu, table))

-----------------------------------------------------------------------------
(* The prover.                                                             *)

\* deepfold_commit of the next polynomial.  What is to be opened alone is
\* folded from its codeword, and its root is the first of the rounds.
Commit ==
  LET k    == Len(commitments) + 1
      word == Codeword(Tables[k])
      root == Root(BuildTree(word))
  IN  /\ k =< ToCommit
      /\ commitments' = Append(commitments, root)
      /\ codewords' = Append(codewords, word)
      /\ IF IsBatch THEN UNCHANGED <<fold, mt_roots>>
         ELSE /\ fold' = Folded(Unfolded(Tables[1], word, Points[1].re), oracle.alpha, oracle.r, IsExt)
              /\ mt_roots' = <<root>>
      /\ UNCHANGED <<kind, oracle, sums, mt_proofs, mt0_proofs>>

\* The sum-check on the batch, the values of the polynomials at their points
\* and at the point of the sum-check; of an extension value the real part is
\* what the verifier goes on with.
SumsOf(tables, points, ext, o) ==
  LET re == [k \in DOMAIN points |-> points[k].re] IN
  [msgs   |-> BatchSum(tables, re, o),
   evals  |-> [k \in DOMAIN tables |->
                 IF ext THEN EvalMleAtExt(tables[k], points[k].re, points[k].im)[1]
                 ELSE EvalMle(tables[k], points[k].re)],
   sum_check_evals |-> [k \in DOMAIN tables |-> EvalMle(tables[k], AsVec(o.sumcheck))]]

\* The combined polynomial, which has no tree of its own.
BatchFold(tables, ext, o) ==
  LET all == Combination(o.gamma, tables) IN
  Folded(Unfolded(all, Codeword(all), AsVec(o.sumcheck)), o.alpha, o.r, ext)

BatchTablesOf == [k \in DOMAIN BatchOf |-> Tables[BatchOf[k]]]

Begin ==
  /\ IsBatch /\ Len(commitments) = ToCommit /\ sums = <<>>
  /\ sums' = SumsOf(BatchTablesOf, Points, IsExt, oracle)
  /\ fold' = BatchFold(BatchTablesOf, IsExt, oracle)
  /\ UNCHANGED <<kind, oracle, commitments, codewords, mt_roots, mt_proofs, mt0_proofs>>

\* A tree for every codeword but the last, whose one value is sent as f_mu;
\* in a batch the rounds have one root less.
LevelOf(k) == IF IsBatch THEN k ELSE k - 1
NumRoots   == IF IsBatch THEN Mu - 1 ELSE Mu
AllRoots   == fold # <<>> /\ Len(mt_roots) = NumRoots

Round ==
  /\ fold # <<>> /\ Len(mt_roots) < NumRoots
  /\ mt_roots' = Append(mt_roots, Root(BuildTree(V(LevelOf(Len(mt_roots) + 1)))))
  /\ UNCHANGED <<kind, oracle, commitments, codewords, sums, fold, mt_proofs, mt0_proofs>>

\* Where the query is in the next, folded codeword.
NextBeta(i, b) == IF b >= L(i + 1) THEN b - L(i + 1) ELSE b

BetaAt(b) ==
  LET f[i \in 0..Mu] == IF i = 0 THEN b ELSE NextBeta(i - 1, f[i - 1]) IN f

\* The values of a batch in round 0: their proof is that of the commitments.
OpenWithoutProof(v, x) ==
  LET leafSize == LeafSizeOf(Size(v))
      step     == Size(v) \div leafSize
  IN  Opening(v, x, LeafElements(v, x % step, step, leafSize), <<>>)

OpenLevel(i, x) ==
  IF IsBatch /\ i = 0 THEN OpenWithoutProof(V(0), x) ELSE OpenAt(BuildTree(V(i)), V(i), x)

Query(b) ==
  /\ AllRoots /\ Len(mt_proofs) < S
  /\ mt_proofs' = Append(mt_proofs, [k \in 1..Mu |-> OpenLevel(k - 1, BetaAt(b)[k - 1])])
  /\ UNCHANGED <<kind, oracle, commitments, codewords, sums, fold, mt_roots, mt0_proofs>>

\* The first of each, in the order of the batch.
FirstOf(list) ==
  FlattenSeq([k \in DOMAIN list |-> IF \E j \in 1..(k - 1) : list[j] = list[k] THEN <<>> ELSE <<k>>])

Mt0Opening(v, t, x) ==
  LET step == LenL0 \div t.leaf_size IN
  [leaf |-> LeafElements(v, x % step, step, t.leaf_size), proof |-> Prove(t, x % step)]

\* The leaf of the query in every committed codeword.
Mt0 ==
  LET idx == FirstOf(BatchOf)
      x   == mt_proofs[Len(mt0_proofs) + 1][1].x
      of(k) == codewords[BatchOf[k]]
  IN  /\ IsBatch /\ Len(mt_proofs) = S /\ Len(mt0_proofs) < S
      /\ mt0_proofs' = Append(mt0_proofs,
           [j \in DOMAIN idx |-> Mt0Opening(of(idx[j]), BuildTree(of(idx[j])), x)])
      /\ UNCHANGED <<kind, oracle, commitments, codewords, sums, fold, mt_roots, mt_proofs>>

\* What each of the four does of it.
RoundOpen         == kind = "open" /\ Round
RoundBatch        == kind = "batch" /\ Round
RoundExt          == kind = "ext" /\ Round
RoundBatchExt     == kind = "batch_ext" /\ Round
QueryOpen(b)      == kind = "open" /\ Query(b)
QueryBatch(b)     == kind = "batch" /\ Query(b)
QueryExt(b)       == kind = "ext" /\ Query(b)
QueryBatchExt(b)  == kind = "batch_ext" /\ Query(b)
BeginBatch        == kind = "batch" /\ Begin
BeginBatchExt     == kind = "batch_ext" /\ Begin
Mt0Batch          == kind = "batch" /\ Mt0
Mt0BatchExt       == kind = "batch_ext" /\ Mt0

Init ==
  /\ kind \in Kinds /\ oracle \in Oracles
  /\ commitments = <<>> /\ codewords = <<>> /\ sums = <<>> /\ fold = <<>>
  /\ mt_roots = <<>> /\ mt_proofs = <<>> /\ mt0_proofs = <<>>

Next ==
  \/ Commit \/ BeginBatch \/ BeginBatchExt
  \/ RoundOpen \/ RoundBatch \/ RoundExt \/ RoundBatchExt
  \/ \E b \in Betas : QueryOpen(b) \/ QueryBatch(b) \/ QueryExt(b) \/ QueryBatchExt(b)
  \/ Mt0Batch \/ Mt0BatchExt
Spec == Init /\ [][Next]_vars

-----------------------------------------------------------------------------
(* The verifier.                                                           *)

FMu == IF IsExt THEN fold.f_tilde[0] ELSE Final(fold)

\* The queries: a path for every level that has a tree, and the three values
\* of a fold on one line.
QueryOk(openings, b) ==
  \A i \in 0..(Mu - 1) :
    LET o == openings[i + 1]
        x == BetaAt(b)[i]
    IN  /\ \/ IsBatch /\ i = 0
           \/ VerifyAt(mt_roots[IF IsBatch THEN i ELSE i + 1], L(i), x, o.vals, o.leaf, o.proof)
        /\ Collinear(i, x, o.vals, oracle.r[i + 1],
                     IF i < Mu - 1 THEN openings[i + 2].vals[1] ELSE FMu)

\* Which opening of the distinct commitments is a polynomial's.
FlagOf(coms, k) ==
  LET idx == FirstOf(coms) IN CHOOSE j \in DOMAIN idx : coms[idx[j]] = coms[k]

\* The leaves of the commitments, and their combination in round 0.
Mt0Ok(openings, level0) ==
  LET coms == [k \in DOMAIN BatchOf |-> commitments[BatchOf[k]]]
      idx  == FirstOf(coms)
      step(k) == LenL0 \div Size(openings[k].leaf)
      x    == level0.x
  IN  /\ \A k \in DOMAIN idx :
           VerifyPath(coms[idx[k]], x % step(k), HashRow(openings[k].leaf), openings[k].proof)
      /\ FieldSum(Len(coms), LAMBDA k :
               oracle.gamma[k + 1] * openings[FlagOf(coms, k + 1)].leaf[x \div step(1)])
           = level0.vals[1]

\* From the claimed values to f_mu, along the linear polynomials.
LinearOk(point, value) ==
  LinearPolysOk(fold.linear_polys, point, value, oracle.alpha, oracle.r, FMu)

QueriesOk == \A t \in DOMAIN mt_proofs : QueryOk(mt_proofs[t], mt_proofs[t][1].x)
Mt0sOk    == \A t \in DOMAIN mt0_proofs : Mt0Ok(mt0_proofs[t], mt_proofs[t][1])

\* Sum-check and combination; of the values of a batch at extension points
\* the verifier reads the real parts.
BatchOk ==
  /\ BatchClaimOk(sums.msgs, [k \in DOMAIN Points |-> Points[k].re], sums.evals, sums.sum_check_evals, oracle)
  /\ LinearOk(AsVec(oracle.sumcheck),
       FieldSum(Len(BatchOf), LAMBDA k : oracle.gamma[k + 1] * sums.sum_check_evals[k + 1]))

ExtOk ==
  LET a == Points[1].re
      b == Points[1].im
  IN  ExtLinearPolysOk(ExtLinearPolys(Tables[1], a, b, oracle.r), a, b,
                       EvalMleAtExt(Tables[1], a, b), oracle.r, FMu)

VerifyOpen ==
  /\ mt_roots[1] = commitments[1]
  /\ LinearOk(Points[1].re, EvalMle(Tables[1], Points[1].re))
  /\ QueriesOk
VerifyExt      == mt_roots[1] = commitments[1] /\ ExtOk /\ QueriesOk
VerifyBatch    == BatchOk /\ QueriesOk /\ Mt0sOk
VerifyBatchExt == BatchOk /\ QueriesOk /\ Mt0sOk

\* What deepfold_open_at_ext_point makes deepfold_verify_at_ext_point accepts,
\* and so on for the others: of the proof as far as it goes.
Verify ==
  fold # <<>> =>
    CASE kind = "open"      -> VerifyOpen
      [] kind = "ext"       -> VerifyExt
      [] kind = "batch"     -> VerifyBatch
      [] kind = "batch_ext" -> VerifyBatchExt

-----------------------------------------------------------------------------
\* What deepfold_open_at_ext_point has made deepfold_verify_at_ext_point
\* accepts: the two are offered as a pair.
ExtProofAccepted == kind = "ext" /\ Len(mt_proofs) = S => VerifyExt
=============================================================================
