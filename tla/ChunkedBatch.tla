---------------------------- MODULE ChunkedBatch -----------------------------
(***************************************************************************)
(* The batch commitment of a single machine: chunked_batch_commit and      *)
(* multi_chunked_batch_open_at_ext_point, and the checks its verifier      *)
(* makes of the Merkle part.  The distributed prover, DChunkedBatch,       *)
(* implements this one.                                                    *)
(*                                                                         *)
(* Polynomials of any size are cut into chunks of 2^BaseMu evaluations, or *)
(* padded to one.  The codewords of the chunks are the rows of a matrix;   *)
(* leaf x of the tree is the hash of its column x.  All the chunks of all  *)
(* the commitments are combined into one polynomial, which is folded: its  *)
(* codeword is the combination of the rows.                                *)
(*                                                                         *)
(* Evaluation i of polynomial q of commitment c is <<c, q, i>>; element x  *)
(* of the codeword of a chunk is the chunk and x; element x of the         *)
(* codeword of the combined polynomial after i folds is <<i, x>>.          *)
(***************************************************************************)
EXTENDS MerkleTree, SequencesExt

CONSTANTS
  NumVars,  \* original_num_vars: for every commitment, of each polynomial
  BaseMu,   \* the number of variables of a chunk (base_mu = max_mu)
  Rate,     \* the code rate multiplier (4)
  S,        \* the number of queries (33)
  Betas     \* the query positions the transcript may give

VARIABLES
  commitments,  \* the commitments so far
  mt_roots,     \* the roots of the folded codewords so far
  proofs        \* the answers to the queries so far

vars == <<commitments, mt_roots, proofs>>

LenL0 == 2^BaseMu * Rate
ChunkSize == 2^BaseMu

-----------------------------------------------------------------------------
(* Chunks, rows and columns.                                               *)

Evals(c, q) == [i \in 0..(2^NumVars[c][q] - 1) |-> <<c, q, i>>]

FieldZero == <<>>

\* split_polynomial_into_chunks
Split(evals) ==
  IF Size(evals) =< ChunkSize
  THEN << [i \in 0..(ChunkSize - 1) |-> IF i \in DOMAIN evals THEN evals[i] ELSE FieldZero] >>
  ELSE [b \in 1..(Size(evals) \div ChunkSize) |-> Slice(evals, (b - 1) * ChunkSize, b * ChunkSize)]

Chunks(c) == FlattenSeq([q \in DOMAIN NumVars[c] |-> Split(Evals(c, q))])

\* A row of v0_matrix and its element x.
Row(chunk)   == [row_of |-> chunk]
Elem(row, x) == [of |-> row, at |-> x]

Column(rows, x) == [j \in DOMAIN rows |-> Elem(rows[j], x)]

Rows(c) == LET chunks == Chunks(c) IN [j \in DOMAIN chunks |-> Row(chunks[j])]

\* MerkleTree::new over the column hashes.
ColumnTree(hashes) == WithLeafSize(hashes, DEFAULT_LEAF_SIZE)

Mt0(c) == LET rows == Rows(c) IN
          ColumnTree([x \in 0..(LenL0 - 1) |-> HashRow(Column(rows, x))])

Commitment(root, counts, total) ==
  [root |-> root, chunks_per_poly |-> counts, num_chunks |-> total]

Commit ==
  LET c == Len(commitments) + 1 IN
  /\ c \in DOMAIN NumVars
  /\ commitments' = Append(commitments,
       Commitment(Root(Mt0(c)), [q \in DOMAIN NumVars[c] |-> Len(Split(Evals(c, q)))],
                  Len(Chunks(c))))
  /\ UNCHANGED <<mt_roots, proofs>>

-----------------------------------------------------------------------------
(* Folding the combined polynomial and answering the queries.              *)

L(i) == LenL0 \div 2^i
V(i) == [x \in 0..(L(i) - 1) |-> <<i, x>>]
Mt(i) == BuildTree(V(i))

\* The codewords with a tree of their own.  The first is in the commitments.
HasTree(i) == 0 < i /\ i < BaseMu

Round ==
  LET i == Len(mt_roots) + 1 IN
  /\ Len(commitments) = Len(NumVars) /\ HasTree(i)
  /\ mt_roots' = Append(mt_roots, Root(Mt(i)))
  /\ UNCHANGED <<commitments, proofs>>

\* Where a query is in the codewords.
NextBeta(i, b) == IF b >= L(i + 1) THEN b - L(i + 1) ELSE b
BetaAt(b) ==
  LET f[i \in 0..BaseMu] == IF i = 0 THEN b ELSE NextBeta(i - 1, f[i - 1]) IN f

\* The combined codeword has no tree of its own: its opening has no path.
Level0(b) ==
  LET leafSize == LeafSizeOf(LenL0)
      step     == LenL0 \div leafSize
  IN  Opening(V(0), b, LeafElements(V(0), b % step, step, leafSize), <<>>)

\* merkle_proofs[t]
Levels(mt, b) ==
  [i \in 0..(BaseMu - 1) |-> IF i = 0 THEN Level0(b) ELSE OpenAt(mt[i], V(i), BetaAt(b)[i])]

Answer(mt, b, mt0_proofs) == [beta |-> b, levels |-> Levels(mt, b), mt0_proofs |-> mt0_proofs]

Mt0Proof(column, proof) == [column |-> column, proof |-> proof]

Query(b) ==
  /\ Len(commitments) = Len(NumVars) /\ ~HasTree(Len(mt_roots) + 1) /\ Len(proofs) < S
  /\ proofs' = Append(proofs, Answer([i \in 1..(BaseMu - 1) |-> Mt(i)], b,
       [c \in DOMAIN NumVars |-> Mt0Proof(Column(Rows(c), b), Prove(Mt0(c), b))]))
  /\ UNCHANGED <<commitments, mt_roots>>

Init == commitments = <<>> /\ mt_roots = <<>> /\ proofs = <<>>
Next == Commit \/ Round \/ \E b \in Betas : Query(b)
Spec == Init /\ [][Next]_vars

-----------------------------------------------------------------------------
(* multi_chunked_batch_verify_at_ext_point, one query.                     *)

\* v[base_mu] is a constant: final_value stands for all of it.
Value(i, x) == IF i = BaseMu THEN <<BaseMu, 0>> ELSE <<i, x>>

\* is_collinear: the two values of round i determine that of round i + 1 at
\* the folded position, and no other.
Collinear(i, b, vals, next) ==
  /\ vals = <<Value(i, b), Value(i, Conjugate(L(i), b))>>
  /\ next = Value(i + 1, NextBeta(i, b))

VerifyQuery(comms, roots, answer) ==
  /\ \A c \in DOMAIN comms :
       LET mt0 == answer.mt0_proofs[c] IN
       VerifyPath(comms[c].root, answer.beta, HashRow(mt0.column), mt0.proof)
  /\ \A i \in 0..(BaseMu - 1) :
       LET o == answer.levels[i]
           b == BetaAt(answer.beta)[i]
       IN  /\ o.x = b
           /\ i > 0 => VerifyPath(roots[i], b % (L(i) \div LeafSizeOf(L(i))), HashRow(o.leaf), o.proof)
           /\ Collinear(i, b, o.vals, IF i < BaseMu - 1 THEN answer.levels[i + 1].vals[1]
                                      ELSE Value(BaseMu, 0))
=============================================================================
