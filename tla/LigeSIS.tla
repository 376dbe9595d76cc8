------------------------------- MODULE LigeSIS -------------------------------
(***************************************************************************)
(* The LigeSIS commitment scheme on a single machine (ligesis/commit.rs,    *)
(* open.rs, verify.rs and the helpers of mod.rs and utils.rs).  The         *)
(* distributed prover, DLigeSIS, implements this one.                       *)
(*                                                                         *)
(* The polynomial is a matrix F.  Its rows are encoded (F'), the columns of *)
(* F' are hashed with a matrix A, bit by bit, and the hashes (H) are        *)
(* committed.  An opening sends the combination a of the rows and the bits  *)
(* bI of some columns, and sum-checks tie these to each other, to the code  *)
(* and to H.                                                               *)
(*                                                                         *)
(* A commitment is the list of the vectors that it binds to, and its opening*)
(* gives their values: the chunked batch scheme is the subject of          *)
(* DChunkedBatch.  The challenges are an oracle's, as in DeepFold; those of *)
(* the sum-checks are base values (ext_sumcheck.rs).                        *)
(***************************************************************************)
EXTENDS VirtualPolynomial

CONSTANTS
  Evals,    \* the polynomial, its evaluations
  Points,   \* where it is opened, perhaps with fewer variables than it has
  Oracles,  \* records of the challenges, by their names in the code
  MatA,     \* the matrix of the hash, mat_a
  Eta,      \* the bits of a field element (64)
  LogM, LogN,  \* the logarithms of the rows and the columns of F
  G,        \* a generator of the code's domain (rs.get_generator())
  WORD      \* the hash is computed modulo 2^WORD (64)

MuAll   == LogM + LogN
NumRows == 2^LogM
NumCols == 2^LogN
RsLen   == 2 * NumCols
LogRs   == LogN + 1
NumHash == Size(MatA)

ASSUME EtaAssumption   == \A x \in Fp : x < 2^Eta
ASSUME CodeAssumption  == Power(G, RsLen) = 1 /\ Power(G, NumCols) # 1
\* compute_sis_hash takes at most eight rows of A.
ASSUME MatAAssumption  ==
  /\ NumHash =< 8
  /\ \A k \in DOMAIN MatA : Size(MatA[k]) = Eta * NumRows
ASSUME EvalsAssumption == Size(Evals) = 2^MuAll

VARIABLES
  point, oracle,
  com_mat_h,      \* the commitment to H
  com_a_bI_rsa,   \* the commitment of the opening, to a, bI and rs_a
  checks,         \* the messages of the sum-checks so far
  claimed_values, \* the values of what is committed, at PointsOf
  transcript

vars == <<point, oracle, com_mat_h, com_a_bI_rsa, checks, claimed_values, transcript>>

-----------------------------------------------------------------------------
(* Matrices and bits (utils.rs, rscode.rs).                                *)

Reshape(v, n, m)   == Vec(n, LAMBDA i : Vec(m, LAMBDA j : v[i * m + j]))
Transposition(mat) == Vec(Size(mat[0]), LAMBDA i : Vec(Size(mat), LAMBDA j : mat[j][i]))
Flat(mat) ==
  LET m == Size(mat[0]) IN Vec(Size(mat) * m, LAMBDA i : mat[i \div m][i % m])
ResizePoint(p, n)  == Vec(n, LAMBDA i : IF i < Size(p) THEN p[i] ELSE 0)
Otimes(a, b)       == Vec(Size(a) * Size(b), LAMBDA i : (a[i \div Size(b)] * b[i % Size(b)]) % P)
MatMul(row, mat)   == Vec(Size(mat[0]), LAMBDA j : FieldSum(Size(row), LAMBDA k : row[k] * mat[k][j]))

\* Faulty variant: an element's bits from the highest down.
DecomposeVector_BigEndian(v) ==
  Vec(Size(v) * Eta, LAMBDA i : Bit(v[i \div Eta], Eta - 1 - (i % Eta)))

DecomposeVector(v) == Vec(Size(v) * Eta, LAMBDA i : Bit(v[i \div Eta], i % Eta))

Encode(v) ==
  LET power == Vec(RsLen, LAMBDA x : Power(G, x)) IN
  Vec(RsLen, LAMBDA x : FieldSum(Size(v), LAMBDA k : v[k] * power[(k * x) % RsLen]))
EncodeRows(mat) == Vec(Size(mat), LAMBDA i : Encode(mat[i]))

\* compute_sis_hash of some rows of F', with their columns of A: the sums are
\* those of machine words, and reduced when they are complete.
WordSum(n, f(_)) == FoldLeft(LAMBDA s, i : (s + f(i - 1)) % 2^WORD, 0, [i \in 1..n |-> i])
SisHash(matA, matF) ==
  LET bits == Transposition(matF) IN
  Vec(NumHash, LAMBDA k : Vec(RsLen, LAMBDA j :
    WordSum(Size(matA[k]), LAMBDA e : matA[k][e] * Bit(bits[j][e \div Eta], e % Eta)) % P))

\* The bits of the columns I of F', as columns.
MatBI(matF, I) ==
  LET columns == Transposition(matF) IN
  Transposition(Vec(Len(I), LAMBDA t : DecomposeVector(columns[I[t + 1]])))

-----------------------------------------------------------------------------
(* The sum-checks of ext_sumcheck.rs, of one product of tables.            *)

TheProduct(tables) == <<[coeff |-> 1, mles |-> [j \in DOMAIN tables |-> j]]>>
RunExtSumcheck(tables, r) ==
  [k \in 1..Len(r) |-> ExtRound(TheProduct(tables), BoundAt(tables, SubSeq(r, 1, k - 1)))]
ExtAppends(msgs, r) ==
  FlattenSeq([k \in 1..Len(msgs) |->
    [t \in 1..Size(msgs[k]) |-> Draw("eval", msgs[k][t - 1])] \o <<Draw("ext_sumcheck", r[k])>>])

\* verify_ext_sumcheck_with_subclaim: the claimed sum is the proof's own.
ExtSubclaim(msgs, r) ==
  LET claim[k \in 0..Len(msgs)] == IF k = 0 THEN SumOf(msgs) ELSE Lagrange(msgs[k], r[k]) IN
  [ok |-> \A k \in 1..Len(msgs) : (msgs[k][0] + msgs[k][1]) % P = claim[k - 1],
   expected |-> claim[Len(msgs)]]

\* The points of the sum-checks, in their order: bI, rs_a, those of the code's
\* matrix, A times bI, and the recombined bits.
RsSteps        == LogRs - 1
NumChecks      == RsSteps + 4
CheckPoints(o) == <<o.r1, o.r6>> \o o.mat_g \o <<o.r4, o.r5>>

\* The step of the code's matrix with i variables more than none: cur_p is the
\* point of the step before, filled up with zeros at first.
StepVars(s) == LogRs - s
CurP(o, s)  == IF s = 1 THEN ResizePoint(AsVec(o.r6), LogRs) ELSE AsVec(o.mat_g[s - 1])

Weights(o, s) ==
  LET i  == StepVars(s) + 1
      a  == o.alpha3[s]
      b  == CurP(o, s)[i - 1]
      gi == Power(G, 2^(LogRs - i))
  IN  Vec(2^(i - 1), LAMBDA z :
        (1 - a + a * ((Power(gi, z) * (1 - b) + Power(gi, z + 2^(i - 1)) * b) % P)) % P)

AlphaRows(o) == AlphaMatG(LogRs, G, AsVec(o.alpha3))
MatGTables(o, s) ==
  <<Tensor(Take(CurP(o, s), StepVars(s))), AlphaRows(o)[StepVars(s)], Weights(o, s)>>

Z1(p) == Drop(ResizePoint(p, MuAll), LogN)
Z2(p) == Take(ResizePoint(p, MuAll), LogN)
RowWeights(p) == Otimes(Tensor(Z1(p)), Vec(Eta, LAMBDA i : (2^i) % P))

\* What the master, or the single machine, runs after the check of bI.
CheckTables(p, o, a, matBI) ==
  LET bI_r2 == MatMul(Tensor(AsVec(o.r2)), Transposition(matBI)) IN
  <<<<Take(AlphaRows(o)[LogRs], NumCols), a>>>>
    \o [s \in 1..RsSteps |-> MatGTables(o, s)]
    \o <<<<MatMul(Tensor(AsVec(o.alpha2)), MatA), bI_r2>>, <<RowWeights(p), bI_r2>>>>

\* r2 and r3 are drawn between those of the code's matrix and the last two.
AppendsOfChecks(msgs, points, o) ==
  LET of(from, to) ==
        FlattenSeq([k \in 1..(to - from + 1) |-> ExtAppends(msgs[from + k - 1], points[from + k - 1])])
  IN  of(1, RsSteps + 1) \o <<Draw("r2", o.r2), Draw("r3", o.r3)>> \o of(RsSteps + 2, RsSteps + 3)

-----------------------------------------------------------------------------
(* What is opened.                                                         *)

PointsOf(p, o) ==
  <<Z2(p), AsVec(o.r6), AsVec(o.r1), AsVec(o.r2 \o o.r4), AsVec(o.r2 \o o.r5),
    AsVec(o.r3), AsVec(o.alpha3), AsVec(o.r3 \o o.alpha2), AsVec(o.r4 \o o.alpha2)>>
PointToCommit == <<0, 0, 0, 0, 0, 0, 0, 1, 2>>
PointToPoly   == <<0, 0, 1, 1, 1, 2, 2, 0, 0>>

\* The value of a vector at a point with too few variables, the others zero.
ValueAt(v, p) == EvalMle(v, ResizePoint(p, Log2(Size(v))))
Opened(coms, points, toCommit, toPoly) ==
  [k \in DOMAIN points |-> ValueAt(coms[toCommit[k] + 1][toPoly[k] + 1], points[k])]

-----------------------------------------------------------------------------
(* The prover.                                                             *)

MatF      == Reshape(Evals, NumRows, NumCols)
MatFPrime == EncodeRows(MatF)
MatH      == SisHash(MatA, MatFPrime)

RowOf(p)  == MatMul(Tensor(Z1(p)), MatF)

Commit ==
  /\ com_mat_h = <<>>
  /\ com_mat_h' = <<Flat(MatH)>>
  /\ UNCHANGED <<point, oracle, com_a_bI_rsa, checks, claimed_values, transcript>>

DrawI ==
  /\ com_mat_h # <<>> /\ transcript = <<>>
  /\ transcript' = <<Draw("I", oracle.I)>>
  /\ UNCHANGED <<point, oracle, com_mat_h, com_a_bI_rsa, checks, claimed_values>>

Alphas(o) == <<Draw("alpha1", o.alpha1), Draw("alpha2", o.alpha2), Draw("alpha3", o.alpha3)>>
DrawAlphas ==
  /\ Len(transcript) = 1
  /\ transcript' = transcript \o Alphas(oracle)
  /\ UNCHANGED <<point, oracle, com_mat_h, com_a_bI_rsa, checks, claimed_values>>

CommitOpening ==
  LET a == RowOf(point) IN
  /\ Len(transcript) = 4 /\ com_a_bI_rsa = <<>>
  /\ com_a_bI_rsa' = <<a, Flat(MatBI(MatFPrime, oracle.I)), Encode(a)>>
  /\ UNCHANGED <<point, oracle, com_mat_h, checks, claimed_values, transcript>>

MinusOne(v) == Vec(Size(v), LAMBDA i : (v[i] - 1) % P)

CheckBits ==
  LET bI   == com_a_bI_rsa[2]
      msgs == RunExtSumcheck(<<bI, MinusOne(bI), Tensor(AsVec(oracle.alpha1))>>, oracle.r1)
  IN  /\ com_a_bI_rsa # <<>> /\ checks = <<>>
      /\ checks' = <<msgs>>
      /\ transcript' = transcript \o ExtAppends(msgs, oracle.r1)
      /\ UNCHANGED <<point, oracle, com_mat_h, com_a_bI_rsa, claimed_values>>

CheckRest(a, matBI) ==
  LET tables == CheckTables(point, oracle, a, matBI)
      points == Tail(CheckPoints(oracle))
      msgs   == [k \in DOMAIN tables |-> RunExtSumcheck(tables[k], points[k])]
  IN  /\ Len(checks) = 1
      /\ checks' = checks \o msgs
      /\ transcript' = transcript \o AppendsOfChecks(msgs, points, oracle)
      /\ UNCHANGED <<point, oracle, com_mat_h, com_a_bI_rsa, claimed_values>>

Open ==
  /\ Len(checks) = NumChecks /\ claimed_values = <<>>
  /\ claimed_values' = Opened(<<com_a_bI_rsa, com_mat_h, <<Flat(MatA)>>>>,
                              PointsOf(point, oracle), PointToCommit, PointToPoly)
  /\ UNCHANGED <<point, oracle, com_mat_h, com_a_bI_rsa, checks, transcript>>

Init ==
  /\ point \in Points /\ oracle \in Oracles
  /\ com_mat_h = <<>> /\ com_a_bI_rsa = <<>> /\ checks = <<>> /\ claimed_values = <<>>
  /\ transcript = <<>>

Next == \/ Commit \/ DrawI \/ DrawAlphas \/ CommitOpening \/ CheckBits
        \/ CheckRest(RowOf(point), MatBI(MatFPrime, oracle.I)) \/ Open
Spec == Init /\ [][Next]_vars

-----------------------------------------------------------------------------
(* ligesis_verify, up to the opening of the commitments.                   *)

\* What each of the sum-checks has to come to at its point.
Computed(p, o, values) ==
  LET at(v, r) == EvalMle(v, AsVec(r))
      bI_r1    == values[3]
  IN  <<bI_r1 * ((bI_r1 - 1) % P) * at(Tensor(AsVec(o.alpha1)), o.r1),
        at(Take(AlphaRows(o)[LogRs], NumCols), o.r6) * values[2]>>
      \o [s \in 1..RsSteps |->
            LET t == MatGTables(o, s)
                r == o.mat_g[s]
            IN  at(t[1], r) * at(t[2], r) * at(t[3], r)]
      \o <<values[9] * values[4], at(RowWeights(p), o.r5) * values[5]>>

Verify(p, o, value, msgs, values) ==
  /\ Len(msgs) = NumChecks
  /\ \A k \in 1..NumChecks :
       LET c == ExtSubclaim(msgs[k], CheckPoints(o)[k]) IN
       c.ok /\ c.expected = Computed(p, o, values)[k] % P
  /\ SumOf(msgs[1]) = 0
  /\ SumOf(msgs[2]) = values[7]
  /\ values[1] = value

\* What it appends, going through the proof.
Replay(msgs, o) ==
  <<Draw("I", o.I)>> \o Alphas(o) \o ExtAppends(msgs[1], o.r1)
    \o AppendsOfChecks(Tail(msgs), Tail(CheckPoints(o)), o)
=============================================================================
