-------------------------------- MODULE Folding ------------------------------
(***************************************************************************)
(* The algebra of DeepFold (the folding loops of deepfold/open.rs and      *)
(* deepfold/ext.rs, and the checks of deepfold/verify.rs that are not about *)
(* Merkle trees), on a polynomial of mu variables.                         *)
(*                                                                         *)
(* f_tilde holds the evaluations of the polynomial, f its coefficients, v  *)
(* its codewords: the values of the univariate polynomial with these       *)
(* coefficients on a cyclic group.  A fold at r halves all three, and the  *)
(* linear polynomials tie the folds to the value at the point.             *)
(***************************************************************************)
EXTENDS VirtualPolynomial

CONSTANT G   \* a generator of the group of the first codeword

\* Element x of the domain of the codeword after i folds.
Domain(i, x) == Power(G, 2^i * x)

\* The codeword of length n after i folds.
Fft(i, n, f) ==
  LET powers == Vec(n, LAMBDA x : Domain(i, x)) IN
  Vec(n, LAMBDA x : FieldSum(Size(f), LAMBDA k : f[k] * powers[(k * x) % n]))

Evens(v) == Vec(Size(v) \div 2, LAMBDA i : v[2 * i])
Odds(v)  == Vec(Size(v) \div 2, LAMBDA i : v[2 * i + 1])

\* alpha, alpha^2, alpha^4, ...
AlphaPowers(alpha, mu) == Vec(mu, LAMBDA j : Power(alpha, 2^j))

FoldCoeffs(f, r) == Vec(Size(f) \div 2, LAMBDA i : (f[2 * i] + r * f[2 * i + 1]) % P)

-----------------------------------------------------------------------------
(* The prover.                                                             *)

\* The values at 0 and at 1 of the variable that is folded, the others at w.
LinearPoly(f_tilde, w) ==
  <<InnerProduct(Tensor(Drop(w, 1)), Evens(f_tilde)), InnerProduct(Tensor(Drop(w, 1)), Odds(f_tilde))>>

\* What a prover has before the first fold.
Unfolded(evals, codeword, point) ==
  [f_tilde |-> evals, f |-> EvalsToCoeffs(Size(point), evals), v |-> <<codeword>>,
   a |-> <<point>>, linear_polys |-> <<>>]

\* One round: the points a gets those of the round, and r folds everything.
Fold(s, new, r) ==
  LET i    == Len(s.v)
      a    == s.a \o new
      f    == FoldCoeffs(s.f, r)
      last == Size(s.f_tilde) = 2
  IN  [f_tilde      |-> BindBot(s.f_tilde, r),
       f            |-> f,
       v            |-> Append(s.v, Fft(i, Size(s.v[i]) \div 2, f)),
       a            |-> [j \in DOMAIN a |-> Drop(a[j], 1)],
       linear_polys |-> Append(s.linear_polys,
                          IF last THEN <<<<s.f_tilde[0], s.f_tilde[1]>>>>
                          ELSE [j \in DOMAIN a |-> LinearPoly(s.f_tilde, a[j])])]

\* All the rounds.  At a point of the extension field no alpha is used.
Folded(start, alpha, r, ext) ==
  LET mu == Len(r)
      s[i \in 0..mu] ==
        IF i = 0 THEN start
        ELSE Fold(s[i - 1], IF ext THEN <<>> ELSE <<AlphaPowers(alpha[i], mu - i + 1)>>, r[i])
  IN  s[mu]

\* f_mu: the one value that is left.
Final(s) == s.v[Len(s.v)][0]

-----------------------------------------------------------------------------
(* At a point a + b * u of the extension field: deepfold_open_at_ext_point *)
(* takes the tensor of the point without its first variable in all rounds. *)

Embedded(x)      == <<x, 0>>
EvalLinearExt(f, x) ==
  [c \in 1..2 |-> (f[1][c] + ExtMul(x, <<f[2][1] - f[1][1], f[2][2] - f[1][2]>>)[c]) % P]

ExtLinearPolys(evals, a, b, r) ==
  LET mu     == Len(r)
      f      == [i \in 1..mu |-> FixFromBot(evals, AsVec(SubSeq(r, 1, i - 1)))]
      tensor == TensorExt(Drop(a, 1), Drop(b, 1))
  IN  [i \in 1..mu |->
         IF i = mu THEN <<Embedded(f[mu][0]), Embedded(f[mu][1])>>
         ELSE <<InnerExt(Evens(f[i]), tensor), InnerExt(Odds(f[i]), tensor)>>]

ExtLinearPolysOk(linear, a, b, value, r, final) ==
  LET mu == Len(r) IN
  /\ EvalLinearExt(linear[1], <<a[0], b[0]>>) = value
  /\ EvalLinearExt(linear[mu], Embedded(r[mu])) = Embedded(final)
  /\ \A i \in 1..(mu - 1) :
       EvalLinearExt(linear[i], Embedded(r[i])) = EvalLinearExt(linear[i + 1], <<a[i], b[i]>>)

-----------------------------------------------------------------------------
(* Several polynomials: a sum-check brings their points to one, gamma them *)
(* to one polynomial.                                                      *)

BatchProducts(n, rBatch) == [k \in 1..n |-> [coeff |-> Power(rBatch, k - 1), mles |-> <<2 * k - 1, 2 * k>>]]

\* Each polynomial times the tensor of its point.
BatchTables(tables, points) ==
  FlattenSeq([k \in DOMAIN tables |-> <<tables[k], Tensor(points[k])>>])

BatchSum(tables, points, o) ==
  SumcheckMessages(BatchProducts(Len(tables), o.batch), BatchTables(tables, points), o.sumcheck)

Combination(gamma, vectors) ==
  Vec(Size(vectors[1]), LAMBDA x : FieldSum(Len(vectors), LAMBDA k : gamma[k + 1] * vectors[k + 1][x]))

-----------------------------------------------------------------------------
(* The verifier.                                                           *)

EvalLinear(f, x) == (f[1] * (1 - x) + f[2] * x) % P

\* The variable of round i + 1 at point j of the list.
PointAt(point, alpha, i, j) ==
  IF j = 1 THEN point[i] ELSE Power(alpha[j - 1], 2^(i + 1 - (j - 1)))

\* From the value at the point to f_mu, round after round.
LinearPolysOk(linear, point, value, alpha, r, final) ==
  LET mu == Len(r) IN
  /\ EvalLinear(linear[1][1], point[0]) = value
  /\ EvalLinear(linear[mu][1], r[mu]) = final
  /\ \A i \in 1..(mu - 1) : \A j \in DOMAIN linear[i] :
       EvalLinear(linear[i][j], r[i])
         = EvalLinear(linear[i + 1][IF i < mu - 1 THEN j ELSE 1], PointAt(point, alpha, i, j))

\* is_collinear of the values at x and -x of round i, and of the next at r.
Collinear(i, x, vals, r, next) ==
  LET g == Domain(i, x) IN
  ((vals[2] - vals[1]) * (r + g)) % P = ((next - vals[2]) * (-g - g)) % P

\* The sum-check of the batch: its point is o.sumcheck.
BatchClaimOk(msgs, points, evals, sumEvals, o) ==
  LET n    == Len(evals)
      sum  == FieldSum(n, LAMBDA k : Power(o.batch, k) * evals[k + 1])
      c    == SumcheckClaim(msgs, sum, 2, o.sumcheck)
  IN  /\ SumOf(msgs) = sum
      /\ c.ok
      /\ c.claim = FieldSum(n, LAMBDA k :
           Power(o.batch, k) * ((EvalMleEq(AsVec(o.sumcheck), points[k + 1]) * sumEvals[k + 1]) % P))
=============================================================================
