----------------------------- MODULE Polynomials ----------------------------
(***************************************************************************)
(* The polynomials of the crates arithmetic and ligesis-pcs: multilinear   *)
(* ones as tables of their evaluations on the hypercube, univariate ones as*)
(* evaluations at 0, 1, 2, ... or as coefficients, equality polynomials.   *)
(*                                                                         *)
(* The field is the integers modulo a prime P.  A point is a vector, its   *)
(* variable 0 the lowest bit of a position in the table.                   *)
(***************************************************************************)
EXTENDS Vectors

CONSTANT P   \* the modulus (2^64 - 2^32 + 1 in the code)

ASSUME PrimeAssumption ==
  P \in Nat \ {0, 1} /\ \A d \in 2..(P - 1) : P % d # 0

-----------------------------------------------------------------------------
(* The field (ark_ff).                                                     *)

Fp     == 0..(P - 1)
Inv(a) == CHOOSE b \in Fp : (a * b) % P = 1

\* By halves, for TLC's stack.
FieldSum(n, f(_)) ==
  LET s[lo \in 0..n, hi \in 0..n] ==
        LET mid == (lo + hi) \div 2 IN
        IF lo = hi THEN 0 ELSE IF lo + 1 = hi THEN f(lo) % P ELSE (s[lo, mid] + s[mid, hi]) % P
  IN  s[0, n]
FieldProduct(n, f(_)) ==
  LET p[lo \in 0..n, hi \in 0..n] ==
        LET mid == (lo + hi) \div 2 IN
        IF lo = hi THEN 1 ELSE IF lo + 1 = hi THEN f(lo) % P ELSE (p[lo, mid] * p[mid, hi]) % P
  IN  p[0, n]

Power(a, n) == FieldProduct(n, LAMBDA i : a)

Bit(x, i) == (x \div 2^i) % 2
Log2(n)   == CHOOSE k \in 0..n : 2^k =< n /\ n < 2^(k + 1)

-----------------------------------------------------------------------------
(* Multilinear polynomials.                                                *)

\* eq(r, x) of one variable.
EqBit(r, x)      == r * x + (1 - r) * (1 - x)
EvalMleEq(a, b)  == FieldProduct(Size(a), LAMBDA i : EqBit(a[i], b[i]))
EvalEq(r, index) == FieldProduct(Size(r), LAMBDA i : EqBit(r[i], Bit(index, i)))

\* get_tensor: the second half of every step has the factor r[i].
Tensor(r) ==
  LET t[i \in 0..Size(r)] ==
        IF i = 0 THEN Vec(1, LAMBDA x : 1)
        ELSE LET u    == t[i - 1]
                 half == 2^(i - 1)
             IN  Vec(2 * half, LAMBDA x :
                   IF x < half THEN (u[x] * (1 - r[i - 1])) % P
                   ELSE (u[x - half] * r[i - 1]) % P)
  IN  t[Size(r)]

InnerProduct(a, b) == FieldSum(Size(a), LAMBDA i : a[i] * b[i])
EvalMle(f, r)      == InnerProduct(f, Tensor(r))

\* One table entry moved along the line through its two neighbours.
Along(low, high, t) == (low + t * (high - low)) % P

BindBot(v, r) == Vec(Size(v) \div 2, LAMBDA i : Along(v[2 * i], v[2 * i + 1], r))
BindTop(v, r) ==
  LET n == Size(v) \div 2 IN Vec(n, LAMBDA i : Along(v[i], v[i + n], r))

\* Binding all the variables, from the lowest and from the highest.
FixFromBot(v, r) ==
  LET f[i \in 0..Size(r)] == IF i = 0 THEN v ELSE BindBot(f[i - 1], r[i - 1]) IN f[Size(r)]
FixLastVariables(v, r) ==
  LET f[i \in 0..Size(r)] == IF i = 0 THEN v ELSE BindTop(f[i - 1], r[Size(r) - i])
  IN  f[Size(r)]

\* evals_to_coeffs and its inverse go through the variables in opposite order.
EvalsToCoeffs(mu, v) ==
  LET u[j \in 0..mu] ==
        IF j = 0 THEN v
        ELSE LET w == u[j - 1] IN
             Vec(2^mu, LAMBDA i :
               IF Bit(i, j - 1) = 1 THEN (w[i] - w[i - 2^(j - 1)]) % P ELSE w[i])
  IN  u[mu]
CoeffsToEvals(mu, v) ==
  LET u[j \in 0..mu] ==
        IF j = 0 THEN v
        ELSE LET w == u[j - 1] IN
             Vec(2^mu, LAMBDA i :
               IF Bit(i, mu - j) = 1 THEN (w[i] + w[i - 2^(mu - j)]) % P ELSE w[i])
  IN  u[mu]

-----------------------------------------------------------------------------
(* Tables of the equality polynomial.                                      *)

\* EqPolynomial::evals doubles the table: variable 0 becomes the highest bit.
EqEvals(r, coeff) ==
  LET t[j \in 0..Size(r)] ==
        IF j = 0 THEN Vec(1, LAMBDA x : coeff)
        ELSE LET u == t[j - 1] IN
             Vec(2^j, LAMBDA x :
               IF x % 2 = 1 THEN (u[x \div 2] * r[j - 1]) % P
               ELSE (u[x \div 2] - u[x \div 2] * r[j - 1]) % P)
  IN  t[Size(r)]

BuildEqXR(r) == EqEvals(Reverse0(r), 1)

\* Faulty variant: the row of a round still has the round's own variable.
EqRow_Own(r, coeff, round) == EqEvals(Reverse0(Drop(r, round)), coeff)

\* build_eq_table: row k is for the variables after the k-th.
EqRow(r, coeff, round) == EqEvals(Reverse0(Drop(r, round + 1)), coeff)

\* alpha times the matrix of powers of g, by halves: the row of each step.
AlphaMatG(logM, g, alpha) ==
  LET m[i \in 0..logM] ==
        IF i = 0 THEN Vec(1, LAMBDA x : 1)
        ELSE LET u  == m[i - 1]
                 gi == Power(g, 2^(logM - i))
                 a  == alpha[logM - i]
             IN  Vec(2^i, LAMBDA j : (u[j % 2^(i - 1)] * (1 - a + a * Power(gi, j))) % P)
  IN  m

-----------------------------------------------------------------------------
(* Univariate polynomials.                                                 *)

Evaluate(coeffs, x) == FieldSum(Size(coeffs), LAMBDA i : coeffs[i] * Power(x, i))

\* ext_sumcheck.rs, interpolate_and_eval: the values at 0, 1, 2, ... taken to
\* any point, by Lagrange.
Lagrange(evals, at) ==
  LET n == Size(evals) IN
  FieldSum(n, LAMBDA i : evals[i]
        * FieldProduct(n, LAMBDA j : IF j = i THEN 1 ELSE (at - j) * Inv((i - j) % P)))

\* interpolate_uni_poly, with the denominators as fractions of the last one.
\* It divides by at - i: at one of the points 0, 1, 2, ... themselves the code
\* panics, and here is no inverse.
Interpolate(evals, at) ==
  LET n       == Size(evals)
      all     == FieldProduct(n, LAMBDA j : at - j)
      last    == FieldProduct(n - 1, LAMBDA j : j + 1)
      up(k)   == FieldProduct(k, LAMBDA h : -(h + 1))
      down(k) == FieldProduct(k, LAMBDA h : n - 1 - h)
  IN  FieldSum(n, LAMBDA k :
        LET i == n - 1 - k IN
        evals[i] * ((all * down(k)) % P) * Inv((last * up(k) * (at - i)) % P))

\* extrapolate with barycentric_weights, at a point that is not one of them.
Weight(n, j) == Inv(FieldProduct(n, LAMBDA i : IF i = j THEN 1 ELSE j - i))
Extrapolate(evals, at) ==
  LET n    == Size(evals)
      c(j) == Inv((at - j) % P) * Weight(n, j)
  IN  (FieldSum(n, LAMBDA j : c(j) * evals[j]) * Inv(FieldSum(n, c))) % P

\* gaussian_elimination of an n by n + 1 matrix without pivoting: column i is
\* cleared in the given rows.
Eliminate(m, i, rows) ==
  Vec(Size(m), LAMBDA j :
    IF j \notin rows THEN m[j]
    ELSE LET factor == (m[j][i] * Inv(m[i][i])) % P IN
         Vec(Size(m) + 1, LAMBDA k : (m[j][k] - factor * m[i][k]) % P))

Solve(matrix) ==
  LET n == Size(matrix)
      down[i \in 0..n] ==
        IF i = 0 THEN matrix
        ELSE LET m == down[i - 1] IN Eliminate(m, i - 1, i..(n - 1))
      up[i \in 0..n] ==
        IF i = 0 THEN down[n]
        ELSE LET m == up[i - 1] IN Eliminate(m, n - i, 0..(n - i - 1))
      solved == up[n]
  IN  Vec(n, LAMBDA i : (solved[i][n] * Inv(solved[i][i])) % P)

FromEvals(evals) ==
  LET n == Size(evals) IN
  Solve(Vec(n, LAMBDA i : Vec(n + 1, LAMBDA j : IF j = n THEN evals[i] ELSE Power(i, j))))

\* Everything but the linear term, and back with p(0) + p(1).
Compress(coeffs) ==
  Vec(Size(coeffs) - 1, LAMBDA i : IF i = 0 THEN coeffs[0] ELSE coeffs[i + 1])

\* Faulty variant: the constant term is taken off once.
Decompress_Once(c, hint) ==
  [i \in 0..Size(c) |->
     IF i = 0 THEN c[0]
     ELSE IF i = 1 THEN (hint - FieldSum(Size(c), LAMBDA j : c[j])) % P
     ELSE c[i - 1]]

Decompress(c, hint) ==
  [i \in 0..Size(c) |->
     IF i = 0 THEN c[0]
     ELSE IF i = 1 THEN (hint - c[0] - FieldSum(Size(c), LAMBDA j : c[j])) % P
     ELSE c[i - 1]]

\* divide_with_remainder, for divisors whose leading coefficient is not 0:
\* the remainder loses its leading terms one at a time.
Trim(v) ==
  LET n == CHOOSE k \in 0..Size(v) :
             (k = 0 \/ v[k - 1] # 0) /\ \A j \in k..(Size(v) - 1) : v[j] = 0
  IN  Take(v, n)

DivideWithRemainder(dividend, divisor) ==
  LET d == Size(divisor) - 1
      StepDown(s) ==
        LET top == Size(s.rem) - 1
            c   == s.rem[top] * Inv(divisor[d])
        IN  [quot |-> [s.quot EXCEPT ![top - d] = c % P],
             rem  |-> Trim(Vec(top + 1, LAMBDA i :
                        IF i >= top - d THEN (s.rem[i] - c * divisor[i - (top - d)]) % P
                        ELSE s.rem[i]))]
      done(s) == Size(s.rem) = 0 \/ Size(s.rem) - 1 < d
      run[k \in 0..Size(dividend)] ==
        IF k = 0
        THEN [quot |-> Vec(Size(dividend) - d, LAMBDA i : 0), rem |-> dividend]
        ELSE LET s == run[k - 1] IN IF done(s) THEN s ELSE StepDown(s)
  IN  run[Size(dividend)]
=============================================================================
