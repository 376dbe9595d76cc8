------------------------------- MODULE ExtField -----------------------------
(***************************************************************************)
(* The quadratic extension of the field, and the reduction of an           *)
(* evaluation claim at a point of it to a claim at a point of the field    *)
(* (the second half of ext_sumcheck.rs).  An element c0 + c1 * u is a pair;*)
(* u^2 is the non-residue 7 (types.rs).                                    *)
(***************************************************************************)
EXTENDS Polynomials

GAMMA == 7

\* What makes the extension a field: 7 is not a square.
ASSUME NonResidueAssumption == \A x \in Fp : (x * x) % P # GAMMA % P

ExtMul(x, y) ==
  <<(x[1] * y[1] + GAMMA * x[2] * y[2]) % P, (x[1] * y[2] + x[2] * y[1]) % P>>

\* The tensor of the point a + b * u.
TensorExt(a, b) ==
  LET t[i \in 0..Size(a)] ==
        IF i = 0 THEN Vec(1, LAMBDA x : <<1, 0>>)
        ELSE LET w    == t[i - 1]
                 half == 2^(i - 1)
             IN  Vec(2 * half, LAMBDA x :
                   IF x < half THEN ExtMul(w[x], <<1 - a[i - 1], -b[i - 1]>>)
                   ELSE ExtMul(w[x - half], <<a[i - 1], b[i - 1]>>))
  IN  t[Size(a)]

\* As far as f goes: zip stops at the shorter one.
InnerExt(f, tensor) ==
  <<FieldSum(Size(f), LAMBDA i : tensor[i][1] * f[i]), FieldSum(Size(f), LAMBDA i : tensor[i][2] * f[i])>>

EvalMleAtExt(f, a, b) == InnerExt(f, TensorExt(a, b))

-----------------------------------------------------------------------------
(* EqDecomposition: eq(x, a + b * u) = eq_R(x) + eq_I(x) * u.              *)

\* Faulty variant: the sign of the imaginary part of 1 - r is lost.
Factor_Sign(a, b, bit) == IF bit = 1 THEN <<a, b>> ELSE <<1 - a, b>>

Factor(a, b, bit) == IF bit = 1 THEN <<a, b>> ELSE <<1 - a, -b>>

EvalAtBoolean(a, b, x) ==
  LET e[i \in 0..Size(a)] ==
        IF i = 0 THEN <<1, 0>>
        ELSE ExtMul(e[i - 1], Factor(a[i - 1], b[i - 1], Bit(x, i - 1)))
  IN  e[Size(a)]

EqMles(a, b) ==
  LET e == Vec(2^Size(a), LAMBDA x : EvalAtBoolean(a, b, x)) IN
  [real |-> Vec(2^Size(a), LAMBDA x : e[x][1]), imag |-> Vec(2^Size(a), LAMBDA x : e[x][2])]

-----------------------------------------------------------------------------
(* The reduction: with H = (f - v0) * (eq_R + lambda * eq_I)               *)
(*                          - v1 * (GAMMA * eq_I + lambda * eq_R)          *)
(* the sum of H is the real part plus lambda times the imaginary part of   *)
(* f(a + b * u) - (v0 + v1 * u).                                           *)

ReductionMles(f, v, eq, lambda) ==
  <<Vec(Size(f), LAMBDA x : (f[x] - v[1]) % P),
    Vec(Size(f), LAMBDA x : (eq.real[x] + lambda * eq.imag[x]) % P),
    Vec(Size(f), LAMBDA x : (GAMMA * eq.imag[x] + lambda * eq.real[x]) % P)>>

\* reduction_sumcheck_prove: the products of the three tables.
ReductionProducts(v) == <<[coeff |-> 1, mles |-> <<1, 2>>], [coeff |-> -v[2], mles |-> <<3>>]>>

ReductionDenominator(eq, lambda, s) ==
  (EvalMle(eq.real, s) + lambda * EvalMle(eq.imag, s)) % P

\* reduction_sumcheck_verify: f(s) from the claim h for H(s); it gives up when
\* the denominator is zero.
ReducedValue(h, v, eq, lambda, s) ==
  LET r == EvalMle(eq.real, s)
      i == EvalMle(eq.imag, s)
  IN  ((h + v[2] * (GAMMA * i + lambda * r)) * Inv(ReductionDenominator(eq, lambda, s)) + v[1]) % P
=============================================================================
