-------------------------------- MODULE Vectors ------------------------------
(***************************************************************************)
(* Vectors of the code (Vec, slice): functions on 0..n-1, so that positions*)
(* are the code's.                                                         *)
(***************************************************************************)
EXTENDS Integers, Sequences, FiniteSets, TLC

\* The vector of f(0), ..., f(n - 1).  TLC evaluates a function constructor at
\* every use, but keeps the values of one that it has compared.
Vec(n, f(_)) == CHOOSE v \in {[i \in 0..(n - 1) |-> f(i)]} : v = v

Size(v)        == Cardinality(DOMAIN v)
Reverse0(v)    == Vec(Size(v), LAMBDA i : v[Size(v) - 1 - i])
Drop(v, k)     == Vec(Size(v) - k, LAMBDA i : v[i + k])
Take(v, k)     == Vec(k, LAMBDA i : v[i])
Slice(v, a, b) == [j \in 0..(b - a - 1) |-> v[a + j]]

\* A sequence as a vector, and vectors of one length one after the other.
AsVec(s)    == Vec(Len(s), LAMBDA j : s[j + 1])
Concat(parts) ==
  LET n == Size(parts[0]) IN
  [i \in 0..(Size(parts) * n - 1) |-> parts[i \div n][i % n]]
=============================================================================
