----------------------------- MODULE DataLemmas -----------------------------
(***************************************************************************)
(* What the proofs about data rest on: induction and recursion over the    *)
(* natural numbers, and the cutting, joining and flattening of sequences.  *)
(*                                                                         *)
(* The theorems of NaturalsInduction are about an arbitrary predicate or   *)
(* operator, which the provers cannot instantiate.  Here the predicate is  *)
(* a set and the operator a function.  The argument for induction is that  *)
(* of the pigeons: the numbers up to k in a set that is closed under +1    *)
(* and lacks k would be mapped by +1 into, and not onto, themselves.       *)
(***************************************************************************)
EXTENDS Integers, SequencesExt, SequenceTheorems, FiniteSetTheorems, TLAPS

\* A set that holds 0 and is closed under successor holds every number.
LEMMA SetInduction ==
  ASSUME NEW S, 0 \in S, \A n \in Nat : n \in S => n + 1 \in S
  PROVE  Nat \subseteq S
<1> SUFFICES ASSUME NEW k \in Nat, k \notin S PROVE FALSE
  OBVIOUS
<1> DEFINE A == {i \in 0..k : i \in S}
           f == [i \in A |-> i + 1]
<1>1. IsFiniteSet(A)
  <2>1. IsFiniteSet(0..k) /\ A \in SUBSET (0..k)
    BY FS_Interval
  <2> HIDE DEF A
  <2> QED BY <2>1, FS_Subset
<1>2. \A i \in A : i \in Nat /\ i + 1 \in A
  OBVIOUS
<1>3. 0 \in A
  OBVIOUS
<1> HIDE DEF A
<1>4. f \in Injection(A, A)
  BY <1>2 DEF Injection, IsInjective
<1>5. f \in Surjection(A, A)
  <2> HIDE DEF f
  <2> QED BY <1>1, <1>4, FS_Injection
<1>6. PICK i \in A : f[i] = 0
  BY <1>3, <1>5 DEF Surjection
<1> QED
  BY <1>2, <1>6

\* f starts at a and goes on as step says.
Iterates(f, a, step) == f[0] = a /\ \A n \in Nat : f[n + 1] = step[<<n, f[n]>>]

\* There is such a function: the common part of its finite beginnings.
LEMMA Recursion ==
  ASSUME NEW S, NEW a \in S, NEW step \in [Nat \X S -> S]
  PROVE  \E f \in [Nat -> S] : Iterates(f, a, step)
<1> DEFINE Upto(n) == {g \in [0..n -> S] : g[0] = a /\ \A i \in 0..(n - 1) : g[i + 1] = step[<<i, g[i]>>]}
<1>1. ASSUME NEW n \in Nat, NEW m \in n..(n + 1), NEW g \in Upto(n), NEW h \in Upto(m)
      PROVE  g[n] = h[n]
  <2> DEFINE T == {i \in Nat : i =< n => g[i] = h[i]}
  <2>1. 0 \in T
    OBVIOUS
  <2>2. ASSUME NEW i \in Nat, i \in T PROVE i + 1 \in T
    <3>1. CASE i + 1 =< n
      <4>1. i \in 0..(n - 1) /\ i \in 0..(m - 1)
        BY <3>1
      <4>2. g[i] = h[i]
        BY <2>2, <3>1
      <4>3. g[i + 1] = step[<<i, g[i]>>] /\ h[i + 1] = step[<<i, h[i]>>]
        BY <4>1
      <4> QED BY <4>2, <4>3
    <3>2. CASE ~(i + 1 =< n)
      BY <3>2
    <3> QED BY <3>1, <3>2
  <2> HIDE DEF T
  <2>3. n \in T
    BY <2>1, <2>2, SetInduction
  <2> QED BY <2>3 DEF T
<1>2. \A n \in Nat : Upto(n) # {}
  <2> DEFINE T == {n \in Nat : Upto(n) # {}}
  <2>1. 0 \in T
    <3>1. [i \in 0..0 |-> a] \in Upto(0)
      OBVIOUS
    <3> QED BY <3>1
  <2>2. ASSUME NEW n \in Nat, n \in T PROVE n + 1 \in T
    <3>1. PICK g : g \in Upto(n)
      BY <2>2
    <3> DEFINE h == [i \in 0..(n + 1) |-> IF i = n + 1 THEN step[<<n, g[n]>>] ELSE g[i]]
    <3>2. g[n] \in S
      BY <3>1
    <3>3. h \in [0..(n + 1) -> S]
      BY <3>1, <3>2
    <3>4. h[0] = a /\ h[n + 1] = step[<<n, g[n]>>] /\ \A i \in 0..n : h[i] = g[i]
      BY <3>1
    <3>5. ASSUME NEW i \in 0..n PROVE h[i + 1] = step[<<i, h[i]>>]
      <4>1. CASE i = n
        BY <3>4, <4>1
      <4>2. CASE i # n
        <5>1. i \in 0..(n - 1) /\ i + 1 \in 0..n
          BY <4>2
        <5> QED BY <3>1, <3>4, <5>1
      <4> QED BY <4>1, <4>2
    <3> HIDE DEF h
    <3>6. h \in Upto(n + 1)
      <4>1. 0..(n + 1 - 1) = 0..n
        OBVIOUS
      <4>2. \A i \in 0..(n + 1 - 1) : h[i + 1] = step[<<i, h[i]>>]
        BY ONLY <3>5, <4>1
      <4> QED BY <3>3, <3>4, <4>2
    <3> QED BY <3>6
  <2> HIDE DEF T
  <2>3. Nat \subseteq T
    BY <2>1, <2>2, SetInduction
  <2> QED BY <2>3 DEF T
<1> DEFINE G(n) == CHOOSE g : g \in Upto(n)
           f == [n \in Nat |-> G(n)[n]]
<1>3. \A n \in Nat : G(n) \in Upto(n)
  BY <1>2
<1> HIDE DEF G
<1>4. f \in [Nat -> S]
  BY <1>3
<1>5. f[0] = a
  BY <1>3
<1>6. ASSUME NEW n \in Nat PROVE f[n + 1] = step[<<n, f[n]>>]
  <2>1. G(n + 1)[n + 1] = step[<<n, G(n + 1)[n]>>]
    BY <1>3
  <2>2. G(n)[n] = G(n + 1)[n]
    <3>1. G(n) \in Upto(n) /\ G(n + 1) \in Upto(n + 1) /\ n + 1 \in n..(n + 1)
      BY <1>3
    <3> HIDE DEF Upto
    <3> QED BY <1>1, <3>1
  <2> QED BY <2>1, <2>2
<1> QED
  BY <1>4, <1>5, <1>6 DEF Iterates

\* A set of numbers with a bound that is not empty has a greatest.
LEMMA GreatestIs ==
  ASSUME NEW n \in Nat, NEW A, A \subseteq 0..n, A # {}
  PROVE  \E x \in A : \A y \in A : x >= y
<1> DEFINE T == {k \in Nat : \A B \in SUBSET (0..k) : B # {} => \E x \in B : \A y \in B : x >= y}
<1>1. 0 \in T
  <2> SUFFICES ASSUME NEW B \in SUBSET (0..0), B # {} PROVE \E x \in B : \A y \in B : x >= y
    OBVIOUS
  <2>1. PICK z : z \in B
    OBVIOUS
  <2>2. \A y \in B : y = 0
    OBVIOUS
  <2>3. \A y \in B : z >= y
    BY <2>1, <2>2
  <2> QED BY <2>1, <2>3
<1>2. ASSUME NEW k \in Nat, k \in T PROVE k + 1 \in T
  <2> SUFFICES ASSUME NEW B \in SUBSET (0..(k + 1)), B # {} PROVE \E x \in B : \A y \in B : x >= y
    OBVIOUS
  <2>1. CASE k + 1 \in B
    <3>1. \A y \in B : k + 1 >= y
      OBVIOUS
    <3> QED BY <2>1, <3>1
  <2>2. CASE k + 1 \notin B
    <3>1. B \in SUBSET (0..k)
      BY <2>2
    <3> QED BY <1>2, <3>1
  <2> QED BY <2>1, <2>2
<1> HIDE DEF T
<1>3. n \in T
  BY <1>1, <1>2, SetInduction
<1>4. A \in SUBSET (0..n)
  OBVIOUS
<1> QED BY <1>3, <1>4 DEF T

\* A set of numbers that is not empty has a least.
LEMMA LeastIs ==
  ASSUME NEW n \in Nat, NEW A, A \subseteq 0..n, A # {}
  PROVE  \E x \in A : \A y \in A : x =< y
<1> DEFINE B == {n - x : x \in A}
<1>1. B \subseteq 0..n /\ B # {}
  <2>1. \A x \in A : n - x \in 0..n
    OBVIOUS
  <2>2. PICK x : x \in A
    OBVIOUS
  <2>3. n - x \in B
    BY <2>2
  <2> QED BY <2>1, <2>3
<1>2. PICK z \in B : \A y \in B : z >= y
  <2> HIDE DEF B
  <2> QED BY <1>1, GreatestIs
<1>3. PICK x \in A : z = n - x
  OBVIOUS
<1>4. ASSUME NEW y \in A PROVE x =< y
  <2>1. n - y \in B /\ x \in 0..n /\ y \in 0..n
    OBVIOUS
  <2>2. n - x >= n - y
    BY <1>2, <1>3, <2>1
  <2> QED BY <2>1, <2>2
<1> QED BY <1>4

-----------------------------------------------------------------------------
(* Cutting and joining.                                                    *)

\* A sequence is what comes before a place in it and what comes after.
LEMMA CutInTwo ==
  ASSUME NEW B, NEW s \in Seq(B), NEW n \in 0..Len(s)
  PROVE  /\ SubSeq(s, 1, n) \in Seq(B) /\ SubSeq(s, n + 1, Len(s)) \in Seq(B)
         /\ Len(SubSeq(s, 1, n)) = n
         /\ s = SubSeq(s, 1, n) \o SubSeq(s, n + 1, Len(s))
<1>1. Len(s) \in Nat /\ \A i \in 1..Len(s) : s[i] \in B
  BY LenProperties, ElementOfSeq
<1>2. SubSeq(s, 1, n) \in Seq(B) /\ Len(SubSeq(s, 1, n)) = n
  <2>1. \A i \in 1..n : s[i] \in B
    BY <1>1
  <2> QED BY <1>1, <2>1, SubSeqProperties
<1>3. SubSeq(s, n + 1, Len(s)) \in Seq(B)
  <2>1. \A i \in (n + 1)..Len(s) : s[i] \in B
    BY <1>1
  <2> QED BY <1>1, <2>1, SubSeqProperties
<1>4. SubSeq(s, 1, n) \o SubSeq(s, n + 1, Len(s)) = SubSeq(s, 1, Len(s))
  <2>1. 1 \in 1..Len(s) + 1 /\ n \in (1 - 1)..Len(s) /\ Len(s) \in n..Len(s)
    BY <1>1
  <2> QED BY <2>1, ConcatAdjacentSubSeq
<1> QED
  BY <1>2, <1>3, <1>4, SubSeqFull

\* The middle of three sequences, by its place in the whole.
LEMMA PartOfSeq ==
  ASSUME NEW B, NEW a \in Seq(B), NEW b \in Seq(B), NEW c \in Seq(B)
  PROVE  SubSeq(a \o b \o c, Len(a) + 1, Len(a) + Len(b)) = b
<1> DEFINE s == a \o b \o c
           r == SubSeq(s, Len(a) + 1, Len(a) + Len(b))
<1>1. Len(a) \in Nat /\ Len(b) \in Nat /\ Len(c) \in Nat
  BY LenProperties
<1>2. \A i \in 1..Len(b) : s[Len(a) + i] = b[i] /\ b[i] \in B
  <2> SUFFICES ASSUME NEW i \in 1..Len(b) PROVE s[Len(a) + i] = b[i] /\ b[i] \in B
    OBVIOUS
  <2>1. a \o b \in Seq(B) /\ Len(a \o b) = Len(a) + Len(b)
    BY ConcatProperties
  <2>2. Len(a) + i \in 1..(Len(a) + Len(b)) /\ Len(a) + i \in 1..(Len(a) + Len(b) + Len(c))
    BY <1>1
  <2>3. (a \o b)[Len(a) + i] = b[i]
    <3>1. \A j \in 1..(Len(a) + Len(b)) : (a \o b)[j] = IF j =< Len(a) THEN a[j] ELSE b[j - Len(a)]
      BY ConcatProperties
    <3>2. ~(Len(a) + i =< Len(a)) /\ Len(a) + i - Len(a) = i
      BY <1>1
    <3> QED BY <2>2, <3>1, <3>2
  <2>4. s[Len(a) + i] = (a \o b)[Len(a) + i]
    <3>1. \A j \in 1..(Len(a \o b) + Len(c)) :
             s[j] = IF j =< Len(a \o b) THEN (a \o b)[j] ELSE c[j - Len(a \o b)]
      BY <2>1, ConcatProperties
    <3> HIDE DEF s
    <3> QED BY <1>1, <2>1, <2>2, <3>1
  <2>5. b[i] \in B
    BY ElementOfSeq
  <2> QED BY <2>3, <2>4, <2>5
<1> HIDE DEF s
<1>3. \A i \in (Len(a) + 1)..(Len(a) + Len(b)) : s[i] \in B
  <2> SUFFICES ASSUME NEW i \in (Len(a) + 1)..(Len(a) + Len(b)) PROVE s[i] \in B
    OBVIOUS
  <2>1. i - Len(a) \in 1..Len(b) /\ Len(a) + (i - Len(a)) = i
    BY <1>1
  <2> QED BY <1>2, <2>1
<1>4. /\ r \in Seq(B) /\ Len(r) = Len(b)
      /\ \A i \in 1..Len(b) : r[i] = s[Len(a) + i]
  <2> DEFINE f == Len(a) + 1
             l == Len(a) + Len(b)
  <2>1. f \in Int /\ l \in Int /\ l - f + 1 = Len(b) /\ (f =< l \/ Len(b) = 0)
        /\ \A i \in 1..Len(b) : f + i - 1 = Len(a) + i
    BY <1>1
  <2>2. \A i \in f..l : s[i] \in B
    BY <1>3
  <2> HIDE DEF f, l
  <2>3. /\ SubSeq(s, f, l) \in Seq(B)
        /\ Len(SubSeq(s, f, l)) = IF f =< l THEN l - f + 1 ELSE 0
        /\ \A i \in 1..(l - f + 1) : SubSeq(s, f, l)[i] = s[f + i - 1]
    BY <2>1, <2>2, SubSeqProperties
  <2>4. /\ SubSeq(s, f, l) \in Seq(B) /\ Len(SubSeq(s, f, l)) = Len(b)
        /\ \A i \in 1..Len(b) : SubSeq(s, f, l)[i] = s[Len(a) + i]
    BY <2>1, <2>3
  <2> QED BY <2>4 DEF f, l
<1> HIDE DEF r
<1>5. r = b
  BY <1>2, <1>4, SeqEqual
<1> QED BY <1>5 DEF r, s

\* Two ways to cut one sequence in two; the first cut comes after the second.
SameWhole(a, b, c, d) == a \o b = c \o d
Longer(B, a, b, c, d) == \E e \in Seq(B) : a = c \o e /\ d = e \o b

\* What the first cut has more than the second is missing after it.
LEMMA Recut ==
  ASSUME NEW B, NEW a \in Seq(B), NEW b \in Seq(B), NEW c \in Seq(B), NEW d \in Seq(B),
         SameWhole(a, b, c, d), Len(c) =< Len(a)
  PROVE  Longer(B, a, b, c, d)
<1>1. a \o b = c \o d
  BY DEF SameWhole
<1>2. Len(a) \in Nat /\ Len(c) \in Nat
  BY LenProperties
<1> DEFINE n == Len(c)
           e == SubSeq(a, n + 1, Len(a))
           p == SubSeq(a, 1, n)
<1>3. p \in Seq(B) /\ e \in Seq(B) /\ Len(p) = n /\ a = p \o e
  <2>1. n \in 0..Len(a)
    BY <1>2
  <2> QED BY <2>1, CutInTwo
<1> HIDE DEF e, p
<1>4. p \o (e \o b) = c \o d /\ e \o b \in Seq(B)
  <2>0. p \in Seq(B) /\ e \in Seq(B) /\ b \in Seq(B)
    BY <1>3
  <2>1. (p \o e) \o b = p \o (e \o b)
    BY ONLY <2>0, ConcatAssociative, SMTT(40)
  <2>2. e \o b \in Seq(B)
    BY <1>3, ConcatProperties
  <2> QED BY <1>1, <1>3, <2>1, <2>2
<1>5. p = c
  <2> DEFINE x == e \o b
  <2>1. x \in Seq(B) /\ p \o x = c \o d
    BY <1>4
  <2> HIDE DEF x
  <2>2. \A i \in 1..n : p[i] = c[i]
    <3> SUFFICES ASSUME NEW i \in 1..n PROVE p[i] = c[i]
      OBVIOUS
    <3>1. /\ \A j \in 1..(Len(p) + Len(x)) : (p \o x)[j] = IF j =< Len(p) THEN p[j] ELSE x[j - Len(p)]
          /\ \A j \in 1..(Len(c) + Len(d)) : (c \o d)[j] = IF j =< Len(c) THEN c[j] ELSE d[j - Len(c)]
          /\ Len(x) \in Nat /\ Len(d) \in Nat
      BY <1>3, <2>1, ConcatProperties, LenProperties, SMTT(40)
    <3>2. i \in 1..(n + Len(x)) /\ i \in 1..(n + Len(d)) /\ i =< n
      BY <1>2, <3>1
    <3> QED BY <1>3, <2>1, <3>1, <3>2
  <2> QED BY <1>3, <2>2, SeqEqual
<1>6. d = e \o b
  <2> DEFINE x == e \o b
  <2>1. x \in Seq(B) /\ c \o x = c \o d
    BY <1>4, <1>5
  <2> HIDE DEF x
  <2>2. x = d
    BY <2>1, ConcatSimplifications
  <2> QED BY <2>2 DEF x
<1> QED BY <1>3, <1>5, <1>6 DEF Longer

-----------------------------------------------------------------------------
(* FlattenSeq, of the community modules.                                   *)

Parts(B) == Seq(Seq(B))

\* FlattenSeq joins one part after the other.
LEMMA FlattenIs ==
  ASSUME NEW B, NEW s \in Parts(B), NEW S, S = Seq(B)
  PROVE  \E f \in [Nat -> S] :
           /\ f[0] = <<>> /\ FlattenSeq(s) = f[Len(s)]
           /\ \A i \in 1..Len(s) : f[i] = f[i - 1] \o s[i]
<1> DEFINE n == Len(s)
           Cat(r, i) == r \o s[i]
           e == <<>>
           step == [p \in Nat \X S |-> IF p[1] < n THEN Cat(p[2], p[1] + 1) ELSE p[2]]
           Is(t) == t = [i \in 1..n |-> IF i = 1 THEN s[i] ELSE Cat(t[i - 1], i)]
           t == CHOOSE t : Is(t)
<1>1. n \in Nat
  BY LenProperties DEF Parts
<1>2. FlattenSeq(s) = IF n = 0 THEN s ELSE t[n]
  BY DEF FlattenSeq
<1>3. e \in S /\ \A r \in S, i \in 1..n : Cat(r, i) \in S
  BY EmptySeq, ConcatProperties, LenProperties, ElementOfSeq DEF Parts
<1>4. n = 0 => s = e
  BY <1>1, EmptySeq DEF Parts
<1>5. 1 \in 1..n => Cat(e, 1) = s[1]
  BY ConcatEmptySeq, LenProperties, ElementOfSeq DEF Parts
<1> HIDE DEF n, Cat, e
<1>6. PICK f \in [Nat -> S] : f[0] = e /\ \A i \in 1..n : f[i] = Cat(f[i - 1], i)
  <2>1. /\ step \in [Nat \X S -> S]
        /\ \A i \in Nat, r \in S : i < n => step[<<i, r>>] = Cat(r, i + 1)
    <3>1. \A i \in Nat, r \in S : i < n => Cat(r, i + 1) \in S
      BY <1>1, <1>3
    <3> QED BY <3>1
  <2> HIDE DEF step
  <2>2. PICK f \in [Nat -> S] : Iterates(f, e, step)
    BY <1>3, <2>1, Recursion
  <2>3. ASSUME NEW i \in 1..n PROVE f[i] = Cat(f[i - 1], i)
    <3>1. i - 1 \in Nat /\ (i - 1) + 1 = i /\ i - 1 < n
      BY <1>1
    <3>2. f[(i - 1) + 1] = Cat(f[i - 1], (i - 1) + 1)
      BY <2>1, <2>2, <3>1 DEF Iterates
    <3> QED BY <3>1, <3>2
  <2> QED BY <2>2, <2>3 DEF Iterates
<1>7. CASE n = 0
  <2>1. FlattenSeq(s) = f[n]
    BY <1>2, <1>4, <1>6, <1>7
  <2> QED BY <1>6, <2>1 DEF n, Cat, e
<1>8. CASE n > 0
  <2> DEFINE g == [i \in 1..n |-> f[i]]
  <2>1. f[1] = s[1]
    <3>1. 1 \in 1..n /\ 1 - 1 = 0
      BY <1>1, <1>8
    <3>2. f[1] = Cat(f[1 - 1], 1)
      BY <1>6, <3>1
    <3> QED BY <1>5, <1>6, <3>1, <3>2
  <2>2. Is(g)
    <3>1. \A i \in 1..n : f[i] = IF i = 1 THEN s[i] ELSE Cat(g[i - 1], i)
      <4> SUFFICES ASSUME NEW i \in 1..n, i # 1 PROVE f[i] = Cat(g[i - 1], i)
        BY <2>1
      <4>1. i - 1 \in 1..n
        BY <1>1
      <4> QED BY <1>6, <4>1
    <3>2. g = [i \in 1..n |-> IF i = 1 THEN s[i] ELSE Cat(g[i - 1], i)]
      BY <3>1
    <3> QED BY <3>2
  <2> HIDE DEF g
  <2>3. Is(t)
    BY <2>2
  <2> HIDE DEF t
  <2>4. /\ t[1] = s[1]
        /\ \A i \in 2..n : t[i] = Cat(t[i - 1], i)
    <3> DEFINE u == [i \in 1..n |-> IF i = 1 THEN s[i] ELSE Cat(t[i - 1], i)]
    <3>1. t = u
      BY <2>3
    <3>2. u[1] = s[1] /\ \A i \in 2..n : u[i] = Cat(t[i - 1], i)
      BY <1>1, <1>8
    <3> HIDE DEF u
    <3> QED BY <3>1, <3>2
  <2> DEFINE T == {i \in Nat : i < n => t[i + 1] = f[i + 1]}
  <2>5. 0 \in T
    BY <2>1, <2>4
  <2>6. ASSUME NEW i \in Nat, i \in T PROVE i + 1 \in T
    <3>1. CASE i + 1 < n
      <4>1. i + 2 \in 2..n /\ i + 2 \in 1..n /\ (i + 2) - 1 = i + 1 /\ (i + 1) + 1 = i + 2
        BY <1>1, <3>1
      <4>2. t[i + 2] = Cat(t[i + 1], i + 2) /\ f[i + 2] = Cat(f[i + 1], i + 2)
        BY <1>6, <2>4, <4>1
      <4> QED BY <1>1, <2>6, <3>1, <4>1, <4>2
    <3> QED BY <1>1, <3>1
  <2> HIDE DEF T
  <2>7. n - 1 \in T
    <3>1. Nat \subseteq T
      BY <2>5, <2>6, SetInduction
    <3> QED BY <1>1, <1>8, <3>1
  <2>8. t[n] = f[n]
    BY <1>1, <2>7 DEF T
  <2>9. FlattenSeq(s) = f[n]
    BY <1>2, <1>8, <2>8
  <2>10. \A i \in 1..Len(s) : f[i] = f[i - 1] \o s[i]
    BY <1>6 DEF n, Cat
  <2>11. f[0] = <<>> /\ FlattenSeq(s) = f[Len(s)]
    BY <1>6, <2>9 DEF n, e
  <2> WITNESS f \in [Nat -> S]
  <2> QED BY <2>10, <2>11
<1>9. n = 0 \/ n > 0
  BY <1>1
<1> QED
  BY <1>7, <1>8, <1>9, Zenon

\* The parts of two sequences of parts, joined.
LEMMA FlattenConcat ==
  ASSUME NEW B, NEW s \in Parts(B), NEW t \in Parts(B), NEW S, S = Seq(B)
  PROVE  /\ FlattenSeq(s) \in S /\ FlattenSeq(t) \in S
         /\ FlattenSeq(s \o t) = FlattenSeq(s) \o FlattenSeq(t)
<1> DEFINE m == Len(s)
           n == Len(t)
           u == s \o t
           e == <<>>
           Cat(a, b) == a \o b
<1>1. /\ m \in Nat /\ n \in Nat /\ u \in Parts(B) /\ Len(u) = m + n
      /\ \A i \in 1..n : t[i] \in S
  BY LenProperties, ConcatProperties, ElementOfSeq DEF Parts
<1>2. /\ \A i \in 1..m : u[i] = s[i]
      /\ \A i \in 1..n : u[m + i] = t[i]
  <2>1. \A i \in 1..(m + n) : u[i] = IF i =< m THEN s[i] ELSE t[i - m]
    BY ConcatProperties DEF Parts
  <2> HIDE DEF m, n, u
  <2>2. ASSUME NEW i \in 1..m PROVE u[i] = s[i]
    <3>1. i \in 1..(m + n) /\ i =< m
      BY <1>1
    <3> QED BY <2>1, <3>1
  <2>3. ASSUME NEW i \in 1..n PROVE u[m + i] = t[i]
    <3>1. m + i \in 1..(m + n) /\ ~(m + i =< m) /\ m + i - m = i
      BY <1>1
    <3> DEFINE j == m + i
    <3>2. u[j] = IF j =< m THEN s[j] ELSE t[j - m]
      BY <2>1, <3>1
    <3>3. j - m = i /\ ~(j =< m)
      BY <1>1, <3>1
    <3> HIDE DEF j
    <3>4. u[j] = t[i]
      BY <3>2, <3>3
    <3> QED BY <3>4 DEF j
  <2> QED BY <2>2, <2>3
<1> HIDE DEF m, n, u, e, Cat
<1>3. ASSUME NEW a \in S, NEW b \in S, NEW c \in S
      PROVE  Cat(Cat(a, b), c) = Cat(a, Cat(b, c)) /\ Cat(a, e) = a
  <2>1. a \in Seq(B) /\ b \in Seq(B) /\ c \in Seq(B)
    OBVIOUS
  <2>2. (a \o b) \o c = a \o (b \o c)
    BY <2>1, ConcatAssociative
  <2>3. a \o <<>> = a
    BY <2>1, ConcatEmptySeq
  <2> QED BY <2>2, <2>3 DEF Cat, e
<1>4. PICK f \in [Nat -> S] :
        /\ f[0] = e /\ FlattenSeq(s) = f[m] /\ \A i \in 1..m : f[i] = Cat(f[i - 1], s[i])
  BY FlattenIs DEF m, e, Cat
<1>5. PICK g \in [Nat -> S] :
        /\ g[0] = e /\ FlattenSeq(t) = g[n] /\ \A i \in 1..n : g[i] = Cat(g[i - 1], t[i])
  BY FlattenIs DEF n, e, Cat
<1>6. PICK h \in [Nat -> S] :
        /\ h[0] = e /\ FlattenSeq(u) = h[m + n]
        /\ \A i \in 1..(m + n) : h[i] = Cat(h[i - 1], u[i])
  <2>1. PICK h \in [Nat -> S] :
          /\ h[0] = e /\ FlattenSeq(u) = h[Len(u)]
          /\ \A i \in 1..Len(u) : h[i] = Cat(h[i - 1], u[i])
    BY <1>1, FlattenIs DEF e, Cat
  <2> QED BY <1>1, <2>1
<1>7. h[m] = f[m]
  <2> DEFINE T == {i \in Nat : i =< m => h[i] = f[i]}
  <2>1. 0 \in T
    BY <1>4, <1>6
  <2>2. ASSUME NEW i \in Nat, i \in T PROVE i + 1 \in T
    <3>1. CASE i + 1 =< m
      <4>1. /\ i + 1 \in 1..m /\ i + 1 \in 1..(m + n) /\ (i + 1) - 1 = i /\ u[i + 1] = s[i + 1]
        BY <1>2, <1>1, <3>1
      <4>2. h[i + 1] = Cat(h[i], s[i + 1]) /\ f[i + 1] = Cat(f[i], s[i + 1])
        BY <1>4, <1>6, <4>1
      <4> QED BY <1>1, <2>2, <3>1, <4>2
    <3> QED BY <1>1, <3>1
  <2> HIDE DEF T
  <2>3. m \in T
    BY <1>1, <2>1, <2>2, SetInduction
  <2> QED BY <1>1, <2>3 DEF T
<1>8. h[m + n] = Cat(f[m], g[n])
  <2> DEFINE T == {i \in Nat : i =< n => h[m + i] = Cat(f[m], g[i])}
  <2>1. 0 \in T
    <3>1. Cat(f[m], e) = f[m] /\ m + 0 = m
      BY <1>1, <1>3
    <3> QED BY <1>5, <1>7, <3>1
  <2>2. ASSUME NEW i \in Nat, i \in T PROVE i + 1 \in T
    <3>1. CASE i + 1 =< n
      <4>1. /\ i + 1 \in 1..n /\ m + (i + 1) \in 1..(m + n) /\ (m + (i + 1)) - 1 = m + i /\ (i + 1) - 1 = i
            /\ u[m + (i + 1)] = t[i + 1]
        BY <1>2, <1>1, <3>1
      <4>2. h[m + (i + 1)] = Cat(h[m + i], t[i + 1]) /\ g[i + 1] = Cat(g[i], t[i + 1])
        BY <1>5, <1>6, <4>1
      <4>3. h[m + i] = Cat(f[m], g[i])
        BY <1>1, <2>2, <3>1
      <4>4. Cat(Cat(f[m], g[i]), t[i + 1]) = Cat(f[m], Cat(g[i], t[i + 1]))
        <5> DEFINE a == f[m]
                   b == g[i]
                   c == t[i + 1]
        <5>1. a \in S /\ b \in S /\ c \in S
          BY <1>1, <4>1
        <5> HIDE DEF a, b, c
        <5>2. Cat(Cat(a, b), c) = Cat(a, Cat(b, c))
          BY <1>3, <5>1
        <5> QED BY <5>2 DEF a, b, c
      <4> QED BY <4>2, <4>3, <4>4
    <3> QED BY <1>1, <3>1
  <2> HIDE DEF T
  <2>3. n \in T
    BY <1>1, <2>1, <2>2, SetInduction
  <2> QED BY <1>1, <2>3 DEF T
<1>9. f[m] \in S /\ g[n] \in S
  BY <1>1
<1> QED BY <1>4, <1>5, <1>6, <1>8, <1>9 DEF u, Cat

\* A single part is itself.
LEMMA FlattenOne ==
  ASSUME NEW B, NEW b \in Seq(B)
  PROVE  FlattenSeq(<<b>>) = b
<1>1. <<b>> \in Parts(B) /\ Len(<<b>>) = 1 /\ <<b>>[1] = b
  BY DEF Parts
<1> DEFINE s == <<b>>
           S == Seq(B)
           Cat(x, y) == x \o y
           e == <<>>
<1> HIDE DEF s, S, Cat, e
<1>2. PICK f \in [Nat -> S] :
         /\ f[0] = e /\ FlattenSeq(s) = f[Len(s)]
         /\ \A i \in 1..Len(s) : f[i] = Cat(f[i - 1], s[i])
  BY <1>1, FlattenIs DEF s, S, Cat, e
<1>3. Len(s) = 1 /\ s[1] = b
  BY <1>1 DEF s
<1>4. f[1] = Cat(f[1 - 1], s[1]) /\ 1 - 1 = 0
  BY <1>2, <1>3
<1>5. FlattenSeq(s) = Cat(e, b)
  BY <1>2, <1>3, <1>4
<1>6. Cat(e, b) = b
  BY ConcatEmptySeq DEF Cat, e
<1> QED BY <1>5, <1>6 DEF s

-----------------------------------------------------------------------------
(* Sequences of whatever it may be.                                        *)

\* A sequence, of whatever it may be.
IsSeq(s) == Len(s) \in Nat /\ s = [i \in 1..Len(s) |-> s[i]]

\* It is a sequence over every set that its elements are in.
LEMMA OfSet ==
  ASSUME NEW s, IsSeq(s), NEW A, \A i \in 1..Len(s) : s[i] \in A
  PROVE  s \in Seq(A)
<1> DEFINE n == Len(s)
           f == [i \in 1..n |-> s[i]]
<1>1. n \in Nat /\ s = f
  BY DEF IsSeq
<1>2. f \in [1..n -> A]
  OBVIOUS
<1> HIDE DEF n, f
<1>3. f \in Seq(A)
  BY <1>1, <1>2
<1> QED BY <1>1, <1>3

\* And a sequence over a set is one.
LEMMA SeqIs ==
  ASSUME NEW A, NEW s \in Seq(A)
  PROVE  IsSeq(s)
BY LenProperties DEF IsSeq

\* What is indexed by 1 to n is a sequence.
LEMMA IsIndexed ==
  ASSUME NEW n \in Nat, NEW f, f = [i \in 1..n |-> f[i]]
  PROVE  IsSeq(f) /\ Len(f) = n /\ DOMAIN f = 1..n
<1> DEFINE A == {f[i] : i \in 1..n}
           g == [i \in 1..n |-> f[i]]
<1>1. g \in [1..n -> A]
  OBVIOUS
<1> HIDE DEF A
<1>2. g \in Seq(A) /\ Len(g) = n
  BY <1>1
<1>3. f = g
  OBVIOUS
<1> HIDE DEF g
<1>4. f \in Seq(A) /\ Len(f) = n /\ DOMAIN f = 1..Len(f)
  BY <1>2, <1>3
<1> QED BY <1>4, SeqIs

\* What is empty.
LEMMA IsEmpty == IsSeq(<<>>) /\ Len(<<>>) = 0
BY EmptySeq, SeqIs

\* A single thing.
LEMMA IsOne ==
  ASSUME NEW x
  PROVE  IsSeq(<<x>>) /\ Len(<<x>>) = 1 /\ <<x>>[1] = x
<1>1. <<x>> \in Seq({x})
  OBVIOUS
<1> QED BY <1>1, SeqIs

\* Two of them, one after the other.
LEMMA IsConcat ==
  ASSUME NEW s, IsSeq(s), NEW t, IsSeq(t)
  PROVE  /\ IsSeq(s \o t) /\ Len(s \o t) = Len(s) + Len(t)
         /\ \A i \in 1..(Len(s) + Len(t)) : (s \o t)[i] = IF i =< Len(s) THEN s[i] ELSE t[i - Len(s)]
<1> DEFINE A == {s[i] : i \in 1..Len(s)} \cup {t[i] : i \in 1..Len(t)}
<1>1. (\A i \in 1..Len(s) : s[i] \in A) /\ \A i \in 1..Len(t) : t[i] \in A
  OBVIOUS
<1> HIDE DEF A
<1>2. s \in Seq(A) /\ t \in Seq(A)
  BY <1>1, OfSet
<1> QED BY <1>2, ConcatProperties, SeqIs

\* One element more.
LEMMA IsAppend ==
  ASSUME NEW s, IsSeq(s), NEW x
  PROVE  /\ IsSeq(Append(s, x)) /\ Len(Append(s, x)) = Len(s) + 1
         /\ \A i \in 1..Len(s) : Append(s, x)[i] = s[i]
         /\ Append(s, x)[Len(s) + 1] = x
<1> DEFINE A == {s[i] : i \in 1..Len(s)} \cup {x}
<1>1. x \in A /\ \A i \in 1..Len(s) : s[i] \in A
  OBVIOUS
<1> HIDE DEF A
<1>2. s \in Seq(A)
  BY <1>1, OfSet
<1>3. /\ Append(s, x) \in Seq(A) /\ Len(Append(s, x)) = Len(s) + 1
      /\ \A i \in 1..Len(s) : Append(s, x)[i] = s[i]
      /\ Append(s, x)[Len(s) + 1] = x
  BY <1>1, <1>2, AppendProperties
<1>4. IsSeq(Append(s, x))
  BY <1>3, SeqIs
<1> QED BY <1>3, <1>4

\* Without the first element.
LEMMA IsTail ==
  ASSUME NEW s, IsSeq(s), s # <<>>
  PROVE  /\ Len(s) \in Nat /\ Len(s) >= 1 /\ Head(s) = s[1]
         /\ IsSeq(Tail(s)) /\ Len(Tail(s)) = Len(s) - 1
         /\ \A i \in 1..(Len(s) - 1) : Tail(s)[i] = s[i + 1]
<1> DEFINE A == {s[i] : i \in 1..Len(s)}
<1>1. \A i \in 1..Len(s) : s[i] \in A
  OBVIOUS
<1> HIDE DEF A
<1>2. s \in Seq(A)
  BY <1>1, OfSet
<1>3. Len(s) \in Nat /\ Len(s) # 0 /\ Head(s) = s[1]
  BY <1>2, EmptySeq, LenProperties
<1>4. Tail(s) \in Seq(A) /\ Len(Tail(s)) = Len(s) - 1 /\ \A i \in 1..Len(Tail(s)) : Tail(s)[i] = s[i + 1]
  BY <1>2, HeadTailProperties
<1>5. IsSeq(Tail(s))
  BY <1>4, SeqIs
<1> QED BY <1>3, <1>4, <1>5

\* With another element at one place.
LEMMA IsExcept ==
  ASSUME NEW s, IsSeq(s), NEW i \in 1..Len(s), NEW e
  PROVE  IsSeq([s EXCEPT ![i] = e]) /\ Len([s EXCEPT ![i] = e]) = Len(s)
<1> DEFINE A == {s[j] : j \in 1..Len(s)} \cup {e}
<1>1. e \in A /\ \A j \in 1..Len(s) : s[j] \in A
  OBVIOUS
<1> HIDE DEF A
<1>2. s \in Seq(A)
  BY <1>1, OfSet
<1>3. [s EXCEPT ![i] = e] \in Seq(A) /\ Len([s EXCEPT ![i] = e]) = Len(s)
  BY <1>1, <1>2, ExceptSeq
<1> QED BY <1>3, SeqIs

\* Nothing more.
LEMMA IsNeutral ==
  ASSUME NEW x, IsSeq(x)
  PROVE  x \o <<>> = x
<1> DEFINE A == {x[i] : i \in 1..Len(x)}
<1>1. \A i \in 1..Len(x) : x[i] \in A
  OBVIOUS
<1> HIDE DEF A
<1>2. x \in Seq(A)
  BY <1>1, OfSet
<1> QED BY <1>2, ConcatEmptySeq

\* Three of them, one after another.
Assoc(x, y, z) == (x \o y) \o z = x \o (y \o z)

\* Joining three sequences does not depend on which two are joined first.
LEMMA IsAssoc ==
  ASSUME NEW x, IsSeq(x), NEW y, IsSeq(y), NEW z, IsSeq(z)
  PROVE  Assoc(x, y, z)
<1> DEFINE A == {x[i] : i \in 1..Len(x)} \cup {y[i] : i \in 1..Len(y)} \cup {z[i] : i \in 1..Len(z)}
<1>1. /\ \A i \in 1..Len(x) : x[i] \in A
      /\ \A i \in 1..Len(y) : y[i] \in A
      /\ \A i \in 1..Len(z) : z[i] \in A
  OBVIOUS
<1> HIDE DEF A
<1>2. x \in Seq(A) /\ y \in Seq(A) /\ z \in Seq(A)
  BY <1>1, OfSet
<1> QED BY <1>2, ConcatAssociative DEF Assoc

\* Two and three things one after another.
OneByOne(s, a, b, c) ==
  s \o <<a, b>> = (s \o <<a>>) \o <<b>> /\ s \o <<a, b, c>> = ((s \o <<a>>) \o <<b>>) \o <<c>>

\* Two or three elements are appended at once or one after another.
LEMMA IsTwo ==
  ASSUME NEW s, IsSeq(s), NEW a, NEW b, NEW c
  PROVE  OneByOne(s, a, b, c)
<1> DEFINE A == {s[i] : i \in 1..Len(s)} \cup {a, b, c}
           Q == Seq(A)
           one == <<a>>
           two == <<b>>
           three == <<c>>
<1>1. \A i \in 1..Len(s) : s[i] \in A
  OBVIOUS
<1>2. one \in Q /\ two \in Q /\ three \in Q
  OBVIOUS
<1>3. s \in Q
  <2> HIDE DEF A
  <2> QED BY <1>1, OfSet
<1>4. one \o two = <<a, b>> /\ (one \o two) \o three = <<a, b, c>>
  <2>1. <<a>> \o <<b>> = <<a, b>>
    <3>1. /\ <<a>> \o <<b>> \in Q /\ Len(<<a>> \o <<b>>) = 2
          /\ \A i \in 1..2 : (<<a>> \o <<b>>)[i] = IF i =< 1 THEN <<a>>[i] ELSE <<b>>[i - 1]
      BY <1>2, ConcatProperties
    <3>2. (<<a>> \o <<b>>)[1] = a /\ (<<a>> \o <<b>>)[2] = b
      BY <3>1
    <3>3. <<a, b>> \in Q /\ Len(<<a, b>>) = 2 /\ <<a, b>>[1] = a /\ <<a, b>>[2] = b
      OBVIOUS
    <3>4. \A i \in 1..2 : (<<a>> \o <<b>>)[i] = <<a, b>>[i]
      BY <3>2, <3>3
    <3> QED BY <3>1, <3>3, <3>4, SeqEqual
  <2>2. <<a, b>> \o <<c>> = <<a, b, c>>
    <3>0. <<a, b>> \in Q /\ Len(<<a, b>>) = 2 /\ <<a, b>>[1] = a /\ <<a, b>>[2] = b
      OBVIOUS
    <3>1. /\ <<a, b>> \o <<c>> \in Q /\ Len(<<a, b>> \o <<c>>) = 3
          /\ \A i \in 1..3 : (<<a, b>> \o <<c>>)[i] = IF i =< 2 THEN <<a, b>>[i] ELSE <<c>>[i - 2]
      BY <1>2, <3>0, ConcatProperties
    <3>2. /\ (<<a, b>> \o <<c>>)[1] = a /\ (<<a, b>> \o <<c>>)[2] = b
          /\ (<<a, b>> \o <<c>>)[3] = c
      BY <3>0, <3>1
    <3>3. /\ <<a, b, c>> \in Q /\ Len(<<a, b, c>>) = 3
          /\ <<a, b, c>>[1] = a /\ <<a, b, c>>[2] = b /\ <<a, b, c>>[3] = c
      OBVIOUS
    <3>4. \A i \in 1..3 : (<<a, b>> \o <<c>>)[i] = <<a, b, c>>[i]
      BY <3>2, <3>3
    <3> QED BY <3>1, <3>3, <3>4, SeqEqual
  <2> QED BY <2>1, <2>2
<1>5. \A x, y, z \in Q : (x \o y) \o z = x \o (y \o z)
  BY ConcatAssociative
<1>8. \A x, y \in Q : x \o y \in Q
  BY ConcatProperties
<1> HIDE DEF Q, one, two, three
<1>6. s \o (one \o two) = (s \o one) \o two
  BY ONLY <1>2, <1>3, <1>5
<1>9. one \o two \in Q
  BY ONLY <1>2, <1>8
<1>7. s \o ((one \o two) \o three) = (s \o (one \o two)) \o three
  BY ONLY <1>2, <1>3, <1>5, <1>9
<1> QED BY <1>4, <1>6, <1>7 DEF one, two, three, OneByOne

\* Two things.
LEMMA TwoIs == ASSUME NEW a, NEW b PROVE <<a>> \o <<b>> = <<a, b>>
<1> DEFINE Q == Seq({a, b})
<1>1. <<a>> \in Q /\ <<b>> \in Q /\ Len(<<a>>) = 1 /\ Len(<<b>>) = 1 /\ <<a>>[1] = a /\ <<b>>[1] = b
  OBVIOUS
<1>2. /\ <<a>> \o <<b>> \in Q /\ Len(<<a>> \o <<b>>) = 2
      /\ \A i \in 1..2 : (<<a>> \o <<b>>)[i] = IF i =< 1 THEN <<a>>[i] ELSE <<b>>[i - 1]
  BY <1>1, ConcatProperties
<1>3. (<<a>> \o <<b>>)[1] = a /\ (<<a>> \o <<b>>)[2] = b
  BY <1>1, <1>2
<1>4. <<a, b>> \in Q /\ Len(<<a, b>>) = 2 /\ <<a, b>>[1] = a /\ <<a, b>>[2] = b
  OBVIOUS
<1>5. \A i \in 1..2 : (<<a>> \o <<b>>)[i] = <<a, b>>[i]
  BY <1>3, <1>4
<1> QED BY <1>2, <1>4, <1>5, SeqEqual
-----------------------------------------------------------------------------
(* MapThenSumSet, of the community modules.                                *)

SumOver(f, A) == MapThenSumSet(LAMBDA h : f[h], A)

\* One step of the fold over a set, whichever element it takes first.
Folds(g, f, A) ==
  g = [s \in SUBSET A |-> IF s = {} THEN 0
                          ELSE f[CHOOSE x \in s : TRUE] + g[s \ {CHOOSE x \in s : TRUE}]]

\* A sum is the value of the function its definition folds with.
LEMMA SumFold ==
  ASSUME NEW f, NEW A
  PROVE  SumOver(f, A) = (CHOOSE g : Folds(g, f, A))[A]
BY DEF SumOver, MapThenSumSet, MapThenFoldSet, Folds

\* A sum is that of any element and the others.
Sums(F, f, B) ==
  /\ F[{}] = 0 /\ \A s \in SUBSET B : F[s] \in Nat
  /\ \A s \in SUBSET B : \A x \in s : F[s] = f[x] + F[s \ {x}]

\* Some function from the sets of positions to numbers adds up as a sum should.
LEMMA SumExists ==
  ASSUME NEW n \in Nat, NEW B \in SUBSET (1..n), NEW f, \A h \in B : f[h] \in Nat
  PROVE  \E F : Sums(F, f, B)
<1> DEFINE step(s) == [p \in Nat \X Nat |-> p[2] + IF p[1] + 1 \in s THEN f[p[1] + 1] ELSE 0]
           H(s) == CHOOSE h \in [Nat -> Nat] : Iterates(h, 0, step(s))
           F == [s \in SUBSET B |-> H(s)[n]]
<1>1. ASSUME NEW s \in SUBSET B
      PROVE  /\ H(s) \in [Nat -> Nat] /\ H(s)[0] = 0
             /\ \A k \in Nat : H(s)[k + 1] = H(s)[k] + IF k + 1 \in s THEN f[k + 1] ELSE 0
  <2>1. step(s) \in [Nat \X Nat -> Nat]
    OBVIOUS
  <2>2. \E h \in [Nat -> Nat] : Iterates(h, 0, step(s))
    <3> HIDE DEF step
    <3> QED BY <2>1, Recursion
  <2>3. H(s) \in [Nat -> Nat] /\ Iterates(H(s), 0, step(s))
    <3> HIDE DEF step
    <3> QED BY <2>2
  <2> HIDE DEF H
  <2>4. \A k \in Nat : H(s)[k] \in Nat /\ <<k, H(s)[k]>> \in Nat \X Nat
    BY <2>3
  <2>5. \A k \in Nat : H(s)[k + 1] = step(s)[<<k, H(s)[k]>>]
    BY <2>3 DEF Iterates
  <2> QED BY <2>3, <2>4, <2>5 DEF Iterates
<1> HIDE DEF H
<1>2. \A s \in SUBSET B : F[s] = H(s)[n] /\ F[s] \in Nat
  BY <1>1
<1>3. F[{}] = 0
  <2> DEFINE T == {k \in Nat : H({})[k] = 0}
  <2>1. 0 \in T /\ \A k \in Nat : k \in T => k + 1 \in T
    BY <1>1
  <2> HIDE DEF T
  <2>2. n \in T
    BY <2>1, SetInduction
  <2> QED BY <1>2, <2>2 DEF T
<1>4. ASSUME NEW s \in SUBSET B, NEW x \in s PROVE F[s] = f[x] + F[s \ {x}]
  <2> DEFINE r == s \ {x}
             T == {k \in Nat : H(s)[k] = H(r)[k] + IF x =< k THEN f[x] ELSE 0}
  <2>0. r \in SUBSET B /\ x \in 1..n /\ f[x] \in Nat
    OBVIOUS
  <2>1. 0 \in T
    BY <1>1, <2>0
  <2>2. ASSUME NEW k \in Nat, k \in T PROVE k + 1 \in T
    <3>1. /\ H(s)[k + 1] = H(s)[k] + IF k + 1 \in s THEN f[k + 1] ELSE 0
          /\ H(r)[k + 1] = H(r)[k] + IF k + 1 \in r THEN f[k + 1] ELSE 0
          /\ H(r)[k] \in Nat /\ H(s)[k] \in Nat
      BY <1>1, <2>0
    <3>2. H(s)[k] = H(r)[k] + IF x =< k THEN f[x] ELSE 0
      BY <2>2
    <3>3. CASE k + 1 = x
      BY <2>0, <3>1, <3>2, <3>3
    <3>4. CASE k + 1 # x
      <4>1. (k + 1 \in s <=> k + 1 \in r) /\ (x =< k <=> x =< k + 1)
        BY <2>0, <3>4
      <4>2. k + 1 \in s => f[k + 1] \in Nat
        OBVIOUS
      <4> QED BY <2>0, <3>1, <3>2, <4>1, <4>2
    <3> QED BY <3>3, <3>4
  <2> HIDE DEF T
  <2>3. n \in T
    BY <2>1, <2>2, SetInduction
  <2>4. H(s)[n] = H(r)[n] + IF x =< n THEN f[x] ELSE 0
    BY <2>3 DEF T
  <2>5. x =< n /\ F[s] = H(s)[n] /\ F[r] = H(r)[n] /\ F[r] \in Nat
    <3> HIDE DEF F, r
    <3>1. x =< n
      BY <2>0
    <3> QED BY <1>2, <2>0, <3>1
  <2>6. H(s)[n] = H(r)[n] + f[x]
    BY <2>4, <2>5
  <2>7. F[s] = F[r] + f[x] /\ f[x] \in Nat
    BY <2>0, <2>5, <2>6
  <2> HIDE DEF F
  <2>8. F[s] = f[x] + F[r]
    BY <2>5, <2>7
  <2> QED BY <2>8
<1> HIDE DEF F
<1>5. Sums(F, f, B)
  BY <1>2, <1>3, <1>4 DEF Sums
<1> QED BY <1>5

\* A sum is 0 of nothing, and that of any element and the others otherwise.
LEMMA SumIs ==
  ASSUME NEW n \in Nat, NEW B \in SUBSET (1..n), NEW f, \A h \in B : f[h] \in Nat
  PROVE  /\ SumOver(f, {}) = 0 /\ SumOver(f, B) \in Nat
         /\ \A x \in B : SumOver(f, B) = f[x] + SumOver(f, B \ {x})
<1>1. PICK F : Sums(F, f, B)
  BY SumExists
<1>2. ASSUME NEW A \in SUBSET B PROVE SumOver(f, A) = F[A]
  <2> DEFINE it == CHOOSE g : Folds(g, f, A)
             G == [s \in SUBSET A |-> F[s]]
             pick(s) == CHOOSE x \in s : TRUE
  <2>1. \A s \in SUBSET A : s # {} => pick(s) \in s
    OBVIOUS
  <2> HIDE DEF pick
  <2>2. \A s \in SUBSET A : F[s] = IF s = {} THEN 0 ELSE f[pick(s)] + F[s \ {pick(s)}]
    BY <1>1, <2>1 DEF Sums
  <2>3. \A s \in SUBSET A : s \ {pick(s)} \in SUBSET A /\ G[s] = F[s]
    OBVIOUS
  <2>4. G = [s \in SUBSET A |-> IF s = {} THEN 0 ELSE f[pick(s)] + G[s \ {pick(s)}]]
    BY <2>2, <2>3
  <2> HIDE DEF G
  <2>5. Folds(G, f, A)
    BY <2>4 DEF Folds, pick
  <2>6. Folds(it, f, A)
    BY <2>5
  <2> HIDE DEF it
  <2>7. \A s \in SUBSET A : it[s] = IF s = {} THEN 0 ELSE f[pick(s)] + it[s \ {pick(s)}]
    <3>1. it = [s \in SUBSET A |-> IF s = {} THEN 0 ELSE f[pick(s)] + it[s \ {pick(s)}]]
      BY <2>6 DEF Folds, pick
    <3> QED BY <3>1
  <2> DEFINE T == {k \in Nat : \A s \in SUBSET A : Cardinality(s) = k => it[s] = F[s]}
  <2>8. IsFiniteSet(A) /\ \A s \in SUBSET A : IsFiniteSet(s) /\ Cardinality(s) \in Nat
    <3>1. IsFiniteSet(1..n) /\ A \in SUBSET (1..n)
      BY FS_Interval
    <3>2. \A s \in SUBSET A : IsFiniteSet(s)
      BY <3>1, FS_Subset
    <3> QED BY <3>2, FS_CardinalityType
  <2>9. 0 \in T
    <3>1. \A s \in SUBSET A : Cardinality(s) = 0 => s = {}
      BY <2>8, FS_EmptySet
    <3> QED BY <2>2, <2>7, <3>1
  <2>10. ASSUME NEW k \in Nat, k \in T PROVE k + 1 \in T
    <3>0. k + 1 \in Nat
      OBVIOUS
    <3> SUFFICES ASSUME NEW s \in SUBSET A, Cardinality(s) = k + 1 PROVE it[s] = F[s]
      BY <3>0, Zenon
    <3>1. s # {}
      BY FS_EmptySet
    <3>2. pick(s) \in s /\ s \ {pick(s)} \in SUBSET A
      BY <2>1, <3>1
    <3>3. Cardinality(s \ {pick(s)}) = k
      BY <2>8, <3>2, FS_RemoveElement
    <3>4. it[s \ {pick(s)}] = F[s \ {pick(s)}]
      BY <2>10, <3>2, <3>3
    <3> QED BY <2>2, <2>7, <3>1, <3>4
  <2> HIDE DEF T
  <2>11. Cardinality(A) \in T
    BY <2>8, <2>9, <2>10, SetInduction
  <2>12. it[A] = F[A]
    BY <2>11 DEF T
  <2>13. SumOver(f, A) = it[A]
    BY SumFold DEF it
  <2> QED BY <2>12, <2>13
<1>3. {} \in SUBSET B /\ B \in SUBSET B /\ \A x \in B : B \ {x} \in SUBSET B
  OBVIOUS
<1> QED BY <1>1, <1>2, <1>3 DEF Sums

\* Sums of the first ones: they go on, do not sink, and depend on these alone.
Upto(A, k) == A \cap 1..k

\* The sum of the first k + 1 is that of the first k and the next one, if there is one.
LEMMA SumNext ==
  ASSUME NEW n \in Nat, NEW B \in SUBSET (1..n), NEW f, \A h \in B : f[h] \in Nat, NEW k \in Nat
  PROVE  /\ SumOver(f, Upto(B, 0)) = 0 /\ SumOver(f, Upto(B, k)) \in Nat
         /\ SumOver(f, Upto(B, k + 1)) = (IF k + 1 \in B THEN f[k + 1] ELSE 0) + SumOver(f, Upto(B, k))
<1> DEFINE A == Upto(B, k + 1)
<1>1. /\ A \in SUBSET (1..n) /\ Upto(B, k) \in SUBSET (1..n) /\ Upto(B, 0) = {}
      /\ (\A h \in A : f[h] \in Nat) /\ \A h \in Upto(B, k) : f[h] \in Nat
  BY DEF Upto
<1>2. k + 1 \in B => k + 1 \in A /\ A \ {k + 1} = Upto(B, k) /\ f[k + 1] \in Nat
  BY DEF Upto
<1>3. k + 1 \notin B => A = Upto(B, k)
  BY DEF Upto
<1>4. SumOver(f, {}) = 0 /\ SumOver(f, Upto(B, k)) \in Nat
  BY <1>1, SumIs
<1>5. \A x \in A : SumOver(f, A) = f[x] + SumOver(f, A \ {x})
  BY <1>1, SumIs
<1> HIDE DEF A
<1>6. k + 1 \in B => SumOver(f, A) = f[k + 1] + SumOver(f, Upto(B, k))
  BY <1>2, <1>5
<1>7. k + 1 \notin B => SumOver(f, A) = SumOver(f, Upto(B, k))
  BY <1>3
<1> QED BY <1>1, <1>4, <1>6, <1>7 DEF A

\* Sums of equal numbers are equal.
LEMMA SumSame ==
  ASSUME NEW n \in Nat, NEW B \in SUBSET (1..n), NEW f, NEW g, \A h \in B : f[h] \in Nat /\ g[h] = f[h],
         NEW k \in Nat
  PROVE  SumOver(g, Upto(B, k)) = SumOver(f, Upto(B, k))
<1> DEFINE T == {i \in Nat : SumOver(g, Upto(B, i)) = SumOver(f, Upto(B, i))}
<1>1. \A i \in Nat : /\ SumOver(f, Upto(B, 0)) = 0 /\ SumOver(f, Upto(B, i)) \in Nat
                     /\ SumOver(f, Upto(B, i + 1)) = (IF i + 1 \in B THEN f[i + 1] ELSE 0) + SumOver(f, Upto(B, i))
  BY SumNext, ZenonT(60)
<1>2. \A i \in Nat : /\ SumOver(g, Upto(B, 0)) = 0 /\ SumOver(g, Upto(B, i)) \in Nat
                     /\ SumOver(g, Upto(B, i + 1)) = (IF i + 1 \in B THEN g[i + 1] ELSE 0) + SumOver(g, Upto(B, i))
  <2>1. \A h \in B : g[h] \in Nat
    OBVIOUS
  <2> QED BY <2>1, SumNext, ZenonT(60)
<1>3. 0 \in T /\ \A i \in Nat : i \in T => i + 1 \in T
  <2>1. 0 \in T
    BY <1>1, <1>2
  <2>2. ASSUME NEW i \in Nat, i \in T PROVE i + 1 \in T
    <3>1. i + 1 \in B => f[i + 1] = g[i + 1]
      OBVIOUS
    <3>2. SumOver(f, Upto(B, i + 1)) = SumOver(g, Upto(B, i + 1))
      BY <1>1, <1>2, <2>2, <3>1
    <3> QED BY <3>2
  <2> QED BY <2>1, <2>2
<1> HIDE DEF T
<1>4. k \in T
  BY <1>3, SetInduction
<1> QED BY <1>4 DEF T

\* The sum of the first k does not sink as k grows.
LEMMA SumGrows ==
  ASSUME NEW n \in Nat, NEW B \in SUBSET (1..n), NEW f, \A h \in B : f[h] \in Nat,
         NEW j \in Nat, NEW k \in Nat, j =< k
  PROVE  SumOver(f, Upto(B, j)) =< SumOver(f, Upto(B, k))
<1> DEFINE T == {i \in Nat : j =< i => SumOver(f, Upto(B, j)) =< SumOver(f, Upto(B, i))}
<1>1. \A i \in Nat : /\ SumOver(f, Upto(B, 0)) = 0 /\ SumOver(f, Upto(B, i)) \in Nat
                     /\ SumOver(f, Upto(B, i + 1)) = (IF i + 1 \in B THEN f[i + 1] ELSE 0) + SumOver(f, Upto(B, i))
  <2>1. \A h \in B : f[h] \in Nat
    OBVIOUS
  <2> HIDE DEF T
  <2> QED BY <2>1, SumNext, ZenonT(60)
<1>2. \A i \in Nat : SumOver(f, Upto(B, i)) =< SumOver(f, Upto(B, i + 1))
  BY <1>1
<1>3. 0 \in T
  BY <1>1
<1>4. ASSUME NEW i \in Nat, i \in T PROVE i + 1 \in T
  <2>1. CASE j = i + 1
    BY <1>1, <2>1
  <2>2. CASE j =< i
    BY <1>1, <1>2, <1>4, <2>2
  <2> QED BY <2>1, <2>2
<1> HIDE DEF T
<1>5. k \in T
  BY <1>3, <1>4, SetInduction
<1> QED BY <1>5 DEF T

\* The flattening, of whatever the parts may be.
Flattens(F, s) ==
  /\ F[0] = <<>> /\ FlattenSeq(s) = F[Len(s)]
  /\ \A i \in 1..Len(s) : IsSeq(F[i - 1]) /\ F[i] = F[i - 1] \o s[i]
  /\ IsSeq(F[Len(s)])

\* Flattening joins the sequences one by one.
LEMMA IsFlatten ==
  ASSUME NEW s, IsSeq(s), \A i \in 1..Len(s) : IsSeq(s[i])
  PROVE  \E F : Flattens(F, s)
<1> DEFINE B == UNION {{s[i][j] : j \in 1..Len(s[i])} : i \in 1..Len(s)}
           S == Seq(B)
<1>1. ASSUME NEW i \in 1..Len(s) PROVE s[i] \in S
  <2>1. \A j \in 1..Len(s[i]) : s[i][j] \in B
    OBVIOUS
  <2> HIDE DEF B
  <2> QED BY <2>1, OfSet
<1> HIDE DEF B
<1>2. s \in Parts(B)
  <2> HIDE DEF S
  <2>1. s \in Seq(S)
    BY <1>1, OfSet
  <2> QED BY <2>1 DEF Parts, S
<1>3. PICK F \in [Nat -> S] :
        /\ F[0] = <<>> /\ FlattenSeq(s) = F[Len(s)] /\ \A i \in 1..Len(s) : F[i] = F[i - 1] \o s[i]
  BY <1>2, FlattenIs
<1>4. \A i \in Nat : IsSeq(F[i])
  <2>1. \A i \in Nat : F[i] \in Seq(B)
    OBVIOUS
  <2> QED BY <2>1, SeqIs
<1>5. Len(s) \in Nat
  BY DEF IsSeq
<1>6. \A i \in 1..Len(s) : i - 1 \in Nat
  BY <1>5
<1>7. Flattens(F, s)
  BY <1>3, <1>4, <1>5, <1>6 DEF Flattens
<1> QED BY <1>7

\* An entry of the one sequence for every entry of the other, as f says.
Maps(f, s, t) ==
  /\ IsSeq(s) /\ IsSeq(t) /\ Len(t) = Len(s)
  /\ \A i \in 1..Len(s) : s[i] \in DOMAIN f /\ t[i] = f[s[i]]

\* A part of a sequence is as long as it says.
LEMMA PartIs ==
  ASSUME NEW t, IsSeq(t), NEW a \in Nat, NEW m \in Nat, a + m =< Len(t)
  PROVE  IsSeq(SubSeq(t, a + 1, a + m)) /\ Len(SubSeq(t, a + 1, a + m)) = m
<1> DEFINE A == {t[i] : i \in 1..Len(t)}
           u == SubSeq(t, a + 1, a + m)
<1>1. Len(t) \in Nat /\ a + 1 \in Int /\ a + m \in Int
  BY DEF IsSeq
<1>2. \A i \in (a + 1)..(a + m) : t[i] \in A
  BY <1>1
<1> HIDE DEF A
<1>3. u \in Seq(A) /\ Len(u) = IF a + 1 =< a + m THEN (a + m) - (a + 1) + 1 ELSE 0
  BY <1>1, <1>2, SubSeqProperties
<1> HIDE DEF u
<1>4. IsSeq(u) /\ Len(u) = m
  BY <1>3, SeqIs
<1> QED BY <1>4 DEF u

\* A part of what maps.
LEMMA MapsPart ==
  ASSUME NEW f, NEW s, NEW t, Maps(f, s, t), NEW a \in Nat, NEW n \in Nat, a + n =< Len(s)
  PROVE  Maps(f, SubSeq(s, a + 1, a + n), SubSeq(t, a + 1, a + n))
<1> DEFINE A == {s[i] : i \in 1..Len(s)}
           B == {t[i] : i \in 1..Len(t)}
           u == SubSeq(s, a + 1, a + n)
           v == SubSeq(t, a + 1, a + n)
<1>1. Len(s) \in Nat /\ Len(t) = Len(s) /\ a + 1 \in Int /\ a + n \in Int
  BY DEF Maps, IsSeq
<1>2. (\A i \in (a + 1)..(a + n) : s[i] \in A) /\ \A i \in (a + 1)..(a + n) : t[i] \in B
  BY <1>1
<1> HIDE DEF A, B
<1>3. /\ u \in Seq(A) /\ Len(u) = IF a + 1 =< a + n THEN (a + n) - (a + 1) + 1 ELSE 0
      /\ \A i \in 1..((a + n) - (a + 1) + 1) : u[i] = s[(a + 1) + i - 1]
  BY <1>1, <1>2, SubSeqProperties
<1>4. /\ v \in Seq(B) /\ Len(v) = IF a + 1 =< a + n THEN (a + n) - (a + 1) + 1 ELSE 0
      /\ \A i \in 1..((a + n) - (a + 1) + 1) : v[i] = t[(a + 1) + i - 1]
  BY <1>1, <1>2, SubSeqProperties
<1> HIDE DEF u, v
<1>5. IsSeq(u) /\ IsSeq(v)
  BY <1>3, <1>4, SeqIs
<1>6. Len(u) = n /\ Len(v) = n
  BY <1>3, <1>4
<1>7. ASSUME NEW i \in 1..n PROVE u[i] \in DOMAIN f /\ v[i] = f[u[i]]
  <2>1. (a + 1) + i - 1 \in 1..Len(s) /\ i \in 1..((a + n) - (a + 1) + 1)
    BY <1>1
  <2>2. u[i] = s[(a + 1) + i - 1] /\ v[i] = t[(a + 1) + i - 1]
    BY <1>3, <1>4, <2>1
  <2> HIDE DEF u, v
  <2> QED BY <2>1, <2>2 DEF Maps
<1> QED BY <1>5, <1>6, <1>7 DEF Maps, u, v

\* Two that map, one after the other.
LEMMA MapsConcat ==
  ASSUME NEW f, NEW s, NEW t, Maps(f, s, t), NEW u, NEW v, Maps(f, u, v)
  PROVE  Maps(f, s \o u, t \o v)
<1> DEFINE x == s \o u
           y == t \o v
<1>1. /\ IsSeq(s) /\ IsSeq(t) /\ IsSeq(u) /\ IsSeq(v) /\ Len(s) \in Nat /\ Len(u) \in Nat
      /\ Len(t) = Len(s) /\ Len(v) = Len(u)
  BY DEF Maps, IsSeq
<1>2. /\ IsSeq(x) /\ Len(x) = Len(s) + Len(u)
      /\ \A i \in 1..(Len(s) + Len(u)) : x[i] = IF i =< Len(s) THEN s[i] ELSE u[i - Len(s)]
  BY <1>1, IsConcat
<1>3. /\ IsSeq(y) /\ Len(y) = Len(s) + Len(u)
      /\ \A i \in 1..(Len(s) + Len(u)) : y[i] = IF i =< Len(s) THEN t[i] ELSE v[i - Len(s)]
  <2>1. /\ IsSeq(y) /\ Len(y) = Len(t) + Len(v)
        /\ \A i \in 1..(Len(t) + Len(v)) : y[i] = IF i =< Len(t) THEN t[i] ELSE v[i - Len(t)]
    BY <1>1, IsConcat
  <2> HIDE DEF y
  <2> QED BY <1>1, <2>1
<1> HIDE DEF x, y
<1>4. ASSUME NEW i \in 1..(Len(s) + Len(u)) PROVE x[i] \in DOMAIN f /\ y[i] = f[x[i]]
  <2>1. CASE i =< Len(s)
    <3>1. i \in 1..Len(s) /\ x[i] = s[i] /\ y[i] = t[i]
      BY <1>1, <1>2, <1>3, <2>1
    <3> QED BY <3>1 DEF Maps
  <2>2. CASE i > Len(s)
    <3>1. i - Len(s) \in 1..Len(u) /\ x[i] = u[i - Len(s)] /\ y[i] = v[i - Len(s)]
      BY <1>1, <1>2, <1>3, <2>2
    <3> QED BY <3>1 DEF Maps
  <2> QED BY <1>1, <2>1, <2>2
<1> QED BY <1>2, <1>3, <1>4 DEF Maps, x, y

\* All that map, flattened.
LEMMA MapsFlatten ==
  ASSUME NEW f, NEW s, IsSeq(s), NEW t, IsSeq(t), Len(t) = Len(s),
         \A i \in 1..Len(s) : Maps(f, s[i], t[i])
  PROVE  Maps(f, FlattenSeq(s), FlattenSeq(t))
<1> DEFINE n == Len(s)
<1>0. n \in Nat
  BY DEF IsSeq
<1>1. \A i \in 1..n : IsSeq(s[i]) /\ IsSeq(t[i])
  BY DEF Maps
<1>2. PICK F : Flattens(F, s)
  BY <1>1, IsFlatten
<1>3. PICK G : Flattens(G, t)
  BY <1>1, IsFlatten
<1> DEFINE T == {i \in Nat : i =< n => Maps(f, F[i], G[i])}
<1>4. 0 \in T
  <2>1. F[0] = <<>> /\ G[0] = <<>>
    BY <1>2, <1>3 DEF Flattens
  <2>2. Maps(f, <<>>, <<>>)
    BY IsEmpty DEF Maps
  <2>3. Maps(f, F[0], G[0])
    BY <2>1, <2>2
  <2> QED BY <2>3
<1>5. ASSUME NEW i \in Nat, i \in T PROVE i + 1 \in T
  <2> SUFFICES ASSUME i + 1 =< n PROVE Maps(f, F[i + 1], G[i + 1])
    OBVIOUS
  <2>1. i + 1 \in 1..n /\ (i + 1) - 1 = i /\ Maps(f, F[i], G[i])
    BY <1>0, <1>5
  <2>2. F[i + 1] = F[i] \o s[i + 1] /\ G[i + 1] = G[i] \o t[i + 1]
    BY <1>2, <1>3, <2>1 DEF Flattens
  <2>3. Maps(f, F[i] \o s[i + 1], G[i] \o t[i + 1])
    BY <2>1, MapsConcat
  <2> QED BY <2>2, <2>3
<1> HIDE DEF T
<1>6. n \in T
  BY <1>0, <1>4, <1>5, SetInduction
<1>7. Maps(f, F[n], G[n])
  BY <1>0, <1>6 DEF T
<1>8. FlattenSeq(s) = F[n] /\ FlattenSeq(t) = G[n]
  BY <1>2, <1>3 DEF Flattens
<1> QED BY <1>7, <1>8

\* The length of what is flattened.
LEMMA FlattenLen ==
  ASSUME NEW s, IsSeq(s), \A i \in 1..Len(s) : IsSeq(s[i]),
         NEW A \in SUBSET (1..Len(s)), NEW lens, \A i \in A : lens[i] = Len(s[i]),
         \A i \in (1..Len(s)) \ A : Len(s[i]) = 0
  PROVE  IsSeq(FlattenSeq(s)) /\ Len(FlattenSeq(s)) = SumOver(lens, Upto(A, Len(s)))
<1> DEFINE n == Len(s)
<1>0. n \in Nat /\ \A i \in A : lens[i] \in Nat
  BY DEF IsSeq
<1>1. PICK F : Flattens(F, s)
  BY IsFlatten
<1> DEFINE T == {i \in Nat : i =< n => IsSeq(F[i]) /\ Len(F[i]) = SumOver(lens, Upto(A, i))}
<1>2. \A i \in Nat : /\ SumOver(lens, Upto(A, 0)) = 0 /\ SumOver(lens, Upto(A, i)) \in Nat
                     /\ SumOver(lens, Upto(A, i + 1)) = (IF i + 1 \in A THEN lens[i + 1] ELSE 0) + SumOver(lens, Upto(A, i))
  <2> HIDE DEF T
  <2> QED BY <1>0, SumNext
<1>3. 0 \in T
  BY <1>1, <1>2, IsEmpty DEF Flattens
<1>4. ASSUME NEW i \in Nat, i \in T PROVE i + 1 \in T
  <2> SUFFICES ASSUME i + 1 =< n
               PROVE  IsSeq(F[i + 1]) /\ Len(F[i + 1]) = SumOver(lens, Upto(A, i + 1))
    OBVIOUS
  <2>1. i + 1 \in 1..n /\ (i + 1) - 1 = i /\ IsSeq(F[i]) /\ Len(F[i]) = SumOver(lens, Upto(A, i))
    BY <1>0, <1>4
  <2>2. F[i + 1] = F[i] \o s[i + 1] /\ IsSeq(s[i + 1])
    BY <1>1, <2>1 DEF Flattens
  <2>3. IsSeq(F[i] \o s[i + 1]) /\ Len(F[i] \o s[i + 1]) = Len(F[i]) + Len(s[i + 1])
    BY <2>1, <2>2, IsConcat
  <2>4. Len(s[i + 1]) = IF i + 1 \in A THEN lens[i + 1] ELSE 0
    BY <2>1
  <2>5. Len(F[i]) \in Nat /\ Len(s[i + 1]) \in Nat
    BY <2>1, <2>2 DEF IsSeq
  <2> HIDE DEF T
  <2>6. SumOver(lens, Upto(A, i + 1)) = Len(s[i + 1]) + SumOver(lens, Upto(A, i))
    BY <1>2, <2>4
  <2>7. Len(F[i + 1]) = SumOver(lens, Upto(A, i + 1))
    BY <2>1, <2>2, <2>3, <2>5, <2>6
  <2> QED BY <2>2, <2>3, <2>7
<1> HIDE DEF T
<1>5. n \in T
  BY <1>0, <1>3, <1>4, SetInduction
<1> QED BY <1>0, <1>1, <1>5 DEF T, Flattens

-----------------------------------------------------------------------------
(* Powers of two.  The provers do not see how they are defined: what a     *)
(* power is follows from how many subsets a set has.                       *)

\* Twice the power of two is the next one: the subsets of 1..n + 1 with n + 1
\* and those without it are as many as the subsets of 1..n.
LEMMA PowerNext ==
  ASSUME NEW n \in Nat
  PROVE  2^n \in Nat /\ 2^n >= 1 /\ 2^(n + 1) = 2 * 2^n
<1> DEFINE A == 1..n
           B == 1..(n + 1)
           C == {s \cup {n + 1} : s \in SUBSET A}
           f == [s \in SUBSET A |-> s \cup {n + 1}]
<1>1. /\ IsFiniteSet(A) /\ Cardinality(A) = n /\ IsFiniteSet(B) /\ Cardinality(B) = n + 1
  BY FS_Interval
<1>2. /\ IsFiniteSet(SUBSET A) /\ Cardinality(SUBSET A) = 2^n
      /\ IsFiniteSet(SUBSET B) /\ Cardinality(SUBSET B) = 2^(n + 1)
  <2> HIDE DEF A, B
  <2> QED BY <1>1, FS_SUBSET
<1>3. ASSUME NEW s \in SUBSET A PROVE n + 1 \notin s
  BY <1>3
<1>4. f \in Bijection(SUBSET A, C)
  <2>1. f \in [SUBSET A -> C]
    OBVIOUS
  <2>2. ASSUME NEW s \in SUBSET A, NEW t \in SUBSET A, s \cup {n + 1} = t \cup {n + 1} PROVE s = t
    <3>1. n + 1 \notin s /\ n + 1 \notin t
      BY <1>3
    <3> HIDE DEF A
    <3> QED BY ONLY <2>2, <3>1
  <2>3. \A c \in C : \E s \in SUBSET A : f[s] = c
    OBVIOUS
  <2> HIDE DEF A, C
  <2> QED BY <2>1, <2>2, <2>3 DEF Bijection, Injection, Surjection, IsInjective
<1>5. IsFiniteSet(C) /\ Cardinality(C) = 2^n
  <2> HIDE DEF A, C, f
  <2> QED BY <1>2, <1>4, FS_Bijection DEF ExistsBijection
<1>6. SUBSET B = (SUBSET A) \cup C
  <2>1. B = A \cup {n + 1}
    OBVIOUS
  <2> HIDE DEF A, B
  <2>2. ASSUME NEW t \in SUBSET B PROVE t \in (SUBSET A) \cup C
    <3>1. CASE n + 1 \in t
      <4>1. t \ {n + 1} \in SUBSET A /\ t = (t \ {n + 1}) \cup {n + 1}
        BY <2>1, <3>1
      <4> QED BY <4>1
    <3>2. CASE n + 1 \notin t
      BY <2>1, <3>2
    <3> QED BY <3>1, <3>2
  <2>3. ASSUME NEW t \in (SUBSET A) \cup C PROVE t \in SUBSET B
    BY <2>1, <2>3
  <2> QED BY <2>2, <2>3
<1>7. (SUBSET A) \cap C = {}
  <2>1. \A c \in C : n + 1 \in c
    OBVIOUS
  <2>2. \A s \in SUBSET A : n + 1 \notin s
    BY <1>3
  <2> QED BY ONLY <2>1, <2>2
<1>8. Cardinality((SUBSET A) \cup C) = Cardinality(SUBSET A) + Cardinality(C)
  <2>1. /\ Cardinality((SUBSET A) \cap C) = 0
        /\ Cardinality((SUBSET A) \cup C)
             = Cardinality(SUBSET A) + Cardinality(C) - Cardinality((SUBSET A) \cap C)
    <3> HIDE DEF A, C
    <3> QED BY <1>2, <1>5, <1>7, FS_Union, FS_EmptySet
  <2>2. Cardinality(SUBSET A) \in Nat /\ Cardinality(C) \in Nat
    <3> HIDE DEF A, C
    <3> QED BY <1>2, <1>5, FS_CardinalityType
  <2> HIDE DEF A, C
  <2> QED BY <2>1, <2>2
<1>9. 2^n \in Nat /\ 2^n # 0
  <2>1. Cardinality(SUBSET A) \in Nat /\ (Cardinality(SUBSET A) = 0 <=> SUBSET A = {})
    <3> HIDE DEF A
    <3> QED BY <1>2, FS_CardinalityType, FS_EmptySet
  <2>2. SUBSET A # {}
    OBVIOUS
  <2> QED BY ONLY <2>1, <2>2, <1>2
<1> DEFINE x == 2^n
           y == 2^(n + 1)
<1>10. y = x + x
  BY ONLY <1>2, <1>5, <1>6, <1>8
<1>11. x \in Nat /\ x # 0
  BY <1>9
<1> HIDE DEF x, y
<1>12. x >= 1 /\ y = 2 * x
  BY <1>10, <1>11
<1> QED BY <1>11, <1>12 DEF x, y

\* The first power is one.
LEMMA PowerZero == 2^0 = 1
<1>1. IsFiniteSet({}) /\ Cardinality({}) = 0
  BY FS_EmptySet
<1>2. Cardinality(SUBSET {}) = 2^0
  BY <1>1, FS_SUBSET
<1>3. SUBSET {} = {{}}
  OBVIOUS
<1>4. Cardinality({{}}) = 1
  BY FS_Singleton
<1> QED BY <1>2, <1>3, <1>4

\* The powers of sums are products.
LEMMA PowerSum ==
  ASSUME NEW a \in Nat
  PROVE  \A b \in Nat : 2^(a + b) = 2^a * 2^b
<1> DEFINE T == {b \in Nat : 2^(a + b) = 2^a * 2^b}
<1>1. 0 \in T
  <2>1. 2^a \in Nat /\ a + 0 = a
    BY PowerNext
  <2> QED BY <2>1, PowerZero
<1>2. ASSUME NEW b \in Nat, b \in T PROVE b + 1 \in T
  <2> DEFINE x == 2^a
             y == 2^b
             z == 2^(a + b)
             u == 2^(b + 1)
             v == 2^((a + b) + 1)
  <2>1. x \in Nat /\ y \in Nat /\ z \in Nat /\ u = 2 * y /\ v = 2 * z /\ a + (b + 1) = (a + b) + 1
    BY PowerNext
  <2>2. z = x * y
    BY <1>2
  <2> HIDE DEF x, y, z, u, v
  <2>3. v = x * u
    BY <2>1, <2>2
  <2>4. 2^(a + (b + 1)) = 2^a * 2^(b + 1)
    BY <2>1, <2>3 DEF u, v, x
  <2> QED BY <2>4
<1> HIDE DEF T
<1>3. Nat \subseteq T
  BY <1>1, <1>2, SetInduction
<1> QED BY <1>3 DEF T

\* Dividing a product by one of its factors.
LEMMA DivOfProduct ==
  ASSUME NEW n \in Nat, n >= 1, NEW k \in Nat
  PROVE  n * k \in Nat /\ (n * k) \div n = k
<1> DEFINE m == n * k
           d == m \div n
           r == m % n
<1>1. m \in Nat
  OBVIOUS
<1>2. d \in Int /\ r \in 0..(n - 1) /\ m = n * d + r
  <2> HIDE DEF m
  <2> QED BY <1>1
<1> HIDE DEF d, r
<1>3. ~(k >= d + 1)
  <2> SUFFICES ASSUME k >= d + 1 PROVE FALSE
    OBVIOUS
  <2>1. n * k >= n * (d + 1)
    BY <1>2
  <2>2. n * (d + 1) = n * d + n /\ n * d \in Int
    BY <1>2
  <2> QED BY <1>1, <1>2, <2>1, <2>2
<1>4. ~(k + 1 =< d)
  <2> SUFFICES ASSUME k + 1 =< d PROVE FALSE
    OBVIOUS
  <2>1. n * d >= n * (k + 1)
    BY <1>2
  <2>2. n * (k + 1) = n * k + n /\ n * d \in Int
    BY <1>2
  <2> QED BY <1>1, <1>2, <2>1, <2>2
<1>5. k = d
  BY <1>2, <1>3, <1>4
<1> QED BY <1>1, <1>5 DEF d

\* They grow.
LEMMA PowerGrows ==
  ASSUME NEW a \in Nat, NEW b \in Nat
  PROVE  /\ a =< b <=> 2^a =< 2^b
         /\ a =< b => 2^b = 2^a * 2^(b - a) /\ 2^b \div 2^a = 2^(b - a)
<1>1. ASSUME NEW i \in Nat, NEW j \in Nat, i =< j PROVE 2^j = 2^i * 2^(j - i)
  <2>1. j - i \in Nat /\ i + (j - i) = j
    BY <1>1
  <2> QED BY <2>1, PowerSum
<1>2. ASSUME NEW i \in Nat, NEW j \in Nat, i =< j PROVE 2^i =< 2^j
  <2> DEFINE x == 2^i
             y == 2^(j - i)
  <2>1. x \in Nat /\ y \in Nat /\ y >= 1
    BY <1>2, PowerNext
  <2>2. 2^j = x * y
    BY <1>1, <1>2
  <2> HIDE DEF x, y
  <2>3. x =< x * y
    <3>1. x * y >= x * 1
      BY <2>1
    <3> QED BY <2>1, <3>1
  <2> QED BY <2>2, <2>3 DEF x
<1>3. ASSUME ~(a =< b) PROVE ~(2^a =< 2^b)
  <2>1. b + 1 =< a /\ b + 1 \in Nat
    BY <1>3
  <2>2. 2^(b + 1) =< 2^a
    BY <1>2, <2>1
  <2>3. 2^(b + 1) = 2 * 2^b /\ 2^b \in Nat /\ 2^b >= 1 /\ 2^a \in Nat
    BY PowerNext
  <2> QED BY <2>2, <2>3
<1>4. ASSUME a =< b PROVE 2^b \div 2^a = 2^(b - a)
  <2> DEFINE x == 2^a
             y == 2^(b - a)
  <2>1. x \in Nat /\ y \in Nat /\ x >= 1
    BY <1>4, PowerNext
  <2>2. 2^b = x * y
    BY <1>1, <1>4
  <2> HIDE DEF x, y
  <2>3. (x * y) \div x = y
    BY <2>1, DivOfProduct
  <2> QED BY <2>2, <2>3 DEF x, y
<1> QED BY <1>1, <1>2, <1>3, <1>4

\* As many times the same.
LEMMA SumConst ==
  ASSUME NEW n \in Nat, NEW k \in Nat, NEW f, \A i \in 1..n : f[i] = k
  PROVE  SumOver(f, Upto(1..n, n)) = n * k
<1> DEFINE B == 1..n
           T == {i \in Nat : i =< n => SumOver(f, Upto(B, i)) = i * k}
<1>1. B \in SUBSET (1..n) /\ (\A h \in B : f[h] \in Nat) /\ \A h \in B : f[h] = k
  OBVIOUS
<1>2. \A i \in Nat : i + 1 \in B <=> i + 1 =< n
  OBVIOUS
<1> HIDE DEF B
<1>3. \A i \in Nat : /\ SumOver(f, Upto(B, 0)) = 0 /\ SumOver(f, Upto(B, i)) \in Nat
                     /\ SumOver(f, Upto(B, i + 1)) = (IF i + 1 \in B THEN f[i + 1] ELSE 0) + SumOver(f, Upto(B, i))
  BY <1>1, SumNext
<1>4. 0 \in T
  BY <1>3
<1>5. ASSUME NEW i \in Nat, i \in T PROVE i + 1 \in T
  <2> SUFFICES ASSUME i + 1 =< n PROVE SumOver(f, Upto(B, i + 1)) = (i + 1) * k
    OBVIOUS
  <2>1. i + 1 \in B /\ f[i + 1] = k /\ SumOver(f, Upto(B, i)) = i * k
    BY <1>2, <1>1, <1>5
  <2>2. SumOver(f, Upto(B, i + 1)) = k + i * k
    BY <1>3, <2>1
  <2>3. k + i * k = (i + 1) * k
    OBVIOUS
  <2> QED BY <2>2, <2>3
<1> HIDE DEF T
<1>6. Nat \subseteq T
  BY <1>4, <1>5, SetInduction
<1> QED BY <1>6 DEF T, B
=============================================================================
