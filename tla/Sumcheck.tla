------------------------------- MODULE Sumcheck ------------------------------
(***************************************************************************)
(* The four sum-check provers of ligesis-pcs on a single machine, and their*)
(* verifiers:                                                              *)
(*   "virtual"    sumcheck/mod.rs, a sum of products of tables;            *)
(*   "ext"        ext_sumcheck.rs, the same with the challenges embedded in *)
(*                the extension field (all of its values are base values);  *)
(*   "arbitrary"  generic_sumcheck.rs, compressed polynomials;             *)
(*   "cubic"      batched_cubic_sumcheck.rs, a sum weighted by eq.         *)
(*                                                                         *)
(* A challenge is any member of Challenges.  It is a function of all that  *)
(* was appended to the transcript before, so a verifier draws the prover's *)
(* challenges exactly when it appends the same things in the same order.   *)
(***************************************************************************)
EXTENDS VirtualPolynomial

CONSTANTS
  Challenges,   \* what the transcript may give
  Tables,       \* the multilinear polynomials (the Arcs of the code), a sequence
  Instances     \* what is proved: its kind; the products that are added and
                \* the factors that they are then multiplied by, of tables by
                \* their numbers; zerocheck_r

VARIABLES
  inst,         \* the instance
  poly,         \* its virtual polynomial: products, and tables by their numbers
  proofs,       \* the prover's messages so far
  point,        \* the challenges so far
  transcript    \* what was appended to the transcript

-----------------------------------------------------------------------------
(* What a party computes in a round.                                       *)

Poly(i) ==
  FoldLeft(LAMBDA vp, f : MulByMle(vp, f.mle, f.coeff),
    FoldLeft(LAMBDA vp, p : AddMleList(vp, p.mles, p.coeff),
             [products |-> <<>>, flattened |-> <<>>], i.added),
    i.factors)

Mles(vp) == [k \in DOMAIN vp.flattened |-> Tables[vp.flattened[k]]]

\* prove_arbitrary_step leaves out the value at 1, which the claim gives.
ArbitraryRound(products, tables) ==
  [t \in 0..MaxDegree(products) |->
     IF t = 1 THEN 0
     ELSE FieldSum(Half(tables), LAMBDA b : Combine(products, Line(tables, b, t)))]

\* compute_cubic and compute_cubic_direct of an instance: no one is in the
\* repository, so the weighted sum that the verifier's equation calls for.
CubicRound(products, tables, eqRow) ==
  [t \in {0, 2} |->
     FieldSum(Half(tables), LAMBDA b : eqRow[b] * Combine(products, Line(tables, b, t)))]

\* What a party computes in a round; eqRow is used by "cubic" only.
LocalRound(kind, products, tables, eqRow) ==
  CASE kind = "virtual"   -> VirtualRound(products, tables)
    [] kind = "ext"       -> ExtRound(products, tables)
    [] kind = "arbitrary" -> ArbitraryRound(products, tables)
    [] kind = "cubic"     -> CubicRound(products, tables, eqRow)

-----------------------------------------------------------------------------
(* From the summed evaluations of a round to the prover's message.         *)

\* In the generic sum-check p(0) + p(1) is the claim.
ArbitraryMessage(evals, claim) == FromEvals([evals EXCEPT ![1] = (claim - evals[0]) % P])

\* Faulty variant: the claim is not scaled.
CubicMessage_Plain(evals, claim, z) ==
  FromEvals([t \in 0..2 |-> IF t = 1 THEN (claim - evals[0]) % P ELSE evals[t]])

\* In the zero-check (1 - z) p(0) + z p(1) is; z is never zero.
CubicMessage(evals, claim, z) ==
  FromEvals([t \in 0..2 |-> IF t = 1 THEN (Inv(z) * (claim - (1 - z) * evals[0])) % P
                            ELSE evals[t]])

Message(kind, evals, claim, z) ==
  CASE kind \in {"virtual", "ext"} -> evals
    [] kind = "arbitrary"          -> ArbitraryMessage(evals, claim)
    [] kind = "cubic"              -> CubicMessage(evals, claim, z)

NextClaim(kind, message, r) ==
  CASE kind = "virtual" -> Interpolate(message, r)
    [] kind = "ext"     -> Lagrange(message, r)
    [] kind \in {"arbitrary", "cubic"} -> Evaluate(message, r)

\* What is appended in a round, the challenge among it.
Appended(kind, message, r) ==
  CASE kind = "virtual" -> <<<<"prover msg", message>>, <<"challenge", r>>>>
    [] kind = "ext"     -> [t \in 1..Size(message) |-> <<"eval", message[t - 1]>>]
                             \o <<<<"challenge", r>>>>
    [] kind \in {"arbitrary", "cubic"} -> <<<<"poly", message>>, <<"challenge", r>>>>

\* Only the virtual polynomial's shape is appended at the start.
Opening(kind, numVars, products) ==
  IF kind = "virtual" THEN <<<<"aux info", numVars, MaxDegree(products)>>>> ELSE <<>>

-----------------------------------------------------------------------------
(* The prover.                                                             *)

NumVars == Log2(Size(Tables[1]))

\* zerocheck_r is written from the highest variable down.
Z(i, round) == i.zerocheck_r[Size(i.zerocheck_r) - 1 - round]

\* The sum that is claimed.
Claimed(kind, z, vp) ==
  LET mles == Mles(vp) IN
  FieldSum(2^NumVars, LAMBDA b :
        (IF kind = "cubic" THEN EvalEq(Reverse0(z), b) ELSE 1)
          * Combine(vp.products, [k \in DOMAIN mles |-> mles[k][b]]))

ClaimAfter(i, vp, msgs, r) ==
  LET n == Len(msgs) IN
  IF n = 0 THEN Claimed(i.kind, i.zerocheck_r, vp) ELSE NextClaim(i.kind, msgs[n], r[n])

Round ==
  LET mles   == Mles(poly)
      tables == BoundAt(mles, point)
      eqRow  == IF inst.kind = "cubic" THEN EqRow(Reverse0(inst.zerocheck_r), 1, Len(point))
                ELSE <<>>
      evals  == LocalRound(inst.kind, poly.products, tables, eqRow)
      msg    == Message(inst.kind, evals, ClaimAfter(inst, poly, proofs, point),
                        IF inst.kind = "cubic" THEN Z(inst, Len(point)) ELSE 0)
  IN  /\ Len(proofs) < NumVars
      /\ \E r \in Challenges :
           /\ proofs' = Append(proofs, msg)
           /\ point' = Append(point, r)
           /\ transcript' = transcript \o Appended(inst.kind, msg, r)
      /\ UNCHANGED <<inst, poly>>

Init ==
  /\ inst \in Instances /\ poly = Poly(inst)
  /\ proofs = <<>> /\ point = <<>>
  /\ transcript = Opening(inst.kind, NumVars, poly.products)

Spec == Init /\ [][Round]_<<inst, poly, proofs, point, transcript>>

-----------------------------------------------------------------------------
(* The verifiers, on the prover's challenges r.  Each gives what it accepts*)
(* and its claim for the point; a compressed polynomial is decompressed    *)
(* with the claim of its round.                                            *)

Checked(i, vp, msgs, r, roundOk(_, _, _)) ==
  LET n == Len(msgs)
      run[k \in 0..n] ==
        IF k = 0 THEN [ok |-> i.kind = "ext" \/ n = NumVars, claim |-> Claimed(i.kind, i.zerocheck_r, vp)]
        ELSE [ok    |-> run[k - 1].ok /\ roundOk(msgs[k], run[k - 1].claim, k - 1),
              claim |-> NextClaim(i.kind, msgs[k], r[k])]
  IN  run[n]

VerifyVirtual(i, vp, msgs, r) ==
  LET c == SumcheckClaim(msgs, Claimed(i.kind, i.zerocheck_r, vp), MaxDegree(vp.products), r) IN
  [c EXCEPT !.ok = @ /\ Len(msgs) = NumVars]

\* ext_sumcheck_verify looks neither at the degree nor at the number of rounds:
\* it takes as many as the proof has.
VerifyExt(i, vp, msgs, r) ==
  Checked(i, vp, msgs, r, LAMBDA m, claim, k : (m[0] + m[1]) % P = claim)

\* SumcheckInstanceProof::verify: the claim is used up in the decompression.
VerifyArbitrary(i, vp, msgs, r) ==
  Checked(i, vp, msgs, r, LAMBDA m, claim, k :
    Decompress(Compress(m), claim) = m /\ Size(m) - 1 = MaxDegree(vp.products))

\* ZerocheckInstanceProof::verify, which takes zerocheck_r from the lowest
\* variable up: its caller has to reverse what the prover was given.
VerifyZerocheck(i, vp, msgs, r) ==
  Checked(i, vp, msgs, r, LAMBDA m, claim, k :
    /\ Size(m) - 1 = 2
    /\ (m[0] + Z(i, k) * FieldSum(Size(m) - 1, LAMBDA j : m[j + 1])) % P = claim)

Verify(i, vp, msgs, r) ==
  CASE i.kind = "virtual"   -> VerifyVirtual(i, vp, msgs, r)
    [] i.kind = "ext"       -> VerifyExt(i, vp, msgs, r)
    [] i.kind = "arbitrary" -> VerifyArbitrary(i, vp, msgs, r)
    [] i.kind = "cubic"     -> VerifyZerocheck(i, vp, msgs, r)

\* What the polynomial is at a point, from the tables as they were given.
ValueAt(i, r) ==
  LET at(t) == EvalMle(Tables[t], r) IN
  (FieldSum(Len(i.added), LAMBDA k :
         i.added[k + 1].coeff * FieldProduct(Len(i.added[k + 1].mles), LAMBDA j : at(i.added[k + 1].mles[j + 1])))
     * FieldProduct(Len(i.factors), LAMBDA k : i.factors[k + 1].coeff * at(i.factors[k + 1].mle))) % P

\* What the verifier appends when it goes through the proof.
Replay(i, vp, msgs, r) ==
  Opening(i.kind, NumVars, vp.products)
    \o FlattenSeq([k \in 1..Len(msgs) |-> Appended(i.kind, msgs[k], r[k])])
=============================================================================
