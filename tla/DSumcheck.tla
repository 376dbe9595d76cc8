------------------------------ MODULE DSumcheck -----------------------------
(***************************************************************************)
(* The distributed sum-checks: d_prove of sumcheck/mod.rs and of           *)
(* ext_sumcheck.rs, d_prove_arbitrary and d_prove_sumcheck.                *)
(*                                                                         *)
(* Every party holds the block of each table whose highest index bits are  *)
(* its number.  In the local rounds each sums over its own block, the      *)
(* master adds the shares up, and sends the challenge back.  Then every    *)
(* table has one entry left at each party; the master collects them and    *)
(* runs the rounds of the party variables alone.                           *)
(*                                                                         *)
(* A round of "virtual" and "ext" binds the challenge of the round before  *)
(* as its first act, one of the others its own as the last: no message is  *)
(* sent in between, so a party's tables are always bound at all the        *)
(* challenges that it has.                                                 *)
(***************************************************************************)
EXTENDS VirtualPolynomial

CONSTANTS Challenges, Tables, Instances, N

Party  == 0..(N - 1)
Worker == 1..(N - 1)

PartyVars == Log2(N)
LocalVars == Log2(Size(Tables[1])) - PartyVars

\* Without a variable for the parties, or one of a party's own, d_prove gives
\* up with an error: prover_init does not prove a constant.
ASSUME PartiesAssumption == N \in Nat \ {0, 1} /\ N = 2^PartyVars
ASSUME LocalAssumption   == LocalVars >= 1

\* interpolate_uni_poly fails at the points the messages are evaluated at: a
\* challenge is one of them with a probability of about degree / 2^64.
ASSUME ChallengeAssumption ==
  Challenges \subseteq Fp /\ \A c \in Challenges, i \in Instances :
    i.kind = "virtual" =>
      \A k \in DOMAIN i.added : Len(i.added[k].mles) + Len(i.factors) < c

VARIABLES
  inst,         \* the instance
  poly,         \* its virtual polynomial
  pc,           \* the call a party is in, or "done"
  challenges,   \* what a worker has received
  proofs,       \* the master's messages so far
  point,        \* its challenges
  transcript,   \* and its transcript
  polys,        \* the master's tables of the party variables
  up, down      \* the messages of each worker to, and from, the master

vars == <<inst, poly, pc, challenges, proofs, point, transcript, polys, up, down>>

D == INSTANCE Sumcheck

-----------------------------------------------------------------------------
(* A party's share of a round.                                             *)

Got(p) == IF p = 0 THEN point ELSE challenges[p]

Block(table, p) ==
  LET n == Size(table) \div N IN Vec(n, LAMBDA j : table[p * n + j])

BoundTables(p) ==
  LET mles == D!Mles(poly) IN
  BoundAt([k \in DOMAIN mles |-> Block(mles[k], p)], Got(p))

\* zerocheck_r, written from the highest variable down: the party's own
\* variables come first in it, and last once it is reversed.
Zero        == Reverse0(inst.zerocheck_r)
IndexVec(p) == [i \in 0..(PartyVars - 1) |-> Bit(p, PartyVars - 1 - i)]

\* Faulty variant: the party's number from its lowest bit up.
EqCoeff_LittleEndian(p) ==
  EvalMleEq(Reverse0(IndexVec(p)), Take(inst.zerocheck_r, PartyVars))

EqCoeff(p) == EvalMleEq(IndexVec(p), Take(inst.zerocheck_r, PartyVars))

LocalRow(p) ==
  IF inst.kind = "cubic" THEN EqRow(Take(Zero, LocalVars), EqCoeff(p), Len(Got(p))) ELSE <<>>

Share(p) == D!LocalRound(inst.kind, poly.products, BoundTables(p), LocalRow(p))

\* What is left of the tables after the local rounds.
FinalEvals(p) == LET t == BoundTables(p) IN [k \in DOMAIN t |-> t[k][0]]

-----------------------------------------------------------------------------
(* The calls.                                                              *)

Becomes(p, call) == pc' = [pc EXCEPT ![p] = call]
AfterRound(got)  == IF got < LocalVars THEN "round" ELSE "final"

CanGather   == \A w \in Worker : up[w] # <<>>
Gather(own) == [p \in Party |-> IF p = 0 THEN own ELSE Head(up[p])]
PopAll      == up' = [w \in Worker |-> Tail(up[w])]

SendUp(w, val) == up' = [up EXCEPT ![w] = Append(@, val)]

WorkerRound(w) ==
  /\ pc[w] = "round"
  /\ SendUp(w, Share(w))
  /\ Becomes(w, "challenge")
  /\ UNCHANGED <<inst, poly, challenges, proofs, point, transcript, polys, down>>

WorkerChallenge(w) ==
  /\ pc[w] = "challenge" /\ down[w] # <<>>
  /\ challenges' = [challenges EXCEPT ![w] = Append(@, Head(down[w]))]
  /\ down' = [down EXCEPT ![w] = Tail(@)]
  /\ Becomes(w, AfterRound(Len(challenges[w]) + 1))
  /\ UNCHANGED <<inst, poly, proofs, point, transcript, polys, up>>

WorkerFinal(w) ==
  /\ pc[w] = "final"
  /\ SendUp(w, FinalEvals(w))
  /\ Becomes(w, "done")
  /\ UNCHANGED <<inst, poly, challenges, proofs, point, transcript, polys, down>>

Added(shares) == [t \in DOMAIN shares[0] |-> FieldSum(N, LAMBDA p : shares[p][t])]

\* The message of a round, and the challenge r after it.
Proceeds(evals, r) ==
  LET z   == IF inst.kind = "cubic" THEN Zero[Len(point)] ELSE 0
      msg == D!Message(inst.kind, evals, D!ClaimAfter(inst, poly, proofs, point), z)
  IN  /\ proofs' = Append(proofs, msg)
      /\ point' = Append(point, r)
      /\ transcript' = transcript \o D!Appended(inst.kind, msg, r)

MasterRound ==
  /\ pc[0] = "round" /\ CanGather
  /\ PopAll
  /\ \E r \in Challenges :
       /\ Proceeds(Added(Gather(Share(0))), r)
       /\ down' = [w \in Worker |-> Append(down[w], r)]
  /\ Becomes(0, AfterRound(Len(point) + 1))
  /\ UNCHANGED <<inst, poly, challenges, polys>>

NewTables(evals) == [k \in DOMAIN evals[0] |-> [p \in Party |-> evals[p][k]]]

MasterFinal ==
  /\ pc[0] = "final" /\ CanGather
  /\ PopAll
  /\ polys' = NewTables(Gather(FinalEvals(0)))
  /\ Becomes(0, "party")
  /\ UNCHANGED <<inst, poly, challenges, proofs, point, transcript, down>>

\* The rounds of the party variables, on the master.
PartyRound ==
  LET done == Len(point) - LocalVars
      row  == IF inst.kind = "cubic" THEN EqRow(Drop(Zero, LocalVars), 1, done) ELSE <<>>
  IN  /\ pc[0] = "party"
      /\ \E r \in Challenges :
           /\ Proceeds(D!LocalRound(inst.kind, poly.products, polys, row), r)
           /\ polys' = [k \in DOMAIN polys |-> BindBot(polys[k], r)]
      /\ IF done + 1 < PartyVars THEN UNCHANGED pc ELSE Becomes(0, "done")
      /\ UNCHANGED <<inst, poly, challenges, up, down>>

-----------------------------------------------------------------------------
Init ==
  /\ inst \in Instances /\ poly = D!Poly(inst)
  /\ pc = [p \in Party |-> "round"]
  /\ challenges = [w \in Worker |-> <<>>]
  /\ proofs = <<>> /\ point = <<>> /\ polys = <<>>
  /\ transcript = D!Opening(inst.kind, LocalVars + PartyVars, poly.products)
  /\ up = [w \in Worker |-> <<>>] /\ down = [w \in Worker |-> <<>>]

MasterRuns    == MasterRound \/ MasterFinal \/ PartyRound
WorkerRuns(w) == WorkerRound(w) \/ WorkerChallenge(w) \/ WorkerFinal(w)
AllDone       == (\A p \in Party : pc[p] = "done") /\ UNCHANGED vars

Next == MasterRuns \/ (\E w \in Worker : WorkerRuns(w)) \/ AllDone
Spec == Init /\ [][Next]_vars

-----------------------------------------------------------------------------
(* Properties.                                                             *)

\* The distributed prover makes the proof of the single machine: the same
\* messages, and the same things appended to the transcript in the same order.
Implements == D!Spec

\* The verifier accepts the proof, appends what the prover has appended, and
\* its claim for the point is the value there of the polynomial as it was put
\* together: what the caller then opens the commitments for.
VerifierAccepts ==
  pc[0] = "done" =>
    LET v == D!Verify(inst, poly, proofs, point) IN
    /\ v.ok
    /\ D!Replay(inst, poly, proofs, point) = transcript
    /\ v.claim = D!ValueAt(inst, AsVec(point))

-----------------------------------------------------------------------------
(* What the helpers compute for the parties has to be what others compute  *)
(* for the verifier, for the codewords and for the points: the same thing  *)
(* along different ways.  Looked at in the initial states, on the tables   *)
(* and on points made of the challenges.                                   *)

AtStart == proofs = <<>> /\ \A p \in Party : pc[p] = "round"
Points(n) == {AsVec(s) : s \in [1..n -> Challenges]}
NumVars   == LocalVars + PartyVars
TablesOf  == {Tables[t] : t \in DOMAIN Tables}
BlocksOf  == {Block(f, p) : f \in TablesOf, p \in Party}

\* Binding from the lowest variable up, from the highest down and summing
\* against the tensor evaluate a table at one and the same point; the equality
\* tables are tensors, built from the other end, and so is a row of the code's
\* generator matrix, by halves; the coefficients that a
\* codeword is made of give the table's values back and the value at a point.
MultilinearAgree ==
  AtStart =>
    \A r \in Points(NumVars) :
      /\ \A f \in TablesOf :
           /\ FixFromBot(f, r)[0] = EvalMle(f, r)
           /\ FixLastVariables(f, r)[0] = EvalMle(f, r)
           /\ LET c == EvalsToCoeffs(NumVars, f) IN
              /\ CoeffsToEvals(NumVars, c) = f
              /\ EvalMle(f, r)
                   = FieldSum(2^NumVars, LAMBDA x :
                       c[x] * FieldProduct(NumVars, LAMBDA i : IF Bit(x, i) = 1 THEN r[i] ELSE 1))
      /\ BuildEqXR(r) = Tensor(r)
      /\ \A k \in 0..(NumVars - 1) : EqRow(r, 1, k) = Tensor(Drop(r, k + 1))
      /\ \A g \in Fp : Power(g, 4) = 1 =>
           AlphaMatG(2, g, Take(r, 2))[2]
             = Vec(4, LAMBDA i : FieldSum(4, LAMBDA j : Power(g, i * j) * Tensor(Take(r, 2))[j]))

\* The value at a point of the polynomial with given values at 0, 1, 2, ... is
\* the same by Lagrange, by the coefficients from the elimination and, where it
\* is not one of these points, by the code's two shorter formulas; a compressed polynomial is restored by its claim; a
\* quotient and a remainder make up the dividend.
UnivariateAgree ==
  AtStart =>
    \A f \in TablesOf : \A n \in 2..4 :
      LET evals  == Take(f, n)
          coeffs == FromEvals(evals)
      IN  /\ \A z \in Fp : Evaluate(coeffs, z) = Lagrange(evals, z)
          /\ \A z \in n..(P - 1) :
               /\ Extrapolate(evals, z) = Lagrange(evals, z)
               /\ Interpolate(evals, z) = Lagrange(evals, z)
          /\ Decompress(Compress(coeffs), evals[0] + evals[1]) = coeffs
          /\ \A dividend \in {Trim(Take(f, 6))}, divisor \in {Trim(evals)} \ {<<>>} :
               LET q == DivideWithRemainder(dividend, divisor) IN
               /\ Size(q.rem) < Size(divisor)
               /\ \A z \in Fp :
                    Evaluate(dividend, z)
                      = (Evaluate(q.quot, z) * Evaluate(divisor, z) + Evaluate(q.rem, z)) % P

\* For the right value of f at a point of the extension the reduced sum is
\* zero, and for the value of its polynomial at a point s the verifier gets
\* f(s) back, unless its denominator is zero.
ReductionExact ==
  AtStart =>
    \A f \in BlocksOf : \A a, b \in Points(LocalVars) : \A lambda \in Challenges :
      LET v    == EvalMleAtExt(f, a, b)
          eq   == EqMles(a, b)
          mles == ReductionMles(f, v, eq, lambda)
          at(s) == [k \in DOMAIN mles |-> EvalMle(mles[k], s)]
      IN  /\ FieldSum(Size(f), LAMBDA x :
                 Combine(ReductionProducts(v), [k \in DOMAIN mles |-> mles[k][x]])) = 0
          /\ \A s \in {a, b} :
               ReductionDenominator(eq, lambda, s) # 0 =>
                 ReducedValue(Combine(ReductionProducts(v), at(s)), v, eq, lambda, s)
                   = EvalMle(f, s)
=============================================================================
