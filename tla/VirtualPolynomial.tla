--------------------------- MODULE VirtualPolynomial -------------------------
(***************************************************************************)
(* Sums of products of multilinear polynomials, and the sum-check that the *)
(* commitment schemes use (PolyIOP): the rounds of its prover, as functions*)
(* of the tables and the challenges, and its verifier.                     *)
(***************************************************************************)
EXTENDS ExtField, SequencesExt

-----------------------------------------------------------------------------
(* VirtualPolynomial: a sum of coeff * (product of mles).  A table that is *)
(* used twice is stored once, and bound once a round.                      *)

\* Where a table is stored: it is looked up by its address.
Place(flattened, mle) ==
  IF mle \in {flattened[k] : k \in DOMAIN flattened}
  THEN CHOOSE k \in DOMAIN flattened : flattened[k] = mle
  ELSE Len(flattened) + 1

Store(flattened, mle) ==
  IF Place(flattened, mle) > Len(flattened) THEN Append(flattened, mle) ELSE flattened

AddMleList(vp, mles, coeff) ==
  LET all == FoldLeft(Store, vp.flattened, mles) IN
  [products  |-> Append(vp.products,
                   [coeff |-> coeff, mles |-> [j \in DOMAIN mles |-> Place(all, mles[j])]]),
   flattened |-> all]

\* Faulty variant: the products keep their coefficients.
MulByMle_NoCoeff(vp, mle, coeff) ==
  LET all == Store(vp.flattened, mle) IN
  [products  |-> [k \in DOMAIN vp.products |->
                    [vp.products[k] EXCEPT !.mles = Append(@, Place(all, mle))]],
   flattened |-> all]

MulByMle(vp, mle, coeff) ==
  LET all == Store(vp.flattened, mle) IN
  [products  |-> [k \in DOMAIN vp.products |->
                    [coeff |-> (vp.products[k].coeff * coeff) % P,
                     mles  |-> Append(vp.products[k].mles, Place(all, mle))]],
   flattened |-> all]

MaxDegree(products) ==
  CHOOSE d \in {Len(products[k].mles) : k \in DOMAIN products} :
    \A k \in DOMAIN products : Len(products[k].mles) =< d

Combine(products, at) ==
  FieldSum(Len(products), LAMBDA k :
        products[k + 1].coeff
          * FieldProduct(Len(products[k + 1].mles), LAMBDA j : at[products[k + 1].mles[j + 1]]))

\* All tables on the line through entries 2b and 2b + 1.
Line(tables, b, t) == [k \in DOMAIN tables |-> Along(tables[k][2 * b], tables[k][2 * b + 1], t)]
Half(tables)       == Size(tables[1]) \div 2

ProductSum(product, tables, t) ==
  FieldSum(Half(tables), LAMBDA b : Combine(<<product>>, Line(tables, b, t)))

\* A product of a lower degree is evaluated as far as that and extrapolated.
ProductAt(product, tables, t) ==
  LET n == Len(product.mles) IN
  IF t =< n THEN ProductSum(product, tables, t)
  ELSE Extrapolate([i \in 0..n |-> ProductSum(product, tables, i)], t)

\* prove_round_and_update_state
VirtualRound(products, tables) ==
  [t \in 0..MaxDegree(products) |->
     FieldSum(Len(products), LAMBDA k : ProductAt(products[k + 1], tables, t))]

\* ExtSumCheckProverState::prove_round: every product up to the same degree.
ExtRound(products, tables) ==
  [t \in 0..MaxDegree(products) |->
     FieldSum(Len(products), LAMBDA k : ProductSum(products[k + 1], tables, t))]

\* Every table bound at the challenges so far.
BoundAt(mles, r) ==
  FoldLeft(LAMBDA bound, m : Append(bound, FixFromBot(m, AsVec(r))), <<>>, mles)

-----------------------------------------------------------------------------
(* The whole of a sum-check of one machine, with the challenges r.         *)

Draw(label, val) == <<label, val>>

\* The messages of PolyIOP::prove, and what it appends to the transcript.
SumcheckMessages(products, tables, r) ==
  [k \in 1..Len(r) |-> VirtualRound(products, BoundAt(tables, SubSeq(r, 1, k - 1)))]

SumcheckAppends(msgs, r) ==
  <<Draw("aux info", <<Len(msgs), Size(msgs[1]) - 1>>)>>
    \o FlattenSeq([k \in 1..Len(msgs) |-> <<Draw("prover msg", msgs[k]), Draw("challenge", r[k])>>])

\* extract_sum
SumOf(msgs) == (msgs[1][0] + msgs[1][1]) % P

\* check_and_generate_subclaim: what is accepted of a sum, and the claim for r.
SumcheckClaim(msgs, sum, degree, r) ==
  LET claim[k \in 0..Len(msgs)] ==
        IF k = 0 THEN sum ELSE Interpolate(msgs[k], r[k])
  IN  [ok    |-> \A k \in 1..Len(msgs) :
                   Size(msgs[k]) = degree + 1 /\ (msgs[k][0] + msgs[k][1]) % P = claim[k - 1],
       claim |-> claim[Len(msgs)]]
=============================================================================
