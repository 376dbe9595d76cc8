---------------------------- MODULE DChunkedBatch ----------------------------
(***************************************************************************)
(* The distributed batch commitment: d_chunked_batch_commit and            *)
(* d_multi_chunked_batch_open_at_ext_point, with the distributed sumcheck  *)
(* (PolyIOP::d_prove) and d_query_merkle_proof that the opening calls.     *)
(*                                                                         *)
(* Every party has a portion of each polynomial.  A portion of at least a  *)
(* chunk is cut into chunks where it is; smaller ones go to the master.    *)
(* The master puts the rows of all the chunks in the order of one machine  *)
(* and hands the columns out; every party hashes its columns and keeps     *)
(* the tree of them, and the master the upper tree.                        *)
(*                                                                         *)
(* As in DDeepFold the two branches of am_master must make the same calls  *)
(* in the same order, here over several commitments, a sumcheck whose      *)
(* length every party works out for itself, and rounds that are spread or  *)
(* not without anybody saying so.                                          *)
(***************************************************************************)
EXTENDS MerkleTree, SequencesExt

CONSTANTS
  N,              \* the number of parties
  LocalVars,      \* for every commitment, num_vars of the portions
  BaseMu, Rate, S, Betas,
  PointToCommit,  \* point_to_commit, the master's argument
  PointToPoly     \* point_to_poly

Party   == 0..(N - 1)
Worker  == 1..(N - 1)
Commits == DOMAIN LocalVars
Points  == DOMAIN PointToCommit
LenL0   == 2^BaseMu * Rate

ASSUME SizesAssumption == {N, BaseMu, Rate, S} \subseteq Nat \ {0}
ASSUME QueryAssumption == Betas \subseteq 0..(LenL0 - 1)
\* run.py asks for a power of two.
ASSUME PowerAssumption == \E k \in 0..N : N = 2^k
\* The shape of the arguments, and the assertions at the head of the two functions.
ASSUME TypesAssumption == LocalVars \in Seq(Seq(Nat)) /\ PointToCommit \in Seq(Nat)
ASSUME CallAssumption ==
  /\ LocalVars # <<>> /\ \A c \in Commits : LocalVars[c] # <<>>
  /\ DOMAIN PointToPoly = Points
  /\ \A k \in Points : PointToCommit[k] \in Commits /\ PointToPoly[k] \in DOMAIN LocalVars[PointToCommit[k]]
\* Every party has a column, and the sumcheck has a round before the parties'
\* shares are single values: d_prove unwraps the challenge of the last one.
ASSUME WorkAssumption ==
  /\ LenL0 >= N
  /\ 2^BaseMu > N \/ \E k \in Points : LocalVars[PointToCommit[k]][PointToPoly[k]] > 0

num_party_vars == Log2Up(N)
ColsPerParty   == LenL0 \div N

VARIABLES
  pc,              \* the call a party is in, or "done"
  commit,          \* the commitment that is made, or opened
  round,           \* the round of the sumcheck, or of the folding
  queries,         \* t, the queries a party has done
  chunks_per_poly, \* what each party's advices say, by commitment
  columns,         \* the columns each party has hashed, by commitment
  total_chunks,    \* what each party takes for the length of a column
  to_poly, to_commit, \* what each party takes for the targets of the points
  poly,            \* the master's place in the list of polynomials
  master_chunks,   \* the chunks of the small polynomials of this commitment
  all_v0, all_f0,  \* what the first two gathers have brought
  v0_matrix, f0_matrix, chunk_polys, \* the master's advices, by commitment
  upper_tree,      \* the master's upper trees, by commitment
  commitments,
  sums,            \* the contributions that the master has added up so far
  mt,              \* the master's trees of the folded codewords
  beta, column_values, mt0_proofs, \* the current query and its answers
  proofs,
  up, down         \* the messages of each worker to, and from, the master

control    == <<commit, round, queries>>
advices    == <<chunks_per_poly, columns, total_chunks>>
targets    == <<to_poly, to_commit>>
assembling == <<poly, master_chunks, all_v0, all_f0>>
committed  == <<v0_matrix, f0_matrix, chunk_polys, upper_tree, commitments>>
opening    == <<sums, mt>>
answering  == <<beta, column_values, mt0_proofs, proofs>>
vars == <<pc, control, advices, targets, assembling, committed, opening, answering, up, down>>

FullVars == [c \in Commits |-> [q \in DOMAIN LocalVars[c] |-> LocalVars[c][q] + num_party_vars]]
mt_roots == [i \in DOMAIN mt |-> Root(mt[i])]

\* The prover of a single machine, which has the whole polynomials.
D == INSTANCE ChunkedBatch WITH NumVars <- FullVars

-----------------------------------------------------------------------------
(* Messages.  The type is what the receiver deserializes the bytes as.     *)

Msg(type, val) == [type |-> type, val |-> val]

\* What a party that waits in the call named pc takes the next message for.
Expects ==
  [total |-> "usize", columns |-> "elements", points |-> "points", to_poly |-> "indices",
   to_commit |-> "indices", claimed |-> "values", gamma |-> "field", challenge |-> "field",
   proof |-> "sumcheck proof", gamma_combined |-> "elements", combined_v0 |-> "elements",
   combined_evals |-> "values", alpha |-> "field", r |-> "field", beta |-> "usize",
   position |-> "usize"]

\* The gathers of the master, by the call it is in.
Gathers ==
  [small |-> "elements", v0 |-> "matrix", f0 |-> "matrix", evals |-> "matrix", roots |-> "digest",
   claims |-> "values", sumcheck |-> "round", final |-> "elements", sum_evals |-> "values",
   leaves |-> "digests", column |-> "elements", local_proof |-> "digests", hash |-> "digest"]

SendUp(w, msgs) == up' = [up EXCEPT ![w] = @ \o msgs]
SendDown(msgs)  == down' = [w \in Worker |-> down[w] \o msgs[w]]
Uniform(msgs)   == SendDown([w \in Worker |-> msgs])
Arrived(w)      == down[w] # <<>>
Incoming(w)     == Head(down[w]).val
Becomes(p, call) == pc' = [pc EXCEPT ![p] = call]
Receive(w, call) ==
  /\ pc[w] = call /\ Arrived(w) /\ Head(down[w]).type = Expects[call]
  /\ down' = [down EXCEPT ![w] = Tail(@)]

\* The master's gather: one message of every worker, its own slot filled in.
CanGather   == \A w \in Worker : up[w] # <<>>
Gather(own) == [p \in Party |-> IF p = 0 THEN own ELSE Head(up[p]).val]
Gathered(call) ==
  /\ pc[0] = call /\ CanGather
  /\ \A w \in Worker : Head(up[w]).type = Gathers[call]
  /\ up' = [w \in Worker |-> Tail(up[w])]

-----------------------------------------------------------------------------
(* d_chunked_batch_commit: what a party does with its own portions.        *)

IsLarge(c, q) == LocalVars[c][q] >= BaseMu

\* Faulty variant: a portion of exactly one chunk is sent to the master, too.
Small_AtMost(c) == {q \in DOMAIN LocalVars[c] : LocalVars[c][q] =< BaseMu}

\* The polynomials whose portions a worker sends to the master.
Small(c) == {q \in DOMAIN LocalVars[c] : ~IsLarge(c, q)}

\* The party's number is the high bits of the position.
Portion(p, c, q) ==
  LET n == 2^LocalVars[c][q] IN Slice(D!Evals(c, q), p * n, (p + 1) * n)

\* local_chunks, and the rows computed from them.
LocalChunks(p, c) ==
  FlattenSeq([q \in DOMAIN LocalVars[c] |->
    IF IsLarge(c, q) THEN D!Split(Portion(p, c, q)) ELSE <<>>])

Coeffs(chunk)    == [coeffs_of |-> chunk]
RowsOf(chunks)   == [j \in DOMAIN chunks |-> D!Row(chunks[j])]
CoeffsOf(chunks) == [j \in DOMAIN chunks |-> Coeffs(chunks[j])]

\* The chunks of a large polynomial: as many at every party.
LargeCount(c, q) == N * Len(D!Split(Portion(0, c, q)))

\* Faulty variant: a worker counts the chunks of its portion.
SmallCount_Local(c, q) == IF LocalVars[c][q] =< BaseMu THEN 1 ELSE 2^(LocalVars[c][q] - BaseMu)

\* How many chunks a worker takes a polynomial for that only the master has.
SmallCount(c, q) == IF FullVars[c][q] =< BaseMu THEN 1 ELSE 2^(FullVars[c][q] - BaseMu)

\* Its portions that are smaller than a chunk, in the order of the polynomials.
SmallPortions(w, c) ==
  FlattenSeq([q \in DOMAIN LocalVars[c] |->
    IF q \in Small(c) THEN <<Msg("elements", Portion(w, c, q))>> ELSE <<>>])

\* All that a worker sends before it waits for the master's answer.
WorkerCommits(w) ==
  LET c      == commit[w]
      chunks == LocalChunks(w, c)
  IN  /\ pc[w] = "commit"
      /\ SendUp(w, SmallPortions(w, c)
                     \o <<Msg("matrix", RowsOf(chunks)), Msg("matrix", CoeffsOf(chunks)),
                          Msg("matrix", chunks)>>)
      /\ chunks_per_poly' = [chunks_per_poly EXCEPT ![w] = Append(@,
           [q \in DOMAIN LocalVars[c] |-> IF IsLarge(c, q) THEN LargeCount(c, q) ELSE SmallCount(c, q)])]
      /\ Becomes(w, "total")
      /\ UNCHANGED <<control, columns, total_chunks, targets, assembling, committed, opening,
                     answering, down>>

-----------------------------------------------------------------------------
(* d_chunked_batch_commit: the master assembles.                           *)

\* The loop over the polynomials: counts is what it knows of their chunks.
MasterCounts(count) ==
  LET c    == commit[0]
      more == IF poly = 1 THEN Append(chunks_per_poly[0], <<count>>)
              ELSE [chunks_per_poly[0] EXCEPT ![c] = Append(@, count)]
  IN  /\ chunks_per_poly' = [chunks_per_poly EXCEPT ![0] = more]
      /\ poly' = poly + 1
      /\ UNCHANGED <<control, columns, total_chunks, targets, all_v0, all_f0, committed, opening,
                     answering, down>>

MasterSplits ==
  /\ pc[0] = "commit" /\ poly \in DOMAIN LocalVars[commit[0]] /\ IsLarge(commit[0], poly)
  /\ MasterCounts(LargeCount(commit[0], poly))
  /\ UNCHANGED <<pc, master_chunks, up>>

\* send_to_master of a small polynomial: the master has its own portion.
MasterWaits ==
  /\ pc[0] = "commit"
  /\ IF poly \in DOMAIN LocalVars[commit[0]]
     THEN ~IsLarge(commit[0], poly) /\ Becomes(0, "small")
     ELSE Becomes(0, "v0")
  /\ UNCHANGED <<control, advices, targets, assembling, committed, opening, answering, up, down>>

MasterGathersSmall ==
  LET chunks == D!Split(Concat(Gather(Portion(0, commit[0], poly)))) IN
  /\ Gathered("small")
  /\ master_chunks' = master_chunks \o chunks
  /\ MasterCounts(Len(chunks))
  /\ Becomes(0, "commit")

MasterGathersV0 ==
  /\ Gathered("v0")
  /\ all_v0' = Gather(RowsOf(LocalChunks(0, commit[0])))
  /\ Becomes(0, "f0")
  /\ UNCHANGED <<control, advices, targets, poly, master_chunks, all_f0, committed, opening,
                 answering, down>>

MasterGathersF0 ==
  /\ Gathered("f0")
  /\ all_f0' = Gather(CoeffsOf(LocalChunks(0, commit[0])))
  /\ Becomes(0, "evals")
  /\ UNCHANGED <<control, advices, targets, poly, master_chunks, all_v0, committed, opening,
                 answering, down>>

\* The chunks of some of the polynomials.
ChunksOf(counts, polys) == MapThenSumSet(LAMBDA h : counts[h], polys)

\* The entries of the polynomials of a commitment in their order: those of a
\* small one from the master's list, those of a large one party by party.
Assemble(c, ofMaster, ofParty) ==
  LET counts == chunks_per_poly[0][c]
      local  == [h \in DOMAIN counts |-> counts[h] \div N]
      Before(q) == 1..(q - 1)
      Entries(q) ==
        IF ~IsLarge(c, q)
        THEN LET offset == ChunksOf(counts, Before(q) \cap Small(c))
             IN  SubSeq(ofMaster, offset + 1, offset + counts[q])
        ELSE LET offset == ChunksOf(local, Before(q) \ Small(c))
             IN  FlattenSeq([k \in 1..N |-> SubSeq(ofParty[k - 1], offset + 1, offset + local[q])])
  IN  FlattenSeq([q \in DOMAIN LocalVars[c] |-> Entries(q)])

\* Faulty variant: the rows stay in the order they have come in.
CombinedV0_AsTheyCome(c) ==
  RowsOf(master_chunks) \o FlattenSeq([k \in 1..N |-> all_v0[k - 1]])

CombinedV0(c) == Assemble(c, RowsOf(master_chunks), all_v0)

\* Faulty variant: the party's columns are spread over the matrix.
ColumnData_Strided(k, rows) ==
  LET total == Len(rows) IN
  [m \in 0..(ColsPerParty * total - 1) |->
     D!Elem(rows[(m % total) + 1], k + N * (m \div total))]

\* The columns of party k, one after another in one vector.
ColumnData(k, rows) ==
  LET total == Len(rows) IN
  [m \in 0..(ColsPerParty * total - 1) |->
     D!Elem(rows[(m % total) + 1], k * ColsPerParty + (m \div total))]

ToColumns(data, total) ==
  [i \in 0..(ColsPerParty - 1) |-> [j \in 1..total |-> data[i * total + (j - 1)]]]

\* The third gather; then the columns are handed out.
MasterAssembles ==
  LET c    == commit[0]
      rows == CombinedV0(c)
  IN  /\ Gathered("evals")
      /\ v0_matrix' = Append(v0_matrix, rows)
      /\ f0_matrix' = Append(f0_matrix, Assemble(c, CoeffsOf(master_chunks), all_f0))
      /\ chunk_polys' = Append(chunk_polys, Assemble(c, master_chunks, Gather(LocalChunks(0, c))))
      /\ total_chunks' = [total_chunks EXCEPT ![0] = Len(rows)]
      /\ columns' = [columns EXCEPT ![0] = Append(@, ToColumns(ColumnData(0, rows), Len(rows)))]
      /\ SendDown([w \in Worker |->
           <<Msg("usize", Len(rows)), Msg("elements", ColumnData(w, rows))>>])
      /\ poly' = 1 /\ master_chunks' = <<>> /\ all_v0' = <<>> /\ all_f0' = <<>>
      /\ Becomes(0, "roots")
      /\ UNCHANGED <<control, chunks_per_poly, targets, upper_tree, commitments, opening, answering>>

ColumnHashes(p, c) == [i \in 0..(ColsPerParty - 1) |-> HashRow(columns[p][c][i])]
LocalTree(p, c)    == D!ColumnTree(ColumnHashes(p, c))

\* A party goes on to its next commitment, or to the opening.
NextCommit(p, open) ==
  /\ commit' = [commit EXCEPT ![p] = IF @ < Len(LocalVars) THEN @ + 1 ELSE 1]
  /\ Becomes(p, IF commit[p] < Len(LocalVars) THEN "commit" ELSE open)

WorkerTotal(w) ==
  /\ Receive(w, "total")
  /\ total_chunks' = [total_chunks EXCEPT ![w] = Incoming(w)]
  /\ Becomes(w, "columns")
  /\ UNCHANGED <<control, chunks_per_poly, columns, targets, assembling, committed, opening,
                 answering, up>>

\* Hash the columns and send the root of their tree.
WorkerColumns(w) ==
  LET mine   == ToColumns(Incoming(w), total_chunks[w])
      hashes == [i \in 0..(ColsPerParty - 1) |-> HashRow(mine[i])]
  IN  /\ Receive(w, "columns")
      /\ columns' = [columns EXCEPT ![w] = Append(@, mine)]
      /\ SendUp(w, <<Msg("digest", Root(D!ColumnTree(hashes)))>>)
      /\ NextCommit(w, "points")
      /\ UNCHANGED <<round, queries, chunks_per_poly, total_chunks, targets, assembling, committed,
                     opening, answering>>

MasterRoots ==
  LET c    == commit[0]
      tree == D!ColumnTree(Gather(Root(LocalTree(0, c))))
  IN  /\ Gathered("roots")
      /\ upper_tree' = Append(upper_tree, tree)
      /\ commitments' = Append(commitments,
           D!Commitment(Root(tree), chunks_per_poly[0][c], total_chunks[0]))
      /\ NextCommit(0, "open")
      /\ UNCHANGED <<round, queries, advices, targets, assembling, v0_matrix, f0_matrix, chunk_polys,
                     opening, answering, down>>

-----------------------------------------------------------------------------
(* d_multi_chunked_batch_open_at_ext_point: the claims and the sumcheck.   *)

MasterOpens ==
  /\ pc[0] = "open"
  /\ Uniform(<<Msg("points", Points), Msg("indices", PointToPoly), Msg("indices", PointToCommit)>>)
  /\ to_poly' = [to_poly EXCEPT ![0] = PointToPoly]
  /\ to_commit' = [to_commit EXCEPT ![0] = PointToCommit]
  /\ Becomes(0, "claims")
  /\ UNCHANGED <<control, advices, assembling, committed, opening, answering, up>>

\* Faulty variant: the polynomials are taken for those of the first commitment.
Share_First(p, k) == <<p, 1, to_poly[p][k]>>

\* What party p has of the polynomial that point k is about.
Share(p, k) == <<p, to_commit[p][k], to_poly[p][k]>>

\* What party p contributes to a sum, one entry for every point or, in the
\* sumcheck, one term of the virtual polynomial for every point.
Addend(p, sum) == [sum |-> sum, of |-> [k \in DOMAIN to_commit[p] |-> Share(p, k)]]

\* max_local_num_vars, the rounds of the sumcheck that take all the parties.
SumcheckRounds(p) ==
  Max({BaseMu} \cup {FullVars[to_commit[p][k]][to_poly[p][k]] : k \in DOMAIN to_commit[p]})
    - num_party_vars

\* The master adds up what it has gathered.
AddsUp(call, sum) ==
  /\ Gathered(call)
  /\ sums' = Append(sums, Gather(Addend(0, sum)))

MasterClaims ==
  /\ AddsUp("claims", <<"claims">>)
  /\ Uniform(<<Msg("values", "claimed_values"), Msg("field", "gamma")>>)
  /\ Becomes(0, "sumcheck")
  /\ UNCHANGED <<control, advices, targets, assembling, committed, mt, answering>>

\* A round of PolyIOP::d_prove; after the last the parties' evaluations.
MasterSumcheck ==
  LET i == round[0] + 1 IN
  /\ AddsUp("sumcheck", <<"round", i>>)
  /\ Uniform(<<Msg("field", "Internal round")>>)
  /\ round' = [round EXCEPT ![0] = i]
  /\ Becomes(0, IF i < SumcheckRounds(0) THEN "sumcheck" ELSE "final")
  /\ UNCHANGED <<commit, queries, advices, targets, assembling, committed, mt, answering>>

\* The master finishes the sumcheck alone.
MasterFinalEvals ==
  /\ AddsUp("final", <<"final">>)
  /\ Uniform(<<Msg("sumcheck proof", "proof")>>)
  /\ round' = [round EXCEPT ![0] = 1]
  /\ Becomes(0, "sum_evals")
  /\ UNCHANGED <<commit, queries, advices, targets, assembling, committed, mt, answering>>

MasterSumEvals ==
  /\ AddsUp("sum_evals", <<"evals">>)
  /\ Uniform(<<Msg("elements", "gamma_combined"), Msg("elements", "combined_v0"),
               Msg("values", "combined_evals_ext")>>)
  /\ Becomes(0, "round")
  /\ UNCHANGED <<control, advices, targets, assembling, committed, mt, answering>>

WorkerToPoly(w) ==
  /\ Receive(w, "to_poly")
  /\ to_poly' = [to_poly EXCEPT ![w] = Incoming(w)]
  /\ Becomes(w, "to_commit")
  /\ UNCHANGED <<control, advices, to_commit, assembling, committed, opening, answering, up>>

Unmoved == UNCHANGED <<advices, assembling, committed, opening, answering>>

\* The targets are known: contribute to the claims.
WorkerClaims(w) ==
  /\ Receive(w, "to_commit")
  /\ to_commit' = [to_commit EXCEPT ![w] = Incoming(w)]
  /\ SendUp(w, <<Msg("values", [sum |-> <<"claims">>,
                     of |-> [k \in DOMAIN Incoming(w) |-> <<w, Incoming(w)[k], to_poly[w][k]>>]])>>)
  /\ Becomes(w, "claimed")
  /\ Unmoved /\ UNCHANGED <<control, to_poly>>

WorkerGamma(w) ==
  /\ Receive(w, "gamma")
  /\ SendUp(w, <<Msg("round", Addend(w, <<"round", 1>>))>>)
  /\ Becomes(w, "challenge")
  /\ Unmoved /\ UNCHANGED <<control, targets>>

WorkerChallenge(w) ==
  LET i == round[w] + 1 IN
  /\ Receive(w, "challenge")
  /\ \/ /\ i < SumcheckRounds(w)
        /\ SendUp(w, <<Msg("round", Addend(w, <<"round", i + 1>>))>>)
        /\ round' = [round EXCEPT ![w] = i]
        /\ UNCHANGED pc
     \/ /\ i >= SumcheckRounds(w)
        /\ SendUp(w, <<Msg("elements", Addend(w, <<"final">>))>>)
        /\ round' = [round EXCEPT ![w] = 1]
        /\ Becomes(w, "proof")
  /\ Unmoved /\ UNCHANGED <<commit, queries, targets>>

WorkerSumEvals(w) ==
  /\ Receive(w, "proof")
  /\ SendUp(w, <<Msg("values", Addend(w, <<"evals">>))>>)
  /\ Becomes(w, "gamma_combined")
  /\ Unmoved /\ UNCHANGED <<control, targets>>

\* What a worker is told and does nothing about, and the call it is in then.
Then == [points |-> "to_poly", claimed |-> "gamma", gamma_combined |-> "combined_v0",
         combined_v0 |-> "combined_evals", combined_evals |-> "alpha", alpha |-> "r",
         beta |-> "position"]

WorkerHears(w) ==
  /\ \E call \in DOMAIN Then : Receive(w, call) /\ Becomes(w, Then[call])
  /\ Unmoved /\ UNCHANGED <<control, targets, up>>

-----------------------------------------------------------------------------
(* The folding rounds.                                                     *)

NumLeavesOf(i) == D!L(i) \div LeafSizeOf(D!L(i))

\* A round with a leaf for everybody, which every party finds out for itself.
IsSpread(i) == D!HasTree(i) /\ NumLeavesOf(i) >= N

\* The leaves that party p hashes.
LeavesOf(p, i) ==
  LET per == NumLeavesOf(i) \div N IN
  [k \in 0..(per - 1) |->
     HashRow(LeafElements(D!V(i), p * per + k, NumLeavesOf(i), LeafSizeOf(D!L(i))))]

Challenges == Uniform(<<Msg("field", "alpha"), Msg("field", "r")>>)

\* The end of a round: the next one, or the queries.
MasterRounds(tree) ==
  /\ mt' = mt \o tree
  /\ round' = [round EXCEPT ![0] = @ + 1]
  /\ Becomes(0, IF round[0] < BaseMu THEN "round" ELSE "query")
  /\ UNCHANGED <<commit, queries, advices, targets, assembling, committed, sums, answering>>

MasterSpreads ==
  /\ pc[0] = "round" /\ IsSpread(round[0])
  /\ Challenges
  /\ Becomes(0, "leaves")
  /\ UNCHANGED <<control, advices, targets, assembling, committed, opening, answering, up>>

MasterLeaves ==
  /\ Gathered("leaves")
  /\ MasterRounds(<<WithLeafSize(Concat(Gather(LeavesOf(0, round[0]))), LeafSizeOf(D!L(round[0])))>>)
  /\ UNCHANGED down

MasterKeeps ==
  /\ pc[0] = "round" /\ ~IsSpread(round[0])
  /\ Challenges
  /\ MasterRounds(IF D!HasTree(round[0]) THEN <<BuildTree(D!V(round[0]))>> ELSE <<>>)
  /\ UNCHANGED up

WorkerRound(w) ==
  LET i == round[w] IN
  /\ Receive(w, "r")
  /\ IF IsSpread(i) THEN SendUp(w, <<Msg("digests", LeavesOf(w, i))>>) ELSE UNCHANGED up
  /\ round' = [round EXCEPT ![w] = @ + 1]
  /\ Becomes(w, IF i < BaseMu THEN "alpha" ELSE "beta")
  /\ Unmoved /\ UNCHANGED <<commit, queries, targets>>

-----------------------------------------------------------------------------
(* The queries: d_query_merkle_proof for every commitment.                 *)

OwnerOf(position) == position \div ColsPerParty

Nothing == [column |-> <<>>, proof |-> <<>>, hash |-> Zero]

\* What party p has to say of a position: the master finds the column in its
\* matrix of rows, a worker among its columns.
LocalAnswer(p, c, position) ==
  LET i == position % ColsPerParty IN
  IF OwnerOf(position) # p THEN Nothing
  ELSE [column |-> IF p = 0 THEN D!Column(v0_matrix[c], position) ELSE columns[p][c][i],
        proof  |-> Prove(LocalTree(p, c), i),
        hash   |-> ColumnHashes(p, c)[i]]

Master == LocalAnswer(0, commit[0], beta)

AskPosition(b) == <<Msg("usize", b)>>

MasterQuery ==
  /\ pc[0] = "query" /\ queries[0] < S
  /\ \E b \in Betas : beta' = b /\ Uniform(<<Msg("usize", b)>> \o AskPosition(b))
  /\ Becomes(0, "column")
  /\ UNCHANGED <<control, advices, targets, assembling, committed, opening, column_values, mt0_proofs,
                 proofs, up>>

MasterColumn ==
  /\ Gathered("column")
  /\ column_values' = Gather(Master.column)[OwnerOf(beta)]
  /\ Becomes(0, "local_proof")
  /\ UNCHANGED <<control, advices, targets, assembling, committed, opening, beta, mt0_proofs, proofs,
                 down>>

\* Faulty variant: the upper part first.
CombinedProof_UpperFirst(local, c) == Prove(upper_tree[c], OwnerOf(beta)) \o local

\* The part of the owner, then the way up from its root.
CombinedProof(local, c) == local \o Prove(upper_tree[c], OwnerOf(beta))

MasterLocalProof ==
  LET local == Gather(Master.proof)[OwnerOf(beta)] IN
  /\ Gathered("local_proof")
  /\ mt0_proofs' = Append(mt0_proofs,
       D!Mt0Proof(column_values, CombinedProof(local, commit[0])))
  /\ Becomes(0, "hash")
  /\ UNCHANGED <<control, advices, targets, assembling, committed, opening, beta, column_values,
                 proofs, down>>

\* The end of d_query_merkle_proof, and of the query after the last commitment.
NextOpening(p, again, after) ==
  LET last == commit[p] = Len(LocalVars) IN
  /\ commit' = [commit EXCEPT ![p] = IF last THEN 1 ELSE @ + 1]
  /\ queries' = [queries EXCEPT ![p] = IF last THEN @ + 1 ELSE @]
  /\ Becomes(p, IF ~last THEN again ELSE IF queries[p] + 1 < S THEN after ELSE "done")

\* The hashes are gathered and not used.
MasterHash ==
  LET last == commit[0] = Len(LocalVars) IN
  /\ Gathered("hash")
  /\ NextOpening(0, "column", "query")
  /\ IF last THEN UNCHANGED down ELSE Uniform(AskPosition(beta))
  /\ proofs' = IF last THEN Append(proofs, D!Answer(mt, beta, mt0_proofs)) ELSE proofs
  /\ mt0_proofs' = IF last THEN <<>> ELSE mt0_proofs
  /\ column_values' = <<>>
  /\ UNCHANGED <<round, advices, targets, assembling, committed, opening, beta>>

\* Faulty variant: only the owner answers.
Reply_Owner(w, a) ==
  IF a = Nothing THEN UNCHANGED up
  ELSE SendUp(w, <<Msg("elements", a.column), Msg("digests", a.proof), Msg("digest", a.hash)>>)

\* Three gathers, the owner's answer among empty ones.
Reply(w, a) ==
  SendUp(w, <<Msg("elements", a.column), Msg("digests", a.proof), Msg("digest", a.hash)>>)

WorkerPosition(w) ==
  /\ Receive(w, "position")
  /\ Reply(w, LocalAnswer(w, commit[w], Incoming(w)))
  /\ NextOpening(w, "position", "beta")
  /\ Unmoved /\ UNCHANGED <<round, targets>>

-----------------------------------------------------------------------------
(* What would panic: bytes that are not what the call takes them for.      *)

Misread(w) ==
  pc[w] \in DOMAIN Expects /\ Arrived(w) /\ Head(down[w]).type # Expects[pc[w]]

MisreadGather ==
  /\ pc[0] \in DOMAIN Gathers /\ CanGather
  /\ \E w \in Worker : Head(up[w]).type # Gathers[pc[0]]

-----------------------------------------------------------------------------
Init ==
  /\ pc = [p \in Party |-> "commit"]
  /\ commit = [p \in Party |-> 1]
  /\ round = [p \in Party |-> 0] /\ queries = [p \in Party |-> 0]
  /\ chunks_per_poly = [p \in Party |-> <<>>] /\ columns = [p \in Party |-> <<>>]
  /\ total_chunks = [p \in Party |-> 0]
  /\ to_poly = [p \in Party |-> <<>>] /\ to_commit = [p \in Party |-> <<>>]
  /\ poly = 1 /\ master_chunks = <<>> /\ all_v0 = <<>> /\ all_f0 = <<>>
  /\ v0_matrix = <<>> /\ f0_matrix = <<>> /\ chunk_polys = <<>>
  /\ upper_tree = <<>> /\ commitments = <<>>
  /\ sums = <<>> /\ mt = <<>>
  /\ beta = 0 /\ column_values = <<>> /\ mt0_proofs = <<>> /\ proofs = <<>>
  /\ up = [w \in Worker |-> <<>>] /\ down = [w \in Worker |-> <<>>]

MasterRuns ==
  \/ MasterSplits \/ MasterWaits \/ MasterGathersSmall \/ MasterGathersV0 \/ MasterGathersF0
  \/ MasterAssembles \/ MasterRoots \/ MasterOpens \/ MasterClaims \/ MasterSumcheck
  \/ MasterFinalEvals \/ MasterSumEvals \/ MasterSpreads \/ MasterLeaves \/ MasterKeeps
  \/ MasterQuery \/ MasterColumn \/ MasterLocalProof \/ MasterHash

WorkerRuns(w) ==
  \/ WorkerCommits(w) \/ WorkerTotal(w) \/ WorkerColumns(w) \/ WorkerToPoly(w) \/ WorkerClaims(w)
  \/ WorkerGamma(w) \/ WorkerChallenge(w) \/ WorkerSumEvals(w) \/ WorkerHears(w)
  \/ WorkerRound(w) \/ WorkerPosition(w)

AllDone == (\A p \in Party : pc[p] = "done") /\ UNCHANGED vars

Next ==
  \/ MasterRuns \/ \E w \in Worker : WorkerRuns(w)
  \/ AllDone

Spec     == Init /\ [][Next]_vars
(* DeNetwork delivers every message (Termination there), and the operating *)
(* system runs every process.                                              *)
FairSpec == Spec /\ WF_vars(MasterRuns) /\ \A w \in Worker : WF_vars(WorkerRuns(w))

-----------------------------------------------------------------------------
(* Properties.                                                             *)

\* What each variable holds; there is a tree for every codeword but two.
TypeOK ==
  /\ \A w \in Worker : pc[w] \in DOMAIN Expects \cup {"commit", "done"}
  /\ pc[0] \in DOMAIN Gathers \cup {"commit", "open", "round", "query", "done"}
  /\ \A p \in Party :
       /\ commit[p] \in Commits /\ queries[p] \in 0..S /\ round[p] \in Nat
       /\ Len(columns[p]) =< Len(LocalVars) /\ Len(chunks_per_poly[p]) =< Len(LocalVars)
  /\ Len(commitments) = Len(upper_tree) /\ Len(commitments) =< Len(v0_matrix)
  /\ Len(mt) < BaseMu /\ Len(proofs) =< S /\ beta \in 0..(LenL0 - 1)
  /\ DOMAIN up = Worker /\ DOMAIN down = Worker

\* The two branches of am_master make the same calls in the same order: in
\* no commitment, round or query does a party take the bytes of one call for
\* those of another, however far the workers are behind or ahead.
NoPanic == TypeOK /\ ~MisreadGather /\ \A w \in Worker : ~Misread(w)

\* Every party has the same idea of how many chunks a polynomial has, though
\* a worker never sees those of a small one, and a spread column is as long
\* as the commitment says; the targets of an opening are the master's.
PartiesAgree ==
  \A p \in Party :
    /\ \A c \in DOMAIN chunks_per_poly[p] \cap DOMAIN commitments :
         /\ chunks_per_poly[p][c] = commitments[c].chunks_per_poly
         /\ commitments[c].num_chunks = ChunksOf(chunks_per_poly[p][c], DOMAIN LocalVars[c])
    /\ to_poly[p] \in {<<>>, PointToPoly} /\ to_commit[p] \in {<<>>, PointToCommit}

\* The three matrices the master assembles from three gathers have the same
\* chunks in the same rows: the codeword that is combined from the rows with
\* gamma_combined is that of the polynomial combined from the chunks.
RowsAgree ==
  \A c \in DOMAIN v0_matrix :
    /\ v0_matrix[c] = RowsOf(chunk_polys[c])
    /\ f0_matrix[c] = CoeffsOf(chunk_polys[c])

\* Whatever the master adds up is the same thing of every party: the shares of
\* the polynomials that the points are about, in the same round.
SumsComplete ==
  \A s \in DOMAIN sums : \A p \in Party :
    /\ sums[s][p].sum = sums[s][0].sum
    /\ sums[s][p].of = [k \in Points |-> <<p, PointToCommit[k], PointToPoly[k]>>]

\* The verifier accepts every answer of the distributed prover.
VerifierAccepts ==
  \A t \in DOMAIN proofs : D!VerifyQuery(commitments, mt_roots, proofs[t])

\* The distributed prover makes the commitments and the openings of a single
\* machine that has the whole polynomials: cut into chunks in their order,
\* whatever the sizes of the portions.
Implements == D!Spec

\* All the parties come to the end and leave no message behind.
Termination ==
  <>(\A p \in Party : pc[p] = "done" /\ (p # 0 => up[p] = <<>> /\ down[p] = <<>>))
=============================================================================
