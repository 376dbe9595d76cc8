------------------------ MODULE DChunkedBatch_proofs ------------------------
(***************************************************************************)
(* The branches of am_master agree: proofs about DChunkedBatch.            *)
(*                                                                         *)
(* Every transfer of the session has a name, and After says which one is   *)
(* next in the direction of a name.  The messages of a worker that are on  *)
(* the way carry the names from the one that the receiver takes next to    *)
(* the one that the sender sends next, wherever the two are: so a message  *)
(* is of the type, and says the thing, that its receiver takes it for.     *)
(***************************************************************************)
EXTENDS DChunkedBatch, DataLemmas, TLAPS

Cs       == Len(LocalVars)
Polys(c) == Len(LocalVars[c])

\* max_local_num_vars as the assertions make it: that of every party.
SumRounds ==
  Max({BaseMu} \cup {FullVars[PointToCommit[k]][PointToPoly[k]] : k \in Points}) - num_party_vars

-----------------------------------------------------------------------------
(* The names of the transfers: the call, and what it is about.             *)

Least(A) == CHOOSE x \in A : \A y \in A : x =< y
End == <<"end", 0, 0>>

\* The first gather of a commitment from polynomial q on, of a folding from
\* round i on, and the first transfers after one commitment or query.
FromPoly(c, q) ==
  LET rest == {h \in Small(c) : q =< h} IN
  IF rest = {} THEN <<"v0", c, 0>> ELSE <<"small", c, Least(rest)>>
FromRound(i) ==
  LET rest == {h \in 1..BaseMu : i =< h /\ IsSpread(h)} IN
  IF rest = {} THEN <<"column", 0, 1>> ELSE <<"leaves", Least(rest), 0>>
FromCommit(c) == IF c =< Cs THEN FromPoly(c, 1) ELSE <<"claims", 0, 0>>
FromTotal(c)  == IF c =< Cs THEN <<"total", c, 0>> ELSE <<"points", 0, 0>>
FromColumn(q, c) ==
  IF c =< Cs THEN <<"column", q, c>> ELSE IF q + 1 < S THEN <<"column", q + 1, 1>> ELSE End
FromPosition(q, c) ==
  IF c =< Cs THEN <<"position", q, c>> ELSE IF q + 1 < S THEN <<"beta", q + 1, 0>> ELSE End

\* What a worker sends after what it has sent ...
AfterUp(n) ==
  CASE n[1] = "small" -> FromPoly(n[2], n[3] + 1)
    [] n[1] = "v0" -> <<"f0", n[2], 0>>
    [] n[1] = "f0" -> <<"evals", n[2], 0>>
    [] n[1] = "evals" -> <<"roots", n[2], 0>>
    [] n[1] = "roots" -> FromCommit(n[2] + 1)
    [] n[1] = "claims" -> <<"sumcheck", 1, 0>>
    [] n[1] = "sumcheck" -> IF n[2] < SumRounds THEN <<"sumcheck", n[2] + 1, 0>> ELSE <<"final", 0, 0>>
    [] n[1] = "final" -> <<"sum_evals", 0, 0>>
    [] n[1] = "sum_evals" -> FromRound(1)
    [] n[1] = "leaves" -> FromRound(n[2] + 1)
    [] n[1] = "column" -> <<"local_proof", n[2], n[3]>>
    [] n[1] = "local_proof" -> <<"hash", n[2], n[3]>>
    [] n[1] = "hash" -> FromColumn(n[2], n[3] + 1)

\* ... and what the master tells it.
AfterDown(n) ==
  CASE n[1] = "total" -> <<"columns", n[2], 0>>
    [] n[1] = "columns" -> FromTotal(n[2] + 1)
    [] n[1] = "points" -> <<"to_poly", 0, 0>>
    [] n[1] = "to_poly" -> <<"to_commit", 0, 0>>
    [] n[1] = "to_commit" -> <<"claimed", 0, 0>>
    [] n[1] = "claimed" -> <<"gamma", 0, 0>>
    [] n[1] = "gamma" -> <<"challenge", 1, 0>>
    [] n[1] = "challenge" -> IF n[2] < SumRounds THEN <<"challenge", n[2] + 1, 0>> ELSE <<"proof", 0, 0>>
    [] n[1] = "proof" -> <<"gamma_combined", 0, 0>>
    [] n[1] = "gamma_combined" -> <<"combined_v0", 0, 0>>
    [] n[1] = "combined_v0" -> <<"combined_evals", 0, 0>>
    [] n[1] = "combined_evals" -> <<"alpha", 1, 0>>
    [] n[1] = "alpha" -> <<"r", n[2], 0>>
    [] n[1] = "r" -> IF n[2] < BaseMu THEN <<"alpha", n[2] + 1, 0>> ELSE <<"beta", 0, 0>>
    [] n[1] = "beta" -> <<"position", n[2], 1>>
    [] n[1] = "position" -> FromPosition(n[2], n[3] + 1)

After(n) == IF n[1] \in DOMAIN Gathers THEN AfterUp(n) ELSE AfterDown(n)

\* The transfer that a worker sends next ...
Sends(w) ==
  LET c == commit[w]
      q == queries[w]
      i == round[w]
  IN  CASE pc[w] = "commit" -> FromPoly(c, 1)
        [] pc[w] \in {"total", "columns"} -> <<"roots", c, 0>>
        [] pc[w] \in {"points", "to_poly", "to_commit"} -> <<"claims", 0, 0>>
        [] pc[w] \in {"claimed", "gamma"} -> <<"sumcheck", 1, 0>>
        [] pc[w] = "challenge" -> AfterUp(<<"sumcheck", i + 1, 0>>)
        [] pc[w] = "proof" -> <<"sum_evals", 0, 0>>
        [] pc[w] \in {"gamma_combined", "combined_v0", "combined_evals"} -> FromRound(1)
        [] pc[w] \in {"alpha", "r"} -> FromRound(i)
        [] pc[w] \in {"beta", "position"} -> <<"column", q, c>>
        [] pc[w] = "done" -> End

\* ... and the master gathers next,
ToGather ==
  LET c == commit[0]
      q == queries[0]
      i == round[0]
  IN  CASE pc[0] = "commit" -> FromPoly(c, poly)
        [] pc[0] = "small" -> <<"small", c, poly>>
        [] pc[0] \in {"v0", "f0", "evals", "roots"} -> <<pc[0], c, 0>>
        [] pc[0] \in {"open", "claims"} -> <<"claims", 0, 0>>
        [] pc[0] = "sumcheck" -> <<"sumcheck", i + 1, 0>>
        [] pc[0] \in {"final", "sum_evals"} -> <<pc[0], 0, 0>>
        [] pc[0] \in {"round", "leaves"} -> FromRound(i)
        [] pc[0] = "query" -> <<"column", q, 1>>
        [] pc[0] \in {"column", "local_proof", "hash"} -> <<pc[0], q, c>>
        [] pc[0] = "done" -> End

\* that a worker is told next ...
Awaits(w) ==
  LET c == commit[w]
      q == queries[w]
      i == round[w]
  IN  CASE pc[w] = "commit" -> <<"total", c, 0>>
        [] pc[w] \in {"total", "columns"} -> <<pc[w], c, 0>>
        [] pc[w] \in {"points", "to_poly", "to_commit", "claimed", "gamma", "proof", "gamma_combined",
                      "combined_v0", "combined_evals"} -> <<pc[w], 0, 0>>
        [] pc[w] = "challenge" -> <<"challenge", i + 1, 0>>
        [] pc[w] \in {"alpha", "r"} -> <<pc[w], i, 0>>
        [] pc[w] = "beta" -> <<"beta", q, 0>>
        [] pc[w] = "position" -> <<"position", q, c>>
        [] pc[w] = "done" -> End

\* ... and the master tells next.
ToTell ==
  LET c == commit[0]
      q == queries[0]
      i == round[0]
  IN  CASE pc[0] \in {"commit", "small", "v0", "f0", "evals"} -> <<"total", c, 0>>
        [] pc[0] = "roots" -> FromTotal(c + 1)
        [] pc[0] = "open" -> <<"points", 0, 0>>
        [] pc[0] = "claims" -> <<"claimed", 0, 0>>
        [] pc[0] = "sumcheck" -> <<"challenge", i + 1, 0>>
        [] pc[0] = "final" -> <<"proof", 0, 0>>
        [] pc[0] = "sum_evals" -> <<"gamma_combined", 0, 0>>
        [] pc[0] = "round" -> <<"alpha", i, 0>>
        [] pc[0] = "leaves" -> AfterDown(<<"r", i, 0>>)
        [] pc[0] = "query" -> <<"beta", q, 0>>
        [] pc[0] \in {"column", "local_proof", "hash"} -> FromPosition(q, c + 1)
        [] pc[0] = "done" -> End

-----------------------------------------------------------------------------
(* What the messages are.                                                  *)

\* What a sum is of.
Contribution(p, sum) ==
  [sum |-> sum, of |-> [k \in Points |-> <<p, PointToCommit[k], PointToPoly[k]>>]]

\* What a message of party w, or to it, says, where that is a matter of the name.
Exact == {"small", "v0", "f0", "evals", "claims", "sumcheck", "final", "sum_evals", "leaves",
          "to_poly", "to_commit"}
Says(w, n) ==
  CASE n[1] = "small" -> Portion(w, n[2], n[3])
    [] n[1] = "v0" -> RowsOf(LocalChunks(w, n[2]))
    [] n[1] = "f0" -> CoeffsOf(LocalChunks(w, n[2]))
    [] n[1] = "evals" -> LocalChunks(w, n[2])
    [] n[1] = "claims" -> Contribution(w, <<"claims">>)
    [] n[1] = "sumcheck" -> Contribution(w, <<"round", n[2]>>)
    [] n[1] = "final" -> Contribution(w, <<"final">>)
    [] n[1] = "sum_evals" -> Contribution(w, <<"evals">>)
    [] n[1] = "leaves" -> LeavesOf(w, n[2])
    [] n[1] = "to_poly" -> PointToPoly
    [] n[1] = "to_commit" -> PointToCommit
TypeOf(call) == IF call \in DOMAIN Gathers THEN Gathers[call] ELSE Expects[call]

Is(w, msg, n) == msg.type = TypeOf(n[1]) /\ (n[1] \in Exact => msg.val = Says(w, n))

\* The messages from one name to another, as the names of a path say.
Follows(w, msgs, from, to, names) ==
  /\ names[1] = from /\ names[Len(msgs) + 1] = to
  /\ \A i \in 1..Len(msgs) : Is(w, msgs[i], names[i]) /\ names[i + 1] = After(names[i])
Between(w, msgs, from, to) == IsSeq(msgs) /\ \E names : Follows(w, msgs, from, to, names)

Queues ==
  \A w \in Worker :
    /\ Between(w, up[w], ToGather, Sends(w))
    /\ Between(w, down[w], Awaits(w), ToTell)

-----------------------------------------------------------------------------
(* The inductive invariant.                                                *)

Committing == {"commit", "total", "columns", "small", "v0", "f0", "evals", "roots"}
Beginning  == {"open", "points", "to_poly", "to_commit", "claims", "claimed", "gamma"}
Querying   == {"position", "column", "local_proof", "hash"}

\* Where a party is in its program.
InPlace(p) ==
  /\ commit[p] \in 1..Cs /\ queries[p] \in 0..S /\ round[p] \in Nat
  /\ pc[p] \notin Committing \cup Querying => commit[p] = 1
  /\ pc[p] \notin Querying \cup {"beta", "query", "done"} => queries[p] = 0
  /\ pc[p] \in Querying \cup {"beta", "query"} => queries[p] < S
  /\ pc[p] \in Committing \cup Beginning => round[p] = 0
  /\ pc[p] \in {"sumcheck", "challenge"} => round[p] = 0 \/ round[p] < SumRounds
  /\ pc[p] \in {"proof", "sum_evals", "gamma_combined", "combined_v0", "combined_evals"} => round[p] = 1
  /\ pc[p] \in {"alpha", "r", "round", "leaves"} => round[p] \in 1..BaseMu
  /\ pc[p] = "leaves" => IsSpread(round[p])

\* The targets that a party has been told.
Informed(p) ==
  /\ to_poly[p] = IF pc[p] \in Committing \cup {"open", "points", "to_poly"} THEN <<>> ELSE PointToPoly
  /\ to_commit[p] = IF pc[p] \in Committing \cup {"open", "points", "to_poly", "to_commit"}
                    THEN <<>> ELSE PointToCommit

\* What the master and a worker have so far.
Made == IF pc[0] \in Committing THEN commit[0] - 1 ELSE Cs
Has(seq, len) == IsSeq(seq) /\ Len(seq) = len
MasterHas ==
  /\ pc[0] \in DOMAIN Gathers \cup {"commit", "open", "round", "query", "done"}
  /\ pc[0] \in {"commit", "small"} => poly \in 1..(Polys(commit[0]) + 1)
  /\ pc[0] = "small" => poly \in Small(commit[0])
  /\ pc[0] \in {"v0", "f0", "evals"} => poly = Polys(commit[0]) + 1
  /\ pc[0] \notin {"commit", "small", "v0", "f0", "evals"} => poly = 1
  /\ Has(commitments, Made) /\ Has(upper_tree, Made)
  /\ LET n == IF pc[0] = "roots" THEN Made + 1 ELSE Made IN Has(columns[0], n) /\ Has(v0_matrix, n)
  /\ Has(chunks_per_poly[0], IF poly > 1 \/ pc[0] = "roots" THEN Made + 1 ELSE Made)
  /\ Has(mt, IF pc[0] \in {"round", "leaves"} THEN round[0] - 1
             ELSE IF pc[0] \in {"query", "column", "local_proof", "hash", "done"} THEN BaseMu - 1 ELSE 0)
  /\ Has(proofs, queries[0]) /\ beta \in 0..(LenL0 - 1)
WorkerHas(w) ==
  /\ pc[w] \in DOMAIN Expects \cup {"commit", "done"}
  /\ Has(columns[w], IF pc[w] \in Committing THEN commit[w] - 1 ELSE Cs)
  /\ Has(chunks_per_poly[w],
         IF pc[w] = "commit" THEN commit[w] - 1 ELSE IF pc[w] \in Committing THEN commit[w] ELSE Cs)

OfParties ==
  {DOMAIN pc, DOMAIN commit, DOMAIN round, DOMAIN queries, DOMAIN columns, DOMAIN chunks_per_poly,
   DOMAIN total_chunks, DOMAIN to_poly, DOMAIN to_commit} = {Party}
Domains == {DOMAIN up, DOMAIN down} = {Worker} /\ OfParties

IInv ==
  /\ Domains
  /\ \A p \in Party : InPlace(p) /\ Informed(p)
  /\ MasterHas
  /\ \A w \in Worker : WorkerHas(w)
  /\ Queues
  /\ IsSeq(sums) /\ SumsComplete

-----------------------------------------------------------------------------
(* The messages on the way.                                                *)

\* The message that is taken is the one that is due.
LEMMA Taken ==
  ASSUME NEW w, NEW msgs, NEW from, NEW to, Between(w, msgs, from, to), msgs # <<>>
  PROVE  Is(w, Head(msgs), from) /\ Between(w, Tail(msgs), After(from), to)
<1> DEFINE n == Len(msgs)
           rest == Tail(msgs)
<1>1. PICK names : Follows(w, msgs, from, to, names)
  BY DEF Between
<1>2. /\ n \in Nat /\ n >= 1 /\ Head(msgs) = msgs[1] /\ IsSeq(rest) /\ Len(rest) = n - 1
      /\ \A i \in 1..(n - 1) : rest[i] = msgs[i + 1]
  BY IsTail DEF Between
<1> HIDE DEF rest
<1>3. /\ names[1] = from /\ names[n + 1] = to
      /\ \A i \in 1..n : Is(w, msgs[i], names[i]) /\ names[i + 1] = After(names[i])
  BY <1>1 DEF Follows
<1> DEFINE later == [i \in 1..n |-> names[i + 1]]
<1>4. /\ later[1] = names[2] /\ later[(n - 1) + 1] = to
      /\ \A i \in 1..n : later[i] = names[i + 1]
      /\ \A i \in 1..(n - 1) : later[i + 1] = names[i + 2]
  BY <1>2, <1>3
<1> HIDE DEF later, n
<1>5. later[1] = After(from)
  BY <1>2, <1>3, <1>4
<1>6. \A i \in 1..(n - 1) : Is(w, rest[i], later[i]) /\ later[i + 1] = After(later[i])
  <2> SUFFICES ASSUME NEW i \in 1..(n - 1)
               PROVE  Is(w, rest[i], later[i]) /\ later[i + 1] = After(later[i])
    OBVIOUS
  <2>1. i + 1 \in 1..n /\ i \in 1..n /\ (i + 1) + 1 = i + 2
    BY <1>2
  <2>2. Is(w, msgs[i + 1], names[i + 1]) /\ names[i + 2] = After(names[i + 1])
    BY <1>3, <2>1
  <2> QED BY <1>2, <1>4, <2>1, <2>2
<1>7. Follows(w, rest, After(from), to, later)
  BY <1>2, <1>4, <1>5, <1>6 DEF Follows
<1>8. Is(w, Head(msgs), from)
  BY <1>2, <1>3
<1> QED BY <1>2, <1>7, <1>8 DEF Between, rest

\* One more message, which is what it has to be.
LEMMA Sent ==
  ASSUME NEW w, NEW msgs, NEW from, NEW to, Between(w, msgs, from, to), NEW m, Is(w, m, to)
  PROVE  Between(w, msgs \o <<m>>, from, After(to))
<1> DEFINE n == Len(msgs)
           all == msgs \o <<m>>
<1>1. PICK names : Follows(w, msgs, from, to, names)
  BY DEF Between
<1>2. /\ n \in Nat /\ IsSeq(all) /\ Len(all) = n + 1
      /\ \A i \in 1..n : all[i] = msgs[i]
      /\ all[n + 1] = m
  <2>1. IsSeq(msgs) /\ n \in Nat /\ IsSeq(<<m>>) /\ Len(<<m>>) = 1 /\ <<m>>[1] = m
    BY IsOne DEF Between, IsSeq
  <2>2. /\ IsSeq(all) /\ Len(all) = n + 1
        /\ \A i \in 1..(n + 1) : all[i] = IF i =< n THEN msgs[i] ELSE <<m>>[i - n]
    BY <2>1, IsConcat
  <2> QED BY <2>1, <2>2
<1> HIDE DEF all
<1>3. /\ names[1] = from /\ names[n + 1] = to
      /\ \A i \in 1..n : Is(w, msgs[i], names[i]) /\ names[i + 1] = After(names[i])
  BY <1>1 DEF Follows
<1> DEFINE later == [i \in 1..(n + 2) |-> IF i =< n + 1 THEN names[i] ELSE After(to)]
<1> HIDE DEF n
<1>4. /\ later[1] = from /\ later[(n + 1) + 1] = After(to) /\ later[n + 1] = to
      /\ \A i \in 1..n : later[i] = names[i] /\ later[i + 1] = names[i + 1]
  BY <1>2, <1>3
<1> HIDE DEF later
<1>5. \A i \in 1..(n + 1) : Is(w, all[i], later[i]) /\ later[i + 1] = After(later[i])
  <2> SUFFICES ASSUME NEW i \in 1..(n + 1)
               PROVE  Is(w, all[i], later[i]) /\ later[i + 1] = After(later[i])
    OBVIOUS
  <2>1. CASE i \in 1..n
    BY <1>2, <1>3, <1>4, <2>1
  <2>2. CASE i = n + 1
    BY <1>2, <1>4, <2>2
  <2> QED BY <1>2, <2>1, <2>2
<1>6. Follows(w, all, from, After(to), later)
  BY <1>2, <1>4, <1>5 DEF Follows
<1> QED BY <1>2, <1>6 DEF Between, all

\* Two or three more.
LEMMA SentMore ==
  ASSUME NEW w, NEW msgs, NEW from, NEW to, Between(w, msgs, from, to),
         NEW a, NEW b, NEW c, Is(w, a, to), Is(w, b, After(to))
  PROVE  /\ Between(w, msgs \o <<a, b>>, from, After(After(to)))
         /\ Is(w, c, After(After(to))) =>
              Between(w, msgs \o <<a, b, c>>, from, After(After(After(to))))
<1>1. Between(w, msgs \o <<a>>, from, After(to))
  BY Sent
<1>2. Between(w, (msgs \o <<a>>) \o <<b>>, from, After(After(to)))
  BY <1>1, Sent
<1>3. ASSUME Is(w, c, After(After(to)))
      PROVE  Between(w, ((msgs \o <<a>>) \o <<b>>) \o <<c>>, from, After(After(After(to))))
  BY <1>2, <1>3, Sent
<1>4. IsSeq(msgs)
  BY DEF Between
<1>5. OneByOne(msgs, a, b, c)
  BY ONLY <1>4, IsTwo
<1> QED BY ONLY <1>2, <1>3, <1>5 DEF OneByOne

-----------------------------------------------------------------------------
(* The constants.                                                          *)

\* The sizes are numbers, and there is something of everything.
LEMMA Sizes ==
  /\ N \in Nat /\ N >= 1 /\ BaseMu \in Nat /\ BaseMu >= 1 /\ S \in Nat /\ S >= 1
  /\ Cs \in Nat /\ Cs >= 1 /\ Commits = 1..Cs
  /\ \A c \in 1..Cs :
       Polys(c) \in Nat /\ Polys(c) >= 1 /\ DOMAIN LocalVars[c] = 1..Polys(c) /\ Small(c) \subseteq 1..Polys(c)
  /\ LenL0 \in Int /\ 0 \in 0..(LenL0 - 1) /\ Betas \subseteq 0..(LenL0 - 1)
  /\ 0 \in Party /\ 0 \notin Worker /\ Worker \subseteq Party /\ Party = {0} \cup Worker
<1>1. N \in Nat /\ N >= 1 /\ BaseMu \in Nat /\ BaseMu >= 1 /\ S \in Nat /\ S >= 1 /\ Rate \in Nat
  BY SizesAssumption
<1>2. Cs \in Nat /\ Commits = 1..Cs /\ \A c \in 1..Cs : LocalVars[c] \in Seq(Nat)
  BY TypesAssumption, LenProperties, ElementOfSeq DEF Cs, Commits
<1>3. Cs >= 1
  BY <1>2, CallAssumption, TypesAssumption, EmptySeq DEF Cs
<1>4. ASSUME NEW c \in 1..Cs
      PROVE  Polys(c) \in Nat /\ Polys(c) >= 1 /\ DOMAIN LocalVars[c] = 1..Polys(c)
             /\ Small(c) \subseteq 1..Polys(c)
  <2>1. LocalVars[c] \in Seq(Nat) /\ LocalVars[c] # <<>>
    BY <1>2, CallAssumption
  <2>2. Polys(c) \in Nat /\ DOMAIN LocalVars[c] = 1..Polys(c) /\ Polys(c) # 0
    BY <2>1, LenProperties, EmptySeq DEF Polys
  <2> QED BY <2>2 DEF Small
<1>5. 2^BaseMu \in Int
  BY <1>1
<1>6. LenL0 \in Int /\ LenL0 >= N
  BY <1>1, <1>5, WorkAssumption DEF LenL0
<1>7. 0 \in Party /\ 0 \notin Worker /\ Worker \subseteq Party /\ Party = {0} \cup Worker
  BY <1>1 DEF Party, Worker
<1>8. 0 \in 0..(LenL0 - 1)
  BY <1>1, <1>6
<1> HIDE DEF LenL0, Party, Worker, Cs
<1> QED BY <1>1, <1>2, <1>3, <1>4, <1>6, <1>7, <1>8, QueryAssumption

\* The logarithm is a number.
LEMMA PartyVars == num_party_vars \in Nat
<1> DEFINE A == {k \in 0..N : N =< 2^k}
           LogIs(k) == N =< 2^k /\ \A h \in 0..(k - 1) : 2^h < N
<1>1. N \in Nat /\ \A k \in Nat : 2^k \in Int
  BY Sizes
<1>2. A \subseteq 0..N /\ A # {}
  BY <1>1, PowerAssumption
<1>3. PICK k \in A : \A j \in A : k =< j
  <2> HIDE DEF A
  <2> QED BY <1>1, <1>2, LeastIs
<1>4. k \in 0..N /\ N =< 2^k
  OBVIOUS
<1>5. \A h \in 0..(k - 1) : 2^h < N
  <2> SUFFICES ASSUME NEW h \in 0..(k - 1) PROVE 2^h < N
    OBVIOUS
  <2>1. h \in 0..N /\ h \in Nat /\ ~(k =< h)
    BY <1>1, <1>4
  <2>2. ~(N =< 2^h)
    BY <1>3, <2>1
  <2> QED BY <1>1, <2>1, <2>2
<1>6. \E j \in 0..N : LogIs(j)
  BY <1>4, <1>5
<1>7. num_party_vars = CHOOSE j \in 0..N : LogIs(j)
  BY DEF num_party_vars, Log2Up
<1> HIDE DEF LogIs
<1>8. num_party_vars \in 0..N
  BY <1>6, <1>7
<1> QED BY <1>1, <1>8

\* And so are the rounds of the sumcheck.
LEMMA Rounds == SumRounds \in Int
<1> DEFINE vars_of(k) == FullVars[PointToCommit[k]][PointToPoly[k]]
           A == {BaseMu} \cup {vars_of(k) : k \in Points}
<1>1. \A k \in Points : vars_of(k) \in Nat
  <2> SUFFICES ASSUME NEW k \in Points PROVE vars_of(k) \in Nat
    OBVIOUS
  <2> DEFINE c == PointToCommit[k]
             q == PointToPoly[k]
  <2>1. c \in 1..Cs /\ q \in DOMAIN LocalVars[c] /\ c \in DOMAIN LocalVars
    BY CallAssumption, Sizes DEF Commits
  <2>2. LocalVars[c][q] \in Nat
    <3>1. LocalVars[c] \in Seq(Nat)
      BY <2>1, TypesAssumption, ElementOfSeq DEF Cs
    <3> QED BY <2>1, <3>1, ElementOfSeq, LenProperties
  <2>3. FullVars[c][q] = LocalVars[c][q] + num_party_vars
    BY <2>1 DEF FullVars, Commits
  <2> QED BY <2>2, <2>3, PartyVars
<1> HIDE DEF vars_of
<1>2. Len(PointToCommit) \in Nat /\ Points = 1..Len(PointToCommit)
  BY TypesAssumption, LenProperties DEF Points
<1>3. \E m \in Nat : A \subseteq 0..m
  <2> DEFINE T == {n \in Nat : \E m \in Nat : \A k \in Points : k =< n => vars_of(k) =< m}
  <2>1. 0 \in T
    BY <1>2
  <2>2. ASSUME NEW n \in Nat, n \in T PROVE n + 1 \in T
    <3>1. PICK m \in Nat : \A k \in Points : k =< n => vars_of(k) =< m
      BY <2>2
    <3>2. CASE n + 1 \in Points
      <4> DEFINE m2 == m + vars_of(n + 1)
      <4>1. m2 \in Nat
        BY <1>1, <3>2
      <4>2. ASSUME NEW k \in Points, k =< n + 1 PROVE vars_of(k) =< m2
        <5>1. CASE k =< n
          BY <1>1, <3>1, <3>2, <5>1
        <5>2. CASE k = n + 1
          BY <1>1, <3>2, <5>2
        <5> QED BY <1>2, <4>2, <5>1, <5>2
      <4> HIDE DEF m2
      <4> QED BY <4>1, <4>2
    <3>3. CASE n + 1 \notin Points
      <4>1. \A k \in Points : k =< n + 1 => k =< n
        BY <1>2, <3>3
      <4> QED BY <3>1, <4>1
    <3> QED BY <3>2, <3>3
  <2> HIDE DEF T
  <2>3. Len(PointToCommit) \in T
    BY <1>2, <2>1, <2>2, SetInduction
  <2>4. PICK m \in Nat : \A k \in Points : vars_of(k) =< m
    BY <1>2, <2>3 DEF T
  <2>5. A \subseteq 0..(m + BaseMu)
    <3> SUFFICES ASSUME NEW x \in A PROVE x \in 0..(m + BaseMu)
      OBVIOUS
    <3> QED BY <1>1, <2>4, Sizes
  <2>6. m + BaseMu \in Nat
    BY Sizes
  <2> QED BY <2>5, <2>6
<1>4. PICK m \in Nat : A \subseteq 0..m
  BY <1>3
<1>5. \E x \in A : \A y \in A : x >= y
  <2>1. A # {}
    OBVIOUS
  <2> HIDE DEF A
  <2> QED BY <1>4, <2>1, GreatestIs
<1>6. Max(A) \in A
  <2> HIDE DEF A
  <2> QED BY <1>5 DEF Max
<1>7. Max(A) \in Nat
  <2> DEFINE x == Max(A)
  <2>1. x \in A
    BY <1>6
  <2>2. A \subseteq 0..m
    BY <1>4
  <2> HIDE DEF x, A
  <2>3. x \in Nat
    BY <2>1, <2>2
  <2> QED BY <2>3 DEF x
<1>8. SumRounds = Max(A) - num_party_vars
  BY DEF SumRounds, vars_of
<1> HIDE DEF A
<1> QED BY <1>7, <1>8, PartyVars

-----------------------------------------------------------------------------
(* What comes after what.                                                  *)

\* What a worker sends next, name by name ...
LEMMA AfterUpIs ==
  \A a, b :
    /\ After(<<"small", a, b>>) = FromPoly(a, b + 1)
    /\ After(<<"v0", a, b>>) = <<"f0", a, 0>>
    /\ After(<<"f0", a, b>>) = <<"evals", a, 0>>
    /\ After(<<"evals", a, b>>) = <<"roots", a, 0>>
    /\ After(<<"roots", a, b>>) = FromCommit(a + 1)
    /\ After(<<"claims", a, b>>) = <<"sumcheck", 1, 0>>
    /\ After(<<"sumcheck", a, b>>) = AfterUp(<<"sumcheck", a, b>>)
    /\ AfterUp(<<"sumcheck", a, b>>) =
              IF a < SumRounds THEN <<"sumcheck", a + 1, 0>> ELSE <<"final", 0, 0>>
    /\ After(<<"final", a, b>>) = <<"sum_evals", 0, 0>>
    /\ After(<<"sum_evals", a, b>>) = FromRound(1)
    /\ After(<<"leaves", a, b>>) = FromRound(a + 1)
    /\ After(<<"column", a, b>>) = <<"local_proof", a, b>>
    /\ After(<<"local_proof", a, b>>) = <<"hash", a, b>>
    /\ After(<<"hash", a, b>>) = FromColumn(a, b + 1)
<1> SUFFICES ASSUME NEW a, NEW b
    PROVE /\ After(<<"small", a, b>>) = FromPoly(a, b + 1)
          /\ After(<<"v0", a, b>>) = <<"f0", a, 0>>
          /\ After(<<"f0", a, b>>) = <<"evals", a, 0>>
          /\ After(<<"evals", a, b>>) = <<"roots", a, 0>>
          /\ After(<<"roots", a, b>>) = FromCommit(a + 1)
          /\ After(<<"claims", a, b>>) = <<"sumcheck", 1, 0>>
          /\ After(<<"sumcheck", a, b>>) = AfterUp(<<"sumcheck", a, b>>)
          /\ AfterUp(<<"sumcheck", a, b>>) =
              IF a < SumRounds THEN <<"sumcheck", a + 1, 0>> ELSE <<"final", 0, 0>>
          /\ After(<<"final", a, b>>) = <<"sum_evals", 0, 0>>
          /\ After(<<"sum_evals", a, b>>) = FromRound(1)
          /\ After(<<"leaves", a, b>>) = FromRound(a + 1)
          /\ After(<<"column", a, b>>) = <<"local_proof", a, b>>
          /\ After(<<"local_proof", a, b>>) = <<"hash", a, b>>
          /\ After(<<"hash", a, b>>) = FromColumn(a, b + 1)
  OBVIOUS
<1>1. {"small", "v0", "f0", "evals", "roots", "claims", "sumcheck", "final", "sum_evals", "leaves",
       "column", "local_proof", "hash"} \subseteq DOMAIN Gathers
  BY DEF Gathers
<1>2. \A n : n[1] \in DOMAIN Gathers => After(n) = AfterUp(n)
  BY DEF After
<1>3. /\ AfterUp(<<"small", a, b>>) = FromPoly(a, b + 1)
      /\ AfterUp(<<"v0", a, b>>) = <<"f0", a, 0>>
      /\ AfterUp(<<"f0", a, b>>) = <<"evals", a, 0>>
      /\ AfterUp(<<"evals", a, b>>) = <<"roots", a, 0>>
      /\ AfterUp(<<"roots", a, b>>) = FromCommit(a + 1)
  BY DEF AfterUp
<1>5. /\ AfterUp(<<"claims", a, b>>) = <<"sumcheck", 1, 0>>
      /\ AfterUp(<<"sumcheck", a, b>>) =
           IF a < SumRounds THEN <<"sumcheck", a + 1, 0>> ELSE <<"final", 0, 0>>
      /\ AfterUp(<<"final", a, b>>) = <<"sum_evals", 0, 0>>
      /\ AfterUp(<<"sum_evals", a, b>>) = FromRound(1)
      /\ AfterUp(<<"leaves", a, b>>) = FromRound(a + 1)
      /\ AfterUp(<<"column", a, b>>) = <<"local_proof", a, b>>
      /\ AfterUp(<<"local_proof", a, b>>) = <<"hash", a, b>>
      /\ AfterUp(<<"hash", a, b>>) = FromColumn(a, b + 1)
  BY DEF AfterUp
<1>4. \A x \in DOMAIN Gathers : After(<<x, a, b>>) = AfterUp(<<x, a, b>>)
  BY <1>2
<1> HIDE DEF After
<1> QED BY <1>1, <1>3, <1>4, <1>5

\* ... and what the master tells next.
LEMMA AfterDownIs ==
  \A a, b :
    /\ After(<<"total", a, b>>) = <<"columns", a, 0>>
    /\ After(<<"columns", a, b>>) = FromTotal(a + 1)
    /\ After(<<"points", a, b>>) = <<"to_poly", 0, 0>>
    /\ After(<<"to_poly", a, b>>) = <<"to_commit", 0, 0>>
    /\ After(<<"to_commit", a, b>>) = <<"claimed", 0, 0>>
    /\ After(<<"claimed", a, b>>) = <<"gamma", 0, 0>>
    /\ After(<<"gamma", a, b>>) = <<"challenge", 1, 0>>
    /\ After(<<"challenge", a, b>>) =
              IF a < SumRounds THEN <<"challenge", a + 1, 0>> ELSE <<"proof", 0, 0>>
    /\ After(<<"proof", a, b>>) = <<"gamma_combined", 0, 0>>
    /\ After(<<"gamma_combined", a, b>>) = <<"combined_v0", 0, 0>>
    /\ After(<<"combined_v0", a, b>>) = <<"combined_evals", 0, 0>>
    /\ After(<<"combined_evals", a, b>>) = <<"alpha", 1, 0>>
    /\ After(<<"alpha", a, b>>) = <<"r", a, 0>>
    /\ After(<<"r", a, b>>) = AfterDown(<<"r", a, b>>)
    /\ AfterDown(<<"r", a, b>>) = IF a < BaseMu THEN <<"alpha", a + 1, 0>> ELSE <<"beta", 0, 0>>
    /\ After(<<"beta", a, b>>) = <<"position", a, 1>>
    /\ After(<<"position", a, b>>) = FromPosition(a, b + 1)
<1> SUFFICES ASSUME NEW a, NEW b
    PROVE /\ After(<<"total", a, b>>) = <<"columns", a, 0>>
          /\ After(<<"columns", a, b>>) = FromTotal(a + 1)
          /\ After(<<"points", a, b>>) = <<"to_poly", 0, 0>>
          /\ After(<<"to_poly", a, b>>) = <<"to_commit", 0, 0>>
          /\ After(<<"to_commit", a, b>>) = <<"claimed", 0, 0>>
          /\ After(<<"claimed", a, b>>) = <<"gamma", 0, 0>>
          /\ After(<<"gamma", a, b>>) = <<"challenge", 1, 0>>
          /\ After(<<"challenge", a, b>>) =
              IF a < SumRounds THEN <<"challenge", a + 1, 0>> ELSE <<"proof", 0, 0>>
          /\ After(<<"proof", a, b>>) = <<"gamma_combined", 0, 0>>
          /\ After(<<"gamma_combined", a, b>>) = <<"combined_v0", 0, 0>>
          /\ After(<<"combined_v0", a, b>>) = <<"combined_evals", 0, 0>>
          /\ After(<<"combined_evals", a, b>>) = <<"alpha", 1, 0>>
          /\ After(<<"alpha", a, b>>) = <<"r", a, 0>>
          /\ After(<<"r", a, b>>) = AfterDown(<<"r", a, b>>)
          /\ AfterDown(<<"r", a, b>>) = IF a < BaseMu THEN <<"alpha", a + 1, 0>> ELSE <<"beta", 0, 0>>
          /\ After(<<"beta", a, b>>) = <<"position", a, 1>>
          /\ After(<<"position", a, b>>) = FromPosition(a, b + 1)
  OBVIOUS
<1>1. \A x \in {"total", "columns", "points", "to_poly", "to_commit", "claimed", "gamma", "challenge",
                "proof", "gamma_combined", "combined_v0", "combined_evals", "alpha", "r", "beta",
                "position"} : x \notin DOMAIN Gathers
  BY DEF Gathers
<1>2. \A n : n[1] \notin DOMAIN Gathers => After(n) = AfterDown(n)
  BY DEF After
<1>3. /\ AfterDown(<<"total", a, b>>) = <<"columns", a, 0>>
      /\ AfterDown(<<"columns", a, b>>) = FromTotal(a + 1)
      /\ AfterDown(<<"points", a, b>>) = <<"to_poly", 0, 0>>
      /\ AfterDown(<<"to_poly", a, b>>) = <<"to_commit", 0, 0>>
      /\ AfterDown(<<"to_commit", a, b>>) = <<"claimed", 0, 0>>
      /\ AfterDown(<<"claimed", a, b>>) = <<"gamma", 0, 0>>
      /\ AfterDown(<<"gamma", a, b>>) = <<"challenge", 1, 0>>
  BY DEF AfterDown
<1>5. /\ AfterDown(<<"challenge", a, b>>) =
           IF a < SumRounds THEN <<"challenge", a + 1, 0>> ELSE <<"proof", 0, 0>>
      /\ AfterDown(<<"proof", a, b>>) = <<"gamma_combined", 0, 0>>
      /\ AfterDown(<<"gamma_combined", a, b>>) = <<"combined_v0", 0, 0>>
      /\ AfterDown(<<"combined_v0", a, b>>) = <<"combined_evals", 0, 0>>
      /\ AfterDown(<<"combined_evals", a, b>>) = <<"alpha", 1, 0>>
      /\ AfterDown(<<"alpha", a, b>>) = <<"r", a, 0>>
      /\ AfterDown(<<"r", a, b>>) = IF a < BaseMu THEN <<"alpha", a + 1, 0>> ELSE <<"beta", 0, 0>>
      /\ AfterDown(<<"beta", a, b>>) = <<"position", a, 1>>
      /\ AfterDown(<<"position", a, b>>) = FromPosition(a, b + 1)
  BY DEF AfterDown
<1>4. \A x : x \notin DOMAIN Gathers => After(<<x, a, b>>) = AfterDown(<<x, a, b>>)
  BY <1>2
<1> HIDE DEF After
<1> QED BY <1>1, <1>3, <1>4, <1>5

\* The next polynomial, or the one after it.
LEMMA PolyDue ==
  ASSUME NEW c \in 1..Cs, NEW q \in 1..Polys(c)
  PROVE  /\ q \in Small(c) => FromPoly(c, q) = <<"small", c, q>>
         /\ q \notin Small(c) => FromPoly(c, q) = FromPoly(c, q + 1)
<1> DEFINE rest(k) == {h \in Small(c) : k =< h}
<1>1. Small(c) \subseteq 1..Polys(c) /\ Polys(c) \in Nat
  BY Sizes
<1>2. ASSUME q \in Small(c) PROVE FromPoly(c, q) = <<"small", c, q>>
  <2>1. q \in rest(q) /\ \A y \in rest(q) : q =< y /\ y \in Nat
    BY <1>1, <1>2
  <2>2. \A x \in rest(q) : (\A y \in rest(q) : x =< y) => x = q
    BY <1>1, <2>1
  <2>3. Least(rest(q)) = q
    <3> HIDE DEF rest
    <3> QED BY <2>1, <2>2 DEF Least
  <2>4. rest(q) # {}
    BY <2>1
  <2> QED BY <2>3, <2>4 DEF FromPoly
<1>3. ASSUME q \notin Small(c) PROVE FromPoly(c, q) = FromPoly(c, q + 1)
  <2>1. rest(q) = rest(q + 1)
    BY <1>1, <1>3
  <2> QED BY <2>1 DEF FromPoly
<1> QED BY <1>2, <1>3

\* After the last polynomial come the rows.
LEMMA PolysDone ==
  ASSUME NEW c \in 1..Cs
  PROVE  FromPoly(c, Polys(c) + 1) = <<"v0", c, 0>>
<1>1. Small(c) \subseteq 1..Polys(c) /\ Polys(c) \in Nat
  BY Sizes
<1>2. {h \in Small(c) : Polys(c) + 1 =< h} = {}
  BY <1>1
<1> QED BY <1>2 DEF FromPoly

\* The next round that is spread.
LEMMA RoundDue ==
  ASSUME NEW i \in 1..BaseMu
  PROVE  /\ IsSpread(i) => FromRound(i) = <<"leaves", i, 0>> /\ i < BaseMu
         /\ ~IsSpread(i) => FromRound(i) = FromRound(i + 1)
<1> DEFINE rest(k) == {h \in 1..BaseMu : k =< h /\ IsSpread(h)}
<1>1. BaseMu \in Nat
  BY Sizes
<1>2. ASSUME IsSpread(i) PROVE FromRound(i) = <<"leaves", i, 0>>
  <2>1. i \in rest(i) /\ \A y \in rest(i) : i =< y /\ y \in Nat
    BY <1>1, <1>2
  <2>2. \A x \in rest(i) : (\A y \in rest(i) : x =< y) => x = i
    BY <1>1, <2>1
  <2>3. Least(rest(i)) = i
    <3> HIDE DEF rest
    <3> QED BY <2>1, <2>2 DEF Least
  <2>4. rest(i) # {}
    BY <2>1
  <2> QED BY <2>3, <2>4 DEF FromRound
<1>3. ASSUME ~IsSpread(i) PROVE FromRound(i) = FromRound(i + 1)
  <2>1. rest(i) = rest(i + 1)
    BY <1>1, <1>3
  <2> QED BY <2>1 DEF FromRound
<1>4. IsSpread(i) => i < BaseMu
  BY DEF IsSpread, D!HasTree
<1> QED BY <1>2, <1>3, <1>4

\* The last round has no tree: after it come the queries.
LEMMA RoundsDone == FromRound(BaseMu) = <<"column", 0, 1>> /\ FromRound(BaseMu + 1) = <<"column", 0, 1>>
<1>1. BaseMu \in Nat /\ BaseMu >= 1
  BY Sizes
<1>2. {h \in 1..BaseMu : BaseMu + 1 =< h /\ IsSpread(h)} = {}
  BY <1>1
<1>3. FromRound(BaseMu + 1) = <<"column", 0, 1>>
  BY <1>2 DEF FromRound
<1>4. BaseMu \in 1..BaseMu
  BY <1>1
<1>5. ~IsSpread(BaseMu)
  BY <1>1, <1>4, RoundDue
<1> QED BY <1>3, <1>4, <1>5, RoundDue

-----------------------------------------------------------------------------
(* The small polynomials of a worker.                                      *)

\* What a worker sends of its small portions are the messages that are due.
LEMMA SmallSent ==
  ASSUME NEW w, NEW c \in 1..Cs, NEW msgs, NEW from, Between(w, msgs, from, FromPoly(c, 1))
  PROVE  Between(w, msgs \o SmallPortions(w, c), from, <<"v0", c, 0>>) /\ IsSeq(SmallPortions(w, c))
<1> DEFINE n == Polys(c)
           m(q) == Msg("elements", Portion(w, c, q))
           B == {m(q) : q \in 1..n}
           Q == Seq(B)
           s == [q \in 1..n |-> IF q \in Small(c) THEN <<m(q)>> ELSE <<>>]
<1>1. n \in Nat /\ n >= 1 /\ DOMAIN LocalVars[c] = 1..n
  BY Sizes
<1>2. SmallPortions(w, c) = FlattenSeq(s)
  BY <1>1 DEF SmallPortions
<1>3. \A q \in 1..n : <<m(q)>> \in Q /\ <<>> \in Q
  BY EmptySeq
<1>4. Len(s) = n /\ s \in Parts(B) /\ \A q \in 1..n : s[q] = IF q \in Small(c) THEN <<m(q)>> ELSE <<>>
  <2>1. s \in [1..n -> Q]
    BY <1>3
  <2>2. s \in Seq(Q)
    <3> HIDE DEF s, Q, n
    <3> QED BY <1>1, <2>1
  <2> QED BY <1>1, <2>1, <2>2, LenProperties DEF Parts
<1> HIDE DEF s, n, m, B
<1> DEFINE Cat(x, y) == x \o y
           e == <<>>
<1>12. Q = Seq(B)
  OBVIOUS
<1> HIDE DEF Q, Cat, e
<1>13. s \in Parts(B)
  BY <1>4
<1>0. PICK f \in [Nat -> Q] : /\ f[0] = e /\ FlattenSeq(s) = f[Len(s)]
                              /\ \A i \in 1..Len(s) : f[i] = Cat(f[i - 1], s[i])
  BY ONLY <1>12, <1>13, FlattenIs DEF Cat, e
<1>5. f[0] = <<>> /\ FlattenSeq(s) = f[n] /\ \A i \in 1..n : f[i] = f[i - 1] \o s[i]
  BY <1>0, <1>4 DEF Cat, e
<1>6. \A i \in Nat : IsSeq(f[i])
  BY SeqIs DEF Q
<1> DEFINE T == {k \in Nat : k =< n => Between(w, msgs \o f[k], from, FromPoly(c, k + 1))}
<1>7. IsSeq(msgs)
  BY DEF Between
<1>8. 0 \in T
  <2>1. msgs \o f[0] = msgs
    BY <1>5, <1>7, IsNeutral
  <2>2. Between(w, msgs \o f[0], from, FromPoly(c, 1))
    BY <2>1
  <2>3. 0 + 1 = 1
    OBVIOUS
  <2> QED BY ONLY <2>2, <2>3
<1>9. ASSUME NEW k \in Nat, k \in T PROVE k + 1 \in T
  <2> SUFFICES ASSUME k + 1 =< n PROVE Between(w, msgs \o f[k + 1], from, FromPoly(c, (k + 1) + 1))
    OBVIOUS
  <2>1. k + 1 \in 1..n /\ (k + 1) - 1 = k /\ Between(w, msgs \o f[k], from, FromPoly(c, k + 1))
    BY <1>1, <1>9
  <2>2. f[k + 1] = f[k] \o s[k + 1]
    BY <1>5, <2>1
  <2>3. CASE k + 1 \in Small(c)
    <3>1. FromPoly(c, k + 1) = <<"small", c, k + 1>> /\ s[k + 1] = <<m(k + 1)>>
      BY <1>4, <2>1, <2>3, PolyDue DEF n
    <3>2. Is(w, m(k + 1), FromPoly(c, k + 1))
      BY <3>1 DEF Is, m, Msg, TypeOf, Gathers, Says, Exact
    <3>3. Between(w, (msgs \o f[k]) \o <<m(k + 1)>>, from, After(FromPoly(c, k + 1)))
      BY <2>1, <3>2, Sent
    <3>4. (msgs \o f[k]) \o <<m(k + 1)>> = msgs \o (f[k] \o <<m(k + 1)>>)
      <4>1. IsSeq(f[k]) /\ IsSeq(<<m(k + 1)>>)
        BY <1>6, IsOne
      <4>2. Assoc(msgs, f[k], <<m(k + 1)>>)
        BY ONLY <1>7, <4>1, IsAssoc
      <4> QED BY <4>2 DEF Assoc
    <3>5. After(FromPoly(c, k + 1)) = FromPoly(c, (k + 1) + 1)
      BY <3>1, AfterUpIs
    <3> QED BY <2>2, <3>1, <3>3, <3>4, <3>5
  <2>4. CASE k + 1 \notin Small(c)
    <3>1. FromPoly(c, k + 1) = FromPoly(c, (k + 1) + 1) /\ s[k + 1] = <<>>
      BY <1>4, <2>1, <2>4, PolyDue DEF n
    <3>2. f[k + 1] = f[k]
      BY <1>6, <2>2, <3>1, IsNeutral
    <3> QED BY <2>1, <3>1, <3>2
  <2> QED BY <2>3, <2>4
<1>10. n \in T
  <2> HIDE DEF T
  <2>1. Nat \subseteq T
    BY <1>8, <1>9, SetInduction
  <2> QED BY <1>1, <2>1
<1>11. FromPoly(c, n + 1) = <<"v0", c, 0>>
  BY PolysDone DEF n
<1> QED BY <1>1, <1>2, <1>5, <1>6, <1>10, <1>11

-----------------------------------------------------------------------------
(* What a step of one party leaves alone.                                  *)

Alone(p) ==
  /\ OfParties'
  /\ \A x \in Party \ {p} :
       /\ pc'[x] = pc[x] /\ commit'[x] = commit[x] /\ round'[x] = round[x] /\ queries'[x] = queries[x]
       /\ columns'[x] = columns[x] /\ chunks_per_poly'[x] = chunks_per_poly[x]
       /\ to_poly'[x] = to_poly[x] /\ to_commit'[x] = to_commit[x]

\* Where nothing of a party is written, its part of the invariant stays.
LEMMA Same ==
  ASSUME NEW x \in Party, pc'[x] = pc[x], commit'[x] = commit[x], round'[x] = round[x],
         queries'[x] = queries[x], columns'[x] = columns[x],
         chunks_per_poly'[x] = chunks_per_poly[x], to_poly'[x] = to_poly[x], to_commit'[x] = to_commit[x]
  PROVE  /\ InPlace(x) => InPlace(x)'
         /\ Informed(x) => Informed(x)'
         /\ WorkerHas(x) => WorkerHas(x)'
         /\ Sends(x)' = Sends(x) /\ Awaits(x)' = Awaits(x)
<1>1. InPlace(x) => InPlace(x)'
  BY DEF InPlace
<1>2. Informed(x) => Informed(x)'
  BY DEF Informed
<1>3. WorkerHas(x) => WorkerHas(x)'
  BY DEF WorkerHas
<1>4. Sends(x)' = Sends(x)
  BY DEF Sends
<1>5. Awaits(x)' = Awaits(x)
  BY DEF Awaits
<1> QED BY <1>1, <1>2, <1>3, <1>4, <1>5

\* What a step of a worker has to show.
LEMMA WorkerFrame ==
  ASSUME IInv, NEW w \in Worker, Alone(w), UNCHANGED <<assembling, committed, opening, answering>>,
         {DOMAIN up', DOMAIN down'} = {Worker},
         \A v \in Worker \ {w} : up'[v] = up[v] /\ down'[v] = down[v],
         InPlace(w)', Informed(w)', WorkerHas(w)',
         Between(w, up'[w], ToGather, Sends(w)'), Between(w, down'[w], Awaits(w)', ToTell)
  PROVE  IInv'
<1>0. 0 \in Party /\ 0 # w /\ Worker \subseteq Party /\ w \in Party /\ Party = {0} \cup Worker
  BY Sizes
<1>1. ASSUME NEW x \in Party \ {w}
      PROVE  /\ InPlace(x)' /\ Informed(x)' /\ Sends(x)' = Sends(x) /\ Awaits(x)' = Awaits(x)
             /\ x \in Worker => WorkerHas(x)'
  <2>1. /\ pc'[x] = pc[x] /\ commit'[x] = commit[x] /\ round'[x] = round[x]
        /\ queries'[x] = queries[x] /\ columns'[x] = columns[x]
        /\ chunks_per_poly'[x] = chunks_per_poly[x] /\ to_poly'[x] = to_poly[x]
        /\ to_commit'[x] = to_commit[x]
    BY DEF Alone
  <2>2. InPlace(x) /\ Informed(x) /\ (x \in Worker => WorkerHas(x))
    BY DEF IInv
  <2> QED BY <2>1, <2>2, Same
<1>2. \A p \in Party : InPlace(p)' /\ Informed(p)'
  BY <1>1
<1>3. \A v \in Worker : WorkerHas(v)'
  BY <1>0, <1>1
<1>4. Domains'
  BY DEF Domains, Alone
<1>5. /\ pc'[0] = pc[0] /\ commit'[0] = commit[0] /\ round'[0] = round[0]
      /\ queries'[0] = queries[0] /\ columns'[0] = columns[0]
      /\ chunks_per_poly'[0] = chunks_per_poly[0]
  BY <1>0 DEF Alone
<1>6. ToGather' = ToGather /\ ToTell' = ToTell
  <2>1. ToGather' = ToGather
    BY <1>5 DEF ToGather, assembling
  <2>2. ToTell' = ToTell
    BY <1>5 DEF ToTell
  <2> QED BY <2>1, <2>2
<1>7. MasterHas'
  <2>1. Made' = Made
    BY <1>5 DEF Made
  <2>2. MasterHas
    BY DEF IInv
  <2> QED BY <1>5, <2>1, <2>2 DEF MasterHas, assembling, committed, opening, answering
<1>8. ASSUME NEW v \in Worker
      PROVE  Between(v, up'[v], ToGather', Sends(v)') /\ Between(v, down'[v], Awaits(v)', ToTell')
  <2>1. CASE v = w
    BY <1>6, <2>1
  <2>2. CASE v # w
    <3>1. Between(v, up[v], ToGather, Sends(v)) /\ Between(v, down[v], Awaits(v), ToTell)
      BY DEF IInv, Queues
    <3> QED BY <1>0, <1>1, <1>6, <2>2, <3>1
  <2> QED BY <2>1, <2>2
<1>9. Queues'
  BY <1>8 DEF Queues
<1>10. (IsSeq(sums) /\ SumsComplete)'
  BY DEF IInv, SumsComplete, opening
<1> QED BY <1>2, <1>3, <1>4, <1>7, <1>9, <1>10 DEF IInv

\* What a step of the master has to show.
LEMMA MasterFrame ==
  ASSUME IInv, Alone(0), {DOMAIN up', DOMAIN down'} = {Worker},
         InPlace(0)', Informed(0)', MasterHas',
         \A w \in Worker : Between(w, up'[w], ToGather', Sends(w)),
         \A w \in Worker : Between(w, down'[w], Awaits(w), ToTell'),
         (IsSeq(sums) /\ SumsComplete)'
  PROVE  IInv'
<1>0. 0 \in Party /\ 0 \notin Worker /\ Worker \subseteq Party /\ Party = {0} \cup Worker
  BY Sizes
<1>1. ASSUME NEW x \in Worker
      PROVE  /\ InPlace(x)' /\ Informed(x)' /\ Sends(x)' = Sends(x) /\ Awaits(x)' = Awaits(x)
             /\ WorkerHas(x)'
  <2>0. x \in Party \ {0}
    BY <1>0
  <2>1. /\ pc'[x] = pc[x] /\ commit'[x] = commit[x] /\ round'[x] = round[x]
        /\ queries'[x] = queries[x] /\ columns'[x] = columns[x]
        /\ chunks_per_poly'[x] = chunks_per_poly[x] /\ to_poly'[x] = to_poly[x]
        /\ to_commit'[x] = to_commit[x]
    BY <2>0 DEF Alone
  <2>2. InPlace(x) /\ Informed(x) /\ WorkerHas(x)
    BY <2>0 DEF IInv
  <2> QED BY <2>0, <2>1, <2>2, Same
<1>2. \A p \in Party : InPlace(p)' /\ Informed(p)'
  BY <1>0, <1>1
<1>3. Domains'
  BY DEF Domains, Alone
<1>4. Queues'
  BY <1>1 DEF Queues
<1> QED BY <1>1, <1>2, <1>3, <1>4 DEF IInv

-----------------------------------------------------------------------------
(* The messages of a step.                                                 *)

\* The message that a worker receives is the one it awaits.
LEMMA Received ==
  ASSUME IInv, NEW w \in Worker, NEW call, Receive(w, call)
  PROVE  /\ pc[w] = call /\ Is(w, Head(down[w]), Awaits(w))
         /\ Between(w, down'[w], After(Awaits(w)), ToTell)
         /\ DOMAIN down' = Worker /\ \A v \in Worker \ {w} : down'[v] = down[v]
<1>1. Between(w, down[w], Awaits(w), ToTell) /\ DOMAIN down = Worker
  BY DEF IInv, Queues, Domains
<1>2. pc[w] = call /\ down[w] # <<>> /\ down' = [down EXCEPT ![w] = Tail(@)]
  BY DEF Receive, Arrived
<1>3. down'[w] = Tail(down[w]) /\ DOMAIN down' = Worker /\ \A v \in Worker \ {w} : down'[v] = down[v]
  BY <1>1, <1>2
<1> QED BY <1>1, <1>2, <1>3, Taken

\* A worker sends to its own queue.
LEMMA SentUp ==
  ASSUME IInv, NEW w \in Worker, NEW msgs, SendUp(w, msgs)
  PROVE  /\ DOMAIN up' = Worker /\ \A v \in Worker \ {w} : up'[v] = up[v]
         /\ up'[w] = up[w] \o msgs /\ Between(w, up[w], ToGather, Sends(w))
<1>1. Between(w, up[w], ToGather, Sends(w)) /\ DOMAIN up = Worker
  BY DEF IInv, Queues, Domains
<1> QED BY <1>1 DEF SendUp

\* It sends the one message that is due.
LEMMA SentOne ==
  ASSUME IInv, NEW w \in Worker, NEW m, SendUp(w, <<m>>), Is(w, m, Sends(w))
  PROVE  /\ DOMAIN up' = Worker /\ \A v \in Worker \ {w} : up'[v] = up[v]
         /\ Between(w, up'[w], ToGather, After(Sends(w)))
<1>1. /\ DOMAIN up' = Worker /\ \A v \in Worker \ {w} : up'[v] = up[v]
      /\ up'[w] = up[w] \o <<m>> /\ Between(w, up[w], ToGather, Sends(w))
  BY SentUp
<1>2. Between(w, up[w] \o <<m>>, ToGather, After(Sends(w)))
  BY <1>1, Sent
<1> QED BY <1>1, <1>2

\* It sends nothing.
LEMMA UpStays ==
  ASSUME IInv, NEW w \in Worker, UNCHANGED up
  PROVE  /\ DOMAIN up' = Worker /\ \A v \in Worker \ {w} : up'[v] = up[v]
         /\ Between(w, up'[w], ToGather, Sends(w))
BY DEF IInv, Queues, Domains

\* What the invariant says of a worker.
LEMMA WorkerFacts ==
  ASSUME IInv, NEW w \in Worker
  PROVE  /\ w \in Party /\ w # 0 /\ InPlace(w) /\ Informed(w) /\ WorkerHas(w) /\ OfParties
<1>1. w \in Party /\ w # 0
  BY Sizes
<1> QED BY <1>1 DEF IInv, Domains

-----------------------------------------------------------------------------
(* The steps of a worker.                                                  *)

\* The steps of a worker, one by one: it learns the length of a column,
LEMMA WorkerTotalKeeps == ASSUME IInv, NEW w \in Worker, WorkerTotal(w) PROVE IInv'
<1>1. /\ Receive(w, "total") /\ Becomes(w, "columns") /\ total_chunks' = [total_chunks EXCEPT ![w] = Incoming(w)]
      /\ UNCHANGED <<control, chunks_per_poly, columns, targets, assembling, committed, opening, answering, up>>
  BY DEF WorkerTotal
<1>2. /\ pc[w] = "total" /\ Between(w, down'[w], After(Awaits(w)), ToTell)
      /\ DOMAIN down' = Worker /\ \A v \in Worker \ {w} : down'[v] = down[v]
  BY <1>1, Received
<1>3. /\ w \in Party /\ w # 0 /\ InPlace(w) /\ Informed(w) /\ WorkerHas(w) /\ OfParties
  BY WorkerFacts
<1>4. Alone(w) /\ pc'[w] = "columns" /\ UNCHANGED <<assembling, committed, opening, answering>>
  BY <1>1, <1>3 DEF Alone, OfParties, Becomes, control, targets
<1>5. InPlace(w)' /\ Informed(w)' /\ WorkerHas(w)'
  <2>1. InPlace(w)'
    BY <1>1, <1>2, <1>3, <1>4 DEF InPlace, control, Committing, Beginning, Querying
  <2>2. Informed(w)'
    BY <1>1, <1>2, <1>3, <1>4 DEF Informed, targets, Committing
  <2>3. WorkerHas(w)'
    BY <1>1, <1>2, <1>3, <1>4 DEF WorkerHas, control, Committing, Expects
  <2> QED BY <2>1, <2>2, <2>3
<1>6. After(Awaits(w)) = Awaits(w)' /\ Sends(w)' = Sends(w)
  <2>1. Awaits(w) = <<"total", commit[w], 0>> /\ Awaits(w)' = <<"columns", commit[w], 0>>
    BY <1>1, <1>2, <1>4 DEF Awaits, control
  <2>2. Sends(w)' = Sends(w)
    BY <1>1, <1>2, <1>4 DEF Sends, control
  <2> QED BY <2>1, <2>2, AfterDownIs
<1>7. /\ DOMAIN up' = Worker /\ \A v \in Worker \ {w} : up'[v] = up[v]
      /\ Between(w, up'[w], ToGather, Sends(w))
  BY <1>1, UpStays
<1> QED BY <1>2, <1>4, <1>5, <1>6, <1>7, WorkerFrame

\* The sums, once a party knows the targets.
LEMMA AddendIs ==
  ASSUME NEW p, to_commit[p] = PointToCommit, to_poly[p] = PointToPoly
  PROVE  /\ \A sum : Addend(p, sum) = Contribution(p, sum)
         /\ SumcheckRounds(p) = SumRounds
<1>1. \A sum : Addend(p, sum) = Contribution(p, sum)
  BY DEF Addend, Contribution, Share, Points
<1>2. SumcheckRounds(p) = SumRounds
  BY DEF SumcheckRounds, SumRounds, Points
<1> QED BY <1>1, <1>2

\* sends its small portions and the matrices of the large ones,
LEMMA WorkerCommitsKeeps == ASSUME IInv, NEW w \in Worker, WorkerCommits(w) PROVE IInv'
<1> DEFINE c == commit[w]
           chunks == LocalChunks(w, c)
           v0 == Msg("matrix", RowsOf(chunks))
           f0 == Msg("matrix", CoeffsOf(chunks))
           evals == Msg("matrix", chunks)
           small == SmallPortions(w, c)
           three == <<v0, f0, evals>>
           counts == [q \in DOMAIN LocalVars[c] |-> IF IsLarge(c, q) THEN LargeCount(c, q) ELSE SmallCount(c, q)]
<1>1. /\ pc[w] = "commit" /\ SendUp(w, small \o three) /\ Becomes(w, "total")
      /\ chunks_per_poly' = [chunks_per_poly EXCEPT ![w] = Append(@, counts)]
      /\ UNCHANGED <<control, columns, total_chunks, targets, assembling, committed, opening, answering, down>>
  BY DEF WorkerCommits
<1> HIDE DEF counts
<1>2. /\ DOMAIN up' = Worker /\ \A v \in Worker \ {w} : up'[v] = up[v]
      /\ up'[w] = up[w] \o (small \o three) /\ Between(w, up[w], ToGather, Sends(w))
  BY <1>1, SentUp
<1>3. /\ w \in Party /\ w # 0 /\ InPlace(w) /\ Informed(w) /\ WorkerHas(w) /\ OfParties
  BY WorkerFacts
<1>4. Alone(w) /\ pc'[w] = "total" /\ UNCHANGED <<assembling, committed, opening, answering>>
  BY <1>1, <1>3 DEF Alone, OfParties, Becomes, control, targets
<1>5. InPlace(w)' /\ Informed(w)' /\ WorkerHas(w)'
  <2>1. InPlace(w)'
    BY <1>1, <1>3, <1>4 DEF InPlace, control, Committing, Beginning, Querying
  <2>2. Informed(w)'
    BY <1>1, <1>3, <1>4 DEF Informed, targets, Committing
  <2>3. chunks_per_poly'[w] = Append(chunks_per_poly[w], counts) /\ Has(chunks_per_poly[w], c - 1)
    BY <1>1, <1>3 DEF WorkerHas, OfParties
  <2>4. Has(chunks_per_poly'[w], (c - 1) + 1)
    BY <2>3, IsAppend DEF Has
  <2>5. c \in Nat /\ (c - 1) + 1 = c
    BY <1>3, Sizes DEF InPlace
  <2>6. WorkerHas(w)'
    BY <1>1, <1>3, <1>4, <2>4, <2>5 DEF WorkerHas, control, Committing, Expects
  <2> QED BY <2>1, <2>2, <2>6
<1>6. c \in 1..Cs /\ Sends(w) = FromPoly(c, 1)
  BY <1>1, <1>3 DEF InPlace, Sends
<1>7. Awaits(w)' = Awaits(w) /\ Sends(w)' = <<"roots", c, 0>>
  <2>1. Awaits(w)' = Awaits(w)
    BY <1>1, <1>4 DEF Awaits, control
  <2>2. Sends(w)' = <<"roots", c, 0>>
    BY <1>1, <1>4 DEF Sends, control
  <2> QED BY <2>1, <2>2
<1>8. Between(w, up[w] \o small, ToGather, <<"v0", c, 0>>) /\ IsSeq(small)
  BY <1>2, <1>6, SmallSent
<1>9. /\ Is(w, v0, <<"v0", c, 0>>) /\ Is(w, f0, <<"f0", c, 0>>) /\ Is(w, evals, <<"evals", c, 0>>)
  BY DEF Is, Msg, TypeOf, Gathers, Says, Exact
<1> HIDE DEF v0, f0, evals, small
<1>10. Between(w, (up[w] \o small) \o three, ToGather, <<"roots", c, 0>>)
  <2>1. /\ After(<<"v0", c, 0>>) = <<"f0", c, 0>> /\ After(<<"f0", c, 0>>) = <<"evals", c, 0>>
        /\ After(<<"evals", c, 0>>) = <<"roots", c, 0>>
    BY AfterUpIs
  <2>2. Between(w, (up[w] \o small) \o three, ToGather, After(After(After(<<"v0", c, 0>>))))
    BY <1>8, <1>9, <2>1, SentMore
  <2> QED BY <2>1, <2>2
<1>11. (up[w] \o small) \o three = up[w] \o (small \o three)
  <2>1. IsSeq(up[w]) /\ IsSeq(three)
    <3>1. three \in Seq({v0, f0, evals})
      OBVIOUS
    <3> QED BY <1>2, <3>1, SeqIs DEF Between
  <2> HIDE DEF three
  <2>2. Assoc(up[w], small, three)
    BY ONLY <1>8, <2>1, IsAssoc
  <2> QED BY <2>2 DEF Assoc
<1>12. Between(w, up'[w], ToGather, Sends(w)')
  BY <1>2, <1>7, <1>10, <1>11
<1>13. Between(w, down'[w], Awaits(w)', ToTell) /\ DOMAIN down' = Worker /\ \A v \in Worker \ {w} : down'[v] = down[v]
  BY <1>1, <1>7 DEF IInv, Queues, Domains
<1> QED BY <1>2, <1>4, <1>5, <1>12, <1>13, WorkerFrame

\* sends the root of its columns and goes to the next commitment,
LEMMA WorkerColumnsKeeps == ASSUME IInv, NEW w \in Worker, WorkerColumns(w) PROVE IInv'
<1> DEFINE c == commit[w]
           last == ~(c < Cs)
<1>1. PICK mine, m :
        /\ Receive(w, "columns") /\ NextCommit(w, "points")
        /\ columns' = [columns EXCEPT ![w] = Append(@, mine)]
        /\ SendUp(w, <<m>>) /\ m.type = "digest"
        /\ UNCHANGED <<round, queries, chunks_per_poly, total_chunks, targets, assembling, committed,
                       opening, answering>>
  BY DEF WorkerColumns, Msg
<1>2. /\ pc[w] = "columns" /\ Between(w, down'[w], After(Awaits(w)), ToTell)
      /\ DOMAIN down' = Worker /\ \A v \in Worker \ {w} : down'[v] = down[v]
  BY <1>1, Received
<1>3. /\ w \in Party /\ w # 0 /\ InPlace(w) /\ Informed(w) /\ WorkerHas(w) /\ OfParties
  BY WorkerFacts
<1>4. /\ Alone(w) /\ UNCHANGED <<assembling, committed, opening, answering>>
      /\ pc'[w] = IF last THEN "points" ELSE "commit"
      /\ commit'[w] = IF last THEN 1 ELSE c + 1
      /\ round'[w] = round[w] /\ queries'[w] = queries[w]
  BY <1>1, <1>3 DEF Alone, OfParties, Becomes, NextCommit, targets, Cs
<1>5. c \in 1..Cs /\ Cs \in Nat /\ Cs >= 1 /\ (last => c = Cs) /\ (~last => c + 1 \in 1..Cs)
  BY <1>3, Sizes DEF InPlace
<1>6. InPlace(w)' /\ Informed(w)' /\ WorkerHas(w)'
  <2>1. InPlace(w)'
    BY <1>2, <1>3, <1>4, <1>5 DEF InPlace, Committing, Beginning, Querying
  <2>2. Informed(w)'
    BY <1>1, <1>2, <1>3, <1>4 DEF Informed, targets, Committing
  <2>3. columns'[w] = Append(columns[w], mine) /\ Has(columns[w], c - 1) /\ Has(chunks_per_poly'[w], c)
    BY <1>1, <1>2, <1>3 DEF WorkerHas, Committing, OfParties
  <2>4. Has(columns'[w], (c - 1) + 1)
    BY <2>3, IsAppend DEF Has
  <2>5. Has(columns'[w], c) /\ (c + 1) - 1 = c
    BY <1>5, <2>4
  <2>6. WorkerHas(w)'
    BY <1>4, <1>5, <2>3, <2>5 DEF WorkerHas, Committing, Expects
  <2> QED BY <2>1, <2>2, <2>6
<1>7. After(Awaits(w)) = Awaits(w)' /\ After(Sends(w)) = Sends(w)' /\ Is(w, m, Sends(w))
  <2>1. Awaits(w) = <<"columns", c, 0>> /\ Sends(w) = <<"roots", c, 0>>
    BY <1>2 DEF Awaits, Sends
  <2>2. After(Awaits(w)) = FromTotal(c + 1) /\ After(Sends(w)) = FromCommit(c + 1)
    BY <2>1, AfterDownIs, AfterUpIs
  <2>3. Awaits(w)' = IF last THEN <<"points", 0, 0>> ELSE <<"total", c + 1, 0>>
    BY <1>4 DEF Awaits
  <2>4. Sends(w)' = IF last THEN <<"claims", 0, 0>> ELSE FromPoly(c + 1, 1)
    BY <1>4 DEF Sends
  <2>5. Is(w, m, Sends(w))
    BY <1>1, <2>1 DEF Is, TypeOf, Gathers, Exact
  <2> QED BY <1>5, <2>2, <2>3, <2>4, <2>5 DEF FromTotal, FromCommit
<1>8. /\ DOMAIN up' = Worker /\ \A v \in Worker \ {w} : up'[v] = up[v]
      /\ Between(w, up'[w], ToGather, After(Sends(w)))
  BY <1>1, <1>7, SentOne
<1> QED BY <1>2, <1>4, <1>6, <1>7, <1>8, WorkerFrame

\* learns the polynomials that the points are about,
LEMMA WorkerToPolyKeeps == ASSUME IInv, NEW w \in Worker, WorkerToPoly(w) PROVE IInv'
<1>1. /\ Receive(w, "to_poly") /\ Becomes(w, "to_commit") /\ to_poly' = [to_poly EXCEPT ![w] = Incoming(w)]
      /\ UNCHANGED <<control, advices, to_commit, assembling, committed, opening, answering, up>>
  BY DEF WorkerToPoly
<1>2. /\ pc[w] = "to_poly" /\ Is(w, Head(down[w]), Awaits(w)) /\ Between(w, down'[w], After(Awaits(w)), ToTell)
      /\ DOMAIN down' = Worker /\ \A v \in Worker \ {w} : down'[v] = down[v]
  BY <1>1, Received
<1>3. /\ w \in Party /\ w # 0 /\ InPlace(w) /\ Informed(w) /\ WorkerHas(w) /\ OfParties
  BY WorkerFacts
<1>4. /\ Alone(w) /\ pc'[w] = "to_commit" /\ UNCHANGED <<assembling, committed, opening, answering>>
      /\ to_poly'[w] = Incoming(w)
  BY <1>1, <1>3 DEF Alone, OfParties, Becomes, control, advices
<1>5. /\ Awaits(w) = <<"to_poly", 0, 0>> /\ Awaits(w)' = <<"to_commit", 0, 0>>
      /\ Sends(w) = <<"claims", 0, 0>> /\ Sends(w)' = <<"claims", 0, 0>>
  BY <1>2, <1>4 DEF Awaits, Sends
<1>6. Incoming(w) = PointToPoly
  BY <1>2, <1>5 DEF Is, Exact, Says, Incoming
<1>7. InPlace(w)' /\ Informed(w)' /\ WorkerHas(w)'
  <2>1. InPlace(w)'
    BY <1>1, <1>2, <1>3, <1>4 DEF InPlace, control, Committing, Beginning, Querying
  <2>2. Informed(w)'
    BY <1>1, <1>2, <1>3, <1>4, <1>6 DEF Informed, Committing
  <2>3. WorkerHas(w)'
    BY <1>1, <1>2, <1>3, <1>4 DEF WorkerHas, control, advices, Committing, Expects
  <2> QED BY <2>1, <2>2, <2>3
<1>8. After(Awaits(w)) = Awaits(w)' /\ Sends(w)' = Sends(w)
  BY <1>5, AfterDownIs
<1>9. /\ DOMAIN up' = Worker /\ \A v \in Worker \ {w} : up'[v] = up[v]
      /\ Between(w, up'[w], ToGather, Sends(w))
  BY <1>1, UpStays
<1> QED BY <1>2, <1>4, <1>7, <1>8, <1>9, WorkerFrame

\* learns their commitments and contributes to the claims,
LEMMA WorkerClaimsKeeps == ASSUME IInv, NEW w \in Worker, WorkerClaims(w) PROVE IInv'
<1> DEFINE m == Msg("values", [sum |-> <<"claims">>,
                   of |-> [k \in DOMAIN Incoming(w) |-> <<w, Incoming(w)[k], to_poly[w][k]>>]])
<1>1. /\ Receive(w, "to_commit") /\ Becomes(w, "claimed") /\ SendUp(w, <<m>>)
      /\ to_commit' = [to_commit EXCEPT ![w] = Incoming(w)]
      /\ Unmoved /\ UNCHANGED <<control, to_poly>>
  BY DEF WorkerClaims
<1>2. /\ pc[w] = "to_commit" /\ Is(w, Head(down[w]), Awaits(w)) /\ Between(w, down'[w], After(Awaits(w)), ToTell)
      /\ DOMAIN down' = Worker /\ \A v \in Worker \ {w} : down'[v] = down[v]
  BY <1>1, Received
<1>3. /\ w \in Party /\ w # 0 /\ InPlace(w) /\ Informed(w) /\ WorkerHas(w) /\ OfParties
  BY WorkerFacts
<1>4. /\ Alone(w) /\ pc'[w] = "claimed" /\ UNCHANGED <<assembling, committed, opening, answering>>
      /\ to_commit'[w] = Incoming(w)
  BY <1>1, <1>3 DEF Alone, OfParties, Becomes, control, advices, Unmoved
<1>5. /\ Awaits(w) = <<"to_commit", 0, 0>> /\ Awaits(w)' = <<"claimed", 0, 0>>
      /\ Sends(w) = <<"claims", 0, 0>> /\ Sends(w)' = <<"sumcheck", 1, 0>>
  BY <1>2, <1>4 DEF Awaits, Sends
<1>6. Incoming(w) = PointToCommit /\ to_poly[w] = PointToPoly
  BY <1>2, <1>3, <1>5 DEF Is, Exact, Says, Incoming, Informed, Committing
<1>7. InPlace(w)' /\ Informed(w)' /\ WorkerHas(w)'
  <2>1. InPlace(w)'
    BY <1>1, <1>2, <1>3, <1>4 DEF InPlace, control, Committing, Beginning, Querying
  <2>2. Informed(w)'
    BY <1>1, <1>2, <1>3, <1>4, <1>6 DEF Informed, Committing
  <2>3. WorkerHas(w)'
    BY <1>1, <1>2, <1>3, <1>4 DEF WorkerHas, control, advices, Committing, Expects, Unmoved
  <2> QED BY <2>1, <2>2, <2>3
<1>8. Is(w, m, Sends(w))
  <2>1. m.type = "values" /\ m.val = Contribution(w, <<"claims">>)
    BY <1>6 DEF Msg, Contribution, Points
  <2> QED BY <1>5, <2>1 DEF Is, TypeOf, Gathers, Exact, Says
<1>9. /\ DOMAIN up' = Worker /\ \A v \in Worker \ {w} : up'[v] = up[v]
      /\ Between(w, up'[w], ToGather, After(Sends(w)))
  BY <1>1, <1>8, SentOne
<1>10. After(Awaits(w)) = Awaits(w)' /\ After(Sends(w)) = Sends(w)'
  BY <1>5, AfterDownIs, AfterUpIs
<1> QED BY <1>2, <1>4, <1>7, <1>9, <1>10, WorkerFrame

\* begins the sumcheck,
LEMMA WorkerGammaKeeps == ASSUME IInv, NEW w \in Worker, WorkerGamma(w) PROVE IInv'
<1> DEFINE m == Msg("round", Addend(w, <<"round", 1>>))
<1>1. Receive(w, "gamma") /\ Becomes(w, "challenge") /\ SendUp(w, <<m>>) /\ Unmoved /\ UNCHANGED <<control, targets>>
  BY DEF WorkerGamma
<1>2. /\ pc[w] = "gamma" /\ Is(w, Head(down[w]), Awaits(w)) /\ Between(w, down'[w], After(Awaits(w)), ToTell)
      /\ DOMAIN down' = Worker /\ \A v \in Worker \ {w} : down'[v] = down[v]
  BY <1>1, Received
<1>3. /\ w \in Party /\ w # 0 /\ InPlace(w) /\ Informed(w) /\ WorkerHas(w) /\ OfParties
  BY WorkerFacts
<1>4. Alone(w) /\ pc'[w] = "challenge" /\ UNCHANGED <<assembling, committed, opening, answering>>
  BY <1>1, <1>3 DEF Alone, OfParties, Becomes, control, advices, targets, Unmoved
<1>5. /\ Awaits(w) = <<"gamma", 0, 0>> /\ Awaits(w)' = <<"challenge", 1, 0>>
      /\ Sends(w) = <<"sumcheck", 1, 0>> /\ Sends(w)' = AfterUp(<<"sumcheck", 1, 0>>)
  BY <1>1, <1>2, <1>3, <1>4 DEF Awaits, Sends, InPlace, Beginning, control
<1>6. InPlace(w)' /\ Informed(w)' /\ WorkerHas(w)'
  <2>1. InPlace(w)'
    BY <1>1, <1>2, <1>3, <1>4 DEF InPlace, control, Committing, Beginning, Querying
  <2>2. Informed(w)'
    BY <1>1, <1>2, <1>3, <1>4 DEF Informed, Committing, targets
  <2>3. WorkerHas(w)'
    BY <1>1, <1>2, <1>3, <1>4 DEF WorkerHas, control, advices, Committing, Expects, Unmoved
  <2> QED BY <2>1, <2>2, <2>3
<1>7. Is(w, m, Sends(w))
  <2>1. to_commit[w] = PointToCommit /\ to_poly[w] = PointToPoly
    BY <1>2, <1>3 DEF Informed, Committing
  <2>2. m.type = "round" /\ m.val = Contribution(w, <<"round", 1>>)
    BY <2>1, AddendIs DEF Msg
  <2> QED BY <1>5, <2>2 DEF Is, TypeOf, Gathers, Exact, Says
<1>8. /\ DOMAIN up' = Worker /\ \A v \in Worker \ {w} : up'[v] = up[v]
      /\ Between(w, up'[w], ToGather, After(Sends(w)))
  BY <1>1, <1>7, SentOne
<1>9. After(Awaits(w)) = Awaits(w)' /\ After(Sends(w)) = Sends(w)'
  BY <1>5, AfterDownIs, AfterUpIs
<1> QED BY <1>2, <1>4, <1>6, <1>8, <1>9, WorkerFrame

\* ends it,
LEMMA WorkerSumEvalsKeeps == ASSUME IInv, NEW w \in Worker, WorkerSumEvals(w) PROVE IInv'
<1> DEFINE m == Msg("values", Addend(w, <<"evals">>))
<1>1. Receive(w, "proof") /\ Becomes(w, "gamma_combined") /\ SendUp(w, <<m>>) /\ Unmoved /\ UNCHANGED <<control, targets>>
  BY DEF WorkerSumEvals
<1>2. /\ pc[w] = "proof" /\ Is(w, Head(down[w]), Awaits(w)) /\ Between(w, down'[w], After(Awaits(w)), ToTell)
      /\ DOMAIN down' = Worker /\ \A v \in Worker \ {w} : down'[v] = down[v]
  BY <1>1, Received
<1>3. /\ w \in Party /\ w # 0 /\ InPlace(w) /\ Informed(w) /\ WorkerHas(w) /\ OfParties
  BY WorkerFacts
<1>4. Alone(w) /\ pc'[w] = "gamma_combined" /\ UNCHANGED <<assembling, committed, opening, answering>>
  BY <1>1, <1>3 DEF Alone, OfParties, Becomes, control, advices, targets, Unmoved
<1>5. /\ Awaits(w) = <<"proof", 0, 0>> /\ Awaits(w)' = <<"gamma_combined", 0, 0>>
      /\ Sends(w) = <<"sum_evals", 0, 0>> /\ Sends(w)' = FromRound(1)
  BY <1>1, <1>2, <1>3, <1>4 DEF Awaits, Sends, InPlace, Beginning, control
<1>6. InPlace(w)' /\ Informed(w)' /\ WorkerHas(w)'
  <2>1. InPlace(w)'
    BY <1>1, <1>2, <1>3, <1>4 DEF InPlace, control, Committing, Beginning, Querying
  <2>2. Informed(w)'
    BY <1>1, <1>2, <1>3, <1>4 DEF Informed, Committing, targets
  <2>3. WorkerHas(w)'
    BY <1>1, <1>2, <1>3, <1>4 DEF WorkerHas, control, advices, Committing, Expects, Unmoved
  <2> QED BY <2>1, <2>2, <2>3
<1>7. Is(w, m, Sends(w))
  <2>1. to_commit[w] = PointToCommit /\ to_poly[w] = PointToPoly
    BY <1>2, <1>3 DEF Informed, Committing
  <2>2. m.type = "values" /\ m.val = Contribution(w, <<"evals">>)
    BY <2>1, AddendIs DEF Msg
  <2> QED BY <1>5, <2>2 DEF Is, TypeOf, Gathers, Exact, Says
<1>8. /\ DOMAIN up' = Worker /\ \A v \in Worker \ {w} : up'[v] = up[v]
      /\ Between(w, up'[w], ToGather, After(Sends(w)))
  BY <1>1, <1>7, SentOne
<1>9. After(Awaits(w)) = Awaits(w)' /\ After(Sends(w)) = Sends(w)'
  BY <1>5, AfterDownIs, AfterUpIs
<1> QED BY <1>2, <1>4, <1>6, <1>8, <1>9, WorkerFrame

\* and answers a challenge of it: with another round or with the last evaluations.
LEMMA WorkerChallengeKeeps == ASSUME IInv, NEW w \in Worker, WorkerChallenge(w) PROVE IInv'
<1> DEFINE i == round[w] + 1
           more == i < SumRounds
           m == IF more THEN Msg("round", Addend(w, <<"round", i + 1>>)) ELSE Msg("elements", Addend(w, <<"final">>))
<1>0. Receive(w, "challenge")
  BY DEF WorkerChallenge
<1>2. /\ pc[w] = "challenge" /\ Is(w, Head(down[w]), Awaits(w)) /\ Between(w, down'[w], After(Awaits(w)), ToTell)
      /\ DOMAIN down' = Worker /\ \A v \in Worker \ {w} : down'[v] = down[v]
  BY <1>0, Received
<1>3. /\ w \in Party /\ w # 0 /\ InPlace(w) /\ Informed(w) /\ WorkerHas(w) /\ OfParties
  BY WorkerFacts
<1>5. to_commit[w] = PointToCommit /\ to_poly[w] = PointToPoly /\ SumcheckRounds(w) = SumRounds
  <2>1. to_commit[w] = PointToCommit /\ to_poly[w] = PointToPoly
    BY <1>2, <1>3 DEF Informed, Committing
  <2> QED BY <2>1, AddendIs
<1>6. round[w] \in Nat /\ SumRounds \in Int /\ commit[w] \in 1..Cs /\ BaseMu \in Nat /\ BaseMu >= 1
  BY <1>3, Rounds, Sizes DEF InPlace
<1>1. /\ SendUp(w, <<m>>) /\ Unmoved /\ UNCHANGED <<commit, queries, targets>>
      /\ round' = [round EXCEPT ![w] = IF more THEN i ELSE 1]
      /\ IF more THEN UNCHANGED pc ELSE Becomes(w, "proof")
  BY <1>5, <1>6 DEF WorkerChallenge
<1>4. /\ Alone(w) /\ UNCHANGED <<assembling, committed, opening, answering>>
      /\ pc'[w] = IF more THEN "challenge" ELSE "proof"
      /\ round'[w] = IF more THEN i ELSE 1
  BY <1>1, <1>2, <1>3 DEF Alone, OfParties, Becomes, advices, targets, Unmoved
<1>7. InPlace(w)' /\ Informed(w)' /\ WorkerHas(w)'
  <2>1. InPlace(w)'
    BY <1>1, <1>2, <1>3, <1>4, <1>6 DEF InPlace, Committing, Beginning, Querying
  <2>2. Informed(w)'
    BY <1>1, <1>2, <1>3, <1>4 DEF Informed, Committing, targets
  <2>3. WorkerHas(w)'
    BY <1>1, <1>2, <1>3, <1>4 DEF WorkerHas, advices, Committing, Expects, Unmoved
  <2> QED BY <2>1, <2>2, <2>3
<1>8. /\ Awaits(w) = <<"challenge", i, 0>> /\ Sends(w) = AfterUp(<<"sumcheck", i, 0>>)
      /\ Awaits(w)' = IF more THEN <<"challenge", i + 1, 0>> ELSE <<"proof", 0, 0>>
      /\ Sends(w)' = IF more THEN AfterUp(<<"sumcheck", i + 1, 0>>) ELSE <<"sum_evals", 0, 0>>
  BY <1>1, <1>2, <1>4 DEF Awaits, Sends
<1>9. Sends(w) = IF more THEN <<"sumcheck", i + 1, 0>> ELSE <<"final", 0, 0>>
  BY <1>8, AfterUpIs
<1>10. Is(w, m, Sends(w))
  <2>1. CASE more
    <3>1. m.type = "round" /\ m.val = Contribution(w, <<"round", i + 1>>)
      BY <1>5, <2>1, AddendIs DEF Msg
    <3> HIDE DEF m
    <3> QED BY <1>9, <2>1, <3>1 DEF Is, TypeOf, Gathers, Exact, Says
  <2>2. CASE ~more
    <3>1. m.type = "elements" /\ m.val = Contribution(w, <<"final">>)
      BY <1>5, <2>2, AddendIs DEF Msg
    <3> HIDE DEF m
    <3> QED BY <1>9, <2>2, <3>1 DEF Is, TypeOf, Gathers, Exact, Says
  <2> QED BY <2>1, <2>2
<1> HIDE DEF m
<1>11. /\ DOMAIN up' = Worker /\ \A v \in Worker \ {w} : up'[v] = up[v]
       /\ Between(w, up'[w], ToGather, After(Sends(w)))
  BY <1>1, <1>10, SentOne
<1>12. After(Awaits(w)) = Awaits(w)' /\ After(Sends(w)) = Sends(w)'
  BY <1>8, <1>9, AfterDownIs, AfterUpIs
<1> QED BY <1>2, <1>4, <1>7, <1>11, <1>12, WorkerFrame

\* What it only takes note of.
LEMMA WorkerHearsKeeps == ASSUME IInv, NEW w \in Worker, WorkerHears(w) PROVE IInv'
<1>1. PICK call \in DOMAIN Then : Receive(w, call) /\ Becomes(w, Then[call])
  BY DEF WorkerHears
<1>2. /\ pc[w] = call /\ Is(w, Head(down[w]), Awaits(w)) /\ Between(w, down'[w], After(Awaits(w)), ToTell)
      /\ DOMAIN down' = Worker /\ \A v \in Worker \ {w} : down'[v] = down[v]
  BY <1>1, Received
<1>3. /\ w \in Party /\ w # 0 /\ InPlace(w) /\ Informed(w) /\ WorkerHas(w) /\ OfParties
  BY WorkerFacts
<1>4. /\ Alone(w) /\ pc'[w] = Then[call] /\ UNCHANGED <<assembling, committed, opening, answering, up>>
      /\ Unmoved /\ UNCHANGED <<control, targets>>
  BY <1>1, <1>3 DEF WorkerHears, Alone, OfParties, Becomes, control, advices, targets, Unmoved
<1>5. \/ call = "points" /\ Then[call] = "to_poly"
      \/ call = "claimed" /\ Then[call] = "gamma"
      \/ call = "gamma_combined" /\ Then[call] = "combined_v0"
      \/ call = "combined_v0" /\ Then[call] = "combined_evals"
      \/ call = "combined_evals" /\ Then[call] = "alpha"
      \/ call = "alpha" /\ Then[call] = "r"
      \/ call = "beta" /\ Then[call] = "position"
  BY DEF Then
<1>6. BaseMu \in Nat /\ BaseMu >= 1
  BY Sizes
<1>7. InPlace(w)' /\ Informed(w)' /\ WorkerHas(w)'
  <2>1. InPlace(w)'
    BY <1>2, <1>3, <1>4, <1>5, <1>6 DEF InPlace, control, Committing, Beginning, Querying
  <2>2. Informed(w)'
    BY <1>2, <1>3, <1>4, <1>5 DEF Informed, Committing, targets
  <2>3. WorkerHas(w)'
    BY <1>2, <1>3, <1>4, <1>5 DEF WorkerHas, control, advices, Committing, Expects, Unmoved
  <2> QED BY <2>1, <2>2, <2>3
<1>8. Sends(w)' = Sends(w)
  BY <1>2, <1>3, <1>4, <1>5 DEF Sends, control, InPlace
<1>9. After(Awaits(w)) = Awaits(w)'
  <2>1. /\ call \in {"points", "claimed", "gamma_combined", "combined_v0"} =>
             Awaits(w) = <<call, 0, 0>> /\ Awaits(w)' = <<Then[call], 0, 0>>
        /\ call = "combined_evals" => Awaits(w) = <<"combined_evals", 0, 0>> /\ Awaits(w)' = <<"alpha", 1, 0>>
        /\ call = "alpha" => Awaits(w) = <<"alpha", round[w], 0>> /\ Awaits(w)' = <<"r", round[w], 0>>
        /\ call = "beta" => Awaits(w) = <<"beta", queries[w], 0>> /\ Awaits(w)' = <<"position", queries[w], 1>>
    BY <1>2, <1>3, <1>4, <1>5 DEF Awaits, control, InPlace, Committing, Querying
  <2> QED BY <1>5, <2>1, AfterDownIs
<1>10. /\ DOMAIN up' = Worker /\ \A v \in Worker \ {w} : up'[v] = up[v]
       /\ Between(w, up'[w], ToGather, Sends(w))
  BY <1>4, UpStays
<1> QED BY <1>2, <1>4, <1>7, <1>8, <1>9, <1>10, WorkerFrame

\* It sends the leaves of a round that is spread, and none of another,
LEMMA WorkerRoundKeeps == ASSUME IInv, NEW w \in Worker, WorkerRound(w) PROVE IInv'
<1> DEFINE i == round[w]
           m == Msg("digests", LeavesOf(w, i))
<1>1. /\ Receive(w, "r") /\ Becomes(w, IF i < BaseMu THEN "alpha" ELSE "beta")
      /\ IF IsSpread(i) THEN SendUp(w, <<m>>) ELSE UNCHANGED up
      /\ round' = [round EXCEPT ![w] = @ + 1]
      /\ Unmoved /\ UNCHANGED <<commit, queries, targets>>
  BY DEF WorkerRound
<1>2. /\ pc[w] = "r" /\ Is(w, Head(down[w]), Awaits(w)) /\ Between(w, down'[w], After(Awaits(w)), ToTell)
      /\ DOMAIN down' = Worker /\ \A v \in Worker \ {w} : down'[v] = down[v]
  BY <1>1, Received
<1>3. /\ w \in Party /\ w # 0 /\ InPlace(w) /\ Informed(w) /\ WorkerHas(w) /\ OfParties
  BY WorkerFacts
<1>4. /\ Alone(w) /\ UNCHANGED <<assembling, committed, opening, answering>>
      /\ pc'[w] = (IF i < BaseMu THEN "alpha" ELSE "beta") /\ round'[w] = i + 1
  BY <1>1, <1>3 DEF Alone, OfParties, Becomes, advices, targets, Unmoved
<1>5. i \in 1..BaseMu /\ BaseMu \in Nat /\ queries[w] = 0 /\ commit[w] = 1 /\ S \in Nat /\ S >= 1
  BY <1>2, <1>3, Sizes DEF InPlace, Committing, Querying
<1>6. InPlace(w)' /\ Informed(w)' /\ WorkerHas(w)'
  <2>1. InPlace(w)'
    BY <1>1, <1>2, <1>3, <1>4, <1>5 DEF InPlace, Committing, Beginning, Querying
  <2>2. Informed(w)'
    BY <1>1, <1>2, <1>3, <1>4 DEF Informed, Committing, targets
  <2>3. WorkerHas(w)'
    BY <1>1, <1>2, <1>3, <1>4 DEF WorkerHas, advices, Committing, Expects, Unmoved
  <2> QED BY <2>1, <2>2, <2>3
<1>7. /\ Awaits(w) = <<"r", i, 0>> /\ Sends(w) = FromRound(i)
      /\ Awaits(w)' = IF i < BaseMu THEN <<"alpha", i + 1, 0>> ELSE <<"beta", 0, 0>>
      /\ Sends(w)' = IF i < BaseMu THEN FromRound(i + 1) ELSE <<"column", 0, 1>>
  BY <1>1, <1>2, <1>4, <1>5 DEF Awaits, Sends
<1>8. After(Awaits(w)) = Awaits(w)'
  BY <1>7, AfterDownIs
<1>9. /\ DOMAIN up' = Worker /\ \A v \in Worker \ {w} : up'[v] = up[v]
      /\ Between(w, up'[w], ToGather, Sends(w)')
  <2>1. CASE IsSpread(i)
    <3>1. Sends(w) = <<"leaves", i, 0>> /\ i < BaseMu
      BY <1>5, <1>7, <2>1, RoundDue
    <3>2. Is(w, m, Sends(w))
      BY <3>1 DEF Is, Msg, TypeOf, Gathers, Exact, Says
    <3>3. After(Sends(w)) = Sends(w)'
      BY <1>7, <3>1, AfterUpIs
    <3> QED BY <1>1, <2>1, <3>2, <3>3, SentOne
  <2>2. CASE ~IsSpread(i)
    <3>1. Sends(w)' = Sends(w)
      <4>1. CASE i < BaseMu
        BY <1>5, <1>7, <2>2, <4>1, RoundDue
      <4>2. CASE i = BaseMu
        BY <1>5, <1>7, <4>2, RoundsDone
      <4> QED BY <1>5, <4>1, <4>2
    <3> QED BY <1>1, <2>2, <3>1, UpStays
  <2> QED BY <2>1, <2>2
<1> QED BY <1>2, <1>4, <1>6, <1>8, <1>9, WorkerFrame

\* The end of a query is the same for all parties.
LEMMA NextOpeningIs ==
  ASSUME NEW p \in Party, OfParties, NEW again, NEW after, NextOpening(p, again, after), InPlace(p),
         pc[p] \in Querying
  PROVE  LET c == commit[p]
             q == queries[p]
             last == c = Cs
         IN  /\ \A x \in Party \ {p} : pc'[x] = pc[x] /\ commit'[x] = commit[x] /\ queries'[x] = queries[x]
             /\ {DOMAIN pc', DOMAIN commit', DOMAIN queries'} = {Party}
             /\ commit'[p] = (IF last THEN 1 ELSE c + 1) /\ queries'[p] = (IF last THEN q + 1 ELSE q)
             /\ pc'[p] = IF ~last THEN again ELSE IF q + 1 < S THEN after ELSE "done"
             /\ c \in 1..Cs /\ Cs \in Nat /\ Cs >= 1 /\ (~last => c + 1 \in 1..Cs) /\ q \in 0..S /\ q < S /\ S \in Nat
<1>1. commit[p] \in 1..Cs /\ queries[p] \in 0..S /\ queries[p] < S /\ Cs \in Nat /\ Cs >= 1 /\ S \in Nat
  BY Sizes DEF InPlace
<1>2. DOMAIN pc = Party /\ DOMAIN commit = Party /\ DOMAIN queries = Party
  BY DEF OfParties
<1> DEFINE last == commit[p] = Cs
           call == IF ~last THEN again ELSE IF queries[p] + 1 < S THEN after ELSE "done"
<1>3. /\ commit' = [commit EXCEPT ![p] = IF last THEN 1 ELSE commit[p] + 1]
      /\ queries' = [queries EXCEPT ![p] = IF last THEN queries[p] + 1 ELSE queries[p]]
      /\ pc' = [pc EXCEPT ![p] = call]
  BY DEF NextOpening, Becomes, Cs
<1>4. /\ commit'[p] = (IF last THEN 1 ELSE commit[p] + 1)
      /\ queries'[p] = (IF last THEN queries[p] + 1 ELSE queries[p]) /\ pc'[p] = call
      /\ {DOMAIN pc', DOMAIN commit', DOMAIN queries'} = {Party}
      /\ \A x \in Party \ {p} : pc'[x] = pc[x] /\ commit'[x] = commit[x] /\ queries'[x] = queries[x]
  <2> HIDE DEF last, call
  <2> QED BY <1>2, <1>3
<1>5. ~last => commit[p] + 1 \in 1..Cs
  BY <1>1
<1> QED BY <1>1, <1>4, <1>5

\* and the three parts of its answer to a query.
LEMMA WorkerPositionKeeps == ASSUME IInv, NEW w \in Worker, WorkerPosition(w) PROVE IInv'
<1> DEFINE c == commit[w]
           q == queries[w]
           last == c = Cs
           a == LocalAnswer(w, c, Incoming(w))
           x == Msg("elements", a.column)
           y == Msg("digests", a.proof)
           z == Msg("digest", a.hash)
<1>0. x.type = "elements" /\ y.type = "digests" /\ z.type = "digest"
  BY DEF Msg
<1>1. /\ Receive(w, "position") /\ NextOpening(w, "position", "beta") /\ SendUp(w, <<x, y, z>>)
      /\ Unmoved /\ UNCHANGED <<round, targets>>
  BY DEF WorkerPosition, Reply
<1> HIDE DEF x, y, z
<1>2. /\ pc[w] = "position" /\ Is(w, Head(down[w]), Awaits(w)) /\ Between(w, down'[w], After(Awaits(w)), ToTell)
      /\ DOMAIN down' = Worker /\ \A v \in Worker \ {w} : down'[v] = down[v]
  BY <1>1, Received
<1>3. /\ w \in Party /\ w # 0 /\ InPlace(w) /\ Informed(w) /\ WorkerHas(w) /\ OfParties
  BY WorkerFacts
<1>4. /\ \A v \in Party \ {w} : pc'[v] = pc[v] /\ commit'[v] = commit[v] /\ queries'[v] = queries[v]
      /\ {DOMAIN pc', DOMAIN commit', DOMAIN queries'} = {Party}
      /\ commit'[w] = (IF last THEN 1 ELSE c + 1) /\ queries'[w] = (IF last THEN q + 1 ELSE q)
      /\ pc'[w] = IF ~last THEN "position" ELSE IF q + 1 < S THEN "beta" ELSE "done"
      /\ c \in 1..Cs /\ Cs \in Nat /\ Cs >= 1 /\ (~last => c + 1 \in 1..Cs) /\ q \in 0..S /\ q < S /\ S \in Nat
  BY <1>1, <1>2, <1>3, NextOpeningIs DEF Querying
<1>5. Alone(w) /\ UNCHANGED <<assembling, committed, opening, answering>>
  BY <1>1, <1>3, <1>4 DEF Alone, OfParties, advices, targets, Unmoved
<1>6. InPlace(w)' /\ Informed(w)' /\ WorkerHas(w)'
  <2>1. InPlace(w)'
    BY <1>1, <1>2, <1>3, <1>4 DEF InPlace, Committing, Beginning, Querying
  <2>2. Informed(w)'
    BY <1>1, <1>2, <1>3, <1>4 DEF Informed, Committing, targets
  <2>3. WorkerHas(w)'
    BY <1>1, <1>2, <1>3, <1>4 DEF WorkerHas, advices, Committing, Expects, Unmoved
  <2> QED BY <2>1, <2>2, <2>3
<1>7. /\ Awaits(w) = <<"position", q, c>> /\ Sends(w) = <<"column", q, c>>
      /\ Awaits(w)' = FromPosition(q, c + 1) /\ Sends(w)' = FromColumn(q, c + 1)
  <2>1. Awaits(w) = <<"position", q, c>> /\ Sends(w) = <<"column", q, c>>
    BY <1>2 DEF Awaits, Sends
  <2>2. Awaits(w)' = FromPosition(q, c + 1)
    BY <1>4 DEF Awaits, FromPosition
  <2>3. Sends(w)' = FromColumn(q, c + 1)
    BY <1>4 DEF Sends, FromColumn
  <2> QED BY <2>1, <2>2, <2>3
<1>8. After(Awaits(w)) = Awaits(w)'
  BY <1>7, AfterDownIs
<1>9. /\ After(<<"column", q, c>>) = <<"local_proof", q, c>> /\ After(<<"local_proof", q, c>>) = <<"hash", q, c>>
      /\ After(<<"hash", q, c>>) = FromColumn(q, c + 1)
  BY AfterUpIs
<1>10. /\ Is(w, x, <<"column", q, c>>) /\ Is(w, y, <<"local_proof", q, c>>) /\ Is(w, z, <<"hash", q, c>>)
  BY <1>0 DEF Is, TypeOf, Gathers, Exact
<1>11. /\ DOMAIN up' = Worker /\ \A v \in Worker \ {w} : up'[v] = up[v]
       /\ up'[w] = up[w] \o <<x, y, z>> /\ Between(w, up[w], ToGather, Sends(w))
  BY <1>1, SentUp
<1>12. Between(w, up[w] \o <<x, y, z>>, ToGather, After(After(After(<<"column", q, c>>))))
  <2>1. Between(w, up[w], ToGather, <<"column", q, c>>)
    BY <1>7, <1>11
  <2>2. Is(w, y, After(<<"column", q, c>>)) /\ Is(w, z, After(After(<<"column", q, c>>)))
    BY <1>9, <1>10
  <2> QED BY <1>10, <2>1, <2>2, SentMore
<1>13. Between(w, up'[w], ToGather, Sends(w)')
  BY <1>7, <1>9, <1>11, <1>12
<1> QED BY <1>2, <1>5, <1>6, <1>8, <1>11, <1>13, WorkerFrame

-----------------------------------------------------------------------------
(* The messages of a step of the master.                                   *)

\* What the invariant says of the master.
LEMMA MasterFacts ==
  ASSUME IInv
  PROVE  /\ 0 \in Party /\ InPlace(0) /\ Informed(0) /\ MasterHas /\ OfParties
         /\ DOMAIN up = Worker /\ DOMAIN down = Worker
         /\ IsSeq(sums) /\ SumsComplete
BY Sizes DEF IInv, Domains

\* A gather takes from every worker the message that is due.
LEMMA MasterGathers ==
  ASSUME IInv, NEW call, Gathered(call)
  PROVE  /\ pc[0] = call /\ DOMAIN up' = Worker
         /\ \A w \in Worker : Is(w, Head(up[w]), ToGather) /\ Between(w, up'[w], After(ToGather), Sends(w))
<1>1. pc[0] = call /\ up' = [w \in Worker |-> Tail(up[w])] /\ \A w \in Worker : up[w] # <<>>
  BY DEF Gathered, CanGather
<1>2. ASSUME NEW w \in Worker
      PROVE  Is(w, Head(up[w]), ToGather) /\ Between(w, Tail(up[w]), After(ToGather), Sends(w))
  <2>1. Between(w, up[w], ToGather, Sends(w)) /\ up[w] # <<>>
    BY <1>1 DEF IInv, Queues
  <2> QED BY <2>1, Taken
<1> QED BY <1>1, <1>2

\* Nothing is gathered.
LEMMA UpAllStay ==
  ASSUME IInv, UNCHANGED up
  PROVE  DOMAIN up' = Worker /\ \A w \in Worker : Between(w, up'[w], ToGather, Sends(w))
BY DEF IInv, Queues, Domains

\* Nothing is told.
LEMMA DownAllStay ==
  ASSUME IInv, UNCHANGED down
  PROVE  DOMAIN down' = Worker /\ \A w \in Worker : Between(w, down'[w], Awaits(w), ToTell)
BY DEF IInv, Queues, Domains

\* A message is told to every worker,
LEMMA SentDown ==
  ASSUME IInv, NEW msgs, SendDown(msgs)
  PROVE  /\ DOMAIN down' = Worker
         /\ \A w \in Worker : down'[w] = down[w] \o msgs[w] /\ Between(w, down[w], Awaits(w), ToTell)
BY DEF SendDown, IInv, Queues

\* the same one to all of them,
LEMMA ToldAll ==
  ASSUME IInv, NEW msgs, Uniform(msgs)
  PROVE  /\ DOMAIN down' = Worker
         /\ \A w \in Worker : down'[w] = down[w] \o msgs /\ Between(w, down[w], Awaits(w), ToTell)
<1> DEFINE all == [w \in Worker |-> msgs]
<1>1. SendDown(all)
  BY DEF Uniform
<1>2. \A w \in Worker : all[w] = msgs
  OBVIOUS
<1> HIDE DEF all
<1> QED BY <1>1, <1>2, SentDown

\* which is the one that is due,
LEMMA ToldOne ==
  ASSUME IInv, NEW a, Uniform(<<a>>), \A w \in Worker : Is(w, a, ToTell)
  PROVE  DOMAIN down' = Worker /\ \A w \in Worker : Between(w, down'[w], Awaits(w), After(ToTell))
<1>1. /\ DOMAIN down' = Worker
      /\ \A w \in Worker : down'[w] = down[w] \o <<a>> /\ Between(w, down[w], Awaits(w), ToTell)
  BY ToldAll
<1>2. ASSUME NEW w \in Worker PROVE Between(w, down[w] \o <<a>>, Awaits(w), After(ToTell))
  BY <1>1, Sent
<1> QED BY <1>1, <1>2

\* or two,
LEMMA ToldTwo ==
  ASSUME IInv, NEW a, NEW b, Uniform(<<a, b>>),
         \A w \in Worker : Is(w, a, ToTell) /\ Is(w, b, After(ToTell))
  PROVE  DOMAIN down' = Worker /\ \A w \in Worker : Between(w, down'[w], Awaits(w), After(After(ToTell)))
<1>1. /\ DOMAIN down' = Worker
      /\ \A w \in Worker : down'[w] = down[w] \o <<a, b>> /\ Between(w, down[w], Awaits(w), ToTell)
  BY ToldAll
<1>2. ASSUME NEW w \in Worker PROVE Between(w, down[w] \o <<a, b>>, Awaits(w), After(After(ToTell)))
  <2>1. Between(w, down[w], Awaits(w), ToTell) /\ Is(w, a, ToTell) /\ Is(w, b, After(ToTell))
    BY <1>1
  <2> QED BY ONLY <2>1, SentMore
<1> QED BY <1>1, <1>2

\* or three.
LEMMA ToldThree ==
  ASSUME IInv, NEW a, NEW b, NEW c, Uniform(<<a, b, c>>),
         \A w \in Worker : Is(w, a, ToTell) /\ Is(w, b, After(ToTell)) /\ Is(w, c, After(After(ToTell)))
  PROVE  /\ DOMAIN down' = Worker
         /\ \A w \in Worker : Between(w, down'[w], Awaits(w), After(After(After(ToTell))))
<1>1. /\ DOMAIN down' = Worker
      /\ \A w \in Worker : down'[w] = down[w] \o <<a, b, c>> /\ Between(w, down[w], Awaits(w), ToTell)
  BY ToldAll
<1>2. ASSUME NEW w \in Worker
      PROVE  Between(w, down[w] \o <<a, b, c>>, Awaits(w), After(After(After(ToTell))))
  <2>1. /\ Between(w, down[w], Awaits(w), ToTell) /\ Is(w, a, ToTell) /\ Is(w, b, After(ToTell))
        /\ Is(w, c, After(After(ToTell)))
    BY <1>1
  <2> QED BY ONLY <2>1, SentMore
<1> QED BY <1>1, <1>2

\* What the master adds up is complete.
LEMMA SumAdded ==
  ASSUME IInv, NEW call, NEW sum, AddsUp(call, sum), pc[0] \notin Committing \cup Beginning \/ pc[0] = "claims",
         NEW n, ToGather = n, n[1] \in Exact, \A w \in Worker : Says(w, n) = Contribution(w, sum)
  PROVE  (IsSeq(sums) /\ SumsComplete)'
<1> DEFINE g == Gather(Addend(0, sum))
<1>1. sums' = Append(sums, g) /\ Gathered(call)
  BY DEF AddsUp
<1>2. Party = {0} \cup Worker /\ 0 \in Party /\ IsSeq(sums) /\ SumsComplete /\ Informed(0)
  BY MasterFacts, Sizes
<1>3. to_commit[0] = PointToCommit /\ to_poly[0] = PointToPoly
  BY <1>2 DEF Informed, Committing, Beginning
<1>4. \A p \in Party : g[p] = Contribution(p, sum)
  <2>1. Addend(0, sum) = Contribution(0, sum)
    BY <1>3, AddendIs
  <2>2. ASSUME NEW w \in Worker PROVE Head(up[w]).val = Contribution(w, sum)
    <3>1. Is(w, Head(up[w]), n)
      BY <1>1, MasterGathers
    <3> QED BY <3>1 DEF Is
  <2> HIDE DEF Worker, Party
  <2> QED BY <1>2, <2>1, <2>2 DEF Gather
<1> HIDE DEF g
<1>5. /\ IsSeq(sums') /\ Len(sums') = Len(sums) + 1
      /\ \A s \in 1..Len(sums) : sums'[s] = sums[s]
      /\ sums'[Len(sums) + 1] = g
  BY <1>1, <1>2, IsAppend
<1>6. DOMAIN sums = 1..Len(sums) /\ DOMAIN sums' = 1..(Len(sums) + 1) /\ Len(sums) \in Nat
  BY <1>2, <1>5 DEF IsSeq
<1>7. ASSUME NEW s \in DOMAIN sums', NEW p \in Party
      PROVE  /\ sums'[s][p].sum = sums'[s][0].sum
             /\ sums'[s][p].of = [k \in Points |-> <<p, PointToCommit[k], PointToPoly[k]>>]
  <2>1. CASE s \in 1..Len(sums)
    BY <1>2, <1>5, <1>6, <2>1 DEF SumsComplete
  <2>2. CASE s = Len(sums) + 1
    <3>1. sums'[s] = g /\ g[p] = Contribution(p, sum) /\ g[0] = Contribution(0, sum)
      BY <1>2, <1>4, <1>5, <2>2
    <3>2. \A x : /\ Contribution(x, sum).sum = sum
                 /\ Contribution(x, sum).of = [k \in Points |-> <<x, PointToCommit[k], PointToPoly[k]>>]
      BY DEF Contribution
    <3> QED BY ONLY <3>1, <3>2
  <2> QED BY <1>6, <2>1, <2>2
<1> QED BY <1>5, <1>7 DEF SumsComplete

-----------------------------------------------------------------------------
(* The steps of the master.                                                *)

\* The master counts the chunks of one more polynomial.
LEMMA Counted ==
  ASSUME IInv, pc[0] \in {"commit", "small"}, poly \in 1..Polys(commit[0]), NEW count, MasterCounts(count)
  PROVE  /\ poly' = poly + 1 /\ poly' \in 1..(Polys(commit[0]) + 1) /\ poly' > 1
         /\ Has(chunks_per_poly'[0], Made + 1)
         /\ DOMAIN chunks_per_poly' = Party /\ \A x \in Party \ {0} : chunks_per_poly'[x] = chunks_per_poly[x]
         /\ UNCHANGED <<control, columns, total_chunks, targets, committed, opening, answering, down>>
<1> DEFINE c == commit[0]
           old == chunks_per_poly[0]
           more == IF poly = 1 THEN Append(old, <<count>>) ELSE [old EXCEPT ![c] = Append(@, count)]
<1>1. /\ chunks_per_poly' = [chunks_per_poly EXCEPT ![0] = more] /\ poly' = poly + 1
      /\ UNCHANGED <<control, columns, total_chunks, targets, all_v0, all_f0, committed, opening,
                     answering, down>>
  BY DEF MasterCounts
<1>2. /\ 0 \in Party /\ InPlace(0) /\ MasterHas /\ DOMAIN chunks_per_poly = Party
      /\ c \in 1..Cs /\ Cs \in Nat /\ Polys(c) \in Nat
  BY MasterFacts, Sizes DEF InPlace, OfParties
<1>3. Made = c - 1 /\ Has(old, IF poly > 1 THEN c ELSE c - 1)
  BY <1>2 DEF MasterHas, Made, Committing
<1>4. Has(more, c)
  <2>1. CASE poly = 1
    <3>1. Has(old, c - 1)
      BY <1>3, <2>1
    <3>2. IsSeq(Append(old, <<count>>)) /\ Len(Append(old, <<count>>)) = (c - 1) + 1
      BY <3>1, IsAppend DEF Has
    <3> QED BY <1>2, <2>1, <3>2 DEF Has
  <2>2. CASE poly # 1
    <3>1. Has(old, c) /\ c \in 1..Len(old)
      BY <1>2, <1>3, <2>2 DEF Has
    <3>2. \A e : IsSeq([old EXCEPT ![c] = e]) /\ Len([old EXCEPT ![c] = e]) = Len(old)
      BY <3>1, IsExcept DEF Has
    <3>3. more = [old EXCEPT ![c] = Append(old[c], count)]
      BY <2>2
    <3> HIDE DEF more
    <3> QED BY <3>1, <3>2, <3>3 DEF Has
  <2> QED BY <2>1, <2>2
<1> HIDE DEF more
<1>5. chunks_per_poly'[0] = more /\ DOMAIN chunks_per_poly' = Party
      /\ \A x \in Party \ {0} : chunks_per_poly'[x] = chunks_per_poly[x]
  BY <1>1, <1>2
<1>6. Made + 1 = c
  BY <1>2, <1>3
<1> QED BY <1>1, <1>2, <1>4, <1>5, <1>6

\* The steps of the master, one by one: a polynomial that is cut where it is,
LEMMA MasterSplitsKeeps == ASSUME IInv, MasterSplits PROVE IInv'
<1> DEFINE c == commit[0]
<1>1. /\ pc[0] = "commit" /\ poly \in DOMAIN LocalVars[c] /\ IsLarge(c, poly)
      /\ MasterCounts(LargeCount(c, poly)) /\ UNCHANGED <<pc, master_chunks, up>>
  BY DEF MasterSplits
<1>2. /\ 0 \in Party /\ InPlace(0) /\ Informed(0) /\ MasterHas /\ OfParties
      /\ DOMAIN up = Worker /\ DOMAIN down = Worker /\ IsSeq(sums) /\ SumsComplete
  BY MasterFacts
<1>3. c \in 1..Cs /\ poly \in 1..Polys(c) /\ poly \notin Small(c)
  BY <1>1, <1>2, Sizes DEF InPlace, Small
<1>4. /\ poly' = poly + 1 /\ poly' \in 1..(Polys(c) + 1) /\ poly' > 1
      /\ Has(chunks_per_poly'[0], Made + 1)
      /\ DOMAIN chunks_per_poly' = Party /\ \A x \in Party \ {0} : chunks_per_poly'[x] = chunks_per_poly[x]
      /\ UNCHANGED <<control, columns, total_chunks, targets, committed, opening, answering, down>>
  BY <1>1, <1>3, Counted
<1>5. Alone(0)
  BY <1>1, <1>2, <1>4 DEF Alone, OfParties, control, targets
<1>6. InPlace(0)' /\ Informed(0)' /\ MasterHas'
  <2>1. InPlace(0)' /\ Informed(0)'
    BY <1>1, <1>2, <1>4 DEF InPlace, Informed, control, targets
  <2>2. Made' = Made
    BY <1>1, <1>4 DEF Made, control
  <2>3. MasterHas'
    BY <1>1, <1>2, <1>4, <2>2 DEF MasterHas, Committing, control, committed, opening, answering
  <2> QED BY <2>1, <2>3
<1>7. ToGather' = ToGather /\ ToTell' = ToTell
  <2>1. ToGather' = FromPoly(c, poly + 1) /\ ToGather = FromPoly(c, poly)
    BY <1>1, <1>4 DEF ToGather, control
  <2>2. ToTell' = ToTell
    BY <1>1, <1>4 DEF ToTell, control
  <2> QED BY <1>3, <2>1, <2>2, PolyDue
<1>8. (IsSeq(sums) /\ SumsComplete)'
  BY <1>2, <1>4 DEF SumsComplete, opening
<1>9. /\ DOMAIN up' = Worker /\ \A w \in Worker : Between(w, up'[w], ToGather, Sends(w))
      /\ DOMAIN down' = Worker /\ \A w \in Worker : Between(w, down'[w], Awaits(w), ToTell)
  BY <1>1, <1>4, UpAllStay, DownAllStay
<1> QED BY <1>5, <1>6, <1>7, <1>8, <1>9, MasterFrame

\* a small one that is gathered, or the end of the list,
LEMMA MasterWaitsKeeps == ASSUME IInv, MasterWaits PROVE IInv'
<1> DEFINE c == commit[0]
           more == poly \in DOMAIN LocalVars[c]
<1>1. /\ pc[0] = "commit" /\ (more => ~IsLarge(c, poly)) /\ Becomes(0, IF more THEN "small" ELSE "v0")
      /\ UNCHANGED <<control, advices, targets, assembling, committed, opening, answering, up, down>>
  BY DEF MasterWaits
<1>2. /\ 0 \in Party /\ InPlace(0) /\ Informed(0) /\ MasterHas /\ OfParties
      /\ DOMAIN up = Worker /\ DOMAIN down = Worker /\ IsSeq(sums) /\ SumsComplete
  BY MasterFacts
<1>3. /\ c \in 1..Cs /\ Cs \in Nat /\ Polys(c) \in Nat /\ DOMAIN LocalVars[c] = 1..Polys(c)
      /\ poly \in 1..(Polys(c) + 1) /\ (more => poly \in Small(c)) /\ (~more => poly = Polys(c) + 1)
  <2>1. c \in 1..Cs /\ Cs \in Nat /\ poly \in 1..(Polys(c) + 1)
    BY <1>1, <1>2, Sizes DEF InPlace, MasterHas
  <2>2. Polys(c) \in Nat /\ DOMAIN LocalVars[c] = 1..Polys(c)
    BY <2>1, Sizes
  <2> QED BY <1>1, <2>1, <2>2 DEF Small
<1>4. Alone(0) /\ pc'[0] = IF more THEN "small" ELSE "v0"
  BY <1>1, <1>2 DEF Alone, OfParties, Becomes, control, targets, advices
<1> HIDE DEF more
<1>5. InPlace(0)' /\ Informed(0)' /\ MasterHas'
  <2>1. InPlace(0)'
    BY <1>1, <1>2, <1>4 DEF InPlace, control, Committing, Beginning, Querying
  <2>2. Informed(0)'
    BY <1>1, <1>2, <1>4 DEF Informed, targets, Committing
  <2>3. Made' = Made
    BY <1>1, <1>4 DEF Made, control, Committing
  <2>4. MasterHas'
    BY <1>1, <1>2, <1>3, <1>4, <2>3
    DEF MasterHas, Committing, Gathers, control, advices, assembling, committed, opening, answering
  <2> QED BY <2>1, <2>2, <2>4
<1>6. ToGather' = ToGather /\ ToTell' = ToTell
  <2>1. ToGather' = (IF more THEN <<"small", c, poly>> ELSE <<"v0", c, 0>>) /\ ToGather = FromPoly(c, poly)
    BY <1>1, <1>4 DEF ToGather, control, assembling
  <2>2. ToTell' = ToTell
    BY <1>1, <1>4 DEF ToTell, control
  <2>3. CASE more
    BY <1>3, <2>1, <2>2, <2>3, PolyDue DEF more
  <2>4. CASE ~more
    BY <1>3, <2>1, <2>2, <2>4, PolysDone
  <2> QED BY <2>3, <2>4
<1>7. (IsSeq(sums) /\ SumsComplete)'
  BY <1>1, <1>2 DEF SumsComplete, opening
<1>8. /\ DOMAIN up' = Worker /\ \A w \in Worker : Between(w, up'[w], ToGather, Sends(w))
      /\ DOMAIN down' = Worker /\ \A w \in Worker : Between(w, down'[w], Awaits(w), ToTell)
  BY <1>1, UpAllStay, DownAllStay
<1> QED BY <1>4, <1>5, <1>6, <1>7, <1>8, MasterFrame

\* the portions of a small polynomial,
LEMMA MasterGathersSmallKeeps == ASSUME IInv, MasterGathersSmall PROVE IInv'
<1> DEFINE c == commit[0]
<1>1. PICK count : Gathered("small") /\ MasterCounts(count) /\ Becomes(0, "commit")
  BY DEF MasterGathersSmall
<1>2. /\ 0 \in Party /\ InPlace(0) /\ Informed(0) /\ MasterHas /\ OfParties
      /\ DOMAIN up = Worker /\ DOMAIN down = Worker /\ IsSeq(sums) /\ SumsComplete
  BY MasterFacts
<1>3. /\ pc[0] = "small" /\ DOMAIN up' = Worker
      /\ \A w \in Worker : Is(w, Head(up[w]), ToGather) /\ Between(w, up'[w], After(ToGather), Sends(w))
  BY <1>1, MasterGathers
<1>4. c \in 1..Cs /\ poly \in 1..Polys(c) /\ poly \in Small(c)
  BY <1>2, <1>3, Sizes DEF InPlace, MasterHas
<1>5. /\ poly' = poly + 1 /\ poly' \in 1..(Polys(c) + 1) /\ poly' > 1
      /\ Has(chunks_per_poly'[0], Made + 1)
      /\ DOMAIN chunks_per_poly' = Party /\ \A x \in Party \ {0} : chunks_per_poly'[x] = chunks_per_poly[x]
      /\ UNCHANGED <<control, columns, total_chunks, targets, committed, opening, answering, down>>
  BY <1>1, <1>3, <1>4, Counted
<1>6. Alone(0) /\ pc'[0] = "commit"
  BY <1>1, <1>2, <1>5 DEF Alone, OfParties, Becomes, control, targets
<1>7. InPlace(0)' /\ Informed(0)' /\ MasterHas'
  <2>1. InPlace(0)'
    BY <1>2, <1>3, <1>5, <1>6 DEF InPlace, control, Committing, Beginning, Querying
  <2>2. Informed(0)'
    BY <1>2, <1>3, <1>5, <1>6 DEF Informed, targets, Committing
  <2>3. Made' = Made
    BY <1>3, <1>5, <1>6 DEF Made, control, Committing
  <2>4. MasterHas'
    BY <1>2, <1>3, <1>5, <1>6, <2>3 DEF MasterHas, Committing, control, committed, opening, answering
  <2> QED BY <2>1, <2>2, <2>4
<1>8. After(ToGather) = ToGather' /\ ToTell' = ToTell
  <2>1. ToGather' = FromPoly(c, poly + 1) /\ ToGather = <<"small", c, poly>>
    BY <1>3, <1>5, <1>6 DEF ToGather, control
  <2>2. ToTell' = ToTell
    BY <1>3, <1>5, <1>6 DEF ToTell, control
  <2> QED BY <2>1, <2>2, AfterUpIs
<1>9. (IsSeq(sums) /\ SumsComplete)'
  BY <1>2, <1>5 DEF SumsComplete, opening
<1>10. DOMAIN down' = Worker /\ \A w \in Worker : Between(w, down'[w], Awaits(w), ToTell)
  BY <1>5, DownAllStay
<1> QED BY <1>3, <1>6, <1>7, <1>8, <1>9, <1>10, MasterFrame

\* the rows,
LEMMA MasterGathersV0Keeps == ASSUME IInv, MasterGathersV0 PROVE IInv'
<1>1. Gathered("v0") /\ Becomes(0, "f0") /\ UNCHANGED <<control, advices, targets, poly, committed, opening, answering, down>>
  BY DEF MasterGathersV0
<1>2. /\ 0 \in Party /\ InPlace(0) /\ Informed(0) /\ MasterHas /\ OfParties
      /\ DOMAIN up = Worker /\ DOMAIN down = Worker /\ IsSeq(sums) /\ SumsComplete
  BY MasterFacts
<1>3. /\ pc[0] = "v0" /\ DOMAIN up' = Worker
      /\ \A w \in Worker : Is(w, Head(up[w]), ToGather) /\ Between(w, up'[w], After(ToGather), Sends(w))
  BY <1>1, MasterGathers
<1>4. Alone(0) /\ pc'[0] = "f0"
  BY <1>1, <1>2 DEF Alone, OfParties, Becomes, control, targets, advices
<1>5. InPlace(0)' /\ Informed(0)' /\ MasterHas'
  <2>1. InPlace(0)'
    BY <1>1, <1>2, <1>3, <1>4 DEF InPlace, control, Committing, Beginning, Querying
  <2>2. Informed(0)'
    BY <1>1, <1>2, <1>3, <1>4 DEF Informed, targets, Committing
  <2>3. Made' = Made
    BY <1>1, <1>3, <1>4 DEF Made, control, Committing
  <2>4. MasterHas'
    BY <1>1, <1>2, <1>3, <1>4, <2>3
    DEF MasterHas, Committing, Gathers, control, advices, assembling, committed, opening, answering
  <2> QED BY <2>1, <2>2, <2>4
<1>6. After(ToGather) = ToGather' /\ ToTell' = ToTell
  <2>1. ToGather = <<"v0", commit[0], 0>> /\ ToGather' = <<"f0", commit[0], 0>>
    BY <1>1, <1>3, <1>4 DEF ToGather, control
  <2>2. ToTell' = ToTell
    BY <1>1, <1>3, <1>4 DEF ToTell, control
  <2> QED BY <2>1, <2>2, AfterUpIs
<1>7. (IsSeq(sums) /\ SumsComplete)'
  BY <1>1, <1>2 DEF SumsComplete, opening
<1>8. DOMAIN down' = Worker /\ \A w \in Worker : Between(w, down'[w], Awaits(w), ToTell)
  BY <1>1, DownAllStay
<1> QED BY <1>3, <1>4, <1>5, <1>6, <1>7, <1>8, MasterFrame

\* and the coefficients of the large ones.
LEMMA MasterGathersF0Keeps == ASSUME IInv, MasterGathersF0 PROVE IInv'
<1>1. Gathered("f0") /\ Becomes(0, "evals") /\ UNCHANGED <<control, advices, targets, poly, committed, opening, answering, down>>
  BY DEF MasterGathersF0
<1>2. /\ 0 \in Party /\ InPlace(0) /\ Informed(0) /\ MasterHas /\ OfParties
      /\ DOMAIN up = Worker /\ DOMAIN down = Worker /\ IsSeq(sums) /\ SumsComplete
  BY MasterFacts
<1>3. /\ pc[0] = "f0" /\ DOMAIN up' = Worker
      /\ \A w \in Worker : Is(w, Head(up[w]), ToGather) /\ Between(w, up'[w], After(ToGather), Sends(w))
  BY <1>1, MasterGathers
<1>4. Alone(0) /\ pc'[0] = "evals"
  BY <1>1, <1>2 DEF Alone, OfParties, Becomes, control, targets, advices
<1>5. InPlace(0)' /\ Informed(0)' /\ MasterHas'
  <2>1. InPlace(0)'
    BY <1>1, <1>2, <1>3, <1>4 DEF InPlace, control, Committing, Beginning, Querying
  <2>2. Informed(0)'
    BY <1>1, <1>2, <1>3, <1>4 DEF Informed, targets, Committing
  <2>3. Made' = Made
    BY <1>1, <1>3, <1>4 DEF Made, control, Committing
  <2>4. MasterHas'
    BY <1>1, <1>2, <1>3, <1>4, <2>3
    DEF MasterHas, Committing, Gathers, control, advices, assembling, committed, opening, answering
  <2> QED BY <2>1, <2>2, <2>4
<1>6. After(ToGather) = ToGather' /\ ToTell' = ToTell
  <2>1. ToGather = <<"f0", commit[0], 0>> /\ ToGather' = <<"evals", commit[0], 0>>
    BY <1>1, <1>3, <1>4 DEF ToGather, control
  <2>2. ToTell' = ToTell
    BY <1>1, <1>3, <1>4 DEF ToTell, control
  <2> QED BY <2>1, <2>2, AfterUpIs
<1>7. (IsSeq(sums) /\ SumsComplete)'
  BY <1>1, <1>2 DEF SumsComplete, opening
<1>8. DOMAIN down' = Worker /\ \A w \in Worker : Between(w, down'[w], Awaits(w), ToTell)
  BY <1>1, DownAllStay
<1> QED BY <1>3, <1>4, <1>5, <1>6, <1>7, <1>8, MasterFrame

\* The first two gathers of an answer to a query: the column,
LEMMA MasterColumnKeeps == ASSUME IInv, MasterColumn PROVE IInv'
<1>1. Gathered("column") /\ Becomes(0, "local_proof") /\ UNCHANGED <<control, advices, targets, assembling, committed, opening, beta, proofs, down>>
  BY DEF MasterColumn
<1>2. /\ 0 \in Party /\ InPlace(0) /\ Informed(0) /\ MasterHas /\ OfParties
      /\ DOMAIN up = Worker /\ DOMAIN down = Worker /\ IsSeq(sums) /\ SumsComplete
  BY MasterFacts
<1>3. /\ pc[0] = "column" /\ DOMAIN up' = Worker
      /\ \A w \in Worker : Is(w, Head(up[w]), ToGather) /\ Between(w, up'[w], After(ToGather), Sends(w))
  BY <1>1, MasterGathers
<1>4. Alone(0) /\ pc'[0] = "local_proof"
  BY <1>1, <1>2 DEF Alone, OfParties, Becomes, control, targets, advices
<1>5. InPlace(0)' /\ Informed(0)' /\ MasterHas'
  <2>1. InPlace(0)'
    BY <1>1, <1>2, <1>3, <1>4 DEF InPlace, control, Committing, Beginning, Querying
  <2>2. Informed(0)'
    BY <1>1, <1>2, <1>3, <1>4 DEF Informed, targets, Committing
  <2>3. Made' = Made
    BY <1>1, <1>3, <1>4 DEF Made, control, Committing
  <2>4. MasterHas'
    BY <1>1, <1>2, <1>3, <1>4, <2>3
    DEF MasterHas, Committing, Gathers, control, advices, assembling, committed, opening, answering
  <2> QED BY <2>1, <2>2, <2>4
<1>6. After(ToGather) = ToGather' /\ ToTell' = ToTell
  <2>1. ToGather = <<"column", queries[0], commit[0]>> /\ ToGather' = <<"local_proof", queries[0], commit[0]>>
    BY <1>1, <1>3, <1>4 DEF ToGather, control
  <2>2. ToTell' = ToTell
    BY <1>1, <1>3, <1>4 DEF ToTell, control
  <2> QED BY <2>1, <2>2, AfterUpIs
<1>7. (IsSeq(sums) /\ SumsComplete)'
  BY <1>1, <1>2 DEF SumsComplete, opening
<1>8. DOMAIN down' = Worker /\ \A w \in Worker : Between(w, down'[w], Awaits(w), ToTell)
  BY <1>1, DownAllStay
<1> QED BY <1>3, <1>4, <1>5, <1>6, <1>7, <1>8, MasterFrame

\* The columns are handed out,
\* and the part of the proof that the owner has.
LEMMA MasterLocalProofKeeps == ASSUME IInv, MasterLocalProof PROVE IInv'
<1>1. Gathered("local_proof") /\ Becomes(0, "hash") /\ UNCHANGED <<control, advices, targets, assembling, committed, opening, beta, proofs, down>>
  BY DEF MasterLocalProof
<1>2. /\ 0 \in Party /\ InPlace(0) /\ Informed(0) /\ MasterHas /\ OfParties
      /\ DOMAIN up = Worker /\ DOMAIN down = Worker /\ IsSeq(sums) /\ SumsComplete
  BY MasterFacts
<1>3. /\ pc[0] = "local_proof" /\ DOMAIN up' = Worker
      /\ \A w \in Worker : Is(w, Head(up[w]), ToGather) /\ Between(w, up'[w], After(ToGather), Sends(w))
  BY <1>1, MasterGathers
<1>4. Alone(0) /\ pc'[0] = "hash"
  BY <1>1, <1>2 DEF Alone, OfParties, Becomes, control, targets, advices
<1>5. InPlace(0)' /\ Informed(0)' /\ MasterHas'
  <2>1. InPlace(0)'
    BY <1>1, <1>2, <1>3, <1>4 DEF InPlace, control, Committing, Beginning, Querying
  <2>2. Informed(0)'
    BY <1>1, <1>2, <1>3, <1>4 DEF Informed, targets, Committing
  <2>3. Made' = Made
    BY <1>1, <1>3, <1>4 DEF Made, control, Committing
  <2>4. MasterHas'
    BY <1>1, <1>2, <1>3, <1>4, <2>3
    DEF MasterHas, Committing, Gathers, control, advices, assembling, committed, opening, answering
  <2> QED BY <2>1, <2>2, <2>4
<1>6. After(ToGather) = ToGather' /\ ToTell' = ToTell
  <2>1. ToGather = <<"local_proof", queries[0], commit[0]>> /\ ToGather' = <<"hash", queries[0], commit[0]>>
    BY <1>1, <1>3, <1>4 DEF ToGather, control
  <2>2. ToTell' = ToTell
    BY <1>1, <1>3, <1>4 DEF ToTell, control
  <2> QED BY <2>1, <2>2, AfterUpIs
<1>7. (IsSeq(sums) /\ SumsComplete)'
  BY <1>1, <1>2 DEF SumsComplete, opening
<1>8. DOMAIN down' = Worker /\ \A w \in Worker : Between(w, down'[w], Awaits(w), ToTell)
  BY <1>1, DownAllStay
<1> QED BY <1>3, <1>4, <1>5, <1>6, <1>7, <1>8, MasterFrame

\* The rest of it, of which the master makes the matrices,
LEMMA MasterAssemblesKeeps == ASSUME IInv, MasterAssembles PROVE IInv'
<1> DEFINE c == commit[0]
           n == c - 1
           rows == CombinedV0(c)
           a == Msg("usize", Len(rows))
           b(w) == Msg("elements", ColumnData(w, rows))
           all == [w \in Worker |-> <<a, b(w)>>]
           mine == ToColumns(ColumnData(0, rows), Len(rows))
<1>1. /\ Gathered("evals") /\ Becomes(0, "roots") /\ SendDown(all)
      /\ v0_matrix' = Append(v0_matrix, rows) /\ columns' = [columns EXCEPT ![0] = Append(@, mine)]
      /\ total_chunks' = [total_chunks EXCEPT ![0] = Len(rows)]
      /\ poly' = 1
      /\ UNCHANGED <<control, chunks_per_poly, targets, upper_tree, commitments, opening, answering>>
  BY DEF MasterAssembles
<1>2. /\ 0 \in Party /\ InPlace(0) /\ Informed(0) /\ MasterHas /\ OfParties
      /\ DOMAIN up = Worker /\ DOMAIN down = Worker /\ IsSeq(sums) /\ SumsComplete
  BY MasterFacts
<1>3. /\ pc[0] = "evals" /\ DOMAIN up' = Worker
      /\ \A w \in Worker : Is(w, Head(up[w]), ToGather) /\ Between(w, up'[w], After(ToGather), Sends(w))
  BY <1>1, MasterGathers
<1>4. Is(0, a, <<"total", c, 0>>) /\ \A w \in Worker : Is(w, a, <<"total", c, 0>>) /\ Is(w, b(w), <<"columns", c, 0>>)
  BY DEF Is, Msg, TypeOf, Gathers, Expects, Exact
<1> HIDE DEF rows, mine, a, b
<1>5. Alone(0) /\ pc'[0] = "roots"
  BY <1>1, <1>2 DEF Alone, OfParties, Becomes, control, targets
<1>6. c \in 1..Cs /\ Cs \in Nat /\ Polys(c) \in Nat /\ Polys(c) >= 1 /\ poly = Polys(c) + 1
  <2>1. c \in 1..Cs /\ Cs \in Nat
    BY <1>2, Sizes DEF InPlace
  <2>2. poly = Polys(c) + 1
    BY <1>2, <1>3 DEF MasterHas
  <2> QED BY <2>1, <2>2, Sizes
<1>7. InPlace(0)' /\ Informed(0)' /\ MasterHas'
  <2>1. InPlace(0)'
    BY <1>1, <1>2, <1>3, <1>5 DEF InPlace, control, Committing, Beginning, Querying
  <2>2. Informed(0)'
    BY <1>1, <1>2, <1>3, <1>5 DEF Informed, targets, Committing
  <2>3. Made = n /\ Made' = n
    BY <1>1, <1>3, <1>5 DEF Made, control, Committing
  <2>4. Has(columns[0], n) /\ Has(v0_matrix, n) /\ Has(chunks_per_poly[0], n + 1)
        /\ Has(commitments, n) /\ Has(upper_tree, n) /\ Has(mt, 0) /\ Has(proofs, queries[0])
        /\ beta \in 0..(LenL0 - 1)
    BY <1>2, <1>3, <1>6, <2>3 DEF MasterHas
  <2>5. columns'[0] = Append(columns[0], mine)
    BY <1>1, <1>2 DEF OfParties
  <2>6. Has(columns'[0], n + 1) /\ Has(v0_matrix', n + 1)
    BY <1>1, <2>4, <2>5, IsAppend DEF Has
  <2>7. MasterHas'
    BY <1>1, <1>5, <2>3, <2>4, <2>6 DEF MasterHas, Gathers, control, opening, answering
  <2> QED BY <2>1, <2>2, <2>7
<1>8. /\ After(ToGather) = ToGather' /\ ToTell = <<"total", c, 0>> /\ After(ToTell) = <<"columns", c, 0>>
      /\ ToTell' = After(After(ToTell))
  <2>1. ToGather = <<"evals", c, 0>> /\ ToGather' = <<"roots", c, 0>>
    BY <1>1, <1>3, <1>5 DEF ToGather, control
  <2>2. ToTell = <<"total", c, 0>> /\ ToTell' = FromTotal(c + 1)
    BY <1>1, <1>3, <1>5 DEF ToTell, control
  <2> QED BY <2>1, <2>2, AfterUpIs, AfterDownIs
<1>9. (IsSeq(sums) /\ SumsComplete)'
  BY <1>1, <1>2 DEF SumsComplete, opening
<1>10. DOMAIN down' = Worker /\ \A w \in Worker : Between(w, down'[w], Awaits(w), ToTell')
  <2>1. /\ DOMAIN down' = Worker
        /\ \A w \in Worker : down'[w] = down[w] \o <<a, b(w)>> /\ Between(w, down[w], Awaits(w), ToTell)
    <3>1. \A w \in Worker : all[w] = <<a, b(w)>>
      OBVIOUS
    <3> HIDE DEF all
    <3> QED BY <1>1, <3>1, SentDown
  <2>2. ASSUME NEW w \in Worker
        PROVE  Between(w, down[w] \o <<a, b(w)>>, Awaits(w), After(After(ToTell)))
    <3>1. /\ Between(w, down[w], Awaits(w), ToTell) /\ Is(w, a, ToTell) /\ Is(w, b(w), After(ToTell))
      BY <1>4, <1>8, <2>1
    <3> QED BY ONLY <3>1, SentMore
  <2> QED BY <1>8, <2>1, <2>2
<1> QED BY <1>3, <1>5, <1>7, <1>8, <1>9, <1>10, MasterFrame

\* and their roots make a commitment.
LEMMA MasterRootsKeeps == ASSUME IInv, MasterRoots PROVE IInv'
<1> DEFINE c == commit[0]
           last == ~(c < Cs)
<1>1. PICK tree, com :
        /\ Gathered("roots") /\ NextCommit(0, "open")
        /\ upper_tree' = Append(upper_tree, tree) /\ commitments' = Append(commitments, com)
        /\ UNCHANGED <<round, queries, advices, targets, assembling, v0_matrix, f0_matrix, chunk_polys,
                       opening, answering, down>>
  BY DEF MasterRoots
<1>2. /\ 0 \in Party /\ InPlace(0) /\ Informed(0) /\ MasterHas /\ OfParties
      /\ DOMAIN up = Worker /\ DOMAIN down = Worker /\ IsSeq(sums) /\ SumsComplete
  BY MasterFacts
<1>3. /\ pc[0] = "roots" /\ DOMAIN up' = Worker
      /\ \A w \in Worker : Is(w, Head(up[w]), ToGather) /\ Between(w, up'[w], After(ToGather), Sends(w))
  BY <1>1, MasterGathers
<1>4. /\ Alone(0)
      /\ pc'[0] = (IF last THEN "open" ELSE "commit") /\ commit'[0] = (IF last THEN 1 ELSE c + 1)
      /\ round'[0] = round[0] /\ queries'[0] = queries[0]
  BY <1>1, <1>2 DEF Alone, OfParties, Becomes, NextCommit, targets, advices, Cs
<1>5. c \in 1..Cs /\ Cs \in Nat /\ Cs >= 1 /\ (last => c = Cs) /\ (~last => c + 1 \in 1..Cs)
  BY <1>2, Sizes DEF InPlace
<1>6. InPlace(0)' /\ Informed(0)' /\ MasterHas'
  <2>1. InPlace(0)'
    BY <1>1, <1>2, <1>3, <1>4, <1>5 DEF InPlace, Committing, Beginning, Querying
  <2>2. Informed(0)'
    BY <1>1, <1>2, <1>3, <1>4 DEF Informed, targets, Committing
  <2>3. Made = c - 1 /\ Made' = c
    BY <1>1, <1>3, <1>4, <1>5 DEF Made, Committing
  <2>4. Has(columns[0], c) /\ Has(v0_matrix, c) /\ Has(chunks_per_poly[0], c)
        /\ Has(commitments, c - 1) /\ Has(upper_tree, c - 1) /\ Has(mt, 0) /\ Has(proofs, queries[0])
        /\ beta \in 0..(LenL0 - 1) /\ poly = 1
    BY <1>2, <1>3, <1>5, <2>3 DEF MasterHas
  <2>5. Has(commitments', (c - 1) + 1) /\ Has(upper_tree', (c - 1) + 1)
    BY <1>1, <2>4, IsAppend DEF Has
  <2>6. Has(commitments', c) /\ Has(upper_tree', c)
    BY <1>5, <2>5
  <2>7. pc'[0] = "commit" => Polys(commit'[0]) \in Nat
    BY <1>4, <1>5, Sizes
  <2>8. MasterHas'
    BY <1>1, <1>4, <2>3, <2>4, <2>6, <2>7 DEF MasterHas, advices, assembling, opening, answering
  <2> QED BY <2>1, <2>2, <2>8
<1>7. After(ToGather) = ToGather' /\ ToTell' = ToTell
  <2>1. ToGather = <<"roots", c, 0>> /\ ToTell = FromTotal(c + 1)
    BY <1>3 DEF ToGather, ToTell
  <2>2. ToGather' = IF last THEN <<"claims", 0, 0>> ELSE FromPoly(c + 1, 1)
    <3>1. poly' = 1
      BY <1>1, <1>2, <1>3 DEF MasterHas, assembling
    <3> QED BY <1>4, <3>1 DEF ToGather
  <2>3. ToTell' = IF last THEN <<"points", 0, 0>> ELSE <<"total", c + 1, 0>>
    BY <1>4 DEF ToTell
  <2>4. After(ToGather) = FromCommit(c + 1)
    BY <2>1, AfterUpIs
  <2> QED BY <1>5, <2>1, <2>2, <2>3, <2>4 DEF FromCommit, FromTotal
<1>8. (IsSeq(sums) /\ SumsComplete)'
  BY <1>1, <1>2 DEF SumsComplete, opening
<1>9. DOMAIN down' = Worker /\ \A w \in Worker : Between(w, down'[w], Awaits(w), ToTell)
  BY <1>1, DownAllStay
<1> QED BY <1>3, <1>4, <1>6, <1>7, <1>8, <1>9, MasterFrame

\* The opening begins with the targets.
LEMMA MasterOpensKeeps == ASSUME IInv, MasterOpens PROVE IInv'
<1> DEFINE a == Msg("points", Points)
           b == Msg("indices", PointToPoly)
           c == Msg("indices", PointToCommit)
<1>1. /\ pc[0] = "open" /\ Uniform(<<a, b, c>>) /\ Becomes(0, "claims")
      /\ to_poly' = [to_poly EXCEPT ![0] = PointToPoly]
      /\ to_commit' = [to_commit EXCEPT ![0] = PointToCommit]
      /\ UNCHANGED <<control, advices, assembling, committed, opening, answering, up>>
  BY DEF MasterOpens
<1>2. /\ 0 \in Party /\ InPlace(0) /\ Informed(0) /\ MasterHas /\ OfParties
      /\ DOMAIN up = Worker /\ DOMAIN down = Worker /\ IsSeq(sums) /\ SumsComplete
  BY MasterFacts
<1>3. \A w \in Worker : /\ Is(w, a, <<"points", 0, 0>>) /\ Is(w, b, <<"to_poly", 0, 0>>)
                        /\ Is(w, c, <<"to_commit", 0, 0>>)
  BY DEF Is, Msg, TypeOf, Gathers, Expects, Exact, Says
<1> HIDE DEF a, b, c
<1>4. /\ Alone(0) /\ pc'[0] = "claims" /\ to_poly'[0] = PointToPoly /\ to_commit'[0] = PointToCommit
  BY <1>1, <1>2 DEF Alone, OfParties, Becomes, control, advices
<1>5. InPlace(0)' /\ Informed(0)' /\ MasterHas'
  <2>1. InPlace(0)'
    BY <1>1, <1>2, <1>4 DEF InPlace, control, Committing, Beginning, Querying
  <2>2. Informed(0)'
    BY <1>1, <1>2, <1>4 DEF Informed, Committing
  <2>3. Made' = Made
    BY <1>1, <1>4 DEF Made, control, Committing
  <2>4. MasterHas'
    BY <1>1, <1>2, <1>4, <2>3 DEF MasterHas, Gathers, control, advices, assembling, committed, opening, answering
  <2> QED BY <2>1, <2>2, <2>4
<1>6. /\ ToGather' = ToGather /\ ToTell = <<"points", 0, 0>> /\ ToTell' = <<"claimed", 0, 0>>
      /\ After(ToTell) = <<"to_poly", 0, 0>> /\ After(After(ToTell)) = <<"to_commit", 0, 0>>
      /\ After(After(After(ToTell))) = ToTell'
  <2>1. ToGather' = ToGather
    BY <1>1, <1>4 DEF ToGather
  <2>2. ToTell = <<"points", 0, 0>> /\ ToTell' = <<"claimed", 0, 0>>
    BY <1>1, <1>4 DEF ToTell
  <2> QED BY <2>1, <2>2, AfterDownIs
<1>7. (IsSeq(sums) /\ SumsComplete)'
  BY <1>1, <1>2 DEF SumsComplete, opening
<1>8. DOMAIN down' = Worker /\ \A w \in Worker : Between(w, down'[w], Awaits(w), After(After(After(ToTell))))
  BY <1>1, <1>3, <1>6, ToldThree
<1>9. DOMAIN up' = Worker /\ \A w \in Worker : Between(w, up'[w], ToGather, Sends(w))
  BY <1>1, UpAllStay
<1> QED BY <1>4, <1>5, <1>6, <1>7, <1>8, <1>9, MasterFrame

\* The four kinds of sums that the master adds up: the claims,
LEMMA MasterClaimsKeeps == ASSUME IInv, MasterClaims PROVE IInv'
<1> DEFINE a == Msg("values", "claimed_values")
           b == Msg("field", "gamma")
<1>1. /\ AddsUp("claims", <<"claims">>) /\ Gathered("claims") /\ Uniform(<<a, b>>) /\ Becomes(0, "sumcheck")
      /\ UNCHANGED <<control, advices, targets, assembling, committed, mt, answering>>
  BY DEF MasterClaims, AddsUp
<1>2. /\ 0 \in Party /\ InPlace(0) /\ Informed(0) /\ MasterHas /\ OfParties
      /\ DOMAIN up = Worker /\ DOMAIN down = Worker /\ IsSeq(sums) /\ SumsComplete
  BY MasterFacts
<1>3. /\ pc[0] = "claims" /\ DOMAIN up' = Worker
      /\ \A w \in Worker : Is(w, Head(up[w]), ToGather) /\ Between(w, up'[w], After(ToGather), Sends(w))
  BY <1>1, MasterGathers
<1>4. \A w \in Worker : Is(w, a, <<"claimed", 0, 0>>) /\ Is(w, b, <<"gamma", 0, 0>>)
  BY DEF Is, Msg, TypeOf, Gathers, Expects, Exact
<1> HIDE DEF a, b
<1>5. Alone(0) /\ pc'[0] = "sumcheck"
  BY <1>1, <1>2 DEF Alone, OfParties, Becomes, control, targets, advices
<1>6. InPlace(0)' /\ Informed(0)' /\ MasterHas'
  <2>1. InPlace(0)'
    BY <1>1, <1>2, <1>3, <1>5 DEF InPlace, control, Committing, Beginning, Querying
  <2>2. Informed(0)'
    BY <1>1, <1>2, <1>3, <1>5 DEF Informed, targets, Committing
  <2>3. Made' = Made
    BY <1>1, <1>3, <1>5 DEF Made, control, Committing
  <2>4. MasterHas'
    BY <1>1, <1>2, <1>3, <1>5, <2>3 DEF MasterHas, Gathers, control, advices, assembling, committed, answering
  <2> QED BY <2>1, <2>2, <2>4
<1>7. /\ ToGather = <<"claims", 0, 0>> /\ After(ToGather) = ToGather'
      /\ ToTell = <<"claimed", 0, 0>> /\ After(ToTell) = <<"gamma", 0, 0>> /\ After(After(ToTell)) = ToTell'
  <2>0. round[0] = 0 /\ round'[0] = 0
    BY <1>1, <1>2, <1>3 DEF InPlace, Beginning, control
  <2>1. ToGather = <<"claims", 0, 0>> /\ ToGather' = <<"sumcheck", 1, 0>>
    BY <1>3, <1>5, <2>0 DEF ToGather
  <2>2. ToTell = <<"claimed", 0, 0>> /\ ToTell' = <<"challenge", 1, 0>>
    BY <1>3, <1>5, <2>0 DEF ToTell
  <2> QED BY <2>1, <2>2, AfterUpIs, AfterDownIs
<1>8. (IsSeq(sums) /\ SumsComplete)'
  <2> DEFINE n == <<"claims", 0, 0>>
  <2>1. n[1] \in Exact /\ \A w \in Worker : Says(w, n) = Contribution(w, <<"claims">>)
    BY DEF Exact, Says
  <2> QED BY <1>1, <1>3, <1>7, <2>1, SumAdded
<1>9. DOMAIN down' = Worker /\ \A w \in Worker : Between(w, down'[w], Awaits(w), After(After(ToTell)))
  BY <1>1, <1>4, <1>7, ToldTwo
<1> QED BY <1>3, <1>5, <1>6, <1>7, <1>8, <1>9, MasterFrame

\* the rounds, as many as every worker takes them for,
LEMMA MasterSumcheckKeeps == ASSUME IInv, MasterSumcheck PROVE IInv'
<1> DEFINE i == round[0] + 1
           a == Msg("field", "Internal round")
           more == i < SumRounds
<1>1. /\ AddsUp("sumcheck", <<"round", i>>) /\ Gathered("sumcheck") /\ Uniform(<<a>>)
      /\ round' = [round EXCEPT ![0] = i]
      /\ Becomes(0, IF i < SumcheckRounds(0) THEN "sumcheck" ELSE "final")
      /\ UNCHANGED <<commit, queries, advices, targets, assembling, committed, mt, answering>>
  BY DEF MasterSumcheck, AddsUp
<1>2. /\ 0 \in Party /\ InPlace(0) /\ Informed(0) /\ MasterHas /\ OfParties
      /\ DOMAIN up = Worker /\ DOMAIN down = Worker /\ IsSeq(sums) /\ SumsComplete
  BY MasterFacts
<1>3. /\ pc[0] = "sumcheck" /\ DOMAIN up' = Worker
      /\ \A w \in Worker : Is(w, Head(up[w]), ToGather) /\ Between(w, up'[w], After(ToGather), Sends(w))
  BY <1>1, MasterGathers
<1>4. \A w \in Worker : Is(w, a, <<"challenge", i, 0>>)
  BY DEF Is, Msg, TypeOf, Gathers, Expects, Exact
<1> HIDE DEF a
<1>5. SumcheckRounds(0) = SumRounds
  <2>1. to_commit[0] = PointToCommit /\ to_poly[0] = PointToPoly
    BY <1>2, <1>3 DEF Informed, Committing
  <2> QED BY <2>1, AddendIs
<1>6. Alone(0) /\ pc'[0] = (IF more THEN "sumcheck" ELSE "final") /\ round'[0] = i
  BY <1>1, <1>2, <1>5 DEF Alone, OfParties, Becomes, targets, advices
<1>7. round[0] \in Nat /\ SumRounds \in Int
  BY <1>2, Rounds DEF InPlace
<1>8. InPlace(0)' /\ Informed(0)' /\ MasterHas'
  <2>1. InPlace(0)'
    BY <1>1, <1>2, <1>3, <1>6, <1>7 DEF InPlace, Committing, Beginning, Querying
  <2>2. Informed(0)'
    BY <1>1, <1>2, <1>3, <1>6 DEF Informed, targets, Committing
  <2>3. Made' = Made
    BY <1>1, <1>3, <1>6 DEF Made, Committing
  <2>4. MasterHas'
    BY <1>1, <1>2, <1>3, <1>6, <2>3 DEF MasterHas, Gathers, advices, assembling, committed, answering
  <2> QED BY <2>1, <2>2, <2>4
<1>9. /\ ToGather = <<"sumcheck", i, 0>> /\ After(ToGather) = ToGather'
      /\ ToTell = <<"challenge", i, 0>> /\ After(ToTell) = ToTell'
  <2>1. ToGather = <<"sumcheck", i, 0>> /\ ToTell = <<"challenge", i, 0>>
    BY <1>3 DEF ToGather, ToTell
  <2>2. ToGather' = IF more THEN <<"sumcheck", i + 1, 0>> ELSE <<"final", 0, 0>>
    BY <1>6 DEF ToGather
  <2>3. ToTell' = IF more THEN <<"challenge", i + 1, 0>> ELSE <<"proof", 0, 0>>
    BY <1>6 DEF ToTell
  <2> QED BY <2>1, <2>2, <2>3, AfterUpIs, AfterDownIs
<1>10. (IsSeq(sums) /\ SumsComplete)'
  <2> DEFINE n == <<"sumcheck", i, 0>>
  <2>1. n[1] \in Exact /\ \A w \in Worker : Says(w, n) = Contribution(w, <<"round", i>>)
    BY DEF Exact, Says
  <2> QED BY <1>1, <1>3, <1>9, <2>1, SumAdded DEF Committing, Beginning
<1>11. DOMAIN down' = Worker /\ \A w \in Worker : Between(w, down'[w], Awaits(w), After(ToTell))
  BY <1>1, <1>4, <1>9, ToldOne
<1> QED BY <1>3, <1>6, <1>8, <1>9, <1>10, <1>11, MasterFrame

\* the evaluations at the end of the rounds,
LEMMA MasterFinalEvalsKeeps == ASSUME IInv, MasterFinalEvals PROVE IInv'
<1> DEFINE a == Msg("sumcheck proof", "proof")
<1>1. /\ AddsUp("final", <<"final">>) /\ Gathered("final") /\ Uniform(<<a>>)
      /\ round' = [round EXCEPT ![0] = 1] /\ Becomes(0, "sum_evals")
      /\ UNCHANGED <<commit, queries, advices, targets, assembling, committed, mt, answering>>
  BY DEF MasterFinalEvals, AddsUp
<1>2. /\ 0 \in Party /\ InPlace(0) /\ Informed(0) /\ MasterHas /\ OfParties
      /\ DOMAIN up = Worker /\ DOMAIN down = Worker /\ IsSeq(sums) /\ SumsComplete
  BY MasterFacts
<1>3. /\ pc[0] = "final" /\ DOMAIN up' = Worker
      /\ \A w \in Worker : Is(w, Head(up[w]), ToGather) /\ Between(w, up'[w], After(ToGather), Sends(w))
  BY <1>1, MasterGathers
<1>4. \A w \in Worker : Is(w, a, <<"proof", 0, 0>>)
  BY DEF Is, Msg, TypeOf, Gathers, Expects, Exact
<1> HIDE DEF a
<1>5. Alone(0) /\ pc'[0] = "sum_evals" /\ round'[0] = 1
  BY <1>1, <1>2 DEF Alone, OfParties, Becomes, targets, advices
<1>6. InPlace(0)' /\ Informed(0)' /\ MasterHas'
  <2>1. InPlace(0)'
    BY <1>1, <1>2, <1>3, <1>5 DEF InPlace, Committing, Beginning, Querying
  <2>2. Informed(0)'
    BY <1>1, <1>2, <1>3, <1>5 DEF Informed, targets, Committing
  <2>3. Made' = Made
    BY <1>1, <1>3, <1>5 DEF Made, Committing
  <2>4. MasterHas'
    BY <1>1, <1>2, <1>3, <1>5, <2>3 DEF MasterHas, Gathers, advices, assembling, committed, answering
  <2> QED BY <2>1, <2>2, <2>4
<1>7. /\ ToGather = <<"final", 0, 0>> /\ After(ToGather) = ToGather'
      /\ ToTell = <<"proof", 0, 0>> /\ After(ToTell) = ToTell'
  <2>1. ToGather = <<"final", 0, 0>> /\ ToGather' = <<"sum_evals", 0, 0>>
    BY <1>3, <1>5 DEF ToGather
  <2>2. ToTell = <<"proof", 0, 0>> /\ ToTell' = <<"gamma_combined", 0, 0>>
    BY <1>3, <1>5 DEF ToTell
  <2> QED BY <2>1, <2>2, AfterUpIs, AfterDownIs
<1>8. (IsSeq(sums) /\ SumsComplete)'
  <2> DEFINE n == <<"final", 0, 0>>
  <2>1. n[1] \in Exact /\ \A w \in Worker : Says(w, n) = Contribution(w, <<"final">>)
    BY DEF Exact, Says
  <2> QED BY <1>1, <1>3, <1>7, <2>1, SumAdded DEF Committing, Beginning
<1>9. DOMAIN down' = Worker /\ \A w \in Worker : Between(w, down'[w], Awaits(w), After(ToTell))
  BY <1>1, <1>4, <1>7, ToldOne
<1> QED BY <1>3, <1>5, <1>6, <1>7, <1>8, <1>9, MasterFrame

\* and those at the point of the sumcheck.
LEMMA MasterSumEvalsKeeps == ASSUME IInv, MasterSumEvals PROVE IInv'
<1> DEFINE a == Msg("elements", "gamma_combined")
           b == Msg("elements", "combined_v0")
           c == Msg("values", "combined_evals_ext")
<1>1. /\ AddsUp("sum_evals", <<"evals">>) /\ Gathered("sum_evals") /\ Uniform(<<a, b, c>>) /\ Becomes(0, "round")
      /\ UNCHANGED <<control, advices, targets, assembling, committed, mt, answering>>
  BY DEF MasterSumEvals, AddsUp
<1>2. /\ 0 \in Party /\ InPlace(0) /\ Informed(0) /\ MasterHas /\ OfParties
      /\ DOMAIN up = Worker /\ DOMAIN down = Worker /\ IsSeq(sums) /\ SumsComplete
  BY MasterFacts
<1>3. /\ pc[0] = "sum_evals" /\ DOMAIN up' = Worker
      /\ \A w \in Worker : Is(w, Head(up[w]), ToGather) /\ Between(w, up'[w], After(ToGather), Sends(w))
  BY <1>1, MasterGathers
<1>4. \A w \in Worker : /\ Is(w, a, <<"gamma_combined", 0, 0>>) /\ Is(w, b, <<"combined_v0", 0, 0>>)
                        /\ Is(w, c, <<"combined_evals", 0, 0>>)
  BY DEF Is, Msg, TypeOf, Gathers, Expects, Exact
<1> HIDE DEF a, b, c
<1>5. Alone(0) /\ pc'[0] = "round" /\ round'[0] = 1 /\ BaseMu \in Nat /\ BaseMu >= 1
  BY <1>1, <1>2, <1>3, Sizes DEF Alone, OfParties, Becomes, control, targets, advices, InPlace
<1>6. InPlace(0)' /\ Informed(0)' /\ MasterHas'
  <2>1. InPlace(0)'
    BY <1>1, <1>2, <1>3, <1>5 DEF InPlace, control, Committing, Beginning, Querying
  <2>2. Informed(0)'
    BY <1>1, <1>2, <1>3, <1>5 DEF Informed, targets, Committing
  <2>3. Made' = Made
    BY <1>1, <1>3, <1>5 DEF Made, control, Committing
  <2>4. MasterHas'
    BY <1>1, <1>2, <1>3, <1>5, <2>3 DEF MasterHas, Gathers, control, advices, assembling, committed, answering
  <2> QED BY <2>1, <2>2, <2>4
<1>7. /\ ToGather = <<"sum_evals", 0, 0>> /\ After(ToGather) = ToGather'
      /\ ToTell = <<"gamma_combined", 0, 0>> /\ After(ToTell) = <<"combined_v0", 0, 0>>
      /\ After(After(ToTell)) = <<"combined_evals", 0, 0>> /\ After(After(After(ToTell))) = ToTell'
  <2>1. ToGather = <<"sum_evals", 0, 0>> /\ ToGather' = FromRound(1)
    BY <1>3, <1>5 DEF ToGather
  <2>2. ToTell = <<"gamma_combined", 0, 0>> /\ ToTell' = <<"alpha", 1, 0>>
    BY <1>3, <1>5 DEF ToTell
  <2> QED BY <2>1, <2>2, AfterUpIs, AfterDownIs
<1>8. (IsSeq(sums) /\ SumsComplete)'
  <2> DEFINE n == <<"sum_evals", 0, 0>>
  <2>1. n[1] \in Exact /\ \A w \in Worker : Says(w, n) = Contribution(w, <<"evals">>)
    BY DEF Exact, Says
  <2> QED BY <1>1, <1>3, <1>7, <2>1, SumAdded DEF Committing, Beginning
<1>9. DOMAIN down' = Worker /\ \A w \in Worker : Between(w, down'[w], Awaits(w), After(After(After(ToTell))))
  BY <1>1, <1>4, <1>7, ToldThree
<1> QED BY <1>3, <1>5, <1>6, <1>7, <1>8, <1>9, MasterFrame

\* The end of a round, which makes a tree but in the last one.
LEMMA RoundEnds ==
  ASSUME IInv, pc[0] \in {"round", "leaves"}, NEW tree, IsSeq(tree),
         Len(tree) = (IF round[0] < BaseMu THEN 1 ELSE 0), MasterRounds(tree)
  PROVE  /\ Alone(0) /\ InPlace(0)' /\ Informed(0)' /\ MasterHas' /\ (IsSeq(sums) /\ SumsComplete)'
         /\ round[0] \in 1..BaseMu /\ BaseMu \in Nat /\ BaseMu >= 1
         /\ ToGather' = (IF round[0] < BaseMu THEN FromRound(round[0] + 1) ELSE <<"column", 0, 1>>)
         /\ ToTell' = After(<<"r", round[0], 0>>)
<1> DEFINE i == round[0]
           more == i < BaseMu
<1>1. /\ mt' = mt \o tree /\ round' = [round EXCEPT ![0] = i + 1]
      /\ Becomes(0, IF more THEN "round" ELSE "query")
      /\ UNCHANGED <<commit, queries, advices, targets, assembling, committed, sums, answering>>
  BY DEF MasterRounds
<1>2. /\ 0 \in Party /\ InPlace(0) /\ Informed(0) /\ MasterHas /\ OfParties /\ IsSeq(sums) /\ SumsComplete
  BY MasterFacts
<1>3. i \in 1..BaseMu /\ BaseMu \in Nat /\ BaseMu >= 1 /\ queries[0] = 0 /\ commit[0] = 1 /\ S \in Nat /\ S >= 1
  BY <1>2, Sizes DEF InPlace, Committing, Querying
<1>4. Alone(0) /\ pc'[0] = (IF more THEN "round" ELSE "query") /\ round'[0] = i + 1
  BY <1>1, <1>2 DEF Alone, OfParties, Becomes, targets, advices
<1>5. InPlace(0)'
  BY <1>1, <1>2, <1>3, <1>4 DEF InPlace, Committing, Beginning, Querying
<1>6. Informed(0)'
  BY <1>1, <1>2, <1>4 DEF Informed, targets, Committing
<1>7. MasterHas'
  <2>1. Made' = Cs /\ Made = Cs
    BY <1>4 DEF Made, Committing
  <2>2. IsSeq(mt) /\ Len(mt) = i - 1
    BY <1>2 DEF MasterHas, Has
  <2>3. IsSeq(mt') /\ Len(mt') = (i - 1) + Len(tree)
    BY <1>1, <2>2, IsConcat
  <2>4. Has(mt', IF more THEN i ELSE BaseMu - 1)
    BY <1>3, <2>3 DEF Has
  <2>5. (i + 1) - 1 = i
    BY <1>3
  <2> QED BY <1>1, <1>2, <1>4, <2>1, <2>4, <2>5 DEF MasterHas, Gathers, advices, assembling, committed, answering
<1>8. ToGather' = (IF more THEN FromRound(i + 1) ELSE <<"column", 0, 1>>)
  BY <1>1, <1>3, <1>4 DEF ToGather
<1>9. ToTell' = After(<<"r", i, 0>>)
  <2>1. ToTell' = IF more THEN <<"alpha", i + 1, 0>> ELSE <<"beta", 0, 0>>
    <3>1. queries'[0] = 0
      BY <1>1, <1>3
    <3>2. CASE more
      BY <1>4, <3>2 DEF ToTell
    <3>3. CASE ~more
      BY <1>4, <3>1, <3>3 DEF ToTell
    <3> QED BY <3>2, <3>3
  <2> QED BY <2>1, AfterDownIs
<1>10. (IsSeq(sums) /\ SumsComplete)'
  BY <1>1, <1>2 DEF SumsComplete
<1> QED BY <1>3, <1>4, <1>5, <1>6, <1>7, <1>8, <1>9, <1>10

\* The challenges of a round are told before its leaves are gathered.
LEMMA ChallengesTold ==
  ASSUME IInv, pc[0] = "round", Challenges
  PROVE  DOMAIN down' = Worker /\ \A w \in Worker : Between(w, down'[w], Awaits(w), After(<<"r", round[0], 0>>))
<1> DEFINE i == round[0]
           a == Msg("field", "alpha")
           b == Msg("field", "r")
<1>1. Uniform(<<a, b>>)
  BY DEF Challenges
<1>2. \A w \in Worker : Is(w, a, <<"alpha", i, 0>>) /\ Is(w, b, <<"r", i, 0>>)
  BY DEF Is, Msg, TypeOf, Gathers, Expects, Exact
<1> HIDE DEF a, b
<1>3. ToTell = <<"alpha", i, 0>> /\ After(ToTell) = <<"r", i, 0>>
  <2>1. ToTell = <<"alpha", i, 0>>
    BY DEF ToTell
  <2> QED BY <2>1, AfterDownIs
<1>4. DOMAIN down' = Worker /\ \A w \in Worker : Between(w, down'[w], Awaits(w), After(After(ToTell)))
  BY <1>1, <1>2, <1>3, ToldTwo
<1> QED BY <1>3, <1>4

\* A round that is spread begins with the challenges,
LEMMA MasterSpreadsKeeps == ASSUME IInv, MasterSpreads PROVE IInv'
<1>1. /\ pc[0] = "round" /\ IsSpread(round[0]) /\ Challenges /\ Becomes(0, "leaves")
      /\ UNCHANGED <<control, advices, targets, assembling, committed, opening, answering, up>>
  BY DEF MasterSpreads
<1>2. /\ 0 \in Party /\ InPlace(0) /\ Informed(0) /\ MasterHas /\ OfParties
      /\ DOMAIN up = Worker /\ DOMAIN down = Worker /\ IsSeq(sums) /\ SumsComplete
  BY MasterFacts
<1>3. Alone(0) /\ pc'[0] = "leaves"
  BY <1>1, <1>2 DEF Alone, OfParties, Becomes, control, targets, advices
<1>4. InPlace(0)' /\ Informed(0)' /\ MasterHas'
  <2>1. InPlace(0)'
    <3> HIDE DEF IsSpread
    <3>1. IsSpread(round[0])' = IsSpread(round'[0])
      BY DEF IsSpread, D!HasTree, NumLeavesOf, D!L
    <3>2. round' = round
      BY <1>1 DEF control
    <3> QED BY <1>1, <1>2, <1>3, <3>1, <3>2 DEF InPlace, control, Committing, Beginning, Querying
  <2>2. Informed(0)'
    BY <1>1, <1>2, <1>3 DEF Informed, targets, Committing
  <2>3. Made' = Made
    BY <1>1, <1>3 DEF Made, control, Committing
  <2>4. MasterHas'
    BY <1>1, <1>2, <1>3, <2>3 DEF MasterHas, Gathers, control, advices, assembling, committed, opening, answering
  <2> QED BY <2>1, <2>2, <2>4
<1>5. ToGather' = ToGather /\ ToTell' = After(<<"r", round[0], 0>>)
  <2>1. ToGather' = ToGather
    BY <1>1, <1>3 DEF ToGather, control
  <2>2. ToTell' = AfterDown(<<"r", round[0], 0>>)
    BY <1>1, <1>3 DEF ToTell, control
  <2> QED BY <2>1, <2>2, AfterDownIs
<1>6. (IsSeq(sums) /\ SumsComplete)'
  BY <1>1, <1>2 DEF SumsComplete, opening
<1>7. DOMAIN down' = Worker /\ \A w \in Worker : Between(w, down'[w], Awaits(w), After(<<"r", round[0], 0>>))
  BY <1>1, ChallengesTold
<1>8. DOMAIN up' = Worker /\ \A w \in Worker : Between(w, up'[w], ToGather, Sends(w))
  BY <1>1, UpAllStay
<1> QED BY <1>3, <1>4, <1>5, <1>6, <1>7, <1>8, MasterFrame

\* and ends with the leaves.
LEMMA MasterLeavesKeeps == ASSUME IInv, MasterLeaves PROVE IInv'
<1> DEFINE i == round[0]
<1>1. PICK tree : Gathered("leaves") /\ MasterRounds(<<tree>>) /\ UNCHANGED down
  BY DEF MasterLeaves
<1>2. /\ pc[0] = "leaves" /\ DOMAIN up' = Worker
      /\ \A w \in Worker : Is(w, Head(up[w]), ToGather) /\ Between(w, up'[w], After(ToGather), Sends(w))
  BY <1>1, MasterGathers
<1>3. i \in 1..BaseMu /\ IsSpread(i) /\ i < BaseMu /\ FromRound(i) = <<"leaves", i, 0>>
  <2>1. InPlace(0)
    BY MasterFacts
  <2>2. i \in 1..BaseMu /\ IsSpread(i)
    BY <1>2, <2>1 DEF InPlace
  <2> QED BY <2>2, RoundDue
<1>4. IsSeq(<<tree>>) /\ Len(<<tree>>) = 1
  BY IsOne
<1>5. /\ Alone(0) /\ InPlace(0)' /\ Informed(0)' /\ MasterHas' /\ (IsSeq(sums) /\ SumsComplete)'
      /\ ToGather' = FromRound(i + 1) /\ ToTell' = After(<<"r", i, 0>>)
  BY <1>1, <1>2, <1>3, <1>4, RoundEnds
<1>6. After(ToGather) = ToGather' /\ ToTell = ToTell'
  <2>1. ToGather = <<"leaves", i, 0>> /\ ToTell = AfterDown(<<"r", i, 0>>)
    BY <1>2, <1>3 DEF ToGather, ToTell
  <2> QED BY <1>5, <2>1, AfterUpIs, AfterDownIs
<1>7. DOMAIN down' = Worker /\ \A w \in Worker : Between(w, down'[w], Awaits(w), ToTell)
  BY <1>1, DownAllStay
<1> QED BY <1>2, <1>5, <1>6, <1>7, MasterFrame

\* The tree of another round is the master's own.
LEMMA MasterKeepsKeeps == ASSUME IInv, MasterKeeps PROVE IInv'
<1> DEFINE i == round[0]
           more == i < BaseMu
<1>1. PICK t : /\ pc[0] = "round" /\ ~IsSpread(i) /\ Challenges
               /\ MasterRounds(IF D!HasTree(i) THEN <<t>> ELSE <<>>) /\ UNCHANGED up
  BY DEF MasterKeeps
<1> DEFINE tree == IF D!HasTree(i) THEN <<t>> ELSE <<>>
<1>2. i \in 1..BaseMu /\ (D!HasTree(i) <=> more)
  <2>1. InPlace(0)
    BY MasterFacts
  <2>2. i \in 1..BaseMu
    BY <1>1, <2>1 DEF InPlace
  <2> QED BY <2>2 DEF D!HasTree
<1>3. IsSeq(tree) /\ Len(tree) = IF more THEN 1 ELSE 0
  BY <1>2, IsOne, IsEmpty
<1>4. MasterRounds(tree)
  BY <1>1
<1> HIDE DEF tree
<1>5. /\ Alone(0) /\ InPlace(0)' /\ Informed(0)' /\ MasterHas' /\ (IsSeq(sums) /\ SumsComplete)'
      /\ BaseMu \in Nat /\ BaseMu >= 1
      /\ ToGather' = (IF more THEN FromRound(i + 1) ELSE <<"column", 0, 1>>) /\ ToTell' = After(<<"r", i, 0>>)
  BY <1>1, <1>3, <1>4, RoundEnds
<1>6. ToGather' = ToGather
  <2>1. ToGather = FromRound(i)
    BY <1>1 DEF ToGather
  <2>2. CASE more
    BY <1>1, <1>2, <1>5, <2>1, <2>2, RoundDue
  <2>3. CASE i = BaseMu
    BY <1>5, <2>1, <2>3, RoundsDone
  <2> QED BY <1>2, <1>5, <2>2, <2>3
<1>7. DOMAIN down' = Worker /\ \A w \in Worker : Between(w, down'[w], Awaits(w), After(<<"r", i, 0>>))
  BY <1>1, ChallengesTold
<1>8. DOMAIN up' = Worker /\ \A w \in Worker : Between(w, up'[w], ToGather, Sends(w))
  BY <1>1, UpAllStay
<1> QED BY <1>5, <1>6, <1>7, <1>8, MasterFrame

\* A query begins with its position,
LEMMA MasterQueryKeeps == ASSUME IInv, MasterQuery PROVE IInv'
<1> DEFINE q == queries[0]
<1>0. PICK b \in Betas : beta' = b /\ Uniform(<<Msg("usize", b)>> \o <<Msg("usize", b)>>)
  BY DEF MasterQuery, AskPosition
<1> DEFINE a == Msg("usize", b)
<1>1. /\ pc[0] = "query" /\ q < S /\ beta' = b /\ Uniform(<<a, a>>) /\ Becomes(0, "column")
      /\ UNCHANGED <<control, advices, targets, assembling, committed, opening, column_values, mt0_proofs,
                     proofs, up>>
  <2>1. <<a>> \o <<a>> = <<a, a>>
    BY TwoIs
  <2>2. Uniform(<<a, a>>)
    BY <1>0, <2>1
  <2> QED BY <1>0, <2>2 DEF MasterQuery
<1>2. /\ 0 \in Party /\ InPlace(0) /\ Informed(0) /\ MasterHas /\ OfParties
      /\ DOMAIN up = Worker /\ DOMAIN down = Worker /\ IsSeq(sums) /\ SumsComplete
  BY MasterFacts
<1>3. \A w \in Worker : Is(w, a, <<"beta", q, 0>>) /\ Is(w, a, <<"position", q, 1>>)
  BY DEF Is, Msg, TypeOf, Gathers, Expects, Exact
<1> HIDE DEF a
<1>4. Alone(0) /\ pc'[0] = "column" /\ b \in 0..(LenL0 - 1)
  BY <1>1, <1>2, Sizes DEF Alone, OfParties, Becomes, control, targets, advices
<1>5. commit[0] = 1 /\ Cs \in Nat
  BY <1>1, <1>2, Sizes DEF InPlace, Committing, Querying
<1>6. InPlace(0)' /\ Informed(0)' /\ MasterHas'
  <2>1. InPlace(0)'
    BY <1>1, <1>2, <1>4 DEF InPlace, control, Committing, Beginning, Querying
  <2>2. Informed(0)'
    BY <1>1, <1>2, <1>4 DEF Informed, targets, Committing
  <2>3. Made' = Made
    BY <1>1, <1>4 DEF Made, control, Committing
  <2>4. MasterHas'
    BY <1>1, <1>2, <1>4, <2>3 DEF MasterHas, Gathers, control, advices, assembling, committed, opening, LenL0
  <2> QED BY <2>1, <2>2, <2>4
<1>7. /\ ToGather' = ToGather /\ ToTell = <<"beta", q, 0>> /\ After(ToTell) = <<"position", q, 1>>
      /\ After(After(ToTell)) = ToTell'
  <2>1. ToGather = <<"column", q, 1>> /\ ToGather' = <<"column", q, 1>>
    BY <1>1, <1>4, <1>5 DEF ToGather, control
  <2>2. ToTell = <<"beta", q, 0>> /\ ToTell' = FromPosition(q, 1 + 1)
    BY <1>1, <1>4, <1>5 DEF ToTell, control
  <2> QED BY <2>1, <2>2, AfterDownIs
<1>8. (IsSeq(sums) /\ SumsComplete)'
  BY <1>1, <1>2 DEF SumsComplete, opening
<1>9. DOMAIN down' = Worker /\ \A w \in Worker : Between(w, down'[w], Awaits(w), After(After(ToTell)))
  BY <1>1, <1>3, <1>7, ToldTwo
<1>10. DOMAIN up' = Worker /\ \A w \in Worker : Between(w, up'[w], ToGather, Sends(w))
  BY <1>1, UpAllStay
<1> QED BY <1>4, <1>6, <1>7, <1>8, <1>9, <1>10, MasterFrame

\* and goes on until the last commitment is opened.
LEMMA MasterHashKeeps == ASSUME IInv, MasterHash PROVE IInv'
<1> DEFINE c == commit[0]
           q == queries[0]
           last == c = Cs
           a == Msg("usize", beta)
<1>1. PICK answer :
        /\ Gathered("hash") /\ NextOpening(0, "column", "query")
        /\ IF last THEN UNCHANGED down ELSE Uniform(<<a>>)
        /\ proofs' = IF last THEN Append(proofs, answer) ELSE proofs
        /\ UNCHANGED <<round, advices, targets, assembling, committed, opening, beta>>
  BY DEF MasterHash, AskPosition, Cs
<1>2. /\ 0 \in Party /\ InPlace(0) /\ Informed(0) /\ MasterHas /\ OfParties
      /\ DOMAIN up = Worker /\ DOMAIN down = Worker /\ IsSeq(sums) /\ SumsComplete
  BY MasterFacts
<1>3. /\ pc[0] = "hash" /\ DOMAIN up' = Worker
      /\ \A w \in Worker : Is(w, Head(up[w]), ToGather) /\ Between(w, up'[w], After(ToGather), Sends(w))
  BY <1>1, MasterGathers
<1>4. \A w \in Worker : Is(w, a, <<"position", q, c + 1>>)
  BY DEF Is, Msg, TypeOf, Gathers, Expects, Exact
<1> HIDE DEF a
<1>5. /\ \A x \in Party \ {0} : pc'[x] = pc[x] /\ commit'[x] = commit[x] /\ queries'[x] = queries[x]
      /\ {DOMAIN pc', DOMAIN commit', DOMAIN queries'} = {Party}
      /\ commit'[0] = (IF last THEN 1 ELSE c + 1) /\ queries'[0] = (IF last THEN q + 1 ELSE q)
      /\ pc'[0] = IF ~last THEN "column" ELSE IF q + 1 < S THEN "query" ELSE "done"
      /\ c \in 1..Cs /\ Cs \in Nat /\ Cs >= 1 /\ (~last => c + 1 \in 1..Cs) /\ q \in 0..S /\ q < S /\ S \in Nat
  BY <1>1, <1>2, <1>3, NextOpeningIs DEF Querying
<1>6. Alone(0)
  BY <1>1, <1>2, <1>5 DEF Alone, OfParties, targets, advices
<1>7. InPlace(0)' /\ Informed(0)' /\ MasterHas'
  <2>1. InPlace(0)'
    BY <1>1, <1>2, <1>3, <1>5 DEF InPlace, Committing, Beginning, Querying
  <2>2. Informed(0)'
    BY <1>1, <1>2, <1>3, <1>5 DEF Informed, targets, Committing
  <2>3. Made' = Cs /\ Made = Cs
    BY <1>3, <1>5 DEF Made, Committing
  <2>4. Has(proofs', queries'[0])
    <3>1. Has(proofs, q)
      BY <1>2 DEF MasterHas
    <3>2. IsSeq(Append(proofs, answer)) /\ Len(Append(proofs, answer)) = q + 1
      BY <3>1, IsAppend DEF Has
    <3> QED BY <1>1, <1>5, <3>1, <3>2 DEF Has
  <2>5. MasterHas'
    BY <1>1, <1>2, <1>3, <1>5, <2>3, <2>4 DEF MasterHas, Gathers, advices, assembling, committed, opening
  <2> QED BY <2>1, <2>2, <2>5
<1>8. /\ After(ToGather) = ToGather' /\ ToTell = FromPosition(q, c + 1)
      /\ ToTell' = IF last THEN ToTell ELSE After(ToTell)
  <2>1. ToGather = <<"hash", q, c>> /\ ToTell = FromPosition(q, c + 1)
    BY <1>3 DEF ToGather, ToTell
  <2>2. ToGather' = FromColumn(q, c + 1)
    BY <1>5 DEF ToGather, FromColumn
  <2>3. ToTell' = IF ~last THEN FromPosition(q, (c + 1) + 1) ELSE IF q + 1 < S THEN <<"beta", q + 1, 0>> ELSE End
    BY <1>5 DEF ToTell
  <2>4. FromPosition(q, c + 1) =
          IF ~last THEN <<"position", q, c + 1>> ELSE IF q + 1 < S THEN <<"beta", q + 1, 0>> ELSE End
    BY <1>5 DEF FromPosition
  <2>5. After(ToGather) = ToGather'
    BY <2>1, <2>2, AfterUpIs
  <2> QED BY <2>1, <2>3, <2>4, <2>5, AfterDownIs
<1>9. (IsSeq(sums) /\ SumsComplete)'
  BY <1>1, <1>2 DEF SumsComplete, opening
<1>10. DOMAIN down' = Worker /\ \A w \in Worker : Between(w, down'[w], Awaits(w), ToTell')
  <2>1. CASE last
    BY <1>1, <1>8, <2>1, DownAllStay
  <2>2. CASE ~last
    <3>1. ToTell = <<"position", q, c + 1>>
      BY <1>5, <1>8, <2>2 DEF FromPosition
    <3>2. \A w \in Worker : Is(w, a, ToTell)
      BY <1>4, <3>1
    <3> QED BY <1>1, <1>8, <2>2, <3>2, ToldOne
  <2> QED BY <2>1, <2>2
<1> QED BY <1>3, <1>6, <1>7, <1>8, <1>9, <1>10, MasterFrame

-----------------------------------------------------------------------------
(* All the steps.                                                          *)

\* At first nothing is on the way.
LEMMA InitIInv == Init => IInv
<1> SUFFICES ASSUME Init PROVE IInv
  OBVIOUS
<1>1. /\ pc = [p \in Party |-> "commit"] /\ commit = [p \in Party |-> 1] /\ round = [p \in Party |-> 0]
      /\ queries = [p \in Party |-> 0] /\ chunks_per_poly = [p \in Party |-> <<>>]
      /\ columns = [p \in Party |-> <<>>] /\ total_chunks = [p \in Party |-> 0]
      /\ to_poly = [p \in Party |-> <<>>] /\ to_commit = [p \in Party |-> <<>>]
      /\ poly = 1 /\ v0_matrix = <<>> /\ upper_tree = <<>> /\ commitments = <<>> /\ sums = <<>>
      /\ mt = <<>> /\ beta = 0 /\ proofs = <<>>
      /\ up = [w \in Worker |-> <<>>] /\ down = [w \in Worker |-> <<>>]
  BY DEF Init
<1>2. /\ 0 \in Party /\ Worker \subseteq Party /\ Cs \in Nat /\ Cs >= 1 /\ Polys(1) \in Nat /\ S \in Nat /\ S >= 1
      /\ 0 \in 0..(LenL0 - 1)
  <2>1. /\ 0 \in Party /\ Worker \subseteq Party /\ Cs \in Nat /\ Cs >= 1 /\ S \in Nat /\ S >= 1
        /\ 0 \in 0..(LenL0 - 1)
    BY Sizes
  <2>2. 1 \in 1..Cs
    BY <2>1
  <2> QED BY <2>1, <2>2, Sizes
<1>3. Domains
  BY <1>1 DEF Domains, OfParties
<1>4. ASSUME NEW p \in Party PROVE InPlace(p) /\ Informed(p)
  <2>1. pc[p] = "commit" /\ commit[p] = 1 /\ round[p] = 0 /\ queries[p] = 0 /\ to_poly[p] = <<>> /\ to_commit[p] = <<>>
    BY <1>1
  <2>2. InPlace(p)
    BY <1>2, <2>1 DEF InPlace, Committing, Querying, Beginning
  <2>3. Informed(p)
    BY <2>1 DEF Informed, Committing
  <2> QED BY <2>2, <2>3
<1>5. Has(<<>>, 0)
  BY IsEmpty DEF Has
<1>6. MasterHas
  <2>1. pc[0] = "commit" /\ commit[0] = 1 /\ queries[0] = 0 /\ columns[0] = <<>> /\ chunks_per_poly[0] = <<>>
    BY <1>1, <1>2
  <2>2. Made = 0
    BY <2>1 DEF Made, Committing
  <2> QED BY <1>1, <1>2, <1>5, <2>1, <2>2 DEF MasterHas
<1>7. ASSUME NEW w \in Worker PROVE WorkerHas(w)
  <2>1. pc[w] = "commit" /\ commit[w] = 1 /\ columns[w] = <<>> /\ chunks_per_poly[w] = <<>>
    BY <1>1, <1>2
  <2> QED BY <1>5, <2>1 DEF WorkerHas, Committing
<1>8. \A w, n : Between(w, <<>>, n, n)
  <2> SUFFICES ASSUME NEW w, NEW n PROVE Between(w, <<>>, n, n)
    OBVIOUS
  <2> DEFINE names == [i \in 1..1 |-> n]
  <2>1. names[1] = n /\ 1..0 = {} /\ Len(<<>>) = 0 /\ IsSeq(<<>>)
    BY IsEmpty
  <2>2. Follows(w, <<>>, n, n, names)
    BY <2>1 DEF Follows
  <2> QED BY <2>1, <2>2 DEF Between
<1>9. Queues
  <2> SUFFICES ASSUME NEW w \in Worker
               PROVE  Between(w, up[w], ToGather, Sends(w)) /\ Between(w, down[w], Awaits(w), ToTell)
    BY DEF Queues
  <2>1. /\ pc[0] = "commit" /\ commit[0] = 1 /\ pc[w] = "commit" /\ commit[w] = 1
        /\ up[w] = <<>> /\ down[w] = <<>>
    BY <1>1, <1>2
  <2>2. ToGather = FromPoly(1, 1) /\ Sends(w) = FromPoly(1, 1)
    BY <1>1, <2>1 DEF ToGather, Sends
  <2>3. ToTell = <<"total", 1, 0>> /\ Awaits(w) = <<"total", 1, 0>>
    BY <2>1 DEF ToTell, Awaits
  <2> QED BY <1>8, <2>1, <2>2, <2>3
<1>10. IsSeq(sums) /\ SumsComplete
  <2>1. DOMAIN sums = {}
    BY <1>1
  <2> QED BY <1>1, <2>1, IsEmpty DEF SumsComplete
<1> QED BY <1>3, <1>4, <1>6, <1>7, <1>9, <1>10 DEF IInv

\* Every step keeps the invariant.
LEMMA NextIInv == IInv /\ [Next]_vars => IInv'
<1> SUFFICES ASSUME IInv, [Next]_vars PROVE IInv'
  OBVIOUS
<1>1. ASSUME UNCHANGED vars PROVE IInv'
  <2>1. /\ UNCHANGED <<pc, commit, round, queries, chunks_per_poly, columns, total_chunks, to_poly, to_commit>>
        /\ UNCHANGED <<assembling, committed, opening, answering, up, down>>
    BY <1>1 DEF vars, control, advices, targets
  <2>2. MasterHas' /\ ToGather' = ToGather /\ ToTell' = ToTell
    <3>1. Made' = Made /\ MasterHas
      BY <2>1 DEF Made, IInv
    <3>2. MasterHas'
      BY <2>1, <3>1 DEF MasterHas, assembling, committed, opening, answering
    <3> QED BY <2>1, <3>2 DEF ToGather, ToTell, assembling
  <2>3. InPlace(0)' /\ Informed(0)'
    BY <2>1, MasterFacts DEF InPlace, Informed
  <2>4. Alone(0)
    BY <2>1, MasterFacts DEF Alone, OfParties
  <2>5. (IsSeq(sums) /\ SumsComplete)'
    BY <2>1, MasterFacts DEF SumsComplete, opening
  <2> QED BY <2>1, <2>2, <2>3, <2>4, <2>5, UpAllStay, DownAllStay, MasterFrame
<1>2. CASE MasterRuns
  BY <1>2, MasterSplitsKeeps, MasterWaitsKeeps, MasterGathersSmallKeeps, MasterGathersV0Keeps,
     MasterGathersF0Keeps, MasterAssemblesKeeps, MasterRootsKeeps, MasterOpensKeeps, MasterClaimsKeeps,
     MasterSumcheckKeeps, MasterFinalEvalsKeeps, MasterSumEvalsKeeps, MasterSpreadsKeeps,
     MasterLeavesKeeps, MasterKeepsKeeps, MasterQueryKeeps, MasterColumnKeeps, MasterLocalProofKeeps,
     MasterHashKeeps DEF MasterRuns
<1>3. ASSUME NEW w \in Worker, WorkerRuns(w) PROVE IInv'
  BY <1>3, WorkerCommitsKeeps, WorkerTotalKeeps, WorkerColumnsKeeps, WorkerToPolyKeeps, WorkerClaimsKeeps,
     WorkerGammaKeeps, WorkerChallengeKeeps, WorkerSumEvalsKeeps, WorkerHearsKeeps, WorkerRoundKeeps,
     WorkerPositionKeeps DEF WorkerRuns
<1> QED BY <1>1, <1>2, <1>3 DEF Next, AllDone

-----------------------------------------------------------------------------
(* What follows from the invariant.                                        *)

\* Whatever is received is of the type that its receiver takes it for.
LEMMA NothingMisread ==
  ASSUME IInv
  PROVE  ~MisreadGather /\ \A w \in Worker : ~Misread(w)
<1>1. ASSUME pc[0] \in DOMAIN Gathers, NEW w \in Worker, up[w] # <<>>
      PROVE  Head(up[w]).type = Gathers[pc[0]]
  <2>1. Is(w, Head(up[w]), ToGather)
    BY <1>1, Taken DEF IInv, Queues
  <2>2. ToGather[1] = pc[0]
    <3>1. InPlace(0) /\ MasterHas
      BY MasterFacts
    <3>2. CASE pc[0] = "leaves"
      <4>1. round[0] \in 1..BaseMu /\ IsSpread(round[0])
        BY <3>1, <3>2 DEF InPlace
      <4>2. ToGather = <<"leaves", round[0], 0>>
        BY <3>2, <4>1, RoundDue DEF ToGather
      <4> QED BY <3>2, <4>2
    <3>3. CASE pc[0] \in {"small", "v0", "f0", "evals", "roots", "claims"}
      BY <3>3 DEF ToGather
    <3>4. CASE pc[0] \in {"sumcheck", "final", "sum_evals", "column", "local_proof", "hash"}
      BY <3>4 DEF ToGather
    <3> QED BY <1>1, <3>2, <3>3, <3>4 DEF Gathers
  <2> QED BY <1>1, <2>1, <2>2 DEF Is, TypeOf
<1>2. ASSUME NEW w \in Worker, pc[w] \in DOMAIN Expects, down[w] # <<>>
      PROVE  Head(down[w]).type = Expects[pc[w]]
  <2>1. Is(w, Head(down[w]), Awaits(w))
    BY <1>2, Taken DEF IInv, Queues
  <2>2. Awaits(w)[1] = pc[w]
    <3>1. CASE pc[w] \in {"total", "columns", "points", "to_poly", "to_commit", "claimed", "gamma", "challenge"}
      BY <3>1 DEF Awaits
    <3>2. CASE pc[w] \in {"proof", "gamma_combined", "combined_v0", "combined_evals", "alpha", "r", "beta", "position"}
      BY <3>2 DEF Awaits
    <3> QED BY <1>2, <3>1, <3>2 DEF Expects
  <2>3. pc[w] \notin DOMAIN Gathers
    BY <1>2 DEF Gathers, Expects
  <2> QED BY <2>1, <2>2, <2>3 DEF Is, TypeOf
<1> QED BY <1>1, <1>2 DEF MisreadGather, Misread, CanGather, Arrived

\* And the sizes are right.
LEMMA IInvTypeOK == IInv => TypeOK
<1> SUFFICES ASSUME IInv PROVE TypeOK
  OBVIOUS
<1>1. /\ 0 \in Party /\ Worker \subseteq Party /\ Party = {0} \cup Worker /\ Cs \in Nat /\ Cs >= 1 /\ Commits = 1..Cs
      /\ BaseMu \in Nat /\ BaseMu >= 1 /\ S \in Nat
  BY Sizes
<1>2. InPlace(0) /\ MasterHas /\ DOMAIN up = Worker /\ DOMAIN down = Worker
  BY MasterFacts
<1>3. \A p \in Party : commit[p] \in Commits /\ queries[p] \in 0..S /\ round[p] \in Nat
  BY <1>1 DEF IInv, InPlace
<1>4. \A w \in Worker : /\ pc[w] \in DOMAIN Expects \cup {"commit", "done"}
                        /\ Len(columns[w]) =< Cs /\ Len(chunks_per_poly[w]) =< Cs
  <2> SUFFICES ASSUME NEW w \in Worker
               PROVE  /\ pc[w] \in DOMAIN Expects \cup {"commit", "done"}
                      /\ Len(columns[w]) =< Cs /\ Len(chunks_per_poly[w]) =< Cs
    OBVIOUS
  <2>1. WorkerHas(w) /\ commit[w] \in 1..Cs
    BY <1>1, <1>3 DEF IInv
  <2> QED BY <1>1, <2>1 DEF WorkerHas, Has
<1>5. /\ pc[0] \in DOMAIN Gathers \cup {"commit", "open", "round", "query", "done"}
      /\ Made \in 0..Cs /\ (pc[0] \in Committing => Made + 1 =< Cs)
  BY <1>1, <1>2, <1>3 DEF MasterHas, Made
<1>6. Len(columns[0]) =< Cs /\ Len(chunks_per_poly[0]) =< Cs
  <2>1. poly > 1 \/ pc[0] = "roots" => pc[0] \in Committing
    BY <1>2 DEF MasterHas, Committing
  <2>2. /\ Len(columns[0]) = IF pc[0] = "roots" THEN Made + 1 ELSE Made
        /\ Len(chunks_per_poly[0]) = IF poly > 1 \/ pc[0] = "roots" THEN Made + 1 ELSE Made
    BY <1>2 DEF MasterHas, Has
  <2> QED BY <1>1, <1>5, <2>1, <2>2
<1>7. Len(commitments) = Len(upper_tree) /\ Len(commitments) =< Len(v0_matrix)
  <2>1. /\ Len(commitments) = Made /\ Len(upper_tree) = Made
        /\ Len(v0_matrix) = IF pc[0] = "roots" THEN Made + 1 ELSE Made
    BY <1>2 DEF MasterHas, Has
  <2> QED BY <1>5, <2>1
<1>8. Len(mt) < BaseMu /\ Len(proofs) =< S /\ beta \in 0..(LenL0 - 1)
  <2>1. /\ Len(mt) = IF pc[0] \in {"round", "leaves"} THEN round[0] - 1
             ELSE IF pc[0] \in {"query", "column", "local_proof", "hash", "done"} THEN BaseMu - 1 ELSE 0
        /\ Len(proofs) = queries[0] /\ beta \in 0..(LenL0 - 1)
    BY <1>2 DEF MasterHas, Has
  <2>2. pc[0] \in {"round", "leaves"} => round[0] \in 1..BaseMu
    BY <1>2 DEF InPlace
  <2> QED BY <1>1, <1>3, <2>1, <2>2
<1> QED BY <1>1, <1>2, <1>3, <1>4, <1>5, <1>6, <1>7, <1>8 DEF TypeOK, Cs

-----------------------------------------------------------------------------
(* The matrices of the master.                                             *)

\* What the master counts of the commitment it makes: as many as there are
\* of a large polynomial, and its own list has those of the small ones.
Large(c) == DOMAIN LocalVars[c] \ Small(c)
Counts == IF poly = 1 THEN <<>> ELSE chunks_per_poly[0][commit[0]]
Counting ==
  LET c == commit[0] IN
  /\ Has(Counts, poly - 1)
  /\ \A q \in 1..(poly - 1) : Counts[q] \in Nat /\ (q \in Large(c) => Counts[q] = LargeCount(c, q))
  /\ Has(master_chunks, SumOver(Counts, Upto(Small(c), poly - 1)))

\* What the gathers have brought: the chunks of every party's portions.
Brought ==
  /\ pc[0] \in {"f0", "evals"} => all_v0 = [p \in Party |-> RowsOf(LocalChunks(p, commit[0]))]
  /\ pc[0] = "evals" => all_f0 = [p \in Party |-> CoeffsOf(LocalChunks(p, commit[0]))]

Matrices == Has(f0_matrix, Len(v0_matrix)) /\ Has(chunk_polys, Len(v0_matrix)) /\ RowsAgree

Assembling == Counting /\ Brought /\ Matrices

-----------------------------------------------------------------------------
(* Chunks.                                                                 *)

\* How many chunks a vector of a length has.
Pieces(n) == IF n =< 2^BaseMu THEN 1 ELSE n \div 2^BaseMu

\* That is a natural number, also of a vector without entries.
LEMMA PiecesAre ==
  ASSUME NEW n \in Int
  PROVE  Pieces(n) \in Nat
<1> DEFINE size == 2^BaseMu
<1>1. BaseMu \in Nat /\ Rate \in Nat \ {0} /\ size * Rate >= N /\ N >= 1 /\ N \in Nat
  BY SizesAssumption, WorkAssumption DEF LenL0
<1>2. size \in Int
  BY <1>1
<1>3. Pieces(n) = IF n =< size THEN 1 ELSE n \div size
  BY DEF Pieces
<1> HIDE DEF size
<1>4. size > 0
  <2> SUFFICES ASSUME size =< 0 PROVE FALSE
    BY <1>2
  <2>1. size * Rate =< 0
    BY <1>1, <1>2
  <2> QED BY <1>1, <1>2, <2>1
<1>5. n > size => n \div size \in Nat
  BY <1>2, <1>4
<1> QED BY <1>2, <1>3, <1>5

\* A vector is cut into as many as its length says.
LEMMA SplitIs ==
  ASSUME NEW v, Size(v) \in Nat
  PROVE  IsSeq(D!Split(v)) /\ Len(D!Split(v)) = Pieces(Size(v)) /\ Pieces(Size(v)) \in Nat
<1> DEFINE n == Size(v)
           one == [i \in 0..(2^BaseMu - 1) |-> IF i \in DOMAIN v THEN v[i] ELSE D!FieldZero]
           many == [b \in 1..(n \div 2^BaseMu) |-> D!Slice(v, (b - 1) * 2^BaseMu, b * 2^BaseMu)]
<1>1. D!Split(v) = IF n =< 2^BaseMu THEN <<one>> ELSE many
  <2>1. D!Size(v) = n
    BY DEF Size, D!Size, Cardinality, D!Cardinality
  <2>2. D!Split(v) = IF D!Size(v) =< 2^BaseMu THEN <<one>>
                     ELSE [b \in 1..(D!Size(v) \div 2^BaseMu) |-> D!Slice(v, (b - 1) * 2^BaseMu, b * 2^BaseMu)]
    BY DEF D!Split, D!ChunkSize
  <2> HIDE DEF one, n
  <2> QED BY <2>1, <2>2
<1> HIDE DEF one
<1>2. Pieces(n) \in Nat
  BY PiecesAre
<1>3. CASE n =< 2^BaseMu
  BY <1>1, <1>2, <1>3, IsOne DEF Pieces
<1>4. CASE ~(n =< 2^BaseMu)
  <2>1. n \div 2^BaseMu = Pieces(n)
    BY <1>4 DEF Pieces
  <2>2. many = [b \in 1..Pieces(n) |-> many[b]]
    BY <2>1
  <2> HIDE DEF many, n
  <2>3. IsSeq(many) /\ Len(many) = Pieces(n)
    BY <1>2, <2>2, IsIndexed
  <2> QED BY <1>1, <1>2, <1>4, <2>3 DEF n
<1> QED BY <1>3, <1>4

\* The portions of a polynomial are of one length, whichever party's they are.
PortionLen(c, q) == LET n == 2^LocalVars[c][q] IN IF n > 0 THEN n ELSE 0

\* Every party's portion of a polynomial has the same length.
LEMMA PortionSize ==
  ASSUME NEW c \in 1..Cs, NEW q \in 1..Polys(c)
  PROVE  PortionLen(c, q) \in Nat /\ \A p \in Nat : Size(Portion(p, c, q)) = PortionLen(c, q)
<1> DEFINE n == 2^LocalVars[c][q]
<1>1. n \in Int
  <2>1. LocalVars[c] \in Seq(Nat)
    BY TypesAssumption, ElementOfSeq DEF Cs
  <2>2. LocalVars[c][q] \in Nat
    BY <2>1, ElementOfSeq DEF Polys
  <2> QED BY <2>2
<1>2. PortionLen(c, q) = IF n > 0 THEN n ELSE 0
  BY DEF PortionLen
<1>3. \A p : Portion(p, c, q) = [j \in 0..((p + 1) * n - p * n - 1) |-> D!Evals(c, q)[p * n + j]]
  BY DEF Portion, Slice
<1> HIDE DEF n
<1>4. ASSUME NEW p \in Nat PROVE Size(Portion(p, c, q)) = PortionLen(c, q)
  <2>1. (p + 1) * n - p * n - 1 = n - 1
    <3>1. p * n \in Int /\ (p + 1) * n = p * n + n
      BY <1>1
    <3> QED BY <1>1, <3>1
  <2>2. DOMAIN Portion(p, c, q) = 0..(n - 1)
    BY <1>3, <2>1
  <2>3. Cardinality(0..(n - 1)) = IF 0 > n - 1 THEN 0 ELSE (n - 1) - 0 + 1
    BY <1>1, FS_Interval
  <2> QED BY <1>1, <1>2, <2>2, <2>3 DEF Size
<1> QED BY <1>1, <1>2, <1>4

\* So they have as many chunks.
Locals(c) == [q \in 1..Polys(c) |-> Pieces(PortionLen(c, q))]

\* Every party cuts its portion into as many chunks as the master counts for a party.
LEMMA LocalsAre ==
  ASSUME NEW c \in 1..Cs, NEW q \in 1..Polys(c)
  PROVE  /\ Locals(c)[q] \in Nat
         /\ \A p \in Nat : IsSeq(D!Split(Portion(p, c, q))) /\ Len(D!Split(Portion(p, c, q))) = Locals(c)[q]
         /\ LargeCount(c, q) \in Nat /\ LargeCount(c, q) \div N = Locals(c)[q]
<1> DEFINE k == Locals(c)[q]
<1>1. k = Pieces(PortionLen(c, q)) /\ k \in Nat
  BY PiecesAre, PortionSize DEF Locals
<1>2. ASSUME NEW p \in Nat
      PROVE  IsSeq(D!Split(Portion(p, c, q))) /\ Len(D!Split(Portion(p, c, q))) = k
  BY <1>1, PortionSize, SplitIs
<1>3. LargeCount(c, q) = N * k
  BY <1>2 DEF LargeCount
<1>4. N \in Nat /\ N >= 1
  BY Sizes
<1> HIDE DEF k
<1>5. N * k \in Nat /\ (N * k) \div N = k
  <2> DEFINE m == N * k
             d == m \div N
             r == m % N
  <2>1. m \in Nat
    BY <1>1, <1>4
  <2>2. d \in Int /\ r \in 0..(N - 1) /\ m = N * d + r
    <3> HIDE DEF m
    <3> QED BY <1>4, <2>1
  <2> HIDE DEF d, r
  <2>3. ~(k >= d + 1)
    <3> SUFFICES ASSUME k >= d + 1 PROVE FALSE
      OBVIOUS
    <3>1. N * k >= N * (d + 1)
      BY <1>1, <1>4, <2>2
    <3>2. N * (d + 1) = N * d + N /\ N * d \in Int
      BY <1>4, <2>2
    <3> QED BY <1>4, <2>1, <2>2, <3>1, <3>2
  <2>4. ~(k + 1 =< d)
    <3> SUFFICES ASSUME k + 1 =< d PROVE FALSE
      OBVIOUS
    <3>1. N * d >= N * (k + 1)
      BY <1>1, <1>4, <2>2
    <3>2. N * (k + 1) = N * k + N /\ N * d \in Int
      BY <1>1, <1>4, <2>2
    <3> QED BY <1>4, <2>1, <2>2, <3>1, <3>2
  <2> QED BY <1>1, <2>1, <2>2, <2>3, <2>4 DEF d
<1> QED BY <1>1, <1>2, <1>3, <1>5 DEF k

\* The chunks of a party's own portions.
LEMMA LocalIs ==
  ASSUME NEW c \in 1..Cs, NEW p \in Nat
  PROVE  Has(LocalChunks(p, c), SumOver(Locals(c), Upto(Large(c), Polys(c))))
<1> DEFINE s == [q \in 1..Polys(c) |-> IF IsLarge(c, q) THEN D!Split(Portion(p, c, q)) ELSE <<>>]
<1>1. Polys(c) \in Nat /\ DOMAIN LocalVars[c] = 1..Polys(c)
  BY Sizes
<1>2. LocalChunks(p, c) = FlattenSeq(s)
  BY <1>1 DEF LocalChunks
<1>3. Large(c) \in SUBSET (1..Polys(c)) /\ \A q \in 1..Polys(c) : q \in Large(c) <=> IsLarge(c, q)
  BY <1>1 DEF Large, Small
<1>4. \A q \in 1..Polys(c) : s[q] = IF q \in Large(c) THEN D!Split(Portion(p, c, q)) ELSE <<>>
  BY <1>3
<1>5. s = [q \in 1..Polys(c) |-> s[q]]
  OBVIOUS
<1> HIDE DEF s
<1>6. IsSeq(s) /\ Len(s) = Polys(c)
  BY <1>1, <1>5, IsIndexed
<1>7. ASSUME NEW q \in 1..Polys(c)
      PROVE  IsSeq(s[q]) /\ Len(s[q]) = IF q \in Large(c) THEN Locals(c)[q] ELSE 0
  BY <1>4, LocalsAre, IsEmpty
<1>8. IsSeq(FlattenSeq(s)) /\ Len(FlattenSeq(s)) = SumOver(Locals(c), Upto(Large(c), Len(s)))
  <2>1. \A q \in 1..Len(s) : IsSeq(s[q])
    BY <1>6, <1>7
  <2>2. Large(c) \in SUBSET (1..Len(s)) /\ \A q \in Large(c) : Locals(c)[q] = Len(s[q])
    BY <1>3, <1>6, <1>7
  <2>3. \A q \in (1..Len(s)) \ Large(c) : Len(s[q]) = 0
    BY <1>6, <1>7
  <2> QED BY <1>6, <2>1, <2>2, <2>3, FlattenLen
<1> QED BY <1>2, <1>6, <1>8 DEF Has

-----------------------------------------------------------------------------
(* What the master assembles.                                              *)

\* Where the entries of a polynomial are.
MasterOffset(c, q) == SumOver(chunks_per_poly[0][c], Upto(Small(c), q - 1))
PartyOffset(c, q)  == SumOver(Locals(c), Upto(Large(c), q - 1))

\* They are there: in the list of the master ...
LEMMA InMaster ==
  ASSUME IInv, Counting, pc[0] = "evals", NEW q \in Small(commit[0])
  PROVE  LET c == commit[0] IN
         /\ MasterOffset(c, q) \in Nat /\ chunks_per_poly[0][c][q] \in Nat
         /\ MasterOffset(c, q) + chunks_per_poly[0][c][q] =< Len(master_chunks)
<1> DEFINE c == commit[0]
           counts == chunks_per_poly[0][c]
           n == Polys(c)
           A == Small(c)
<1>1. c \in 1..Cs /\ n \in Nat /\ n >= 1 /\ A \in SUBSET (1..n) /\ poly = n + 1
  BY Sizes, MasterFacts DEF InPlace, MasterHas
<1>2. (\A h \in A : counts[h] \in Nat) /\ Len(master_chunks) = SumOver(counts, Upto(A, n))
  <2>1. Counts = counts /\ poly - 1 = n
    BY <1>1 DEF Counts
  <2> QED BY <1>1, <2>1 DEF Counting, Has
<1> HIDE DEF c, counts, n, A
<1>3. q \in A
  BY DEF A, c
<1>4. q \in 1..n /\ q - 1 \in Nat /\ (q - 1) + 1 = q /\ q =< n
  BY <1>1, <1>3
<1>5. /\ SumOver(counts, Upto(A, q - 1)) \in Nat
      /\ SumOver(counts, Upto(A, q)) = counts[q] + SumOver(counts, Upto(A, q - 1))
  <2>1. \A h \in A : counts[h] \in Nat
    BY <1>2
  <2>2. \A i \in Nat : /\ SumOver(counts, Upto(A, 0)) = 0 /\ SumOver(counts, Upto(A, i)) \in Nat
                       /\ SumOver(counts, Upto(A, i + 1)) = (IF i + 1 \in A THEN counts[i + 1] ELSE 0) + SumOver(counts, Upto(A, i))
    <3>1. n \in Nat /\ A \in SUBSET (1..n)
      BY <1>1
    <3> QED BY ONLY <2>1, <3>1, SumNext, ZenonT(60)
  <2> QED BY <1>3, <1>4, <2>2
<1>6. SumOver(counts, Upto(A, q)) =< SumOver(counts, Upto(A, n))
  <2>1. \A h \in A : counts[h] \in Nat
    BY <1>2
  <2>2. q \in Nat /\ n \in Nat /\ q =< n /\ A \in SUBSET (1..n)
    BY <1>1, <1>4
  <2> QED BY ONLY <2>1, <2>2, SumGrows
<1>7. counts[q] \in Nat
  BY <1>2, <1>3
<1> QED BY <1>2, <1>5, <1>6, <1>7 DEF MasterOffset, c, counts, A

\* ... and in those of the parties.
LEMMA InParty ==
  ASSUME NEW c \in 1..Cs, NEW q \in Large(c), NEW p \in Party
  PROVE  /\ PartyOffset(c, q) \in Nat /\ Locals(c)[q] \in Nat
         /\ PartyOffset(c, q) + Locals(c)[q] =< Len(LocalChunks(p, c))
<1> DEFINE n == Polys(c)
           A == Large(c)
           counts == Locals(c)
<1>1. n \in Nat /\ A \in SUBSET (1..n) /\ p \in Nat
  BY Sizes DEF Large, Party
<1>2. (\A h \in A : counts[h] \in Nat) /\ Len(LocalChunks(p, c)) = SumOver(counts, Upto(A, n))
  BY <1>1, LocalsAre, LocalIs DEF Has
<1> HIDE DEF counts, n, A
<1>3. q \in A
  BY DEF A
<1>4. q \in 1..n /\ q - 1 \in Nat /\ (q - 1) + 1 = q /\ q =< n
  BY <1>1, <1>3
<1>5. /\ SumOver(counts, Upto(A, q - 1)) \in Nat
      /\ SumOver(counts, Upto(A, q)) = counts[q] + SumOver(counts, Upto(A, q - 1))
  <2>1. \A h \in A : counts[h] \in Nat
    BY <1>2
  <2>2. \A i \in Nat : /\ SumOver(counts, Upto(A, 0)) = 0 /\ SumOver(counts, Upto(A, i)) \in Nat
                       /\ SumOver(counts, Upto(A, i + 1)) = (IF i + 1 \in A THEN counts[i + 1] ELSE 0) + SumOver(counts, Upto(A, i))
    <3>1. n \in Nat /\ A \in SUBSET (1..n)
      BY <1>1
    <3> QED BY ONLY <2>1, <3>1, SumNext, ZenonT(60)
  <2> QED BY <1>3, <1>4, <2>2
<1>6. SumOver(counts, Upto(A, q)) =< SumOver(counts, Upto(A, n))
  <2>1. \A h \in A : counts[h] \in Nat
    BY <1>2
  <2>2. q \in Nat /\ n \in Nat /\ q =< n /\ A \in SUBSET (1..n)
    BY <1>1, <1>4
  <2> QED BY ONLY <2>1, <2>2, SumGrows
<1>7. counts[q] \in Nat
  BY <1>2, <1>3
<1> QED BY <1>2, <1>5, <1>6, <1>7 DEF PartyOffset, counts, A

\* The entries of one polynomial.
Entries(c, q, ofMaster, ofParty) ==
  IF q \in Small(c)
  THEN SubSeq(ofMaster, MasterOffset(c, q) + 1, MasterOffset(c, q) + chunks_per_poly[0][c][q])
  ELSE FlattenSeq([k \in 1..N |->
         SubSeq(ofParty[k - 1], PartyOffset(c, q) + 1, PartyOffset(c, q) + Locals(c)[q])])

\* What is assembled are those entries, polynomial by polynomial.
LEMMA AssembleIs ==
  ASSUME IInv, Counting, pc[0] = "evals", NEW ofMaster, NEW ofParty
  PROVE  LET c == commit[0] IN
         Assemble(c, ofMaster, ofParty) = FlattenSeq([q \in 1..Polys(c) |-> Entries(c, q, ofMaster, ofParty)])
<1> DEFINE c == commit[0]
           counts == chunks_per_poly[0][c]
           local  == [h \in DOMAIN counts |-> counts[h] \div N]
           n == Polys(c)
           ToMaster(q) == ChunksOf(counts, (1..(q - 1)) \cap Small(c))
           ToParty(q)  == ChunksOf(local, (1..(q - 1)) \ Small(c))
           Entry(q) ==
             IF ~IsLarge(c, q) THEN SubSeq(ofMaster, ToMaster(q) + 1, ToMaster(q) + counts[q])
             ELSE FlattenSeq([k \in 1..N |-> SubSeq(ofParty[k - 1], ToParty(q) + 1, ToParty(q) + local[q])])
<1>1. c \in 1..Cs /\ n \in Nat /\ n >= 1 /\ DOMAIN LocalVars[c] = 1..n /\ poly = n + 1
  BY Sizes, MasterFacts DEF InPlace, MasterHas
<1>2. Assemble(c, ofMaster, ofParty) = FlattenSeq([q \in 1..n |-> Entry(q)])
  BY <1>1 DEF Assemble
<1>3. DOMAIN counts = 1..n /\ \A h \in 1..n : counts[h] \in Nat /\ (h \in Large(c) => counts[h] = LargeCount(c, h))
  <2>1. Counts = counts /\ poly - 1 = n
    BY <1>1 DEF Counts
  <2> QED BY <1>1, <2>1 DEF Counting, Has, IsSeq
<1>4. ASSUME NEW h \in Large(c) PROVE h \in 1..n /\ local[h] = Locals(c)[h] /\ Locals(c)[h] \in Nat
  <2>1. h \in 1..n /\ counts[h] = LargeCount(c, h)
    BY <1>1, <1>3, <1>4 DEF Large
  <2> HIDE DEF counts, c
  <2>2. local[h] = LargeCount(c, h) \div N
    BY <1>3, <2>1
  <2> HIDE DEF local
  <2> QED BY <1>1, <2>1, <2>2, LocalsAre
<1>5. ASSUME NEW q \in 1..n PROVE Entry(q) = Entries(c, q, ofMaster, ofParty)
  <2>1. ToMaster(q) = MasterOffset(c, q)
    <3>1. (1..(q - 1)) \cap Small(c) = Upto(Small(c), q - 1)
      BY DEF Upto
    <3> QED BY <3>1 DEF MasterOffset, ChunksOf, SumOver
  <2>2. ToParty(q) = PartyOffset(c, q)
    <3>1. (1..(q - 1)) \ Small(c) = Upto(Large(c), q - 1)
      <4>1. 1..(q - 1) \subseteq 1..n
        BY <1>1
      <4> QED BY <1>1, <4>1 DEF Upto, Large
    <3>2. ToParty(q) = SumOver(local, Upto(Large(c), q - 1))
      BY <3>1 DEF ChunksOf, SumOver
    <3>3. SumOver(local, Upto(Large(c), q - 1)) = SumOver(Locals(c), Upto(Large(c), q - 1))
      <4>1. Large(c) \in SUBSET (1..n) /\ q - 1 \in Nat
        BY <1>1 DEF Large
      <4>2. \A h \in Large(c) : Locals(c)[h] \in Nat /\ local[h] = Locals(c)[h]
        BY <1>4
      <4> HIDE DEF local, c, n
      <4> QED BY <1>1, <4>1, <4>2, SumSame
    <3> QED BY <3>2, <3>3 DEF PartyOffset
  <2>3. q \in Small(c) <=> ~IsLarge(c, q)
    BY <1>1 DEF Small
  <2>4. q \notin Small(c) => local[q] = Locals(c)[q]
    BY <1>1, <1>4 DEF Large
  <2> HIDE DEF ToMaster, ToParty, local
  <2> QED BY <2>1, <2>2, <2>3, <2>4 DEF Entries
<1> HIDE DEF Entry
<1> QED BY <1>2, <1>5

\* What maps the chunks maps what is assembled from them.
LEMMA AssembledMaps ==
  ASSUME IInv, Counting, pc[0] = "evals", NEW f, NEW K, NEW X, NEW Y, Maps(f, master_chunks, X),
         \A p \in Party : K[p] = LocalChunks(p, commit[0]) /\ Maps(f, K[p], Y[p])
  PROVE  Maps(f, Assemble(commit[0], master_chunks, K), Assemble(commit[0], X, Y))
<1> DEFINE c == commit[0]
           n == Polys(c)
           s == [q \in 1..n |-> Entries(c, q, master_chunks, K)]
           t == [q \in 1..n |-> Entries(c, q, X, Y)]
<1>1. c \in 1..Cs /\ n \in Nat /\ DOMAIN LocalVars[c] = 1..n /\ N \in Nat
  BY Sizes, MasterFacts DEF InPlace
<1>2. Assemble(c, master_chunks, K) = FlattenSeq(s) /\ Assemble(c, X, Y) = FlattenSeq(t)
  BY AssembleIs
<1>3. ASSUME NEW q \in Small(c)
      PROVE  Maps(f, Entries(c, q, master_chunks, K), Entries(c, q, X, Y))
  <2> DEFINE a == MasterOffset(c, q)
             m == chunks_per_poly[0][c][q]
  <2>1. a \in Nat /\ m \in Nat /\ a + m =< Len(master_chunks)
    BY <1>3, InMaster
  <2> HIDE DEF a, m
  <2>2. Maps(f, SubSeq(master_chunks, a + 1, a + m), SubSeq(X, a + 1, a + m))
    BY <2>1, MapsPart
  <2> QED BY <1>3, <2>2 DEF Entries, a, m
<1>4. ASSUME NEW q \in Large(c)
      PROVE  Maps(f, Entries(c, q, master_chunks, K), Entries(c, q, X, Y))
  <2> DEFINE a == PartyOffset(c, q)
             m == Locals(c)[q]
             u == [k \in 1..N |-> SubSeq(K[k - 1], a + 1, a + m)]
             v == [k \in 1..N |-> SubSeq(Y[k - 1], a + 1, a + m)]
  <2>1. Entries(c, q, master_chunks, K) = FlattenSeq(u) /\ Entries(c, q, X, Y) = FlattenSeq(v)
    BY <1>4 DEF Entries, Large
  <2>2. a \in Nat /\ m \in Nat /\ \A p \in Party : a + m =< Len(LocalChunks(p, c))
    <3>1. ASSUME NEW p \in Party PROVE a \in Nat /\ m \in Nat /\ a + m =< Len(LocalChunks(p, c))
      BY <1>1, <1>4, InParty
    <3> QED BY <3>1, Sizes
  <2> HIDE DEF a, m
  <2>3. ASSUME NEW k \in 1..N PROVE Maps(f, u[k], v[k])
    <3>1. k - 1 \in Party
      BY <1>1 DEF Party
    <3>2. Maps(f, K[k - 1], Y[k - 1]) /\ a + m =< Len(K[k - 1])
      BY <2>2, <3>1
    <3>3. Maps(f, SubSeq(K[k - 1], a + 1, a + m), SubSeq(Y[k - 1], a + 1, a + m))
      BY <2>2, <3>2, MapsPart
    <3> QED BY <3>3
  <2>4. u = [k \in 1..N |-> u[k]] /\ v = [k \in 1..N |-> v[k]]
    OBVIOUS
  <2> HIDE DEF u, v
  <2>5. IsSeq(u) /\ Len(u) = N /\ IsSeq(v) /\ Len(v) = N
    BY <1>1, <2>4, IsIndexed
  <2>6. Maps(f, FlattenSeq(u), FlattenSeq(v))
    BY <2>3, <2>5, MapsFlatten
  <2> QED BY <2>1, <2>6
<1>5. ASSUME NEW q \in 1..n PROVE Maps(f, s[q], t[q])
  <2>1. q \in Small(c) \/ q \in Large(c)
    BY <1>1 DEF Large
  <2> QED BY <1>3, <1>4, <2>1
<1>6. s = [q \in 1..n |-> s[q]] /\ t = [q \in 1..n |-> t[q]]
  OBVIOUS
<1> HIDE DEF s, t, n
<1>7. IsSeq(s) /\ Len(s) = n /\ IsSeq(t) /\ Len(t) = n
  BY <1>1, <1>6, IsIndexed
<1>8. Maps(f, FlattenSeq(s), FlattenSeq(t))
  BY <1>5, <1>7, MapsFlatten
<1> QED BY <1>2, <1>8 DEF c

\* Every chunk there is.
AllChunks ==
  {master_chunks[j] : j \in 1..Len(master_chunks)}
    \cup UNION {{LocalChunks(p, commit[0])[j] : j \in 1..Len(LocalChunks(p, commit[0]))} : p \in Party}

\* Entries that say something of the chunks are assembled as the chunks are.
Of(f, s) == [j \in DOMAIN s |-> f[s[j]]]

\* So rows and coefficients are assembled into those of the assembled chunks.
LEMMA AssembledOf ==
  ASSUME IInv, Counting, pc[0] = "evals", NEW f, DOMAIN f = AllChunks
  PROVE  LET c == commit[0]
             A == Assemble(c, master_chunks, [p \in Party |-> LocalChunks(p, c)])
         IN  /\ IsSeq(A) /\ \A j \in DOMAIN A : A[j] \in AllChunks
             /\ Assemble(c, Of(f, master_chunks), [p \in Party |-> Of(f, LocalChunks(p, c))]) = Of(f, A)
<1> DEFINE c == commit[0]
           K == [p \in Party |-> LocalChunks(p, c)]
           X == Of(f, master_chunks)
           Y == [p \in Party |-> Of(f, LocalChunks(p, c))]
           A == Assemble(c, master_chunks, K)
           B == Assemble(c, X, Y)
<1>1. ASSUME NEW s, IsSeq(s), \A j \in 1..Len(s) : s[j] \in AllChunks
      PROVE  Maps(f, s, Of(f, s))
  <2>1. Len(s) \in Nat /\ DOMAIN s = 1..Len(s)
    BY <1>1 DEF IsSeq
  <2>2. Of(f, s) = [j \in 1..Len(s) |-> f[s[j]]]
    BY <2>1 DEF Of
  <2>3. Of(f, s) = [j \in 1..Len(s) |-> Of(f, s)[j]]
    BY <2>2
  <2>4. IsSeq(Of(f, s)) /\ Len(Of(f, s)) = Len(s)
    BY <2>1, <2>3, IsIndexed
  <2> QED BY <1>1, <2>2, <2>4 DEF Maps
<1>2. Maps(f, master_chunks, X)
  <2>1. IsSeq(master_chunks)
    BY DEF Counting, Has
  <2>2. \A j \in 1..Len(master_chunks) : master_chunks[j] \in AllChunks
    BY DEF AllChunks
  <2> QED BY <1>1, <2>1, <2>2
<1>3. ASSUME NEW p \in Party PROVE K[p] = LocalChunks(p, commit[0]) /\ Maps(f, K[p], Y[p])
  <2>1. c \in 1..Cs /\ p \in Nat
    BY Sizes, MasterFacts DEF InPlace, Party
  <2>2. IsSeq(LocalChunks(p, c))
    BY <2>1, LocalIs DEF Has
  <2>3. \A j \in 1..Len(LocalChunks(p, c)) : LocalChunks(p, c)[j] \in AllChunks
    BY DEF AllChunks
  <2>4. Maps(f, LocalChunks(p, c), Of(f, LocalChunks(p, c)))
    BY <1>1, <2>2, <2>3
  <2> QED BY <2>4
<1> HIDE DEF K, X, Y
<1>4. Maps(f, A, B)
  BY <1>2, <1>3, AssembledMaps
<1> HIDE DEF A, B
<1>5. /\ IsSeq(A) /\ DOMAIN A = 1..Len(A) /\ \A j \in 1..Len(A) : A[j] \in AllChunks /\ B[j] = f[A[j]]
      /\ B = [j \in 1..Len(A) |-> B[j]]
  BY <1>4 DEF Maps, IsSeq
<1>6. B = Of(f, A)
  BY <1>5 DEF Of
<1> QED BY <1>5, <1>6 DEF A, B, K, X, Y

-----------------------------------------------------------------------------
(* How many chunks there are.                                              *)

\* What every party says of a commitment.
CountsOf(c)  == [q \in 1..Polys(c) |-> IF q \in Large(c) THEN LargeCount(c, q) ELSE SmallCount(c, q)]
NumChunks(c) == SumOver(CountsOf(c), Upto(1..Polys(c), Polys(c)))

Agreeing ==
  /\ \A w \in Worker : \A c \in DOMAIN chunks_per_poly[w] : chunks_per_poly[w][c] = CountsOf(c)
  /\ \A c \in DOMAIN commitments :
       /\ chunks_per_poly[0][c] = CountsOf(c)
       /\ commitments[c].chunks_per_poly = CountsOf(c) /\ commitments[c].num_chunks = NumChunks(c)
  /\ \A q \in 1..(poly - 1) : Counts[q] = CountsOf(commit[0])[q]
  /\ pc[0] = "roots" => /\ chunks_per_poly[0][commit[0]] = CountsOf(commit[0])
                        /\ total_chunks[0] = NumChunks(commit[0])

\* The number of parties is the power of two that its logarithm says.
LEMMA PartiesArePower == N = 2^num_party_vars
<1> DEFINE LogIs(k) == N =< 2^k /\ \A h \in 0..(k - 1) : 2^h < N
<1>1. PICK k \in 0..N : N = 2^k
  BY PowerAssumption
<1>2. N \in Nat /\ k \in Nat
  BY <1>1, Sizes
<1>3. LogIs(k)
  <2>1. N =< 2^k
    BY <1>1, <1>2
  <2>2. ASSUME NEW h \in 0..(k - 1) PROVE 2^h < N
    <3>1. h \in Nat /\ ~(k =< h)
      BY <1>2
    <3>2. ~(2^k =< 2^h) /\ 2^h \in Nat
      BY <1>2, <3>1, PowerGrows, PowerNext
    <3> QED BY <1>1, <1>2, <3>2
  <2> QED BY <2>1, <2>2
<1>4. num_party_vars = CHOOSE j \in 0..N : LogIs(j)
  BY DEF num_party_vars, Log2Up
<1> DEFINE m == num_party_vars
<1>5. m \in 0..N /\ LogIs(m)
  <2> HIDE DEF LogIs
  <2> QED BY <1>3, <1>4
<1> HIDE DEF m
<1>6. m \in Nat
  BY <1>2, <1>5
<1>7. k =< m
  BY <1>1, <1>2, <1>5, <1>6, PowerGrows
<1>8. ~(k < m)
  <2> SUFFICES ASSUME k < m PROVE FALSE
    OBVIOUS
  <2>1. k \in 0..(m - 1)
    BY <1>2, <1>6
  <2>2. 2^k < N
    BY <1>5, <2>1
  <2> QED BY <1>1, <1>2, <2>2
<1>9. k = m
  BY <1>2, <1>6, <1>7, <1>8
<1> QED BY <1>1, <1>9 DEF m

\* The whole of a small polynomial has as many chunks as a worker thinks.
LEMMA SmallIs ==
  ASSUME NEW c \in 1..Cs, NEW q \in Small(c), NEW parts, DOMAIN parts = Party,
         parts[0] = Portion(0, c, q)
  PROVE  Len(D!Split(Concat(parts))) = SmallCount(c, q) /\ Len(D!Split(Concat(parts))) \in Nat
<1> DEFINE l == LocalVars[c][q]
           m == num_party_vars
           n == 2^l
           whole == Concat(parts)
<1>1. q \in 1..Polys(c) /\ N \in Nat /\ N >= 1 /\ m \in Nat /\ N = 2^m /\ BaseMu \in Nat /\ Party = 0..(N - 1)
      /\ DOMAIN LocalVars[c] = 1..Polys(c) /\ c \in Commits
  BY Sizes, PartyVars, PartiesArePower DEF Party
<1>2. l \in Nat
  <2>1. LocalVars[c] \in Seq(Nat)
    BY TypesAssumption, ElementOfSeq DEF Cs
  <2> QED BY <1>1, <2>1, ElementOfSeq DEF Polys
<1>3. n \in Nat /\ n >= 1
  BY <1>2, PowerNext
<1>4. Size(parts[0]) = n
  <2>1. PortionLen(c, q) = n
    BY <1>3 DEF PortionLen
  <2> QED BY <1>1, <2>1, PortionSize
<1>5. Size(parts) = N
  BY <1>1, FS_Interval DEF Size
<1> HIDE DEF n
<1>6. Size(whole) = N * n
  <2>1. DOMAIN whole = 0..(N * n - 1)
    BY <1>4, <1>5 DEF Concat
  <2>2. N * n \in Nat
    BY <1>1, <1>3
  <2> DEFINE k == N * n
  <2> HIDE DEF k, whole
  <2>3. DOMAIN whole = 0..(k - 1) /\ k \in Nat
    BY <2>1, <2>2 DEF k
  <2>4. Cardinality(0..(k - 1)) = k
    BY <2>3, FS_Interval
  <2> QED BY <2>3, <2>4 DEF Size, k
<1>7. Size(whole) = 2^(l + m)
  <2>1. 2^(l + m) = 2^l * 2^m /\ 2^l \in Nat /\ 2^m \in Nat
    BY <1>1, <1>2, PowerSum, PowerNext
  <2> DEFINE x == 2^l
             y == 2^m
  <2>2. Size(whole) = y * x
    BY <1>1, <1>6 DEF n
  <2>3. 2^(l + m) = x * y /\ x \in Nat /\ y \in Nat
    BY <2>1
  <2> HIDE DEF x, y
  <2>4. y * x = x * y
    BY <2>3
  <2> QED BY <2>2, <2>3, <2>4
<1> HIDE DEF whole
<1>8. l + m \in Nat /\ 2^(l + m) \in Nat
  BY <1>1, <1>2, PowerNext
<1>9. Len(D!Split(whole)) = Pieces(2^(l + m)) /\ Pieces(2^(l + m)) \in Nat
  BY <1>7, <1>8, SplitIs
<1>10. FullVars[c][q] = l + m
  BY <1>1 DEF FullVars
<1> HIDE DEF l, m
<1>11. Pieces(2^(l + m)) = IF l + m =< BaseMu THEN 1 ELSE 2^((l + m) - BaseMu)
  <2>1. CASE l + m =< BaseMu
    BY <1>1, <1>8, <2>1, PowerGrows DEF Pieces
  <2>2. CASE ~(l + m =< BaseMu)
    <3>1. ~(2^(l + m) =< 2^BaseMu)
      BY <1>1, <1>8, <2>2, PowerGrows
    <3>2. 2^(l + m) \div 2^BaseMu = 2^((l + m) - BaseMu)
      BY <1>1, <1>8, <2>2, PowerGrows
    <3> QED BY <2>2, <3>1, <3>2 DEF Pieces
  <2> QED BY <2>1, <2>2
<1> QED BY <1>9, <1>10, <1>11 DEF SmallCount, whole

\* What is assembled has as many entries as are counted.
LEMMA AssembledLen ==
  ASSUME IInv, Counting, pc[0] = "evals"
  PROVE  LET c == commit[0]
             A == Assemble(c, master_chunks, [p \in Party |-> LocalChunks(p, c)])
         IN  Len(A) = SumOver(chunks_per_poly[0][c], Upto(1..Polys(c), Polys(c)))
<1> DEFINE c == commit[0]
           K == [p \in Party |-> LocalChunks(p, c)]
           n == Polys(c)
           counts == chunks_per_poly[0][c]
           s == [q \in 1..n |-> Entries(c, q, master_chunks, K)]
<1>1. c \in 1..Cs /\ n \in Nat /\ n >= 1 /\ DOMAIN LocalVars[c] = 1..n /\ N \in Nat /\ poly = n + 1
  BY Sizes, MasterFacts DEF InPlace, MasterHas
<1>2. Assemble(c, master_chunks, K) = FlattenSeq(s)
  BY AssembleIs
<1>3. \A q \in 1..n : counts[q] \in Nat /\ (q \in Large(c) => counts[q] = LargeCount(c, q))
  <2>1. Counts = counts /\ poly - 1 = n
    BY <1>1 DEF Counts
  <2> QED BY <1>1, <2>1 DEF Counting
<1>4. ASSUME NEW q \in Small(c)
      PROVE  IsSeq(Entries(c, q, master_chunks, K)) /\ Len(Entries(c, q, master_chunks, K)) = counts[q]
  <2> DEFINE a == MasterOffset(c, q)
             m == chunks_per_poly[0][c][q]
  <2>1. a \in Nat /\ m \in Nat /\ a + m =< Len(master_chunks) /\ IsSeq(master_chunks)
    BY <1>4, InMaster DEF Counting, Has
  <2> HIDE DEF a, m
  <2>2. /\ IsSeq(SubSeq(master_chunks, a + 1, a + m)) /\ Len(SubSeq(master_chunks, a + 1, a + m)) = m
    BY <2>1, PartIs
  <2> QED BY <1>4, <2>2 DEF Entries, a, m
<1>5. ASSUME NEW q \in Large(c)
      PROVE  IsSeq(Entries(c, q, master_chunks, K)) /\ Len(Entries(c, q, master_chunks, K)) = counts[q]
  <2> DEFINE a == PartyOffset(c, q)
             m == Locals(c)[q]
             u == [k \in 1..N |-> SubSeq(K[k - 1], a + 1, a + m)]
             lens == [k \in 1..N |-> m]
  <2> HIDE DEF K
  <2>1. Entries(c, q, master_chunks, K) = FlattenSeq(u)
    BY <1>5 DEF Entries, Large
  <2>2. a \in Nat /\ m \in Nat /\ \A p \in Party : a + m =< Len(LocalChunks(p, c))
    <3>1. ASSUME NEW p \in Party PROVE a \in Nat /\ m \in Nat /\ a + m =< Len(LocalChunks(p, c))
      BY <1>1, <1>5, InParty
    <3> QED BY <3>1, Sizes
  <2>3. q \in 1..n /\ LargeCount(c, q) = N * m
    <3>1. q \in 1..n /\ 0 \in Nat
      BY <1>1, <1>5 DEF Large
    <3> QED BY <1>1, <3>1, LocalsAre DEF LargeCount
  <2> HIDE DEF a, m
  <2>4. ASSUME NEW k \in 1..N PROVE IsSeq(u[k]) /\ Len(u[k]) = m
    <3>1. k - 1 \in Party /\ k - 1 \in Nat
      BY <1>1 DEF Party
    <3>2. IsSeq(LocalChunks(k - 1, c)) /\ a + m =< Len(LocalChunks(k - 1, c))
      BY <1>1, <2>2, <3>1, LocalIs DEF Has
    <3>3. u[k] = SubSeq(LocalChunks(k - 1, c), a + 1, a + m)
      BY <3>1 DEF K
    <3> DEFINE t == LocalChunks(k - 1, c)
    <3> HIDE DEF t, u
    <3>4. IsSeq(t) /\ a \in Nat /\ m \in Nat /\ a + m =< Len(t)
      BY <2>2, <3>2 DEF t
    <3>5. IsSeq(SubSeq(t, a + 1, a + m)) /\ Len(SubSeq(t, a + 1, a + m)) = m
      BY <3>4, PartIs
    <3>6. u[k] = SubSeq(t, a + 1, a + m)
      BY <3>3 DEF t
    <3> QED BY <3>5, <3>6
  <2>5. u = [k \in 1..N |-> u[k]]
    OBVIOUS
  <2> HIDE DEF u
  <2>6. IsSeq(u) /\ Len(u) = N
    BY <1>1, <2>5, IsIndexed
  <2>7. IsSeq(FlattenSeq(u)) /\ Len(FlattenSeq(u)) = SumOver(lens, Upto(1..N, N))
    <3> DEFINE B == 1..N
    <3>1. /\ B \in SUBSET (1..Len(u)) /\ (\A i \in B : lens[i] = Len(u[i])) /\ (1..Len(u)) \ B = {}
          /\ \A i \in 1..Len(u) : IsSeq(u[i])
      BY <2>4, <2>6
    <3> HIDE DEF B, lens
    <3>2. IsSeq(FlattenSeq(u)) /\ Len(FlattenSeq(u)) = SumOver(lens, Upto(B, Len(u)))
      BY <2>6, <3>1, FlattenLen
    <3> QED BY <2>6, <3>2 DEF B
  <2>8. SumOver(lens, Upto(1..N, N)) = N * m
    <3>1. \A k \in 1..N : lens[k] = m
      OBVIOUS
    <3> HIDE DEF lens
    <3> QED BY <1>1, <2>2, <3>1, SumConst
  <2> QED BY <1>3, <1>5, <2>1, <2>3, <2>7, <2>8
<1>6. \A q \in 1..n : IsSeq(s[q]) /\ Len(s[q]) = counts[q]
  <2>1. \A q \in 1..n : q \in Small(c) \/ q \in Large(c)
    BY <1>1 DEF Large
  <2> QED BY <1>4, <1>5, <2>1
<1>7. s = [q \in 1..n |-> s[q]]
  OBVIOUS
<1> HIDE DEF s, counts
<1>8. IsSeq(s) /\ Len(s) = n
  BY <1>1, <1>7, IsIndexed
<1>9. Len(FlattenSeq(s)) = SumOver(counts, Upto(1..n, n))
  <2> DEFINE B == 1..n
  <2>1. /\ B \in SUBSET (1..Len(s)) /\ (\A i \in B : counts[i] = Len(s[i])) /\ (1..Len(s)) \ B = {}
        /\ \A i \in 1..Len(s) : IsSeq(s[i])
    BY <1>6, <1>8
  <2> HIDE DEF B
  <2>2. Len(FlattenSeq(s)) = SumOver(counts, Upto(B, Len(s)))
    BY <1>8, <2>1, FlattenLen
  <2> QED BY <1>8, <2>2 DEF B
<1> QED BY <1>2, <1>9 DEF counts

-----------------------------------------------------------------------------
(* The steps.                                                              *)

\* What is gathered of the chunks is that of every party.
LEMMA ChunksGathered ==
  ASSUME IInv, NEW call \in {"v0", "f0", "evals"}, Gathered(call), NEW own
  PROVE  Gather(own) = [p \in Party |-> IF p = 0 THEN own ELSE Says(p, <<call, commit[0], 0>>)]
<1>1. pc[0] = call /\ \A w \in Worker : Is(w, Head(up[w]), ToGather)
  BY MasterGathers
<1>2. ToGather = <<call, commit[0], 0>>
  BY <1>1 DEF ToGather
<1>3. \A w \in Worker : Head(up[w]).val = Says(w, <<call, commit[0], 0>>)
  BY <1>1, <1>2 DEF Is, Exact
<1>4. \A p \in Party : p # 0 => p \in Worker
  BY Sizes
<1> HIDE DEF Says
<1> QED BY <1>3, <1>4 DEF Gather

\* The rows are those of the chunks when the master has assembled them.
LEMMA MasterAssemblesAgree == ASSUME IInv, Assembling, MasterAssembles PROVE Matrices'
<1> DEFINE c == commit[0]
           K == [p \in Party |-> LocalChunks(p, c)]
           A == Assemble(c, master_chunks, K)
           V == Assemble(c, RowsOf(master_chunks), all_v0)
           F == Assemble(c, CoeffsOf(master_chunks), all_f0)
<1>1. /\ Gathered("evals") /\ v0_matrix' = Append(v0_matrix, V) /\ f0_matrix' = Append(f0_matrix, F)
      /\ chunk_polys' = Append(chunk_polys, Assemble(c, master_chunks, Gather(LocalChunks(0, c))))
  BY DEF MasterAssembles, CombinedV0
<1>2. pc[0] = "evals" /\ Counting /\ c \in Commits
  BY <1>1, Sizes, MasterFacts DEF Assembling, Gathered, InPlace
<1>3. Gather(LocalChunks(0, c)) = K
  BY <1>1, ChunksGathered DEF Says
<1>4. /\ all_v0 = [p \in Party |-> RowsOf(LocalChunks(p, c))]
      /\ all_f0 = [p \in Party |-> CoeffsOf(LocalChunks(p, c))]
  BY <1>2 DEF Assembling, Brought
<1>5. \A j \in DOMAIN master_chunks : master_chunks[j] \in AllChunks
  BY <1>2 DEF Counting, Has, IsSeq, AllChunks
<1>6. ASSUME NEW p \in Party PROVE \A j \in DOMAIN LocalChunks(p, c) : LocalChunks(p, c)[j] \in AllChunks
  <2>1. c \in 1..Cs /\ p \in Nat
    BY Sizes, MasterFacts DEF InPlace, Party
  <2> QED BY <2>1, LocalIs DEF Has, IsSeq, AllChunks
<1>7. V = RowsOf(A)
  <2> DEFINE f == [x \in AllChunks |-> D!Row(x)]
  <2>1. ASSUME NEW s, \A j \in DOMAIN s : s[j] \in AllChunks PROVE RowsOf(s) = Of(f, s)
    BY <2>1 DEF RowsOf, Of
  <2>2. DOMAIN f = AllChunks
    OBVIOUS
  <2> HIDE DEF f
  <2>3. RowsOf(master_chunks) = Of(f, master_chunks)
    BY <1>5, <2>1
  <2>4. ASSUME NEW p \in Party PROVE RowsOf(LocalChunks(p, c)) = Of(f, LocalChunks(p, c))
    BY <1>6, <2>1
  <2>5. /\ \A j \in DOMAIN A : A[j] \in AllChunks
        /\ Assemble(c, Of(f, master_chunks), [p \in Party |-> Of(f, LocalChunks(p, c))]) = Of(f, A)
    BY <1>2, <2>2, AssembledOf
  <2>6. V = Assemble(c, Of(f, master_chunks), [p \in Party |-> Of(f, LocalChunks(p, c))])
    BY <1>4, <2>3, <2>4
  <2> QED BY <2>1, <2>5, <2>6
<1>8. F = CoeffsOf(A)
  <2> DEFINE f == [x \in AllChunks |-> Coeffs(x)]
  <2>1. ASSUME NEW s, \A j \in DOMAIN s : s[j] \in AllChunks PROVE CoeffsOf(s) = Of(f, s)
    BY <2>1 DEF CoeffsOf, Of
  <2>2. DOMAIN f = AllChunks
    OBVIOUS
  <2> HIDE DEF f
  <2>3. CoeffsOf(master_chunks) = Of(f, master_chunks)
    BY <1>5, <2>1
  <2>4. ASSUME NEW p \in Party PROVE CoeffsOf(LocalChunks(p, c)) = Of(f, LocalChunks(p, c))
    BY <1>6, <2>1
  <2>5. /\ \A j \in DOMAIN A : A[j] \in AllChunks
        /\ Assemble(c, Of(f, master_chunks), [p \in Party |-> Of(f, LocalChunks(p, c))]) = Of(f, A)
    BY <1>2, <2>2, AssembledOf
  <2>6. F = Assemble(c, Of(f, master_chunks), [p \in Party |-> Of(f, LocalChunks(p, c))])
    BY <1>4, <2>3, <2>4
  <2> QED BY <2>1, <2>5, <2>6
<1> HIDE DEF A, V, F
<1>9. chunk_polys' = Append(chunk_polys, A)
  BY <1>1, <1>3 DEF A
<1> DEFINE n == Len(v0_matrix)
<1>10. /\ IsSeq(v0_matrix) /\ IsSeq(f0_matrix) /\ IsSeq(chunk_polys)
      /\ Len(f0_matrix) = n /\ Len(chunk_polys) = n /\ n \in Nat
  BY MasterFacts DEF Assembling, Matrices, MasterHas, Has, IsSeq
<1> HIDE DEF n
<1>11. /\ IsSeq(v0_matrix') /\ Len(v0_matrix') = n + 1
      /\ (\A d \in 1..n : v0_matrix'[d] = v0_matrix[d]) /\ v0_matrix'[n + 1] = V
  BY <1>1, <1>10, IsAppend DEF n
<1>12. /\ IsSeq(f0_matrix') /\ Len(f0_matrix') = n + 1
       /\ (\A d \in 1..n : f0_matrix'[d] = f0_matrix[d]) /\ f0_matrix'[n + 1] = F
  BY <1>1, <1>10, IsAppend
<1>13. /\ IsSeq(chunk_polys') /\ Len(chunk_polys') = n + 1
       /\ (\A d \in 1..n : chunk_polys'[d] = chunk_polys[d]) /\ chunk_polys'[n + 1] = A
  BY <1>9, <1>10, IsAppend
<1>14. ASSUME NEW d \in DOMAIN v0_matrix'
       PROVE  v0_matrix'[d] = RowsOf(chunk_polys'[d]) /\ f0_matrix'[d] = CoeffsOf(chunk_polys'[d])
  <2>1. d \in 1..(n + 1)
    BY <1>11 DEF IsSeq
  <2>2. CASE d = n + 1
    BY <1>7, <1>8, <1>11, <1>12, <1>13, <2>2
  <2>3. CASE d \in 1..n
    <3>1. d \in DOMAIN v0_matrix
      BY <1>10, <2>3 DEF IsSeq, n
    <3>2. v0_matrix[d] = RowsOf(chunk_polys[d]) /\ f0_matrix[d] = CoeffsOf(chunk_polys[d])
      BY <3>1 DEF Assembling, Matrices, RowsAgree
    <3> QED BY <1>11, <1>12, <1>13, <2>3, <3>2
  <2> QED BY <1>10, <2>1, <2>2, <2>3
<1> QED BY <1>11, <1>12, <1>13, <1>14 DEF Matrices, Has, RowsAgree

\* What the master notes is put behind what it has, and nothing else changes.
LEMMA CountAppended ==
  ASSUME IInv, Counting, pc[0] \in {"commit", "small"}, poly \in 1..Polys(commit[0]), NEW count,
         MasterCounts(count)
  PROVE  /\ poly' = poly + 1 /\ commit' = commit
         /\ IsSeq(Counts') /\ Len(Counts') = poly
         /\ Counts'[poly] = count /\ \A q \in 1..(poly - 1) : Counts'[q] = Counts[q]
         /\ \A w \in Worker : chunks_per_poly'[w] = chunks_per_poly[w]
         /\ \A d \in 1..(commit[0] - 1) : chunks_per_poly'[0][d] = chunks_per_poly[0][d]
<1> DEFINE c == commit[0]
           old == chunks_per_poly[0]
           more == IF poly = 1 THEN Append(old, <<count>>) ELSE [old EXCEPT ![c] = Append(@, count)]
<1>1. /\ poly' = poly + 1 /\ commit' = commit /\ chunks_per_poly' = [chunks_per_poly EXCEPT ![0] = more]
      /\ poly \in Nat /\ poly >= 1
  BY DEF MasterCounts, control
<1>2. /\ c \in 1..Cs /\ Cs \in Nat /\ 0 \in DOMAIN chunks_per_poly /\ 0 \notin Worker
      /\ Has(old, IF poly > 1 THEN c ELSE c - 1)
  BY Sizes, MasterFacts DEF InPlace, OfParties, MasterHas, Made, Committing
<1>3. Counts' = more[c] /\ chunks_per_poly'[0] = more
  <2> HIDE DEF more
  <2>1. poly' # 1 /\ chunks_per_poly'[0] = more /\ commit'[0] = c
    BY <1>1, <1>2
  <2> QED BY <2>1 DEF Counts
<1>4. more[c] = Append(Counts, count)
  <2>1. CASE poly = 1
    <3>1. Len(old) = c - 1 /\ Append(old, <<count>>)[Len(old) + 1] = <<count>>
      BY <1>2, <2>1, IsAppend DEF Has
    <3>2. Append(<<>>, count) = <<count>>
      OBVIOUS
    <3> QED BY <1>2, <2>1, <3>1, <3>2 DEF Counts
  <2>2. CASE poly # 1
    <3>1. c \in DOMAIN old
      BY <1>1, <1>2, <2>2 DEF Has, IsSeq
    <3> QED BY <2>2, <3>1 DEF Counts
  <2> QED BY <2>1, <2>2
<1>5. \A d \in 1..(c - 1) : more[d] = old[d]
  <2>1. CASE poly = 1
    BY <1>2, <2>1, IsAppend DEF Has
  <2>2. CASE poly # 1
    <3>1. \A d \in 1..(c - 1) : d # c /\ d \in DOMAIN old
      BY <1>1, <1>2, <2>2 DEF Has, IsSeq
    <3> QED BY <2>2, <3>1
  <2> QED BY <2>1, <2>2
<1> HIDE DEF more
<1>6. IsSeq(Counts) /\ Len(Counts) = poly - 1
  BY DEF Counting, Has
<1>7. /\ IsSeq(Counts') /\ Len(Counts') = poly
      /\ Counts'[poly] = count /\ \A q \in 1..(poly - 1) : Counts'[q] = Counts[q]
  BY <1>1, <1>3, <1>4, <1>6, IsAppend
<1>8. \A w \in Worker : chunks_per_poly'[w] = chunks_per_poly[w]
  BY <1>1, <1>2
<1> QED BY <1>1, <1>3, <1>5, <1>7, <1>8

\* One more polynomial is counted.
LEMMA CountingGrows ==
  ASSUME IInv, Counting, pc[0] \in {"commit", "small"}, poly \in 1..Polys(commit[0]), NEW count \in Nat,
         MasterCounts(count), poly \in Large(commit[0]) => count = LargeCount(commit[0], poly),
         Has(master_chunks', Len(master_chunks) + IF poly \in Small(commit[0]) THEN count ELSE 0)
  PROVE  Counting'
<1> DEFINE c == commit[0]
           A == Small(c)
<1>1. poly \in Nat /\ poly >= 1
  OBVIOUS
<1>2. A \in SUBSET (1..Polys(c)) /\ Polys(c) \in Nat
  BY Sizes, MasterFacts DEF InPlace
<1>3. IsSeq(Counts) /\ Len(Counts) = poly - 1 /\ Has(master_chunks, SumOver(Counts, Upto(A, poly - 1)))
      /\ \A q \in 1..(poly - 1) : Counts[q] \in Nat /\ (q \in Large(c) => Counts[q] = LargeCount(c, q))
  BY DEF Counting, Has
<1>4. /\ IsSeq(Counts') /\ Len(Counts') = poly /\ Counts'[poly] = count
      /\ \A q \in 1..(poly - 1) : Counts'[q] = Counts[q]
  BY CountAppended
<1>5. poly' = poly + 1 /\ commit' = commit
  BY CountAppended
<1>6. \A q \in 1..poly : Counts'[q] \in Nat /\ (q \in Large(c) => Counts'[q] = LargeCount(c, q))
  BY <1>1, <1>3, <1>4
<1>7. SumOver(Counts', Upto(A, poly)) = (IF poly \in A THEN count ELSE 0) + SumOver(Counts, Upto(A, poly - 1))
  <2> DEFINE B == Upto(A, poly)
             f == Counts
             g == Counts'
             k == poly - 1
  <2>1. B \in SUBSET (1..poly) /\ Upto(B, poly) = B /\ Upto(B, k) = Upto(A, k) /\ (poly \in B <=> poly \in A)
    BY <1>1, <1>2 DEF Upto
  <2>2. k \in Nat /\ k + 1 = poly
    BY <1>1
  <2> HIDE DEF B, k
  <2>3. \A h \in B : g[h] \in Nat
    BY <1>6, <2>1
  <2> HIDE DEF f, g
  <2>4. \A i \in Nat : /\ SumOver(g, Upto(B, 0)) = 0 /\ SumOver(g, Upto(B, i)) \in Nat
                       /\ SumOver(g, Upto(B, i + 1)) = (IF i + 1 \in B THEN g[i + 1] ELSE 0) + SumOver(g, Upto(B, i))
    <3>1. poly \in Nat /\ B \in SUBSET (1..poly)
      BY <1>1, <2>1
    <3> QED BY ONLY <2>3, <3>1, SumNext, ZenonT(60)
  <2>5. SumOver(g, Upto(B, poly)) = (IF poly \in B THEN g[poly] ELSE 0) + SumOver(g, Upto(B, k))
    BY <2>2, <2>4
  <2> DEFINE C == Upto(A, k)
  <2>6. C \in SUBSET (1..poly) /\ Upto(C, k) = C
    BY <1>2, <2>1, <2>2 DEF Upto
  <2>7. \A h \in C : f[h] \in Nat /\ g[h] = f[h]
    BY <1>1, <1>3, <1>4 DEF Upto, k, f, g
  <2> HIDE DEF C
  <2>8. SumOver(g, Upto(C, k)) = SumOver(f, Upto(C, k))
    BY ONLY <1>1, <2>2, <2>6, <2>7, SumSame, ZenonT(60)
  <2>9. SumOver(g, Upto(B, k)) = SumOver(f, C)
    BY <2>1, <2>6, <2>8 DEF C
  <2> QED BY <1>4, <2>1, <2>5, <2>9 DEF f, g, B, C, k
<1>8. Has(master_chunks', SumOver(Counts', Upto(A, poly)))
  <2>1. Len(master_chunks) \in Nat
    BY <1>3 DEF Has, IsSeq
  <2>2. Len(master_chunks) + (IF poly \in A THEN count ELSE 0) = SumOver(Counts', Upto(A, poly))
    BY <1>3, <1>7, <2>1 DEF Has
  <2> QED BY <2>2
<1>9. poly' - 1 = poly
  BY <1>1, <1>5
<1>10. commit'[0] = c
  BY <1>5
<1> HIDE DEF c, A
<1>11. Counting' <=> /\ Has(Counts', poly' - 1)
                     /\ \A q \in 1..(poly' - 1) : /\ Counts'[q] \in Nat
                                                  /\ q \in Large(commit'[0]) => Counts'[q] = LargeCount(commit'[0], q)
                     /\ Has(master_chunks', SumOver(Counts', Upto(Small(commit'[0]), poly' - 1)))
  BY DEF Counting
<1> QED BY <1>4, <1>6, <1>8, <1>9, <1>10, <1>11 DEF Has, A

\* Nothing is counted, or nothing of this commitment is yet.
LEMMA CountingStays ==
  ASSUME Counting, UNCHANGED <<poly, master_chunks>>, chunks_per_poly'[0] = chunks_per_poly[0],
         commit'[0] = commit[0] \/ poly = 1
  PROVE  Counting'
<1>1. Counting' <=> /\ Has(Counts', poly' - 1)
                    /\ \A q \in 1..(poly' - 1) : /\ Counts'[q] \in Nat
                                                 /\ q \in Large(commit'[0]) => Counts'[q] = LargeCount(commit'[0], q)
                    /\ Has(master_chunks', SumOver(Counts', Upto(Small(commit'[0]), poly' - 1)))
  BY DEF Counting
<1>2. Counts' = Counts
  BY DEF Counts
<1>3. CASE commit'[0] = commit[0]
  BY <1>1, <1>2, <1>3 DEF Counting
<1>4. CASE poly = 1
  <2>1. Upto(Small(commit'[0]), poly - 1) = {} /\ Upto(Small(commit[0]), poly - 1) = {} /\ 1..(poly - 1) = {}
    BY <1>4 DEF Upto
  <2> HIDE DEF Upto
  <2> QED BY <1>1, <1>2, <2>1 DEF Counting
<1> QED BY <1>3, <1>4

\* And nothing of a commitment after it.
LEMMA NothingCounted ==
  ASSUME poly' = 1, master_chunks' = <<>>
  PROVE  Counting'
<1>1. Counting' <=> /\ Has(Counts', poly' - 1)
                    /\ \A q \in 1..(poly' - 1) : /\ Counts'[q] \in Nat
                                                 /\ q \in Large(commit'[0]) => Counts'[q] = LargeCount(commit'[0], q)
                    /\ Has(master_chunks', SumOver(Counts', Upto(Small(commit'[0]), poly' - 1)))
  BY DEF Counting
<1>2. Counts' = <<>> /\ 1..(poly' - 1) = {} /\ poly' - 1 = 0
  BY DEF Counts
<1>3. Upto(Small(commit'[0]), poly' - 1) = {}
  BY <1>2 DEF Upto
<1>4. SumOver(Counts', {}) = 0
  <2>1. {} \in SUBSET (1..0) /\ 0 \in Nat
    OBVIOUS
  <2>2. \A h \in {} : Counts'[h] \in Nat
    OBVIOUS
  <2> QED BY <2>1, <2>2, SumIs
<1> QED BY <1>1, <1>2, <1>3, <1>4, IsEmpty DEF Has

\* The matrices stay.
LEMMA MatricesStay ==
  ASSUME Matrices, UNCHANGED <<v0_matrix, f0_matrix, chunk_polys>>
  PROVE  Matrices'
BY DEF Matrices, RowsAgree

\* A step that is not about this.
LEMMA AssemblingStays ==
  ASSUME Assembling, UNCHANGED <<assembling, v0_matrix, f0_matrix, chunk_polys>>,
         chunks_per_poly'[0] = chunks_per_poly[0], commit'[0] = commit[0] \/ poly = 1,
         pc'[0] \notin {"f0", "evals"} \/ (pc'[0] = pc[0] /\ commit'[0] = commit[0])
  PROVE  Assembling'
<1>1. Counting' /\ Matrices'
  BY CountingStays, MatricesStay DEF Assembling, assembling
<1>2. Brought'
  <2>1. CASE pc'[0] \notin {"f0", "evals"}
    BY <2>1 DEF Brought
  <2>2. CASE pc'[0] = pc[0] /\ commit'[0] = commit[0]
    BY <2>2 DEF Brought, Assembling, assembling
  <2> QED BY <2>1, <2>2
<1> QED BY <1>1, <1>2 DEF Assembling

\* A worker's step leaves the master alone, and the worker counts as it does.
LEMMA WorkerLeavesMaster ==
  ASSUME IInv, NEW w \in Worker, WorkerRuns(w)
  PROVE  /\ UNCHANGED <<assembling, v0_matrix, f0_matrix, chunk_polys, commitments>>
         /\ chunks_per_poly'[0] = chunks_per_poly[0] /\ total_chunks'[0] = total_chunks[0]
         /\ commit'[0] = commit[0] /\ pc'[0] = pc[0]
         /\ WorkerCommits(w) \/ UNCHANGED chunks_per_poly
<1>1. w # 0 /\ OfParties
  BY Sizes, MasterFacts
<1>2. /\ UNCHANGED <<assembling, v0_matrix, f0_matrix, chunk_polys, commitments>>
      /\ chunks_per_poly'[0] = chunks_per_poly[0] /\ total_chunks'[0] = total_chunks[0]
      /\ WorkerCommits(w) \/ UNCHANGED chunks_per_poly
  <2>1. CASE WorkerCommits(w)
    BY <1>1, <2>1 DEF WorkerCommits, committed, OfParties
  <2>2. CASE WorkerTotal(w)
    BY <1>1, <2>2 DEF WorkerTotal, committed, advices, OfParties
  <2>5. CASE WorkerColumns(w)
    BY <2>5 DEF WorkerColumns, committed, advices
  <2>3. CASE WorkerToPoly(w)
    BY <2>3 DEF WorkerToPoly, committed, advices
  <2>4. CASE \/ WorkerClaims(w) \/ WorkerGamma(w) \/ WorkerChallenge(w) \/ WorkerSumEvals(w) \/ WorkerHears(w)
             \/ WorkerRound(w) \/ WorkerPosition(w)
    <3>1. Unmoved
      BY <2>4 DEF WorkerClaims, WorkerGamma, WorkerChallenge, WorkerSumEvals, WorkerHears, WorkerRound, WorkerPosition
    <3> QED BY <3>1 DEF Unmoved, committed, advices
  <2> QED BY <2>1, <2>2, <2>3, <2>4, <2>5 DEF WorkerRuns
<1>3. commit'[0] = commit[0]
  <2>1. CASE WorkerColumns(w)
    BY <1>1, <2>1 DEF WorkerColumns, NextCommit, OfParties
  <2>2. CASE WorkerPosition(w)
    BY <1>1, <2>2 DEF WorkerPosition, NextOpening, OfParties
  <2>3. CASE \/ WorkerCommits(w) \/ WorkerTotal(w) \/ WorkerToPoly(w) \/ WorkerClaims(w) \/ WorkerGamma(w)
             \/ WorkerSumEvals(w) \/ WorkerHears(w)
    BY <2>3 DEF WorkerCommits, WorkerTotal, WorkerToPoly, WorkerClaims, WorkerGamma, WorkerSumEvals, WorkerHears, control
  <2>4. CASE WorkerChallenge(w) \/ WorkerRound(w)
    BY <2>4 DEF WorkerChallenge, WorkerRound
  <2> QED BY <2>1, <2>2, <2>3, <2>4 DEF WorkerRuns
<1>4. pc'[0] = pc[0]
  <2>1. (\E call : Becomes(w, call)) \/ UNCHANGED pc
    <3>1. CASE \/ WorkerCommits(w) \/ WorkerTotal(w) \/ WorkerToPoly(w) \/ WorkerClaims(w) \/ WorkerGamma(w)
               \/ WorkerSumEvals(w) \/ WorkerRound(w)
      BY <3>1 DEF WorkerCommits, WorkerTotal, WorkerToPoly, WorkerClaims, WorkerGamma, WorkerSumEvals, WorkerRound
    <3>2. CASE WorkerColumns(w)
      BY <3>2 DEF WorkerColumns, NextCommit
    <3>3. CASE WorkerPosition(w)
      BY <3>3 DEF WorkerPosition, NextOpening
    <3>4. CASE WorkerHears(w)
      BY <3>4 DEF WorkerHears
    <3>5. CASE WorkerChallenge(w)
      BY <3>5 DEF WorkerChallenge
    <3> QED BY <3>1, <3>2, <3>3, <3>4, <3>5 DEF WorkerRuns
  <2>2. ASSUME NEW call, Becomes(w, call) PROVE pc'[0] = pc[0]
    BY <1>1, <2>2, Sizes DEF Becomes, OfParties
  <2> QED BY <2>1, <2>2
<1> QED BY <1>2, <1>3, <1>4

\* So it is not about this.
LEMMA WorkerAssembles == ASSUME IInv, Assembling, NEW w \in Worker, WorkerRuns(w) PROVE Assembling'
BY WorkerLeavesMaster, AssemblingStays

\* The master counts the chunks of a large polynomial,
LEMMA SplitsAssembles == ASSUME IInv, Assembling, MasterSplits PROVE Assembling'
<1> DEFINE c == commit[0]
<1>1. /\ pc[0] = "commit" /\ poly \in DOMAIN LocalVars[c] /\ IsLarge(c, poly)
      /\ MasterCounts(LargeCount(c, poly)) /\ UNCHANGED <<pc, master_chunks>>
  BY DEF MasterSplits
<1>2. c \in 1..Cs /\ poly \in 1..Polys(c) /\ poly \notin Small(c)
  BY <1>1, MasterFacts, Sizes DEF InPlace, Small
<1>3. Has(master_chunks', Len(master_chunks) + 0)
  BY <1>1 DEF Assembling, Counting, Has, IsSeq
<1>4. LargeCount(c, poly) \in Nat
  BY <1>2, LocalsAre
<1>5. Counting'
  BY <1>1, <1>2, <1>3, <1>4, CountingGrows DEF Assembling
<1>6. Matrices' /\ Brought'
  BY <1>1, MatricesStay DEF Assembling, MasterCounts, committed, Brought
<1> QED BY <1>5, <1>6 DEF Assembling

\* or those of a small one whose portions it has gathered;
LEMMA SmallAssembles == ASSUME IInv, Assembling, MasterGathersSmall PROVE Assembling'
<1> DEFINE c == commit[0]
           parts == Gather(Portion(0, c, poly))
           whole == Concat(parts)
           chunks == D!Split(whole)
<1>1. /\ Gathered("small") /\ master_chunks' = master_chunks \o chunks
      /\ MasterCounts(Len(chunks)) /\ Becomes(0, "commit")
  BY DEF MasterGathersSmall
<1>2. /\ pc[0] = "small" /\ c \in 1..Cs /\ poly \in 1..Polys(c) /\ poly \in Small(c) /\ poly \notin Large(c)
      /\ 0 \in Party /\ N \in Nat
  BY <1>1, MasterFacts, Sizes DEF InPlace, MasterHas, Gathered, Large
<1>3. Size(whole) \in Nat
  <2> DEFINE n == Size(parts[0])
             k == Size(parts)
  <2>1. parts[0] = Portion(0, c, poly) /\ DOMAIN parts = 0..(N - 1)
    BY <1>2 DEF Gather, Party
  <2>2. n \in Nat
    BY <1>2, <2>1, PortionSize
  <2>3. DOMAIN whole = 0..(k * n - 1)
    BY DEF Concat
  <2> HIDE DEF whole, parts
  <2>4. k \in Nat
    <3>1. 0 \in Int /\ N - 1 \in Int
      BY <1>2
    <3>2. Cardinality(0..(N - 1)) = IF 0 > N - 1 THEN 0 ELSE (N - 1) - 0 + 1
      BY <3>1, FS_Interval
    <3>3. Cardinality(0..(N - 1)) \in Nat
      BY <1>2, <3>2
    <3> QED BY <2>1, <3>3 DEF Size
  <2> HIDE DEF n, k
  <2>5. k * n - 1 \in Int
    BY <2>2, <2>4
  <2>6. Cardinality(0..(k * n - 1)) \in Nat
    BY <2>5, FS_Interval
  <2> QED BY <2>3, <2>6 DEF Size
<1> HIDE DEF whole
<1>4. IsSeq(chunks) /\ Len(chunks) \in Nat
  BY <1>3, SplitIs
<1> HIDE DEF chunks
<1>5. Has(master_chunks', Len(master_chunks) + Len(chunks))
  <2>1. IsSeq(master_chunks)
    BY DEF Assembling, Counting, Has
  <2> QED BY <1>1, <1>4, <2>1, IsConcat DEF Has
<1>6. Counting'
  BY <1>1, <1>2, <1>4, <1>5, CountingGrows DEF Assembling
<1>7. Matrices' /\ Brought'
  <2>1. pc'[0] = "commit"
    BY <1>1, <1>2, MasterFacts DEF Becomes, OfParties
  <2>2. UNCHANGED <<v0_matrix, f0_matrix, chunk_polys>>
    BY <1>1 DEF MasterCounts, committed
  <2> QED BY <2>1, <2>2, MatricesStay DEF Assembling, Brought
<1> QED BY <1>6, <1>7 DEF Assembling

\* gathers the rows of the large ones
LEMMA V0Assembles == ASSUME IInv, Assembling, MasterGathersV0 PROVE Assembling'
<1> DEFINE c == commit[0]
<1>1. /\ Gathered("v0") /\ all_v0' = Gather(RowsOf(LocalChunks(0, c))) /\ Becomes(0, "f0")
      /\ UNCHANGED <<control, advices, poly, master_chunks, all_f0, committed>>
  BY DEF MasterGathersV0
<1>2. Counting' /\ Matrices'
  BY <1>1, CountingStays, MatricesStay DEF Assembling, control, advices, committed
<1>3. pc'[0] = "f0"
  BY <1>1, Sizes, MasterFacts DEF Becomes, OfParties
<1>4. all_v0' = [p \in Party |-> RowsOf(LocalChunks(p, c))]
  BY <1>1, ChunksGathered DEF Says
<1>5. Brought'
  BY <1>1, <1>3, <1>4 DEF Brought, control
<1> QED BY <1>2, <1>5 DEF Assembling

\* and their coefficients,
LEMMA F0Assembles == ASSUME IInv, Assembling, MasterGathersF0 PROVE Assembling'
<1> DEFINE c == commit[0]
<1>1. /\ Gathered("f0") /\ all_f0' = Gather(CoeffsOf(LocalChunks(0, c))) /\ Becomes(0, "evals")
      /\ UNCHANGED <<control, advices, poly, master_chunks, all_v0, committed>>
  BY DEF MasterGathersF0
<1>2. Counting' /\ Matrices' /\ pc[0] = "f0"
  BY <1>1, CountingStays, MatricesStay DEF Assembling, control, advices, committed, Gathered
<1>3. pc'[0] = "evals"
  BY <1>1, Sizes, MasterFacts DEF Becomes, OfParties
<1>4. all_f0' = [p \in Party |-> CoeffsOf(LocalChunks(p, c))]
  BY <1>1, ChunksGathered DEF Says
<1>5. Brought'
  BY <1>1, <1>2, <1>3, <1>4 DEF Brought, control, Assembling
<1> QED BY <1>2, <1>5 DEF Assembling

\* and assembles it all.
LEMMA AssemblesAssembles == ASSUME IInv, Assembling, MasterAssembles PROVE Assembling'
<1>1. poly' = 1 /\ master_chunks' = <<>> /\ pc'[0] = "roots"
  BY Sizes, MasterFacts DEF MasterAssembles, Becomes, OfParties
<1>2. Matrices'
  BY MasterAssemblesAgree
<1> QED BY <1>1, <1>2, NothingCounted DEF Assembling, Brought

\* What it does at all the other places.
MasterElse ==
  \/ MasterWaits \/ MasterRoots \/ MasterOpens \/ MasterClaims \/ MasterSumcheck \/ MasterFinalEvals
  \/ MasterSumEvals \/ MasterSpreads \/ MasterLeaves \/ MasterKeeps
  \/ MasterQuery \/ MasterColumn \/ MasterLocalProof \/ MasterHash

\* None of these steps touches the matrices or the counts, and the master is not
\* at an assembly after it.
LEMMA MasterDoesElse ==
  ASSUME IInv, MasterElse
  PROVE  /\ UNCHANGED <<assembling, v0_matrix, f0_matrix, chunk_polys, chunks_per_poly>>
         /\ pc'[0] \notin {"f0", "evals", "roots"} /\ (commit'[0] = commit[0] \/ poly = 1)
         /\ MasterRoots \/ UNCHANGED commitments
<1> USE DEF committed, advices, MasterElse
<1>0. 0 \in DOMAIN pc
  BY Sizes, MasterFacts DEF OfParties
<1>1. /\ UNCHANGED <<assembling, v0_matrix, f0_matrix, chunk_polys, chunks_per_poly>>
      /\ MasterRoots \/ UNCHANGED commitments
  <2>1. CASE MasterWaits \/ MasterRoots
    BY <2>1 DEF MasterWaits, MasterRoots
  <2>2. CASE MasterOpens \/ MasterClaims \/ MasterSumEvals
    BY <2>2 DEF MasterOpens, MasterClaims, MasterSumEvals
  <2>3. CASE MasterSumcheck
    BY <2>3 DEF MasterSumcheck
  <2>4. CASE MasterFinalEvals
    BY <2>4 DEF MasterFinalEvals
  <2>5. CASE MasterSpreads \/ MasterLeaves \/ MasterKeeps
    BY <2>5 DEF MasterSpreads, MasterLeaves, MasterKeeps, MasterRounds
  <2>6. CASE MasterQuery \/ MasterColumn \/ MasterLocalProof \/ MasterHash
    BY <2>6 DEF MasterQuery, MasterColumn, MasterLocalProof, MasterHash
  <2> QED BY <2>1, <2>2, <2>3, <2>4, <2>5, <2>6
<1>2. pc'[0] \notin {"f0", "evals", "roots"}
  <2> USE <1>0 DEF Becomes
  <2>1. CASE MasterWaits
    BY <2>1 DEF MasterWaits
  <2>2. CASE MasterRoots
    BY <2>2 DEF MasterRoots, NextCommit
  <2>3. CASE MasterOpens \/ MasterClaims \/ MasterSumEvals
    BY <2>3 DEF MasterOpens, MasterClaims, MasterSumEvals
  <2>4. CASE MasterSumcheck
    BY <2>4 DEF MasterSumcheck
  <2>5. CASE MasterFinalEvals
    BY <2>5 DEF MasterFinalEvals
  <2>6. CASE MasterSpreads \/ MasterLeaves \/ MasterKeeps
    BY <2>6 DEF MasterSpreads, MasterLeaves, MasterKeeps, MasterRounds
  <2>7. CASE MasterQuery \/ MasterColumn \/ MasterLocalProof
    BY <2>7 DEF MasterQuery, MasterColumn, MasterLocalProof
  <2>8. CASE MasterHash
    BY <2>8 DEF MasterHash, NextOpening
  <2> QED BY <2>1, <2>2, <2>3, <2>4, <2>5, <2>6, <2>7, <2>8
<1>3. commit'[0] = commit[0] \/ poly = 1
  <2>1. CASE MasterWaits
    BY <2>1 DEF MasterWaits, control
  <2>2. CASE ~MasterWaits
    <3>1. pc[0] \notin {"commit", "small", "v0", "f0", "evals"}
      BY <2>2 DEF MasterRoots, MasterOpens, MasterClaims, MasterSumcheck, MasterFinalEvals, MasterSumEvals, AddsUp,
                  MasterSpreads, MasterLeaves, MasterKeeps, MasterQuery, MasterColumn, MasterLocalProof, MasterHash,
                  Gathered
    <3> QED BY <3>1, MasterFacts DEF MasterHas
  <2> QED BY <2>1, <2>2
<1> QED BY <1>1, <1>2, <1>3

\* Every step keeps it.
LEMMA NextAssembles == IInv /\ Assembling /\ [Next]_vars => Assembling'
<1> SUFFICES ASSUME IInv, Assembling, [Next]_vars PROVE Assembling'
  OBVIOUS
<1>1. CASE UNCHANGED vars
  <2>1. UNCHANGED <<pc, commit, chunks_per_poly, assembling, v0_matrix, f0_matrix, chunk_polys>>
    BY <1>1 DEF vars, control, advices, committed
  <2> QED BY <2>1, AssemblingStays
<1>2. CASE MasterRuns
  <2>1. CASE MasterElse
    BY <2>1, MasterDoesElse, AssemblingStays
  <2> QED BY <1>2, <2>1, SplitsAssembles, SmallAssembles, V0Assembles, F0Assembles, AssemblesAssembles
          DEF MasterRuns, MasterElse
<1>3. CASE \E w \in Worker : WorkerRuns(w)
  BY <1>3, WorkerAssembles
<1> QED BY <1>1, <1>2, <1>3 DEF Next, AllDone

\* It holds in the beginning.
LEMMA InitAssembles == Init => Assembling
<1> SUFFICES ASSUME Init PROVE Assembling
  OBVIOUS
<1>1. poly = 1 /\ master_chunks = <<>> /\ pc[0] = "commit" /\ v0_matrix = <<>> /\ f0_matrix = <<>> /\ chunk_polys = <<>>
  BY Sizes DEF Init
<1>2. Counting
  <2>1. Counts = <<>> /\ 1..(poly - 1) = {} /\ poly - 1 = 0 /\ Upto(Small(commit[0]), poly - 1) = {}
    BY <1>1 DEF Counts, Upto
  <2>2. SumOver(Counts, {}) = 0
    <3>1. {} \in SUBSET (1..0) /\ 0 \in Nat /\ \A h \in {} : Counts[h] \in Nat
      OBVIOUS
    <3> QED BY <3>1, SumIs
  <2> QED BY <1>1, <2>1, <2>2, IsEmpty DEF Counting, Has
<1>3. Matrices
  BY <1>1, IsEmpty DEF Matrices, RowsAgree, Has
<1> QED BY <1>1, <1>2, <1>3 DEF Assembling, Brought

-----------------------------------------------------------------------------
(* The steps keep the counts.                                              *)

\* A step that is not about this.
LEMMA AgreeingStays ==
  ASSUME Agreeing, UNCHANGED <<poly, commitments>>, chunks_per_poly'[0] = chunks_per_poly[0],
         \A w \in Worker : \A c \in DOMAIN chunks_per_poly'[w] : chunks_per_poly'[w][c] = CountsOf(c),
         commit'[0] = commit[0] \/ poly = 1,
         pc'[0] # "roots" \/ (pc'[0] = pc[0] /\ commit'[0] = commit[0] /\ total_chunks'[0] = total_chunks[0])
  PROVE  Agreeing'
<1>1. \A q \in 1..(poly' - 1) : Counts'[q] = CountsOf(commit'[0])[q]
  <2>1. CASE poly = 1
    BY <2>1
  <2>2. CASE poly # 1
    <3>1. Counts' = Counts /\ commit'[0] = commit[0] /\ poly' = poly
      BY <2>2 DEF Counts
    <3> QED BY <3>1 DEF Agreeing
  <2> QED BY <2>1, <2>2
<1>2. \A c \in DOMAIN commitments' :
        /\ chunks_per_poly'[0][c] = CountsOf(c)
        /\ commitments'[c].chunks_per_poly = CountsOf(c) /\ commitments'[c].num_chunks = NumChunks(c)
  BY DEF Agreeing
<1>3. pc'[0] = "roots" => /\ chunks_per_poly'[0][commit'[0]] = CountsOf(commit'[0])
                          /\ total_chunks'[0] = NumChunks(commit'[0])
  BY DEF Agreeing
<1> HIDE DEF CountsOf, NumChunks
<1> QED BY <1>1, <1>2, <1>3 DEF Agreeing

\* The master's list has what it counts.
LEMMA CountAgrees ==
  ASSUME IInv, Counting, Agreeing, pc[0] \in {"commit", "small"}, poly \in 1..Polys(commit[0]), NEW count,
         MasterCounts(count), count = CountsOf(commit[0])[poly], pc'[0] # "roots"
  PROVE  Agreeing'
<1> DEFINE c == commit[0]
<1>1. /\ poly' = poly + 1 /\ commit' = commit
      /\ Counts'[poly] = count /\ \A q \in 1..(poly - 1) : Counts'[q] = Counts[q]
      /\ \A w \in Worker : chunks_per_poly'[w] = chunks_per_poly[w]
      /\ \A d \in 1..(c - 1) : chunks_per_poly'[0][d] = chunks_per_poly[0][d]
  BY CountAppended
<1>2. commitments' = commitments
  BY DEF MasterCounts, committed
<1>3. DOMAIN commitments = 1..(c - 1) /\ poly \in Nat
  BY MasterFacts DEF MasterHas, Made, Has, IsSeq, Committing
<1>4. \A q \in 1..(poly' - 1) : Counts'[q] = CountsOf(commit'[0])[q]
  <2>1. \A q \in 1..(poly - 1) : Counts[q] = CountsOf(c)[q]
    BY DEF Agreeing
  <2> HIDE DEF CountsOf
  <2> QED BY <1>1, <1>3, <2>1
<1> HIDE DEF CountsOf, NumChunks
<1>5. \A d \in DOMAIN commitments' :
        /\ chunks_per_poly'[0][d] = CountsOf(d)
        /\ commitments'[d].chunks_per_poly = CountsOf(d) /\ commitments'[d].num_chunks = NumChunks(d)
  BY <1>1, <1>2, <1>3 DEF Agreeing
<1>6. \A w \in Worker : \A d \in DOMAIN chunks_per_poly'[w] : chunks_per_poly'[w][d] = CountsOf(d)
  BY <1>1 DEF Agreeing
<1> QED BY <1>4, <1>5, <1>6 DEF Agreeing

\* A large polynomial is cut into the chunks that CountsOf says,
LEMMA SplitsAgree == ASSUME IInv, Counting, Agreeing, MasterSplits PROVE Agreeing'
<1> DEFINE c == commit[0]
<1>1. /\ pc[0] = "commit" /\ poly \in DOMAIN LocalVars[c] /\ IsLarge(c, poly)
      /\ MasterCounts(LargeCount(c, poly)) /\ pc' = pc
  BY DEF MasterSplits
<1>2. c \in 1..Cs /\ poly \in 1..Polys(c) /\ poly \in Large(c)
  BY <1>1, MasterFacts, Sizes DEF InPlace, Small, Large
<1>3. LargeCount(c, poly) = CountsOf(c)[poly]
  BY <1>2 DEF CountsOf
<1> HIDE DEF CountsOf
<1> QED BY <1>1, <1>2, <1>3, CountAgrees

\* and a small one too, once its portions are together.
LEMMA SmallAgrees == ASSUME IInv, Counting, Agreeing, MasterGathersSmall PROVE Agreeing'
<1> DEFINE c == commit[0]
           parts == Gather(Portion(0, c, poly))
           count == Len(D!Split(Concat(parts)))
<1>1. Gathered("small") /\ MasterCounts(count) /\ Becomes(0, "commit")
  BY DEF MasterGathersSmall
<1>2. /\ pc[0] = "small" /\ c \in 1..Cs /\ poly \in 1..Polys(c) /\ poly \in Small(c) /\ poly \notin Large(c)
      /\ 0 \in Party
  BY <1>1, MasterFacts, Sizes DEF InPlace, MasterHas, Gathered, Large
<1>3. DOMAIN parts = Party /\ parts[0] = Portion(0, c, poly)
  BY <1>2 DEF Gather
<1> HIDE DEF parts
<1>4. count = CountsOf(c)[poly]
  <2>1. count = SmallCount(c, poly)
    BY <1>2, <1>3, SmallIs
  <2> QED BY <1>2, <2>1 DEF CountsOf
<1>5. pc'[0] = "commit"
  BY <1>1, <1>2, MasterFacts DEF Becomes, OfParties
<1> HIDE DEF CountsOf, count
<1> QED BY <1>1, <1>2, <1>4, <1>5, CountAgrees

\* All are counted when the matrices are assembled.
LEMMA AssemblesAgree == ASSUME IInv, Assembling, Agreeing, MasterAssembles PROVE Agreeing'
<1> DEFINE c == commit[0]
           n == Polys(c)
           K == [p \in Party |-> LocalChunks(p, c)]
           A == Assemble(c, master_chunks, K)
           rows == CombinedV0(c)
<1>1. /\ Gathered("evals") /\ poly' = 1 /\ Becomes(0, "roots") /\ UNCHANGED <<control, chunks_per_poly, commitments>>
      /\ total_chunks' = [total_chunks EXCEPT ![0] = Len(rows)]
      /\ v0_matrix' = Append(v0_matrix, rows)
      /\ chunk_polys' = Append(chunk_polys, Assemble(c, master_chunks, Gather(LocalChunks(0, c))))
  BY DEF MasterAssembles
<1>2. /\ pc[0] = "evals" /\ c \in 1..Cs /\ n \in Nat /\ n >= 1 /\ poly = n + 1
      /\ 0 \in DOMAIN pc /\ 0 \in DOMAIN total_chunks
  BY <1>1, Sizes, MasterFacts DEF InPlace, MasterHas, Gathered, OfParties
<1>3. chunks_per_poly[0][c] = CountsOf(c)
  <2>1. Counts = chunks_per_poly[0][c]
    BY <1>2 DEF Counts
  <2>2. IsSeq(Counts) /\ Len(Counts) = n /\ \A q \in 1..n : Counts[q] = CountsOf(c)[q]
    BY <1>2 DEF Assembling, Counting, Has, Agreeing
  <2>3. Counts = [q \in 1..n |-> Counts[q]]
    BY <2>2 DEF IsSeq
  <2>4. CountsOf(c) = [q \in 1..n |-> CountsOf(c)[q]]
    BY DEF CountsOf
  <2> HIDE DEF CountsOf
  <2> QED BY <2>1, <2>2, <2>3, <2>4
<1>4. Len(A) = NumChunks(c)
  BY <1>2, <1>3, AssembledLen DEF Assembling, NumChunks
<1>5. Len(rows) = Len(A)
  <2> DEFINE m == Len(v0_matrix)
  <2>1. Gather(LocalChunks(0, c)) = K
    BY <1>1, ChunksGathered DEF Says
  <2>2. IsSeq(v0_matrix) /\ IsSeq(chunk_polys) /\ Len(chunk_polys) = m /\ m \in Nat
    BY MasterFacts DEF Assembling, Matrices, MasterHas, Has, IsSeq
  <2>3. /\ v0_matrix'[m + 1] = rows /\ DOMAIN v0_matrix' = 1..(m + 1) /\ chunk_polys'[m + 1] = A
    <3> HIDE DEF rows, A
    <3>1. chunk_polys' = Append(chunk_polys, A)
      BY <1>1, <2>1 DEF A
    <3> QED BY <1>1, <2>2, <3>1, IsAppend DEF IsSeq
  <2>4. rows = RowsOf(A)
    <3>1. v0_matrix'[m + 1] = RowsOf(chunk_polys'[m + 1])
      BY <2>2, <2>3, MasterAssemblesAgree DEF Matrices, RowsAgree
    <3> QED BY <2>3, <3>1
  <2>5. IsSeq(A)
    <3>1. DOMAIN [x \in AllChunks |-> x] = AllChunks
      OBVIOUS
    <3> QED BY <1>2, <3>1, AssembledOf DEF Assembling
  <2> HIDE DEF A, rows
  <2>6. RowsOf(A) = [j \in 1..Len(A) |-> RowsOf(A)[j]]
    BY <2>5 DEF RowsOf, IsSeq
  <2>7. Len(RowsOf(A)) = Len(A)
    BY <2>5, <2>6, IsIndexed DEF IsSeq
  <2> QED BY <2>4, <2>7
<1> HIDE DEF A, rows, CountsOf, NumChunks
<1>6. pc'[0] = "roots" /\ commit' = commit /\ total_chunks'[0] = NumChunks(c)
  BY <1>1, <1>2, <1>4, <1>5 DEF Becomes, control
<1>7. chunks_per_poly' = chunks_per_poly /\ commitments' = commitments
  BY <1>1
<1>8. 1..(poly' - 1) = {}
  BY <1>1
<1> QED BY <1>3, <1>6, <1>7, <1>8 DEF Agreeing

\* The commitment says what the master's list says.
LEMMA RootsAgree == ASSUME IInv, Agreeing, MasterRoots PROVE Agreeing'
<1> DEFINE c == commit[0]
           n == Len(commitments)
<1>1. /\ Gathered("roots") /\ NextCommit(0, "open") /\ UNCHANGED <<poly, chunks_per_poly>>
      /\ \E root : commitments' = Append(commitments, D!Commitment(root, chunks_per_poly[0][c], total_chunks[0]))
  BY DEF MasterRoots, advices, assembling
<1>2. pc[0] = "roots" /\ 0 \in DOMAIN pc /\ poly = 1 /\ IsSeq(commitments) /\ n = c - 1 /\ c \in 1..Cs
  BY <1>1, Sizes, MasterFacts DEF Gathered, OfParties, MasterHas, Made, Committing, Has, InPlace
<1>3. PICK root : commitments' = Append(commitments, D!Commitment(root, chunks_per_poly[0][c], total_chunks[0]))
  BY <1>1
<1> DEFINE com == D!Commitment(root, chunks_per_poly[0][c], total_chunks[0])
<1>4. com.chunks_per_poly = CountsOf(c) /\ com.num_chunks = NumChunks(c) /\ chunks_per_poly[0][c] = CountsOf(c)
  <2>1. chunks_per_poly[0][c] = CountsOf(c) /\ total_chunks[0] = NumChunks(c)
    BY <1>2 DEF Agreeing
  <2> HIDE DEF CountsOf, NumChunks
  <2> QED BY <2>1 DEF D!Commitment
<1> HIDE DEF com
<1>5. /\ IsSeq(commitments') /\ Len(commitments') = n + 1
      /\ (\A d \in 1..n : commitments'[d] = commitments[d]) /\ commitments'[n + 1] = com
  BY <1>2, <1>3, IsAppend DEF com
<1> HIDE DEF CountsOf, NumChunks
<1>6. ASSUME NEW d \in DOMAIN commitments'
      PROVE  /\ chunks_per_poly'[0][d] = CountsOf(d)
             /\ commitments'[d].chunks_per_poly = CountsOf(d) /\ commitments'[d].num_chunks = NumChunks(d)
  <2>1. n \in Nat /\ n + 1 = c /\ DOMAIN commitments = 1..n /\ d \in 1..(n + 1)
    BY <1>2, <1>5, Sizes DEF IsSeq
  <2>2. CASE d \in 1..n
    BY <1>1, <1>5, <2>1, <2>2 DEF Agreeing
  <2>3. CASE d = n + 1
    BY <1>1, <1>4, <1>5, <2>1, <2>3
  <2> QED BY <2>1, <2>2, <2>3
<1>7. pc'[0] # "roots"
  BY <1>1, <1>2 DEF NextCommit, Becomes
<1>8. \A w \in Worker : \A d \in DOMAIN chunks_per_poly'[w] : chunks_per_poly'[w][d] = CountsOf(d)
  BY <1>1 DEF Agreeing
<1>9. 1..(poly' - 1) = {}
  BY <1>1, <1>2
<1> QED BY <1>6, <1>7, <1>8, <1>9 DEF Agreeing

\* A worker counts when it commits.
LEMMA WorkerAgrees == ASSUME IInv, Agreeing, NEW w \in Worker, WorkerRuns(w) PROVE Agreeing'
<1>1. ASSUME NEW x \in Worker, NEW c \in DOMAIN chunks_per_poly'[x] PROVE chunks_per_poly'[x][c] = CountsOf(c)
  <2>1. CASE WorkerCommits(w)
    <3> DEFINE d == commit[w]
               old == chunks_per_poly[w]
    <3>1. /\ chunks_per_poly' = [chunks_per_poly EXCEPT ![w] = Append(old,
               [q \in DOMAIN LocalVars[d] |-> IF IsLarge(d, q) THEN LargeCount(d, q) ELSE SmallCount(d, q)])]
          /\ pc[w] = "commit"
      BY <2>1 DEF WorkerCommits
    <3>2. d \in 1..Cs /\ DOMAIN LocalVars[d] = 1..Polys(d) /\ Has(old, d - 1) /\ w \in DOMAIN chunks_per_poly
      BY <3>1, Sizes, WorkerFacts DEF InPlace, WorkerHas, OfParties
    <3>3. \A q \in 1..Polys(d) : q \in Large(d) <=> IsLarge(d, q)
      BY <3>2 DEF Large, Small
    <3>4. [q \in DOMAIN LocalVars[d] |-> IF IsLarge(d, q) THEN LargeCount(d, q) ELSE SmallCount(d, q)] = CountsOf(d)
      BY <3>2, <3>3 DEF CountsOf
    <3> HIDE DEF CountsOf
    <3>5. chunks_per_poly'[w] = Append(old, CountsOf(d))
      BY <3>1, <3>2, <3>4
    <3>6. CASE x = w
      <4>1. /\ DOMAIN chunks_per_poly'[w] = 1..d /\ chunks_per_poly'[w][d] = CountsOf(d)
            /\ \A e \in 1..(d - 1) : chunks_per_poly'[w][e] = old[e] /\ e \in DOMAIN old
        BY <3>2, <3>5, IsAppend, Sizes DEF Has, IsSeq
      <4>2. \A e \in DOMAIN old : old[e] = CountsOf(e)
        BY DEF Agreeing
      <4> QED BY <3>2, <3>6, <4>1, <4>2, Sizes
    <3>7. CASE x # w
      <4>1. chunks_per_poly'[x] = chunks_per_poly[x]
        BY <3>1, <3>7
      <4> QED BY <4>1 DEF Agreeing
    <3> QED BY <3>6, <3>7
  <2>2. CASE UNCHANGED chunks_per_poly
    BY <2>2 DEF Agreeing
  <2> QED BY <2>1, <2>2, WorkerLeavesMaster
<1>2. UNCHANGED <<poly, commitments>> /\ chunks_per_poly'[0] = chunks_per_poly[0]
      /\ total_chunks'[0] = total_chunks[0] /\ commit'[0] = commit[0] /\ pc'[0] = pc[0]
  BY WorkerLeavesMaster DEF assembling
<1> QED BY <1>1, <1>2, AgreeingStays

\* Every step keeps the counts.
LEMMA NextAgrees == IInv /\ Assembling /\ Agreeing /\ [Next]_vars => Agreeing'
<1> SUFFICES ASSUME IInv, Assembling, Agreeing, [Next]_vars PROVE Agreeing'
  OBVIOUS
<1>0. \A w \in Worker : \A c \in DOMAIN chunks_per_poly[w] : chunks_per_poly[w][c] = CountsOf(c)
  BY DEF Agreeing
<1>1. CASE UNCHANGED vars
  <2>1. UNCHANGED <<pc, commit, chunks_per_poly, total_chunks, poly, commitments>>
    BY <1>1 DEF vars, control, advices, assembling, committed
  <2> QED BY <1>0, <2>1, AgreeingStays
<1>2. CASE MasterElse
  <2>1. CASE MasterRoots
    BY <2>1, RootsAgree
  <2>2. CASE ~MasterRoots
    <3>1. UNCHANGED <<poly, commitments, chunks_per_poly>> /\ pc'[0] # "roots" /\ (commit'[0] = commit[0] \/ poly = 1)
      BY <1>2, <2>2, MasterDoesElse DEF assembling
    <3> QED BY <1>0, <3>1, AgreeingStays
  <2> QED BY <2>1, <2>2
<1>3. CASE MasterGathersV0 \/ MasterGathersF0
  <2>1. UNCHANGED <<poly, commitments, chunks_per_poly, commit>> /\ (Becomes(0, "f0") \/ Becomes(0, "evals"))
    BY <1>3 DEF MasterGathersV0, MasterGathersF0, control, advices, committed
  <2>2. pc'[0] # "roots"
    BY <2>1, Sizes, MasterFacts DEF Becomes, OfParties
  <2> QED BY <1>0, <2>1, <2>2, AgreeingStays
<1>4. CASE MasterSplits \/ MasterGathersSmall \/ MasterAssembles
  BY <1>4, SplitsAgree, SmallAgrees, AssemblesAgree DEF Assembling
<1>5. CASE \E w \in Worker : WorkerRuns(w)
  BY <1>5, WorkerAgrees
<1> QED BY <1>1, <1>2, <1>3, <1>4, <1>5 DEF Next, AllDone, MasterRuns, MasterElse

\* There is nothing to agree about in the beginning.
LEMMA InitAgrees == Init => Agreeing
<1> SUFFICES ASSUME Init PROVE Agreeing
  OBVIOUS
<1>1. poly = 1 /\ pc[0] = "commit" /\ commitments = <<>> /\ \A w \in Worker : chunks_per_poly[w] = <<>>
  BY Sizes DEF Init
<1>2. 1..(poly - 1) = {}
  BY <1>1
<1> QED BY <1>1, <1>2 DEF Agreeing

\* It is what PartiesAgree says.
LEMMA AgreeingMeans == IInv /\ Agreeing => PartiesAgree
<1> SUFFICES ASSUME IInv, Agreeing, NEW p \in Party PROVE
      /\ \A c \in DOMAIN chunks_per_poly[p] \cap DOMAIN commitments :
           /\ chunks_per_poly[p][c] = commitments[c].chunks_per_poly
           /\ commitments[c].num_chunks = ChunksOf(chunks_per_poly[p][c], DOMAIN LocalVars[c])
      /\ to_poly[p] \in {<<>>, PointToPoly} /\ to_commit[p] \in {<<>>, PointToCommit}
  BY DEF PartiesAgree
<1>1. to_poly[p] \in {<<>>, PointToPoly} /\ to_commit[p] \in {<<>>, PointToCommit}
  <2>1. Informed(p)
    BY DEF IInv
  <2> QED BY <2>1 DEF Informed
<1>2. ASSUME NEW c \in DOMAIN chunks_per_poly[p], c \in DOMAIN commitments
      PROVE  /\ chunks_per_poly[p][c] = commitments[c].chunks_per_poly
             /\ commitments[c].num_chunks = ChunksOf(chunks_per_poly[p][c], DOMAIN LocalVars[c])
  <2>1. /\ chunks_per_poly[p][c] = CountsOf(c)
        /\ commitments[c].chunks_per_poly = CountsOf(c) /\ commitments[c].num_chunks = NumChunks(c)
    BY <1>2, Sizes DEF Agreeing
  <2>2. c \in 1..Cs
    <3>1. Has(commitments, Made) /\ commit[0] \in 1..Cs /\ Cs \in Nat
      BY Sizes, MasterFacts DEF MasterHas, InPlace
    <3>2. c \in 1..Made
      BY <1>2, <3>1 DEF Has, IsSeq
    <3> QED BY <3>1, <3>2 DEF Made
  <2>3. DOMAIN LocalVars[c] = 1..Polys(c) /\ Upto(1..Polys(c), Polys(c)) = DOMAIN LocalVars[c]
    BY <2>2, Sizes DEF Upto
  <2>4. NumChunks(c) = ChunksOf(CountsOf(c), DOMAIN LocalVars[c])
    BY <2>3 DEF NumChunks, ChunksOf, SumOver
  <2> HIDE DEF CountsOf, NumChunks
  <2> QED BY <2>1, <2>4
<1> QED BY <1>1, <1>2

-----------------------------------------------------------------------------
(* The theorems.                                                           *)

\* The inductive invariant holds.
LEMMA Invariant == Spec => []IInv
<1>1. Init => IInv
  BY InitIInv
<1>2. IInv /\ [Next]_vars => IInv'
  BY NextIInv
<1> QED BY <1>1, <1>2, PTL DEF Spec

\* d_chunked_batch_commit and d_multi_chunked_batch_open_at_ext_point: for any
\* number of parties and commitments, any sizes of the portions and any points,
\* the two branches of am_master make the same calls in the same order.
THEOREM BranchesAgree == Spec => []NoPanic
<1>1. IInv => NoPanic
  BY NothingMisread, IInvTypeOK DEF NoPanic
<1> QED BY <1>1, Invariant, PTL

\* Whatever the master adds up in the sumcheck, which is as long for every
\* party though each of them works the length out for itself, is the same sum.
THEOREM SumsAreComplete == Spec => []SumsComplete
<1>1. IInv => SumsComplete
  BY DEF IInv
<1> QED BY <1>1, Invariant, PTL

\* What the master assembles, and the counts.
LEMMA Assembled == Spec => [](Assembling /\ Agreeing)
<1>1. Init => Assembling /\ Agreeing
  BY InitAssembles, InitAgrees
<1>2. IInv /\ (Assembling /\ Agreeing) /\ [Next]_vars => (Assembling /\ Agreeing)'
  BY NextAssembles, NextAgrees
<1> QED BY <1>1, <1>2, Invariant, PTL DEF Spec

\* The three matrices that the master assembles from three gathers have the
\* same chunks in the same rows, whatever the sizes of the polynomials.
THEOREM RowsAlwaysAgree == Spec => []RowsAgree
<1>1. Assembling => RowsAgree
  BY DEF Assembling, Matrices
<1> QED BY <1>1, Assembled, PTL

\* A worker that has never seen a small polynomial whole counts its chunks as
\* the master does, who has cut it; and the commitment says the length of the
\* columns, whatever the sizes and the number of parties.
THEOREM PartiesAlwaysAgree == Spec => []PartiesAgree
<1>1. IInv /\ Agreeing => PartiesAgree
  BY AgreeingMeans
<1> QED BY <1>1, Invariant, Assembled, PTL
=============================================================================
