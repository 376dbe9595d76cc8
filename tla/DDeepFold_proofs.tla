-------------------------- MODULE DDeepFold_proofs --------------------------
(***************************************************************************)
(* The branches of am_master agree: proofs about DDeepFold.                *)
(*                                                                         *)
(* As in DChunkedBatch_proofs every transfer has a name, and After says    *)
(* which one is next.  Here the messages decide what follows: a flag       *)
(* whether leaves are sent and proofs gathered, the positions whose party  *)
(* answers with a proof, the list how many proofs there are.  So a name is *)
(* read with what the master has told so far, and the trees that a party   *)
(* keeps are of the sizes that its owner of a position is worked out with. *)
(***************************************************************************)
EXTENDS DDeepFold, DataLemmas, TLAPS

-----------------------------------------------------------------------------
(* The sizes.                                                              *)

\* The leaves of the codeword after i folds; there are enough to be spread.
LeafCount(i)   == D!L(i) \div LeafSizeOf(D!L(i))
Distributed(i) == LeafCount(i) >= N

\* A party's part of the tree over them, and the party that has position b.
IsPart(t, i)  == t.leaf_size = LeafSizeOf(D!L(i)) /\ NumLeaves(t) = LeafCount(i) \div N
OwnerAt(b, i) == ((b % D!L(i)) % LeafCount(i)) \div (LeafCount(i) \div N)

-----------------------------------------------------------------------------
(* What the master has told.                                               *)

\* The positions it has asked for: the last is that of the current query.
Asked ==
  [t \in 1..(Len(mt_proofs) + (IF pc[0] = "prove" THEN 1 ELSE 0)) |->
     IF t =< Len(mt_proofs) THEN mt_proofs[t][1].x
     ELSE IF proofs_for_t # <<>> THEN proofs_for_t[1].x ELSE beta[0]]
Known == [kind |-> kind, asked |-> Asked, idx |-> idx[0]]

Batch(kn)  == kn.kind # "open"
Ext(kn)    == kn.kind = "batch_ext"
Commits(kn) == IF Batch(kn) THEN Len(Tables) ELSE 1
First(kn)  == IF Batch(kn) THEN 1 ELSE 0

-----------------------------------------------------------------------------
(* The names of the transfers: the call, and what it is about.             *)

End == <<"end", 0, 0>>
Ups == [evals |-> "elements", root0 |-> "digest", batch |-> "elements", root |-> "digest",
        proof |-> "proof", mt0 |-> "proof"]

\* The first gather from level i of query t on, and from folding round i on.
FromProof(kn, t, i) ==
  IF i < Mu /\ Distributed(i) THEN <<"proof", t, i>>
  ELSE IF t + 1 < S /\ First(kn) < Mu /\ Distributed(First(kn)) THEN <<"proof", t + 1, First(kn)>>
  ELSE IF Batch(kn) THEN <<"mt0", 0, 1>> ELSE End
FromRound(kn, i) ==
  IF Ext(kn) THEN <<"mt0", 0, 1>>
  ELSE IF i < Mu /\ Distributed(i) THEN <<"root", i, 0>> ELSE FromProof(kn, 0, First(kn))

\* What a worker sends after what it has sent ...
AfterUp(kn, n) ==
  CASE n[1] = "evals" -> <<"root0", n[2], 0>>
    [] n[1] = "root0" -> IF n[2] < Commits(kn) THEN <<"evals", n[2] + 1, 0>>
                         ELSE IF Batch(kn) THEN <<"batch", 1, 0>> ELSE FromRound(kn, 1)
    [] n[1] = "batch" -> IF n[2] < Len(BatchOf) THEN <<"batch", n[2] + 1, 0>> ELSE FromRound(kn, 1)
    [] n[1] = "root"  -> FromRound(kn, n[2] + 1)
    [] n[1] = "proof" -> FromProof(kn, n[2], n[3] + 1)
    [] n[1] = "mt0"   -> IF n[3] < Len(kn.idx) THEN <<"mt0", n[2], n[3] + 1>>
                         ELSE IF n[2] + 1 < S THEN <<"mt0", n[2] + 1, 1>> ELSE End

\* ... and what the master tells it.
AfterDown(kn, n) ==
  CASE n[1] = "chunk" -> <<"sizes", n[2], 0>>
    [] n[1] = "sizes" -> IF n[2] < Commits(kn) THEN <<"chunk", n[2] + 1, 0>>
                         ELSE IF Ext(kn) THEN <<"broadcast", 0, 0>> ELSE <<"alpha", 1, 0>>
    [] n[1] = "broadcast" -> <<"alpha", 1, 0>>
    [] n[1] = "alpha" -> <<"r", n[2], 0>>
    [] n[1] = "r" -> IF Ext(kn) THEN IF n[2] < Mu THEN <<"alpha", n[2] + 1, 0>> ELSE <<"idx", 0, 0>>
                     ELSE IF n[2] < Mu THEN <<"flag", n[2], 0>> ELSE <<"beta", 0, 0>>
    [] n[1] = "flag" -> IF Distributed(n[2]) THEN <<"leaves", n[2], 0>> ELSE <<"alpha", n[2] + 1, 0>>
    [] n[1] = "leaves" -> <<"leaf_size", n[2], 0>>
    [] n[1] = "leaf_size" -> <<"alpha", n[2] + 1, 0>>
    [] n[1] = "beta" -> IF n[2] + 1 < S THEN <<"beta", n[2] + 1, 0>>
                        ELSE IF Batch(kn) THEN <<"idx", 0, 0>> ELSE End
    [] n[1] = "idx" -> <<"x0", 0, 0>>
    [] n[1] = "x0" -> IF n[2] + 1 < S THEN <<"x0", n[2] + 1, 0>> ELSE End

After(kn, n) == IF n[1] \in DOMAIN Ups THEN AfterUp(kn, n) ELSE AfterDown(kn, n)

\* The transfer that a worker sends next ...
FoldCalls == {"alpha", "r", "flag", "leaves", "leaf_size"}
Sends(kn, w) ==
  LET k == Len(mt0s[w])
      i == round[w]
      t == queries[w]
  IN  CASE pc[w] = "evals" -> <<"evals", k + 1, 0>>
        [] pc[w] \in {"chunk", "sizes"} -> <<"root0", k + 1, 0>>
        [] pc[w] = "batch" -> <<"batch", 1, 0>>
        [] pc[w] \in FoldCalls \cup {"broadcast"} -> FromRound(kn, i)
        [] pc[w] = "beta" -> FromProof(kn, t, First(kn))
        [] pc[w] = "prove" -> FromProof(kn, t, i)
        [] pc[w] = "idx" -> <<"mt0", 0, 1>>
        [] pc[w] = "x0" -> <<"mt0", t, 1>>
        [] pc[w] = "done" -> End

\* ... and the master gathers next,
ToGather(kn) ==
  LET k == Len(mt0s[0])
      i == round[0]
      t == queries[0]
  IN  CASE pc[0] = "evals" -> <<"evals", k + 1, 0>>
        [] pc[0] = "roots0" -> <<"root0", k, 0>>
        [] pc[0] = "batch" -> <<"batch", 1, 0>>
        [] pc[0] \in {"round", "roots"} -> FromRound(kn, i)
        [] pc[0] = "query" -> IF Ext(kn) THEN <<"mt0", 0, 1>> ELSE FromProof(kn, t, First(kn))
        [] pc[0] = "prove" -> FromProof(kn, t, i)
        [] pc[0] = "idx" -> <<"mt0", 0, 1>>
        [] pc[0] \in {"x0", "mt0"} -> <<"mt0", t, 1>>
        [] pc[0] = "done" -> End

\* that a worker is told next ...
Awaits(kn, w) ==
  LET k == Len(mt0s[w])
      i == round[w]
      t == queries[w]
  IN  CASE pc[w] \in {"evals", "chunk"} -> <<"chunk", k + 1, 0>>
        [] pc[w] = "sizes" -> <<"sizes", k + 1, 0>>
        [] pc[w] = "batch" -> IF Ext(kn) THEN <<"broadcast", 0, 0>> ELSE <<"alpha", 1, 0>>
        [] pc[w] = "broadcast" -> <<"broadcast", 0, 0>>
        [] pc[w] \in FoldCalls -> <<pc[w], i, 0>>
        [] pc[w] = "beta" -> <<"beta", t, 0>>
        [] pc[w] = "prove" -> AfterDown(kn, <<"beta", t, 0>>)
        [] pc[w] = "idx" -> <<"idx", 0, 0>>
        [] pc[w] = "x0" -> <<"x0", t, 0>>
        [] pc[w] = "done" -> End

\* ... and the master tells next.
ToTell(kn) ==
  LET k == Len(mt0s[0])
      i == round[0]
      t == queries[0]
  IN  CASE pc[0] = "evals" -> <<"chunk", k + 1, 0>>
        [] pc[0] = "roots0" -> AfterDown(kn, <<"sizes", k, 0>>)
        [] pc[0] = "batch" -> IF Ext(kn) THEN <<"broadcast", 0, 0>> ELSE <<"alpha", 1, 0>>
        [] pc[0] = "round" -> <<"alpha", i, 0>>
        [] pc[0] = "roots" -> <<"alpha", i + 1, 0>>
        [] pc[0] = "query" -> IF Ext(kn) THEN <<"idx", 0, 0>> ELSE <<"beta", t, 0>>
        [] pc[0] = "prove" -> AfterDown(kn, <<"beta", t, 0>>)
        [] pc[0] = "idx" -> <<"idx", 0, 0>>
        [] pc[0] = "x0" -> <<"x0", t, 0>>
        [] pc[0] = "mt0" -> AfterDown(kn, <<"x0", t, 0>>)
        [] pc[0] = "done" -> End

-----------------------------------------------------------------------------
(* What the messages are.                                                  *)

\* A position that was asked for, and the answer of a party to it.
AskedAt(kn, t, b) == t + 1 \in 1..Len(kn.asked) /\ b = kn.asked[t + 1]
Answers(kn, w, t, i, proof) ==
  t + 1 \in 1..Len(kn.asked) /\ (proof = None <=> OwnerAt(kn.asked[t + 1], i) # w)

Says(kn, w, val, n) ==
  CASE n[1] = "sizes" -> val = <<CommitLeafSize, LeavesPerParty>>
    [] n[1] = "flag" -> val = Distributed(n[2])
    [] n[1] = "leaves" -> Size(val) = LeafCount(n[2]) \div N
    [] n[1] = "leaf_size" -> val = LeafSizeOf(D!L(n[2]))
    [] n[1] \in {"beta", "x0"} -> AskedAt(kn, n[2], val)
    [] n[1] = "idx" -> kn.idx # <<>> /\ val = kn.idx
    [] n[1] = "proof" -> Answers(kn, w, n[2], n[3], val)
    [] n[1] = "mt0" -> kn.idx # <<>> /\ Answers(kn, w, n[2], 0, val)
    [] OTHER -> TRUE
TypeOf(call) == IF call \in DOMAIN Ups THEN Ups[call] ELSE Expects[call]

Is(kn, w, msg, n) == n # End /\ msg.type = TypeOf(n[1]) /\ Says(kn, w, msg.val, n)

\* The messages from one name to another, as the names of a path say.
Follows(kn, w, msgs, from, to, names) ==
  /\ names[1] = from /\ names[Len(msgs) + 1] = to
  /\ \A i \in 1..Len(msgs) : Is(kn, w, msgs[i], names[i]) /\ names[i + 1] = After(kn, names[i])
Between(kn, w, msgs, from, to) == IsSeq(msgs) /\ \E names : Follows(kn, w, msgs, from, to, names)

Queues ==
  \A w \in Worker :
    /\ Between(Known, w, up[w], ToGather(Known), Sends(Known, w))
    /\ Between(Known, w, down[w], Awaits(Known, w), ToTell(Known))

-----------------------------------------------------------------------------
(* The inductive invariant.                                                *)

Committing == {"evals", "chunk", "sizes", "roots0"}
Running   == FoldCalls \cup {"round", "roots", "batch", "broadcast"}

\* Where a party is in its program.
InPlace(p) ==
  /\ round[p] \in 0..Mu /\ queries[p] \in 0..S
  /\ pc[p] \in Committing => round[p] = 0
  /\ pc[p] \in Committing \cup Running => queries[p] = 0
  /\ pc[p] \in {"batch", "broadcast"} => round[p] = 1 /\ D!IsBatch
  /\ pc[p] = "broadcast" => D!IsExt
  /\ pc[p] \in {"alpha", "r", "round"} => round[p] \in 1..Mu
  /\ pc[p] \in {"flag", "leaves", "leaf_size", "roots"} => round[p] \in 1..(Mu - 1) /\ ~D!IsExt
  /\ pc[p] \in {"leaves", "leaf_size", "roots"} => Distributed(round[p])
  /\ pc[p] \in {"beta", "query", "prove", "x0", "mt0"} => queries[p] < S
  /\ pc[p] \in {"beta", "prove"} => ~D!IsExt
  /\ pc[p] = "prove" => round[p] \in First(Known)..(Mu - 1)
  /\ pc[p] \in {"idx", "x0", "mt0"} => D!IsBatch

\* The trees of the commitments and of the rounds.
TreesOf(p, lead) ==
  IF pc[p] \in Committing THEN 0
  ELSE (IF pc[p] \in Running THEN IF pc[p] = "roots" THEN round[p] - lead ELSE round[p] - 1 ELSE Mu - 1)
       + 1 - First(Known)
IsTree(t, i, spread) ==
  /\ spread = Distributed(i)
  /\ IF Distributed(i) THEN IsPart(t, i) ELSE t.leaf_size \in 1..D!L(i)
Has(seq, len) == IsSeq(seq) /\ Len(seq) = len
HasTrees(p) ==
  /\ IsSeq(mt0s[p]) /\ Len(mt0s[p]) =< D!ToCommit
  /\ pc[p] \in {"evals", "chunk", "sizes"} => Len(mt0s[p]) < D!ToCommit
  /\ pc[p] = "roots0" => Len(mt0s[p]) >= 1
  /\ pc[p] \notin Committing => Len(mt0s[p]) = D!ToCommit
  /\ \A k \in 1..Len(mt0s[p]) : IsPart(mt0s[p][k], 0)
  /\ Has(local_mts[p], IF D!IsExt /\ p # 0 THEN 0 ELSE TreesOf(p, 0))
  /\ Has(is_distributed[p], Len(local_mts[p]))
  /\ ~D!IsExt => \A k \in 1..Len(local_mts[p]) :
       IsTree(local_mts[p][k], k - 1 + First(Known), is_distributed[p][k])

\* What the master has so far.
IsList(list) == list # <<>> /\ IsSeq(list) /\ \A j \in 1..Len(list) : list[j] \in 1..Len(BatchOf)
MasterHas ==
  /\ pc[0] \in {"evals", "roots0", "batch", "round", "roots", "query", "prove", "idx", "x0", "mt0", "done"}
  /\ pc[0] = "roots0" => Size(pending[0].v0) = LenL0
  /\ pc[0] \notin Committing \cup {"batch"} =>
       IsSeq(fold.v) /\ Len(fold.v) = Mu + 1 /\ \A i \in 0..Mu : Size(D!V(i)) = D!L(i)
  /\ Has(mt_roots, TreesOf(0, 1)) /\ Has(upper_mts, TreesOf(0, 1))
  /\ Has(proofs_for_t, IF pc[0] = "prove" THEN round[0] ELSE 0)
  /\ Has(mt_proofs, IF pc[0] \in {"idx", "x0", "mt0", "done"} THEN S ELSE queries[0])
  /\ Has(mt0_proofs, IF pc[0] \in {"x0", "mt0", "done"} /\ D!IsBatch THEN queries[0] ELSE 0)
  /\ pc[0] = "prove" => beta[0] = Asked[queries[0] + 1] % D!L(round[0])
  /\ \A t \in 1..Len(Asked) : Asked[t] \in 0..(LenL0 - 1)
  /\ IF pc[0] \in {"x0", "mt0", "done"} /\ D!IsBatch THEN IsList(idx[0]) ELSE idx[0] = <<>>

\* And a worker.
WorkerHas(w) ==
  /\ pc[w] \in DOMAIN Expects \cup {"evals", "batch", "prove", "done"}
  /\ pc[w] = "leaf_size" => Size(pending[w]) = LeafCount(round[w]) \div N
  /\ pc[w] = "prove" => queries[w] + 1 \in 1..Len(Asked) /\ beta[w] = Asked[queries[w] + 1] % D!L(round[w])
  /\ pc[w] = "x0" => idx[0] # <<>> /\ idx[w] = idx[0]

OfParties ==
  /\ {DOMAIN beta, DOMAIN mt0s, DOMAIN local_mts, DOMAIN is_distributed, DOMAIN idx, DOMAIN pending} = {Party}
  /\ pc = [p \in Party |-> pc[p]] /\ round = [p \in Party |-> round[p]]
  /\ queries = [p \in Party |-> queries[p]]
Domains == {DOMAIN up, DOMAIN down} = {Worker} /\ OfParties

IInv ==
  /\ Domains
  /\ kind \in Kinds /\ oracle \in Oracles
  /\ \A p \in Party : InPlace(p) /\ HasTrees(p)
  /\ MasterHas
  /\ \A w \in Worker : WorkerHas(w)
  /\ Queues

-----------------------------------------------------------------------------
(* The constants.                                                          *)

\* The sizes are numbers, and there is something of everything.
LEMMA Sizes ==
  /\ N \in Nat /\ N >= 1 /\ Mu \in Nat /\ Mu >= 1 /\ Rate \in Nat /\ Rate >= 1 /\ S \in Nat /\ S >= 1
  /\ LEAF_SIZE \in Nat /\ LEAF_SIZE >= 1 /\ DEFAULT_LEAF_SIZE \in Nat /\ DEFAULT_LEAF_SIZE >= 1
  /\ Len(Tables) \in Nat /\ Len(Tables) >= 1
  /\ IsSeq(BatchOf) /\ Len(BatchOf) >= 1 /\ \A k \in 1..Len(BatchOf) : BatchOf[k] \in 1..Len(Tables)
  /\ 0 \in Party /\ 0 \notin Worker /\ Worker \subseteq Party /\ Party = {0} \cup Worker
  /\ \A p \in Party : p \in Nat /\ p < N
  /\ Kinds \subseteq {"open", "batch", "batch_ext"} /\ ("batch" \in Kinds => Mu >= 2)
<1>1. /\ N \in Nat /\ N >= 1 /\ Mu \in Nat /\ Mu >= 1 /\ Rate \in Nat /\ Rate >= 1 /\ S \in Nat /\ S >= 1
  BY SizesAssumption
<1>2. LEAF_SIZE \in Nat /\ LEAF_SIZE >= 1 /\ DEFAULT_LEAF_SIZE \in Nat /\ DEFAULT_LEAF_SIZE >= 1
  BY LeafSizeAssumption
<1>3. Len(Tables) \in Nat /\ Len(Tables) >= 1 /\ BatchOf \in Seq(1..Len(Tables)) /\ BatchOf # <<>>
  BY TablesAssumption
<1>4. IsSeq(BatchOf) /\ Len(BatchOf) >= 1 /\ \A k \in 1..Len(BatchOf) : BatchOf[k] \in 1..Len(Tables)
  <2> DEFINE A == 1..Len(Tables)
  <2>1. BatchOf \in Seq(A) /\ BatchOf # <<>>
    BY <1>3
  <2> HIDE DEF A
  <2>2. IsSeq(BatchOf) /\ Len(BatchOf) \in Nat /\ Len(BatchOf) # 0 /\ \A k \in 1..Len(BatchOf) : BatchOf[k] \in A
    BY <2>1, SeqIs, ElementOfSeq, LenProperties, EmptySeq
  <2> QED BY <2>2 DEF A
<1>5. /\ 0 \in Party /\ 0 \notin Worker /\ Worker \subseteq Party /\ Party = {0} \cup Worker
      /\ \A p \in Party : p \in Nat /\ p < N
  BY <1>1 DEF Party, Worker
<1> HIDE DEF Party, Worker
<1> QED BY <1>1, <1>2, <1>3, <1>4, <1>5, KindsAssumption

\* Every size is a power of two.
LEMMA Powers == \A n \in {N, Rate, LEAF_SIZE} : \E k \in Nat : n = 2^k
<1> SUFFICES ASSUME NEW n \in {N, Rate, LEAF_SIZE} PROVE \E k \in Nat : n = 2^k
  OBVIOUS
<1>1. n \in Nat
  BY Sizes
<1>2. PICK k \in 0..n : n = 2^k
  BY PowersAssumption
<1> QED BY <1>1, <1>2

\* The codewords: each is half as long as the one before.
LEMMA Lengths ==
  /\ D!L(0) = LenL0 /\ LenL0 \in Nat
  /\ \A i \in 0..Mu : D!L(i) \in Nat /\ D!L(i) >= 1 /\ \E e \in Nat : D!L(i) = 2^e
  /\ \A i \in 0..(Mu - 1) : D!L(i) = 2 * D!L(i + 1) /\ DEFAULT_LEAF_SIZE =< D!L(i)
<1>1. Mu \in Nat /\ Rate \in Nat /\ Rate >= 1 /\ DEFAULT_LEAF_SIZE \in Nat
  BY Sizes
<1>2. \A i \in Nat : 2^i \in Nat /\ 2^i >= 1 /\ 2^(i + 1) = 2 * 2^i
  BY PowerNext
<1>3. ASSUME NEW i \in 0..Mu PROVE D!L(i) = 2^(Mu - i) * Rate
  <2> DEFINE x == 2^i
             y == 2^(Mu - i)
             z == 2^Mu
  <2>1. i \in Nat /\ Mu - i \in Nat /\ i =< Mu
    BY <1>1
  <2>2. z = x * y /\ x \in Nat /\ x >= 1 /\ y \in Nat /\ D!L(i) = (z * Rate) \div x
    BY <1>1, <1>2, <2>1, PowerGrows DEF D!L, D!LenL0
  <2> HIDE DEF x, y, z
  <2>3. z * Rate = x * (y * Rate) /\ y * Rate \in Nat
    BY <1>1, <2>2
  <2>4. (x * (y * Rate)) \div x = y * Rate
    BY <2>2, <2>3, DivOfProduct
  <2> QED BY <2>2, <2>3, <2>4 DEF y
<1>4. ASSUME NEW i \in 0..Mu PROVE D!L(i) \in Nat /\ D!L(i) >= 1 /\ \E e \in Nat : D!L(i) = 2^e
  <2>1. PICK b \in Nat : Rate = 2^b
    BY Powers
  <2>2. Mu - i \in Nat /\ (Mu - i) + b \in Nat
    BY <1>1
  <2>3. D!L(i) = 2^((Mu - i) + b)
    BY <1>3, <2>1, <2>2, PowerSum
  <2> QED BY <1>2, <2>2, <2>3
<1>5. ASSUME NEW i \in 0..(Mu - 1) PROVE D!L(i) = 2 * D!L(i + 1) /\ DEFAULT_LEAF_SIZE =< D!L(i)
  <2> DEFINE y == 2^(Mu - (i + 1))
             z == 2^(Mu - i)
  <2>1. Mu - (i + 1) \in Nat /\ (Mu - (i + 1)) + 1 = Mu - i /\ i \in 0..Mu /\ i + 1 \in 0..Mu
    BY <1>1
  <2>2. z = 2 * y /\ y \in Nat /\ y >= 1 /\ D!L(i) = z * Rate /\ D!L(i + 1) = y * Rate
    BY <1>2, <1>3, <2>1
  <2> HIDE DEF y, z
  <2>3. D!L(i) = 2 * (y * Rate) /\ y * Rate >= 1 * Rate
    BY <1>1, <2>2
  <2>4. DEFAULT_LEAF_SIZE =< 2 * Rate
    BY DefaultAssumption
  <2> QED BY <1>1, <2>2, <2>3, <2>4
<1>6. D!L(0) = LenL0 /\ LenL0 \in Nat
  <2>1. 0 \in 0..Mu /\ Mu - 0 = Mu
    BY <1>1
  <2> QED BY <1>3, <1>4, <2>1 DEF LenL0
<1> QED BY <1>4, <1>5, <1>6

\* The leaves: a codeword that can be spread is cut evenly.
LEMMA Leaves ==
  ASSUME NEW i \in 0..Mu
  PROVE  /\ LeafSizeOf(D!L(i)) \in 1..D!L(i)
         /\ \E e \in Nat : LeafCount(i) = 2^e
         /\ Distributed(i) =>
              /\ LeafCount(i) = N * (LeafCount(i) \div N)
              /\ \E e \in Nat : LeafCount(i) \div N = 2^e
         /\ i < Mu /\ ~Distributed(i) => ~Distributed(i + 1)
<1>1. PICK a \in Nat : N = 2^a
  BY Powers
<1>2. PICK c \in Nat : LEAF_SIZE = 2^c
  BY Powers
<1> DEFINE Cut(e) == IF c < e THEN c ELSE e
<1>3. ASSUME NEW j \in 0..Mu
      PROVE  \E e \in Nat : D!L(j) = 2^e /\ LeafSizeOf(D!L(j)) = 2^Cut(e) /\ LeafCount(j) = 2^(e - Cut(e))
  <2>1. PICK e \in Nat : D!L(j) = 2^e
    BY Lengths
  <2>2. 2^c \in Nat /\ 2^e \in Nat
    BY PowerNext
  <2>3. LeafSizeOf(D!L(j)) = 2^Cut(e)
    <3>1. e =< c <=> 2^e =< 2^c
      BY PowerGrows
    <3> QED BY <1>2, <2>1, <2>2, <3>1 DEF LeafSizeOf
  <2>4. Cut(e) \in Nat /\ Cut(e) =< e
    OBVIOUS
  <2>5. 2^e \div 2^Cut(e) = 2^(e - Cut(e))
    <3> HIDE DEF Cut
    <3> QED BY <2>4, PowerGrows
  <2> HIDE DEF Cut
  <2> QED BY <2>1, <2>3, <2>5 DEF LeafCount
<1>4. PICK e \in Nat : D!L(i) = 2^e /\ LeafSizeOf(D!L(i)) = 2^Cut(e) /\ LeafCount(i) = 2^(e - Cut(e))
  BY <1>3
<1>5. Cut(e) \in Nat /\ Cut(e) =< e /\ e - Cut(e) \in Nat
  OBVIOUS
<1>6. LeafSizeOf(D!L(i)) \in 1..D!L(i)
  <2> HIDE DEF Cut
  <2>1. 2^Cut(e) \in Nat /\ 2^Cut(e) >= 1 /\ 2^e \in Nat /\ 2^Cut(e) =< 2^e
    BY <1>5, PowerNext, PowerGrows
  <2> QED BY <1>4, <2>1
<1>7. ASSUME NEW j \in 0..Mu, NEW k \in Nat, LeafCount(j) = 2^k
      PROVE  Distributed(j) <=> a =< k
  <2>1. 2^a \in Nat /\ 2^k \in Nat /\ (a =< k <=> 2^a =< 2^k)
    BY PowerNext, PowerGrows
  <2> QED BY <1>1, <1>7, <2>1 DEF Distributed
<1>8. ASSUME Distributed(i)
      PROVE  /\ LeafCount(i) = N * (LeafCount(i) \div N)
             /\ \E k \in Nat : LeafCount(i) \div N = 2^k
  <2> DEFINE k == e - Cut(e)
  <2>1. k \in Nat /\ LeafCount(i) = 2^k
    BY <1>4, <1>5
  <2> HIDE DEF k
  <2>2. a =< k
    BY <1>7, <1>8, <2>1
  <2>3. 2^k = 2^a * 2^(k - a) /\ 2^k \div 2^a = 2^(k - a) /\ k - a \in Nat
    BY <2>1, <2>2, PowerGrows
  <2> QED BY <1>1, <2>1, <2>3
<1>9. ASSUME i < Mu, Distributed(i + 1) PROVE Distributed(i)
  <2>1. i + 1 \in 0..Mu /\ i \in 0..(Mu - 1)
    BY <1>9, Sizes
  <2>2. PICK d \in Nat : D!L(i + 1) = 2^d /\ LeafCount(i + 1) = 2^(d - Cut(d))
    BY <1>3, <2>1
  <2>3. e = d + 1
    <3>1. 2^e = 2 * 2^d /\ 2^(d + 1) = 2 * 2^d
      BY <1>4, <2>1, <2>2, Lengths, PowerNext
    <3>2. 2^e \in Nat /\ 2^(d + 1) \in Nat /\ d + 1 \in Nat
      BY PowerNext
    <3>3. 2^e =< 2^(d + 1) /\ 2^(d + 1) =< 2^e
      BY <3>1, <3>2
    <3>4. e =< d + 1 /\ d + 1 =< e
      BY <3>2, <3>3, PowerGrows
    <3> QED BY <3>4
  <2>4. d - Cut(d) \in Nat /\ d - Cut(d) =< e - Cut(e)
    BY <2>3
  <2> HIDE DEF Cut
  <2>5. a =< d - Cut(d)
    BY <1>7, <1>9, <2>1, <2>2, <2>4
  <2>6. a =< e - Cut(e)
    BY <1>5, <2>4, <2>5
  <2> QED BY <1>4, <1>5, <1>7, <2>6
<1> HIDE DEF Cut
<1> QED BY <1>4, <1>5, <1>6, <1>8, <1>9

\* The first codeword can be spread.
LEMMA FirstSpreads == Distributed(0)
<1>1. /\ N \in Nat /\ N >= 1 /\ LEAF_SIZE \in Nat /\ LEAF_SIZE >= 1 /\ LenL0 \in Nat /\ D!L(0) = LenL0
      /\ LenL0 >= LEAF_SIZE * N
  BY Sizes, Lengths, LeavesAssumption
<1>2. LenL0 >= LEAF_SIZE
  <2>1. LEAF_SIZE * N >= LEAF_SIZE * 1
    BY <1>1
  <2> QED BY <1>1, <2>1
<1>3. LeafSizeOf(LenL0) = LEAF_SIZE
  BY <1>1, <1>2 DEF LeafSizeOf
<1>4. LenL0 \div LEAF_SIZE >= N
  <2> DEFINE d == LenL0 \div LEAF_SIZE
             r == LenL0 % LEAF_SIZE
  <2>1. d \in Int /\ r \in 0..(LEAF_SIZE - 1) /\ LenL0 = LEAF_SIZE * d + r
    BY <1>1
  <2> HIDE DEF d, r
  <2>2. ~(d + 1 =< N)
    <3> SUFFICES ASSUME d + 1 =< N PROVE FALSE
      OBVIOUS
    <3>1. LEAF_SIZE * N >= LEAF_SIZE * (d + 1) /\ LEAF_SIZE * (d + 1) = LEAF_SIZE * d + LEAF_SIZE
          /\ LEAF_SIZE * d \in Int
      BY <1>1, <2>1
    <3> QED BY <1>1, <2>1, <3>1
  <2> QED BY <1>1, <2>1, <2>2 DEF d
<1> QED BY <1>1, <1>3, <1>4 DEF Distributed, LeafCount

-----------------------------------------------------------------------------
(* Vectors, trees and folds: how long they are.                            *)

\* Division with a remainder.
LEMMA Division ==
  ASSUME NEW b \in Nat, NEW m \in Nat, m >= 1
  PROVE  b \div m \in Nat /\ b % m \in 0..(m - 1) /\ b = m * (b \div m) + (b % m)
OBVIOUS

\* The size of a vector.
LEMMA SizeIs ==
  ASSUME NEW m \in Nat, NEW v, DOMAIN v = 0..(m - 1)
  PROVE  Size(v) = m
<1>1. Cardinality(0..(m - 1)) = IF 0 > m - 1 THEN 0 ELSE (m - 1) - 0 + 1
  BY FS_Interval
<1> QED BY <1>1 DEF Size

\* A number is less than its power of two.
LEMMA BelowPower == \A k \in Nat : k =< 2^k
<1> DEFINE T == {k \in Nat : k =< 2^k}
<1>1. 0 \in T
  BY PowerZero
<1>2. ASSUME NEW k \in Nat, k \in T PROVE k + 1 \in T
  <2>1. k =< 2^k /\ 2^k \in Nat /\ 2^k >= 1 /\ 2^(k + 1) = 2 * 2^k
    BY <1>2, PowerNext
  <2> QED BY <2>1
<1> HIDE DEF T
<1>3. Nat \subseteq T
  BY <1>1, <1>2, SetInduction
<1> QED BY <1>3 DEF T

\* The tree over as many leaves as a power of two pads none.
LEMMA TreeIs ==
  ASSUME NEW k \in Nat, NEW leaves, Size(leaves) = 2^k, NEW s
  PROVE  NumLeaves(WithLeafSize(leaves, s)) = 2^k /\ WithLeafSize(leaves, s).leaf_size = s
<1> DEFINE m == 2^k
           Least(j) == m =< 2^j /\ \A h \in 0..(j - 1) : 2^h < m
<1>1. m \in Nat /\ \A j \in Nat : 2^j \in Nat
  BY PowerNext
<1>2. k \in 0..m
  BY <1>1, BelowPower
<1>3. Least(k)
  <2>1. ASSUME NEW h \in 0..(k - 1) PROVE 2^h < m
    <3>1. h \in Nat /\ ~(k =< h)
      OBVIOUS
    <3>2. ~(2^k =< 2^h)
      BY <3>1, PowerGrows
    <3> QED BY <1>1, <3>1, <3>2
  <2> QED BY <1>1, <2>1
<1>4. ASSUME NEW j \in 0..m, Least(j) PROVE j = k
  <2>1. j \in Nat
    BY <1>1
  <2>2. k =< j
    BY <1>4, <2>1, PowerGrows
  <2>3. ~(k < j)
    <3> SUFFICES ASSUME k < j PROVE FALSE
      OBVIOUS
    <3>1. k \in 0..(j - 1)
      BY <2>1
    <3>2. 2^k < m
      BY <1>4, <3>1
    <3> QED BY <1>1, <3>2
  <2> QED BY <2>1, <2>2, <2>3
<1>5. Log2Up(m) = CHOOSE j \in 0..m : Least(j)
  BY DEF Log2Up
<1> HIDE DEF Least
<1>6. Log2Up(m) = k
  BY <1>2, <1>3, <1>4, <1>5
<1>7. WithLeafSize(leaves, s).n = k + 1 /\ WithLeafSize(leaves, s).leaf_size = s
  BY <1>6 DEF WithLeafSize
<1>8. (k + 1) - 1 = k
  OBVIOUS
<1> HIDE DEF WithLeafSize
<1> QED BY <1>7, <1>8 DEF NumLeaves

\* So what a party builds over its part of the leaves is a part of the tree.
LEMMA BuildsPart ==
  ASSUME NEW i \in 0..Mu, Distributed(i), NEW leaves, Size(leaves) = LeafCount(i) \div N
  PROVE  IsPart(WithLeafSize(leaves, LeafSizeOf(D!L(i))), i)
<1>1. PICK k \in Nat : LeafCount(i) \div N = 2^k
  BY Leaves
<1> QED BY <1>1, TreeIs DEF IsPart

\* That of a chunk of the commitment too.
LEMMA ChunkIsPart ==
  ASSUME NEW chunk
  PROVE  IsPart(ChunkTree(chunk, CommitLeafSize, LeavesPerParty), 0)
<1>1. 0 \in 0..Mu /\ Distributed(0) /\ D!L(0) = LenL0
  BY Sizes, Lengths, FirstSpreads
<1>2. CommitLeafSize = LeafSizeOf(D!L(0)) /\ LeavesPerParty = LeafCount(0) \div N
  BY <1>1 DEF CommitLeafSize, LeavesPerParty, LeafCount
<1>3. LeafCount(0) \div N \in Nat
  <2>1. PICK e \in Nat : LeafCount(0) \div N = 2^e
    BY <1>1, Leaves
  <2> QED BY <2>1, PowerNext
<1> DEFINE m == LeavesPerParty
           hash(j) == HashRow(Slice(chunk, j * CommitLeafSize, (j + 1) * CommitLeafSize))
           leaves == [j \in 0..(m - 1) |-> hash(j)]
<1>4. Size(leaves) = m
  <2>1. m \in Nat
    BY <1>2, <1>3
  <2> HIDE DEF m, hash
  <2> QED BY <2>1, SizeIs
<1>5. ChunkTree(chunk, CommitLeafSize, LeavesPerParty) = WithLeafSize(leaves, CommitLeafSize)
  BY DEF ChunkTree
<1> HIDE DEF leaves
<1> QED BY <1>1, <1>2, <1>4, <1>5, BuildsPart

\* A party's part of what is cut evenly.
LEMMA PartSize ==
  ASSUME NEW v, NEW n \in Nat, Size(v) \div N = n, NEW p \in Party
  PROVE  Size(PartOf(v, p)) = n
<1>1. p \in Nat
  BY Sizes
<1>2. (p + 1) * n - p * n - 1 = n - 1
  <2>1. p \in Int /\ n \in Int
    BY <1>1
  <2>2. (p + 1) * n = p * n + n /\ p * n \in Int
    BY ONLY <2>1
  <2> QED BY <2>2
<1>3. DOMAIN PartOf(v, p) = 0..((p + 1) * n - p * n - 1)
  BY DEF PartOf, Slice
<1> QED BY <1>2, <1>3, SizeIs

\* The leaves of the codeword after i folds are as many as LeafCount says.
LEMMA LeavesOf ==
  ASSUME NEW i \in 0..Mu, Size(D!V(i)) = D!L(i)
  PROVE  /\ Size(LeafHashes(D!V(i))) = LeafCount(i)
         /\ CanDistribute(i) <=> Distributed(i)
         /\ BuildTree(D!V(i)).leaf_size = LeafSizeOf(D!L(i))
<1>1. LeafCount(i) \in Nat
  <2>1. PICK e \in Nat : LeafCount(i) = 2^e
    BY Leaves
  <2> QED BY <2>1, PowerNext
<1>2. DOMAIN LeafHashes(D!V(i)) = 0..(LeafCount(i) - 1)
  BY DEF LeafHashes, LeafCount
<1>3. Size(LeafHashes(D!V(i))) = LeafCount(i)
  BY <1>1, <1>2, SizeIs
<1>4. CanDistribute(i) <=> Distributed(i)
  BY <1>3 DEF CanDistribute, Distributed
<1>5. BuildTree(D!V(i)).leaf_size = LeafSizeOf(D!L(i))
  BY DEF BuildTree, WithLeafSize
<1> QED BY <1>3, <1>4, <1>5

\* What becomes of a position: the remainder by the length of the codeword.
LEMMA NextBetaIs ==
  ASSUME NEW b \in Nat, NEW i \in 0..(Mu - 1)
  PROVE  D!NextBeta(i, b % D!L(i)) = b % D!L(i + 1)
<1> DEFINE m == D!L(i + 1)
           r == b % m
           d == b \div m
<1>1. m \in Nat /\ m >= 1 /\ D!L(i) = 2 * m
  BY Lengths, Sizes
<1> HIDE DEF m
<1>2. d \in Nat /\ r \in 0..(m - 1) /\ b = m * d + r
  BY <1>1, Division
<1> DEFINE q == b \div (2 * m)
           x == b % (2 * m)
<1>3. q \in Nat /\ x \in 0..(2 * m - 1) /\ b = (2 * m) * q + x
  <2>1. 2 * m \in Nat /\ 2 * m >= 1
    BY <1>1
  <2> QED BY ONLY <2>1, b \in Nat, Division
<1>4. D!NextBeta(i, b % D!L(i)) = IF x >= m THEN x - m ELSE x
  BY <1>1 DEF D!NextBeta, m
<1> HIDE DEF r, d, q, x
<1> DEFINE y == IF x >= m THEN x - m ELSE x
           c == IF x >= m THEN 2 * q + 1 ELSE 2 * q
<1>5. y \in 0..(m - 1) /\ c \in Nat /\ b = m * c + y
  BY <1>1, <1>3
<1> HIDE DEF y, c
<1>6. y = r
  <2>1. c = d
    <3>1. ~(c + 1 =< d)
      <4> SUFFICES ASSUME c + 1 =< d PROVE FALSE
        OBVIOUS
      <4>1. m * d >= m * (c + 1) /\ m * (c + 1) = m * c + m /\ m * c \in Nat /\ m * d \in Nat
        BY <1>1, <1>2, <1>5
      <4> QED BY <1>1, <1>2, <1>5, <4>1
    <3>2. ~(d + 1 =< c)
      <4> SUFFICES ASSUME d + 1 =< c PROVE FALSE
        OBVIOUS
      <4>1. m * c >= m * (d + 1) /\ m * (d + 1) = m * d + m /\ m * c \in Nat /\ m * d \in Nat
        BY <1>1, <1>2, <1>5
      <4> QED BY <1>1, <1>2, <1>5, <4>1
    <3> QED BY <1>2, <1>5, <3>1, <3>2
  <2>2. m * d \in Nat
    BY <1>1, <1>2
  <2> QED BY <1>2, <1>5, <2>1, <2>2
<1> QED BY <1>4, <1>6 DEF y, r, m

\* The remainder by the length of the first codeword is the position itself.
LEMMA FirstBeta == \A b \in 0..(LenL0 - 1) : b \in Nat /\ b % D!L(0) = b
<1>1. D!L(0) = LenL0 /\ LenL0 \in Nat
  BY Lengths
<1> QED BY <1>1

\* A leaf has an owner, who is a party.
LEMMA OwnerIs ==
  ASSUME NEW i \in 0..Mu, Distributed(i), NEW x \in Nat
  PROVE  (x % LeafCount(i)) \div (LeafCount(i) \div N) \in Party
<1> DEFINE n == LeafCount(i)
           m == n \div N
           r == x % n
           q == r \div m
<1>1. n = N * m /\ m \in Nat /\ m >= 1 /\ N \in Nat /\ N >= 1
  <2>1. PICK e \in Nat : LeafCount(i) \div N = 2^e
    BY Leaves
  <2> QED BY <2>1, Leaves, PowerNext, Sizes
<1> HIDE DEF n, m
<1>2. n \in Nat /\ n >= 1
  <2>1. N * m >= 1 * m
    BY <1>1
  <2> QED BY <1>1, <2>1
<1>3. r \in 0..(n - 1)
  BY <1>2
<1> HIDE DEF r
<1> DEFINE rest == r % m
<1>4. q \in Nat /\ rest \in 0..(m - 1) /\ r = m * q + rest
  <2>1. r \in Nat
    BY <1>2, <1>3
  <2> QED BY <1>1, <2>1, Division
<1> HIDE DEF q, rest
<1>5. ~(N =< q)
  <2> SUFFICES ASSUME N =< q PROVE FALSE
    OBVIOUS
  <2>1. m * q >= m * N /\ m * N = N * m /\ m * q \in Nat
    BY <1>1, <1>4
  <2> QED BY <1>1, <1>2, <1>3, <1>4, <2>1
<1>6. q \in Party
  BY <1>1, <1>4, <1>5 DEF Party
<1> QED BY <1>6 DEF q, r, m, n

\* The size of a vector, in the words of DeepFold.
LEMMA SizeSame == \A v : D!Size(v) = Size(v)
<1>1. \A A : D!Cardinality(A) = Cardinality(A)
  BY DEF D!Cardinality, Cardinality
<1> QED BY <1>1 DEF D!Size, Size

\* A codeword is as long as its domain.
LEMMA FftIs ==
  ASSUME NEW i, NEW n \in Nat, NEW f
  PROVE  Size(D!Fft(i, n, f)) = n
<1>1. DOMAIN D!Fft(i, n, f) = 0..(n - 1)
  BY DEF D!Fft, D!Vec
<1> HIDE DEF D!Fft
<1> QED BY <1>1, SizeIs

\* The codewords that are folded, with their sizes.
Codewords(v, n) == IsSeq(v) /\ Len(v) = n + 1 /\ \A i \in 0..n : Size(v[i + 1]) = D!L(i)

\* A fold is half as long as what is folded.
LEMMA FoldIs ==
  ASSUME NEW x, NEW n \in 0..(Mu - 1), Codewords(x.v, n), NEW new, NEW r
  PROVE  Codewords(D!Fold(x, new, r).v, n + 1)
<1> DEFINE v == x.v
           m == D!L(n + 1)
           f == D!FoldCoeffs(x.f, r)
           w == D!Fft(n + 1, m, f)
           more == D!Fold(x, new, r).v
<1>1. n \in Nat /\ n + 1 \in 0..Mu /\ IsSeq(v) /\ Len(v) = n + 1 /\ Size(v[n + 1]) = D!L(n)
  BY Sizes DEF Codewords
<1>2. m \in Nat /\ D!L(n) = 2 * m
  BY <1>1, Lengths
<1>3. more = Append(v, w)
  <2>1. more = Append(v, D!Fft(Len(v), Size(v[Len(v)]) \div 2, f))
    BY SizeSame DEF D!Fold
  <2>2. (2 * m) \div 2 = m
    BY <1>2
  <2> HIDE DEF more, f, m, v
  <2> QED BY <1>1, <1>2, <2>1, <2>2
<1>4. Size(w) = m
  BY <1>2, FftIs
<1> HIDE DEF w, more
<1>5. /\ IsSeq(more) /\ Len(more) = (n + 1) + 1
      /\ \A i \in 1..(n + 1) : more[i] = v[i]
      /\ more[(n + 1) + 1] = w
  BY <1>1, <1>3, IsAppend
<1>6. ASSUME NEW i \in 0..(n + 1) PROVE Size(more[i + 1]) = D!L(i)
  <2>1. CASE i \in 0..n
    <3>1. i + 1 \in 1..(n + 1)
      BY <2>1
    <3>2. Size(v[i + 1]) = D!L(i)
      BY <2>1 DEF Codewords
    <3> QED BY <1>5, <3>1, <3>2
  <2>2. CASE i = n + 1
    BY <1>4, <1>5, <2>2
  <2> QED BY <1>1, <2>1, <2>2
<1> QED BY <1>1, <1>5, <1>6 DEF Codewords, more

\* All of them together: what the master folds before it opens.
LEMMA FoldedIs ==
  ASSUME NEW start, NEW word, start.v = <<word>>, Size(word) = LenL0,
         NEW alpha, NEW r, Len(r) = Mu, NEW ext
  PROVE  Codewords(D!Folded(start, alpha, r, ext).v, Mu)
<1> DEFINE new(i) == IF ext THEN <<>> ELSE <<D!AlphaPowers(alpha[i], Mu - i + 1)>>
           step(i, x) == D!Fold(x, new(i), r[i])
           Rounds(n, g) == g = [i \in 0..n |-> IF i = 0 THEN start ELSE step(i, g[i - 1])]
           s == CHOOSE g : Rounds(Mu, g)
<1>1. D!Folded(start, alpha, r, ext) = s[Mu]
  BY DEF D!Folded
<1>2. \A i, x : \E nw, q : step(i, x) = D!Fold(x, nw, q)
  OBVIOUS
<1> HIDE DEF step, new
<1> DEFINE T == {n \in Nat : \E g : Rounds(n, g)}
<1>3. 0 \in T
  <2> DEFINE g == [i \in 0..0 |-> start]
  <2>1. Rounds(0, g)
    OBVIOUS
  <2> QED BY <2>1
<1>4. ASSUME NEW n \in Nat, n \in T PROVE n + 1 \in T
  <2>1. PICK g : Rounds(n, g)
    BY <1>4
  <2> DEFINE h == [i \in 0..(n + 1) |-> IF i = n + 1 THEN step(n + 1, g[n]) ELSE g[i]]
  <2>2. \A i \in 0..n : g[i] = IF i = 0 THEN start ELSE step(i, g[i - 1])
    BY <2>1
  <2>3. \A i \in 0..n : h[i] = g[i]
    OBVIOUS
  <2>4. ASSUME NEW i \in 0..(n + 1) PROVE h[i] = IF i = 0 THEN start ELSE step(i, h[i - 1])
    <3>1. CASE i \in 0..n
      <4>1. i # 0 => i - 1 \in 0..n
        BY <3>1
      <4> HIDE DEF h
      <4> QED BY <2>2, <2>3, <3>1, <4>1
    <3>2. CASE i = n + 1
      <4>1. n \in 0..n /\ (n + 1) - 1 = n /\ n + 1 # 0 /\ h[n + 1] = step(n + 1, g[n])
        OBVIOUS
      <4> HIDE DEF h
      <4> QED BY <2>3, <3>2, <4>1
    <3> QED BY <3>1, <3>2
  <2>5. Rounds(n + 1, h)
    <3>1. h = [i \in 0..(n + 1) |-> h[i]]
      OBVIOUS
    <3> HIDE DEF h
    <3> QED BY <2>4, <3>1
  <2> HIDE DEF h, Rounds
  <2> QED BY <2>5
<1>5. Rounds(Mu, s)
  <2> HIDE DEF T
  <2>1. Mu \in T
    BY <1>3, <1>4, SetInduction, Sizes
  <2>2. \E g : Rounds(Mu, g)
    BY <2>1 DEF T
  <2> HIDE DEF Rounds
  <2> QED BY <2>2
<1>6. s[0] = start /\ \A i \in 1..Mu : s[i] = step(i, s[i - 1])
  <2> HIDE DEF s
  <2> QED BY <1>5, Sizes
<1> HIDE DEF s, T
<1> DEFINE U == {n \in Nat : n =< Mu => Codewords(s[n].v, n)}
<1>7. 0 \in U
  <2>1. IsSeq(<<word>>) /\ Len(<<word>>) = 1 /\ <<word>>[1] = word
    BY IsOne
  <2>2. D!L(0) = LenL0
    BY Lengths
  <2> QED BY <1>6, <2>1, <2>2 DEF Codewords
<1>8. ASSUME NEW n \in Nat, n \in U PROVE n + 1 \in U
  <2> SUFFICES ASSUME n + 1 =< Mu PROVE Codewords(s[n + 1].v, n + 1)
    OBVIOUS
  <2>1. n \in 0..(Mu - 1) /\ n + 1 \in 1..Mu /\ (n + 1) - 1 = n /\ Codewords(s[n].v, n)
    BY <1>8, Sizes
  <2>2. PICK nw, q : s[n + 1] = D!Fold(s[n], nw, q)
    BY <1>2, <1>6, <2>1
  <2> QED BY <2>1, <2>2, FoldIs
<1> HIDE DEF U
<1>9. Mu \in U
  BY <1>7, <1>8, SetInduction, Sizes
<1> QED BY <1>1, <1>9, Sizes DEF U

\* The codeword of a polynomial.
LEMMA CodewordIs == \A table : Size(D!Codeword(table)) = LenL0
<1>1. LenL0 \in Nat /\ D!LenL0 = LenL0
  BY Lengths DEF D!LenL0, LenL0
<1> QED BY <1>1, FftIs DEF D!Codeword

\* What is folded, in an opening of one polynomial and of a batch.
LEMMA FoldsOf ==
  ASSUME oracle \in Oracles
  PROVE  /\ \A table, word, point, ext :
              Size(word) = LenL0 =>
                Codewords(D!Folded(D!Unfolded(table, word, point), oracle.alpha, oracle.r, ext).v, Mu)
         /\ \A all, ext : Codewords(D!BatchFold(all, ext, oracle).v, Mu)
<1>1. Len(oracle.r) = Mu
  BY OraclesAssumption
<1>2. \A table, word, point : D!Unfolded(table, word, point).v = <<word>>
  BY DEF D!Unfolded
<1>3. ASSUME NEW table, NEW word, NEW point, NEW ext, Size(word) = LenL0
      PROVE  Codewords(D!Folded(D!Unfolded(table, word, point), oracle.alpha, oracle.r, ext).v, Mu)
  BY <1>1, <1>2, <1>3, FoldedIs
<1>4. ASSUME NEW all, NEW ext PROVE Codewords(D!BatchFold(all, ext, oracle).v, Mu)
  BY <1>3, CodewordIs DEF D!BatchFold
<1> QED BY <1>3, <1>4

-----------------------------------------------------------------------------
(* The first of each.                                                      *)

\* The list of the first of each is not empty, and has positions of the list.
LEMMA FirstOfIs ==
  ASSUME NEW list, NEW n \in Nat, n >= 1, DOMAIN list = 1..n
  PROVE  IsSeq(D!FirstOf(list)) /\ D!FirstOf(list) # <<>>
         /\ \A j \in 1..Len(D!FirstOf(list)) : D!FirstOf(list)[j] \in 1..n
<1> DEFINE Again(k) == \E j \in 1..(k - 1) : list[j] = list[k]
           s == [k \in 1..n |-> IF Again(k) THEN <<>> ELSE <<k>>]
<1>1. D!FirstOf(list) = FlattenSeq(s)
  <2>1. D!FirstOf(list) = D!FlattenSeq(s)
    BY DEF D!FirstOf
  <2> HIDE DEF s
  <2>2. D!FlattenSeq(s) = FlattenSeq(s)
    BY DEF D!FlattenSeq, FlattenSeq
  <2> QED BY <2>1, <2>2
<1>2. ~Again(1)
  OBVIOUS
<1> HIDE DEF Again
<1>3. s = [k \in 1..n |-> s[k]] /\ \A k \in 1..n : s[k] = IF Again(k) THEN <<>> ELSE <<k>>
  OBVIOUS
<1> HIDE DEF s
<1>4. IsSeq(s) /\ Len(s) = n /\ \A k \in 1..n : IsSeq(s[k])
  BY <1>3, IsIndexed, IsEmpty, IsOne
<1>5. PICK F : Flattens(F, s)
  BY <1>4, IsFlatten
<1>6. /\ F[0] = <<>> /\ FlattenSeq(s) = F[n] /\ IsSeq(F[n])
      /\ \A k \in 1..n : IsSeq(F[k - 1]) /\ F[k] = F[k - 1] \o s[k]
  BY <1>4, <1>5 DEF Flattens
<1> DEFINE Good(x, k) == (k >= 1 => Len(x) >= 1) /\ \A j \in 1..Len(x) : x[j] \in 1..n
           T == {k \in Nat : k =< n => Good(F[k], k)}
<1>7. 0 \in T
  BY <1>6, IsEmpty
<1>8. ASSUME NEW k \in Nat, k \in T PROVE k + 1 \in T
  <2> SUFFICES ASSUME k + 1 =< n PROVE Good(F[k + 1], k + 1)
    OBVIOUS
  <2> DEFINE x == F[k]
             y == s[k + 1]
  <2>1. Good(x, k) /\ k + 1 \in 1..n /\ (k + 1) - 1 = k
    BY <1>8
  <2>2. IsSeq(x) /\ F[k + 1] = x \o y /\ IsSeq(y)
    BY <1>4, <1>6, <2>1
  <2>3. y = IF Again(k + 1) THEN <<>> ELSE <<k + 1>>
    BY <1>3, <2>1
  <2>4. (\A j \in 1..Len(y) : y[j] \in 1..n) /\ (k = 0 => Len(y) = 1)
    BY <1>2, <2>1, <2>3, IsEmpty, IsOne
  <2> HIDE DEF x, y
  <2>5. /\ Len(x \o y) = Len(x) + Len(y) /\ Len(x) \in Nat /\ Len(y) \in Nat
        /\ \A j \in 1..(Len(x) + Len(y)) : (x \o y)[j] = IF j =< Len(x) THEN x[j] ELSE y[j - Len(x)]
    BY <2>2, IsConcat DEF IsSeq
  <2>6. Len(x \o y) >= 1
    BY <2>1, <2>4, <2>5
  <2>7. ASSUME NEW j \in 1..Len(x \o y) PROVE (x \o y)[j] \in 1..n
    <3>1. CASE j =< Len(x)
      BY <2>1, <2>5, <3>1
    <3>2. CASE ~(j =< Len(x))
      <4>1. j - Len(x) \in 1..Len(y)
        BY <2>5, <3>2
      <4> QED BY <2>4, <2>5, <3>2, <4>1
    <3> QED BY <3>1, <3>2
  <2> QED BY <2>2, <2>6, <2>7
<1> HIDE DEF T
<1>9. n \in T
  BY <1>7, <1>8, SetInduction
<1>10. Good(F[n], n)
  BY <1>9 DEF T
<1>11. F[n] # <<>>
  BY <1>10, IsEmpty
<1> QED BY <1>1, <1>6, <1>10, <1>11

-----------------------------------------------------------------------------
(* The messages on the way.                                                *)

\* The message that is taken is the one that is due.
LEMMA Taken ==
  ASSUME NEW kn, NEW w, NEW msgs, NEW from, NEW to, Between(kn, w, msgs, from, to), msgs # <<>>
  PROVE  Is(kn, w, Head(msgs), from) /\ Between(kn, w, Tail(msgs), After(kn, from), to)
<1> DEFINE n == Len(msgs)
           rest == Tail(msgs)
<1>1. PICK names : Follows(kn, w, msgs, from, to, names)
  BY DEF Between
<1>2. /\ n \in Nat /\ n >= 1 /\ Head(msgs) = msgs[1] /\ IsSeq(rest) /\ Len(rest) = n - 1
      /\ \A i \in 1..(n - 1) : rest[i] = msgs[i + 1]
  BY IsTail DEF Between
<1> HIDE DEF rest
<1>3. /\ names[1] = from /\ names[n + 1] = to
      /\ \A i \in 1..n : Is(kn, w, msgs[i], names[i]) /\ names[i + 1] = After(kn, names[i])
  BY <1>1 DEF Follows
<1> DEFINE later == [i \in 1..n |-> names[i + 1]]
<1>4. /\ later[1] = names[2] /\ later[(n - 1) + 1] = to
      /\ \A i \in 1..n : later[i] = names[i + 1]
      /\ \A i \in 1..(n - 1) : later[i + 1] = names[i + 2]
  BY <1>2, <1>3
<1> HIDE DEF later, n
<1>5. later[1] = After(kn, from)
  BY <1>2, <1>3, <1>4
<1>6. \A i \in 1..(n - 1) : Is(kn, w, rest[i], later[i]) /\ later[i + 1] = After(kn, later[i])
  <2> SUFFICES ASSUME NEW i \in 1..(n - 1)
               PROVE  Is(kn, w, rest[i], later[i]) /\ later[i + 1] = After(kn, later[i])
    OBVIOUS
  <2>1. i + 1 \in 1..n /\ i \in 1..n /\ (i + 1) + 1 = i + 2
    BY <1>2
  <2>2. Is(kn, w, msgs[i + 1], names[i + 1]) /\ names[i + 2] = After(kn, names[i + 1])
    BY <1>3, <2>1
  <2> QED BY <1>2, <1>4, <2>1, <2>2
<1>7. Follows(kn, w, rest, After(kn, from), to, later)
  BY <1>2, <1>4, <1>5, <1>6 DEF Follows
<1>8. Is(kn, w, Head(msgs), from)
  BY <1>2, <1>3
<1> QED BY <1>2, <1>7, <1>8 DEF Between, rest

\* One more message, which is what it has to be.
LEMMA Sent ==
  ASSUME NEW kn, NEW w, NEW msgs, NEW from, NEW to, Between(kn, w, msgs, from, to),
         NEW m, Is(kn, w, m, to)
  PROVE  Between(kn, w, msgs \o <<m>>, from, After(kn, to))
<1> DEFINE n == Len(msgs)
           all == msgs \o <<m>>
<1>1. PICK names : Follows(kn, w, msgs, from, to, names)
  BY DEF Between
<1>2. /\ n \in Nat /\ IsSeq(all) /\ Len(all) = n + 1
      /\ \A i \in 1..n : all[i] = msgs[i]
      /\ all[n + 1] = m
  <2>1. IsSeq(msgs) /\ n \in Nat /\ IsSeq(<<m>>) /\ Len(<<m>>) = 1 /\ <<m>>[1] = m
    BY IsOne DEF Between, IsSeq
  <2>2. /\ IsSeq(all) /\ Len(all) = n + 1
        /\ \A i \in 1..(n + 1) : all[i] = IF i =< n THEN msgs[i] ELSE <<m>>[i - n]
    BY <2>1, IsConcat
  <2> QED BY <2>1, <2>2
<1> HIDE DEF all
<1>3. /\ names[1] = from /\ names[n + 1] = to
      /\ \A i \in 1..n : Is(kn, w, msgs[i], names[i]) /\ names[i + 1] = After(kn, names[i])
  BY <1>1 DEF Follows
<1> DEFINE later == [i \in 1..(n + 2) |-> IF i =< n + 1 THEN names[i] ELSE After(kn, to)]
<1> HIDE DEF n
<1>4. /\ later[1] = from /\ later[(n + 1) + 1] = After(kn, to) /\ later[n + 1] = to
      /\ \A i \in 1..n : later[i] = names[i] /\ later[i + 1] = names[i + 1]
  BY <1>2, <1>3
<1> HIDE DEF later
<1>5. \A i \in 1..(n + 1) : Is(kn, w, all[i], later[i]) /\ later[i + 1] = After(kn, later[i])
  <2> SUFFICES ASSUME NEW i \in 1..(n + 1)
               PROVE  Is(kn, w, all[i], later[i]) /\ later[i + 1] = After(kn, later[i])
    OBVIOUS
  <2>1. CASE i \in 1..n
    BY <1>2, <1>3, <1>4, <2>1
  <2>2. CASE i = n + 1
    BY <1>2, <1>4, <2>2
  <2> QED BY <1>2, <2>1, <2>2
<1>6. Follows(kn, w, all, from, After(kn, to), later)
  BY <1>2, <1>4, <1>5 DEF Follows
<1> QED BY <1>2, <1>6 DEF Between, all

\* Many more, along a path of names.
LEMMA SentMany ==
  ASSUME NEW kn, NEW w, NEW msgs, NEW from, NEW to, Between(kn, w, msgs, from, to),
         NEW n \in Nat, NEW more, IsSeq(more), Len(more) = n, NEW path, path[1] = to,
         \A i \in 1..n : Is(kn, w, more[i], path[i]) /\ path[i + 1] = After(kn, path[i])
  PROVE  Between(kn, w, msgs \o more, from, path[n + 1])
<1> DEFINE m == Len(msgs)
           all == msgs \o more
<1>1. PICK names : Follows(kn, w, msgs, from, to, names)
  BY DEF Between
<1>2. /\ m \in Nat /\ IsSeq(all) /\ Len(all) = m + n
      /\ \A i \in 1..(m + n) : all[i] = IF i =< m THEN msgs[i] ELSE more[i - m]
  BY IsConcat DEF Between, IsSeq
<1> HIDE DEF all
<1>3. /\ names[1] = from /\ names[m + 1] = to
      /\ \A i \in 1..m : Is(kn, w, msgs[i], names[i]) /\ names[i + 1] = After(kn, names[i])
  BY <1>1 DEF Follows
<1> DEFINE later == [i \in 1..(m + n + 1) |-> IF i =< m THEN names[i] ELSE path[i - m]]
<1> HIDE DEF m
<1>4. \A i \in 1..(m + n + 1) : later[i] = IF i =< m THEN names[i] ELSE path[i - m]
  OBVIOUS
<1> HIDE DEF later
<1>5. later[1] = from /\ later[(m + n) + 1] = path[n + 1]
  <2>1. (m + n + 1) - m = n + 1 /\ (m + n) + 1 = m + n + 1 /\ m + n + 1 \in 1..(m + n + 1) /\ 1 \in 1..(m + n + 1)
        /\ ~(m + n + 1 =< m)
    BY <1>2
  <2>2. later[m + n + 1] = path[n + 1]
    BY <1>4, <2>1
  <2>3. CASE m = 0
    <3>1. later[1] = path[1 - m] /\ 1 - m = 1 /\ names[m + 1] = names[1]
      BY <1>2, <1>4, <2>1, <2>3
    <3> QED BY <1>3, <2>1, <2>2, <3>1
  <2>4. CASE m # 0
    BY <1>2, <1>3, <1>4, <2>1, <2>2, <2>4
  <2> QED BY <2>3, <2>4
<1>6. \A i \in 1..(m + n) : Is(kn, w, all[i], later[i]) /\ later[i + 1] = After(kn, later[i])
  <2> SUFFICES ASSUME NEW i \in 1..(m + n)
               PROVE  Is(kn, w, all[i], later[i]) /\ later[i + 1] = After(kn, later[i])
    OBVIOUS
  <2>0. i \in 1..(m + n + 1) /\ i + 1 \in 1..(m + n + 1)
    BY <1>2
  <2>1. CASE i =< m
    <3>1. i \in 1..m /\ all[i] = msgs[i] /\ later[i] = names[i]
      BY <1>2, <1>4, <2>0, <2>1
    <3>2. later[i + 1] = names[i + 1]
      <4>1. CASE i + 1 =< m
        BY <1>4, <2>0, <4>1
      <4>2. CASE i = m
        <5>1. (i + 1) - m = 1 /\ ~(i + 1 =< m)
          BY <1>2, <4>2
        <5>2. later[i + 1] = path[1]
          BY <1>4, <2>0, <5>1
        <5> QED BY <1>3, <4>2, <5>2
      <4> QED BY <1>2, <2>1, <4>1, <4>2
    <3> QED BY <1>3, <3>1, <3>2
  <2>2. CASE ~(i =< m)
    <3>1. i - m \in 1..n /\ (i + 1) - m = (i - m) + 1 /\ ~(i + 1 =< m)
      BY <1>2, <2>2
    <3>2. all[i] = more[i - m] /\ later[i] = path[i - m] /\ later[i + 1] = path[(i - m) + 1]
      BY <1>2, <1>4, <2>0, <2>2, <3>1
    <3> QED BY <3>1, <3>2
  <2> QED BY <2>1, <2>2
<1>7. Follows(kn, w, all, from, path[n + 1], later)
  BY <1>2, <1>5, <1>6 DEF Follows
<1> QED BY <1>2, <1>7 DEF Between, all

\* Many are taken, along a path of names.
LEMMA TakenMany ==
  ASSUME NEW kn, NEW w, NEW msgs, NEW from, NEW to, Between(kn, w, msgs, from, to),
         NEW n \in Nat, Len(msgs) >= n, NEW path, path[1] = from,
         \A i \in 1..n : path[i + 1] = After(kn, path[i])
  PROVE  /\ \A i \in 1..n : Is(kn, w, msgs[i], path[i])
         /\ Between(kn, w, SubSeq(msgs, n + 1, Len(msgs)), path[n + 1], to)
<1> DEFINE m == Len(msgs)
           rest == SubSeq(msgs, n + 1, m)
<1>1. PICK names : Follows(kn, w, msgs, from, to, names)
  BY DEF Between
<1>2. IsSeq(msgs) /\ m \in Nat
  BY DEF Between, IsSeq
<1>3. IsSeq(rest) /\ Len(rest) = m - n /\ \A i \in 1..(m - n) : rest[i] = msgs[i + n]
  <2> DEFINE A == {msgs[i] : i \in 1..m}
  <2>1. \A i \in 1..m : msgs[i] \in A
    OBVIOUS
  <2> HIDE DEF A
  <2>2. msgs \in Seq(A)
    BY <1>2, <2>1, OfSet
  <2>3. rest \in Seq(A) /\ Len(rest) = m - n /\ \A i \in 1..(m - n) : rest[i] = msgs[i + n]
    BY <1>2, <2>2, SubSeqProperties
  <2> QED BY <2>3, SeqIs
<1> HIDE DEF rest
<1>4. /\ names[1] = from /\ names[m + 1] = to
      /\ \A i \in 1..m : Is(kn, w, msgs[i], names[i]) /\ names[i + 1] = After(kn, names[i])
  BY <1>1 DEF Follows
<1> HIDE DEF m
<1>5. \A i \in 1..(n + 1) : names[i] = path[i]
  <2> DEFINE T == {i \in Nat : i =< n => names[i + 1] = path[i + 1]}
  <2>1. 0 \in T
    BY <1>4
  <2>2. ASSUME NEW i \in Nat, i \in T PROVE i + 1 \in T
    <3> SUFFICES ASSUME i + 1 =< n PROVE names[(i + 1) + 1] = path[(i + 1) + 1]
      OBVIOUS
    <3>1. i + 1 \in 1..m /\ i + 1 \in 1..n /\ names[i + 1] = path[i + 1]
      BY <1>2, <2>2 DEF m
    <3> QED BY <1>4, <3>1
  <2> HIDE DEF T
  <2>3. Nat \subseteq T
    BY <2>1, <2>2, SetInduction
  <2> SUFFICES ASSUME NEW i \in 1..(n + 1) PROVE names[i] = path[i]
    OBVIOUS
  <2>4. i - 1 \in Nat /\ (i - 1) + 1 = i /\ i - 1 =< n
    OBVIOUS
  <2>5. i - 1 \in T
    BY <2>3, <2>4
  <2> QED BY <2>4, <2>5 DEF T
<1> DEFINE later == [i \in 1..(m - n + 1) |-> names[i + n]]
<1>6. m >= n
  BY DEF m
<1>7. \A i \in 1..(m - n + 1) : later[i] = names[i + n]
  OBVIOUS
<1> HIDE DEF later
<1>8. later[1] = path[n + 1] /\ later[(m - n) + 1] = to
  <2>1. 1 \in 1..(m - n + 1) /\ m - n + 1 \in 1..(m - n + 1) /\ (m - n + 1) + n = m + 1 /\ 1 + n = n + 1
        /\ n + 1 \in 1..(n + 1)
    BY <1>2, <1>6
  <2> QED BY <1>4, <1>5, <1>7, <2>1
<1>9. \A i \in 1..(m - n) : Is(kn, w, rest[i], later[i]) /\ later[i + 1] = After(kn, later[i])
  <2> SUFFICES ASSUME NEW i \in 1..(m - n)
               PROVE  Is(kn, w, rest[i], later[i]) /\ later[i + 1] = After(kn, later[i])
    OBVIOUS
  <2>1. i + n \in 1..m /\ i \in 1..(m - n + 1) /\ i + 1 \in 1..(m - n + 1) /\ (i + 1) + n = (i + n) + 1
    BY <1>2, <1>6
  <2> QED BY <1>3, <1>4, <1>7, <2>1
<1>10. Follows(kn, w, rest, path[n + 1], to, later)
  BY <1>3, <1>8, <1>9 DEF Follows
<1>11. \A i \in 1..n : Is(kn, w, msgs[i], path[i])
  <2> SUFFICES ASSUME NEW i \in 1..n PROVE Is(kn, w, msgs[i], path[i])
    OBVIOUS
  <2>1. i \in 1..m /\ i \in 1..(n + 1)
    BY <1>2, <1>6
  <2> QED BY <1>4, <1>5, <2>1
<1>12. Between(kn, w, rest, path[n + 1], to)
  BY <1>3, <1>10 DEF Between
<1> QED BY <1>11, <1>12 DEF rest, m

\* At the end nothing is on the way.
LEMMA NothingLeft ==
  ASSUME NEW kn, NEW w, NEW msgs, NEW to, Between(kn, w, msgs, End, to)
  PROVE  msgs = <<>>
<1>1. ASSUME msgs # <<>> PROVE FALSE
  <2>1. Is(kn, w, Head(msgs), End)
    BY <1>1, Taken
  <2> QED BY <2>1 DEF Is
<1> QED BY <1>1

\* What the master has told already stays told.
More(kn, kn2) ==
  /\ kn2.kind = kn.kind /\ Len(kn.asked) \in Nat /\ Len(kn2.asked) \in Nat /\ Len(kn.asked) =< Len(kn2.asked)
  /\ \A t \in 1..Len(kn.asked) : kn2.asked[t] = kn.asked[t]
  /\ kn.idx # <<>> => kn2.idx = kn.idx

\* So the messages on the way keep their names when it tells more.
LEMMA Grows ==
  ASSUME NEW kn, NEW kn2, More(kn, kn2), NEW w, NEW msgs, NEW from, NEW to, Between(kn, w, msgs, from, to)
  PROVE  Between(kn2, w, msgs, from, to)
<1>0. Batch(kn2) = Batch(kn) /\ Ext(kn2) = Ext(kn) /\ Commits(kn2) = Commits(kn) /\ First(kn2) = First(kn)
  BY DEF More, Batch, Ext, Commits, First
<1>1. ASSUME NEW t, NEW b, AskedAt(kn, t, b) PROVE AskedAt(kn2, t, b)
  BY <1>1 DEF AskedAt, More
<1>2. ASSUME NEW t, NEW i, NEW p, Answers(kn, w, t, i, p) PROVE Answers(kn2, w, t, i, p)
  BY <1>2 DEF Answers, More
<1>3. ASSUME NEW n, NEW m, Is(kn, w, m, n) PROVE Is(kn2, w, m, n)
  BY <1>1, <1>2, <1>3 DEF Is, Says, More
<1>4. ASSUME NEW n, NEW m, Is(kn, w, m, n) PROVE After(kn2, n) = After(kn, n)
  <2>1. \A t, i : FromProof(kn2, t, i) = FromProof(kn, t, i)
    BY <1>0 DEF FromProof
  <2>2. \A i : FromRound(kn2, i) = FromRound(kn, i)
    BY <1>0, <2>1 DEF FromRound
  <2>3. AfterDown(kn2, n) = AfterDown(kn, n)
    BY <1>0 DEF AfterDown
  <2>4. n[1] = "mt0" => kn2.idx = kn.idx
    BY <1>4 DEF Is, Says, More
  <2>5. AfterUp(kn2, n) = AfterUp(kn, n)
    <3>1. CASE n[1] = "mt0"
      BY <2>4, <3>1 DEF AfterUp
    <3>2. CASE n[1] # "mt0"
      BY <1>0, <2>1, <2>2, <3>2 DEF AfterUp
    <3> QED BY <3>1, <3>2
  <2> QED BY <2>3, <2>5 DEF After
<1>5. PICK names : Follows(kn, w, msgs, from, to, names)
  BY DEF Between
<1>6. Follows(kn2, w, msgs, from, to, names)
  BY <1>3, <1>4, <1>5 DEF Follows
<1> QED BY <1>6 DEF Between

-----------------------------------------------------------------------------
(* What comes after what.                                                  *)

\* What a worker sends next, name by name ...
LEMMA AfterUpIs ==
  ASSUME NEW kn, NEW a, NEW b
  PROVE  /\ After(kn, <<"evals", a, b>>) = <<"root0", a, 0>>
         /\ After(kn, <<"root0", a, b>>) = IF a < Commits(kn) THEN <<"evals", a + 1, 0>>
                                              ELSE IF Batch(kn) THEN <<"batch", 1, 0>> ELSE FromRound(kn, 1)
         /\ After(kn, <<"batch", a, b>>) = IF a < Len(BatchOf) THEN <<"batch", a + 1, 0>> ELSE FromRound(kn, 1)
         /\ After(kn, <<"root", a, b>>) = FromRound(kn, a + 1)
         /\ After(kn, <<"proof", a, b>>) = FromProof(kn, a, b + 1)
         /\ After(kn, <<"mt0", a, b>>) = IF b < Len(kn.idx) THEN <<"mt0", a, b + 1>>
                                            ELSE IF a + 1 < S THEN <<"mt0", a + 1, 1>> ELSE End
<1>1. \A x \in {"evals", "root0", "batch", "root", "proof", "mt0"} : x \in DOMAIN Ups
  BY DEF Ups
<1>2. \A x : x \in DOMAIN Ups => After(kn, <<x, a, b>>) = AfterUp(kn, <<x, a, b>>)
  BY DEF After
<1>3. /\ AfterUp(kn, <<"evals", a, b>>) = <<"root0", a, 0>>
      /\ AfterUp(kn, <<"root0", a, b>>) = IF a < Commits(kn) THEN <<"evals", a + 1, 0>>
                                        ELSE IF Batch(kn) THEN <<"batch", 1, 0>> ELSE FromRound(kn, 1)
      /\ AfterUp(kn, <<"batch", a, b>>) = IF a < Len(BatchOf) THEN <<"batch", a + 1, 0>> ELSE FromRound(kn, 1)
      /\ AfterUp(kn, <<"root", a, b>>) = FromRound(kn, a + 1)
  BY DEF AfterUp
<1>4. /\ AfterUp(kn, <<"proof", a, b>>) = FromProof(kn, a, b + 1)
      /\ AfterUp(kn, <<"mt0", a, b>>) = IF b < Len(kn.idx) THEN <<"mt0", a, b + 1>>
                                      ELSE IF a + 1 < S THEN <<"mt0", a + 1, 1>> ELSE End
  BY DEF AfterUp
<1> QED BY <1>1, <1>2, <1>3, <1>4

\* ... and what the master tells next: to the end of the commitments,
LEMMA AfterChunkIs ==
  ASSUME NEW kn, NEW a, NEW b
  PROVE  /\ After(kn, <<"chunk", a, b>>) = <<"sizes", a, 0>>
         /\ After(kn, <<"sizes", a, b>>) = IF a < Commits(kn) THEN <<"chunk", a + 1, 0>>
                                           ELSE IF Ext(kn) THEN <<"broadcast", 0, 0>> ELSE <<"alpha", 1, 0>>
         /\ After(kn, <<"broadcast", a, b>>) = <<"alpha", 1, 0>>
BY DEF After, AfterDown, Ups

\* in the rounds,
LEMMA AfterAlphaIs ==
  ASSUME NEW kn, NEW a, NEW b
  PROVE  /\ After(kn, <<"alpha", a, b>>) = <<"r", a, 0>>
         /\ After(kn, <<"r", a, b>>) = IF Ext(kn) THEN IF a < Mu THEN <<"alpha", a + 1, 0>> ELSE <<"idx", 0, 0>>
                                       ELSE IF a < Mu THEN <<"flag", a, 0>> ELSE <<"beta", 0, 0>>
         /\ After(kn, <<"flag", a, b>>) = IF Distributed(a) THEN <<"leaves", a, 0>> ELSE <<"alpha", a + 1, 0>>
         /\ After(kn, <<"leaves", a, b>>) = <<"leaf_size", a, 0>>
         /\ After(kn, <<"leaf_size", a, b>>) = <<"alpha", a + 1, 0>>
BY DEF After, AfterDown, Ups

\* and in the queries.
LEMMA AfterBetaIs ==
  ASSUME NEW kn, NEW a, NEW b
  PROVE  /\ After(kn, <<"beta", a, b>>) = IF a + 1 < S THEN <<"beta", a + 1, 0>>
                                          ELSE IF Batch(kn) THEN <<"idx", 0, 0>> ELSE End
         /\ After(kn, <<"idx", a, b>>) = <<"x0", 0, 0>>
         /\ After(kn, <<"x0", a, b>>) = IF a + 1 < S THEN <<"x0", a + 1, 0>> ELSE End
BY DEF After, AfterDown, Ups

\* A proof is due where the codeword is spread; what is not spread is passed by.
LEMMA ProofDue ==
  ASSUME NEW kn, NEW t \in Nat, First(kn) < Mu
  PROVE  /\ \A i \in 0..(Mu - 1) :
              /\ Distributed(i) => FromProof(kn, t, i) = <<"proof", t, i>>
              /\ ~Distributed(i) => FromProof(kn, t, i) = FromProof(kn, t, i + 1)
         /\ FromProof(kn, t, Mu) = IF t + 1 < S THEN FromProof(kn, t + 1, First(kn))
                                  ELSE IF Batch(kn) THEN <<"mt0", 0, 1>> ELSE End
<1>1. Mu \in Nat /\ S \in Nat /\ First(kn) \in 0..(Mu - 1)
  BY Sizes DEF First
<1>2. \A i \in 0..(Mu - 1) : i \in 0..Mu /\ (~Distributed(i) => ~Distributed(i + 1))
  BY <1>1, Leaves
<1>3. ASSUME NEW i \in 0..(Mu - 1), Distributed(i) PROVE FromProof(kn, t, i) = <<"proof", t, i>>
  BY <1>1, <1>3 DEF FromProof
<1>4. ASSUME NEW i \in 0..(Mu - 1), ~Distributed(i) PROVE FromProof(kn, t, i) = FromProof(kn, t, i + 1)
  BY <1>1, <1>2, <1>4 DEF FromProof
<1>5. FromProof(kn, t, Mu) = IF t + 1 < S THEN FromProof(kn, t + 1, First(kn))
                             ELSE IF Batch(kn) THEN <<"mt0", 0, 1>> ELSE End
  BY <1>1 DEF FromProof
<1> QED BY <1>3, <1>4, <1>5

\* A root is due where the codeword is spread, and after the last round a proof.
LEMMA RoundDue ==
  ASSUME NEW kn, ~Ext(kn)
  PROVE  /\ \A i \in 1..(Mu - 1) :
              /\ Distributed(i) => FromRound(kn, i) = <<"root", i, 0>>
              /\ ~Distributed(i) => FromRound(kn, i) = FromRound(kn, i + 1)
         /\ FromRound(kn, Mu) = FromProof(kn, 0, First(kn))
<1>1. Mu \in Nat
  BY Sizes
<1>2. \A i \in 1..(Mu - 1) : i < Mu /\ i \in 0..Mu /\ (~Distributed(i) => ~Distributed(i + 1))
  BY <1>1, Leaves
<1>3. FromRound(kn, Mu) = FromProof(kn, 0, First(kn))
  BY <1>1 DEF FromRound
<1> QED BY <1>2, <1>3 DEF FromRound

\* The fields of what the master has told, in the words of DeepFold.
LEMMA KindIs ==
  ASSUME kind \in Kinds
  PROVE  /\ Batch(Known) <=> D!IsBatch
         /\ Ext(Known) <=> D!IsExt
         /\ D!IsExt => D!IsBatch
         /\ kind = "open" <=> ~D!IsBatch
         /\ kind = "batch" <=> D!IsBatch /\ ~D!IsExt
         /\ kind = "batch_ext" <=> D!IsExt
         /\ Commits(Known) = D!ToCommit /\ D!ToCommit \in Nat /\ D!ToCommit >= 1
         /\ First(Known) = IF D!IsBatch THEN 1 ELSE 0
         /\ ~D!IsExt => First(Known) < Mu
<1>1. kind \in {"open", "batch", "batch_ext"} /\ ("batch" \in Kinds => Mu >= 2) /\ Mu \in Nat /\ Mu >= 1
  BY Sizes
<1>2. Known.kind = kind
  BY DEF Known
<1> QED BY <1>1, <1>2, Sizes DEF Batch, Ext, Commits, First, D!IsBatch, D!IsExt, D!ToCommit

-----------------------------------------------------------------------------
(* What a step of one party leaves alone.                                  *)

Alone(p) ==
  /\ OfParties' /\ UNCHANGED case
  /\ \A x \in Party \ {p} :
       /\ pc'[x] = pc[x] /\ round'[x] = round[x] /\ queries'[x] = queries[x] /\ beta'[x] = beta[x]
       /\ mt0s'[x] = mt0s[x] /\ local_mts'[x] = local_mts[x] /\ is_distributed'[x] = is_distributed[x]
       /\ idx'[x] = idx[x] /\ pending'[x] = pending[x]

\* As long as it is the same kind of proof, the names follow one another as they did.
LEMMA Kept ==
  ASSUME UNCHANGED case
  PROVE  /\ Batch(Known)' = Batch(Known) /\ Ext(Known)' = Ext(Known)
         /\ Commits(Known)' = Commits(Known) /\ First(Known)' = First(Known)
         /\ D!IsBatch' = D!IsBatch /\ D!IsExt' = D!IsExt /\ D!ToCommit' = D!ToCommit
         /\ \A t, i : FromProof(Known, t, i)' = FromProof(Known, t, i)
         /\ \A i : FromRound(Known, i)' = FromRound(Known, i)
         /\ \A n : AfterDown(Known, n)' = AfterDown(Known, n)
<1>1. kind' = kind
  BY DEF case
<1>2. D!IsBatch' = D!IsBatch /\ D!IsExt' = D!IsExt /\ D!ToCommit' = D!ToCommit
  BY <1>1 DEF D!IsBatch, D!IsExt, D!ToCommit
<1>3. Batch(Known)' = Batch(Known) /\ Ext(Known)' = Ext(Known)
  BY <1>1 DEF Batch, Ext, Known
<1>4. Commits(Known)' = Commits(Known) /\ First(Known)' = First(Known)
  BY <1>3 DEF Commits, First
<1>5. \A t, i : FromProof(Known, t, i)' = FromProof(Known, t, i)
  BY <1>3, <1>4 DEF FromProof
<1>6. \A i : FromRound(Known, i)' = FromRound(Known, i)
  BY <1>3, <1>4, <1>5 DEF FromRound
<1>7. \A n : AfterDown(Known, n)' = AfterDown(Known, n)
  BY <1>3, <1>4 DEF AfterDown
<1> QED BY <1>2, <1>3, <1>4, <1>5, <1>6, <1>7

\* Where nothing of a party is written, its part of the invariant stays.
LEMMA Same ==
  ASSUME UNCHANGED case, More(Known, Known'), idx[0] # <<>> => idx'[0] = idx[0],
         NEW x \in Party, pc'[x] = pc[x], round'[x] = round[x], queries'[x] = queries[x],
         beta'[x] = beta[x], mt0s'[x] = mt0s[x], local_mts'[x] = local_mts[x],
         is_distributed'[x] = is_distributed[x], idx'[x] = idx[x], pending'[x] = pending[x]
  PROVE  /\ InPlace(x) => InPlace(x)'
         /\ HasTrees(x) => HasTrees(x)'
         /\ WorkerHas(x) => WorkerHas(x)'
         /\ Sends(Known, x)' = Sends(Known, x) /\ Awaits(Known, x)' = Awaits(Known, x)
<1>1. InPlace(x) => InPlace(x)'
  BY Kept DEF InPlace
<1>2. TreesOf(x, 0)' = TreesOf(x, 0)
  BY Kept DEF TreesOf
<1>3. HasTrees(x) => HasTrees(x)'
  BY <1>2, Kept DEF HasTrees
<1>4. WorkerHas(x) => WorkerHas(x)'
  <2>1. Known.asked = Asked /\ Known'.asked = Asked'
    BY DEF Known
  <2>2. queries[x] + 1 \in 1..Len(Asked) =>
          queries[x] + 1 \in 1..Len(Asked') /\ Asked'[queries[x] + 1] = Asked[queries[x] + 1]
    BY <2>1 DEF More
  <2> HIDE DEF Asked
  <2> QED BY <2>2 DEF WorkerHas
<1>5. Sends(Known, x)' = Sends(Known, x)
  BY Kept DEF Sends
<1>6. Awaits(Known, x)' = Awaits(Known, x)
  BY Kept DEF Awaits
<1> QED BY <1>1, <1>3, <1>4, <1>5, <1>6

\* How many positions the master has asked for.
LEMMA AskedIs ==
  ASSUME MasterHas, InPlace(0)
  PROVE  /\ IsSeq(Asked) /\ IsSeq(mt_proofs) /\ Known.asked = Asked /\ Known.idx = idx[0] /\ Known.kind = kind
         /\ Len(Asked) = Len(mt_proofs) + (IF pc[0] = "prove" THEN 1 ELSE 0)
         /\ \A t \in 1..Len(Asked) : Asked[t] =
              IF t =< Len(mt_proofs) THEN mt_proofs[t][1].x
              ELSE IF proofs_for_t # <<>> THEN proofs_for_t[1].x ELSE beta[0]
<1> DEFINE n == Len(mt_proofs) + (IF pc[0] = "prove" THEN 1 ELSE 0)
           at(t) == IF t =< Len(mt_proofs) THEN mt_proofs[t][1].x
                    ELSE IF proofs_for_t # <<>> THEN proofs_for_t[1].x ELSE beta[0]
<1>1. IsSeq(mt_proofs) /\ n \in Nat
  BY DEF MasterHas, Has, IsSeq
<1>2. Asked = [t \in 1..n |-> at(t)]
  BY DEF Asked
<1> HIDE DEF n, at
<1>3. Asked = [t \in 1..n |-> Asked[t]] /\ \A t \in 1..n : Asked[t] = at(t)
  BY <1>2
<1>4. IsSeq(Asked) /\ Len(Asked) = n
  BY <1>1, <1>3, IsIndexed
<1> QED BY <1>1, <1>3, <1>4 DEF n, at, Known

\* What a step of a worker has to show.
LEMMA WorkerFrame ==
  ASSUME IInv, NEW w \in Worker, Alone(w), UNCHANGED masterVars,
         {DOMAIN up', DOMAIN down'} = {Worker},
         \A v \in Worker \ {w} : up'[v] = up[v] /\ down'[v] = down[v],
         InPlace(w)', HasTrees(w)', WorkerHas(w)',
         Between(Known, w, up'[w], ToGather(Known), Sends(Known, w)'),
         Between(Known, w, down'[w], Awaits(Known, w)', ToTell(Known))
  PROVE  IInv'
<1>0. 0 \in Party /\ 0 # w /\ Worker \subseteq Party /\ w \in Party /\ Party = {0} \cup Worker
  BY Sizes
<1>1. /\ pc'[0] = pc[0] /\ round'[0] = round[0] /\ queries'[0] = queries[0] /\ beta'[0] = beta[0]
      /\ mt0s'[0] = mt0s[0] /\ local_mts'[0] = local_mts[0] /\ is_distributed'[0] = is_distributed[0]
      /\ idx'[0] = idx[0] /\ pending'[0] = pending[0]
      /\ UNCHANGED <<case, fold, mt_roots, upper_mts, proofs_for_t, mt_proofs, mt0_proofs>>
  BY <1>0 DEF Alone, masterVars, beginVars, rootVars, proofVars
<1>2. Asked' = Asked /\ Known' = Known
  <2>1. Asked' = Asked
    BY <1>1 DEF Asked
  <2> QED BY <1>1, <2>1 DEF Known, case
<1>3. More(Known, Known')
  <2>1. MasterHas /\ InPlace(0)
    BY <1>0 DEF IInv
  <2>2. Len(Known.asked) \in Nat
    BY <2>1, AskedIs DEF IsSeq
  <2> HIDE DEF Known
  <2> QED BY <1>2, <2>2 DEF More
<1>4. ASSUME NEW x \in Party \ {w}
      PROVE  /\ InPlace(x)' /\ HasTrees(x)' /\ (x \in Worker => WorkerHas(x)')
             /\ Sends(Known, x)' = Sends(Known, x) /\ Awaits(Known, x)' = Awaits(Known, x)
  <2>1. /\ pc'[x] = pc[x] /\ round'[x] = round[x] /\ queries'[x] = queries[x] /\ beta'[x] = beta[x]
        /\ mt0s'[x] = mt0s[x] /\ local_mts'[x] = local_mts[x] /\ is_distributed'[x] = is_distributed[x]
        /\ idx'[x] = idx[x] /\ pending'[x] = pending[x]
    BY DEF Alone
  <2>2. InPlace(x) /\ HasTrees(x) /\ (x \in Worker => WorkerHas(x))
    BY DEF IInv
  <2> QED BY <1>1, <1>3, <2>1, <2>2, Same
<1>5. \A p \in Party : InPlace(p)' /\ HasTrees(p)'
  BY <1>4
<1>6. \A v \in Worker : WorkerHas(v)'
  BY <1>0, <1>4
<1>7. Domains'
  BY DEF Domains, Alone
<1>8. ToGather(Known)' = ToGather(Known) /\ ToTell(Known)' = ToTell(Known)
  <2>1. ToGather(Known)' = ToGather(Known)
    BY <1>1, Kept DEF ToGather
  <2>2. ToTell(Known)' = ToTell(Known)
    BY <1>1, Kept DEF ToTell
  <2> QED BY <2>1, <2>2
<1>9. MasterHas'
  <2>1. TreesOf(0, 1)' = TreesOf(0, 1)
    BY <1>1, Kept DEF TreesOf
  <2>2. \A i : D!V(i)' = D!V(i)
    BY <1>1 DEF D!V
  <2>3. MasterHas
    BY DEF IInv
  <2> QED BY <1>1, <1>2, <2>1, <2>2, <2>3, Kept DEF MasterHas
<1>10. ASSUME NEW v \in Worker
       PROVE  /\ Between(Known, v, up'[v], ToGather(Known), Sends(Known, v)')
              /\ Between(Known, v, down'[v], Awaits(Known, v)', ToTell(Known))
  <2>1. CASE v = w
    BY <2>1
  <2>2. CASE v # w
    <3>1. /\ Between(Known, v, up[v], ToGather(Known), Sends(Known, v))
          /\ Between(Known, v, down[v], Awaits(Known, v), ToTell(Known))
      BY DEF IInv, Queues
    <3> QED BY <1>0, <1>4, <2>2, <3>1
  <2> QED BY <2>1, <2>2
<1>11. Queues'
  BY <1>2, <1>8, <1>10 DEF Queues
<1>12. (kind \in Kinds /\ oracle \in Oracles)'
  BY <1>1 DEF IInv, case
<1> QED BY <1>5, <1>6, <1>7, <1>9, <1>11, <1>12 DEF IInv

\* What a step of the master has to show.
LEMMA MasterFrame ==
  ASSUME IInv, Alone(0), {DOMAIN up', DOMAIN down'} = {Worker}, More(Known, Known'),
         InPlace(0)', HasTrees(0)', MasterHas',
         \A w \in Worker : Between(Known, w, up'[w], ToGather(Known)', Sends(Known, w)),
         \A w \in Worker : Between(Known', w, down'[w], Awaits(Known, w), ToTell(Known)')
  PROVE  IInv'
<1>0. 0 \in Party /\ 0 \notin Worker /\ Worker \subseteq Party /\ Party = {0} \cup Worker
  BY Sizes
<1>1. UNCHANGED case /\ (idx[0] # <<>> => idx'[0] = idx[0])
  BY DEF Alone, More, Known
<1>2. ASSUME NEW x \in Worker
      PROVE  /\ InPlace(x)' /\ HasTrees(x)' /\ WorkerHas(x)'
             /\ Sends(Known, x)' = Sends(Known, x) /\ Awaits(Known, x)' = Awaits(Known, x)
  <2>0. x \in Party \ {0}
    BY <1>0
  <2>1. /\ pc'[x] = pc[x] /\ round'[x] = round[x] /\ queries'[x] = queries[x] /\ beta'[x] = beta[x]
        /\ mt0s'[x] = mt0s[x] /\ local_mts'[x] = local_mts[x] /\ is_distributed'[x] = is_distributed[x]
        /\ idx'[x] = idx[x] /\ pending'[x] = pending[x]
    BY <2>0 DEF Alone
  <2>2. InPlace(x) /\ HasTrees(x) /\ WorkerHas(x)
    BY <2>0 DEF IInv
  <2> QED BY <1>1, <2>0, <2>1, <2>2, Same
<1>3. \A p \in Party : InPlace(p)' /\ HasTrees(p)'
  BY <1>0, <1>2
<1>4. Domains'
  BY DEF Domains, Alone
<1>5. \A w \in Worker : Between(Known', w, up'[w], ToGather(Known)', Sends(Known, w))
  BY Grows
<1>6. Queues'
  BY <1>2, <1>5 DEF Queues
<1>7. (kind \in Kinds /\ oracle \in Oracles)'
  BY <1>1 DEF IInv, case
<1> QED BY <1>2, <1>3, <1>4, <1>6, <1>7 DEF IInv

-----------------------------------------------------------------------------
(* The messages of a step.                                                 *)

\* The message that a worker receives is the one it awaits.
LEMMA Received ==
  ASSUME IInv, NEW w \in Worker, NEW call, Receive(w, call)
  PROVE  /\ pc[w] = call /\ Is(Known, w, Head(down[w]), Awaits(Known, w))
         /\ Between(Known, w, down'[w], After(Known, Awaits(Known, w)), ToTell(Known))
         /\ DOMAIN down' = Worker /\ \A v \in Worker \ {w} : down'[v] = down[v]
<1>1. Between(Known, w, down[w], Awaits(Known, w), ToTell(Known)) /\ DOMAIN down = Worker
  BY DEF IInv, Queues, Domains
<1>2. pc[w] = call /\ down[w] # <<>> /\ down' = [down EXCEPT ![w] = Tail(@)]
  BY DEF Receive, Arrived
<1>3. down'[w] = Tail(down[w]) /\ DOMAIN down' = Worker /\ \A v \in Worker \ {w} : down'[v] = down[v]
  BY <1>1, <1>2
<1> QED BY <1>1, <1>2, <1>3, Taken

\* It receives nothing.
LEMMA DownStays ==
  ASSUME IInv, NEW w \in Worker, UNCHANGED down
  PROVE  /\ DOMAIN down' = Worker /\ \A v \in Worker \ {w} : down'[v] = down[v]
         /\ Between(Known, w, down'[w], Awaits(Known, w), ToTell(Known))
BY DEF IInv, Queues, Domains

\* A worker sends to its own queue.
LEMMA SentUp ==
  ASSUME IInv, NEW w \in Worker, NEW msgs, SendsUp(w, msgs)
  PROVE  /\ DOMAIN up' = Worker /\ \A v \in Worker \ {w} : up'[v] = up[v]
         /\ up'[w] = up[w] \o msgs /\ Between(Known, w, up[w], ToGather(Known), Sends(Known, w))
<1>1. Between(Known, w, up[w], ToGather(Known), Sends(Known, w)) /\ DOMAIN up = Worker
  BY DEF IInv, Queues, Domains
<1> QED BY <1>1 DEF SendsUp

\* It sends the one message that is due.
LEMMA SentOne ==
  ASSUME IInv, NEW w \in Worker, NEW m, SendsUp(w, <<m>>), Is(Known, w, m, Sends(Known, w))
  PROVE  /\ DOMAIN up' = Worker /\ \A v \in Worker \ {w} : up'[v] = up[v]
         /\ Between(Known, w, up'[w], ToGather(Known), After(Known, Sends(Known, w)))
<1>1. /\ DOMAIN up' = Worker /\ \A v \in Worker \ {w} : up'[v] = up[v]
      /\ up'[w] = up[w] \o <<m>> /\ Between(Known, w, up[w], ToGather(Known), Sends(Known, w))
  BY SentUp
<1>2. Between(Known, w, up[w] \o <<m>>, ToGather(Known), After(Known, Sends(Known, w)))
  BY <1>1, Sent
<1> QED BY <1>1, <1>2

\* It sends nothing.
LEMMA UpStays ==
  ASSUME IInv, NEW w \in Worker, UNCHANGED up
  PROVE  /\ DOMAIN up' = Worker /\ \A v \in Worker \ {w} : up'[v] = up[v]
         /\ Between(Known, w, up'[w], ToGather(Known), Sends(Known, w))
BY DEF IInv, Queues, Domains

\* What the invariant says of a worker.
LEMMA WorkerFacts ==
  ASSUME IInv, NEW w \in Worker
  PROVE  /\ w \in Party /\ w # 0 /\ InPlace(w) /\ HasTrees(w) /\ WorkerHas(w) /\ OfParties
         /\ 0 \in Party /\ InPlace(0) /\ MasterHas
         /\ kind \in Kinds /\ oracle \in Oracles
<1>1. w \in Party /\ w # 0 /\ 0 \in Party
  BY Sizes
<1> QED BY <1>1 DEF IInv, Domains

-----------------------------------------------------------------------------
(* The trees of a party.                                                   *)

\* What the party keeps stays as it is.
LEMMA TreesStay ==
  ASSUME UNCHANGED case, NEW p, HasTrees(p), mt0s'[p] = mt0s[p], local_mts'[p] = local_mts[p],
         is_distributed'[p] = is_distributed[p], (D!IsExt /\ p # 0) \/ TreesOf(p, 0)' = TreesOf(p, 0),
         pc'[p] \in {"evals", "chunk", "sizes"} => pc[p] \in {"evals", "chunk", "sizes"},
         pc'[p] = "roots0" => pc[p] = "roots0", pc'[p] \notin Committing => pc[p] \notin Committing
  PROVE  HasTrees(p)'
BY Kept DEF HasTrees

\* One more tree, of the sizes of its level.
LEMMA NewTree ==
  ASSUME UNCHANGED case, kind \in Kinds, NEW p, HasTrees(p),
         IsSeq(mt0s'[p]), Len(mt0s'[p]) = D!ToCommit, \A k \in 1..Len(mt0s'[p]) : IsPart(mt0s'[p][k], 0),
         NEW t, NEW spread, local_mts'[p] = Append(local_mts[p], t),
         is_distributed'[p] = Append(is_distributed[p], spread),
         ~D!IsExt => IsTree(t, Len(local_mts[p]) + First(Known), spread), D!IsExt => p = 0,
         TreesOf(p, 0) + 1 = TreesOf(p, 0)', pc'[p] \notin Committing
  PROVE  HasTrees(p)'
<1> DEFINE old == local_mts[p]
           n == Len(old)
<1>1. /\ IsSeq(old) /\ IsSeq(is_distributed[p]) /\ n = TreesOf(p, 0) /\ n \in Nat /\ Len(is_distributed[p]) = n
      /\ ~D!IsExt => \A k \in 1..n : IsTree(old[k], k - 1 + First(Known), is_distributed[p][k])
  BY DEF HasTrees, Has, IsSeq
<1>2. /\ IsSeq(local_mts'[p]) /\ Len(local_mts'[p]) = n + 1 /\ local_mts'[p][n + 1] = t
      /\ \A k \in 1..n : local_mts'[p][k] = old[k]
  BY <1>1, IsAppend
<1>3. /\ IsSeq(is_distributed'[p]) /\ Len(is_distributed'[p]) = n + 1 /\ is_distributed'[p][n + 1] = spread
      /\ \A k \in 1..n : is_distributed'[p][k] = is_distributed[p][k]
  BY <1>1, IsAppend
<1> HIDE DEF old
<1>4. First(Known) \in Nat /\ n \in Nat /\ (n + 1) - 1 = n /\ \A k \in 1..(n + 1) : k \in 1..n \/ k = n + 1
  BY <1>1 DEF First
<1> HIDE DEF n
<1>5. ~D!IsExt => \A k \in 1..(n + 1) : IsTree(local_mts'[p][k], k - 1 + First(Known), is_distributed'[p][k])
  <2> SUFFICES ASSUME ~D!IsExt, NEW k \in 1..(n + 1)
               PROVE  IsTree(local_mts'[p][k], k - 1 + First(Known), is_distributed'[p][k])
    OBVIOUS
  <2>1. CASE k \in 1..n
    BY <1>1, <1>2, <1>3, <2>1
  <2>2. CASE k = n + 1
    BY <1>2, <1>3, <1>4, <2>2 DEF n, old
  <2> QED BY <1>4, <2>1, <2>2
<1>6. n + 1 = TreesOf(p, 0)'
  BY <1>1
<1> QED BY <1>2, <1>3, <1>5, <1>6, Kept DEF HasTrees, Has, Committing

-----------------------------------------------------------------------------
(* The steps of a worker.                                                  *)

\* The steps of a worker, one by one: it sends its evaluations,
LEMMA WorkerEvalsKeeps == ASSUME IInv, NEW w \in Worker, WorkerEvals(w) PROVE IInv'
<1> DEFINE k == Len(mt0s[w])
           m == Msg("elements", Evals(w))
<1>1. /\ pc[w] = "evals" /\ SendsUp(w, <<m>>) /\ Becomes(w, "chunk")
      /\ UNCHANGED <<case, loopVars, treeVars, keptVars, masterVars, down>>
  BY DEF WorkerEvals
<1>2. /\ w \in Party /\ w # 0 /\ InPlace(w) /\ HasTrees(w) /\ WorkerHas(w) /\ OfParties
      /\ 0 \in Party /\ InPlace(0) /\ MasterHas /\ kind \in Kinds /\ oracle \in Oracles
  BY WorkerFacts
<1>3. Alone(w) /\ pc'[w] = "chunk"
  BY <1>1, <1>2 DEF Alone, OfParties, Becomes, loopVars, treeVars, keptVars
<1>4. InPlace(w)' /\ HasTrees(w)' /\ WorkerHas(w)'
  <2>1. InPlace(w)'
    BY <1>1, <1>2, <1>3, Kept DEF InPlace, loopVars, Committing, Running, FoldCalls
  <2>2. TreesOf(w, 0)' = TreesOf(w, 0)
    BY <1>1, <1>3 DEF TreesOf, Committing
  <2>3. HasTrees(w)'
    BY <1>1, <1>2, <1>3, <2>2, TreesStay DEF treeVars, keptVars, Committing
  <2>4. WorkerHas(w)'
    BY <1>1, <1>2, <1>3 DEF WorkerHas, Expects
  <2> QED BY <2>1, <2>3, <2>4
<1>5. /\ Sends(Known, w) = <<"evals", k + 1, 0>> /\ Sends(Known, w)' = <<"root0", k + 1, 0>>
      /\ Awaits(Known, w)' = Awaits(Known, w)
  <2>1. Sends(Known, w) = <<"evals", k + 1, 0>>
    BY <1>1 DEF Sends, FoldCalls
  <2>2. Sends(Known, w)' = <<"root0", k + 1, 0>>
    BY <1>1, <1>3 DEF Sends, FoldCalls, keptVars
  <2>3. Awaits(Known, w)' = Awaits(Known, w)
    BY <1>1, <1>3 DEF Awaits, FoldCalls, keptVars
  <2> QED BY <2>1, <2>2, <2>3
<1>6. Is(Known, w, m, Sends(Known, w))
  BY <1>5 DEF Is, Says, TypeOf, Ups, Msg, End
<1> HIDE DEF m
<1>7. /\ DOMAIN up' = Worker /\ \A v \in Worker \ {w} : up'[v] = up[v]
      /\ Between(Known, w, up'[w], ToGather(Known), After(Known, Sends(Known, w)))
  BY <1>1, <1>6, SentOne
<1>8. After(Known, Sends(Known, w)) = Sends(Known, w)'
  BY <1>5, AfterUpIs
<1>9. /\ DOMAIN down' = Worker /\ \A v \in Worker \ {w} : down'[v] = down[v]
      /\ Between(Known, w, down'[w], Awaits(Known, w), ToTell(Known))
  BY <1>1, DownStays
<1> QED BY <1>1, <1>3, <1>4, <1>5, <1>7, <1>8, <1>9, WorkerFrame

\* takes its chunk of the codeword,
LEMMA WorkerChunkKeeps == ASSUME IInv, NEW w \in Worker, WorkerChunk(w) PROVE IInv'
<1> DEFINE k == Len(mt0s[w])
<1>1. /\ Receive(w, "chunk") /\ pending' = [pending EXCEPT ![w] = Incoming(w)] /\ Becomes(w, "sizes")
      /\ UNCHANGED <<case, loopVars, treeVars, mt0s, idx, masterVars, up>>
  BY DEF WorkerChunk
<1>2. /\ w \in Party /\ w # 0 /\ InPlace(w) /\ HasTrees(w) /\ WorkerHas(w) /\ OfParties
      /\ 0 \in Party /\ InPlace(0) /\ MasterHas /\ kind \in Kinds /\ oracle \in Oracles
  BY WorkerFacts
<1>3. /\ pc[w] = "chunk" /\ Is(Known, w, Head(down[w]), Awaits(Known, w))
      /\ Between(Known, w, down'[w], After(Known, Awaits(Known, w)), ToTell(Known))
      /\ DOMAIN down' = Worker /\ \A v \in Worker \ {w} : down'[v] = down[v]
  BY <1>1, Received
<1>4. Alone(w) /\ pc'[w] = "sizes"
  BY <1>1, <1>2 DEF Alone, OfParties, Becomes, loopVars, treeVars
<1>5. InPlace(w)' /\ HasTrees(w)' /\ WorkerHas(w)'
  <2>1. InPlace(w)'
    BY <1>1, <1>2, <1>3, <1>4, Kept DEF InPlace, loopVars, Committing, Running, FoldCalls
  <2>2. TreesOf(w, 0)' = TreesOf(w, 0)
    BY <1>1, <1>3, <1>4 DEF TreesOf, Committing
  <2>3. HasTrees(w)'
    BY <1>1, <1>2, <1>3, <1>4, <2>2, TreesStay DEF treeVars, Committing
  <2>4. WorkerHas(w)'
    BY <1>1, <1>2, <1>3, <1>4 DEF WorkerHas, Expects
  <2> QED BY <2>1, <2>3, <2>4
<1>6. /\ Awaits(Known, w) = <<"chunk", k + 1, 0>> /\ Awaits(Known, w)' = <<"sizes", k + 1, 0>>
      /\ Sends(Known, w)' = Sends(Known, w)
  <2>1. Awaits(Known, w) = <<"chunk", k + 1, 0>> /\ Awaits(Known, w)' = <<"sizes", k + 1, 0>>
    BY <1>1, <1>3, <1>4 DEF Awaits, FoldCalls
  <2>2. Sends(Known, w)' = Sends(Known, w)
    BY <1>1, <1>3, <1>4 DEF Sends, FoldCalls
  <2> QED BY <2>1, <2>2
<1>7. After(Known, Awaits(Known, w)) = Awaits(Known, w)'
  BY <1>6, AfterChunkIs
<1>8. /\ DOMAIN up' = Worker /\ \A v \in Worker \ {w} : up'[v] = up[v]
      /\ Between(Known, w, up'[w], ToGather(Known), Sends(Known, w))
  BY <1>1, UpStays
<1> QED BY <1>1, <1>3, <1>4, <1>5, <1>6, <1>7, <1>8, WorkerFrame

\* builds its tree and sends the root,
LEMMA WorkerSizesKeeps == ASSUME IInv, NEW w \in Worker, WorkerSizes(w) PROVE IInv'
<1> DEFINE old == mt0s[w]
           k == Len(old) + 1
           more == k < D!ToCommit
           t == ChunkTree(pending[w], Incoming(w)[1], Incoming(w)[2])
           m == Msg("digest", Root(t))
<1>1. /\ Receive(w, "sizes") /\ mt0s' = [mt0s EXCEPT ![w] = Append(@, t)] /\ SendsUp(w, <<m>>)
      /\ AfterCommit(w, k, t, "alpha")
      /\ UNCHANGED <<case, queries, beta, pending, idx, masterVars>>
  BY DEF WorkerSizes
<1>2. /\ w \in Party /\ w # 0 /\ InPlace(w) /\ HasTrees(w) /\ WorkerHas(w) /\ OfParties
      /\ 0 \in Party /\ InPlace(0) /\ MasterHas /\ kind \in Kinds /\ oracle \in Oracles
  BY WorkerFacts
<1>3. /\ pc[w] = "sizes" /\ Is(Known, w, Head(down[w]), Awaits(Known, w))
      /\ Between(Known, w, down'[w], After(Known, Awaits(Known, w)), ToTell(Known))
      /\ DOMAIN down' = Worker /\ \A v \in Worker \ {w} : down'[v] = down[v]
  BY <1>1, Received
<1>4. Awaits(Known, w) = <<"sizes", k, 0>> /\ Sends(Known, w) = <<"root0", k, 0>>
  BY <1>3 DEF Awaits, Sends, FoldCalls
<1>5. IsPart(t, 0)
  <2>1. Incoming(w) = <<CommitLeafSize, LeavesPerParty>>
    BY <1>3, <1>4 DEF Is, Says, Incoming
  <2>2. t = ChunkTree(pending[w], CommitLeafSize, LeavesPerParty)
    BY <2>1
  <2> QED BY <2>2, ChunkIsPart
<1> HIDE DEF t
<1>6. /\ IsSeq(old) /\ k \in Nat /\ k >= 1 /\ k =< D!ToCommit /\ D!ToCommit \in Nat
      /\ \A j \in 1..Len(old) : IsPart(old[j], 0)
  BY <1>2, <1>3, KindIs DEF HasTrees, IsSeq
<1>7. /\ mt0s'[w] = Append(old, t) /\ IsSeq(mt0s'[w]) /\ Len(mt0s'[w]) = k
      /\ \A j \in 1..Len(mt0s'[w]) : IsPart(mt0s'[w][j], 0)
  <2>1. mt0s'[w] = Append(old, t)
    BY <1>1, <1>2 DEF OfParties
  <2>2. /\ IsSeq(Append(old, t)) /\ Len(Append(old, t)) = Len(old) + 1
        /\ \A i \in 1..Len(old) : Append(old, t)[i] = old[i]
        /\ Append(old, t)[Len(old) + 1] = t
    BY <1>6, IsAppend
  <2>3. Len(old) \in Nat /\ \A j \in 1..(Len(old) + 1) : j \in 1..Len(old) \/ j = Len(old) + 1
    BY <1>6 DEF IsSeq
  <2> HIDE DEF old
  <2> QED BY <1>5, <1>6, <2>1, <2>2, <2>3 DEF k
<1> HIDE DEF old, k
<1>8. /\ pc' = [pc EXCEPT ![w] = IF more THEN "evals" ELSE IF D!IsBatch THEN "batch" ELSE "alpha"]
      /\ IF more THEN UNCHANGED <<round, treeVars>>
         ELSE /\ round' = [round EXCEPT ![w] = 1]
              /\ IF D!IsBatch THEN UNCHANGED treeVars ELSE KeepTree(w, t, TRUE)
  BY <1>1 DEF AfterCommit, Becomes
<1>9. /\ pc'[w] = IF more THEN "evals" ELSE IF D!IsBatch THEN "batch" ELSE "alpha"
      /\ round'[w] = IF more THEN round[w] ELSE 1
  BY <1>2, <1>8 DEF OfParties
<1>10. Alone(w)
  BY <1>1, <1>2, <1>8 DEF Alone, OfParties, treeVars, KeepTree
<1>11. InPlace(w)'
  <2>1. Mu \in Nat /\ Mu >= 1 /\ queries'[w] = queries[w]
    BY <1>1, Sizes
  <2> QED BY <1>1, <1>2, <1>3, <1>9, <2>1, Kept, KindIs DEF InPlace, Committing, Running, FoldCalls
<1>12. HasTrees(w)'
  <2>1. CASE more
    <3>1. pc'[w] = "evals" /\ UNCHANGED treeVars
      BY <1>8, <1>9, <2>1
    <3>2. TreesOf(w, 0)' = TreesOf(w, 0)
      BY <1>3, <3>1 DEF TreesOf, Committing
    <3>3. /\ UNCHANGED <<local_mts, is_distributed>> /\ D!ToCommit' = D!ToCommit
          /\ D!IsExt' = D!IsExt /\ First(Known)' = First(Known)
      BY <1>1, <3>1, Kept DEF treeVars
    <3>4. k < D!ToCommit'
      BY <2>1, <3>3
    <3> HIDE DEF more
    <3> QED BY <1>2, <1>6, <1>7, <3>1, <3>2, <3>3, <3>4 DEF HasTrees, Committing
  <2>2. CASE ~more
    <3>1. k = D!ToCommit /\ TreesOf(w, 0) = 0 /\ D!ToCommit' = D!ToCommit
      BY <1>1, <1>3, <1>6, <2>2, Kept DEF TreesOf, Committing
    <3>2. CASE D!IsBatch
      <4>1. pc'[w] = "batch" /\ round'[w] = 1 /\ UNCHANGED treeVars
        BY <1>8, <1>9, <2>2, <3>2
      <4>2. TreesOf(w, 0)' = 0
        <5>1. First(Known) = 1
          BY <1>2, <3>2, KindIs
        <5>2. First(Known)' = First(Known)
          BY <1>1, Kept
        <5> QED BY <4>1, <5>1, <5>2 DEF TreesOf, Committing, Running
      <4> QED BY <1>1, <1>2, <1>3, <1>7, <3>1, <4>1, <4>2, Kept DEF HasTrees, treeVars, Committing
    <3>3. CASE ~D!IsBatch
      <4>1. pc'[w] = "alpha" /\ round'[w] = 1 /\ KeepTree(w, t, TRUE)
        BY <1>8, <1>9, <2>2, <3>3
      <4>2. First(Known) = 0 /\ ~D!IsExt
        BY <1>2, <3>3, KindIs
      <4>3. TreesOf(w, 0)' = TreesOf(w, 0) + 1
        BY <1>1, <3>1, <4>1, <4>2, Kept DEF TreesOf, Committing, Running, FoldCalls
      <4>4. local_mts'[w] = Append(local_mts[w], t) /\ is_distributed'[w] = Append(is_distributed[w], TRUE)
        BY <1>2, <4>1 DEF KeepTree, OfParties
      <4>5. Len(local_mts[w]) + First(Known) = 0
        BY <1>2, <1>3, <3>1, <4>2 DEF HasTrees, Has
      <4>6. IsTree(t, Len(local_mts[w]) + First(Known), TRUE)
        BY <1>5, <4>5, FirstSpreads DEF IsTree
      <4> QED BY <1>1, <1>2, <1>7, <3>1, <4>1, <4>2, <4>3, <4>4, <4>6, NewTree DEF Committing
    <3> QED BY <3>2, <3>3
  <2> QED BY <2>1, <2>2
<1>13. WorkerHas(w)'
  BY <1>9 DEF WorkerHas, Expects
<1>14. After(Known, Sends(Known, w)) = Sends(Known, w)' /\ After(Known, Awaits(Known, w)) = Awaits(Known, w)'
  <2>1. /\ After(Known, <<"root0", k, 0>>) = IF more THEN <<"evals", k + 1, 0>>
                                              ELSE IF D!IsBatch THEN <<"batch", 1, 0>> ELSE FromRound(Known, 1)
    BY <1>2, KindIs, AfterUpIs
  <2>2. /\ After(Known, <<"sizes", k, 0>>) = IF more THEN <<"chunk", k + 1, 0>>
                                              ELSE IF D!IsExt THEN <<"broadcast", 0, 0>> ELSE <<"alpha", 1, 0>>
    BY <1>2, KindIs, AfterChunkIs
  <2>3. Sends(Known, w)' = IF more THEN <<"evals", k + 1, 0>>
                           ELSE IF D!IsBatch THEN <<"batch", 1, 0>> ELSE FromRound(Known, 1)
    BY <1>1, <1>7, <1>9, Kept DEF Sends, FoldCalls
  <2>4. Awaits(Known, w)' = IF more THEN <<"chunk", k + 1, 0>>
                            ELSE IF D!IsExt THEN <<"broadcast", 0, 0>> ELSE <<"alpha", 1, 0>>
    <3>1. (Ext(Known)' <=> D!IsExt) /\ (D!IsExt => D!IsBatch)
      BY <1>1, <1>2, Kept, KindIs
    <3> HIDE DEF more
    <3> QED BY <1>7, <1>9, <3>1 DEF Awaits, FoldCalls
  <2> QED BY <1>4, <2>1, <2>2, <2>3, <2>4
<1>15. Is(Known, w, m, Sends(Known, w))
  BY <1>4 DEF Is, Says, TypeOf, Ups, Msg, End
<1> HIDE DEF m
<1>16. /\ DOMAIN up' = Worker /\ \A v \in Worker \ {w} : up'[v] = up[v]
       /\ Between(Known, w, up'[w], ToGather(Known), After(Known, Sends(Known, w)))
  BY <1>1, <1>15, SentOne
<1> QED BY <1>1, <1>3, <1>10, <1>11, <1>12, <1>13, <1>14, <1>16, WorkerFrame

\* gives its part of the polynomials of a batch,
LEMMA WorkerBatchKeeps == ASSUME IInv, NEW w \in Worker, WorkerBatch(w) PROVE IInv'
<1> DEFINE n == Len(BatchOf)
           msgs == [k \in DOMAIN BatchOf |-> Msg("elements", PartOf(Tables[BatchOf[k]], w))]
           path == [j \in 1..(n + 1) |-> IF j =< n THEN <<"batch", j, 0>> ELSE FromRound(Known, 1)]
<1>1. /\ pc[w] = "batch" /\ SendsUp(w, msgs) /\ Becomes(w, IF D!IsExt THEN "broadcast" ELSE "alpha")
      /\ UNCHANGED <<case, loopVars, treeVars, keptVars, masterVars, down>>
  BY DEF WorkerBatch
<1>2. /\ w \in Party /\ w # 0 /\ InPlace(w) /\ HasTrees(w) /\ WorkerHas(w) /\ OfParties
      /\ 0 \in Party /\ InPlace(0) /\ MasterHas /\ kind \in Kinds /\ oracle \in Oracles
  BY WorkerFacts
<1>3. Alone(w) /\ pc'[w] = IF D!IsExt THEN "broadcast" ELSE "alpha"
  BY <1>1, <1>2 DEF Alone, OfParties, Becomes, loopVars, treeVars, keptVars
<1>4. round[w] = 1 /\ queries[w] = 0 /\ D!IsBatch /\ Mu \in Nat /\ Mu >= 1
  BY <1>1, <1>2, Sizes DEF InPlace, Running
<1>5. InPlace(w)' /\ HasTrees(w)' /\ WorkerHas(w)'
  <2>1. InPlace(w)'
    BY <1>1, <1>2, <1>3, <1>4, Kept DEF InPlace, loopVars, Committing, Running, FoldCalls
  <2>2. TreesOf(w, 0)' = TreesOf(w, 0)
    BY <1>1, <1>3, Kept DEF TreesOf, Committing, Running, FoldCalls, loopVars
  <2>3. HasTrees(w)'
    BY <1>1, <1>2, <1>3, <2>2, TreesStay DEF treeVars, keptVars, Committing
  <2>4. WorkerHas(w)'
    BY <1>1, <1>2, <1>3 DEF WorkerHas, Expects
  <2> QED BY <2>1, <2>3, <2>4
<1>6. /\ Sends(Known, w) = <<"batch", 1, 0>> /\ Sends(Known, w)' = FromRound(Known, 1)
      /\ Awaits(Known, w)' = Awaits(Known, w)
  <2>1. Sends(Known, w) = <<"batch", 1, 0>>
    BY <1>1 DEF Sends, FoldCalls
  <2>2. Sends(Known, w)' = FromRound(Known, 1)
    BY <1>1, <1>3, <1>4, Kept DEF Sends, FoldCalls, loopVars
  <2>3. Awaits(Known, w)' = Awaits(Known, w)
    BY <1>1, <1>2, <1>3, <1>4, Kept, KindIs DEF Awaits, FoldCalls, loopVars
  <2> QED BY <2>1, <2>2, <2>3
<1>7. n \in Nat /\ n >= 1 /\ DOMAIN BatchOf = 1..n
  BY Sizes DEF IsSeq
<1>8. IsSeq(msgs) /\ Len(msgs) = n /\ \A j \in 1..n : msgs[j].type = "elements"
  <2>1. \A j \in 1..n : msgs[j].type = "elements"
    BY <1>7 DEF Msg
  <2>2. msgs = [j \in 1..n |-> msgs[j]]
    BY <1>7
  <2> HIDE DEF msgs, n
  <2> QED BY <1>7, <2>1, <2>2, IsIndexed
<1> HIDE DEF msgs, n
<1>9. path[1] = <<"batch", 1, 0>> /\ path[n + 1] = FromRound(Known, 1)
  BY <1>7
<1>10. ASSUME NEW j \in 1..n
       PROVE  Is(Known, w, msgs[j], path[j]) /\ path[j + 1] = After(Known, path[j])
  <2>1. path[j] = <<"batch", j, 0>> /\ path[j + 1] = IF j < n THEN <<"batch", j + 1, 0>> ELSE FromRound(Known, 1)
    BY <1>7
  <2>2. After(Known, <<"batch", j, 0>>) = IF j < n THEN <<"batch", j + 1, 0>> ELSE FromRound(Known, 1)
    BY AfterUpIs DEF n
  <2>3. Is(Known, w, msgs[j], <<"batch", j, 0>>)
    BY <1>8 DEF Is, Says, TypeOf, Ups, End
  <2> HIDE DEF path
  <2> QED BY <2>1, <2>2, <2>3
<1> HIDE DEF path
<1>11. /\ DOMAIN up' = Worker /\ \A v \in Worker \ {w} : up'[v] = up[v]
       /\ up'[w] = up[w] \o msgs /\ Between(Known, w, up[w], ToGather(Known), Sends(Known, w))
  BY <1>1, SentUp
<1>12. Between(Known, w, up[w] \o msgs, ToGather(Known), path[n + 1])
  <2>1. path[1] = Sends(Known, w)
    BY <1>6, <1>9
  <2> QED BY <1>7, <1>8, <1>10, <1>11, <2>1, SentMany
<1>13. Between(Known, w, up'[w], ToGather(Known), Sends(Known, w)')
  BY <1>6, <1>9, <1>11, <1>12
<1>14. /\ DOMAIN down' = Worker /\ \A v \in Worker \ {w} : down'[v] = down[v]
       /\ Between(Known, w, down'[w], Awaits(Known, w), ToTell(Known))
  BY <1>1, DownStays
<1> QED BY <1>1, <1>3, <1>5, <1>6, <1>11, <1>13, <1>14, WorkerFrame

\* takes what it makes no use of,
LEMMA WorkerBroadcastKeeps == ASSUME IInv, NEW w \in Worker, WorkerBroadcast(w) PROVE IInv'
<1>1. /\ Receive(w, "broadcast") /\ Becomes(w, "alpha")
      /\ UNCHANGED <<case, loopVars, treeVars, keptVars, masterVars, up>>
  BY DEF WorkerBroadcast
<1>2. /\ w \in Party /\ w # 0 /\ InPlace(w) /\ HasTrees(w) /\ WorkerHas(w) /\ OfParties
      /\ 0 \in Party /\ InPlace(0) /\ MasterHas /\ kind \in Kinds /\ oracle \in Oracles
  BY WorkerFacts
<1>3. /\ pc[w] = "broadcast"
      /\ Between(Known, w, down'[w], After(Known, Awaits(Known, w)), ToTell(Known))
      /\ DOMAIN down' = Worker /\ \A v \in Worker \ {w} : down'[v] = down[v]
  BY <1>1, Received
<1>4. Alone(w) /\ pc'[w] = "alpha"
  BY <1>1, <1>2 DEF Alone, OfParties, Becomes, loopVars, treeVars, keptVars
<1>5. round[w] = 1 /\ Mu \in Nat /\ Mu >= 1
  BY <1>2, <1>3, Sizes DEF InPlace
<1>6. InPlace(w)' /\ HasTrees(w)' /\ WorkerHas(w)'
  <2>1. InPlace(w)'
    BY <1>1, <1>2, <1>3, <1>4, <1>5, Kept DEF InPlace, loopVars, Committing, Running, FoldCalls
  <2>2. TreesOf(w, 0)' = TreesOf(w, 0)
    BY <1>1, <1>3, <1>4, Kept DEF TreesOf, Committing, Running, FoldCalls, loopVars
  <2>3. HasTrees(w)'
    BY <1>1, <1>2, <1>3, <1>4, <2>2, TreesStay DEF treeVars, keptVars, Committing
  <2>4. WorkerHas(w)'
    BY <1>1, <1>2, <1>4 DEF WorkerHas, Expects
  <2> QED BY <2>1, <2>3, <2>4
<1>7. /\ Awaits(Known, w) = <<"broadcast", 0, 0>> /\ Awaits(Known, w)' = <<"alpha", 1, 0>>
      /\ Sends(Known, w)' = Sends(Known, w)
  <2>1. Awaits(Known, w) = <<"broadcast", 0, 0>>
    BY <1>3 DEF Awaits, FoldCalls
  <2>2. Awaits(Known, w)' = <<"alpha", 1, 0>>
    BY <1>1, <1>4, <1>5 DEF Awaits, FoldCalls, loopVars
  <2>3. Sends(Known, w)' = Sends(Known, w)
    BY <1>1, <1>3, <1>4, Kept DEF Sends, FoldCalls, loopVars
  <2> QED BY <2>1, <2>2, <2>3
<1>8. After(Known, <<"broadcast", 0, 0>>) = <<"alpha", 1, 0>>
  BY AfterChunkIs
<1>9. /\ DOMAIN up' = Worker /\ \A v \in Worker \ {w} : up'[v] = up[v]
      /\ Between(Known, w, up'[w], ToGather(Known), Sends(Known, w))
  BY <1>1, UpStays
<1> QED BY <1>1, <1>3, <1>4, <1>6, <1>7, <1>8, <1>9, WorkerFrame

\* takes the first challenge of a round,
LEMMA WorkerAlphaKeeps == ASSUME IInv, NEW w \in Worker, WorkerAlpha(w) PROVE IInv'
<1> DEFINE i == round[w]
<1>1. /\ Receive(w, "alpha") /\ Becomes(w, "r")
      /\ UNCHANGED <<case, loopVars, treeVars, keptVars, masterVars, up>>
  BY DEF WorkerAlpha
<1>2. /\ w \in Party /\ w # 0 /\ InPlace(w) /\ HasTrees(w) /\ WorkerHas(w) /\ OfParties
      /\ 0 \in Party /\ InPlace(0) /\ MasterHas /\ kind \in Kinds /\ oracle \in Oracles
  BY WorkerFacts
<1>3. /\ pc[w] = "alpha"
      /\ Between(Known, w, down'[w], After(Known, Awaits(Known, w)), ToTell(Known))
      /\ DOMAIN down' = Worker /\ \A v \in Worker \ {w} : down'[v] = down[v]
  BY <1>1, Received
<1>4. Alone(w) /\ pc'[w] = "r"
  BY <1>1, <1>2 DEF Alone, OfParties, Becomes, loopVars, treeVars, keptVars
<1>6. InPlace(w)' /\ HasTrees(w)' /\ WorkerHas(w)'
  <2>1. InPlace(w)'
    BY <1>1, <1>2, <1>3, <1>4, Kept DEF InPlace, loopVars, Committing, Running, FoldCalls
  <2>2. TreesOf(w, 0)' = TreesOf(w, 0)
    BY <1>1, <1>3, <1>4, Kept DEF TreesOf, Committing, Running, FoldCalls, loopVars
  <2>3. HasTrees(w)'
    BY <1>1, <1>2, <1>3, <1>4, <2>2, TreesStay DEF treeVars, keptVars, Committing
  <2>4. WorkerHas(w)'
    BY <1>4 DEF WorkerHas, Expects
  <2> QED BY <2>1, <2>3, <2>4
<1>7. /\ Awaits(Known, w) = <<"alpha", i, 0>> /\ Awaits(Known, w)' = <<"r", i, 0>>
      /\ Sends(Known, w)' = Sends(Known, w)
  <2>1. Awaits(Known, w) = <<"alpha", i, 0>>
    BY <1>3 DEF Awaits, FoldCalls
  <2>2. Awaits(Known, w)' = <<"r", i, 0>>
    BY <1>1, <1>4 DEF Awaits, FoldCalls, loopVars
  <2>3. Sends(Known, w)' = Sends(Known, w)
    BY <1>1, <1>3, <1>4, Kept DEF Sends, FoldCalls, loopVars
  <2> QED BY <2>1, <2>2, <2>3
<1>8. After(Known, <<"alpha", i, 0>>) = <<"r", i, 0>>
  BY AfterAlphaIs
<1>9. /\ DOMAIN up' = Worker /\ \A v \in Worker \ {w} : up'[v] = up[v]
      /\ Between(Known, w, up'[w], ToGather(Known), Sends(Known, w))
  BY <1>1, UpStays
<1> QED BY <1>1, <1>3, <1>4, <1>6, <1>7, <1>8, <1>9, WorkerFrame

\* takes the second, and goes to the flag or to the queries,
LEMMA WorkerRKeeps == ASSUME IInv, NEW w \in Worker, kind # "batch_ext", WorkerR(w) PROVE IInv'
<1> DEFINE i == round[w]
           last == i = Mu
<1>1. /\ Receive(w, "r") /\ Becomes(w, IF last THEN "beta" ELSE "flag")
      /\ UNCHANGED <<case, loopVars, treeVars, keptVars, masterVars, up>>
  BY DEF WorkerR
<1>2. /\ w \in Party /\ w # 0 /\ InPlace(w) /\ HasTrees(w) /\ WorkerHas(w) /\ OfParties
      /\ 0 \in Party /\ InPlace(0) /\ MasterHas /\ kind \in Kinds /\ oracle \in Oracles
  BY WorkerFacts
<1>3. /\ pc[w] = "r"
      /\ Between(Known, w, down'[w], After(Known, Awaits(Known, w)), ToTell(Known))
      /\ DOMAIN down' = Worker /\ \A v \in Worker \ {w} : down'[v] = down[v]
  BY <1>1, Received
<1>4. Alone(w) /\ pc'[w] = IF last THEN "beta" ELSE "flag"
  BY <1>1, <1>2 DEF Alone, OfParties, Becomes, loopVars, treeVars, keptVars
<1>5. /\ i \in 1..Mu /\ Mu \in Nat /\ S \in Nat /\ S >= 1 /\ queries[w] = 0
      /\ ~D!IsExt /\ ~Ext(Known) /\ (~last => i < Mu /\ i \in 1..(Mu - 1))
  <2>1. ~D!IsExt /\ ~Ext(Known)
    BY <1>2, KindIs
  <2> QED BY <1>2, <1>3, <2>1, Sizes DEF InPlace, Running, FoldCalls
<1>6. InPlace(w)' /\ HasTrees(w)' /\ WorkerHas(w)'
  <2>1. InPlace(w)'
    <3>1. round'[w] = i /\ queries'[w] = 0 /\ ~D!IsExt'
      BY <1>1, <1>5, Kept DEF loopVars
    <3>2. CASE last
      BY <1>4, <1>5, <3>1, <3>2 DEF InPlace, Committing, Running, FoldCalls
    <3>3. CASE ~last
      BY <1>4, <1>5, <3>1, <3>3 DEF InPlace, Committing, Running, FoldCalls
    <3> QED BY <3>2, <3>3
  <2>2. TreesOf(w, 0)' = TreesOf(w, 0)
    BY <1>1, <1>3, <1>4, <1>5, Kept DEF TreesOf, Committing, Running, FoldCalls, loopVars
  <2>3. HasTrees(w)'
    BY <1>1, <1>2, <1>3, <1>4, <2>2, TreesStay DEF treeVars, keptVars, Committing
  <2>4. WorkerHas(w)'
    BY <1>4 DEF WorkerHas, Expects
  <2> QED BY <2>1, <2>3, <2>4
<1>7. /\ Awaits(Known, w) = <<"r", i, 0>>
      /\ Awaits(Known, w)' = IF last THEN <<"beta", 0, 0>> ELSE <<"flag", i, 0>>
      /\ Sends(Known, w)' = Sends(Known, w)
  <2>1. Awaits(Known, w) = <<"r", i, 0>>
    BY <1>3 DEF Awaits, FoldCalls
  <2>2. Awaits(Known, w)' = IF last THEN <<"beta", 0, 0>> ELSE <<"flag", i, 0>>
    BY <1>1, <1>4, <1>5 DEF Awaits, FoldCalls, loopVars
  <2>3. Sends(Known, w)' = IF last THEN FromProof(Known, 0, First(Known)) ELSE FromRound(Known, i)
    BY <1>1, <1>4, <1>5, Kept DEF Sends, FoldCalls, loopVars
  <2>4. Sends(Known, w) = FromRound(Known, i)
    BY <1>3 DEF Sends, FoldCalls
  <2>5. FromRound(Known, Mu) = FromProof(Known, 0, First(Known))
    BY <1>5, RoundDue
  <2> QED BY <2>1, <2>2, <2>3, <2>4, <2>5
<1>8. After(Known, <<"r", i, 0>>) = IF last THEN <<"beta", 0, 0>> ELSE <<"flag", i, 0>>
  <2>1. After(Known, <<"r", i, 0>>) = IF i < Mu THEN <<"flag", i, 0>> ELSE <<"beta", 0, 0>>
    BY <1>5, AfterAlphaIs
  <2> QED BY ONLY <1>5, <2>1
<1>9. /\ DOMAIN up' = Worker /\ \A v \in Worker \ {w} : up'[v] = up[v]
      /\ Between(Known, w, up'[w], ToGather(Known), Sends(Known, w))
  BY <1>1, UpStays
<1> QED BY <1>1, <1>3, <1>4, <1>6, <1>7, <1>8, <1>9, WorkerFrame

\* at extension points to the next round or to the openings,
LEMMA WorkerRExtKeeps == ASSUME IInv, NEW w \in Worker, kind = "batch_ext", WorkerRExt(w) PROVE IInv'
<1> DEFINE i == round[w]
           last == i = Mu
<1>0. Receive(w, "r")
  BY DEF WorkerRExt
<1>2. /\ w \in Party /\ w # 0 /\ InPlace(w) /\ HasTrees(w) /\ WorkerHas(w) /\ OfParties
      /\ 0 \in Party /\ InPlace(0) /\ MasterHas /\ kind \in Kinds /\ oracle \in Oracles
  BY WorkerFacts
<1>3. /\ pc[w] = "r"
      /\ Between(Known, w, down'[w], After(Known, Awaits(Known, w)), ToTell(Known))
      /\ DOMAIN down' = Worker /\ \A v \in Worker \ {w} : down'[v] = down[v]
  BY <1>0, Received
<1>1. /\ IF last THEN Becomes(w, "idx") /\ UNCHANGED round
         ELSE Becomes(w, "alpha") /\ round' = [round EXCEPT ![w] = @ + 1]
      /\ UNCHANGED <<case, queries, beta, treeVars, keptVars, masterVars, up>>
  BY DEF WorkerRExt
<1>4. /\ Alone(w) /\ pc'[w] = IF last THEN "idx" ELSE "alpha"
      /\ round'[w] = IF last THEN i ELSE i + 1
  <2>1. CASE last
    BY <1>1, <1>2, <2>1 DEF Alone, OfParties, Becomes, treeVars, keptVars
  <2>2. CASE ~last
    BY <1>1, <1>2, <2>2 DEF Alone, OfParties, Becomes, treeVars, keptVars
  <2> QED BY <2>1, <2>2
<1>5. /\ i \in 1..Mu /\ Mu \in Nat /\ queries[w] = 0
      /\ D!IsExt /\ D!IsBatch /\ Ext(Known) /\ (~last => i < Mu /\ i + 1 \in 1..Mu)
  <2>1. D!IsExt /\ D!IsBatch /\ Ext(Known)
    BY <1>2, KindIs
  <2> QED BY <1>2, <1>3, <2>1, Sizes DEF InPlace, Running, FoldCalls
<1>6. InPlace(w)' /\ HasTrees(w)' /\ WorkerHas(w)'
  <2>1. InPlace(w)'
    <3>1. queries'[w] = 0 /\ D!IsExt' /\ D!IsBatch' /\ S \in Nat
      BY <1>1, <1>5, Kept, Sizes
    <3>2. CASE last
      BY <1>4, <1>5, <3>1, <3>2 DEF InPlace, Committing, Running, FoldCalls
    <3>3. CASE ~last
      BY <1>4, <1>5, <3>1, <3>3 DEF InPlace, Committing, Running, FoldCalls
    <3> QED BY <3>2, <3>3
  <2>3. HasTrees(w)'
    <3>1. pc'[w] \notin Committing /\ pc[w] \notin Committing
      BY <1>3, <1>4 DEF Committing
    <3>2. /\ UNCHANGED case /\ mt0s'[w] = mt0s[w] /\ local_mts'[w] = local_mts[w]
          /\ is_distributed'[w] = is_distributed[w]
      BY <1>1 DEF treeVars, keptVars
    <3>3. D!IsExt /\ w # 0
      BY <1>2, <1>5
    <3> QED BY <1>2, <3>1, <3>2, <3>3, TreesStay DEF Committing
  <2>4. WorkerHas(w)'
    BY <1>4 DEF WorkerHas, Expects
  <2> QED BY <2>1, <2>3, <2>4
<1>7. /\ Awaits(Known, w) = <<"r", i, 0>>
      /\ Awaits(Known, w)' = IF last THEN <<"idx", 0, 0>> ELSE <<"alpha", i + 1, 0>>
      /\ Sends(Known, w)' = Sends(Known, w)
  <2>1. Awaits(Known, w) = <<"r", i, 0>>
    BY <1>3 DEF Awaits, FoldCalls
  <2>2. Awaits(Known, w)' = IF last THEN <<"idx", 0, 0>> ELSE <<"alpha", i + 1, 0>>
    BY <1>4 DEF Awaits, FoldCalls
  <2>3. \A j : FromRound(Known, j) = <<"mt0", 0, 1>>
    BY <1>5 DEF FromRound
  <2>4. Sends(Known, w)' = <<"mt0", 0, 1>>
    BY <1>1, <1>4, <2>3, Kept DEF Sends, FoldCalls
  <2>5. Sends(Known, w) = <<"mt0", 0, 1>>
    BY <1>3, <2>3 DEF Sends, FoldCalls
  <2> QED BY <2>1, <2>2, <2>4, <2>5
<1>8. After(Known, <<"r", i, 0>>) = IF last THEN <<"idx", 0, 0>> ELSE <<"alpha", i + 1, 0>>
  <2>1. After(Known, <<"r", i, 0>>) = IF i < Mu THEN <<"alpha", i + 1, 0>> ELSE <<"idx", 0, 0>>
    BY <1>5, AfterAlphaIs
  <2> QED BY ONLY <1>5, <2>1
<1>9. /\ DOMAIN up' = Worker /\ \A v \in Worker \ {w} : up'[v] = up[v]
      /\ Between(Known, w, up'[w], ToGather(Known), Sends(Known, w))
  BY <1>1, UpStays
<1> QED BY <1>1, <1>3, <1>4, <1>6, <1>7, <1>8, <1>9, WorkerFrame

\* takes the flag: the leaves follow, or the tree is the master's alone,
LEMMA WorkerFlagKeeps == ASSUME IInv, NEW w \in Worker, WorkerFlag(w) PROVE IInv'
<1> DEFINE i == round[w]
           spread == Distributed(i)
<1>0. Receive(w, "flag") /\ UNCHANGED <<case, queries, beta, keptVars, masterVars, up>>
  BY DEF WorkerFlag
<1>2. /\ w \in Party /\ w # 0 /\ InPlace(w) /\ HasTrees(w) /\ WorkerHas(w) /\ OfParties
      /\ 0 \in Party /\ InPlace(0) /\ MasterHas /\ kind \in Kinds /\ oracle \in Oracles
  BY WorkerFacts
<1>3. /\ pc[w] = "flag" /\ Is(Known, w, Head(down[w]), Awaits(Known, w))
      /\ Between(Known, w, down'[w], After(Known, Awaits(Known, w)), ToTell(Known))
      /\ DOMAIN down' = Worker /\ \A v \in Worker \ {w} : down'[v] = down[v]
  BY <1>0, Received
<1>5. Awaits(Known, w) = <<"flag", i, 0>> /\ Sends(Known, w) = FromRound(Known, i)
  BY <1>3 DEF Awaits, Sends, FoldCalls
<1>1. IF spread THEN Becomes(w, "leaves") /\ UNCHANGED <<treeVars, round>>
      ELSE Becomes(w, "alpha") /\ KeepTree(w, Default, FALSE) /\ round' = [round EXCEPT ![w] = i + 1]
  <2>1. Incoming(w) = spread
    BY <1>3, <1>5 DEF Is, Says, Incoming
  <2>2. CASE spread
    BY <2>1, <2>2 DEF WorkerFlag
  <2>3. CASE ~spread
    BY <2>1, <2>3 DEF WorkerFlag
  <2> QED BY <2>2, <2>3
<1>10. /\ i \in 1..(Mu - 1) /\ Mu \in Nat /\ ~D!IsExt /\ ~Ext(Known) /\ queries[w] = 0
  <2>1. ~D!IsExt /\ i \in 1..(Mu - 1)
    BY <1>2, <1>3 DEF InPlace
  <2>2. ~Ext(Known)
    BY <1>2, <2>1, KindIs
  <2> QED BY <1>2, <1>3, <2>1, <2>2, Sizes DEF InPlace, Running, FoldCalls
<1>4. /\ Alone(w) /\ pc'[w] = (IF spread THEN "leaves" ELSE "alpha")
      /\ round'[w] = (IF spread THEN i ELSE i + 1)
  <2>1. CASE spread
    BY <1>0, <1>1, <1>2, <2>1 DEF Alone, OfParties, Becomes, treeVars, keptVars
  <2>2. CASE ~spread
    BY <1>0, <1>1, <1>2, <2>2 DEF Alone, OfParties, Becomes, KeepTree, keptVars
  <2> QED BY <2>1, <2>2
<1>6. InPlace(w)' /\ HasTrees(w)' /\ WorkerHas(w)'
  <2>1. InPlace(w)'
    <3>1. queries'[w] = 0 /\ ~D!IsExt' /\ S \in Nat /\ i + 1 \in 1..Mu
      BY <1>0, <1>10, Kept, Sizes
    <3>2. CASE spread
      BY <1>4, <1>10, <3>1, <3>2 DEF InPlace, Committing, Running, FoldCalls
    <3>3. CASE ~spread
      BY <1>4, <1>10, <3>1, <3>3 DEF InPlace, Committing, Running, FoldCalls
    <3> QED BY <3>2, <3>3
  <2>2. HasTrees(w)'
    <3>1. CASE spread
      <4>1. TreesOf(w, 0)' = TreesOf(w, 0)
        BY <1>0, <1>3, <1>4, <3>1, Kept DEF TreesOf, Committing, Running, FoldCalls
      <4> QED BY <1>0, <1>1, <1>2, <1>3, <1>4, <3>1, <4>1, TreesStay DEF treeVars, keptVars, Committing
    <3>2. CASE ~spread
      <4>1. TreesOf(w, 0) = (i - 1) + 1 - First(Known) /\ TreesOf(w, 0)' = i + 1 - First(Known)
        BY <1>0, <1>3, <1>4, <1>10, <3>2, Kept DEF TreesOf, Committing, Running, FoldCalls
      <4>2. First(Known) \in Nat
        BY DEF First
      <4>3. TreesOf(w, 0)' = TreesOf(w, 0) + 1 /\ TreesOf(w, 0) + First(Known) = i
        BY <1>10, <4>1, <4>2
      <4>4. local_mts'[w] = Append(local_mts[w], Default) /\ is_distributed'[w] = Append(is_distributed[w], FALSE)
        BY <1>1, <1>2, <3>2 DEF KeepTree, OfParties
      <4>5. Len(local_mts[w]) + First(Known) = i
        BY <1>2, <1>10, <4>3 DEF HasTrees, Has
      <4>6. IsTree(Default, i, FALSE)
        <5>1. i \in 0..(Mu - 1) /\ i \in 0..Mu
          BY <1>10
        <5>2. D!L(i) \in Nat /\ DEFAULT_LEAF_SIZE =< D!L(i)
          BY <5>1, Lengths
        <5>3. DEFAULT_LEAF_SIZE \in 1..D!L(i) /\ Default.leaf_size = DEFAULT_LEAF_SIZE
          BY <5>2, Sizes DEF Default
        <5> QED BY <3>2, <5>3 DEF IsTree
      <4>7. /\ IsSeq(mt0s'[w]) /\ Len(mt0s'[w]) = D!ToCommit
            /\ \A k \in 1..Len(mt0s'[w]) : IsPart(mt0s'[w][k], 0)
        BY <1>0, <1>2, <1>3 DEF HasTrees, keptVars, Committing
      <4>8. pc'[w] \notin Committing
        BY <1>4, <3>2 DEF Committing
      <4> QED BY <1>0, <1>2, <1>10, <4>3, <4>4, <4>5, <4>6, <4>7, <4>8, NewTree
    <3> QED BY <3>1, <3>2
  <2>3. WorkerHas(w)'
    BY <1>4 DEF WorkerHas, Expects
  <2> QED BY <2>1, <2>2, <2>3
<1>7. /\ Awaits(Known, w)' = (IF spread THEN <<"leaves", i, 0>> ELSE <<"alpha", i + 1, 0>>)
      /\ Sends(Known, w)' = Sends(Known, w)
  <2>1. Awaits(Known, w)' = (IF spread THEN <<"leaves", i, 0>> ELSE <<"alpha", i + 1, 0>>)
    BY <1>4 DEF Awaits, FoldCalls
  <2>2. Sends(Known, w)' = FromRound(Known, IF spread THEN i ELSE i + 1)
    BY <1>0, <1>4, Kept DEF Sends, FoldCalls
  <2>3. ~spread => FromRound(Known, i) = FromRound(Known, i + 1)
    BY <1>10, RoundDue
  <2> QED BY <1>5, <2>1, <2>2, <2>3
<1>8. After(Known, <<"flag", i, 0>>) = IF spread THEN <<"leaves", i, 0>> ELSE <<"alpha", i + 1, 0>>
  BY AfterAlphaIs
<1>9. /\ DOMAIN up' = Worker /\ \A v \in Worker \ {w} : up'[v] = up[v]
      /\ Between(Known, w, up'[w], ToGather(Known), Sends(Known, w))
  BY <1>0, UpStays
<1> QED BY <1>0, <1>3, <1>4, <1>5, <1>6, <1>7, <1>8, <1>9, WorkerFrame

\* takes its leaves,
LEMMA WorkerLeavesKeeps == ASSUME IInv, NEW w \in Worker, WorkerLeaves(w) PROVE IInv'
<1> DEFINE i == round[w]
<1>1. /\ Receive(w, "leaves") /\ pending' = [pending EXCEPT ![w] = Incoming(w)] /\ Becomes(w, "leaf_size")
      /\ UNCHANGED <<case, loopVars, treeVars, mt0s, idx, masterVars, up>>
  BY DEF WorkerLeaves
<1>2. /\ w \in Party /\ w # 0 /\ InPlace(w) /\ HasTrees(w) /\ WorkerHas(w) /\ OfParties
      /\ 0 \in Party /\ InPlace(0) /\ MasterHas /\ kind \in Kinds /\ oracle \in Oracles
  BY WorkerFacts
<1>3. /\ pc[w] = "leaves" /\ Is(Known, w, Head(down[w]), Awaits(Known, w))
      /\ Between(Known, w, down'[w], After(Known, Awaits(Known, w)), ToTell(Known))
      /\ DOMAIN down' = Worker /\ \A v \in Worker \ {w} : down'[v] = down[v]
  BY <1>1, Received
<1>4. Alone(w) /\ pc'[w] = "leaf_size" /\ pending'[w] = Incoming(w)
  BY <1>1, <1>2 DEF Alone, OfParties, Becomes, loopVars, treeVars
<1>5. Awaits(Known, w) = <<"leaves", i, 0>>
  BY <1>3 DEF Awaits, FoldCalls
<1>6. InPlace(w)' /\ HasTrees(w)' /\ WorkerHas(w)'
  <2>1. InPlace(w)'
    BY <1>1, <1>2, <1>3, <1>4, Kept DEF InPlace, loopVars, Committing, Running, FoldCalls
  <2>2. TreesOf(w, 0)' = TreesOf(w, 0)
    BY <1>1, <1>3, <1>4, Kept DEF TreesOf, Committing, Running, FoldCalls, loopVars
  <2>3. HasTrees(w)'
    BY <1>1, <1>2, <1>3, <1>4, <2>2, TreesStay DEF treeVars, Committing
  <2>4. Size(pending'[w]) = LeafCount(i) \div N /\ round'[w] = i
    BY <1>1, <1>3, <1>4, <1>5 DEF Is, Says, Incoming, loopVars
  <2>5. WorkerHas(w)'
    BY <1>4, <2>4 DEF WorkerHas, Expects
  <2> QED BY <2>1, <2>3, <2>5
<1>7. /\ Awaits(Known, w)' = <<"leaf_size", i, 0>> /\ Sends(Known, w)' = Sends(Known, w)
  <2>2. Awaits(Known, w)' = <<"leaf_size", i, 0>>
    BY <1>1, <1>4 DEF Awaits, FoldCalls, loopVars
  <2>3. Sends(Known, w)' = Sends(Known, w)
    BY <1>1, <1>3, <1>4, Kept DEF Sends, FoldCalls, loopVars
  <2> QED BY <2>2, <2>3
<1>8. After(Known, <<"leaves", i, 0>>) = <<"leaf_size", i, 0>>
  BY AfterAlphaIs
<1>9. /\ DOMAIN up' = Worker /\ \A v \in Worker \ {w} : up'[v] = up[v]
      /\ Between(Known, w, up'[w], ToGather(Known), Sends(Known, w))
  BY <1>1, UpStays
<1> QED BY <1>1, <1>3, <1>4, <1>5, <1>6, <1>7, <1>8, <1>9, WorkerFrame

\* builds the tree over them and sends the root,
LEMMA WorkerLeafSizeKeeps == ASSUME IInv, NEW w \in Worker, WorkerLeafSize(w) PROVE IInv'
<1> DEFINE i == round[w]
           t == WithLeafSize(pending[w], Incoming(w))
           m == Msg("digest", Root(t))
<1>1. /\ Receive(w, "leaf_size") /\ KeepTree(w, t, TRUE) /\ SendsUp(w, <<m>>)
      /\ round' = [round EXCEPT ![w] = @ + 1] /\ Becomes(w, "alpha")
      /\ UNCHANGED <<case, queries, beta, keptVars, masterVars>>
  BY DEF WorkerLeafSize
<1>2. /\ w \in Party /\ w # 0 /\ InPlace(w) /\ HasTrees(w) /\ WorkerHas(w) /\ OfParties
      /\ 0 \in Party /\ InPlace(0) /\ MasterHas /\ kind \in Kinds /\ oracle \in Oracles
  BY WorkerFacts
<1>3. /\ pc[w] = "leaf_size" /\ Is(Known, w, Head(down[w]), Awaits(Known, w))
      /\ Between(Known, w, down'[w], After(Known, Awaits(Known, w)), ToTell(Known))
      /\ DOMAIN down' = Worker /\ \A v \in Worker \ {w} : down'[v] = down[v]
  BY <1>1, Received
<1>4. Alone(w) /\ pc'[w] = "alpha" /\ round'[w] = i + 1
  BY <1>1, <1>2 DEF Alone, OfParties, Becomes, KeepTree, keptVars
<1>5. Awaits(Known, w) = <<"leaf_size", i, 0>> /\ Sends(Known, w) = FromRound(Known, i)
  BY <1>3 DEF Awaits, Sends, FoldCalls
<1>10. /\ i \in 1..(Mu - 1) /\ Mu \in Nat /\ ~D!IsExt /\ ~Ext(Known) /\ queries[w] = 0 /\ Distributed(i)
  <2>1. ~D!IsExt /\ i \in 1..(Mu - 1) /\ Distributed(i)
    BY <1>2, <1>3 DEF InPlace
  <2>2. ~Ext(Known)
    BY <1>2, <2>1, KindIs
  <2> QED BY <1>2, <1>3, <2>1, <2>2, Sizes DEF InPlace, Running, FoldCalls
<1>11. IsTree(t, i, TRUE)
  <2>1. Incoming(w) = LeafSizeOf(D!L(i)) /\ Size(pending[w]) = LeafCount(i) \div N
    BY <1>2, <1>3, <1>5 DEF Is, Says, Incoming, WorkerHas
  <2>2. i \in 0..Mu
    BY <1>10
  <2>3. IsPart(t, i)
    BY <1>10, <2>1, <2>2, BuildsPart
  <2> QED BY <1>10, <2>3 DEF IsTree
<1> HIDE DEF t
<1>6. InPlace(w)' /\ HasTrees(w)' /\ WorkerHas(w)'
  <2>1. InPlace(w)'
    <3>1. queries'[w] = 0 /\ ~D!IsExt' /\ S \in Nat /\ i + 1 \in 1..Mu
      BY <1>1, <1>10, Kept, Sizes
    <3> QED BY <1>4, <1>10, <3>1 DEF InPlace, Committing, Running, FoldCalls
  <2>2. HasTrees(w)'
    <3>1. TreesOf(w, 0) = (i - 1) + 1 - First(Known) /\ TreesOf(w, 0)' = i + 1 - First(Known)
      BY <1>1, <1>3, <1>4, <1>10, Kept DEF TreesOf, Committing, Running, FoldCalls
    <3>2. First(Known) \in Nat
      BY DEF First
    <3>3. TreesOf(w, 0)' = TreesOf(w, 0) + 1 /\ TreesOf(w, 0) + First(Known) = i
      BY <1>10, <3>1, <3>2
    <3>4. local_mts'[w] = Append(local_mts[w], t) /\ is_distributed'[w] = Append(is_distributed[w], TRUE)
      BY <1>1, <1>2 DEF KeepTree, OfParties
    <3>5. Len(local_mts[w]) + First(Known) = i
      BY <1>2, <1>10, <3>3 DEF HasTrees, Has
    <3>6. /\ IsSeq(mt0s'[w]) /\ Len(mt0s'[w]) = D!ToCommit
          /\ \A k \in 1..Len(mt0s'[w]) : IsPart(mt0s'[w][k], 0)
      BY <1>1, <1>2, <1>3 DEF HasTrees, keptVars, Committing
    <3>7. pc'[w] \notin Committing
      BY <1>4 DEF Committing
    <3> QED BY <1>1, <1>2, <1>10, <1>11, <3>3, <3>4, <3>5, <3>6, <3>7, NewTree
  <2>3. WorkerHas(w)'
    BY <1>4 DEF WorkerHas, Expects
  <2> QED BY <2>1, <2>2, <2>3
<1>7. /\ Awaits(Known, w)' = <<"alpha", i + 1, 0>> /\ Sends(Known, w)' = FromRound(Known, i + 1)
      /\ Sends(Known, w) = <<"root", i, 0>>
  <2>1. Awaits(Known, w)' = <<"alpha", i + 1, 0>>
    BY <1>4 DEF Awaits, FoldCalls
  <2>2. Sends(Known, w)' = FromRound(Known, i + 1)
    BY <1>1, <1>4, Kept DEF Sends, FoldCalls
  <2>3. FromRound(Known, i) = <<"root", i, 0>>
    BY <1>10, RoundDue
  <2> QED BY <1>5, <2>1, <2>2, <2>3
<1>8. /\ After(Known, <<"leaf_size", i, 0>>) = <<"alpha", i + 1, 0>>
      /\ After(Known, <<"root", i, 0>>) = FromRound(Known, i + 1)
  BY AfterAlphaIs, AfterUpIs
<1>9. Is(Known, w, m, Sends(Known, w))
  BY <1>7 DEF Is, Says, TypeOf, Ups, Msg, End
<1> HIDE DEF m
<1>12. /\ DOMAIN up' = Worker /\ \A v \in Worker \ {w} : up'[v] = up[v]
       /\ Between(Known, w, up'[w], ToGather(Known), After(Known, Sends(Known, w)))
  BY <1>1, <1>9, SentOne
<1> QED BY <1>1, <1>3, <1>4, <1>5, <1>6, <1>7, <1>8, <1>12, WorkerFrame

\* The positions that were asked for, when a worker makes a step.
LEMMA AskedStays ==
  ASSUME NEW w \in Worker, Alone(w), UNCHANGED masterVars
  PROVE  Asked' = Asked
<1>1. 0 \in Party \ {w}
  BY Sizes
<1>2. pc'[0] = pc[0] /\ beta'[0] = beta[0] /\ UNCHANGED <<proofs_for_t, mt_proofs>>
  BY <1>1 DEF Alone, masterVars, proofVars
<1> QED BY <1>2 DEF Asked

\* It takes a position,
LEMMA WorkerBetaKeeps == ASSUME IInv, NEW w \in Worker, WorkerBeta(w) PROVE IInv'
<1> DEFINE t == queries[w]
           b == Incoming(w)
<1>1. /\ Receive(w, "beta") /\ StartsQuery(w, b)
      /\ UNCHANGED <<case, queries, treeVars, keptVars, masterVars, up>>
  BY DEF WorkerBeta
<1>2. /\ w \in Party /\ w # 0 /\ InPlace(w) /\ HasTrees(w) /\ WorkerHas(w) /\ OfParties
      /\ 0 \in Party /\ InPlace(0) /\ MasterHas /\ kind \in Kinds /\ oracle \in Oracles
  BY WorkerFacts
<1>3. /\ pc[w] = "beta" /\ Is(Known, w, Head(down[w]), Awaits(Known, w))
      /\ Between(Known, w, down'[w], After(Known, Awaits(Known, w)), ToTell(Known))
      /\ DOMAIN down' = Worker /\ \A v \in Worker \ {w} : down'[v] = down[v]
  BY <1>1, Received
<1>4. /\ Alone(w) /\ pc'[w] = "prove" /\ round'[w] = (IF D!IsBatch THEN 1 ELSE 0)
      /\ beta'[w] = (IF D!IsBatch THEN D!NextBeta(0, b) ELSE b)
  BY <1>1, <1>2 DEF Alone, OfParties, Becomes, StartsQuery, treeVars, keptVars
<1>5. Awaits(Known, w) = <<"beta", t, 0>> /\ Sends(Known, w) = FromProof(Known, t, First(Known))
  BY <1>3 DEF Awaits, Sends, FoldCalls
<1>6. /\ round'[w] = First(Known) /\ First(Known) \in 0..(Mu - 1) /\ First(Known) \in Nat /\ Mu \in Nat
      /\ t < S /\ ~D!IsExt /\ t \in Nat
  <2>1. t < S /\ ~D!IsExt /\ t \in Nat
    BY <1>2, <1>3 DEF InPlace
  <2>2. First(Known) = (IF D!IsBatch THEN 1 ELSE 0) /\ First(Known) < Mu
    BY <1>2, <2>1, KindIs
  <2> QED BY <1>4, <2>1, <2>2, Sizes
<1>7. t + 1 \in 1..Len(Asked) /\ b = Asked[t + 1] /\ b \in 0..(LenL0 - 1)
  <2>1. AskedAt(Known, t, b)
    BY <1>3, <1>5 DEF Is, Says, Incoming
  <2>2. Known.asked = Asked /\ \A j \in 1..Len(Asked) : Asked[j] \in 0..(LenL0 - 1)
    BY <1>2, AskedIs DEF MasterHas
  <2> QED BY <2>1, <2>2 DEF AskedAt
<1>8. beta'[w] = b % D!L(round'[w])
  <2>1. b \in Nat /\ b % D!L(0) = b
    BY <1>7, FirstBeta
  <2>2. CASE D!IsBatch
    <3>1. 0 \in 0..(Mu - 1) /\ First(Known) = 1
      BY <1>4, <1>6, <2>2
    <3>2. D!NextBeta(0, b % D!L(0)) = b % D!L(0 + 1)
      BY <2>1, <3>1, NextBetaIs
    <3>3. round'[w] = 0 + 1 /\ beta'[w] = D!NextBeta(0, b)
      BY <1>4, <2>2
    <3> HIDE DEF b
    <3> QED BY <2>1, <3>2, <3>3
  <2>3. CASE ~D!IsBatch
    BY <1>4, <2>1, <2>3
  <2> QED BY <2>2, <2>3
<1> HIDE DEF b
<1>9. InPlace(w)' /\ HasTrees(w)' /\ WorkerHas(w)'
  <2>1. InPlace(w)'
    <3>1. queries'[w] = t /\ ~D!IsExt' /\ First(Known)' = First(Known) /\ S \in Nat
      BY <1>1, <1>6, Kept, Sizes
    <3>2. First(Known) \in First(Known)..(Mu - 1) /\ First(Known) \in 0..Mu /\ t \in 0..S
      BY <1>6, <3>1
    <3> QED BY <1>4, <1>6, <3>1, <3>2 DEF InPlace, Committing, Running, FoldCalls
  <2>2. TreesOf(w, 0)' = TreesOf(w, 0)
    BY <1>1, <1>3, <1>4, Kept DEF TreesOf, Committing, Running, FoldCalls
  <2>3. HasTrees(w)'
    BY <1>1, <1>2, <1>3, <1>4, <2>2, TreesStay DEF treeVars, keptVars, Committing
  <2>4. Asked' = Asked /\ queries'[w] = t
    BY <1>1, <1>4, AskedStays
  <2>5. WorkerHas(w)'
    <3> HIDE DEF t
    <3> QED BY <1>4, <1>7, <1>8, <2>4 DEF WorkerHas, Expects
  <2> QED BY <2>1, <2>3, <2>5
<1>10. /\ Awaits(Known, w)' = AfterDown(Known, <<"beta", t, 0>>) /\ Sends(Known, w)' = Sends(Known, w)
  <2>1. Awaits(Known, w)' = AfterDown(Known, <<"beta", t, 0>>)
    BY <1>1, <1>4, Kept DEF Awaits, FoldCalls
  <2>2. Sends(Known, w)' = FromProof(Known, t, First(Known))
    BY <1>1, <1>4, <1>6, Kept DEF Sends, FoldCalls
  <2> QED BY <1>5, <2>1, <2>2
<1>11. After(Known, <<"beta", t, 0>>) = AfterDown(Known, <<"beta", t, 0>>)
  BY DEF After, Ups
<1>12. /\ DOMAIN up' = Worker /\ \A v \in Worker \ {w} : up'[v] = up[v]
       /\ Between(Known, w, up'[w], ToGather(Known), Sends(Known, w))
  BY <1>1, UpStays
<1> QED BY <1>1, <1>3, <1>4, <1>5, <1>9, <1>10, <1>11, <1>12, WorkerFrame

\* The tree that a party opens: it is of its level.
LEMMA TreeAt ==
  ASSUME NEW p, InPlace(p), HasTrees(p), pc[p] = "prove", kind \in Kinds
  PROVE  /\ round[p] \in 0..(Mu - 1) /\ Mu \in Nat /\ First(Known) =< round[p] /\ First(Known) \in Nat
         /\ queries[p] \in Nat /\ queries[p] < S /\ S \in Nat /\ ~D!IsExt
         /\ First(Known) = (IF D!IsBatch THEN 1 ELSE 0)
         /\ Index(p) \in 1..Len(local_mts[p]) /\ Index(p) - 1 + First(Known) = round[p]
         /\ is_distributed[p][Index(p)] = Distributed(round[p])
         /\ IsTree(MyTree(p), round[p], Distributed(round[p]))
<1> DEFINE i == round[p]
           f == First(Known)
           k == Index(p)
<1>1. i \in f..(Mu - 1) /\ ~D!IsExt /\ queries[p] \in 0..S /\ queries[p] < S
  BY DEF InPlace
<1>2. f = (IF D!IsBatch THEN 1 ELSE 0) /\ f < Mu
  BY <1>1, KindIs
<1>3. f \in Nat /\ Mu \in Nat /\ S \in Nat /\ i \in 0..(Mu - 1) /\ f =< i
  BY <1>1, <1>2, Sizes
<1>4. TreesOf(p, 0) = Mu - f
  <2>1. TreesOf(p, 0) = (Mu - 1) + 1 - f
    BY DEF TreesOf, Committing, Running, FoldCalls
  <2> QED BY <1>3, <2>1
<1>5. k = i + 1 - f
  BY <1>2, <1>3 DEF Index
<1>6. /\ Len(local_mts[p]) = Mu - f
      /\ \A j \in 1..Len(local_mts[p]) : IsTree(local_mts[p][j], j - 1 + f, is_distributed[p][j])
  BY <1>1, <1>4 DEF HasTrees, Has
<1>7. k \in 1..Len(local_mts[p]) /\ k - 1 + f = i
  <2>1. Len(local_mts[p]) = Mu - f
    BY <1>6
  <2> HIDE DEF k, f, i
  <2> QED BY <1>3, <1>5, <2>1
<1>8. IsTree(MyTree(p), i, is_distributed[p][k])
  <2>1. IsTree(local_mts[p][k], k - 1 + f, is_distributed[p][k])
    BY <1>6, <1>7
  <2> QED BY <1>7, <2>1 DEF MyTree
<1>9. is_distributed[p][k] = Distributed(i)
  BY <1>8 DEF IsTree
<1> QED BY <1>1, <1>2, <1>3, <1>7, <1>8, <1>9

\* Party p is to prove position x of level i, which is spread.
SpreadAt(p, i, x) ==
  i = round[p] /\ Distributed(i) /\ IsTree(MyTree(p), i, TRUE) /\ beta[p] = x % D!L(i)

\* There every party works out the same owner.
LEMMA OwnerSame ==
  ASSUME NEW p, NEW i, NEW x, SpreadAt(p, i, x)
  PROVE  /\ Step(p) = LeafCount(i) /\ LocalBeta(p) = (x % D!L(i)) % LeafCount(i)
         /\ Owner(MyTree(p), LocalBeta(p)) = OwnerAt(x, i)
         /\ MyProof(p) = None <=> OwnerAt(x, i) # p
<1>1. MyTree(p).leaf_size = LeafSizeOf(D!L(i)) /\ NumLeaves(MyTree(p)) = LeafCount(i) \div N
  BY DEF SpreadAt, IsTree, IsPart
<1>2. Step(p) = LeafCount(i)
  BY <1>1 DEF SpreadAt, Step, LeafCount
<1>3. LocalBeta(p) = (x % D!L(i)) % LeafCount(i)
  BY <1>2 DEF SpreadAt, LocalBeta
<1>4. Owner(MyTree(p), LocalBeta(p)) = OwnerAt(x, i)
  BY <1>1, <1>3 DEF Owner, OwnerAt
<1>5. MyProof(p) = None <=> Owner(MyTree(p), LocalBeta(p)) # p
  <2>1. \A y : <<y>> # None
    BY DEF None
  <2> QED BY <2>1 DEF MyProof, LocalProof
<1> QED BY <1>2, <1>3, <1>4, <1>5

\* answers with a proof where the codeword is spread,
LEMMA WorkerProveKeeps == ASSUME IInv, NEW w \in Worker, WorkerProve(w) PROVE IInv'
<1> DEFINE t == queries[w]
           i == round[w]
           f == First(Known)
           x == Asked[t + 1]
           m == Msg("proof", MyProof(w))
           next == IF i + 1 < Mu THEN "prove" ELSE IF t + 1 < S THEN "beta" ELSE IF D!IsBatch THEN "idx" ELSE "done"
<1>1. /\ pc[w] = "prove" /\ JoinProof(w) /\ Proved(w, "beta")
      /\ UNCHANGED <<case, treeVars, keptVars, masterVars, down>>
  BY DEF WorkerProve, Proving
<1>2. /\ w \in Party /\ w # 0 /\ InPlace(w) /\ HasTrees(w) /\ WorkerHas(w) /\ OfParties
      /\ 0 \in Party /\ InPlace(0) /\ MasterHas /\ kind \in Kinds /\ oracle \in Oracles
  BY WorkerFacts
<1>3. /\ i \in 0..(Mu - 1) /\ Mu \in Nat /\ f =< i /\ f \in Nat
      /\ t \in Nat /\ t < S /\ S \in Nat /\ ~D!IsExt
      /\ f = (IF D!IsBatch THEN 1 ELSE 0)
      /\ is_distributed[w][Index(w)] = Distributed(i)
      /\ IsTree(MyTree(w), i, Distributed(i))
  BY <1>1, <1>2, TreeAt
<1>4. /\ Alone(w) /\ pc'[w] = next /\ round'[w] = i + 1 /\ beta'[w] = D!NextBeta(i, beta[w])
      /\ queries'[w] = IF i + 1 < Mu THEN t ELSE t + 1
  <2>1. Alone(w)
    BY <1>1, <1>2 DEF Alone, OfParties, Becomes, Proved, FoldBeta, treeVars, keptVars
  <2>2. round'[w] = i + 1 /\ beta'[w] = D!NextBeta(i, beta[w])
    BY <1>1, <1>2 DEF OfParties, Proved, FoldBeta
  <2>3. pc'[w] = next /\ queries'[w] = IF i + 1 < Mu THEN t ELSE t + 1
    BY <1>1, <1>2 DEF OfParties, Proved, Becomes
  <2> QED BY <2>1, <2>2, <2>3
<1>5. /\ t + 1 \in 1..Len(Asked) /\ beta[w] = x % D!L(i) /\ x \in 0..(LenL0 - 1) /\ Known.asked = Asked
      /\ Asked' = Asked
  <2>1. t + 1 \in 1..Len(Asked) /\ beta[w] = x % D!L(i)
    BY <1>1, <1>2 DEF WorkerHas
  <2>2. x \in 0..(LenL0 - 1)
    BY <1>2, <2>1 DEF MasterHas
  <2> QED BY <1>1, <1>2, <1>4, <2>1, <2>2, AskedIs, AskedStays
<1> HIDE DEF x
<1>6. beta'[w] = x % D!L(i + 1)
  <2>1. x \in Nat
    BY <1>5, FirstBeta
  <2> QED BY <1>3, <1>4, <1>5, <2>1, NextBetaIs
<1>7. InPlace(w)' /\ HasTrees(w)' /\ WorkerHas(w)'
  <2>1. f' = f /\ ~D!IsExt' /\ D!IsBatch' = D!IsBatch
    BY <1>1, <1>3, Kept
  <2> HIDE DEF f, t, i
  <2>2. InPlace(w)'
    <3>1. CASE i + 1 < Mu
      BY <1>3, <1>4, <2>1, <3>1 DEF InPlace, Committing, Running, FoldCalls, f
    <3>2. CASE ~(i + 1 < Mu) /\ t + 1 < S
      BY <1>3, <1>4, <2>1, <3>2 DEF InPlace, Committing, Running, FoldCalls
    <3>3. CASE ~(i + 1 < Mu) /\ ~(t + 1 < S)
      BY <1>3, <1>4, <2>1, <3>3 DEF InPlace, Committing, Running, FoldCalls
    <3> QED BY <3>1, <3>2, <3>3
  <2>3. pc'[w] \notin Committing \cup Running /\ pc[w] \notin Committing \cup Running
    BY <1>1, <1>4 DEF Committing, Running, FoldCalls
  <2>4. TreesOf(w, 0)' = TreesOf(w, 0)
    BY <2>1, <2>3 DEF TreesOf, f
  <2>5. HasTrees(w)'
    BY <1>1, <1>2, <2>3, <2>4, TreesStay DEF treeVars, keptVars, Committing
  <2>6. WorkerHas(w)'
    <3>1. CASE i + 1 < Mu
      BY <1>4, <1>5, <1>6, <3>1 DEF WorkerHas, Expects, t, x
    <3>2. CASE ~(i + 1 < Mu)
      BY <1>4, <3>2 DEF WorkerHas, Expects
    <3> QED BY <3>1, <3>2
  <2> QED BY <2>2, <2>5, <2>6
<1>8. FromProof(Known, t, i + 1) = Sends(Known, w)'
  <2>1. f < Mu
    BY <1>3
  <2>2. ~(i + 1 < Mu) => i + 1 = Mu
    BY <1>3
  <2>3. FromProof(Known, t, Mu) = IF t + 1 < S THEN FromProof(Known, t + 1, f)
                                  ELSE IF D!IsBatch THEN <<"mt0", 0, 1>> ELSE End
    BY <1>2, <1>3, <2>1, ProofDue, KindIs
  <2>4. Sends(Known, w)' = IF i + 1 < Mu THEN FromProof(Known, t, i + 1)
                           ELSE IF t + 1 < S THEN FromProof(Known, t + 1, f)
                           ELSE IF D!IsBatch THEN <<"mt0", 0, 1>> ELSE End
    BY <1>1, <1>4, Kept DEF Sends, FoldCalls
  <2> QED BY <2>2, <2>3, <2>4
<1>9. Awaits(Known, w)' = Awaits(Known, w)
  <2>1. Awaits(Known, w) = AfterDown(Known, <<"beta", t, 0>>)
    BY <1>1 DEF Awaits, FoldCalls
  <2>2. AfterDown(Known, <<"beta", t, 0>>) = IF t + 1 < S THEN <<"beta", t + 1, 0>>
                                            ELSE IF D!IsBatch THEN <<"idx", 0, 0>> ELSE End
    <3>1. Batch(Known) <=> D!IsBatch
      BY <1>2, KindIs
    <3> QED BY <3>1 DEF AfterDown
  <2>3. Awaits(Known, w)' = IF i + 1 < Mu THEN AfterDown(Known, <<"beta", t, 0>>)
                            ELSE IF t + 1 < S THEN <<"beta", t + 1, 0>>
                            ELSE IF D!IsBatch THEN <<"idx", 0, 0>> ELSE End
    BY <1>1, <1>4, Kept DEF Awaits, FoldCalls
  <2> QED BY <2>1, <2>2, <2>3
<1>10. Sends(Known, w) = FromProof(Known, t, i) /\ f < Mu
  BY <1>1, <1>3 DEF Sends, FoldCalls
<1>11. /\ DOMAIN up' = Worker /\ \A v \in Worker \ {w} : up'[v] = up[v]
       /\ Between(Known, w, up'[w], ToGather(Known), Sends(Known, w)')
  <2>1. CASE Distributed(i)
    <3>1. SendsUp(w, <<m>>)
      BY <1>1, <1>3, <2>1 DEF JoinProof
    <3>2. Sends(Known, w) = <<"proof", t, i>>
      BY <1>3, <1>10, <2>1, ProofDue
    <3>3. MyProof(w) = None <=> OwnerAt(x, i) # w
      <4>1. SpreadAt(w, i, x)
        BY <1>3, <1>5, <2>1 DEF SpreadAt
      <4> QED BY <4>1, OwnerSame
    <3>4. Is(Known, w, m, Sends(Known, w))
      BY <1>5, <3>2, <3>3 DEF Is, Says, Answers, TypeOf, Ups, Msg, End, x
    <3> HIDE DEF m
    <3>5. After(Known, <<"proof", t, i>>) = FromProof(Known, t, i + 1)
      BY AfterUpIs
    <3> QED BY <1>8, <3>1, <3>2, <3>4, <3>5, SentOne
  <2>2. CASE ~Distributed(i)
    <3>1. UNCHANGED up
      BY <1>1, <1>3, <2>2 DEF JoinProof
    <3>2. FromProof(Known, t, i) = FromProof(Known, t, i + 1)
      BY <1>3, <1>10, <2>2, ProofDue
    <3> QED BY <1>8, <1>10, <3>1, <3>2, UpStays
  <2> QED BY <2>1, <2>2
<1>12. /\ DOMAIN down' = Worker /\ \A v \in Worker \ {w} : down'[v] = down[v]
       /\ Between(Known, w, down'[w], Awaits(Known, w), ToTell(Known))
  BY <1>1, DownStays
<1> QED BY <1>1, <1>4, <1>7, <1>9, <1>11, <1>12, WorkerFrame

\* The tree of a commitment that is opened, and its owner.
LEMMA Mt0Is ==
  ASSUME NEW p, HasTrees(p), pc[p] \notin Committing, D!IsBatch, IsList(idx[p]), NEW x \in 0..(LenL0 - 1),
         NEW j \in 1..Len(idx[p])
  PROVE  /\ Owner(Mt0(p, j), LocalX0(p, j, x)) = OwnerAt(x, 0)
         /\ Mt0Proof(p, j, x) = None <=> OwnerAt(x, 0) # p
<1> DEFINE tree == Mt0(p, j)
<1>1. IsPart(tree, 0)
  <2>1. BatchOf[idx[p][j]] \in 1..Len(Tables)
    BY Sizes DEF IsList
  <2>2. Len(mt0s[p]) = Len(Tables)
    BY DEF HasTrees, D!ToCommit
  <2> QED BY <2>1, <2>2 DEF HasTrees, Mt0
<1>2. tree.leaf_size = LeafSizeOf(D!L(0)) /\ NumLeaves(tree) = LeafCount(0) \div N /\ D!L(0) = LenL0
  BY <1>1, Lengths DEF IsPart
<1> HIDE DEF tree
<1>3. LocalX0(p, j, x) = (x % D!L(0)) % LeafCount(0)
  <2>1. x % D!L(0) = x
    BY FirstBeta
  <2> QED BY <1>2, <2>1 DEF LocalX0, LeafCount, tree
<1>4. Owner(tree, LocalX0(p, j, x)) = OwnerAt(x, 0)
  BY <1>2, <1>3 DEF Owner, OwnerAt
<1>5. Mt0Proof(p, j, x) = None <=> Owner(tree, LocalX0(p, j, x)) # p
  <2>1. \A y : <<y>> # None
    BY DEF None
  <2> QED BY <2>1 DEF Mt0Proof, LocalProof, tree
<1> QED BY <1>4, <1>5 DEF tree

\* takes the list of what is opened in the commitments,
LEMMA WorkerIdxKeeps == ASSUME IInv, NEW w \in Worker, WorkerIdx(w) PROVE IInv'
<1>1. /\ Receive(w, "idx") /\ StartsOpenings(w, Incoming(w))
      /\ UNCHANGED <<case, round, beta, treeVars, mt0s, pending, masterVars, up>>
  BY DEF WorkerIdx
<1>2. /\ w \in Party /\ w # 0 /\ InPlace(w) /\ HasTrees(w) /\ WorkerHas(w) /\ OfParties
      /\ 0 \in Party /\ InPlace(0) /\ MasterHas /\ kind \in Kinds /\ oracle \in Oracles
  BY WorkerFacts
<1>3. /\ pc[w] = "idx" /\ Is(Known, w, Head(down[w]), Awaits(Known, w))
      /\ Between(Known, w, down'[w], After(Known, Awaits(Known, w)), ToTell(Known))
      /\ DOMAIN down' = Worker /\ \A v \in Worker \ {w} : down'[v] = down[v]
  BY <1>1, Received
<1>4. Alone(w) /\ pc'[w] = "x0" /\ queries'[w] = 0 /\ idx'[w] = Incoming(w)
  BY <1>1, <1>2 DEF Alone, OfParties, Becomes, StartsOpenings, treeVars
<1>5. Awaits(Known, w) = <<"idx", 0, 0>> /\ Sends(Known, w) = <<"mt0", 0, 1>>
  BY <1>3 DEF Awaits, Sends, FoldCalls
<1>6. Incoming(w) = idx[0] /\ idx[0] # <<>> /\ idx'[0] = idx[0]
  <2>1. idx'[0] = idx[0]
    BY <1>2, <1>4 DEF Alone
  <2> QED BY <1>3, <1>5, <2>1 DEF Is, Says, Incoming, Known
<1>7. InPlace(w)' /\ HasTrees(w)' /\ WorkerHas(w)'
  <2>1. InPlace(w)'
    <3>1. D!IsBatch /\ S \in Nat /\ S >= 1 /\ round[w] \in 0..Mu
      BY <1>2, <1>3, Sizes DEF InPlace
    <3> QED BY <1>1, <1>4, <3>1, Kept DEF InPlace, Committing, Running, FoldCalls
  <2>2. TreesOf(w, 0)' = TreesOf(w, 0)
    BY <1>1, <1>3, <1>4, Kept DEF TreesOf, Committing, Running, FoldCalls
  <2>3. HasTrees(w)'
    BY <1>1, <1>2, <1>3, <1>4, <2>2, TreesStay DEF treeVars, Committing
  <2>4. WorkerHas(w)'
    BY <1>4, <1>6 DEF WorkerHas, Expects
  <2> QED BY <2>1, <2>3, <2>4
<1>8. /\ Awaits(Known, w)' = <<"x0", 0, 0>> /\ Sends(Known, w)' = <<"mt0", 0, 1>>
  <2>1. Awaits(Known, w)' = <<"x0", 0, 0>>
    BY <1>4 DEF Awaits, FoldCalls
  <2>2. Sends(Known, w)' = <<"mt0", 0, 1>>
    BY <1>4 DEF Sends, FoldCalls
  <2> QED BY <2>1, <2>2
<1>9. After(Known, <<"idx", 0, 0>>) = <<"x0", 0, 0>>
  BY AfterBetaIs
<1>10. /\ DOMAIN up' = Worker /\ \A v \in Worker \ {w} : up'[v] = up[v]
       /\ Between(Known, w, up'[w], ToGather(Known), Sends(Known, w))
  BY <1>1, UpStays
<1> QED BY <1>1, <1>3, <1>4, <1>5, <1>7, <1>8, <1>9, <1>10, WorkerFrame

\* and opens each of the list.
LEMMA WorkerX0Keeps == ASSUME IInv, NEW w \in Worker, WorkerX0(w) PROVE IInv'
<1> DEFINE t == queries[w]
           x == Incoming(w)
           n == Len(idx[w])
           msgs == [j \in DOMAIN idx[w] |-> Msg("proof", Mt0Proof(w, j, x))]
           then == IF t + 1 < S THEN <<"mt0", t + 1, 1>> ELSE End
           path == [j \in 1..(n + 1) |-> IF j =< n THEN <<"mt0", t, j>> ELSE then]
<1>1. /\ Receive(w, "x0") /\ SendsUp(w, msgs) /\ NextOpening(w)
      /\ UNCHANGED <<case, round, beta, treeVars, keptVars, masterVars>>
  BY DEF WorkerX0
<1>2. /\ w \in Party /\ w # 0 /\ InPlace(w) /\ HasTrees(w) /\ WorkerHas(w) /\ OfParties
      /\ 0 \in Party /\ InPlace(0) /\ MasterHas /\ kind \in Kinds /\ oracle \in Oracles
  BY WorkerFacts
<1>3. /\ pc[w] = "x0" /\ Is(Known, w, Head(down[w]), Awaits(Known, w))
      /\ Between(Known, w, down'[w], After(Known, Awaits(Known, w)), ToTell(Known))
      /\ DOMAIN down' = Worker /\ \A v \in Worker \ {w} : down'[v] = down[v]
  BY <1>1, Received
<1>4. Alone(w) /\ pc'[w] = (IF t + 1 < S THEN "x0" ELSE "done") /\ queries'[w] = t + 1
  BY <1>1, <1>2 DEF Alone, OfParties, Becomes, NextOpening, treeVars, keptVars
<1>5. Awaits(Known, w) = <<"x0", t, 0>> /\ Sends(Known, w) = <<"mt0", t, 1>>
  BY <1>3 DEF Awaits, Sends, FoldCalls
<1>6. t \in Nat /\ t < S /\ S \in Nat /\ D!IsBatch /\ t + 1 \in 0..S /\ round[w] \in 0..Mu
  BY <1>2, <1>3, Sizes DEF InPlace
<1>7. idx[w] = idx[0] /\ IsList(idx[w]) /\ Known.idx = idx[w]
  <2>1. idx[0] # <<>> /\ idx[w] = idx[0]
    BY <1>2, <1>3 DEF WorkerHas
  <2>2. IsList(idx[0])
    BY <1>2, <2>1 DEF MasterHas
  <2> QED BY <2>1, <2>2 DEF Known
<1>8. t + 1 \in 1..Len(Asked) /\ x = Asked[t + 1] /\ x \in 0..(LenL0 - 1) /\ Known.asked = Asked
  <2>1. AskedAt(Known, t, x)
    BY <1>3, <1>5 DEF Is, Says, Incoming
  <2>2. Known.asked = Asked /\ \A j \in 1..Len(Asked) : Asked[j] \in 0..(LenL0 - 1)
    BY <1>2, AskedIs DEF MasterHas
  <2> QED BY <2>1, <2>2 DEF AskedAt
<1> HIDE DEF x
<1>9. InPlace(w)' /\ HasTrees(w)' /\ WorkerHas(w)'
  <2>1. InPlace(w)'
    <3> HIDE DEF t
    <3> QED BY <1>1, <1>4, <1>6, Kept DEF InPlace, Committing, Running, FoldCalls
  <2>2. TreesOf(w, 0)' = TreesOf(w, 0)
    BY <1>1, <1>3, <1>4, Kept DEF TreesOf, Committing, Running, FoldCalls
  <2>3. HasTrees(w)'
    BY <1>1, <1>2, <1>3, <1>4, <2>2, TreesStay DEF treeVars, keptVars, Committing
  <2>4. idx'[w] = idx[w] /\ idx'[0] = idx[0] /\ idx[0] # <<>>
    BY <1>1, <1>2, <1>3 DEF keptVars, WorkerHas
  <2>5. WorkerHas(w)'
    BY <1>4, <1>7, <2>4 DEF WorkerHas, Expects
  <2> QED BY <2>1, <2>3, <2>5
<1>10. /\ Awaits(Known, w)' = (IF t + 1 < S THEN <<"x0", t + 1, 0>> ELSE End) /\ Sends(Known, w)' = then
  <2>1. Awaits(Known, w)' = (IF t + 1 < S THEN <<"x0", t + 1, 0>> ELSE End)
    BY <1>4 DEF Awaits, FoldCalls
  <2>2. Sends(Known, w)' = then
    BY <1>4 DEF Sends, FoldCalls
  <2> QED BY <2>1, <2>2
<1>11. After(Known, <<"x0", t, 0>>) = (IF t + 1 < S THEN <<"x0", t + 1, 0>> ELSE End)
  BY AfterBetaIs
<1>12. n \in Nat /\ n >= 1 /\ DOMAIN idx[w] = 1..n
  <2>1. IsSeq(idx[w]) /\ idx[w] # <<>>
    BY <1>7 DEF IsList
  <2> QED BY <2>1, IsTail DEF IsSeq
<1>13. IsSeq(msgs) /\ Len(msgs) = n /\ \A j \in 1..n : msgs[j].type = "proof" /\ msgs[j].val = Mt0Proof(w, j, x)
  <2>1. \A j \in 1..n : msgs[j].type = "proof" /\ msgs[j].val = Mt0Proof(w, j, x)
    BY <1>12 DEF Msg
  <2>2. msgs = [j \in 1..n |-> msgs[j]]
    BY <1>12
  <2> HIDE DEF msgs, n
  <2> QED BY <1>12, <2>1, <2>2, IsIndexed
<1> HIDE DEF msgs, then
<1>14. ASSUME NEW j \in 1..n PROVE Is(Known, w, msgs[j], <<"mt0", t, j>>)
  <2>1. pc[w] \notin Committing
    BY <1>3 DEF Committing
  <2>2. Mt0Proof(w, j, x) = None <=> OwnerAt(x, 0) # w
    BY <1>2, <1>6, <1>7, <1>8, <2>1, Mt0Is
  <2>3. Answers(Known, w, t, 0, msgs[j].val)
    BY <1>8, <1>13, <2>2 DEF Answers
  <2>4. Known.idx # <<>>
    BY <1>7 DEF IsList
  <2> QED BY <1>13, <2>3, <2>4 DEF Is, Says, TypeOf, Ups, End
<1>15. ASSUME NEW j \in 1..n
       PROVE  After(Known, <<"mt0", t, j>>) = IF j < n THEN <<"mt0", t, j + 1>> ELSE then
  <2>1. After(Known, <<"mt0", t, j>>) = IF j < Len(Known.idx) THEN <<"mt0", t, j + 1>>
                                       ELSE IF t + 1 < S THEN <<"mt0", t + 1, 1>> ELSE End
    BY AfterUpIs
  <2> QED BY <1>7, <2>1 DEF then
<1> HIDE DEF n
<1>16. path[1] = <<"mt0", t, 1>> /\ path[n + 1] = then
  BY <1>12
<1>17. ASSUME NEW j \in 1..n
       PROVE  Is(Known, w, msgs[j], path[j]) /\ path[j + 1] = After(Known, path[j])
  <2>1. path[j] = <<"mt0", t, j>> /\ path[j + 1] = IF j < n THEN <<"mt0", t, j + 1>> ELSE then
    BY <1>12
  <2> HIDE DEF path
  <2> QED BY <1>14, <1>15, <2>1
<1> HIDE DEF path
<1>18. /\ DOMAIN up' = Worker /\ \A v \in Worker \ {w} : up'[v] = up[v]
       /\ up'[w] = up[w] \o msgs /\ Between(Known, w, up[w], ToGather(Known), Sends(Known, w))
  BY <1>1, SentUp
<1>19. Between(Known, w, up[w] \o msgs, ToGather(Known), path[n + 1])
  <2>1. path[1] = Sends(Known, w)
    BY <1>5, <1>16
  <2> QED BY <1>12, <1>13, <1>17, <1>18, <2>1, SentMany
<1>20. Between(Known, w, up'[w], ToGather(Known), Sends(Known, w)')
  BY <1>10, <1>16, <1>18, <1>19
<1> QED BY <1>1, <1>3, <1>4, <1>5, <1>9, <1>10, <1>11, <1>18, <1>20, WorkerFrame

-----------------------------------------------------------------------------
(* The messages of a step of the master.                                   *)

\* What the invariant says of the master.
LEMMA MasterFacts ==
  ASSUME IInv
  PROVE  /\ 0 \in Party /\ InPlace(0) /\ HasTrees(0) /\ MasterHas /\ OfParties
         /\ DOMAIN up = Worker /\ DOMAIN down = Worker /\ kind \in Kinds /\ oracle \in Oracles
BY Sizes DEF IInv, Domains

\* Gathers take from every worker the messages that are due.
LEMMA MasterTakes ==
  ASSUME IInv, NEW n \in Nat, NEW type, Gathers(n, type), NEW path, path[1] = ToGather(Known),
         \A i \in 1..n : path[i + 1] = After(Known, path[i])
  PROVE  /\ DOMAIN up' = Worker
         /\ \A w \in Worker : /\ \A i \in 1..n : Is(Known, w, up[w][i], path[i])
                              /\ Between(Known, w, up'[w], path[n + 1], Sends(Known, w))
<1>1. up' = [w \in Worker |-> SubSeq(up[w], n + 1, Len(up[w]))] /\ \A w \in Worker : Len(up[w]) >= n
  BY DEF Gathers, CanGather, Pop
<1>2. ASSUME NEW w \in Worker
      PROVE  /\ \A i \in 1..n : Is(Known, w, up[w][i], path[i])
             /\ Between(Known, w, SubSeq(up[w], n + 1, Len(up[w])), path[n + 1], Sends(Known, w))
  <2>1. Between(Known, w, up[w], ToGather(Known), Sends(Known, w)) /\ Len(up[w]) >= n
    BY <1>1 DEF IInv, Queues
  <2> QED BY <2>1, TakenMany
<1>3. DOMAIN up' = Worker /\ \A w \in Worker : up'[w] = SubSeq(up[w], n + 1, Len(up[w]))
  BY <1>1
<1> QED BY <1>2, <1>3

\* A single gather.
LEMMA MasterTakesOne ==
  ASSUME IInv, NEW type, Gathers(1, type)
  PROVE  /\ DOMAIN up' = Worker
         /\ \A w \in Worker : /\ Is(Known, w, up[w][1], ToGather(Known))
                              /\ Between(Known, w, up'[w], After(Known, ToGather(Known)), Sends(Known, w))
<1> DEFINE path == [i \in 1..2 |-> IF i = 1 THEN ToGather(Known) ELSE After(Known, ToGather(Known))]
<1>1. path[1] = ToGather(Known) /\ path[1 + 1] = After(Known, path[1])
  OBVIOUS
<1> HIDE DEF path
<1>2. \A i \in 1..1 : path[i + 1] = After(Known, path[i])
  BY <1>1
<1>3. /\ DOMAIN up' = Worker
      /\ \A w \in Worker : /\ \A i \in 1..1 : Is(Known, w, up[w][i], path[i])
                           /\ Between(Known, w, up'[w], path[1 + 1], Sends(Known, w))
  BY <1>1, <1>2, MasterTakes
<1>4. 1 \in 1..1
  OBVIOUS
<1> QED BY <1>1, <1>3, <1>4

\* Nothing is gathered.
LEMMA UpAllStay ==
  ASSUME IInv, UNCHANGED up
  PROVE  DOMAIN up' = Worker /\ \A w \in Worker : Between(Known, w, up'[w], ToGather(Known), Sends(Known, w))
BY DEF IInv, Queues, Domains

\* Nothing is told.
LEMMA DownAllStay ==
  ASSUME IInv, UNCHANGED down, More(Known, Known')
  PROVE  /\ DOMAIN down' = Worker
         /\ \A w \in Worker : Between(Known', w, down'[w], Awaits(Known, w), ToTell(Known))
<1>1. \A w \in Worker : Between(Known, w, down[w], Awaits(Known, w), ToTell(Known))
  BY DEF IInv, Queues
<1>2. \A w \in Worker : Between(Known', w, down[w], Awaits(Known, w), ToTell(Known))
  BY <1>1, Grows
<1> QED BY <1>2 DEF IInv, Domains

\* Messages are told to every worker, the ones that are due.
LEMMA MasterTells ==
  ASSUME IInv, More(Known, Known'), NEW msgs, SendDown(msgs), NEW n \in Nat, NEW path, path[1] = ToTell(Known),
         \A w \in Worker : IsSeq(msgs[w]) /\ Len(msgs[w]) = n,
         \A w \in Worker : \A i \in 1..n : Is(Known', w, msgs[w][i], path[i]),
         \A i \in 1..n : path[i + 1] = After(Known', path[i])
  PROVE  /\ DOMAIN down' = Worker
         /\ \A w \in Worker : Between(Known', w, down'[w], Awaits(Known, w), path[n + 1])
<1>1. \A w \in Worker : Between(Known, w, down[w], Awaits(Known, w), ToTell(Known))
  BY DEF IInv, Queues
<1>2. \A w \in Worker : Between(Known', w, down[w], Awaits(Known, w), ToTell(Known))
  BY <1>1, Grows
<1>3. ASSUME NEW w \in Worker
      PROVE  Between(Known', w, down[w] \o msgs[w], Awaits(Known, w), path[n + 1])
  <2>1. /\ Between(Known', w, down[w], Awaits(Known, w), ToTell(Known))
        /\ IsSeq(msgs[w]) /\ Len(msgs[w]) = n
        /\ \A i \in 1..n : Is(Known', w, msgs[w][i], path[i]) /\ path[i + 1] = After(Known', path[i])
    BY <1>2
  <2> QED BY <2>1, SentMany
<1>4. DOMAIN down' = Worker /\ \A w \in Worker : down'[w] = down[w] \o msgs[w]
  BY DEF SendDown
<1> QED BY <1>3, <1>4

\* A single message, the same to all.
LEMMA MasterTellsOne ==
  ASSUME IInv, More(Known, Known'), NEW m, ToAll(<<m>>), \A w \in Worker : Is(Known', w, m, ToTell(Known))
  PROVE  /\ DOMAIN down' = Worker
         /\ \A w \in Worker : Between(Known', w, down'[w], Awaits(Known, w), After(Known', ToTell(Known)))
<1> DEFINE msgs == [w \in Worker |-> <<m>>]
           path == [i \in 1..2 |-> IF i = 1 THEN ToTell(Known) ELSE After(Known', ToTell(Known))]
<1>1. path[1] = ToTell(Known) /\ path[1 + 1] = After(Known', ToTell(Known))
  OBVIOUS
<1>2. SendDown(msgs) /\ \A w \in Worker : msgs[w] = <<m>>
  BY DEF ToAll
<1> HIDE DEF path, msgs
<1>3. \A w \in Worker : IsSeq(msgs[w]) /\ Len(msgs[w]) = 1 /\ msgs[w][1] = m
  BY <1>2, IsOne
<1>4. /\ \A w \in Worker : \A i \in 1..1 : Is(Known', w, msgs[w][i], path[i])
      /\ \A i \in 1..1 : path[i + 1] = After(Known', path[i])
  BY <1>1, <1>3
<1>5. /\ DOMAIN down' = Worker
      /\ \A w \in Worker : Between(Known', w, down'[w], Awaits(Known, w), path[1 + 1])
  BY <1>1, <1>2, <1>3, <1>4, MasterTells
<1> QED BY <1>1, <1>5

\* The master tells nothing new.
LEMMA KnownStays ==
  ASSUME IInv, UNCHANGED <<case, mt_proofs, proofs_for_t>>, idx'[0] = idx[0], beta'[0] = beta[0],
         pc'[0] = "prove" <=> pc[0] = "prove"
  PROVE  Asked' = Asked /\ Known' = Known /\ More(Known, Known')
<1>1. Asked' = Asked
  BY DEF Asked
<1>2. Known' = Known
  BY <1>1 DEF Known, case
<1>3. Len(Known.asked) \in Nat
  BY MasterFacts, AskedIs DEF IsSeq
<1> HIDE DEF Known
<1> QED BY <1>1, <1>2, <1>3 DEF More

-----------------------------------------------------------------------------
(* The steps of the master.                                                *)

\* The steps of the master, one by one: it spreads a codeword,
LEMMA MasterEvalsKeeps == ASSUME IInv, MasterEvals PROVE IInv'
<1> DEFINE k == Len(mt0s[0])
           table == Concat(Gathered(1, Evals(0)))
           v0 == D!Codeword(table)
           tree == ChunkTree(Chunk(v0, 0), CommitLeafSize, LeavesPerParty)
           m(w) == Msg("elements", Chunk(v0, w))
           s == Msg("sizes", <<CommitLeafSize, LeavesPerParty>>)
           msgs == [w \in Worker |-> <<m(w), s>>]
           path == [i \in 1..3 |-> CASE i = 1 -> <<"chunk", k + 1, 0>> [] i = 2 -> <<"sizes", k + 1, 0>>
                                     [] i = 3 -> AfterDown(Known, <<"sizes", k + 1, 0>>)]
<1>1. /\ pc[0] = "evals" /\ Gathers(1, "elements") /\ SendDown(msgs)
      /\ mt0s' = [mt0s EXCEPT ![0] = Append(@, tree)]
      /\ pending' = [pending EXCEPT ![0] = [table |-> table, v0 |-> v0]]
      /\ Becomes(0, "roots0") /\ UNCHANGED <<case, loopVars, treeVars, idx, masterVars>>
  BY DEF MasterEvals
<1>2. /\ 0 \in Party /\ InPlace(0) /\ HasTrees(0) /\ MasterHas /\ OfParties
      /\ DOMAIN up = Worker /\ DOMAIN down = Worker /\ kind \in Kinds /\ oracle \in Oracles
  BY MasterFacts
<1>3. Size(v0) = LenL0 /\ IsPart(tree, 0)
  BY CodewordIs, ChunkIsPart
<1> HIDE DEF v0, table, tree
<1>4. /\ Alone(0) /\ pc'[0] = "roots0" /\ pending'[0].v0 = v0 /\ mt0s'[0] = Append(mt0s[0], tree)
  BY <1>1, <1>2 DEF Alone, OfParties, Becomes, loopVars, treeVars
<1>5. Asked' = Asked /\ Known' = Known /\ More(Known, Known')
  BY <1>1, <1>4, KnownStays DEF loopVars, masterVars, proofVars
<1>6. /\ k \in Nat /\ k < D!ToCommit /\ IsSeq(mt0s'[0]) /\ Len(mt0s'[0]) = k + 1
      /\ \A j \in 1..Len(mt0s'[0]) : IsPart(mt0s'[0][j], 0)
  <2>1. /\ IsSeq(mt0s[0]) /\ k \in Nat /\ k < D!ToCommit /\ \A j \in 1..k : IsPart(mt0s[0][j], 0)
    BY <1>1, <1>2 DEF HasTrees, IsSeq
  <2>2. /\ IsSeq(mt0s'[0]) /\ Len(mt0s'[0]) = k + 1 /\ mt0s'[0][k + 1] = tree
        /\ \A j \in 1..k : mt0s'[0][j] = mt0s[0][j]
    BY <1>4, <2>1, IsAppend
  <2> HIDE DEF k
  <2>3. \A j \in 1..(k + 1) : j \in 1..k \/ j = k + 1
    BY <2>1
  <2> QED BY <1>3, <2>1, <2>2, <2>3
<1>7. InPlace(0)' /\ HasTrees(0)' /\ MasterHas'
  <2>1. InPlace(0)'
    BY <1>1, <1>2, <1>4, Kept DEF InPlace, loopVars, Committing, Running, FoldCalls
  <2>2. TreesOf(0, 0)' = TreesOf(0, 0) /\ TreesOf(0, 1)' = TreesOf(0, 1)
    BY <1>1, <1>4 DEF TreesOf, Committing
  <2>3. HasTrees(0)'
    <3>1. D!ToCommit \in Nat /\ k + 1 =< D!ToCommit /\ k + 1 >= 1
      BY <1>2, <1>6, KindIs
    <3> QED BY <1>1, <1>2, <1>4, <1>6, <2>2, <3>1, Kept DEF HasTrees, treeVars, Committing
  <2>4. MasterHas'
    BY <1>1, <1>2, <1>3, <1>4, <1>5, <2>2 DEF MasterHas, loopVars, masterVars, rootVars, proofVars, Committing
  <2> QED BY <2>1, <2>3, <2>4
<1>8. /\ ToGather(Known) = <<"evals", k + 1, 0>> /\ ToTell(Known) = <<"chunk", k + 1, 0>>
      /\ ToGather(Known)' = <<"root0", k + 1, 0>> /\ ToTell(Known)' = AfterDown(Known, <<"sizes", k + 1, 0>>)
  <2>1. ToGather(Known) = <<"evals", k + 1, 0>> /\ ToTell(Known) = <<"chunk", k + 1, 0>>
    BY <1>1 DEF ToGather, ToTell
  <2>2. ToGather(Known)' = <<"root0", k + 1, 0>>
    BY <1>4, <1>6 DEF ToGather
  <2>3. ToTell(Known)' = AfterDown(Known, <<"sizes", k + 1, 0>>)
    BY <1>1, <1>4, <1>6, Kept DEF ToTell
  <2> QED BY <2>1, <2>2, <2>3
<1>9. /\ DOMAIN up' = Worker
      /\ \A w \in Worker : Between(Known, w, up'[w], ToGather(Known)', Sends(Known, w))
  <2>1. After(Known, <<"evals", k + 1, 0>>) = <<"root0", k + 1, 0>>
    BY AfterUpIs
  <2> QED BY <1>1, <1>8, <2>1, MasterTakesOne
<1>10. /\ path[1] = <<"chunk", k + 1, 0>> /\ path[2] = <<"sizes", k + 1, 0>>
       /\ path[2 + 1] = AfterDown(Known, <<"sizes", k + 1, 0>>)
  OBVIOUS
<1> HIDE DEF path
<1>11. /\ DOMAIN down' = Worker
       /\ \A w \in Worker : Between(Known', w, down'[w], Awaits(Known, w), path[2 + 1])
  <2>1. \A w \in Worker : msgs[w] = <<m(w), s>>
    OBVIOUS
  <2>2. ASSUME NEW w \in Worker
        PROVE  Is(Known, w, m(w), <<"chunk", k + 1, 0>>) /\ Is(Known, w, s, <<"sizes", k + 1, 0>>)
    BY DEF Is, Says, TypeOf, Ups, Expects, Msg, End
  <2> HIDE DEF m, s, msgs
  <2>3. ASSUME NEW w \in Worker PROVE IsSeq(msgs[w]) /\ Len(msgs[w]) = 2 /\ msgs[w][1] = m(w) /\ msgs[w][2] = s
    <3>1. <<m(w), s>> \in Seq({m(w), s}) /\ Len(<<m(w), s>>) = 2
      OBVIOUS
    <3>2. IsSeq(<<m(w), s>>)
      BY <3>1, SeqIs
    <3> QED BY <2>1, <3>1, <3>2
  <2>4. \A w \in Worker : \A i \in 1..2 : Is(Known', w, msgs[w][i], path[i])
    BY <1>5, <1>10, <2>2, <2>3
  <2>5. After(Known, path[1]) = path[2] /\ After(Known, path[2]) = path[3]
    <3>1. After(Known, path[1]) = path[2]
      BY <1>10, AfterChunkIs
    <3> QED BY <1>10, <3>1 DEF After, Ups
  <2>6. \A i \in 1..2 : path[i + 1] = After(Known', path[i])
    BY <1>5, <2>5
  <2>7. path[1] = ToTell(Known) /\ SendDown(msgs) /\ \A w \in Worker : IsSeq(msgs[w]) /\ Len(msgs[w]) = 2
    BY <1>1, <1>8, <1>10, <2>3 DEF msgs, m, s
  <2> QED BY <1>5, <2>4, <2>6, <2>7, MasterTells
<1>12. \A w \in Worker : Between(Known', w, down'[w], Awaits(Known, w), ToTell(Known)')
  BY <1>8, <1>10, <1>11
<1> QED BY <1>4, <1>5, <1>7, <1>9, <1>11, <1>12, MasterFrame

\* The list of one more.
LEMMA HasNext ==
  ASSUME NEW s, NEW n \in Nat, Has(s, n), NEW x
  PROVE  Has(Append(s, x), n + 1)
BY IsAppend DEF Has

\* gathers the roots of a round,
LEMMA MasterRootsKeeps == ASSUME IInv, kind # "batch_ext", MasterRoots PROVE IInv'
<1> DEFINE i == round[0]
           t == UpperTree(Gathered(1, Root(Last(local_mts[0]))), Last(local_mts[0]).leaf_size)
<1>1. /\ pc[0] = "roots" /\ Gathers(1, "digest") /\ upper_mts' = Append(upper_mts, t)
      /\ mt_roots' = Append(mt_roots, Root(t)) /\ round' = [round EXCEPT ![0] = i + 1]
      /\ Becomes(0, "round")
      /\ UNCHANGED <<case, queries, beta, treeVars, keptVars, comVars, beginVars, proofVars, transcript, down>>
  BY DEF MasterRoots
<1> HIDE DEF t
<1>2. /\ 0 \in Party /\ InPlace(0) /\ HasTrees(0) /\ MasterHas /\ OfParties
      /\ DOMAIN up = Worker /\ DOMAIN down = Worker /\ kind \in Kinds /\ oracle \in Oracles
  BY MasterFacts
<1>3. Alone(0) /\ pc'[0] = "round" /\ round'[0] = i + 1
  BY <1>1, <1>2 DEF Alone, OfParties, Becomes, treeVars, keptVars
<1>4. Asked' = Asked /\ Known' = Known /\ More(Known, Known')
  BY <1>1, <1>3, KnownStays DEF keptVars, proofVars
<1>5. /\ i \in 1..(Mu - 1) /\ Mu \in Nat /\ ~D!IsExt /\ ~Ext(Known) /\ queries[0] = 0 /\ Distributed(i)
      /\ First(Known) \in {0, 1}
  <2>1. ~D!IsExt /\ i \in 1..(Mu - 1) /\ Distributed(i)
    BY <1>1, <1>2 DEF InPlace
  <2>2. ~Ext(Known)
    BY <1>2, <2>1, KindIs
  <2> QED BY <1>1, <1>2, <2>1, <2>2, Sizes DEF InPlace, Running, FoldCalls, First
<1>6. InPlace(0)' /\ HasTrees(0)' /\ MasterHas'
  <2>1. InPlace(0)'
    <3>1. queries'[0] = 0 /\ ~D!IsExt' /\ S \in Nat /\ i + 1 \in 1..Mu
      BY <1>1, <1>5, Kept, Sizes
    <3> QED BY <1>3, <1>5, <3>1 DEF InPlace, Committing, Running, FoldCalls
  <2>2. /\ TreesOf(0, 0) = i + 1 - First(Known) /\ TreesOf(0, 1) = i - First(Known)
        /\ TreesOf(0, 0)' = i + 1 - First(Known) /\ TreesOf(0, 1)' = i + 1 - First(Known)
    <3>1. First(Known)' = First(Known)
      BY <1>1, Kept
    <3>2. TreesOf(0, 0) = i + 1 - First(Known) /\ TreesOf(0, 1) = i - First(Known)
      BY <1>1, <1>5 DEF TreesOf, Committing, Running
    <3>3. TreesOf(0, 0)' = i + 1 - First(Known) /\ TreesOf(0, 1)' = i + 1 - First(Known)
      BY <1>3, <1>5, <3>1 DEF TreesOf, Committing, Running
    <3> QED BY <3>2, <3>3
  <2>3. HasTrees(0)'
    BY <1>1, <1>2, <1>3, <2>2, TreesStay DEF treeVars, keptVars, Committing
  <2>4. Has(mt_roots', TreesOf(0, 1)') /\ Has(upper_mts', TreesOf(0, 1)')
    <3>1. TreesOf(0, 1) \in Nat /\ TreesOf(0, 1)' = TreesOf(0, 1) + 1
      BY <1>5, <2>2
    <3>2. Has(mt_roots, TreesOf(0, 1)) /\ Has(upper_mts, TreesOf(0, 1))
      BY <1>2 DEF MasterHas
    <3> QED BY <1>1, <3>1, <3>2, HasNext
  <2>5. IsSeq(fold'.v) /\ Len(fold'.v) = Mu + 1 /\ \A j \in 0..Mu : Size(D!V(j)') = D!L(j)
    BY <1>1, <1>2 DEF MasterHas, Committing, beginVars, D!V
  <2>6. queries'[0] = 0 /\ UNCHANGED <<proofs_for_t, mt_proofs, mt0_proofs, idx>>
    BY <1>1, <1>5 DEF proofVars, keptVars
  <2>7. MasterHas'
    BY <1>1, <1>2, <1>3, <1>4, <1>5, <2>4, <2>5, <2>6 DEF MasterHas, Committing
  <2> QED BY <2>1, <2>3, <2>7
<1>7. /\ ToGather(Known) = <<"root", i, 0>> /\ ToTell(Known) = <<"alpha", i + 1, 0>>
      /\ ToGather(Known)' = FromRound(Known, i + 1) /\ ToTell(Known)' = <<"alpha", i + 1, 0>>
  <2>1. ToGather(Known) = FromRound(Known, i) /\ ToTell(Known) = <<"alpha", i + 1, 0>>
    BY <1>1 DEF ToGather, ToTell
  <2>2. FromRound(Known, i) = <<"root", i, 0>>
    BY <1>5, RoundDue
  <2>3. ToGather(Known)' = FromRound(Known, i + 1) /\ ToTell(Known)' = <<"alpha", i + 1, 0>>
    BY <1>1, <1>3, Kept DEF ToGather, ToTell
  <2> QED BY <2>1, <2>2, <2>3
<1>8. After(Known, <<"root", i, 0>>) = FromRound(Known, i + 1)
  BY AfterUpIs
<1>9. DOMAIN up' = Worker /\ \A w \in Worker : Between(Known, w, up'[w], ToGather(Known)', Sends(Known, w))
  BY <1>1, <1>7, <1>8, MasterTakesOne
<1>10. DOMAIN down' = Worker /\ \A w \in Worker : Between(Known', w, down'[w], Awaits(Known, w), ToTell(Known)')
  BY <1>1, <1>4, <1>7, DownAllStay
<1> QED BY <1>3, <1>4, <1>6, <1>9, <1>10, MasterFrame

\* Two messages more, and those of a round that is spread.
LEMMA TwoAre ==
  ASSUME NEW a, NEW b
  PROVE  IsSeq(<<a, b>>) /\ Len(<<a, b>>) = 2 /\ <<a, b>>[1] = a /\ <<a, b>>[2] = b
<1>1. <<a, b>> \in Seq({a, b}) /\ Len(<<a, b>>) = 2 /\ <<a, b>>[1] = a /\ <<a, b>>[2] = b
  OBVIOUS
<1> QED BY <1>1, SeqIs

\* Three of them: the challenges and the flag; and five: the leaves and their size too.
Three(s, a, b, c)      == s = <<a, b>> \o <<c>>
Five(s, a, b, c, d, e) == s = <<a, b>> \o <<c>> \o <<d, e>>

\* The three.
LEMMA ThreeAre ==
  ASSUME NEW a, NEW b, NEW c, NEW s, Three(s, a, b, c)
  PROVE  IsSeq(s) /\ Len(s) = 3 /\ s[1] = a /\ s[2] = b /\ s[3] = c
<1>1. IsSeq(<<a, b>>) /\ Len(<<a, b>>) = 2 /\ <<a, b>>[1] = a /\ <<a, b>>[2] = b
  BY TwoAre
<1>2. IsSeq(<<c>>) /\ Len(<<c>>) = 1 /\ <<c>>[1] = c
  BY IsOne
<1> DEFINE x == <<a, b>>
           y == <<c>>
<1>3. IsSeq(x) /\ Len(x) = 2 /\ x[1] = a /\ x[2] = b /\ IsSeq(y) /\ Len(y) = 1 /\ y[1] = c /\ s = x \o y
  BY <1>1, <1>2 DEF Three
<1> HIDE DEF x, y
<1>4. /\ IsSeq(s) /\ Len(s) = Len(x) + Len(y)
      /\ \A i \in 1..(Len(x) + Len(y)) : s[i] = IF i =< Len(x) THEN x[i] ELSE y[i - Len(x)]
  BY <1>3, IsConcat
<1> QED BY <1>3, <1>4

\* And the five.
LEMMA FiveAre ==
  ASSUME NEW a, NEW b, NEW c, NEW d, NEW e, NEW s, Five(s, a, b, c, d, e)
  PROVE  IsSeq(s) /\ Len(s) = 5 /\ s[1] = a /\ s[2] = b /\ s[3] = c /\ s[4] = d /\ s[5] = e
<1> DEFINE x == <<a, b>> \o <<c>>
           y == <<d, e>>
<1>0. Three(x, a, b, c) /\ s = x \o y
  BY DEF Three, Five
<1>2. IsSeq(y) /\ Len(y) = 2 /\ y[1] = d /\ y[2] = e
  BY TwoAre
<1> HIDE DEF x
<1>1. IsSeq(x) /\ Len(x) = 3 /\ x[1] = a /\ x[2] = b /\ x[3] = c
  BY <1>0, ThreeAre
<1>3. s = x \o y
  BY <1>0
<1> HIDE DEF y
<1>4. /\ IsSeq(s) /\ Len(s) = Len(x) + Len(y)
      /\ \A i \in 1..(Len(x) + Len(y)) : s[i] = IF i =< Len(x) THEN x[i] ELSE y[i - Len(x)]
  BY <1>1, <1>2, <1>3, IsConcat
<1> QED BY <1>1, <1>2, <1>4

\* spreads the leaves of a codeword,
LEMMA MasterSpreadsKeeps == ASSUME IInv, kind # "batch_ext", MasterSpreads PROVE IInv'
<1> DEFINE i == round[0]
           leaves == LeafHashes(D!V(i))
           leafSize == LeafSizeOf(Size(D!V(i)))
           own == WithLeafSize(PartOf(leaves, 0), leafSize)
           a == Msg("field", oracle.alpha[i])
           r == Msg("field", oracle.r[i])
           f == Msg("bool", TRUE)
           d(w) == Msg("digests", PartOf(leaves, w))
           s == Msg("usize", leafSize)
           msgs == [w \in Worker |-> <<a, r>> \o <<f>> \o <<d(w), s>>]
           path == [j \in 1..6 |->
             CASE j = 1 -> <<"alpha", i, 0>> [] j = 2 -> <<"r", i, 0>> [] j = 3 -> <<"flag", i, 0>>
               [] j = 4 -> <<"leaves", i, 0>> [] j = 5 -> <<"leaf_size", i, 0>>
               [] j = 6 -> <<"alpha", i + 1, 0>>]
<1>1. /\ pc[0] = "round" /\ i < Mu /\ CanDistribute(i) /\ SendDown(msgs) /\ KeepTree(0, own, TRUE)
      /\ Becomes(0, "roots")
      /\ UNCHANGED <<case, loopVars, keptVars, comVars, beginVars, rootVars, proofVars, up>>
  BY DEF MasterSpreads, ChallengeMsgs, FlagMsgs
<1>2. /\ 0 \in Party /\ InPlace(0) /\ HasTrees(0) /\ MasterHas /\ OfParties
      /\ DOMAIN up = Worker /\ DOMAIN down = Worker /\ kind \in Kinds /\ oracle \in Oracles
  BY MasterFacts
<1>3. Alone(0) /\ pc'[0] = "roots"
  BY <1>1, <1>2 DEF Alone, OfParties, Becomes, KeepTree, keptVars, loopVars
<1>4. Asked' = Asked /\ Known' = Known /\ More(Known, Known')
  BY <1>1, <1>3, KnownStays DEF keptVars, proofVars, loopVars
<1>5. /\ i \in 1..(Mu - 1) /\ i \in 0..Mu /\ Mu \in Nat /\ ~D!IsExt /\ ~Ext(Known) /\ queries[0] = 0
      /\ First(Known) \in {0, 1}
  <2>1. ~D!IsExt /\ ~Ext(Known)
    BY <1>2, KindIs
  <2> QED BY <1>1, <1>2, <2>1, Sizes DEF InPlace, Running, FoldCalls, First
<1>6. /\ Size(leaves) = LeafCount(i) /\ Distributed(i) /\ leafSize = LeafSizeOf(D!L(i))
  <2>1. Size(D!V(i)) = D!L(i)
    BY <1>1, <1>2, <1>5 DEF MasterHas, Committing
  <2> QED BY <1>1, <1>5, <2>1, LeavesOf
<1>7. \A p \in Party : Size(PartOf(leaves, p)) = LeafCount(i) \div N
  <2>1. LeafCount(i) \div N \in Nat
    BY <1>5, <1>6, Leaves, PowerNext
  <2> HIDE DEF leaves
  <2> QED BY <1>6, <2>1, PartSize
<1>8. IsTree(own, i, TRUE)
  <2>1. IsPart(own, i)
    BY <1>2, <1>5, <1>6, <1>7, BuildsPart
  <2> QED BY <1>6, <2>1 DEF IsTree
<1> HIDE DEF own, leaves, leafSize
<1>9. InPlace(0)' /\ HasTrees(0)' /\ MasterHas'
  <2>1. InPlace(0)'
    <3>1. queries'[0] = 0 /\ ~D!IsExt' /\ S \in Nat /\ round'[0] = i
      BY <1>1, <1>5, Kept, Sizes DEF loopVars
    <3> QED BY <1>3, <1>5, <1>6, <3>1 DEF InPlace, Committing, Running, FoldCalls
  <2>2. /\ TreesOf(0, 0) = i - First(Known) /\ TreesOf(0, 1) = i - First(Known)
        /\ TreesOf(0, 0)' = i + 1 - First(Known) /\ TreesOf(0, 1)' = i - First(Known)
    BY <1>1, <1>3, <1>5, Kept DEF TreesOf, Committing, Running, loopVars
  <2>3. HasTrees(0)'
    <3>1. TreesOf(0, 0)' = TreesOf(0, 0) + 1 /\ TreesOf(0, 0) + First(Known) = i
      BY <1>5, <2>2
    <3>2. local_mts'[0] = Append(local_mts[0], own) /\ is_distributed'[0] = Append(is_distributed[0], TRUE)
      BY <1>1, <1>2 DEF KeepTree, OfParties
    <3>3. Len(local_mts[0]) + First(Known) = i
      BY <1>2, <1>5, <3>1 DEF HasTrees, Has
    <3>4. /\ IsSeq(mt0s'[0]) /\ Len(mt0s'[0]) = D!ToCommit
          /\ \A k \in 1..Len(mt0s'[0]) : IsPart(mt0s'[0][k], 0)
      BY <1>1, <1>2, <1>3 DEF HasTrees, keptVars, Committing
    <3>5. pc'[0] \notin Committing
      BY <1>3 DEF Committing
    <3> QED BY <1>1, <1>2, <1>5, <1>8, <3>1, <3>2, <3>3, <3>4, <3>5, NewTree
  <2>4. IsSeq(fold'.v) /\ Len(fold'.v) = Mu + 1 /\ \A j \in 0..Mu : Size(D!V(j)') = D!L(j)
    BY <1>1, <1>2 DEF MasterHas, Committing, beginVars, D!V
  <2>5. queries'[0] = 0 /\ UNCHANGED <<proofs_for_t, mt_proofs, mt0_proofs, idx, mt_roots, upper_mts>>
    BY <1>1, <1>5 DEF proofVars, keptVars, rootVars, loopVars
  <2>6. MasterHas'
    BY <1>1, <1>2, <1>3, <1>4, <1>5, <2>2, <2>4, <2>5 DEF MasterHas, Committing
  <2> QED BY <2>1, <2>3, <2>6
<1>10. /\ ToGather(Known) = FromRound(Known, i) /\ ToTell(Known) = <<"alpha", i, 0>>
       /\ ToGather(Known)' = FromRound(Known, i) /\ ToTell(Known)' = <<"alpha", i + 1, 0>>
  <2>1. ToGather(Known) = FromRound(Known, i) /\ ToTell(Known) = <<"alpha", i, 0>>
    BY <1>1 DEF ToGather, ToTell
  <2>2. ToGather(Known)' = FromRound(Known, i) /\ ToTell(Known)' = <<"alpha", i + 1, 0>>
    BY <1>1, <1>3, Kept DEF ToGather, ToTell, loopVars
  <2> QED BY <2>1, <2>2
<1>11. DOMAIN up' = Worker /\ \A w \in Worker : Between(Known, w, up'[w], ToGather(Known)', Sends(Known, w))
  BY <1>1, <1>10, UpAllStay
<1>12. /\ path[1] = <<"alpha", i, 0>> /\ path[2] = <<"r", i, 0>> /\ path[3] = <<"flag", i, 0>>
       /\ path[4] = <<"leaves", i, 0>> /\ path[5] = <<"leaf_size", i, 0>> /\ path[5 + 1] = <<"alpha", i + 1, 0>>
  OBVIOUS
<1> HIDE DEF path
<1>13. \A j \in 1..5 : path[j + 1] = After(Known', path[j])
  <2>1. /\ After(Known, path[1]) = path[2] /\ After(Known, path[2]) = path[3]
        /\ After(Known, path[3]) = path[4] /\ After(Known, path[4]) = path[5]
        /\ After(Known, path[5]) = path[5 + 1]
    <3>1. /\ After(Known, <<"alpha", i, 0>>) = <<"r", i, 0>>
          /\ After(Known, <<"r", i, 0>>) = (IF Ext(Known) THEN IF i < Mu THEN <<"alpha", i + 1, 0>> ELSE <<"idx", 0, 0>>
                                       ELSE IF i < Mu THEN <<"flag", i, 0>> ELSE <<"beta", 0, 0>>)
          /\ After(Known, <<"flag", i, 0>>) = (IF Distributed(i) THEN <<"leaves", i, 0>> ELSE <<"alpha", i + 1, 0>>)
          /\ After(Known, <<"leaves", i, 0>>) = <<"leaf_size", i, 0>>
          /\ After(Known, <<"leaf_size", i, 0>>) = <<"alpha", i + 1, 0>>
      BY AfterAlphaIs
    <3> HIDE DEF i
    <3> QED BY ONLY <1>1, <1>5, <1>6, <1>12, <3>1
  <2>2. \A j \in 1..5 : j = 1 \/ j = 2 \/ j = 3 \/ j = 4 \/ j = 5
    OBVIOUS
  <2> HIDE DEF path
  <2> QED BY <1>4, <2>1, <2>2
<1>14. ASSUME NEW w \in Worker
       PROVE  /\ IsSeq(msgs[w]) /\ Len(msgs[w]) = 5 /\ \A j \in 1..5 : Is(Known', w, msgs[w][j], path[j])
  <2>1. /\ Is(Known, w, a, <<"alpha", i, 0>>) /\ Is(Known, w, r, <<"r", i, 0>>)
        /\ Is(Known, w, f, <<"flag", i, 0>>)
    BY <1>6 DEF Is, Says, TypeOf, Ups, Expects, Msg, End
  <2>2. Is(Known, w, d(w), <<"leaves", i, 0>>)
    <3>1. w \in Party
      BY Sizes
    <3>2. Size(PartOf(leaves, w)) = LeafCount(i) \div N
      BY <1>7, <3>1
    <3> HIDE DEF i
    <3> QED BY <3>2 DEF Is, Says, TypeOf, Ups, Expects, Msg, End
  <2>3. Is(Known, w, s, <<"leaf_size", i, 0>>)
    BY <1>6 DEF Is, Says, TypeOf, Ups, Expects, Msg, End
  <2>4. Five(msgs[w], a, r, f, d(w), s)
    BY DEF Five
  <2> HIDE DEF msgs, a, r, f, d, s
  <2>5. /\ IsSeq(msgs[w]) /\ Len(msgs[w]) = 5
        /\ msgs[w][1] = a /\ msgs[w][2] = r /\ msgs[w][3] = f /\ msgs[w][4] = d(w) /\ msgs[w][5] = s
    BY <2>4, FiveAre
  <2>6. \A j \in 1..5 : j = 1 \/ j = 2 \/ j = 3 \/ j = 4 \/ j = 5
    OBVIOUS
  <2> QED BY <1>4, <1>12, <2>1, <2>2, <2>3, <2>5, <2>6
<1> HIDE DEF msgs
<1>15. /\ DOMAIN down' = Worker
       /\ \A w \in Worker : Between(Known', w, down'[w], Awaits(Known, w), path[5 + 1])
  <2>1. path[1] = ToTell(Known)
    BY <1>10, <1>12
  <2> QED BY <1>1, <1>4, <1>13, <1>14, <2>1, MasterTells
<1>16. \A w \in Worker : Between(Known', w, down'[w], Awaits(Known, w), ToTell(Known)')
  BY <1>10, <1>12, <1>15
<1> QED BY <1>3, <1>4, <1>9, <1>11, <1>15, <1>16, MasterFrame

\* builds a whole tree alone,
LEMMA BuildsAloneIs ==
  ASSUME IInv, NEW msgs, BuildsAlone(round[0], msgs), D!IsExt \/ ~Distributed(round[0])
  PROVE  /\ round[0] \in 1..(Mu - 1) /\ Mu \in Nat /\ ToAll(msgs)
         /\ Alone(0) /\ Asked' = Asked /\ Known' = Known /\ More(Known, Known')
         /\ InPlace(0)' /\ HasTrees(0)' /\ MasterHas'
         /\ ToTell(Known) = <<"alpha", round[0], 0>> /\ ToTell(Known)' = <<"alpha", round[0] + 1, 0>>
         /\ DOMAIN up' = Worker
         /\ \A w \in Worker : Between(Known, w, up'[w], ToGather(Known)', Sends(Known, w))
<1> DEFINE i == round[0]
           t == BuildTree(D!V(i))
<1>1. /\ pc[0] = "round" /\ i < Mu /\ ToAll(msgs) /\ KeepTree(0, t, FALSE)
      /\ mt_roots' = Append(mt_roots, Root(t)) /\ upper_mts' = Append(upper_mts, Default)
      /\ round' = [round EXCEPT ![0] = i + 1]
      /\ UNCHANGED <<case, pc, queries, beta, keptVars, comVars, beginVars, proofVars, up>>
  BY DEF BuildsAlone
<1>2. /\ 0 \in Party /\ InPlace(0) /\ HasTrees(0) /\ MasterHas /\ OfParties
      /\ DOMAIN up = Worker /\ DOMAIN down = Worker /\ kind \in Kinds /\ oracle \in Oracles
  BY MasterFacts
<1>3. Alone(0) /\ pc'[0] = "round" /\ round'[0] = i + 1
  BY <1>1, <1>2 DEF Alone, OfParties, KeepTree, keptVars
<1>4. Asked' = Asked /\ Known' = Known /\ More(Known, Known')
  BY <1>1, <1>3, KnownStays DEF keptVars, proofVars
<1>5. /\ i \in 1..(Mu - 1) /\ i \in 0..Mu /\ Mu \in Nat /\ queries[0] = 0 /\ First(Known) \in {0, 1}
  BY <1>1, <1>2, Sizes DEF InPlace, Running, FoldCalls, First
<1>6. ~D!IsExt => IsTree(t, i, FALSE)
  <2>1. Size(D!V(i)) = D!L(i)
    BY <1>1, <1>2, <1>5 DEF MasterHas, Committing
  <2>2. t.leaf_size = LeafSizeOf(D!L(i)) /\ LeafSizeOf(D!L(i)) \in 1..D!L(i)
    BY <1>5, <2>1, LeavesOf, Leaves
  <2> HIDE DEF t
  <2> QED BY <2>2 DEF IsTree
<1> HIDE DEF t
<1>7. InPlace(0)' /\ HasTrees(0)' /\ MasterHas'
  <2>1. InPlace(0)'
    <3>1. queries'[0] = 0 /\ S \in Nat /\ i + 1 \in 1..Mu
      BY <1>1, <1>5, Sizes
    <3> QED BY <1>3, <1>5, <3>1 DEF InPlace, Committing, Running, FoldCalls
  <2>2. /\ TreesOf(0, 0) = i - First(Known) /\ TreesOf(0, 1) = i - First(Known)
        /\ TreesOf(0, 0)' = i + 1 - First(Known) /\ TreesOf(0, 1)' = i + 1 - First(Known)
    BY <1>1, <1>3, <1>5, Kept DEF TreesOf, Committing, Running
  <2>3. HasTrees(0)'
    <3>1. TreesOf(0, 0)' = TreesOf(0, 0) + 1 /\ TreesOf(0, 0) + First(Known) = i
      BY <1>5, <2>2
    <3>2. local_mts'[0] = Append(local_mts[0], t) /\ is_distributed'[0] = Append(is_distributed[0], FALSE)
      BY <1>1, <1>2 DEF KeepTree, OfParties
    <3>3. ~D!IsExt => Len(local_mts[0]) + First(Known) = i
      BY <1>2, <1>5, <3>1 DEF HasTrees, Has
    <3>4. /\ IsSeq(mt0s'[0]) /\ Len(mt0s'[0]) = D!ToCommit
          /\ \A k \in 1..Len(mt0s'[0]) : IsPart(mt0s'[0][k], 0)
      BY <1>1, <1>2, <1>3 DEF HasTrees, keptVars, Committing
    <3>5. pc'[0] \notin Committing
      BY <1>3 DEF Committing
    <3>6. ~D!IsExt => IsTree(t, Len(local_mts[0]) + First(Known), FALSE)
      BY <1>6, <3>3
    <3> QED BY <1>1, <1>2, <3>1, <3>2, <3>4, <3>5, <3>6, NewTree
  <2>4. Has(mt_roots', TreesOf(0, 1)') /\ Has(upper_mts', TreesOf(0, 1)')
    <3>1. TreesOf(0, 1) \in Nat /\ TreesOf(0, 1)' = TreesOf(0, 1) + 1
      BY <1>5, <2>2
    <3>2. Has(mt_roots, TreesOf(0, 1)) /\ Has(upper_mts, TreesOf(0, 1))
      BY <1>2 DEF MasterHas
    <3> QED BY <1>1, <3>1, <3>2, HasNext
  <2>5. IsSeq(fold'.v) /\ Len(fold'.v) = Mu + 1 /\ \A j \in 0..Mu : Size(D!V(j)') = D!L(j)
    BY <1>1, <1>2 DEF MasterHas, Committing, beginVars, D!V
  <2>6. queries'[0] = 0 /\ UNCHANGED <<proofs_for_t, mt_proofs, mt0_proofs, idx>>
    BY <1>1, <1>5 DEF proofVars, keptVars
  <2>7. MasterHas'
    BY <1>1, <1>2, <1>3, <1>4, <1>5, <2>4, <2>5, <2>6 DEF MasterHas, Committing
  <2> QED BY <2>1, <2>3, <2>7
<1>8. /\ ToGather(Known) = FromRound(Known, i) /\ ToTell(Known) = <<"alpha", i, 0>>
      /\ ToGather(Known)' = FromRound(Known, i + 1) /\ ToTell(Known)' = <<"alpha", i + 1, 0>>
  <2>1. ToGather(Known) = FromRound(Known, i) /\ ToTell(Known) = <<"alpha", i, 0>>
    BY <1>1 DEF ToGather, ToTell
  <2>2. ToGather(Known)' = FromRound(Known, i + 1) /\ ToTell(Known)' = <<"alpha", i + 1, 0>>
    BY <1>1, <1>3, Kept DEF ToGather, ToTell
  <2> QED BY <2>1, <2>2
<1>9. FromRound(Known, i) = FromRound(Known, i + 1)
  <2>1. CASE Ext(Known)
    BY <2>1 DEF FromRound
  <2>2. CASE ~Ext(Known)
    <3>1. ~D!IsExt
      BY <1>2, <2>2, KindIs
    <3> QED BY <1>5, <2>2, <3>1, RoundDue
  <2> QED BY <2>1, <2>2
<1>10. DOMAIN up' = Worker /\ \A w \in Worker : Between(Known, w, up'[w], ToGather(Known), Sends(Known, w))
  BY <1>1, UpAllStay
<1> QED BY <1>1, <1>3, <1>4, <1>5, <1>7, <1>8, <1>9, <1>10

\* in a round whose codeword is not spread,
LEMMA MasterKeepsKeeps == ASSUME IInv, kind # "batch_ext", MasterKeeps PROVE IInv'
<1> DEFINE i == round[0]
           a == Msg("field", oracle.alpha[i])
           r == Msg("field", oracle.r[i])
           f == Msg("bool", FALSE)
           s == <<a, r>> \o <<f>>
           msgs == [w \in Worker |-> s]
           path == [j \in 1..4 |->
             CASE j = 1 -> <<"alpha", i, 0>> [] j = 2 -> <<"r", i, 0>> [] j = 3 -> <<"flag", i, 0>>
               [] j = 4 -> <<"alpha", i + 1, 0>>]
<1>1. pc[0] = "round" /\ i < Mu /\ ~CanDistribute(i) /\ BuildsAlone(i, s)
  BY DEF MasterKeeps, ChallengeMsgs, FlagMsgs
<1>2. /\ 0 \in Party /\ InPlace(0) /\ HasTrees(0) /\ MasterHas /\ OfParties
      /\ DOMAIN up = Worker /\ DOMAIN down = Worker /\ kind \in Kinds /\ oracle \in Oracles
  BY MasterFacts
<1>3. ~Distributed(i) /\ ~Ext(Known)
  <2>1. i \in 0..Mu
    BY <1>1, <1>2, Sizes DEF InPlace
  <2>2. Size(D!V(i)) = D!L(i)
    BY <1>1, <1>2, <2>1 DEF MasterHas, Committing
  <2>3. ~Ext(Known)
    BY <1>2, KindIs
  <2> QED BY <1>1, <2>1, <2>2, <2>3, LeavesOf
<1> HIDE DEF s
<1>4. /\ i \in 1..(Mu - 1) /\ Mu \in Nat /\ ToAll(s)
      /\ Alone(0) /\ Asked' = Asked /\ Known' = Known /\ More(Known, Known')
      /\ InPlace(0)' /\ HasTrees(0)' /\ MasterHas'
      /\ ToTell(Known) = <<"alpha", i, 0>> /\ ToTell(Known)' = <<"alpha", i + 1, 0>>
      /\ DOMAIN up' = Worker
      /\ \A w \in Worker : Between(Known, w, up'[w], ToGather(Known)', Sends(Known, w))
  BY <1>1, <1>3, BuildsAloneIs
<1>5. /\ path[1] = <<"alpha", i, 0>> /\ path[2] = <<"r", i, 0>> /\ path[3] = <<"flag", i, 0>>
      /\ path[3 + 1] = <<"alpha", i + 1, 0>>
  OBVIOUS
<1> HIDE DEF path
<1>6. \A j \in 1..3 : path[j + 1] = After(Known', path[j])
  <2>1. /\ After(Known, path[1]) = path[2] /\ After(Known, path[2]) = path[3]
        /\ After(Known, path[3]) = path[3 + 1]
    <3>1. /\ After(Known, <<"alpha", i, 0>>) = <<"r", i, 0>>
          /\ After(Known, <<"r", i, 0>>) = (IF Ext(Known) THEN IF i < Mu THEN <<"alpha", i + 1, 0>> ELSE <<"idx", 0, 0>>
                                       ELSE IF i < Mu THEN <<"flag", i, 0>> ELSE <<"beta", 0, 0>>)
          /\ After(Known, <<"flag", i, 0>>) = (IF Distributed(i) THEN <<"leaves", i, 0>> ELSE <<"alpha", i + 1, 0>>)
      BY AfterAlphaIs
    <3> HIDE DEF i
    <3> QED BY ONLY <1>1, <1>3, <1>5, <3>1
  <2>2. \A j \in 1..3 : j = 1 \/ j = 2 \/ j = 3
    OBVIOUS
  <2> QED BY <1>4, <2>1, <2>2
<1>7. IsSeq(s) /\ Len(s) = 3 /\ \A w \in Worker : \A j \in 1..3 : Is(Known', w, s[j], path[j])
  <2>1. ASSUME NEW w \in Worker
        PROVE  /\ Is(Known, w, a, <<"alpha", i, 0>>) /\ Is(Known, w, r, <<"r", i, 0>>)
               /\ Is(Known, w, f, <<"flag", i, 0>>)
    <3>1. Is(Known, w, a, <<"alpha", i, 0>>) /\ Is(Known, w, r, <<"r", i, 0>>)
      BY DEF Is, Says, TypeOf, Ups, Expects, Msg, End
    <3>2. f.val = Distributed(i)
      <4>1. f.val = FALSE
        BY DEF Msg
      <4>2. Distributed(i) = FALSE
        BY <1>3 DEF Distributed
      <4> QED BY <4>1, <4>2
    <3>3. f.type = "bool"
      BY DEF Msg
    <3>4. Is(Known, w, f, <<"flag", i, 0>>)
      BY <3>2, <3>3 DEF Is, Says, TypeOf, Ups, Expects, End
    <3> QED BY <3>1, <3>4
  <2>2. Three(s, a, r, f)
    BY DEF Three, s
  <2> HIDE DEF a, r, f
  <2>3. IsSeq(s) /\ Len(s) = 3 /\ s[1] = a /\ s[2] = r /\ s[3] = f
    BY <2>2, ThreeAre
  <2>4. \A j \in 1..3 : j = 1 \/ j = 2 \/ j = 3
    OBVIOUS
  <2> QED BY <1>4, <1>5, <2>1, <2>3, <2>4
<1>8. SendDown(msgs) /\ \A w \in Worker : msgs[w] = s
  BY <1>4 DEF ToAll
<1> HIDE DEF msgs
<1>9. /\ DOMAIN down' = Worker
      /\ \A w \in Worker : Between(Known', w, down'[w], Awaits(Known, w), path[3 + 1])
  <2>1. path[1] = ToTell(Known)
    BY <1>4, <1>5
  <2>2. /\ \A w \in Worker : IsSeq(msgs[w]) /\ Len(msgs[w]) = 3
        /\ \A w \in Worker : \A j \in 1..3 : Is(Known', w, msgs[w][j], path[j])
    BY <1>7, <1>8
  <2> QED BY <1>4, <1>6, <1>8, <2>1, <2>2, MasterTells
<1>10. \A w \in Worker : Between(Known', w, down'[w], Awaits(Known, w), ToTell(Known)')
  BY <1>4, <1>5, <1>9
<1> QED BY <1>4, <1>9, <1>10, MasterFrame

\* The two challenges of a round, and what follows.
LEMMA MasterChallenges ==
  ASSUME IInv, More(Known, Known'), NEW i, ToAll(ChallengeMsgs(i)), ToTell(Known) = <<"alpha", i, 0>>
  PROVE  /\ DOMAIN down' = Worker
         /\ \A w \in Worker : Between(Known', w, down'[w], Awaits(Known, w), After(Known', <<"r", i, 0>>))
<1> DEFINE a == Msg("field", oracle.alpha[i])
           r == Msg("field", oracle.r[i])
           msgs == [w \in Worker |-> <<a, r>>]
           path == [j \in 1..3 |-> CASE j = 1 -> <<"alpha", i, 0>> [] j = 2 -> <<"r", i, 0>>
                                     [] j = 3 -> After(Known', <<"r", i, 0>>)]
<1>1. /\ path[1] = <<"alpha", i, 0>> /\ path[2] = <<"r", i, 0>> /\ path[2 + 1] = After(Known', <<"r", i, 0>>)
  OBVIOUS
<1> HIDE DEF path
<1>2. \A j \in 1..2 : path[j + 1] = After(Known', path[j])
  <2>1. After(Known', path[1]) = path[2] /\ After(Known', path[2]) = path[2 + 1]
    <3>1. After(Known', <<"alpha", i, 0>>) = <<"r", i, 0>>
      BY AfterAlphaIs
    <3> QED BY <1>1, <3>1
  <2>2. \A j \in 1..2 : j = 1 \/ j = 2
    OBVIOUS
  <2> QED BY <2>1, <2>2
<1>3. SendDown(msgs) /\ \A w \in Worker : msgs[w] = <<a, r>>
  BY DEF ToAll, ChallengeMsgs
<1> HIDE DEF msgs
<1>4. ASSUME NEW w \in Worker
      PROVE  IsSeq(msgs[w]) /\ Len(msgs[w]) = 2 /\ \A j \in 1..2 : Is(Known', w, msgs[w][j], path[j])
  <2>1. Is(Known', w, a, <<"alpha", i, 0>>) /\ Is(Known', w, r, <<"r", i, 0>>)
    BY DEF Is, Says, TypeOf, Ups, Expects, Msg, End
  <2> HIDE DEF a, r
  <2>2. IsSeq(<<a, r>>) /\ Len(<<a, r>>) = 2 /\ <<a, r>>[1] = a /\ <<a, r>>[2] = r
    BY TwoAre
  <2>3. \A j \in 1..2 : j = 1 \/ j = 2
    OBVIOUS
  <2> QED BY <1>1, <1>3, <2>1, <2>2, <2>3
<1>5. /\ DOMAIN down' = Worker
      /\ \A w \in Worker : Between(Known', w, down'[w], Awaits(Known, w), path[2 + 1])
  BY <1>1, <1>2, <1>3, <1>4, MasterTells
<1> QED BY <1>1, <1>5

\* at extension points,
LEMMA MasterKeepsExtKeeps == ASSUME IInv, kind = "batch_ext", MasterKeepsExt PROVE IInv'
<1> DEFINE i == round[0]
           s == ChallengeMsgs(i)
<1>1. BuildsAlone(i, s)
  BY DEF MasterKeepsExt
<1>2. D!IsExt /\ Ext(Known)
  BY MasterFacts, KindIs
<1> HIDE DEF s
<1>3. /\ i \in 1..(Mu - 1) /\ Mu \in Nat /\ ToAll(s)
      /\ Alone(0) /\ Asked' = Asked /\ Known' = Known /\ More(Known, Known')
      /\ InPlace(0)' /\ HasTrees(0)' /\ MasterHas'
      /\ ToTell(Known) = <<"alpha", i, 0>> /\ ToTell(Known)' = <<"alpha", i + 1, 0>>
      /\ DOMAIN up' = Worker
      /\ \A w \in Worker : Between(Known, w, up'[w], ToGather(Known)', Sends(Known, w))
  BY <1>1, <1>2, BuildsAloneIs
<1>4. After(Known', <<"r", i, 0>>) = ToTell(Known)'
  <2>1. i < Mu
    BY <1>3
  <2>2. After(Known, <<"r", i, 0>>) = IF Ext(Known) THEN IF i < Mu THEN <<"alpha", i + 1, 0>> ELSE <<"idx", 0, 0>>
                                     ELSE IF i < Mu THEN <<"flag", i, 0>> ELSE <<"beta", 0, 0>>
    BY AfterAlphaIs
  <2>3. After(Known, <<"r", i, 0>>) = <<"alpha", i + 1, 0>>
    BY ONLY <1>2, <2>1, <2>2
  <2> QED BY <1>3, <2>3
<1>5. /\ DOMAIN down' = Worker
      /\ \A w \in Worker : Between(Known', w, down'[w], Awaits(Known, w), After(Known', <<"r", i, 0>>))
  BY <1>3, MasterChallenges DEF s
<1> QED BY <1>3, <1>4, <1>5, MasterFrame

\* ends the rounds,
LEMMA MasterLastKeeps == ASSUME IInv, MasterLast PROVE IInv'
<1>1. /\ pc[0] = "round" /\ round[0] = Mu /\ ToAll(ChallengeMsgs(Mu)) /\ Becomes(0, "query")
      /\ UNCHANGED <<case, loopVars, treeVars, keptVars, comVars, beginVars, rootVars, proofVars, up>>
  BY DEF MasterLast
<1>2. /\ 0 \in Party /\ InPlace(0) /\ HasTrees(0) /\ MasterHas /\ OfParties
      /\ DOMAIN up = Worker /\ DOMAIN down = Worker /\ kind \in Kinds /\ oracle \in Oracles
  BY MasterFacts
<1>3. Alone(0) /\ pc'[0] = "query"
  BY <1>1, <1>2 DEF Alone, OfParties, Becomes, keptVars, loopVars, treeVars
<1>4. Asked' = Asked /\ Known' = Known /\ More(Known, Known')
  BY <1>1, <1>3, KnownStays DEF keptVars, proofVars, loopVars
<1>5. Mu \in Nat /\ Mu >= 1 /\ S \in Nat /\ S >= 1 /\ queries[0] = 0 /\ (D!IsExt <=> Ext(Known))
  BY <1>1, <1>2, Sizes, KindIs DEF InPlace, Running, FoldCalls
<1>6. InPlace(0)' /\ HasTrees(0)' /\ MasterHas'
  <2>1. InPlace(0)'
    BY <1>1, <1>3, <1>5 DEF InPlace, Committing, Running, FoldCalls, loopVars
  <2>2. /\ TreesOf(0, 0)' = TreesOf(0, 0) /\ TreesOf(0, 1)' = TreesOf(0, 1)
    BY <1>1, <1>3, <1>5, Kept DEF TreesOf, Committing, Running, FoldCalls, loopVars
  <2>3. HasTrees(0)'
    BY <1>1, <1>2, <1>3, <2>2, TreesStay DEF treeVars, keptVars, Committing
  <2>4. IsSeq(fold'.v) /\ Len(fold'.v) = Mu + 1 /\ \A j \in 0..Mu : Size(D!V(j)') = D!L(j)
    BY <1>1, <1>2 DEF MasterHas, Committing, beginVars, D!V
  <2>5. queries'[0] = 0 /\ UNCHANGED <<proofs_for_t, mt_proofs, mt0_proofs, idx, mt_roots, upper_mts>>
    BY <1>1, <1>5 DEF proofVars, keptVars, rootVars, loopVars
  <2>6. MasterHas'
    BY <1>1, <1>2, <1>3, <1>4, <1>5, <2>2, <2>4, <2>5 DEF MasterHas, Committing
  <2> QED BY <2>1, <2>3, <2>6
<1>7. /\ ToGather(Known) = FromRound(Known, Mu) /\ ToTell(Known) = <<"alpha", Mu, 0>>
      /\ ToGather(Known)' = (IF Ext(Known) THEN <<"mt0", 0, 1>> ELSE FromProof(Known, 0, First(Known)))
      /\ ToTell(Known)' = (IF Ext(Known) THEN <<"idx", 0, 0>> ELSE <<"beta", 0, 0>>)
  <2>1. ToGather(Known) = FromRound(Known, Mu) /\ ToTell(Known) = <<"alpha", Mu, 0>>
    BY <1>1 DEF ToGather, ToTell
  <2>2. /\ ToGather(Known)' = (IF Ext(Known) THEN <<"mt0", 0, 1>> ELSE FromProof(Known, 0, First(Known)))
        /\ ToTell(Known)' = (IF Ext(Known) THEN <<"idx", 0, 0>> ELSE <<"beta", 0, 0>>)
    <3>1. queries'[0] = 0
      BY <1>1, <1>5 DEF loopVars
    <3> QED BY <1>1, <1>3, <3>1, Kept DEF ToGather, ToTell
  <2> QED BY <2>1, <2>2
<1>8. FromRound(Known, Mu) = IF Ext(Known) THEN <<"mt0", 0, 1>> ELSE FromProof(Known, 0, First(Known))
  <2>1. CASE Ext(Known)
    BY <2>1 DEF FromRound
  <2>2. CASE ~Ext(Known)
    BY <2>2, RoundDue
  <2> QED BY <2>1, <2>2
<1>9. DOMAIN up' = Worker /\ \A w \in Worker : Between(Known, w, up'[w], ToGather(Known)', Sends(Known, w))
  <2>1. DOMAIN up' = Worker /\ \A w \in Worker : Between(Known, w, up'[w], ToGather(Known), Sends(Known, w))
    BY <1>1, UpAllStay
  <2> QED BY <1>7, <1>8, <2>1
<1>10. After(Known', <<"r", Mu, 0>>) = ToTell(Known)'
  <2>1. After(Known, <<"r", Mu, 0>>) = IF Ext(Known) THEN IF Mu < Mu THEN <<"alpha", Mu + 1, 0>> ELSE <<"idx", 0, 0>>
                                     ELSE IF Mu < Mu THEN <<"flag", Mu, 0>> ELSE <<"beta", 0, 0>>
    BY AfterAlphaIs
  <2>2. ~(Mu < Mu)
    BY <1>5
  <2> QED BY <1>4, <1>7, <2>1, <2>2
<1>11. /\ DOMAIN down' = Worker
       /\ \A w \in Worker : Between(Known', w, down'[w], Awaits(Known, w), After(Known', <<"r", Mu, 0>>))
  BY <1>1, <1>4, <1>7, MasterChallenges
<1> QED BY <1>3, <1>4, <1>6, <1>9, <1>10, <1>11, MasterFrame

\* has the commitment, and goes to the next, to the batch or to the rounds,
LEMMA MasterCommitsKeeps == ASSUME IInv, MasterCommits PROVE IInv'
<1> DEFINE k == Len(mt0s[0])
           own == mt0s[0][k]
           t == UpperTree(Gathered(1, Root(own)), own.leaf_size)
           folds == D!Folded(D!Unfolded(pending[0].table, pending[0].v0, Points[1].re),
                             oracle.alpha, oracle.r, FALSE)
           more == k < D!ToCommit
<1>1. /\ pc[0] = "roots0" /\ Gathers(1, "digest") /\ AfterCommit(0, k, own, "round")
      /\ IF D!IsBatch THEN UNCHANGED <<fold, rootVars>>
         ELSE fold' = folds /\ upper_mts' = <<t>> /\ mt_roots' = <<Root(t)>>
      /\ UNCHANGED <<case, queries, beta, keptVars, sums, proofVars, transcript, down>>
  BY DEF MasterCommits
<1>2. /\ 0 \in Party /\ InPlace(0) /\ HasTrees(0) /\ MasterHas /\ OfParties
      /\ DOMAIN up = Worker /\ DOMAIN down = Worker /\ kind \in Kinds /\ oracle \in Oracles
  BY MasterFacts
<1>3. /\ k \in Nat /\ k >= 1 /\ k =< D!ToCommit /\ D!ToCommit \in Nat /\ Commits(Known) = D!ToCommit
      /\ round[0] = 0 /\ queries[0] = 0 /\ (more => D!IsBatch) /\ (~D!IsBatch => ~Ext(Known))
      /\ (Batch(Known) <=> D!IsBatch) /\ First(Known) = IF D!IsBatch THEN 1 ELSE 0
  <2>1. /\ D!ToCommit \in Nat /\ Commits(Known) = D!ToCommit /\ (~D!IsBatch => ~Ext(Known))
        /\ (Batch(Known) <=> D!IsBatch) /\ First(Known) = IF D!IsBatch THEN 1 ELSE 0
    BY <1>2, KindIs
  <2>2. k \in Nat /\ k >= 1 /\ k =< D!ToCommit
    BY <1>1, <1>2 DEF HasTrees, IsSeq
  <2>3. round[0] = 0 /\ queries[0] = 0
    BY <1>1, <1>2 DEF InPlace, Committing
  <2>4. ~D!IsBatch => D!ToCommit = 1
    BY DEF D!ToCommit
  <2> QED BY <2>1, <2>2, <2>3, <2>4
<1>4. \A i \in 0..Mu : IsSeq(folds.v) /\ Len(folds.v) = Mu + 1 /\ Size(folds.v[i + 1]) = D!L(i)
  <2>1. Size(pending[0].v0) = LenL0
    BY <1>1, <1>2 DEF MasterHas
  <2>2. Codewords(folds.v, Mu)
    BY <1>2, <2>1, FoldsOf
  <2> HIDE DEF folds
  <2> QED BY <2>2 DEF Codewords
<1> HIDE DEF own, t, folds
<1>5. /\ more => pc'[0] = "evals" /\ UNCHANGED <<round, treeVars>>
      /\ ~more => pc'[0] = (IF D!IsBatch THEN "batch" ELSE "round") /\ round'[0] = 1
      /\ Alone(0)
  <2>1. CASE more
    BY <1>1, <1>2, <2>1 DEF Alone, OfParties, Becomes, AfterCommit, treeVars, keptVars
  <2>2. CASE ~more /\ D!IsBatch
    BY <1>1, <1>2, <2>2 DEF Alone, OfParties, Becomes, AfterCommit, treeVars, keptVars
  <2>3. CASE ~more /\ ~D!IsBatch
    BY <1>1, <1>2, <2>3 DEF Alone, OfParties, Becomes, AfterCommit, KeepTree, keptVars
  <2> QED BY <2>1, <2>2, <2>3
<1>6. ~more => IF D!IsBatch THEN UNCHANGED treeVars ELSE KeepTree(0, own, TRUE)
  BY <1>1 DEF AfterCommit
<1>7. pc'[0] \in {"evals", "batch", "round"}
  BY <1>5
<1>8. Asked' = Asked /\ Known' = Known /\ More(Known, Known')
  BY <1>1, <1>5, <1>7, KnownStays DEF keptVars, proofVars
<1>9. InPlace(0)'
  <2>1. Mu \in Nat /\ Mu >= 1 /\ S \in Nat /\ queries'[0] = 0 /\ D!IsBatch' = D!IsBatch
    BY <1>1, <1>3, Kept, Sizes
  <2>2. CASE more
    BY <1>3, <1>5, <2>1, <2>2 DEF InPlace, Committing, Running, FoldCalls
  <2>3. CASE ~more
    BY <1>3, <1>5, <2>1, <2>3 DEF InPlace, Committing, Running, FoldCalls
  <2> QED BY <2>2, <2>3
<1>10. HasTrees(0)' /\ MasterHas'
  <2>1. /\ UNCHANGED <<proofs_for_t, mt_proofs, mt0_proofs, idx, mt0s>> /\ queries'[0] = 0
    BY <1>1, <1>3 DEF proofVars, keptVars
  <2>2. TreesOf(0, 0) = 0 /\ TreesOf(0, 1) = 0
    BY <1>1 DEF TreesOf, Committing
  <2>3. CASE D!IsBatch
    <3>1. TreesOf(0, 0)' = 0 /\ TreesOf(0, 1)' = 0
      <4>1. First(Known)' = 1
        BY <1>1, <1>3, <2>3, Kept
      <4>2. CASE more
        BY <1>5, <4>2 DEF TreesOf, Committing
      <4>3. CASE ~more
        BY <1>5, <2>3, <4>1, <4>3 DEF TreesOf, Committing, Running
      <4> QED BY <4>2, <4>3
    <3>2. UNCHANGED <<local_mts, is_distributed, mt_roots, upper_mts, fold>>
      BY <1>1, <1>5, <1>6, <2>3 DEF treeVars, rootVars
    <3>3. HasTrees(0)'
      <4>1. /\ local_mts'[0] = local_mts[0] /\ is_distributed'[0] = is_distributed[0] /\ mt0s'[0] = mt0s[0]
            /\ TreesOf(0, 0)' = TreesOf(0, 0)
        BY <2>1, <2>2, <3>1, <3>2
      <4>2. D!ToCommit' = D!ToCommit /\ D!IsExt' = D!IsExt /\ First(Known)' = First(Known)
        BY <1>1, Kept
      <4>3. /\ pc'[0] \in {"evals", "chunk", "sizes"} => Len(mt0s'[0]) < D!ToCommit
            /\ pc'[0] \notin Committing => Len(mt0s'[0]) = D!ToCommit
            /\ pc'[0] # "roots0"
        BY <1>3, <1>5, <2>3, <4>1 DEF Committing
      <4> QED BY <1>2, <4>1, <4>2, <4>3 DEF HasTrees
    <3>4. MasterHas'
      <4>1. pc'[0] \in Committing \cup {"batch"} /\ pc'[0] \in {"evals", "batch"}
        BY <1>5, <2>3 DEF Committing
      <4> QED BY <1>1, <1>2, <1>8, <2>1, <2>2, <3>1, <3>2, <4>1 DEF MasterHas
    <3> QED BY <3>3, <3>4
  <2>4. CASE ~D!IsBatch
    <3>1. ~more /\ pc'[0] = "round" /\ round'[0] = 1 /\ First(Known) = 0 /\ First(Known)' = 0 /\ ~D!IsBatch'
      BY <1>1, <1>3, <1>5, <2>4, Kept
    <3>2. TreesOf(0, 0)' = 1 /\ TreesOf(0, 1)' = 1
      BY <3>1 DEF TreesOf, Committing, Running
    <3>3. HasTrees(0)'
      <4>1. local_mts'[0] = Append(local_mts[0], own) /\ is_distributed'[0] = Append(is_distributed[0], TRUE)
        BY <1>2, <1>6, <2>4, <3>1 DEF KeepTree, OfParties
      <4>2. ~D!IsExt /\ Len(local_mts[0]) = 0
        <5>1. ~D!IsExt
          BY <1>2, <2>4, KindIs
        <5> QED BY <1>2, <2>2, <5>1 DEF HasTrees, Has
      <4>3. IsPart(own, 0)
        BY <1>2, <1>3 DEF HasTrees, own
      <4>4. IsTree(own, 0, TRUE)
        <5>1. Distributed(0) /\ Distributed(0) = TRUE
          BY FirstSpreads DEF Distributed
        <5> QED BY <4>3, <5>1 DEF IsTree
      <4>5. /\ IsSeq(mt0s'[0]) /\ Len(mt0s'[0]) = D!ToCommit
            /\ \A j \in 1..Len(mt0s'[0]) : IsPart(mt0s'[0][j], 0)
        BY <1>2, <1>3, <2>1, <3>1 DEF HasTrees
      <4>6. TreesOf(0, 0) + 1 = TreesOf(0, 0)' /\ Len(local_mts[0]) + First(Known) = 0
        BY <2>2, <3>1, <3>2, <4>2
      <4>7. pc'[0] \notin Committing
        BY <3>1 DEF Committing
      <4> QED BY <1>1, <1>2, <4>1, <4>2, <4>4, <4>5, <4>6, <4>7, NewTree
    <3>4. Has(mt_roots', 1) /\ Has(upper_mts', 1)
      BY <1>1, <2>4, IsOne DEF Has
    <3>5. IsSeq(fold'.v) /\ Len(fold'.v) = Mu + 1 /\ \A j \in 0..Mu : Size(D!V(j)') = D!L(j)
      <4>1. fold' = folds
        BY <1>1, <2>4
      <4>2. 0 \in 0..Mu
        BY Sizes
      <4> QED BY <1>4, <4>1, <4>2 DEF D!V
    <3>6. MasterHas'
      BY <1>1, <1>2, <1>8, <2>1, <3>1, <3>2, <3>4, <3>5 DEF MasterHas, Committing
    <3> QED BY <3>3, <3>6
  <2> QED BY <2>3, <2>4
<1>11. /\ ToGather(Known) = <<"root0", k, 0>> /\ ToTell(Known) = AfterDown(Known, <<"sizes", k, 0>>)
       /\ ToGather(Known)' = (IF more THEN <<"evals", k + 1, 0>>
                              ELSE IF D!IsBatch THEN <<"batch", 1, 0>> ELSE FromRound(Known, 1))
       /\ ToTell(Known)' = (IF more THEN <<"chunk", k + 1, 0>>
                            ELSE IF D!IsBatch THEN IF Ext(Known) THEN <<"broadcast", 0, 0>> ELSE <<"alpha", 1, 0>>
                            ELSE <<"alpha", 1, 0>>)
  <2>1. ToGather(Known) = <<"root0", k, 0>> /\ ToTell(Known) = AfterDown(Known, <<"sizes", k, 0>>)
    BY <1>1 DEF ToGather, ToTell
  <2>2. Len(mt0s'[0]) = k
    BY <1>1 DEF keptVars
  <2>3. CASE more
    BY <1>5, <2>1, <2>2, <2>3 DEF ToGather, ToTell
  <2>4. CASE ~more /\ D!IsBatch
    BY <1>1, <1>5, <2>1, <2>2, <2>4, Kept DEF ToGather, ToTell
  <2>5. CASE ~more /\ ~D!IsBatch
    BY <1>1, <1>5, <2>1, <2>2, <2>5, Kept DEF ToGather, ToTell
  <2> QED BY <2>3, <2>4, <2>5
<1>12. After(Known, <<"root0", k, 0>>) = ToGather(Known)'
  <2>1. After(Known, <<"root0", k, 0>>) = IF k < Commits(Known) THEN <<"evals", k + 1, 0>>
                                          ELSE IF Batch(Known) THEN <<"batch", 1, 0>> ELSE FromRound(Known, 1)
    BY AfterUpIs
  <2> QED BY ONLY <1>3, <1>11, <2>1
<1>13. ToTell(Known) = ToTell(Known)'
  <2>1. AfterDown(Known, <<"sizes", k, 0>>) =
          IF k < Commits(Known) THEN <<"chunk", k + 1, 0>>
          ELSE IF Ext(Known) THEN <<"broadcast", 0, 0>> ELSE <<"alpha", 1, 0>>
    BY DEF AfterDown
  <2> QED BY ONLY <1>3, <1>11, <2>1
<1>14. DOMAIN up' = Worker /\ \A w \in Worker : Between(Known, w, up'[w], ToGather(Known)', Sends(Known, w))
  BY <1>1, <1>11, <1>12, MasterTakesOne
<1>15. DOMAIN down' = Worker /\ \A w \in Worker : Between(Known', w, down'[w], Awaits(Known, w), ToTell(Known)')
  BY <1>1, <1>8, <1>13, DownAllStay
<1> QED BY <1>5, <1>8, <1>9, <1>10, <1>14, <1>15, MasterFrame

\* combines a batch,
LEMMA CombinesIs ==
  ASSUME IInv, Combines
  PROVE  /\ Alone(0) /\ Asked' = Asked /\ Known' = Known /\ More(Known, Known')
         /\ InPlace(0)' /\ HasTrees(0)' /\ MasterHas'
         /\ ToTell(Known) = (IF D!IsExt THEN <<"broadcast", 0, 0>> ELSE <<"alpha", 1, 0>>)
         /\ ToTell(Known)' = <<"alpha", 1, 0>>
         /\ DOMAIN up' = Worker
         /\ \A w \in Worker : Between(Known, w, up'[w], ToGather(Known)', Sends(Known, w))
<1> DEFINE n == Len(BatchOf)
           folds == D!BatchFold([k \in DOMAIN BatchOf |-> Concat(Gathered(k, PartOf(Tables[BatchOf[k]], 0)))],
                                D!IsExt, oracle)
           path == [j \in 1..(n + 1) |-> IF j =< n THEN <<"batch", j, 0>> ELSE FromRound(Known, 1)]
<1>1. /\ pc[0] = "batch" /\ Gathers(n, "elements") /\ fold' = folds /\ Becomes(0, "round")
      /\ UNCHANGED <<case, loopVars, treeVars, keptVars, comVars, rootVars, proofVars>>
  BY DEF Combines
<1>2. /\ 0 \in Party /\ InPlace(0) /\ HasTrees(0) /\ MasterHas /\ OfParties
      /\ DOMAIN up = Worker /\ DOMAIN down = Worker /\ kind \in Kinds /\ oracle \in Oracles
  BY MasterFacts
<1>3. \A i \in 0..Mu : IsSeq(folds.v) /\ Len(folds.v) = Mu + 1 /\ Size(folds.v[i + 1]) = D!L(i)
  <2>1. Codewords(folds.v, Mu)
    BY <1>2, FoldsOf
  <2> HIDE DEF folds
  <2> QED BY <2>1 DEF Codewords
<1> HIDE DEF folds
<1>4. Alone(0) /\ pc'[0] = "round"
  BY <1>1, <1>2 DEF Alone, OfParties, Becomes, keptVars, loopVars, treeVars
<1>5. Asked' = Asked /\ Known' = Known /\ More(Known, Known')
  BY <1>1, <1>4, KnownStays DEF keptVars, proofVars, loopVars
<1>6. /\ round[0] = 1 /\ queries[0] = 0 /\ D!IsBatch /\ Mu \in Nat /\ Mu >= 1 /\ S \in Nat
      /\ (D!IsExt <=> Ext(Known)) /\ n \in Nat /\ n >= 1 /\ 0 \in 0..Mu
  <2>1. D!IsExt <=> Ext(Known)
    BY <1>2, KindIs
  <2>2. round[0] = 1 /\ queries[0] = 0 /\ D!IsBatch
    BY <1>1, <1>2 DEF InPlace, Running
  <2>3. n \in Nat /\ n >= 1 /\ Mu \in Nat /\ Mu >= 1 /\ S \in Nat
    BY Sizes DEF IsSeq
  <2> HIDE DEF n
  <2> QED BY <2>1, <2>2, <2>3
<1>7. InPlace(0)' /\ HasTrees(0)' /\ MasterHas'
  <2>1. InPlace(0)'
    BY <1>1, <1>4, <1>6, Kept DEF InPlace, Committing, Running, FoldCalls, loopVars
  <2>2. /\ TreesOf(0, 0)' = TreesOf(0, 0) /\ TreesOf(0, 1)' = TreesOf(0, 1)
    BY <1>1, <1>4, Kept DEF TreesOf, Committing, Running, FoldCalls, loopVars
  <2>3. HasTrees(0)'
    BY <1>1, <1>2, <1>4, <2>2, TreesStay DEF treeVars, keptVars, Committing
  <2>4. IsSeq(fold'.v) /\ Len(fold'.v) = Mu + 1 /\ \A j \in 0..Mu : Size(D!V(j)') = D!L(j)
    BY <1>1, <1>3, <1>6 DEF D!V
  <2>5. queries'[0] = 0 /\ UNCHANGED <<proofs_for_t, mt_proofs, mt0_proofs, idx, mt_roots, upper_mts>>
    BY <1>1, <1>6 DEF proofVars, keptVars, rootVars, loopVars
  <2>6. MasterHas'
    BY <1>1, <1>2, <1>4, <1>5, <1>6, <2>2, <2>4, <2>5 DEF MasterHas, Committing
  <2> QED BY <2>1, <2>3, <2>6
<1>8. /\ ToGather(Known) = <<"batch", 1, 0>> /\ ToGather(Known)' = FromRound(Known, 1)
      /\ ToTell(Known) = (IF D!IsExt THEN <<"broadcast", 0, 0>> ELSE <<"alpha", 1, 0>>)
      /\ ToTell(Known)' = <<"alpha", 1, 0>>
  <2>1. ToGather(Known) = <<"batch", 1, 0>>
    BY <1>1 DEF ToGather
  <2>2. ToTell(Known) = IF D!IsExt THEN <<"broadcast", 0, 0>> ELSE <<"alpha", 1, 0>>
    BY <1>1, <1>6 DEF ToTell
  <2>3. ToGather(Known)' = FromRound(Known, 1) /\ ToTell(Known)' = <<"alpha", 1, 0>>
    BY <1>1, <1>4, <1>6, Kept DEF ToGather, ToTell, loopVars
  <2> QED BY <2>1, <2>2, <2>3
<1> HIDE DEF n
<1>9. path[1] = <<"batch", 1, 0>> /\ path[n + 1] = FromRound(Known, 1)
  BY <1>6
<1>10. ASSUME NEW j \in 1..n PROVE path[j + 1] = After(Known, path[j])
  <2>1. path[j] = <<"batch", j, 0>> /\ path[j + 1] = IF j < n THEN <<"batch", j + 1, 0>> ELSE FromRound(Known, 1)
    BY <1>6
  <2>2. After(Known, <<"batch", j, 0>>) = IF j < Len(BatchOf) THEN <<"batch", j + 1, 0>> ELSE FromRound(Known, 1)
    BY AfterUpIs
  <2> HIDE DEF path
  <2> QED BY <2>1, <2>2 DEF n
<1> HIDE DEF path
<1>11. /\ DOMAIN up' = Worker
       /\ \A w \in Worker : Between(Known, w, up'[w], path[n + 1], Sends(Known, w))
  <2>1. path[1] = ToGather(Known) /\ Gathers(n, "elements")
    BY <1>1, <1>8, <1>9
  <2> QED BY <1>6, <1>10, <2>1, MasterTakes
<1>12. \A w \in Worker : Between(Known, w, up'[w], ToGather(Known)', Sends(Known, w))
  BY <1>8, <1>9, <1>11
<1> QED BY <1>4, <1>5, <1>7, <1>8, <1>11, <1>12

\* in the base field,
LEMMA MasterBatchKeeps == ASSUME IInv, MasterBatch PROVE IInv'
<1>1. ~D!IsExt /\ Combines /\ UNCHANGED down
  BY DEF MasterBatch
<1>2. /\ Alone(0) /\ Asked' = Asked /\ Known' = Known /\ More(Known, Known')
      /\ InPlace(0)' /\ HasTrees(0)' /\ MasterHas' /\ ToTell(Known) = ToTell(Known)'
      /\ DOMAIN up' = Worker
      /\ \A w \in Worker : Between(Known, w, up'[w], ToGather(Known)', Sends(Known, w))
  BY <1>1, CombinesIs
<1>3. DOMAIN down' = Worker /\ \A w \in Worker : Between(Known', w, down'[w], Awaits(Known, w), ToTell(Known)')
  BY <1>1, <1>2, DownAllStay
<1> QED BY <1>2, <1>3, MasterFrame

\* and at extension points,
LEMMA MasterBatchExtKeeps == ASSUME IInv, MasterBatchExt PROVE IInv'
<1> DEFINE m == Msg("vectors", <<oracle.sumcheck, oracle.gamma, fold'.v[1]>>)
<1>1. D!IsExt /\ Combines /\ ToAll(<<m>>)
  BY DEF MasterBatchExt
<1>2. /\ Alone(0) /\ Asked' = Asked /\ Known' = Known /\ More(Known, Known')
      /\ InPlace(0)' /\ HasTrees(0)' /\ MasterHas'
      /\ ToTell(Known) = <<"broadcast", 0, 0>> /\ ToTell(Known)' = <<"alpha", 1, 0>>
      /\ DOMAIN up' = Worker
      /\ \A w \in Worker : Between(Known, w, up'[w], ToGather(Known)', Sends(Known, w))
  BY <1>1, CombinesIs
<1>3. \A w \in Worker : Is(Known', w, m, ToTell(Known))
  BY <1>2 DEF Is, Says, TypeOf, Ups, Expects, Msg, End
<1> HIDE DEF m
<1>4. After(Known', <<"broadcast", 0, 0>>) = <<"alpha", 1, 0>>
  BY AfterChunkIs
<1>5. /\ DOMAIN down' = Worker
      /\ \A w \in Worker : Between(Known', w, down'[w], Awaits(Known, w), After(Known', ToTell(Known)))
  BY <1>1, <1>2, <1>3, MasterTellsOne
<1>6. \A w \in Worker : Between(Known', w, down'[w], Awaits(Known, w), ToTell(Known)')
  BY <1>2, <1>4, <1>5
<1> QED BY <1>2, <1>5, <1>6, MasterFrame

\* One position more that the master has asked for.
Grown(list, b) == [j \in 1..(Len(list) + 1) |-> IF j =< Len(list) THEN list[j] ELSE b]

\* What it has told already stays told.
LEMMA AskedGrows ==
  ASSUME UNCHANGED case, MasterHas, InPlace(0), pc[0] = "query", idx'[0] = idx[0], NEW b \in Betas,
         Asked' = Grown(Asked, b)
  PROVE  /\ More(Known, Known') /\ Known'.asked = Asked' /\ Len(Asked') = queries[0] + 1
         /\ Asked'[queries[0] + 1] = b /\ b \in 0..(LenL0 - 1)
         /\ \A t \in 1..Len(Asked') : Asked'[t] \in 0..(LenL0 - 1)
<1> DEFINE n == Len(Asked)
           a == Asked
           new == Asked'
<1>1. /\ IsSeq(a) /\ n \in Nat /\ n = queries[0] /\ Known.asked = a /\ Known.idx = idx[0] /\ Known.kind = kind
      /\ \A t \in 1..n : a[t] \in 0..(LenL0 - 1)
  BY AskedIs DEF MasterHas, Has, IsSeq
<1>2. Known'.asked = new /\ Known'.idx = idx'[0] /\ Known'.kind = kind'
  BY DEF Known
<1>3. new = [j \in 1..(n + 1) |-> IF j =< n THEN a[j] ELSE b]
  BY DEF Grown
<1>4. b \in 0..(LenL0 - 1)
  BY QueryAssumption
<1> HIDE DEF n, a, new
<1>5. DOMAIN new = 1..(n + 1) /\ new = [j \in 1..(n + 1) |-> new[j]]
  BY <1>3
<1>6. Len(new) = n + 1
  BY <1>1, <1>5, IsIndexed
<1>7. new[n + 1] = b /\ \A t \in 1..n : new[t] = a[t]
  BY <1>1, <1>3
<1>8. \A t \in 1..(n + 1) : t \in 1..n \/ t = n + 1
  BY <1>1
<1>9. \A t \in 1..(n + 1) : new[t] \in 0..(LenL0 - 1)
  BY <1>1, <1>4, <1>7, <1>8
<1>10. More(Known, Known')
  <2>1. Len(a) = n
    BY DEF a, n
  <2>2. kind' = kind
    BY DEF case
  <2> HIDE DEF Known
  <2> QED BY <1>1, <1>2, <1>6, <1>7, <2>1, <2>2 DEF More
<1> QED BY <1>1, <1>2, <1>4, <1>6, <1>7, <1>9, <1>10 DEF new, n, a

\* asks for a position,
LEMMA MasterQueryKeeps == ASSUME IInv, NEW b \in Betas, MasterQuery(b) PROVE IInv'
<1> DEFINE t == queries[0]
           m == Msg("usize", b)
           opening == D!OpenWithoutProof(D!V(0), b)
<1>1. /\ pc[0] = "query" /\ t < S /\ ~D!IsExt /\ ToAll(<<m>>) /\ StartsQuery(0, b)
      /\ proofs_for_t' = (IF D!IsBatch THEN <<opening>> ELSE <<>>)
      /\ UNCHANGED <<case, queries, treeVars, keptVars, comVars, beginVars, rootVars, mt_proofs, mt0_proofs, up>>
  BY DEF MasterQuery, Asks
<1>2. /\ 0 \in Party /\ InPlace(0) /\ HasTrees(0) /\ MasterHas /\ OfParties
      /\ DOMAIN up = Worker /\ DOMAIN down = Worker /\ kind \in Kinds /\ oracle \in Oracles
  BY MasterFacts
<1>3. opening.x = b
  BY DEF D!OpenWithoutProof, D!Opening
<1> HIDE DEF opening
<1>4. /\ Alone(0) /\ pc'[0] = "prove" /\ round'[0] = (IF D!IsBatch THEN 1 ELSE 0)
      /\ beta'[0] = (IF D!IsBatch THEN D!NextBeta(0, b) ELSE b)
  BY <1>1, <1>2 DEF Alone, OfParties, Becomes, StartsQuery, treeVars, keptVars
<1>5. /\ round'[0] = First(Known) /\ First(Known) \in 0..(Mu - 1) /\ First(Known) \in Nat /\ Mu \in Nat
      /\ t < S /\ ~D!IsExt /\ ~Ext(Known) /\ t \in Nat /\ S \in Nat
  <2>1. t < S /\ ~D!IsExt /\ t \in Nat
    BY <1>1, <1>2 DEF InPlace
  <2>2. First(Known) = (IF D!IsBatch THEN 1 ELSE 0) /\ First(Known) < Mu /\ ~Ext(Known)
    BY <1>2, <2>1, KindIs
  <2> QED BY <1>4, <2>1, <2>2, Sizes
<1>6. Asked' = Grown(Asked, b)
  <2>1. /\ IsSeq(mt_proofs) /\ Len(Asked) = Len(mt_proofs) + 0
        /\ \A j \in 1..Len(mt_proofs) : Asked[j] = mt_proofs[j][1].x
    BY <1>1, <1>2, AskedIs
  <2>2. Len(mt_proofs) \in Nat
    BY <2>1 DEF IsSeq
  <2>3. (IF proofs_for_t' # <<>> THEN proofs_for_t'[1].x ELSE beta'[0]) = b
    <3>1. CASE D!IsBatch
      <4>1. proofs_for_t' = <<opening>>
        BY <1>1, <3>1
      <4>2. proofs_for_t' # <<>> /\ proofs_for_t'[1] = opening
        BY <4>1, IsOne
      <4> QED BY <1>3, <4>2
    <3>2. CASE ~D!IsBatch
      BY <1>1, <1>4, <3>2
    <3> QED BY <3>1, <3>2
  <2>4. Asked' = [j \in 1..(Len(mt_proofs) + 1) |-> IF j =< Len(mt_proofs) THEN mt_proofs[j][1].x ELSE b]
    BY <1>1, <1>4, <2>3 DEF Asked
  <2>5. Len(Asked) = Len(mt_proofs)
    BY <2>1, <2>2
  <2> HIDE DEF Asked
  <2>6. \A j \in 1..(Len(mt_proofs) + 1) :
          (IF j =< Len(mt_proofs) THEN mt_proofs[j][1].x ELSE b) = IF j =< Len(mt_proofs) THEN Asked[j] ELSE b
    BY <2>1, <2>2
  <2> QED BY <2>4, <2>5, <2>6 DEF Grown
<1>7. /\ More(Known, Known') /\ Known'.asked = Asked' /\ Len(Asked') = t + 1 /\ Asked'[t + 1] = b
      /\ b \in 0..(LenL0 - 1) /\ \A j \in 1..Len(Asked') : Asked'[j] \in 0..(LenL0 - 1)
  BY <1>1, <1>2, <1>6, AskedGrows DEF keptVars
<1>8. beta'[0] = b % D!L(round'[0])
  <2>1. b \in Nat /\ b % D!L(0) = b
    BY <1>7, FirstBeta
  <2>2. CASE D!IsBatch
    <3>1. 0 \in 0..(Mu - 1)
      BY <1>4, <1>5, <2>2
    <3>2. D!NextBeta(0, b % D!L(0)) = b % D!L(0 + 1)
      BY <2>1, <3>1, NextBetaIs
    <3>3. round'[0] = 0 + 1 /\ beta'[0] = D!NextBeta(0, b)
      BY <1>4, <2>2
    <3> QED BY <2>1, <3>2, <3>3
  <2>3. CASE ~D!IsBatch
    BY <1>4, <2>1, <2>3
  <2> QED BY <2>2, <2>3
<1>9. InPlace(0)' /\ HasTrees(0)' /\ MasterHas'
  <2>1. InPlace(0)'
    <3>1. queries'[0] = t /\ ~D!IsExt' /\ First(Known)' = First(Known) /\ S \in Nat
      BY <1>1, <1>5, Kept, Sizes
    <3>2. First(Known) \in First(Known)..(Mu - 1) /\ First(Known) \in 0..Mu /\ t \in 0..S
      BY <1>5, <3>1
    <3> QED BY <1>4, <1>5, <3>1, <3>2 DEF InPlace, Committing, Running, FoldCalls
  <2>2. TreesOf(0, 0)' = TreesOf(0, 0) /\ TreesOf(0, 1)' = TreesOf(0, 1)
    BY <1>1, <1>4, Kept DEF TreesOf, Committing, Running, FoldCalls
  <2>3. HasTrees(0)'
    BY <1>1, <1>2, <1>4, <2>2, TreesStay DEF treeVars, keptVars, Committing
  <2>4. IsSeq(fold'.v) /\ Len(fold'.v) = Mu + 1 /\ \A j \in 0..Mu : Size(D!V(j)') = D!L(j)
    BY <1>1, <1>2 DEF MasterHas, Committing, beginVars, D!V
  <2>5. queries'[0] = t /\ UNCHANGED <<mt_proofs, mt0_proofs, idx, mt_roots, upper_mts>>
    BY <1>1 DEF keptVars, rootVars
  <2>6. Has(proofs_for_t', round'[0])
    <3>1. CASE D!IsBatch
      BY <1>1, <1>4, <3>1, IsOne DEF Has
    <3>2. CASE ~D!IsBatch
      BY <1>1, <1>4, <3>2, IsEmpty DEF Has
    <3> QED BY <3>1, <3>2
  <2>7. MasterHas'
    <3> HIDE DEF t
    <3> QED BY <1>1, <1>2, <1>4, <1>7, <1>8, <2>2, <2>4, <2>5, <2>6 DEF MasterHas, Committing
  <2> QED BY <2>1, <2>3, <2>7
<1>10. /\ ToGather(Known)' = ToGather(Known) /\ ToTell(Known) = <<"beta", t, 0>>
       /\ ToTell(Known)' = AfterDown(Known, <<"beta", t, 0>>)
  <2>1. ToGather(Known) = FromProof(Known, t, First(Known)) /\ ToTell(Known) = <<"beta", t, 0>>
    BY <1>1, <1>5 DEF ToGather, ToTell
  <2>2. ToGather(Known)' = FromProof(Known, t, First(Known)) /\ ToTell(Known)' = AfterDown(Known, <<"beta", t, 0>>)
    BY <1>1, <1>4, <1>5, Kept DEF ToGather, ToTell
  <2> QED BY <2>1, <2>2
<1>11. DOMAIN up' = Worker /\ \A w \in Worker : Between(Known, w, up'[w], ToGather(Known)', Sends(Known, w))
  <2>1. DOMAIN up' = Worker /\ \A w \in Worker : Between(Known, w, up'[w], ToGather(Known), Sends(Known, w))
    BY <1>1, UpAllStay
  <2> QED BY <1>10, <2>1
<1>12. \A w \in Worker : Is(Known', w, m, ToTell(Known))
  <2>1. AskedAt(Known', t, b)
    <3>1. t + 1 \in 1..Len(Asked')
      BY <1>5, <1>7
    <3> QED BY <1>7, <3>1 DEF AskedAt
  <2> HIDE DEF t
  <2> QED BY <1>10, <2>1 DEF Is, Says, TypeOf, Ups, Expects, Msg, End
<1> HIDE DEF m
<1>13. /\ DOMAIN down' = Worker
       /\ \A w \in Worker : Between(Known', w, down'[w], Awaits(Known, w), After(Known', ToTell(Known)))
  BY <1>1, <1>7, <1>12, MasterTellsOne
<1>14. After(Known', ToTell(Known)) = ToTell(Known)'
  <2>1. After(Known', <<"beta", t, 0>>) = AfterDown(Known', <<"beta", t, 0>>)
    BY DEF After, Ups
  <2>2. AfterDown(Known', <<"beta", t, 0>>) = AfterDown(Known, <<"beta", t, 0>>)
    <3>1. AfterDown(Known, <<"beta", t, 0>>)' = AfterDown(Known, <<"beta", t, 0>>)
      <4>1. queries'[0] = queries[0]
        BY <1>1
      <4> QED BY <1>1, <4>1, Kept DEF AfterDown
    <3>2. /\ AfterDown(Known', <<"beta", t, 0>>) = IF t + 1 < S THEN <<"beta", t + 1, 0>>
                          ELSE IF Batch(Known') THEN <<"idx", 0, 0>> ELSE End
          /\ AfterDown(Known, <<"beta", t, 0>>) = IF t + 1 < S THEN <<"beta", t + 1, 0>>
                          ELSE IF Batch(Known) THEN <<"idx", 0, 0>> ELSE End
      BY DEF AfterDown
    <3>3. Batch(Known') <=> Batch(Known)
      BY <1>1 DEF Batch, Known, case
    <3> QED BY ONLY <3>2, <3>3
  <2> QED BY <1>10, <2>1, <2>2
<1> QED BY <1>4, <1>7, <1>9, <1>11, <1>13, <1>14, MasterFrame

\* answers one at an extension point,
LEMMA MasterQueryExtKeeps == ASSUME IInv, NEW b \in Betas, MasterQueryExt(b) PROVE IInv'
<1> DEFINE t == queries[0]
           openings == [k \in 1..Mu |->
             IF k = 1 THEN D!OpenWithoutProof(D!V(0), b)
             ELSE OpenAt(local_mts[0][k - 1], D!V(k - 1), D!BetaAt(b)[k - 1])]
<1>1. /\ pc[0] = "query" /\ t < S /\ D!IsExt /\ mt_proofs' = Append(mt_proofs, openings)
      /\ queries' = [queries EXCEPT ![0] = t + 1]
      /\ IF t + 1 < S THEN UNCHANGED pc ELSE Becomes(0, "idx")
      /\ UNCHANGED <<round, beta, proofs_for_t, down>>
      /\ UNCHANGED <<case, treeVars, keptVars, comVars, beginVars, rootVars, mt0_proofs, up>>
  BY DEF MasterQueryExt, Asks
<1>2. /\ 0 \in Party /\ InPlace(0) /\ HasTrees(0) /\ MasterHas /\ OfParties
      /\ DOMAIN up = Worker /\ DOMAIN down = Worker /\ kind \in Kinds /\ oracle \in Oracles
  BY MasterFacts
<1>3. openings[1].x = b
  <2>1. 1 \in 1..Mu
    BY Sizes
  <2>2. openings[1] = D!OpenWithoutProof(D!V(0), b)
    BY <2>1
  <2>3. D!OpenWithoutProof(D!V(0), b).x = b
    BY DEF D!OpenWithoutProof, D!Opening
  <2> QED BY <2>2, <2>3
<1> HIDE DEF openings
<1>4. /\ Alone(0) /\ pc'[0] = (IF t + 1 < S THEN "query" ELSE "idx") /\ queries'[0] = t + 1 /\ round'[0] = round[0]
  <2>1. CASE t + 1 < S
    BY <1>1, <1>2, <2>1 DEF Alone, OfParties, treeVars, keptVars
  <2>2. CASE ~(t + 1 < S)
    BY <1>1, <1>2, <2>2 DEF Alone, OfParties, Becomes, treeVars, keptVars
  <2> QED BY <2>1, <2>2
<1>5. /\ Mu \in Nat /\ t < S /\ t \in Nat /\ S \in Nat /\ t + 1 =< S /\ (~(t + 1 < S) => t + 1 = S)
      /\ D!IsBatch /\ Ext(Known) /\ round[0] \in 0..Mu
  <2>1. t < S /\ t \in Nat /\ round[0] \in 0..Mu
    BY <1>1, <1>2 DEF InPlace
  <2>2. D!IsBatch /\ Ext(Known)
    BY <1>1, <1>2, KindIs
  <2> HIDE DEF t
  <2> QED BY <2>1, <2>2, Sizes
<1>6. Asked' = Grown(Asked, b) /\ Has(mt_proofs', t + 1)
  <2>1. /\ IsSeq(mt_proofs) /\ Len(Asked) = Len(mt_proofs) + 0 /\ Has(mt_proofs, t)
        /\ \A j \in 1..Len(mt_proofs) : Asked[j] = mt_proofs[j][1].x
    BY <1>1, <1>2, AskedIs DEF MasterHas
  <2>2. Len(mt_proofs) = t
    BY <2>1 DEF Has
  <2>3. /\ IsSeq(mt_proofs') /\ Len(mt_proofs') = t + 1 /\ mt_proofs'[t + 1] = openings
        /\ \A j \in 1..t : mt_proofs'[j] = mt_proofs[j]
    BY <1>1, <2>1, <2>2, IsAppend
  <2>4. Asked' = [j \in 1..(Len(mt_proofs') + 0) |->
                    IF j =< Len(mt_proofs') THEN mt_proofs'[j][1].x
                    ELSE IF proofs_for_t' # <<>> THEN proofs_for_t'[1].x ELSE beta'[0]]
    BY <1>4 DEF Asked
  <2>5. Len(Asked) = t
    BY <1>5, <2>1, <2>2
  <2> HIDE DEF Asked, t
  <2>6. Len(mt_proofs') + 0 = t + 1
    BY <1>5, <2>3
  <2>7. \A j \in 1..(t + 1) :
          (IF j =< t + 1 THEN mt_proofs'[j][1].x
           ELSE IF proofs_for_t' # <<>> THEN proofs_for_t'[1].x ELSE beta'[0])
          = IF j =< t THEN Asked[j] ELSE b
    <3>1. \A j \in 1..(t + 1) : j =< t + 1 /\ (j =< t => j \in 1..t) /\ (~(j =< t) => j = t + 1)
      BY <1>5
    <3> QED BY <1>3, <2>1, <2>2, <2>3, <3>1
  <2> QED BY <2>3, <2>4, <2>5, <2>6, <2>7 DEF Grown, Has
<1>7. /\ More(Known, Known') /\ Known'.asked = Asked'
      /\ b \in 0..(LenL0 - 1) /\ \A j \in 1..Len(Asked') : Asked'[j] \in 0..(LenL0 - 1)
  BY <1>1, <1>2, <1>6, AskedGrows DEF keptVars
<1>8. InPlace(0)' /\ HasTrees(0)' /\ MasterHas'
  <2>1. InPlace(0)'
    <3>1. D!IsBatch' /\ t + 1 \in 0..S
      BY <1>1, <1>5, Kept
    <3> HIDE DEF t
    <3> QED BY <1>4, <1>5, <3>1 DEF InPlace, Committing, Running, FoldCalls
  <2>2. TreesOf(0, 0)' = TreesOf(0, 0) /\ TreesOf(0, 1)' = TreesOf(0, 1)
    BY <1>1, <1>4, Kept DEF TreesOf, Committing, Running, FoldCalls
  <2>3. HasTrees(0)'
    BY <1>1, <1>2, <1>4, <2>2, TreesStay DEF treeVars, keptVars, Committing
  <2>4. IsSeq(fold'.v) /\ Len(fold'.v) = Mu + 1 /\ \A j \in 0..Mu : Size(D!V(j)') = D!L(j)
    BY <1>1, <1>2 DEF MasterHas, Committing, beginVars, D!V
  <2>5. UNCHANGED <<proofs_for_t, mt0_proofs, idx, mt_roots, upper_mts>>
    BY <1>1 DEF keptVars, rootVars
  <2>6. Has(mt_proofs', IF pc'[0] \in {"idx", "x0", "mt0", "done"} THEN S ELSE queries'[0])
    <3> HIDE DEF t
    <3>1. CASE t + 1 < S
      BY <1>4, <1>6, <3>1
    <3>2. CASE ~(t + 1 < S)
      BY <1>4, <1>5, <1>6, <3>2
    <3> QED BY <3>1, <3>2
  <2>7. MasterHas'
    <3>1. pc'[0] \in {"query", "idx"}
      BY <1>4
    <3> HIDE DEF t
    <3> QED BY <1>1, <1>2, <1>7, <2>2, <2>4, <2>5, <2>6, <3>1 DEF MasterHas, Committing
  <2> QED BY <2>1, <2>3, <2>7
<1>9. ToGather(Known)' = ToGather(Known) /\ ToTell(Known)' = ToTell(Known)
  <2>1. Ext(Known)' = Ext(Known)
    BY <1>1, Kept
  <2>2. ToGather(Known) = <<"mt0", 0, 1>> /\ ToTell(Known) = <<"idx", 0, 0>>
    BY <1>1, <1>5 DEF ToGather, ToTell
  <2>3. ToGather(Known)' = <<"mt0", 0, 1>> /\ ToTell(Known)' = <<"idx", 0, 0>>
    <3> HIDE DEF t
    <3>1. CASE t + 1 < S
      BY <1>4, <1>5, <2>1, <3>1 DEF ToGather, ToTell
    <3>2. CASE ~(t + 1 < S)
      BY <1>4, <1>5, <2>1, <3>2 DEF ToGather, ToTell
    <3> QED BY <3>1, <3>2
  <2> QED BY <2>2, <2>3
<1>10. DOMAIN up' = Worker /\ \A w \in Worker : Between(Known, w, up'[w], ToGather(Known)', Sends(Known, w))
  <2>1. DOMAIN up' = Worker /\ \A w \in Worker : Between(Known, w, up'[w], ToGather(Known), Sends(Known, w))
    BY <1>1, UpAllStay
  <2> QED BY <1>9, <2>1
<1>11. DOMAIN down' = Worker /\ \A w \in Worker : Between(Known', w, down'[w], Awaits(Known, w), ToTell(Known)')
  <2>1. DOMAIN down' = Worker /\ \A w \in Worker : Between(Known', w, down'[w], Awaits(Known, w), ToTell(Known))
    BY <1>1, <1>7, DownAllStay
  <2> QED BY <1>9, <2>1
<1> QED BY <1>4, <1>7, <1>8, <1>10, <1>11, MasterFrame

\* puts an opening together,
LEMMA OpenedIs ==
  ASSUME IInv, pc[0] = "prove", NEW proof, Opened(proof)
  PROVE  /\ Alone(0) /\ Known' = Known /\ More(Known, Known')
         /\ InPlace(0)' /\ HasTrees(0)' /\ MasterHas' /\ ToTell(Known)' = ToTell(Known)
         /\ ToGather(Known) = FromProof(Known, queries[0], round[0])
         /\ ToGather(Known)' = FromProof(Known, queries[0], round[0] + 1)
<1> DEFINE t == queries[0]
           i == round[0]
           f == First(Known)
           x == Asked[t + 1]
           o == Opening(D!V(i), beta[0], LeafElements(D!V(i), LocalBeta(0), Step(0), MyTree(0).leaf_size), proof)
           openings == Append(proofs_for_t, o)
           last == ~(i + 1 < Mu)
           next == IF ~last THEN "prove" ELSE IF t + 1 < S THEN "query" ELSE IF D!IsBatch THEN "idx" ELSE "done"
<1>1. /\ Proved(0, "query")
      /\ proofs_for_t' = (IF last THEN <<>> ELSE openings)
      /\ mt_proofs' = (IF last THEN Append(mt_proofs, openings) ELSE mt_proofs)
      /\ UNCHANGED <<case, treeVars, keptVars, comVars, beginVars, rootVars, mt0_proofs, transcript, down>>
  BY DEF Opened
<1>2. /\ 0 \in Party /\ InPlace(0) /\ HasTrees(0) /\ MasterHas /\ OfParties
      /\ DOMAIN up = Worker /\ DOMAIN down = Worker /\ kind \in Kinds /\ oracle \in Oracles
  BY MasterFacts
<1>3. /\ i \in 0..(Mu - 1) /\ Mu \in Nat /\ f =< i /\ f \in Nat
      /\ t \in Nat /\ t < S /\ S \in Nat /\ ~D!IsExt
      /\ f = (IF D!IsBatch THEN 1 ELSE 0)
  BY <1>2, TreeAt
<1>4. /\ Alone(0) /\ pc'[0] = next /\ round'[0] = i + 1 /\ beta'[0] = D!NextBeta(i, beta[0])
      /\ queries'[0] = IF last THEN t + 1 ELSE t
  <2>1. Alone(0)
    BY <1>1, <1>2 DEF Alone, OfParties, Becomes, Proved, FoldBeta, treeVars, keptVars
  <2>2. round'[0] = i + 1 /\ beta'[0] = D!NextBeta(i, beta[0])
    BY <1>1, <1>2 DEF OfParties, Proved, FoldBeta
  <2>3. pc'[0] = next /\ queries'[0] = IF last THEN t + 1 ELSE t
    BY <1>1, <1>2 DEF OfParties, Proved, Becomes
  <2> QED BY <2>1, <2>2, <2>3
<1>5. /\ IsSeq(mt_proofs) /\ Len(mt_proofs) = t /\ Len(Asked) = t + 1 /\ IsSeq(Asked)
      /\ \A j \in 1..t : Asked[j] = mt_proofs[j][1].x
      /\ x = (IF proofs_for_t # <<>> THEN proofs_for_t[1].x ELSE beta[0])
      /\ Has(proofs_for_t, i) /\ beta[0] = x % D!L(i) /\ x \in 0..(LenL0 - 1) /\ Known.idx = idx[0] /\ Known.asked = Asked
      /\ \A j \in 1..Len(Asked) : Asked[j] \in 0..(LenL0 - 1)
  <2>1. Has(mt_proofs, t) /\ Has(proofs_for_t, i) /\ beta[0] = x % D!L(i)
        /\ \A j \in 1..Len(Asked) : Asked[j] \in 0..(LenL0 - 1)
    BY <1>2 DEF MasterHas
  <2>2. /\ IsSeq(Asked) /\ IsSeq(mt_proofs) /\ Len(Asked) = Len(mt_proofs) + 1
        /\ \A j \in 1..Len(Asked) : Asked[j] =
             IF j =< Len(mt_proofs) THEN mt_proofs[j][1].x
             ELSE IF proofs_for_t # <<>> THEN proofs_for_t[1].x ELSE beta[0]
        /\ Known.idx = idx[0] /\ Known.asked = Asked
    BY <1>2, AskedIs
  <2>3. Len(mt_proofs) = t
    BY <2>1 DEF Has
  <2>4. Len(Asked) = t + 1 /\ t + 1 \in 1..Len(Asked) /\ ~(t + 1 =< t) /\ \A j \in 1..t : j \in 1..Len(Asked) /\ j =< t
    BY <1>3, <2>2, <2>3
  <2> QED BY <2>1, <2>2, <2>3, <2>4
<1>6. /\ IsSeq(openings) /\ Len(openings) = i + 1 /\ openings # <<>> /\ openings[1].x = x
  <2>1. IsSeq(proofs_for_t) /\ Len(proofs_for_t) = i
    BY <1>5 DEF Has
  <2>2. o.x = beta[0]
    BY DEF Opening
  <2> HIDE DEF o, x
  <2>3. /\ IsSeq(openings) /\ Len(openings) = i + 1 /\ openings[i + 1] = o
        /\ \A j \in 1..i : openings[j] = proofs_for_t[j]
    BY <2>1, IsAppend
  <2> HIDE DEF openings, i
  <2>4. openings # <<>>
    BY <1>3, <2>3, IsEmpty
  <2>5. CASE i = 0
    <3>1. proofs_for_t = <<>>
      BY <2>1, <2>5 DEF IsSeq
    <3> QED BY <1>5, <2>2, <2>3, <2>4, <2>5, <3>1
  <2>6. CASE i # 0
    <3>1. 1 \in 1..i /\ proofs_for_t # <<>>
      BY <1>3, <2>1, <2>6, IsEmpty
    <3> QED BY <1>5, <2>3, <2>4, <3>1
  <2> QED BY <2>5, <2>6
<1> HIDE DEF openings
<1>7. Asked' = Asked /\ Has(mt_proofs', IF last THEN t + 1 ELSE t) /\ Has(proofs_for_t', IF last THEN 0 ELSE i + 1)
  <2>1. Asked = [j \in 1..(t + 1) |-> Asked[j]]
    BY <1>5 DEF IsSeq
  <2> HIDE DEF x, t, i
  <2>2. CASE last
    <3>1. /\ IsSeq(mt_proofs') /\ Len(mt_proofs') = t + 1 /\ mt_proofs'[t + 1] = openings
          /\ \A j \in 1..t : mt_proofs'[j] = mt_proofs[j]
      BY <1>1, <1>5, <2>2, IsAppend
    <3>2. pc'[0] # "prove"
      BY <1>4, <2>2
    <3>3. Asked' = [j \in 1..(Len(mt_proofs') + 0) |->
                    IF j =< Len(mt_proofs') THEN mt_proofs'[j][1].x
                    ELSE IF proofs_for_t' # <<>> THEN proofs_for_t'[1].x ELSE beta'[0]]
      BY <3>2 DEF Asked
    <3>4. Len(mt_proofs') + 0 = t + 1
      BY <1>3, <3>1
    <3> HIDE DEF Asked
    <3>5. \A j \in 1..(t + 1) :
            (IF j =< t + 1 THEN mt_proofs'[j][1].x
             ELSE IF proofs_for_t' # <<>> THEN proofs_for_t'[1].x ELSE beta'[0]) = Asked[j]
      <4>1. \A j \in 1..(t + 1) : j =< t + 1 /\ (j \in 1..t \/ j = t + 1)
        BY <1>3
      <4>2. Asked[t + 1] = openings[1].x
        BY <1>6 DEF x, t
      <4> QED BY <1>5, <3>1, <4>1, <4>2
    <3>6. Asked' = Asked
      BY <2>1, <3>1, <3>3, <3>4, <3>5
    <3>7. Has(mt_proofs', t + 1) /\ Has(proofs_for_t', 0)
      BY <1>1, <2>2, <3>1, IsEmpty DEF Has
    <3> QED BY <2>2, <3>6, <3>7
  <2>3. CASE ~last
    <3>1. mt_proofs' = mt_proofs /\ proofs_for_t' = openings /\ pc'[0] = "prove"
      BY <1>1, <1>4, <2>3
    <3>2. Asked' = [j \in 1..(t + 1) |->
                    IF j =< t THEN mt_proofs[j][1].x ELSE openings[1].x]
      BY <1>5, <1>6, <3>1 DEF Asked
    <3> HIDE DEF Asked
    <3>3. \A j \in 1..(t + 1) : (IF j =< t THEN mt_proofs[j][1].x ELSE openings[1].x) = Asked[j]
      <4>1. \A j \in 1..(t + 1) : (j =< t => j \in 1..t) /\ (~(j =< t) => j = t + 1)
        BY <1>3
      <4>2. Asked[t + 1] = openings[1].x
        BY <1>6 DEF x, t
      <4> QED BY <1>5, <4>1, <4>2
    <3>4. Asked' = Asked
      BY <2>1, <3>2, <3>3
    <3>5. Has(mt_proofs', t) /\ Has(proofs_for_t', i + 1)
      BY <1>5, <1>6, <3>1 DEF Has
    <3> QED BY <2>3, <3>4, <3>5
  <2> QED BY <2>2, <2>3
<1>8. Known' = Known /\ More(Known, Known')
  <2>1. Known' = Known
    BY <1>1, <1>7 DEF Known, case, keptVars
  <2>2. Len(Known.asked) \in Nat
    BY <1>5 DEF IsSeq
  <2> HIDE DEF Known
  <2> QED BY <2>1, <2>2 DEF More
<1>9. beta'[0] = x % D!L(i + 1)
  <2>1. x \in Nat
    BY <1>5, FirstBeta
  <2> HIDE DEF x
  <2> QED BY <1>3, <1>4, <1>5, <2>1, NextBetaIs
<1>10. InPlace(0)' /\ HasTrees(0)' /\ MasterHas'
  <2>1. f' = f /\ ~D!IsExt' /\ D!IsBatch' = D!IsBatch
    BY <1>1, <1>3, Kept
  <2> HIDE DEF f, t, i
  <2>2. InPlace(0)'
    <3>1. CASE ~last
      BY <1>3, <1>4, <2>1, <3>1 DEF InPlace, Committing, Running, FoldCalls, f
    <3>2. CASE last /\ t + 1 < S
      BY <1>3, <1>4, <2>1, <3>2 DEF InPlace, Committing, Running, FoldCalls
    <3>3. CASE last /\ ~(t + 1 < S)
      BY <1>3, <1>4, <2>1, <3>3 DEF InPlace, Committing, Running, FoldCalls
    <3> QED BY <3>1, <3>2, <3>3
  <2>3. pc'[0] \notin Committing \cup Running \cup {"batch"} /\ pc[0] \notin Committing \cup Running \cup {"batch"}
    BY <1>4 DEF Committing, Running, FoldCalls
  <2>4. TreesOf(0, 0)' = TreesOf(0, 0) /\ TreesOf(0, 1)' = TreesOf(0, 1)
    BY <2>1, <2>3 DEF TreesOf, f
  <2>5. HasTrees(0)'
    <3>1. pc'[0] \notin {"evals", "chunk", "sizes"} /\ pc'[0] # "roots0"
      BY <2>3 DEF Committing
    <3> QED BY <1>1, <1>2, <2>3, <2>4, <3>1, TreesStay DEF treeVars, keptVars
  <2>6. IsSeq(fold'.v) /\ Len(fold'.v) = Mu + 1 /\ \A j \in 0..Mu : Size(D!V(j)') = D!L(j)
    BY <1>1, <1>2, <2>3 DEF MasterHas, beginVars, D!V
  <2>7. UNCHANGED <<mt0_proofs, idx, mt_roots, upper_mts>>
    BY <1>1 DEF keptVars, rootVars
  <2>8. CASE ~last
    <3>1. /\ pc'[0] = "prove" /\ queries'[0] = t /\ round'[0] = i + 1
          /\ Has(mt_proofs', t) /\ Has(proofs_for_t', i + 1)
      BY <1>4, <1>7, <2>8
    <3>2. beta'[0] = Asked[queries'[0] + 1] % D!L(round'[0])
      BY <1>9, <3>1 DEF x, t
    <3>3. MasterHas'
      BY <1>2, <1>5, <1>7, <2>1, <2>4, <2>6, <2>7, <3>1, <3>2 DEF MasterHas, Committing
    <3> QED BY <2>2, <2>5, <3>3
  <2>9. CASE last
    <3>1. /\ pc'[0] \in {"query", "idx", "done"} /\ queries'[0] = t + 1 /\ (pc'[0] # "query" => t + 1 = S)
          /\ (pc'[0] = "done" => ~D!IsBatch) /\ Has(mt_proofs', t + 1) /\ Has(proofs_for_t', 0)
      BY <1>3, <1>4, <1>7, <2>9
    <3>2. Has(mt_proofs', IF pc'[0] \in {"idx", "x0", "mt0", "done"} THEN S ELSE queries'[0])
      <4>1. CASE pc'[0] = "query"
        BY <3>1, <4>1
      <4>2. CASE pc'[0] # "query"
        BY <3>1, <4>2
      <4> QED BY <4>1, <4>2
    <3>3. Has(mt0_proofs', 0) /\ idx'[0] = <<>>
      BY <1>2, <2>7 DEF MasterHas
    <3>4. MasterHas'
      <4>1. ~(pc'[0] \in {"x0", "mt0", "done"} /\ D!IsBatch')
        BY <2>1, <3>1
      <4> QED BY <1>2, <1>5, <1>7, <2>1, <2>4, <2>6, <2>7, <3>1, <3>2, <3>3, <4>1 DEF MasterHas, Committing
    <3> QED BY <2>2, <2>5, <3>4
  <2> QED BY <2>8, <2>9
<1>11. ToGather(Known) = FromProof(Known, t, i)
  BY DEF ToGather
<1>12. FromProof(Known, t, i + 1) = ToGather(Known)'
  <2>1. f < Mu
    BY <1>3
  <2>2. last => i + 1 = Mu
    BY <1>3
  <2>3. FromProof(Known, t, Mu) = IF t + 1 < S THEN FromProof(Known, t + 1, f)
                                  ELSE IF D!IsBatch THEN <<"mt0", 0, 1>> ELSE End
    BY <1>2, <1>3, <2>1, ProofDue, KindIs
  <2>4. ToGather(Known)' = IF ~last THEN FromProof(Known, t, i + 1)
                           ELSE IF t + 1 < S THEN FromProof(Known, t + 1, f)
                           ELSE IF D!IsBatch THEN <<"mt0", 0, 1>> ELSE End
    <3>1. ~Ext(Known)'
      BY <1>1, <1>2, <1>3, Kept, KindIs
    <3> QED BY <1>1, <1>4, <3>1, Kept DEF ToGather
  <2> QED BY <2>2, <2>3, <2>4
<1>13. ToTell(Known)' = ToTell(Known)
  <2>1. ToTell(Known) = AfterDown(Known, <<"beta", t, 0>>)
    BY DEF ToTell
  <2>2. AfterDown(Known, <<"beta", t, 0>>) = IF t + 1 < S THEN <<"beta", t + 1, 0>>
                                            ELSE IF D!IsBatch THEN <<"idx", 0, 0>> ELSE End
    <3>1. Batch(Known) <=> D!IsBatch
      BY <1>2, KindIs
    <3> QED BY <3>1 DEF AfterDown
  <2>3. ToTell(Known)' = IF ~last THEN AfterDown(Known, <<"beta", t, 0>>)
                            ELSE IF t + 1 < S THEN <<"beta", t + 1, 0>>
                            ELSE IF D!IsBatch THEN <<"idx", 0, 0>> ELSE End
    <3>1. ~Ext(Known)'
      BY <1>1, <1>2, <1>3, Kept, KindIs
    <3> QED BY <1>1, <1>4, <3>1, Kept DEF ToTell
  <2> QED BY <2>1, <2>2, <2>3
<1> QED BY <1>4, <1>8, <1>10, <1>11, <1>12, <1>13

\* from a tree of its own,
LEMMA MasterProvesAloneKeeps == ASSUME IInv, MasterProvesAlone PROVE IInv'
<1> DEFINE proof == Prove(MyTree(0), LocalBeta(0))
           t == queries[0]
           i == round[0]
<1>1. pc[0] = "prove" /\ ~is_distributed[0][Index(0)] /\ Opened(proof) /\ UNCHANGED <<up, down>>
  BY DEF MasterProvesAlone, Proving, Opened
<1> HIDE DEF proof
<1>2. /\ InPlace(0) /\ HasTrees(0) /\ kind \in Kinds
  BY MasterFacts
<1>3. /\ i \in 0..(Mu - 1) /\ Mu \in Nat /\ First(Known) =< i /\ First(Known) \in Nat /\ t \in Nat
      /\ ~Distributed(i)
  BY <1>1, <1>2, TreeAt
<1>4. /\ Alone(0) /\ Known' = Known /\ More(Known, Known')
      /\ InPlace(0)' /\ HasTrees(0)' /\ MasterHas' /\ ToTell(Known)' = ToTell(Known)
      /\ ToGather(Known) = FromProof(Known, t, i) /\ ToGather(Known)' = FromProof(Known, t, i + 1)
  BY <1>1, OpenedIs
<1>5. FromProof(Known, t, i) = FromProof(Known, t, i + 1)
  <2>1. First(Known) < Mu
    BY <1>3
  <2> HIDE DEF t, i
  <2> QED BY <1>3, <2>1, ProofDue
<1>6. DOMAIN up' = Worker /\ \A w \in Worker : Between(Known, w, up'[w], ToGather(Known)', Sends(Known, w))
  <2>1. DOMAIN up' = Worker /\ \A w \in Worker : Between(Known, w, up'[w], ToGather(Known), Sends(Known, w))
    BY <1>1, UpAllStay
  <2> QED BY <1>4, <1>5, <2>1
<1>7. DOMAIN down' = Worker /\ \A w \in Worker : Between(Known', w, down'[w], Awaits(Known, w), ToTell(Known)')
  BY <1>1, <1>4, DownAllStay
<1> QED BY <1>4, <1>6, <1>7, MasterFrame

\* or with the proofs of all,
LEMMA MasterProvesKeeps == ASSUME IInv, MasterProves PROVE IInv'
<1> DEFINE proof == Combined(Gathered(1, MyProof(0)), Owner(MyTree(0), LocalBeta(0)), upper_mts[Index(0)])
           t == queries[0]
           i == round[0]
<1>1. pc[0] = "prove" /\ is_distributed[0][Index(0)] /\ Gathers(1, "proof") /\ Opened(proof) /\ UNCHANGED down
  BY DEF MasterProves, Proving, Opened
<1> HIDE DEF proof
<1>2. /\ InPlace(0) /\ HasTrees(0) /\ kind \in Kinds
  BY MasterFacts
<1>3. /\ i \in 0..(Mu - 1) /\ Mu \in Nat /\ First(Known) =< i /\ First(Known) \in Nat /\ t \in Nat
      /\ Distributed(i)
  BY <1>1, <1>2, TreeAt
<1>4. /\ Alone(0) /\ Known' = Known /\ More(Known, Known')
      /\ InPlace(0)' /\ HasTrees(0)' /\ MasterHas' /\ ToTell(Known)' = ToTell(Known)
      /\ ToGather(Known) = FromProof(Known, t, i) /\ ToGather(Known)' = FromProof(Known, t, i + 1)
  BY <1>1, OpenedIs
<1>5. After(Known, FromProof(Known, t, i)) = FromProof(Known, t, i + 1)
  <2>1. First(Known) < Mu
    BY <1>3
  <2> HIDE DEF t, i
  <2>2. FromProof(Known, t, i) = <<"proof", t, i>>
    BY <1>3, <2>1, ProofDue
  <2>3. After(Known, <<"proof", t, i>>) = FromProof(Known, t, i + 1)
    BY AfterUpIs
  <2> QED BY <2>2, <2>3
<1>6. DOMAIN up' = Worker /\ \A w \in Worker : Between(Known, w, up'[w], ToGather(Known)', Sends(Known, w))
  BY <1>1, <1>4, <1>5, MasterTakesOne
<1>7. DOMAIN down' = Worker /\ \A w \in Worker : Between(Known', w, down'[w], Awaits(Known, w), ToTell(Known)')
  BY <1>1, <1>4, DownAllStay
<1> QED BY <1>4, <1>6, <1>7, MasterFrame

\* lists what is opened in the commitments,
LEMMA MasterIdxKeeps == ASSUME IInv, MasterIdx PROVE IInv'
<1> DEFINE roots == [k \in DOMAIN BatchOf |-> Root(mt0s[0][BatchOf[k]])]
           list == D!FirstOf(roots)
           m == Msg("usizes", list)
<1>1. /\ pc[0] = "idx" /\ ToAll(<<m>>) /\ StartsOpenings(0, list)
      /\ UNCHANGED <<case, round, beta, treeVars, mt0s, pending, masterVars, up>>
  BY DEF MasterIdx
<1>2. /\ 0 \in Party /\ InPlace(0) /\ HasTrees(0) /\ MasterHas /\ OfParties
      /\ DOMAIN up = Worker /\ DOMAIN down = Worker /\ kind \in Kinds /\ oracle \in Oracles
  BY MasterFacts
<1>3. IsList(list)
  <2>1. DOMAIN roots = 1..Len(BatchOf) /\ Len(BatchOf) \in Nat /\ Len(BatchOf) >= 1
    BY Sizes DEF IsSeq
  <2> HIDE DEF roots
  <2>2. IsSeq(list) /\ list # <<>> /\ \A j \in 1..Len(list) : list[j] \in 1..Len(BatchOf)
    BY <2>1, FirstOfIs
  <2> QED BY <2>2 DEF IsList
<1> HIDE DEF list
<1>4. /\ Alone(0) /\ pc'[0] = "x0" /\ queries'[0] = 0 /\ idx'[0] = list
  BY <1>1, <1>2 DEF Alone, OfParties, Becomes, StartsOpenings, treeVars
<1>5. /\ Asked' = Asked /\ Known'.idx = list /\ Known'.asked = Asked /\ list # <<>> /\ More(Known, Known')
      /\ idx[0] = <<>> /\ \A t \in 1..Len(Asked) : Asked[t] \in 0..(LenL0 - 1)
  <2>1. Asked' = Asked
    BY <1>1, <1>4 DEF Asked, masterVars, proofVars
  <2>2. Known'.idx = list /\ Known'.asked = Asked /\ Known'.kind = Known.kind
    BY <1>1, <1>4, <2>1 DEF Known, case
  <2>3. /\ idx[0] = <<>> /\ Known.idx = idx[0] /\ Known.asked = Asked /\ Len(Asked) \in Nat
        /\ \A t \in 1..Len(Asked) : Asked[t] \in 0..(LenL0 - 1)
    BY <1>1, <1>2, AskedIs DEF MasterHas, IsSeq
  <2>4. list # <<>>
    BY <1>3 DEF IsList
  <2> HIDE DEF Known, Asked
  <2> QED BY <2>1, <2>2, <2>3, <2>4 DEF More
<1>6. InPlace(0)' /\ HasTrees(0)' /\ MasterHas'
  <2>1. D!IsBatch /\ S \in Nat /\ S >= 1 /\ round[0] \in 0..Mu /\ D!IsBatch'
    BY <1>1, <1>2, Sizes, Kept DEF InPlace
  <2>2. InPlace(0)'
    BY <1>1, <1>4, <2>1 DEF InPlace, Committing, Running, FoldCalls
  <2>3. TreesOf(0, 0)' = TreesOf(0, 0) /\ TreesOf(0, 1)' = TreesOf(0, 1)
    BY <1>1, <1>4, Kept DEF TreesOf, Committing, Running, FoldCalls
  <2>4. HasTrees(0)'
    BY <1>1, <1>2, <1>4, <2>3, TreesStay DEF treeVars, Committing
  <2>5. IsSeq(fold'.v) /\ Len(fold'.v) = Mu + 1 /\ \A j \in 0..Mu : Size(D!V(j)') = D!L(j)
    BY <1>1, <1>2 DEF MasterHas, Committing, masterVars, beginVars, D!V
  <2>6. UNCHANGED <<proofs_for_t, mt_proofs, mt0_proofs, mt_roots, upper_mts>>
    BY <1>1 DEF masterVars, proofVars, rootVars
  <2>7. MasterHas'
    BY <1>1, <1>2, <1>3, <1>4, <1>5, <2>1, <2>3, <2>5, <2>6 DEF MasterHas, Committing
  <2> QED BY <2>2, <2>4, <2>7
<1>7. /\ ToGather(Known)' = ToGather(Known) /\ ToTell(Known) = <<"idx", 0, 0>> /\ ToTell(Known)' = <<"x0", 0, 0>>
  <2>1. ToGather(Known) = <<"mt0", 0, 1>> /\ ToTell(Known) = <<"idx", 0, 0>>
    BY <1>1 DEF ToGather, ToTell
  <2>2. ToGather(Known)' = <<"mt0", 0, 1>> /\ ToTell(Known)' = <<"x0", 0, 0>>
    BY <1>4 DEF ToGather, ToTell
  <2> QED BY <2>1, <2>2
<1>8. DOMAIN up' = Worker /\ \A w \in Worker : Between(Known, w, up'[w], ToGather(Known)', Sends(Known, w))
  <2>1. DOMAIN up' = Worker /\ \A w \in Worker : Between(Known, w, up'[w], ToGather(Known), Sends(Known, w))
    BY <1>1, UpAllStay
  <2> QED BY <1>7, <2>1
<1>9. \A w \in Worker : Is(Known', w, m, ToTell(Known))
  <2> HIDE DEF Known
  <2> QED BY <1>5, <1>7 DEF Is, Says, TypeOf, Ups, Expects, Msg, End
<1> HIDE DEF m
<1>10. /\ DOMAIN down' = Worker
       /\ \A w \in Worker : Between(Known', w, down'[w], Awaits(Known, w), After(Known', ToTell(Known)))
  BY <1>1, <1>5, <1>9, MasterTellsOne
<1>11. After(Known', <<"idx", 0, 0>>) = <<"x0", 0, 0>>
  BY AfterBetaIs
<1>12. \A w \in Worker : Between(Known', w, down'[w], Awaits(Known, w), ToTell(Known)')
  BY <1>7, <1>10, <1>11
<1> QED BY <1>4, <1>5, <1>6, <1>8, <1>10, <1>12, MasterFrame

\* tells a position again,
LEMMA MasterX0Keeps == ASSUME IInv, MasterX0 PROVE IInv'
<1> DEFINE t == queries[0]
           m == Msg("usize", X0)
<1>1. /\ pc[0] = "x0" /\ ToAll(<<m>>) /\ Becomes(0, "mt0")
      /\ UNCHANGED <<case, loopVars, treeVars, keptVars, masterVars, up>>
  BY DEF MasterX0
<1>2. /\ 0 \in Party /\ InPlace(0) /\ HasTrees(0) /\ MasterHas /\ OfParties
      /\ DOMAIN up = Worker /\ DOMAIN down = Worker /\ kind \in Kinds /\ oracle \in Oracles
  BY MasterFacts
<1>3. /\ Alone(0) /\ pc'[0] = "mt0"
  BY <1>1, <1>2 DEF Alone, OfParties, Becomes, treeVars, keptVars, loopVars
<1>4. Asked' = Asked /\ Known' = Known /\ More(Known, Known')
  BY <1>1, <1>3, KnownStays DEF masterVars, keptVars, proofVars, loopVars
<1>5. /\ t \in Nat /\ t < S /\ S \in Nat /\ D!IsBatch /\ t \in 0..S /\ round[0] \in 0..Mu
  BY <1>1, <1>2, Sizes DEF InPlace
<1>6. AskedAt(Known, t, X0)
  <2>1. /\ Known.asked = Asked /\ Len(Asked) = Len(mt_proofs) + 0
        /\ \A j \in 1..Len(Asked) : Asked[j] = IF j =< Len(mt_proofs) THEN mt_proofs[j][1].x
             ELSE IF proofs_for_t # <<>> THEN proofs_for_t[1].x ELSE beta[0]
    BY <1>1, <1>2, AskedIs
  <2>2. Len(mt_proofs) = S
    BY <1>1, <1>2 DEF MasterHas, Has
  <2>3. t + 1 \in 1..Len(Asked) /\ t + 1 =< Len(mt_proofs)
    BY <1>5, <2>1, <2>2
  <2> HIDE DEF Known, Asked
  <2> QED BY <2>1, <2>3 DEF AskedAt, X0
<1>7. InPlace(0)' /\ HasTrees(0)' /\ MasterHas'
  <2>1. InPlace(0)'
    BY <1>1, <1>3, <1>5, Kept DEF InPlace, Committing, Running, FoldCalls, loopVars
  <2>2. TreesOf(0, 0)' = TreesOf(0, 0) /\ TreesOf(0, 1)' = TreesOf(0, 1)
    BY <1>1, <1>3, Kept DEF TreesOf, Committing, Running, FoldCalls
  <2>3. HasTrees(0)'
    BY <1>1, <1>2, <1>3, <2>2, TreesStay DEF treeVars, keptVars, Committing
  <2>4. IsSeq(fold'.v) /\ Len(fold'.v) = Mu + 1 /\ \A j \in 0..Mu : Size(D!V(j)') = D!L(j)
    BY <1>1, <1>2 DEF MasterHas, Committing, masterVars, beginVars, D!V
  <2>5. queries'[0] = t /\ UNCHANGED <<proofs_for_t, mt_proofs, mt0_proofs, mt_roots, upper_mts, idx>>
    BY <1>1 DEF masterVars, proofVars, rootVars, keptVars, loopVars
  <2>6. MasterHas'
    BY <1>1, <1>2, <1>3, <1>4, <1>5, <2>2, <2>4, <2>5, Kept DEF MasterHas, Committing
  <2> QED BY <2>1, <2>3, <2>6
<1>8. /\ ToGather(Known)' = ToGather(Known) /\ ToTell(Known) = <<"x0", t, 0>>
      /\ ToTell(Known)' = AfterDown(Known, <<"x0", t, 0>>)
  <2>1. ToGather(Known) = <<"mt0", t, 1>> /\ ToTell(Known) = <<"x0", t, 0>>
    BY <1>1 DEF ToGather, ToTell
  <2>2. ToGather(Known)' = <<"mt0", t, 1>>
    BY <1>1, <1>3 DEF ToGather, loopVars
  <2>3. ToTell(Known)' = AfterDown(Known, <<"x0", t, 0>>)
    BY <1>1, <1>3, Kept DEF ToTell, loopVars
  <2> QED BY <2>1, <2>2, <2>3
<1>9. DOMAIN up' = Worker /\ \A w \in Worker : Between(Known, w, up'[w], ToGather(Known)', Sends(Known, w))
  <2>1. DOMAIN up' = Worker /\ \A w \in Worker : Between(Known, w, up'[w], ToGather(Known), Sends(Known, w))
    BY <1>1, UpAllStay
  <2> QED BY <1>8, <2>1
<1>10. \A w \in Worker : Is(Known', w, m, ToTell(Known))
  <2>1. \A w \in Worker : Is(Known, w, m, <<"x0", t, 0>>)
    <3> HIDE DEF t
    <3> QED BY <1>6 DEF Is, Says, TypeOf, Ups, Expects, Msg, End
  <2> QED BY <1>4, <1>8, <2>1
<1> HIDE DEF m
<1>11. /\ DOMAIN down' = Worker
       /\ \A w \in Worker : Between(Known', w, down'[w], Awaits(Known, w), After(Known', ToTell(Known)))
  BY <1>1, <1>4, <1>10, MasterTellsOne
<1>12. After(Known, <<"x0", t, 0>>) = AfterDown(Known, <<"x0", t, 0>>)
  BY DEF After, Ups
<1>13. \A w \in Worker : Between(Known', w, down'[w], Awaits(Known, w), ToTell(Known)')
  BY <1>4, <1>8, <1>11, <1>12
<1> QED BY <1>3, <1>4, <1>7, <1>9, <1>11, <1>13, MasterFrame

\* and gathers its openings in the commitments.
LEMMA MasterMt0Keeps == ASSUME IInv, MasterMt0 PROVE IInv'
<1> DEFINE t == queries[0]
           n == Len(idx[0])
           new == [j \in DOMAIN idx[0] |-> Mt0Opened(j)]
           then == IF t + 1 < S THEN <<"mt0", t + 1, 1>> ELSE End
           path == [j \in 1..(n + 1) |-> IF j =< n THEN <<"mt0", t, j>> ELSE then]
<1>1. /\ pc[0] = "mt0" /\ Gathers(n, "proof") /\ mt0_proofs' = Append(mt0_proofs, new) /\ NextOpening(0)
      /\ UNCHANGED <<case, round, beta, treeVars, keptVars, comVars, beginVars, rootVars, proofs_for_t,
                     mt_proofs, transcript, down>>
  BY DEF MasterMt0
<1> HIDE DEF new
<1>2. /\ 0 \in Party /\ InPlace(0) /\ HasTrees(0) /\ MasterHas /\ OfParties
      /\ DOMAIN up = Worker /\ DOMAIN down = Worker /\ kind \in Kinds /\ oracle \in Oracles
  BY MasterFacts
<1>3. /\ Alone(0) /\ pc'[0] = (IF t + 1 < S THEN "x0" ELSE "done") /\ queries'[0] = t + 1
  BY <1>1, <1>2 DEF Alone, OfParties, Becomes, NextOpening, treeVars, keptVars
<1>4. Asked' = Asked /\ Known' = Known /\ More(Known, Known')
  <2>1. pc'[0] # "prove" /\ pc[0] # "prove"
    BY <1>1, <1>3
  <2> QED BY <1>1, <2>1, KnownStays DEF keptVars
<1>5. /\ t \in Nat /\ t < S /\ S \in Nat /\ D!IsBatch /\ t + 1 \in 0..S /\ round[0] \in 0..Mu /\ Mu \in Nat
  BY <1>1, <1>2, Sizes DEF InPlace
<1>6. IsList(idx[0]) /\ Known.idx = idx[0] /\ n \in Nat /\ n >= 1
  <2>1. IsList(idx[0])
    BY <1>1, <1>2, <1>5 DEF MasterHas
  <2>2. IsSeq(idx[0]) /\ idx[0] # <<>>
    BY <2>1 DEF IsList
  <2>3. Known.idx = idx[0]
    BY DEF Known
  <2> QED BY <2>1, <2>2, <2>3, IsTail
<1>7. InPlace(0)' /\ HasTrees(0)' /\ MasterHas'
  <2> HIDE DEF t
  <2>1. InPlace(0)'
    BY <1>1, <1>3, <1>5, Kept DEF InPlace, Committing, Running, FoldCalls
  <2>2. TreesOf(0, 0)' = TreesOf(0, 0) /\ TreesOf(0, 1)' = TreesOf(0, 1)
    BY <1>1, <1>3, Kept DEF TreesOf, Committing, Running, FoldCalls
  <2>3. HasTrees(0)'
    BY <1>1, <1>2, <1>3, <2>2, TreesStay DEF treeVars, keptVars, Committing
  <2>4. IsSeq(fold'.v) /\ Len(fold'.v) = Mu + 1 /\ \A j \in 0..Mu : Size(D!V(j)') = D!L(j)
    BY <1>1, <1>2 DEF MasterHas, Committing, beginVars, D!V
  <2>5. UNCHANGED <<proofs_for_t, mt_proofs, mt_roots, upper_mts, idx>>
    BY <1>1 DEF rootVars, keptVars
  <2>6. Has(mt0_proofs', t + 1)
    <3>1. Has(mt0_proofs, t)
      BY <1>1, <1>2, <1>5 DEF MasterHas, t
    <3> QED BY <1>1, <1>5, <3>1, HasNext
  <2>7. MasterHas'
    <3>1. pc'[0] \in {"x0", "done"}
      BY <1>3
    <3> QED BY <1>1, <1>2, <1>3, <1>4, <1>5, <1>6, <2>2, <2>4, <2>5, <2>6, <3>1, Kept DEF MasterHas, Committing
  <2> QED BY <2>1, <2>3, <2>7
<1>8. /\ ToGather(Known) = <<"mt0", t, 1>> /\ ToGather(Known)' = then /\ ToTell(Known)' = ToTell(Known)
  <2>1. ToGather(Known) = <<"mt0", t, 1>> /\ ToTell(Known) = AfterDown(Known, <<"x0", t, 0>>)
    BY <1>1 DEF ToGather, ToTell
  <2>2. AfterDown(Known, <<"x0", t, 0>>) = IF t + 1 < S THEN <<"x0", t + 1, 0>> ELSE End
    BY DEF AfterDown
  <2>3. ToGather(Known)' = then
    BY <1>3 DEF ToGather
  <2>4. ToTell(Known)' = IF t + 1 < S THEN <<"x0", t + 1, 0>> ELSE End
    BY <1>3 DEF ToTell
  <2> QED BY <2>1, <2>2, <2>3, <2>4
<1>9. ASSUME NEW j \in 1..n
      PROVE  After(Known, <<"mt0", t, j>>) = IF j < n THEN <<"mt0", t, j + 1>> ELSE then
  <2>1. After(Known, <<"mt0", t, j>>) = IF j < Len(Known.idx) THEN <<"mt0", t, j + 1>>
                                       ELSE IF t + 1 < S THEN <<"mt0", t + 1, 1>> ELSE End
    BY AfterUpIs
  <2> QED BY <1>6, <2>1
<1> HIDE DEF n, then
<1>10. path[1] = <<"mt0", t, 1>> /\ path[n + 1] = then
  BY <1>6
<1>11. ASSUME NEW j \in 1..n PROVE path[j + 1] = After(Known, path[j])
  <2>1. path[j] = <<"mt0", t, j>> /\ path[j + 1] = IF j < n THEN <<"mt0", t, j + 1>> ELSE then
    BY <1>6
  <2> HIDE DEF path
  <2> QED BY <1>9, <2>1
<1> HIDE DEF path
<1>12. /\ DOMAIN up' = Worker
       /\ \A w \in Worker : Between(Known, w, up'[w], path[n + 1], Sends(Known, w))
  <2>1. path[1] = ToGather(Known) /\ Gathers(n, "proof")
    BY <1>1, <1>8, <1>10
  <2> QED BY <1>6, <1>11, <2>1, MasterTakes
<1>13. \A w \in Worker : Between(Known, w, up'[w], ToGather(Known)', Sends(Known, w))
  BY <1>8, <1>10, <1>12
<1>14. DOMAIN down' = Worker /\ \A w \in Worker : Between(Known', w, down'[w], Awaits(Known, w), ToTell(Known)')
  BY <1>1, <1>4, <1>8, DownAllStay
<1> QED BY <1>3, <1>4, <1>7, <1>12, <1>13, <1>14, MasterFrame

-----------------------------------------------------------------------------
(* The whole of it.                                                        *)

\* No message is between a name and itself.
LEMMA NoMessages ==
  ASSUME NEW kn, NEW w, NEW name
  PROVE  Between(kn, w, <<>>, name, name)
<1> DEFINE names == [i \in 1..1 |-> name]
<1>1. IsSeq(<<>>) /\ Len(<<>>) = 0
  BY IsEmpty
<1>2. names[1] = name
  OBVIOUS
<1> HIDE DEF names
<1>3. Follows(kn, w, <<>>, name, name, names)
  BY <1>1, <1>2 DEF Follows
<1> QED BY <1>1, <1>3 DEF Between

\* At the start nothing is built, asked or on its way.
LEMMA InitIInv == Init => IInv
<1> SUFFICES ASSUME Init PROVE IInv
  OBVIOUS
<1>1. /\ kind \in Kinds /\ oracle \in Oracles
      /\ \A p \in Party : /\ pc[p] = "evals" /\ round[p] = 0 /\ queries[p] = 0 /\ mt0s[p] = <<>> /\ idx[p] = <<>>
                          /\ local_mts[p] = <<>> /\ is_distributed[p] = <<>>
      /\ mt_roots = <<>> /\ upper_mts = <<>> /\ proofs_for_t = <<>> /\ mt_proofs = <<>> /\ mt0_proofs = <<>>
      /\ 0 \in Party /\ Worker \subseteq Party
      /\ \A w \in Worker : up[w] = <<>> /\ down[w] = <<>>
  BY Sizes DEF Init
<1>2. Domains
  <2>1. {DOMAIN up, DOMAIN down} = {Worker}
    BY DEF Init
  <2>2. {DOMAIN beta, DOMAIN mt0s, DOMAIN local_mts, DOMAIN is_distributed, DOMAIN idx, DOMAIN pending} = {Party}
    BY DEF Init
  <2>3. /\ pc = [p \in Party |-> pc[p]] /\ round = [p \in Party |-> round[p]]
        /\ queries = [p \in Party |-> queries[p]]
    BY DEF Init
  <2> QED BY <2>1, <2>2, <2>3 DEF Domains, OfParties
<1>3. IsSeq(<<>>) /\ Len(<<>>) = 0
  BY IsEmpty
<1>4. Mu \in Nat /\ S \in Nat /\ D!ToCommit \in Nat /\ D!ToCommit >= 1
  BY <1>1, Sizes, KindIs
<1>5. \A p \in Party : InPlace(p)
  BY <1>1, <1>4 DEF InPlace, Committing, Running, FoldCalls
<1>6. \A p \in Party : TreesOf(p, 0) = 0 /\ TreesOf(p, 1) = 0
  BY <1>1 DEF TreesOf, Committing
<1>7. \A p \in Party : HasTrees(p)
  BY <1>1, <1>3, <1>4, <1>6 DEF HasTrees, Has, Committing
<1>8. IsSeq(Asked) /\ Len(Asked) = 0
  <2> DEFINE at(t) == IF t =< Len(mt_proofs) THEN mt_proofs[t][1].x
                      ELSE IF proofs_for_t # <<>> THEN proofs_for_t[1].x ELSE beta[0]
             n == Len(mt_proofs) + (IF pc[0] = "prove" THEN 1 ELSE 0)
  <2>1. n = 0 /\ Asked = [t \in 1..n |-> at(t)]
    BY <1>1, <1>3 DEF Asked
  <2> HIDE DEF at, n
  <2>2. Asked = [t \in 1..n |-> Asked[t]] /\ n \in Nat
    BY <2>1
  <2> QED BY <2>1, <2>2, IsIndexed
<1>9. MasterHas
  BY <1>1, <1>3, <1>6, <1>8 DEF MasterHas, Has, Committing
<1>10. \A w \in Worker : WorkerHas(w)
  BY <1>1 DEF WorkerHas
<1>11. Queues
  <2> SUFFICES ASSUME NEW w \in Worker
               PROVE  /\ Between(Known, w, up[w], ToGather(Known), Sends(Known, w))
                      /\ Between(Known, w, down[w], Awaits(Known, w), ToTell(Known))
    BY DEF Queues
  <2>1. w \in Party /\ pc[w] = "evals" /\ pc[0] = "evals" /\ mt0s[w] = <<>> /\ mt0s[0] = <<>>
    BY <1>1
  <2>2. ToGather(Known) = <<"evals", Len(<<>>) + 1, 0>> /\ ToTell(Known) = <<"chunk", Len(<<>>) + 1, 0>>
    BY <2>1 DEF ToGather, ToTell
  <2>3. Sends(Known, w) = <<"evals", Len(<<>>) + 1, 0>>
    BY <2>1 DEF Sends, FoldCalls
  <2>4. Awaits(Known, w) = <<"chunk", Len(<<>>) + 1, 0>>
    BY <2>1 DEF Awaits, FoldCalls
  <2> QED BY <1>1, <2>2, <2>3, <2>4, NoMessages
<1> QED BY <1>1, <1>2, <1>5, <1>7, <1>9, <1>10, <1>11 DEF IInv

\* The master's steps.
LEMMA MasterKeepsIInv == ASSUME IInv, MasterRuns PROVE IInv'
<1>1. CASE MasterEvals
  BY <1>1, MasterEvalsKeeps
<1>2. CASE MasterCommits
  BY <1>2, MasterCommitsKeeps
<1>3. CASE MasterBatch
  BY <1>3, MasterBatchKeeps
<1>4. CASE MasterBatchExt
  BY <1>4, MasterBatchExtKeeps
<1>5. ASSUME kind # "batch_ext", MasterFolds PROVE IInv'
  BY <1>5, MasterRootsKeeps, MasterSpreadsKeeps, MasterKeepsKeeps, MasterLastKeeps DEF MasterFolds
<1>6. CASE MasterFoldsOpen \/ MasterFoldsBatch
  BY <1>5, <1>6 DEF MasterFoldsOpen, MasterFoldsBatch
<1>7. CASE MasterFoldsExt
  BY <1>7, MasterKeepsExtKeeps, MasterLastKeeps DEF MasterFoldsExt
<1>8. ASSUME MasterAnswers PROVE IInv'
  BY <1>8, MasterQueryKeeps, MasterProvesAloneKeeps, MasterProvesKeeps DEF MasterAnswers
<1>9. CASE MasterAnswersOpen \/ MasterAnswersBatch
  BY <1>8, <1>9 DEF MasterAnswersOpen, MasterAnswersBatch
<1>10. CASE MasterAnswersExt
  BY <1>10, MasterQueryExtKeeps DEF MasterAnswersExt
<1>11. CASE MasterMt0sBatch \/ MasterMt0sExt
  BY <1>11, MasterIdxKeeps, MasterX0Keeps, MasterMt0Keeps DEF MasterMt0sBatch, MasterMt0sExt, MasterMt0s
<1> QED BY <1>1, <1>2, <1>3, <1>4, <1>6, <1>7, <1>9, <1>10, <1>11 DEF MasterRuns

\* A worker's.
LEMMA WorkerKeepsIInv == ASSUME IInv, NEW w \in Worker, WorkerRuns(w) PROVE IInv'
<1>1. CASE WorkerEvals(w) \/ WorkerChunk(w) \/ WorkerSizes(w) \/ WorkerBatch(w) \/ WorkerBroadcast(w)
  BY <1>1, WorkerEvalsKeeps, WorkerChunkKeeps, WorkerSizesKeeps, WorkerBatchKeeps, WorkerBroadcastKeeps
<1>2. ASSUME kind # "batch_ext", WorkerFolds(w) PROVE IInv'
  BY <1>2, WorkerAlphaKeeps, WorkerRKeeps, WorkerFlagKeeps, WorkerLeavesKeeps, WorkerLeafSizeKeeps
     DEF WorkerFolds
<1>3. CASE WorkerFoldsOpen(w) \/ WorkerFoldsBatch(w)
  BY <1>2, <1>3 DEF WorkerFoldsOpen, WorkerFoldsBatch
<1>4. CASE WorkerFoldsExt(w)
  BY <1>4, WorkerAlphaKeeps, WorkerRExtKeeps DEF WorkerFoldsExt
<1>5. CASE WorkerAnswersOpen(w) \/ WorkerAnswersBatch(w)
  BY <1>5, WorkerBetaKeeps, WorkerProveKeeps DEF WorkerAnswersOpen, WorkerAnswersBatch
<1>6. CASE WorkerMt0sBatch(w) \/ WorkerMt0sExt(w)
  BY <1>6, WorkerIdxKeeps, WorkerX0Keeps DEF WorkerMt0sBatch, WorkerMt0sExt, WorkerMt0s
<1> QED BY <1>1, <1>3, <1>4, <1>5, <1>6 DEF WorkerRuns

\* A step that changes nothing.
LEMMA NothingKeeps == ASSUME IInv, UNCHANGED vars PROVE IInv'
<1>1. /\ UNCHANGED case /\ UNCHANGED <<pc, round, queries, beta, mt0s, local_mts, is_distributed, idx, pending>>
      /\ UNCHANGED <<fold, upper_mts, mt_roots, proofs_for_t, mt_proofs, mt0_proofs, up, down>>
  BY DEF vars, loopVars, treeVars, keptVars, masterVars, beginVars, rootVars, proofVars
<1>2. /\ 0 \in Party /\ InPlace(0) /\ HasTrees(0) /\ MasterHas /\ OfParties
      /\ DOMAIN up = Worker /\ DOMAIN down = Worker
  BY MasterFacts
<1>3. Asked' = Asked /\ Known' = Known /\ More(Known, Known')
  BY <1>1, KnownStays
<1>4. Alone(0)
  BY <1>1, <1>2 DEF Alone, OfParties
<1>5. InPlace(0)' /\ HasTrees(0)'
  BY <1>1, <1>2, <1>3, Same
<1>6. MasterHas'
  <2>1. TreesOf(0, 1)' = TreesOf(0, 1)
    BY <1>1, Kept DEF TreesOf
  <2>2. \A i \in 0..Mu : D!V(i)' = D!V(i)
    BY <1>1 DEF D!V
  <2> QED BY <1>1, <1>2, <1>3, <2>1, <2>2, Kept DEF MasterHas
<1>7. ToGather(Known)' = ToGather(Known) /\ ToTell(Known)' = ToTell(Known)
  BY <1>1, <1>3, Kept DEF ToGather, ToTell
<1>8. DOMAIN up' = Worker /\ \A w \in Worker : Between(Known, w, up'[w], ToGather(Known)', Sends(Known, w))
  BY <1>1, <1>7, UpAllStay
<1>9. DOMAIN down' = Worker /\ \A w \in Worker : Between(Known', w, down'[w], Awaits(Known, w), ToTell(Known)')
  BY <1>1, <1>3, <1>7, DownAllStay
<1> QED BY <1>3, <1>4, <1>5, <1>6, <1>8, <1>9, MasterFrame

\* Every step of the program keeps the invariant.
LEMMA NextIInv == IInv /\ [Next]_vars => IInv'
<1> SUFFICES ASSUME IInv, [Next]_vars PROVE IInv'
  OBVIOUS
<1>1. CASE MasterRuns
  BY <1>1, MasterKeepsIInv
<1>2. CASE \E w \in Worker : WorkerRuns(w)
  BY <1>2, WorkerKeepsIInv
<1>3. CASE AllDone \/ UNCHANGED vars
  BY <1>3, NothingKeeps DEF AllDone
<1> QED BY <1>1, <1>2, <1>3 DEF Next

\* So it holds in every state.
LEMMA Invariant == Spec => []IInv
<1> QED BY InitIInv, NextIInv, PTL DEF Spec

\* The position that a party is to prove lies in the current codeword.
LEMMA BetaIs ==
  ASSUME IInv, NEW p \in Party, pc[p] = "prove"
  PROVE  /\ queries[p] + 1 \in 1..Len(Asked) /\ Asked[queries[p] + 1] \in 0..(LenL0 - 1)
         /\ beta[p] = Asked[queries[p] + 1] % D!L(round[p])
         /\ beta[p] \in 0..(D!L(round[p]) - 1)
<1>1. /\ InPlace(p) /\ HasTrees(p) /\ kind \in Kinds /\ MasterHas /\ InPlace(0)
      /\ \A w \in Worker : WorkerHas(w)
  BY Sizes DEF IInv
<1>2. round[p] \in 0..(Mu - 1) /\ Mu \in Nat /\ queries[p] \in Nat
  BY <1>1, TreeAt
<1>3. queries[p] + 1 \in 1..Len(Asked) /\ beta[p] = Asked[queries[p] + 1] % D!L(round[p])
  <2>1. CASE p = 0
    <3>1. Has(mt_proofs, queries[0]) /\ beta[0] = Asked[queries[0] + 1] % D!L(round[0])
      BY <1>1, <2>1 DEF MasterHas
    <3>2. Len(Asked) = Len(mt_proofs) + 1
      BY <1>1, <2>1, AskedIs
    <3> QED BY <1>2, <2>1, <3>1, <3>2 DEF Has
  <2>2. CASE p \in Worker
    BY <1>1, <2>2 DEF WorkerHas
  <2> QED BY <2>1, <2>2, Sizes
<1>4. Asked[queries[p] + 1] \in 0..(LenL0 - 1)
  BY <1>1, <1>3 DEF MasterHas
<1>5. D!L(round[p]) \in Nat /\ D!L(round[p]) >= 1 /\ LenL0 \in Nat
  BY <1>2, Lengths
<1> DEFINE x == Asked[queries[p] + 1]
           m == D!L(round[p])
<1> HIDE DEF x, m
<1>6. x % m \in 0..(m - 1)
  <2>1. x \in Nat /\ m \in Nat /\ m >= 1
    BY <1>4, <1>5 DEF x, m
  <2> QED BY <2>1, Division
<1> QED BY <1>3, <1>4, <1>6 DEF x, m

\* The variables hold what they should.
LEMMA TypesHold == IInv => TypeOK
<1> SUFFICES ASSUME IInv PROVE TypeOK
  OBVIOUS
<1>1. /\ OfParties /\ MasterHas /\ \A w \in Worker : WorkerHas(w)
      /\ \A p \in Party : InPlace(p) /\ HasTrees(p)
      /\ DOMAIN up = Worker /\ DOMAIN down = Worker /\ kind \in Kinds
      /\ 0 \in Party /\ Party = {0} \cup Worker
  BY Sizes DEF IInv, Domains
<1>2. /\ Mu \in Nat /\ Mu >= 1 /\ S \in Nat /\ First(Known) \in 0..1
      /\ First(Known) = (IF D!IsBatch THEN 1 ELSE 0)
  <2>1. First(Known) = IF D!IsBatch THEN 1 ELSE 0
    BY <1>1, KindIs
  <2> QED BY <2>1, Sizes
<1>3. pc \in [Party -> DOMAIN Expects \cup {"evals", "roots0", "batch", "roots", "round", "query",
                                             "prove", "mt0", "done"}]
  <2> DEFINE calls == DOMAIN Expects \cup {"evals", "roots0", "batch", "roots", "round", "query",
                                           "prove", "mt0", "done"}
  <2>1. pc[0] \in calls
    BY <1>1 DEF MasterHas, Expects
  <2>2. \A w \in Worker : pc[w] \in calls
    BY <1>1 DEF WorkerHas
  <2> HIDE DEF calls
  <2>3. \A p \in Party : pc[p] \in calls
    BY <1>1, <2>1, <2>2
  <2>4. pc = [p \in Party |-> pc[p]]
    BY <1>1 DEF OfParties
  <2>5. pc \in [Party -> calls]
    BY <2>3, <2>4
  <2> QED BY <2>5 DEF calls
<1>4. round \in [Party -> 0..Mu] /\ queries \in [Party -> 0..S]
  <2>1. round = [p \in Party |-> round[p]] /\ queries = [p \in Party |-> queries[p]]
    BY <1>1 DEF OfParties
  <2>2. \A p \in Party : round[p] \in 0..Mu /\ queries[p] \in 0..S
    BY <1>1 DEF InPlace
  <2> QED BY <2>1, <2>2
<1>5. ASSUME NEW p \in Party
      PROVE  TreesOf(p, 0) \in 0..Mu /\ TreesOf(p, 1) \in 0..Mu
  <2> DEFINE i == round[p]
  <2>1. i \in 0..Mu /\ (pc[p] \in Running => i >= 1) /\ (pc[p] = "roots" => i =< Mu - 1)
    BY <1>1, <1>2 DEF InPlace, Running, FoldCalls
  <2> HIDE DEF i
  <2>2. CASE pc[p] \in Committing
    BY <1>2, <2>2 DEF TreesOf
  <2>3. CASE pc[p] \notin Committing \cup Running
    BY <1>2, <2>3 DEF TreesOf
  <2>4. CASE pc[p] \in Running /\ pc[p] # "roots" /\ pc[p] \notin Committing
    BY <1>2, <2>1, <2>4 DEF TreesOf, i
  <2>5. CASE pc[p] = "roots" /\ pc[p] \notin Committing /\ pc[p] \in Running
    BY <1>2, <2>1, <2>5 DEF TreesOf, i
  <2> QED BY <2>2, <2>3, <2>4, <2>5
<1>6. ASSUME NEW p \in Party
      PROVE  Len(local_mts[p]) = Len(is_distributed[p]) /\ Len(local_mts[p]) =< Mu
  <2>1. Has(local_mts[p], IF D!IsExt /\ p # 0 THEN 0 ELSE TreesOf(p, 0))
        /\ Has(is_distributed[p], Len(local_mts[p]))
    BY <1>1 DEF HasTrees
  <2> QED BY <1>2, <1>5, <2>1 DEF Has
<1>7. Len(mt_roots) = Len(upper_mts) /\ Len(mt_roots) =< Mu
  BY <1>1, <1>2, <1>5 DEF MasterHas, Has
<1>8. Len(proofs_for_t) < Mu
  <2>1. Len(proofs_for_t) = IF pc[0] = "prove" THEN round[0] ELSE 0
    BY <1>1 DEF MasterHas, Has
  <2>2. pc[0] = "prove" => round[0] \in First(Known)..(Mu - 1)
    BY <1>1 DEF InPlace
  <2> QED BY <1>2, <2>1, <2>2
<1>9. Len(mt_proofs) =< S /\ Len(mt0_proofs) =< S
  <2>1. queries[0] \in 0..S
    BY <1>1 DEF InPlace
  <2>2. /\ Len(mt_proofs) = (IF pc[0] \in {"idx", "x0", "mt0", "done"} THEN S ELSE queries[0])
        /\ Len(mt0_proofs) = (IF pc[0] \in {"x0", "mt0", "done"} /\ D!IsBatch THEN queries[0] ELSE 0)
    BY <1>1 DEF MasterHas, Has
  <2> QED BY <1>2, <2>1, <2>2
<1>10. \A p \in Party : pc[p] = "prove" => beta[p] \in 0..(D!L(round[p]) - 1)
  BY BetaIs
<1> QED BY <1>1, <1>3, <1>4, <1>6, <1>7, <1>8, <1>9, <1>10 DEF TypeOK

\* A worker takes the next message for what it is.
LEMMA NoMisread == ASSUME IInv, NEW w \in Worker PROVE ~Misread(w)
<1> SUFFICES ASSUME Misread(w) PROVE FALSE
  OBVIOUS
<1>1. pc[w] \in DOMAIN Expects /\ down[w] # <<>> /\ Head(down[w]).type # Expects[pc[w]]
  BY DEF Misread, Waits, Arrived
<1>2. Between(Known, w, down[w], Awaits(Known, w), ToTell(Known))
  BY DEF IInv, Queues
<1>3. Is(Known, w, Head(down[w]), Awaits(Known, w))
  BY <1>1, <1>2, Taken
<1>4. Awaits(Known, w)[1] = pc[w]
  BY <1>1 DEF Awaits, Expects, FoldCalls
<1>5. Head(down[w]).type = TypeOf(pc[w])
  BY <1>3, <1>4 DEF Is
<1>6. pc[w] \notin DOMAIN Ups
  BY <1>1 DEF Expects, Ups
<1> QED BY <1>1, <1>5, <1>6 DEF TypeOf

\* At the end nothing is on its way.
LEMMA EndsEmpty ==
  ASSUME IInv, NEW w \in Worker
  PROVE  (pc[w] = "done" => down[w] = <<>>) /\ (pc[0] = "done" => up[w] = <<>>)
<1>1. /\ Between(Known, w, up[w], ToGather(Known), Sends(Known, w))
      /\ Between(Known, w, down[w], Awaits(Known, w), ToTell(Known))
  BY DEF IInv, Queues
<1>2. pc[w] = "done" => Awaits(Known, w) = End
  BY DEF Awaits, FoldCalls
<1>3. pc[0] = "done" => ToGather(Known) = End
  BY DEF ToGather
<1> QED BY <1>1, <1>2, <1>3, NothingLeft

\* The step of a proof is never zero.
LEMMA StepIs == ASSUME IInv, NEW p \in Party, pc[p] = "prove" PROVE Step(p) \in Nat /\ Step(p) > 0
<1> DEFINE i == round[p]
           size == MyTree(p).leaf_size
<1>1. InPlace(p) /\ HasTrees(p) /\ kind \in Kinds
  BY DEF IInv
<1>2. i \in 0..(Mu - 1) /\ Mu \in Nat /\ IsTree(MyTree(p), i, Distributed(i))
  BY <1>1, TreeAt
<1>3. i \in 0..Mu
  BY <1>2
<1>4. size \in 1..D!L(i)
  BY <1>2, <1>3, Leaves DEF IsTree, IsPart
<1>5. D!L(i) \in Nat /\ D!L(i) >= 1
  BY <1>3, Lengths
<1>6. Step(p) = D!L(i) \div size
  BY DEF Step
<1> HIDE DEF i, size
<1> DEFINE l == D!L(i)
<1> HIDE DEF l
<1>7. /\ l \in Nat /\ size \in Nat /\ size >= 1 /\ size =< l
      /\ l \div size \in Nat /\ l % size \in 0..(size - 1) /\ l = size * (l \div size) + (l % size)
  <2>1. l \in Nat /\ size \in Nat /\ size >= 1 /\ size =< l
    BY <1>4, <1>5 DEF l
  <2> QED BY <2>1, Division
<1>8. l \div size # 0
  BY <1>7
<1> QED BY <1>6, <1>7, <1>8 DEF l

\* What the next messages of the workers are.
LEMMA NextAre ==
  ASSUME IInv, NEW n \in Nat, CanGather(n), NEW path, path[1] = ToGather(Known),
         \A i \in 1..n : path[i + 1] = After(Known, path[i])
  PROVE  \A w \in Worker : \A i \in 1..n : Is(Known, w, up[w][i], path[i])
<1> SUFFICES ASSUME NEW w \in Worker PROVE \A i \in 1..n : Is(Known, w, up[w][i], path[i])
  OBVIOUS
<1>1. Between(Known, w, up[w], ToGather(Known), Sends(Known, w)) /\ Len(up[w]) >= n
  BY DEF IInv, Queues, CanGather
<1> QED BY <1>1, TakenMany

\* The next one of each.
LEMMA NextIs ==
  ASSUME IInv, CanGather(1)
  PROVE  \A w \in Worker : Is(Known, w, up[w][1], ToGather(Known))
<1> DEFINE path == [i \in 1..2 |-> IF i = 1 THEN ToGather(Known) ELSE After(Known, ToGather(Known))]
<1>1. path[1] = ToGather(Known) /\ path[1 + 1] = After(Known, path[1])
  OBVIOUS
<1> HIDE DEF path
<1>2. \A i \in 1..1 : path[i + 1] = After(Known, path[i])
  BY <1>1
<1>3. \A w \in Worker : \A i \in 1..1 : Is(Known, w, up[w][i], path[i])
  BY <1>1, <1>2, NextAre
<1>4. 1 \in 1..1
  OBVIOUS
<1> QED BY <1>1, <1>3, <1>4

\* Those of a batch.
LEMMA NextOfBatch ==
  ASSUME IInv, pc[0] = "batch", CanGather(Len(BatchOf))
  PROVE  \A w \in Worker : \A j \in 1..Len(BatchOf) : Is(Known, w, up[w][j], <<"batch", j, 0>>)
<1> DEFINE n == Len(BatchOf)
           path == [j \in 1..(n + 1) |-> IF j =< n THEN <<"batch", j, 0>> ELSE FromRound(Known, 1)]
<1>1. n \in Nat /\ n >= 1
  BY Sizes DEF IsSeq
<1>2. ToGather(Known) = <<"batch", 1, 0>>
  BY DEF ToGather
<1> HIDE DEF n
<1>3. path[1] = <<"batch", 1, 0>> /\ \A j \in 1..n : path[j] = <<"batch", j, 0>>
  BY <1>1
<1>4. ASSUME NEW j \in 1..n PROVE path[j + 1] = After(Known, path[j])
  <2>1. path[j] = <<"batch", j, 0>> /\ path[j + 1] = IF j < n THEN <<"batch", j + 1, 0>> ELSE FromRound(Known, 1)
    BY <1>1
  <2>2. After(Known, <<"batch", j, 0>>) = IF j < Len(BatchOf) THEN <<"batch", j + 1, 0>> ELSE FromRound(Known, 1)
    BY AfterUpIs
  <2> HIDE DEF path
  <2> QED BY <2>1, <2>2 DEF n
<1> HIDE DEF path
<1>5. \A w \in Worker : \A j \in 1..n : Is(Known, w, up[w][j], path[j])
  <2>1. path[1] = ToGather(Known) /\ CanGather(n)
    BY <1>2, <1>3 DEF n
  <2> QED BY <1>1, <1>4, <2>1, NextAre
<1>6. \A w \in Worker : \A j \in 1..n : Is(Known, w, up[w][j], <<"batch", j, 0>>)
  BY <1>3, <1>5
<1> QED BY <1>6 DEF n

\* And those of a query's openings in the commitments.
LEMMA NextOfMt0 ==
  ASSUME IInv, pc[0] = "mt0", CanGather(Len(idx[0]))
  PROVE  \A w \in Worker : \A j \in 1..Len(idx[0]) : Is(Known, w, up[w][j], <<"mt0", queries[0], j>>)
<1> DEFINE t == queries[0]
           n == Len(idx[0])
           then == IF t + 1 < S THEN <<"mt0", t + 1, 1>> ELSE End
           path == [j \in 1..(n + 1) |-> IF j =< n THEN <<"mt0", t, j>> ELSE then]
<1>1. Known.idx = idx[0] /\ n \in Nat /\ n >= 1
  <2>1. D!IsBatch /\ MasterHas
    BY Sizes DEF IInv, InPlace
  <2>2. IsSeq(idx[0]) /\ idx[0] # <<>>
    BY <2>1 DEF MasterHas, IsList
  <2>3. Known.idx = idx[0]
    BY DEF Known
  <2> QED BY <2>2, <2>3, IsTail
<1>2. ToGather(Known) = <<"mt0", t, 1>>
  BY DEF ToGather
<1> HIDE DEF n, t
<1>3. ASSUME NEW j \in 1..n
      PROVE  After(Known, <<"mt0", t, j>>) = IF j < n THEN <<"mt0", t, j + 1>> ELSE then
  <2>1. After(Known, <<"mt0", t, j>>) = IF j < Len(Known.idx) THEN <<"mt0", t, j + 1>>
                                       ELSE IF t + 1 < S THEN <<"mt0", t + 1, 1>> ELSE End
    BY AfterUpIs
  <2> QED BY <1>1, <2>1 DEF n
<1> HIDE DEF then
<1>4. path[1] = <<"mt0", t, 1>> /\ \A j \in 1..n : path[j] = <<"mt0", t, j>>
  BY <1>1
<1>5. ASSUME NEW j \in 1..n PROVE path[j + 1] = After(Known, path[j])
  <2>1. path[j] = <<"mt0", t, j>> /\ path[j + 1] = IF j < n THEN <<"mt0", t, j + 1>> ELSE then
    BY <1>1
  <2> HIDE DEF path
  <2> QED BY <1>3, <2>1
<1> HIDE DEF path
<1>6. \A w \in Worker : \A j \in 1..n : Is(Known, w, up[w][j], path[j])
  <2>1. path[1] = ToGather(Known) /\ CanGather(n)
    BY <1>2, <1>4 DEF n
  <2> QED BY <1>1, <1>5, <2>1, NextAre
<1>7. \A w \in Worker : \A j \in 1..n : Is(Known, w, up[w][j], <<"mt0", t, j>>)
  BY <1>4, <1>6
<1> QED BY <1>7 DEF n, t

\* That of a proof that everybody joins.
LEMMA NextOfProof ==
  ASSUME IInv, pc[0] = "prove", is_distributed[0][Index(0)], CanGather(1)
  PROVE  /\ Distributed(round[0]) /\ round[0] \in 0..(Mu - 1) /\ IsTree(MyTree(0), round[0], TRUE)
         /\ \A w \in Worker : Is(Known, w, up[w][1], <<"proof", queries[0], round[0]>>)
<1> DEFINE t == queries[0]
           i == round[0]
<1>1. InPlace(0) /\ HasTrees(0) /\ kind \in Kinds
  BY MasterFacts
<1>2. /\ i \in 0..(Mu - 1) /\ Mu \in Nat /\ First(Known) =< i /\ First(Known) \in Nat /\ t \in Nat
      /\ Distributed(i) /\ IsTree(MyTree(0), i, Distributed(i))
  BY <1>1, TreeAt
<1>3. IsTree(MyTree(0), i, TRUE)
  BY <1>2 DEF IsTree, Distributed
<1>4. ToGather(Known) = FromProof(Known, t, i)
  BY DEF ToGather
<1> HIDE DEF t, i
<1>5. FromProof(Known, t, i) = <<"proof", t, i>>
  <2>1. First(Known) < Mu
    BY <1>2
  <2> QED BY <1>2, <2>1, ProofDue
<1>6. \A w \in Worker : Is(Known, w, up[w][1], <<"proof", t, i>>)
  BY <1>4, <1>5, NextIs
<1> QED BY <1>2, <1>3, <1>6 DEF t, i

\* The messages of the gathers are of the type that they are taken for.
LEMMA NoMisreadGather == ASSUME IInv PROVE ~MisreadGather
<1> SUFFICES ASSUME CanGather(GatherOf[1]) PROVE AreAll(GatherOf[1], GatherOf[2])
  BY DEF MisreadGather
<1> DEFINE proves == Proving(0) /\ is_distributed[0][Index(0)]
<1>1. InPlace(0) /\ MasterHas /\ kind \in Kinds
  BY MasterFacts
<1>2. CASE pc[0] \in {"evals", "roots0", "roots"}
  <2>1. GatherOf = <<1, IF pc[0] = "evals" THEN "elements" ELSE "digest">>
    BY <1>2 DEF GatherOf, Proving
  <2>2. ToGather(Known)[1] = IF pc[0] = "evals" THEN "evals" ELSE IF pc[0] = "roots0" THEN "root0" ELSE "root"
    <3>1. CASE pc[0] # "roots"
      BY <1>2, <3>1 DEF ToGather
    <3>2. CASE pc[0] = "roots"
      <4>1. round[0] \in 1..(Mu - 1) /\ ~D!IsExt /\ Distributed(round[0])
        BY <1>1, <3>2 DEF InPlace
      <4>2. ~Ext(Known)
        BY <1>1, <4>1, KindIs
      <4>3. FromRound(Known, round[0]) = <<"root", round[0], 0>>
        BY <4>1, <4>2, RoundDue
      <4>4. ToGather(Known) = FromRound(Known, round[0])
        BY <3>2 DEF ToGather
      <4> QED BY <3>2, <4>3, <4>4
    <3> QED BY <3>1, <3>2
  <2>3. TypeOf(ToGather(Known)[1]) = GatherOf[2]
    BY <1>2, <2>1, <2>2 DEF TypeOf, Ups
  <2>4. \A w \in Worker : up[w][1].type = GatherOf[2]
    <3>1. \A w \in Worker : Is(Known, w, up[w][1], ToGather(Known))
      BY <2>1, NextIs
    <3> QED BY <2>3, <3>1 DEF Is
  <2> QED BY <2>1, <2>4 DEF AreAll
<1>3. CASE pc[0] = "batch"
  <2>1. GatherOf = <<Len(BatchOf), "elements">>
    BY <1>3 DEF GatherOf, Proving
  <2>2. \A w \in Worker : \A j \in 1..Len(BatchOf) : up[w][j].type = "elements"
    <3>1. \A w \in Worker : \A j \in 1..Len(BatchOf) : Is(Known, w, up[w][j], <<"batch", j, 0>>)
      BY <1>3, <2>1, NextOfBatch
    <3> QED BY <3>1 DEF Is, TypeOf, Ups
  <2> QED BY <2>1, <2>2 DEF AreAll
<1>4. CASE proves
  <2>1. GatherOf = <<1, "proof">> /\ pc[0] = "prove"
    BY <1>4 DEF GatherOf, Proving
  <2>2. \A w \in Worker : up[w][1].type = "proof"
    <3>1. \A w \in Worker : Is(Known, w, up[w][1], <<"proof", queries[0], round[0]>>)
      BY <1>4, <2>1, NextOfProof
    <3> QED BY <3>1 DEF Is, TypeOf, Ups
  <2> QED BY <2>1, <2>2 DEF AreAll
<1>5. CASE pc[0] = "mt0"
  <2>1. GatherOf = <<Len(idx[0]), "proof">>
    BY <1>5 DEF GatherOf, Proving
  <2>2. \A w \in Worker : \A j \in 1..Len(idx[0]) : up[w][j].type = "proof"
    <3>1. \A w \in Worker : \A j \in 1..Len(idx[0]) : Is(Known, w, up[w][j], <<"mt0", queries[0], j>>)
      BY <1>5, <2>1, NextOfMt0
    <3> QED BY <3>1 DEF Is, TypeOf, Ups
  <2> QED BY <2>1, <2>2 DEF AreAll
<1>6. CASE pc[0] \notin {"evals", "batch", "roots0", "roots", "mt0"} /\ ~proves
  <2>1. GatherOf = <<0, "nothing">>
    BY <1>6 DEF GatherOf
  <2> QED BY <2>1 DEF AreAll
<1> QED BY <1>2, <1>3, <1>4, <1>5, <1>6

\* The party whose proof the master unwraps has one.
LEMMA NoUnwrap == ASSUME IInv PROVE ~UnwrapsNone
<1>1. InPlace(0) /\ HasTrees(0) /\ MasterHas /\ kind \in Kinds /\ 0 \in Party /\ Party = {0} \cup Worker
  BY MasterFacts, Sizes
<1>2. ASSUME pc[0] = "prove", GatherOf[1] = 1, CanGather(1)
      PROVE  Gathered(1, MyProof(0))[Owner(MyTree(0), LocalBeta(0))] # None
  <2> DEFINE t == queries[0]
             i == round[0]
             x == Asked[t + 1]
             owner == OwnerAt(x, i)
  <2>1. is_distributed[0][Index(0)]
    BY <1>2 DEF GatherOf
  <2>2. /\ Distributed(i) /\ i \in 0..(Mu - 1) /\ IsTree(MyTree(0), i, TRUE)
        /\ \A w \in Worker : Is(Known, w, up[w][1], <<"proof", t, i>>)
    BY <1>2, <2>1, NextOfProof
  <2>3. t + 1 \in 1..Len(Asked) /\ x \in 0..(LenL0 - 1) /\ beta[0] = x % D!L(i)
    BY <1>1, <1>2, BetaIs
  <2>4. Owner(MyTree(0), LocalBeta(0)) = owner /\ (MyProof(0) = None <=> owner # 0)
    <3>1. SpreadAt(0, i, x)
      BY <2>2, <2>3 DEF SpreadAt
    <3> HIDE DEF i, x
    <3> QED BY <3>1, OwnerSame
  <2>5. owner \in Party
    <3>1. i \in 0..Mu /\ x \in Nat /\ D!L(i) \in Nat /\ D!L(i) >= 1
      <4> HIDE DEF i, x
      <4>1. i \in 0..Mu
        BY <2>2, Sizes
      <4>2. x \in Nat
        BY <2>3, FirstBeta
      <4> QED BY <4>1, <4>2, Lengths
    <3>2. x % D!L(i) \in Nat
      <4> DEFINE m == D!L(i)
      <4> HIDE DEF m
      <4>1. x % m \in 0..(m - 1)
        BY <3>1, Division DEF m
      <4> QED BY <4>1 DEF m
    <3> QED BY <2>2, <3>1, <3>2, OwnerIs DEF OwnerAt
  <2>6. ASSUME NEW w \in Worker, owner = w PROVE up[w][1].val # None
    <3> DEFINE val == up[w][1].val
    <3> HIDE DEF val, t, i, x
    <3>1. Says(Known, w, val, <<"proof", t, i>>)
      BY <2>2 DEF Is, val
    <3>2. Answers(Known, w, t, i, val)
      BY <3>1 DEF Says
    <3>3. Known.asked = Asked
      BY DEF Known
    <3> QED BY <2>6, <3>2, <3>3 DEF Answers, val, x
  <2>7. Gathered(1, MyProof(0))[owner] = IF owner = 0 THEN MyProof(0) ELSE up[owner][1].val
    BY <2>5 DEF Gathered
  <2> HIDE DEF owner
  <2> QED BY <1>1, <2>4, <2>5, <2>6, <2>7
<1>3. ASSUME pc[0] = "mt0", CanGather(Len(idx[0])), NEW j \in DOMAIN idx[0]
      PROVE  Mt0Proofs(j)[Mt0Owner(j)] # None
  <2> DEFINE t == queries[0]
             owner == OwnerAt(X0, 0)
  <2>1. D!IsBatch /\ IsList(idx[0]) /\ t \in Nat /\ t < S /\ pc[0] \notin Committing
    BY <1>1, <1>3, Sizes DEF InPlace, MasterHas, Committing
  <2>2. j \in 1..Len(idx[0])
    BY <2>1 DEF IsList, IsSeq
  <2>3. \A w \in Worker : Is(Known, w, up[w][j], <<"mt0", t, j>>)
    BY <1>3, <2>2, NextOfMt0
  <2>4. t + 1 \in 1..Len(Asked) /\ Asked[t + 1] = X0 /\ X0 \in 0..(LenL0 - 1)
    <3>1. Len(mt_proofs) = S
      BY <1>1, <1>3 DEF MasterHas, Has
    <3>2. Len(Asked) = S /\ (t + 1 =< S => t + 1 \in 1..S)
      BY <1>1, <1>3, <2>1, <3>1, AskedIs, Sizes
    <3>3. t + 1 \in 1..Len(Asked) /\ t + 1 =< Len(mt_proofs)
      BY <2>1, <3>1, <3>2, Sizes
    <3>4. Asked[t + 1] = mt_proofs[t + 1][1].x
      BY <1>1, <3>3, AskedIs
    <3>5. Asked[t + 1] \in 0..(LenL0 - 1)
      BY <1>1, <3>3 DEF MasterHas
    <3> QED BY <3>3, <3>4, <3>5 DEF X0
  <2>5. Mt0Owner(j) = owner /\ (Mt0Proof(0, j, X0) = None <=> owner # 0)
    BY <1>1, <2>1, <2>2, <2>4, Mt0Is DEF Mt0Owner
  <2>6. owner \in Party
    <3>1. 0 \in 0..Mu /\ X0 \in Nat /\ Distributed(0) /\ X0 % D!L(0) = X0
      BY <2>4, Sizes, Lengths, FirstSpreads, FirstBeta
    <3> QED BY <3>1, OwnerIs DEF OwnerAt
  <2>7. ASSUME NEW w \in Worker, owner = w PROVE up[w][j].val # None
    <3> DEFINE val == up[w][j].val
    <3> HIDE DEF val, t
    <3>1. Says(Known, w, val, <<"mt0", t, j>>)
      BY <2>3 DEF Is, val
    <3>2. Answers(Known, w, t, 0, val)
      BY <3>1 DEF Says
    <3>3. Known.asked = Asked
      BY DEF Known
    <3> QED BY <2>4, <2>7, <3>2, <3>3 DEF Answers, val
  <2>8. Mt0Proofs(j)[owner] = IF owner = 0 THEN Mt0Proof(0, j, X0) ELSE up[owner][j].val
    BY <2>6 DEF Mt0Proofs, Gathered
  <2> HIDE DEF owner
  <2> QED BY <1>1, <2>5, <2>6, <2>7, <2>8
<1>4. pc[0] = "mt0" => GatherOf[1] = Len(idx[0])
  BY DEF GatherOf, Proving
<1> QED BY <1>2, <1>3, <1>4 DEF UnwrapsNone

\* In no run of the provers, however far a worker runs behind or ahead of the
\* master, does a party take the bytes of one call for those of another, unwrap
\* the None of a party that is not the owner or divide by a step of zero, and
\* nothing is left on the channel at the end: the branches of am_master in
\* deepfold_d_commit and the three provers that follow it agree call by call.
THEOREM BranchesAgree == Spec => []NoPanic
<1>1. IInv => NoPanic
  <2> SUFFICES ASSUME IInv PROVE NoPanic
    OBVIOUS
  <2>1. TypeOK
    BY TypesHold
  <2>2. \A w \in Worker : ~Misread(w)
    BY NoMisread
  <2>3. ~MisreadGather /\ ~UnwrapsNone
    BY NoMisreadGather, NoUnwrap
  <2>4. \A p \in Party : ~NoStep(p)
    BY StepIs DEF NoStep
  <2>5. /\ \A w \in Worker : pc[w] = "done" => down[w] = <<>>
        /\ pc[0] = "done" => \A w \in Worker : up[w] = <<>>
    BY EndsEmpty
  <2> QED BY <2>1, <2>2, <2>3, <2>4, <2>5 DEF NoPanic
<1> QED BY <1>1, Invariant, PTL
=============================================================================
