------------------------------ MODULE DLigeSIS -------------------------------
(***************************************************************************)
(* The distributed LigeSIS prover: the commitment to A of d_setup,         *)
(* ligesis_d_commit and ligesis_d_open.                                    *)
(*                                                                         *)
(* Every party holds a block of the rows of F.  What it computes from them *)
(* is put together at the master, which cuts the result into portions for  *)
(* the commitments: by columns of a and of rs_a, by rows of bI and of H.   *)
(* One sum-check runs on the portions; all the others, and the points to be*)
(* opened at, are the master's, who tells the workers.                     *)
(*                                                                         *)
(* The distributed commitments, sum-check and opening that are called here *)
(* are the subject of DChunkedBatch and DSumcheck: a call is what the      *)
(* parties hand in, and its result on the whole.                           *)
(***************************************************************************)
EXTENDS LigeSIS

CONSTANT N

Party  == 0..(N - 1)
Worker == 1..(N - 1)
PartyVars == Log2(N)

\* Every party has a row, and a portion of every vector.
ASSUME PartiesAssumption == N \in Nat \ {0} /\ N = 2^PartyVars /\ N =< NumRows /\ N =< NumCols

VARIABLES
  pc,         \* the call a party waits in, or "done"
  local,      \* what a party has computed or received, by its name
  com_mat_a,  \* the master's commitment to A
  up, down    \* the messages of each worker to, and from, the master

masterVars == <<com_mat_a, com_mat_h, com_a_bI_rsa, checks, claimed_values, transcript>>
dvars == <<point, oracle, pc, local, masterVars, up, down>>

-----------------------------------------------------------------------------
(* What a party computes from its rows.                                    *)

PartOf(v, p) == LET n == Size(v) \div N IN Slice(v, p * n, (p + 1) * n)
RowsOf(p)    == Reshape(PartOf(Evals, p), NumRows \div N, NumCols)

\* Faulty variant: the columns of A of the first rows, at every party.
MatAOf_First(p) == [k \in DOMAIN MatA |-> PartOf(MatA[k], 0)]

\* mat_a_k, the columns of A for the rows of party p.
MatAOf(p) == [k \in DOMAIN MatA |-> PartOf(MatA[k], p)]

\* z1_1 is for the rows of a party, z1_0 for the parties.
Z1Low(p)  == Take(Z1(p), LogM - PartyVars)
Z1High(p) == Drop(Z1(p), LogM - PartyVars)
RowOfParty(p) == MatMul(Tensor(Z1Low(point)), RowsOf(p))

\* Faulty variant: the party's number from its highest bit down.
LocalTensor_Reversed(alpha, p) ==
  LET low == Size(alpha) - PartyVars
      eq  == FieldProduct(PartyVars, LAMBDA i : EqBit(alpha[low + i], Bit(p, PartyVars - 1 - i)))
  IN  Vec(2^low, LAMBDA x : (Tensor(Take(alpha, low))[x] * eq) % P)

\* compute_local_tensor
LocalTensor(alpha, p) ==
  LET low == Size(alpha) - PartyVars
      eq  == EvalEq(Drop(alpha, low), p)
      t   == Tensor(Take(alpha, low))
  IN  Vec(2^low, LAMBDA x : (t[x] * eq) % P)

\* What a party has once a call of that name has returned.
Computed0(p, call) ==
  CASE call = "RSEncode" -> "mat_f_prime" :> EncodeRows(RowsOf(p))
    [] call = "SISHash"  -> "mat_h_i" :> Flat(SisHash(MatAOf(p), local[p].mat_f_prime))
    [] OTHER             -> <<>>

BitsOf(p)   == MatBI(local[p].mat_f_prime, local[p].I)
TablesOf(p) == <<local[p].bI, MinusOne(local[p].bI), LocalTensor(AsVec(local[p].alpha1), p)>>
ArgsOf(p)   == <<local[p].points, local[p].point_to_commit, local[p].point_to_poly>>

-----------------------------------------------------------------------------
(* Calls and messages.                                                     *)

Msg(type, val) == [type |-> type, val |-> val]
Arrive  == Msg("unit", 0)

\* What a worker waits for, call after call, as it deserializes it: first the
\* barriers.
Barriers ==
  {"RSEncode", "SISHash", "GatherMatH", "ComputeA", "ComputeBI", "ComputeRSA",
   "CombinedCommit", "ExtSumchecks", "DeepFold"}
TypeOf ==
  [mat_h |-> "elements", a |-> "elements", I |-> "usizes", bI |-> "elements", alphas |-> "challenges",
   rs_a |-> "elements", r1 |-> "point", points |-> "points", point_to_commit |-> "usizes",
   point_to_poly |-> "usizes"]
Calls == Barriers \cup DOMAIN TypeOf
Expects(call) == IF call \in Barriers THEN "unit" ELSE TypeOf[call]

WorkerAfter ==
  [RSEncode |-> "SISHash", SISHash |-> "GatherMatH", GatherMatH |-> "mat_h", mat_h |-> "ComputeA",
   ComputeA |-> "a", a |-> "I", I |-> "ComputeBI", ComputeBI |-> "bI", bI |-> "alphas",
   alphas |-> "ComputeRSA", ComputeRSA |-> "rs_a", rs_a |-> "CombinedCommit",
   CombinedCommit |-> "ExtSumchecks", ExtSumchecks |-> "r1", r1 |-> "points",
   points |-> "point_to_commit", point_to_commit |-> "point_to_poly", point_to_poly |-> "DeepFold",
   DeepFold |-> "done"]

\* What a worker sends, after that call, before it waits again.
Replies(w, call) ==
  CASE call = "GatherMatH"     -> <<Msg("elements", local[w].mat_h_i)>>
    [] call = "ComputeA"       -> <<Msg("elements", RowOfParty(w))>>
    [] call = "ComputeBI"      -> <<Msg("matrix", BitsOf(w))>>
    [] call = "CombinedCommit" -> <<Msg("polys", <<local[w].a, local[w].bI, local[w].rs_a>>), Arrive>>
    [] call = "ExtSumchecks"   -> <<Msg("tables", TablesOf(w))>>
    [] call = "DeepFold"       -> <<Msg("opening", ArgsOf(w))>>
    [] call \in {"RSEncode", "SISHash", "I", "alphas", "rs_a", "point_to_poly"} -> <<Arrive>>
    [] OTHER                   -> <<>>

\* What the master waits for: a message of every worker.
MasterExpects ==
  [setup |-> "polys", mat_h_i |-> "elements", mat_h |-> "polys", a_k |-> "elements",
   mat_bI_k |-> "matrix", commit |-> "polys", sumcheck |-> "tables", open |-> "opening"]
TypeAtMaster(call) == IF call \in Barriers THEN "unit" ELSE MasterExpects[call]
MasterCalls == Barriers \cup DOMAIN MasterExpects

Becomes(p, call) == pc' = [pc EXCEPT ![p] = call]
Keep(p, new)     == local' = [local EXCEPT ![p] = new @@ @]
SendsUp(w, msgs) == up' = [up EXCEPT ![w] = @ \o msgs]
ToAll(msgs)      == down' = [w \in Worker |-> down[w] \o msgs]
Scatter(head, v, tail) ==
  down' = [w \in Worker |-> down[w] \o head \o <<Msg("elements", PartOf(v, w))>> \o tail]

Receive(w, call) ==
  /\ pc[w] = call /\ down[w] # <<>> /\ Head(down[w]).type = Expects(call)
  /\ down' = [down EXCEPT ![w] = Tail(@)]
Gathers(call) ==
  /\ pc[0] = call
  /\ \A w \in Worker : up[w] # <<>> /\ Head(up[w]).type = TypeAtMaster(call)
  /\ up' = [w \in Worker |-> Tail(up[w])]
Gathered(own) == [p \in Party |-> IF p = 0 THEN own ELSE Head(up[p]).val]

\* What the portions of a list of polynomials commit to.
Whole(lists) == [k \in DOMAIN lists[0] |-> Concat([p \in Party |-> lists[p][k]])]

-----------------------------------------------------------------------------
(* A worker.                                                               *)

\* d_setup: all of A is the portion of every party.
WorkerSetup(w) ==
  /\ pc[w] = "setup"
  /\ SendsUp(w, <<Msg("polys", <<Flat(MatA)>>), Arrive>>)
  /\ Becomes(w, "RSEncode")
  /\ UNCHANGED <<point, oracle, local, masterVars, down>>

WorkerReleased(w) ==
  \E call \in Barriers :
    /\ Receive(w, call)
    /\ Keep(w, Computed0(w, call))
    /\ SendsUp(w, Replies(w, call))
    /\ Becomes(w, WorkerAfter[call])
    /\ UNCHANGED <<point, oracle, masterVars>>

\* What it gets of H is committed at once.
WorkerMatH(w) ==
  /\ Receive(w, "mat_h")
  /\ SendsUp(w, <<Msg("polys", <<Head(down[w]).val>>), Arrive>>)
  /\ Becomes(w, "ComputeA")
  /\ UNCHANGED <<point, oracle, local, masterVars>>

WorkerKeeps(w) ==
  \E call \in DOMAIN TypeOf \ {"mat_h"} :
    LET val == Head(down[w]).val IN
    /\ Receive(w, call)
    /\ Keep(w, IF call = "alphas" THEN "alpha1" :> val[1] ELSE call :> val)
    /\ SendsUp(w, Replies(w, call))
    /\ Becomes(w, WorkerAfter[call])
    /\ UNCHANGED <<point, oracle, masterVars>>

WorkerRuns(w) == WorkerSetup(w) \/ WorkerReleased(w) \/ WorkerMatH(w) \/ WorkerKeeps(w)

-----------------------------------------------------------------------------
(* The master: commitment.                                                 *)

MasterSetup ==
  /\ Gathers("setup")
  /\ com_mat_a' = Whole(Gathered(<<Flat(MatA)>>))
  /\ Becomes(0, "RSEncode")
  /\ UNCHANGED <<point, oracle, local, com_mat_h, com_a_bI_rsa, checks, claimed_values, transcript, down>>

MasterAfter ==
  [RSEncode |-> "SISHash", SISHash |-> "GatherMatH", GatherMatH |-> "mat_h_i", ComputeA |-> "a_k",
   ComputeBI |-> "mat_bI_k", CombinedCommit |-> "commit", ExtSumchecks |-> "sumcheck",
   DeepFold |-> "open"]

\* The barriers after which the master waits for a gather, or the next.
MasterBarrier ==
  \E call \in DOMAIN MasterAfter :
    /\ Gathers(call)
    /\ ToAll(<<Arrive>>)
    /\ Keep(0, Computed0(0, call))
    /\ Becomes(0, MasterAfter[call])
    /\ UNCHANGED <<point, oracle, masterVars>>

MasterMatH ==
  LET all   == Gathered(local[0].mat_h_i)
      mat_h == Vec(NumHash * RsLen, LAMBDA i : FieldSum(N, LAMBDA k : all[k][i]))
  IN  /\ Gathers("mat_h_i")
      /\ Scatter(<<>>, mat_h, <<>>)
      /\ Keep(0, "mat_h" :> PartOf(mat_h, 0))
      /\ Becomes(0, "mat_h")
      /\ UNCHANGED <<point, oracle, masterVars>>

MasterCommits ==
  /\ Gathers("mat_h")
  /\ com_mat_h' = Whole(Gathered(<<local[0].mat_h>>))
  /\ Becomes(0, "ComputeA")
  /\ UNCHANGED <<point, oracle, local, com_mat_a, com_a_bI_rsa, checks, claimed_values, transcript, down>>

-----------------------------------------------------------------------------
(* The master: opening.                                                    *)

\* a is put together and its portions are handed out, then I is drawn.
MasterA ==
  LET all    == Gathered(RowOfParty(0))
      eq     == Tensor(Z1High(point))
      a_full == Vec(NumCols, LAMBDA j : FieldSum(N, LAMBDA k : eq[k] * all[k][j]))
  IN  /\ Gathers("a_k")
      /\ Scatter(<<>>, a_full, <<Msg("usizes", oracle.I)>>)
      /\ Keep(0, [a_full |-> a_full, a |-> PartOf(a_full, 0), I |-> oracle.I])
      /\ transcript' = Append(transcript, Draw("I", oracle.I))
      /\ Becomes(0, "ComputeBI")
      /\ UNCHANGED <<point, oracle, com_mat_a, com_mat_h, com_a_bI_rsa, checks, claimed_values>>

\* The rows of the bits come party after party.
MasterBI ==
  LET mat_bI == Concat(Gathered(BitsOf(0)))
      bI     == Flat(mat_bI)
  IN  /\ Gathers("mat_bI_k")
      /\ Scatter(<<>>, bI, <<Msg("challenges", <<oracle.alpha1, oracle.alpha2, oracle.alpha3>>)>>)
      /\ Keep(0, [mat_bI_full |-> mat_bI, bI |-> PartOf(bI, 0), alpha1 |-> oracle.alpha1])
      /\ transcript' = transcript \o Alphas(oracle)
      /\ Becomes(0, "ComputeRSA")
      /\ UNCHANGED <<point, oracle, com_mat_a, com_mat_h, com_a_bI_rsa, checks, claimed_values>>

MasterRSA ==
  LET rs_a == Encode(local[0].a_full) IN
  /\ Gathers("ComputeRSA")
  /\ Scatter(<<Arrive>>, rs_a, <<>>)
  /\ Keep(0, "rs_a" :> PartOf(rs_a, 0))
  /\ Becomes(0, "CombinedCommit")
  /\ UNCHANGED <<point, oracle, masterVars>>

MasterCommitsOpening ==
  /\ Gathers("commit")
  /\ com_a_bI_rsa' = Whole(Gathered(<<local[0].a, local[0].bI, local[0].rs_a>>))
  /\ Becomes(0, "ExtSumchecks")
  /\ UNCHANGED <<point, oracle, local, com_mat_a, com_mat_h, checks, claimed_values, transcript, down>>

\* Faulty variant: the point stays with the master.
R1Msgs_None(r1) == <<>>

R1Msgs(r1) == <<Msg("point", r1)>>

MasterSumcheck ==
  LET msgs == RunExtSumcheck(Whole(Gathered(TablesOf(0))), oracle.r1) IN
  /\ Gathers("sumcheck")
  /\ checks' = <<msgs>>
  /\ transcript' = transcript \o ExtAppends(msgs, oracle.r1)
  /\ ToAll(R1Msgs(oracle.r1))
  /\ Becomes(0, "alone")
  /\ UNCHANGED <<point, oracle, local, com_mat_a, com_mat_h, com_a_bI_rsa, claimed_values>>

\* The other sum-checks, and what is to be opened, which the workers are told.
MasterAlone ==
  LET points == PointsOf(point, oracle) IN
  /\ pc[0] = "alone"
  /\ CheckRest(local[0].a_full, local[0].mat_bI_full)
  /\ ToAll(<<Msg("points", points), Msg("usizes", PointToCommit), Msg("usizes", PointToPoly)>>)
  /\ Keep(0, [points |-> points, point_to_commit |-> PointToCommit, point_to_poly |-> PointToPoly])
  /\ Becomes(0, "DeepFold")
  /\ UNCHANGED <<com_mat_a, up>>

MasterOpens ==
  /\ Gathers("open")
  /\ \A w \in Worker : Head(up[w]).val = ArgsOf(0)
  /\ claimed_values' = Opened(<<com_a_bI_rsa, com_mat_h, com_mat_a>>, ArgsOf(0)[1], ArgsOf(0)[2], ArgsOf(0)[3])
  /\ Becomes(0, "done")
  /\ UNCHANGED <<point, oracle, local, com_mat_a, com_mat_h, com_a_bI_rsa, checks, transcript, down>>

MasterRuns ==
  \/ MasterSetup \/ MasterBarrier \/ MasterMatH \/ MasterCommits \/ MasterA \/ MasterBI
  \/ MasterRSA \/ MasterCommitsOpening \/ MasterSumcheck \/ MasterAlone \/ MasterOpens

-----------------------------------------------------------------------------
DInit ==
  /\ Init
  /\ pc = [p \in Party |-> "setup"]
  /\ local = [p \in Party |-> <<>>]
  /\ com_mat_a = <<>>
  /\ up = [w \in Worker |-> <<>>] /\ down = [w \in Worker |-> <<>>]

AllDone == (\A p \in Party : pc[p] = "done") /\ UNCHANGED dvars
DNext   == MasterRuns \/ (\E w \in Worker : WorkerRuns(w)) \/ AllDone
DSpec   == DInit /\ [][DNext]_dvars

-----------------------------------------------------------------------------
(* Properties.                                                             *)

\* The distributed prover makes the commitments, the messages, the values and
\* the transcript of the single machine, in the same order: cutting the rows
\* among the parties, hashing each part with its columns of A and adding the
\* hashes up modulo P, where the single machine adds words, makes no difference.
Implements == Spec

\* The verifier accepts, draws its challenges after the same things, and the
\* values that it is given are opened: the checks on the prover's vectors, cut
\* and put together again three times, hold at the points they end in.  A is
\* committed N times over, and opened with zeros for the parties' variables.
VerifierAccepts ==
  pc[0] = "done" =>
    /\ Verify(point, oracle, EvalMle(Evals, ResizePoint(point, MuAll)), checks, claimed_values)
    /\ Replay(checks, oracle) = transcript

\* The sums that the verifier takes from the proof without looking at them are
\* those that the argument rests on: a step of the code's matrix starts from
\* the value that the one before ended in, the hash of the bits is H in the
\* columns I, and the bits make up the encoded row there.  (Words that
\* overflow would show here, since H is computed in words and the sum is not.)
SumsExact ==
  Len(checks) = NumChecks =>
    LET sum(k)  == SumOf(checks[k])
        r2      == Tensor(AsVec(oracle.r2))
        alpha2  == Tensor(AsVec(oracle.alpha2))
        I(t)    == oracle.I[t + 1]
        H(k, j) == com_mat_h[1][k * RsLen + j]
    IN  /\ \A s \in 1..RsSteps :
             sum(s + 2) = EvalMle(AlphaRows(oracle)[StepVars(s) + 1], Take(CurP(oracle, s), StepVars(s) + 1))
        /\ sum(RsSteps + 3)
             = FieldSum(Len(oracle.I), LAMBDA t : r2[t] * FieldSum(NumHash, LAMBDA k : alpha2[k] * H(k, I(t))))
        /\ sum(RsSteps + 4) = FieldSum(Len(oracle.I), LAMBDA t : r2[t] * com_a_bI_rsa[3][I(t)])

TypeOK ==
  /\ pc[0] \in MasterCalls \cup {"alone", "done"}
  /\ \A w \in Worker : pc[w] \in Calls \cup {"setup", "done"}
  /\ com_mat_a \in Seq([0..(N * NumHash * Eta * NumRows - 1) -> Fp])

\* Calls carry no names: what comes next is what its receiver takes it for,
\* whoever is ahead; all parties ask for the same opening, though the master
\* alone has made the points; and nothing is left over for the next call.
NoPanic ==
  /\ TypeOK
  /\ \A w \in Worker :
       /\ (down[w] # <<>> /\ pc[w] # "done") => Head(down[w]).type = Expects(pc[w])
       /\ (up[w] # <<>> /\ pc[0] \in MasterCalls) => Head(up[w]).type = TypeAtMaster(pc[0])
       /\ (pc[0] = "open" /\ up[w] # <<>>) => Head(up[w]).val = ArgsOf(0)
  /\ (\A p \in Party : pc[p] = "done") => \A w \in Worker : up[w] = <<>> /\ down[w] = <<>>
=============================================================================
