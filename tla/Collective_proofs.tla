-------------------------- MODULE Collective_proofs --------------------------
(***************************************************************************)
(* What follows from the promise of DeNet alone, for any number of         *)
(* parties and channels and for programs of any length.  Causality is      *)
(* inductive together with the types; the barrier is one gather followed   *)
(* by one receive, so its safety is two uses of Causality.                 *)
(***************************************************************************)
EXTENDS Collective, TLAPS

\* Which side of a call has passed it: the guards of Gather and Obtain, kept
\* by whatever happens later.
Causality ==
  \A c \in Channel, w \in Worker : \A k \in 1..Len(prog[c]) :
    /\ prog[c][k] = "gather" /\ pos[Master][c] >= k => pos[w][c] >= k
    /\ IsReceive(prog[c][k]) /\ pos[w][c] >= k => pos[Master][c] >= k

IInv == TypeOK /\ Causality

LEMMA InitIInv == Init => IInv
<1> SUFFICES ASSUME Init PROVE IInv
  OBVIOUS
<1>1. TypeOK
  BY ProgramAssumption DEF Init, TypeOK
<1>2. Causality
  BY PartyAssumption DEF Init, Causality, Party
<1> QED BY <1>1, <1>2 DEF IInv

(* A call that p may make advances p's place on c by one, within bounds.   *)
LEMMA Advance ==
  ASSUME TypeOK, NEW p \in Party, NEW c \in Channel, NEW v,
         pos[p][c] < Len(prog[c]), Returns(p, c, v)
  PROVE  /\ TypeOK'
         /\ prog' = prog
         /\ pos'[p][c] = pos[p][c] + 1
         /\ \A q \in Party, x \in Channel : q # p \/ x # c => pos'[q][x] = pos[q][x]
<1>1. prog' = prog /\ pos' = [pos EXCEPT ![p][c] = @ + 1]
  BY DEF Returns
<1>2. pos' \in [Party -> [Channel -> Nat]]
  BY <1>1 DEF TypeOK
<1>3. pos'[p][c] = pos[p][c] + 1
  BY <1>1 DEF TypeOK
<1>4. \A q \in Party, x \in Channel : q # p \/ x # c => pos'[q][x] = pos[q][x]
  BY <1>1 DEF TypeOK
<1>5. ASSUME NEW q \in Party, NEW x \in Channel
      PROVE  pos'[q][x] \in 0..Len(prog'[x])
  <2>1. Len(prog[x]) \in Nat /\ pos[q][x] \in 0..Len(prog[x])
    BY ProgramAssumption DEF TypeOK
  <2>2. CASE q = p /\ x = c
    BY <1>1, <1>3, <2>1, <2>2
  <2>3. CASE q # p \/ x # c
    BY <1>1, <1>4, <2>1, <2>3
  <2> QED BY <2>2, <2>3
<1> QED BY <1>1, <1>2, <1>3, <1>4, <1>5 DEF TypeOK

(* A call that waits for the other side keeps Causality.                   *)
LEMMA WorkerStep ==
  ASSUME IInv, NEW w \in Worker, NEW c \in Channel, Contribute(w, c) \/ Obtain(w, c)
  PROVE  IInv'
<1> USE PartyAssumption DEF Party
<1>1. pos[w][c] < Len(prog[c])
  BY DEF Contribute, Obtain, Calls
<1>2. PICK v : Returns(w, c, v)
  BY DEF Contribute, Obtain
<1>3. /\ TypeOK' /\ prog' = prog
      /\ pos'[w][c] = pos[w][c] + 1
      /\ \A q \in Party, x \in Channel : q # w \/ x # c => pos'[q][x] = pos[q][x]
  BY <1>1, <1>2, Advance DEF IInv
<1>4. pos[w][c] \in Nat /\ pos[Master][c] \in Nat
  BY DEF IInv, TypeOK
<1>5. ASSUME NEW x \in Channel, NEW u \in Worker, NEW k \in 1..Len(prog[x])
      PROVE  /\ prog[x][k] = "gather" /\ pos'[Master][x] >= k => pos'[u][x] >= k
             /\ IsReceive(prog[x][k]) /\ pos'[u][x] >= k => pos'[Master][x] >= k
  <2>0. /\ prog[x][k] = "gather" /\ pos[Master][x] >= k => pos[u][x] >= k
        /\ IsReceive(prog[x][k]) /\ pos[u][x] >= k => pos[Master][x] >= k
        /\ pos'[Master][x] = pos[Master][x]
    BY <1>3 DEF IInv, Causality
  <2>1. CASE u # w \/ x # c
    BY <1>3, <2>0, <2>1
  <2>2. CASE u = w /\ x = c
    <3>1. CASE pos'[u][x] >= k /\ pos[u][x] < k
      <4>1. k = Next1(w, c)
        BY <1>3, <1>4, <2>2, <3>1 DEF Next1
      <4>2. IsReceive(prog[x][k]) => pos[Master][x] >= k
        BY <2>2, <4>1 DEF Contribute, Obtain, Calls, IsReceive
      <4> QED BY <2>0, <3>1, <4>2
    <3>2. CASE ~(pos'[u][x] >= k /\ pos[u][x] < k)
      BY <1>3, <1>4, <2>0, <2>2, <3>2
    <3> QED BY <3>1, <3>2
  <2> QED BY <2>1, <2>2
<1> QED BY <1>3, <1>5 DEF IInv, Causality

LEMMA MasterStep ==
  ASSUME IInv, NEW c \in Channel, Gather(c) \/ HandOut(c)
  PROVE  IInv'
<1> USE PartyAssumption DEF Party
<1>1. pos[Master][c] < Len(prog[c])
  BY DEF Gather, HandOut, Calls
<1>2. PICK v : Returns(Master, c, v)
  BY DEF Gather, HandOut
<1>3. /\ TypeOK' /\ prog' = prog
      /\ pos'[Master][c] = pos[Master][c] + 1
      /\ \A q \in Party, x \in Channel : q # Master \/ x # c => pos'[q][x] = pos[q][x]
  BY <1>1, <1>2, Advance DEF IInv
<1>4. pos[Master][c] \in Nat
  BY DEF IInv, TypeOK
<1>5. ASSUME NEW x \in Channel, NEW u \in Worker, NEW k \in 1..Len(prog[x])
      PROVE  /\ prog[x][k] = "gather" /\ pos'[Master][x] >= k => pos'[u][x] >= k
             /\ IsReceive(prog[x][k]) /\ pos'[u][x] >= k => pos'[Master][x] >= k
  <2>0. /\ prog[x][k] = "gather" /\ pos[Master][x] >= k => pos[u][x] >= k
        /\ IsReceive(prog[x][k]) /\ pos[u][x] >= k => pos[Master][x] >= k
        /\ pos'[u][x] = pos[u][x]
    BY <1>3 DEF IInv, Causality
  <2>1. CASE x # c
    BY <1>3, <2>0, <2>1
  <2>2. CASE x = c
    <3>1. CASE pos'[Master][x] >= k /\ pos[Master][x] < k
      <4>1. k = Next1(Master, c)
        BY <1>3, <1>4, <2>2, <3>1 DEF Next1
      <4>2. prog[x][k] = "gather" => pos[u][x] >= k
        BY <2>2, <4>1 DEF Gather, HandOut, Calls
      <4> QED BY <2>0, <3>1, <4>2
    <3>2. CASE ~(pos'[Master][x] >= k /\ pos[Master][x] < k)
      BY <1>3, <1>4, <2>0, <2>2, <3>2
    <3> QED BY <3>1, <3>2
  <2> QED BY <2>1, <2>2
<1> QED BY <1>3, <1>5 DEF IInv, Causality

LEMMA NextIInv == IInv /\ [Next]_vars => IInv'
<1> SUFFICES ASSUME IInv, [Next]_vars PROVE IInv'
  OBVIOUS
<1>1. CASE Next
  BY <1>1, WorkerStep, MasterStep DEF Next
<1>2. CASE UNCHANGED vars
  BY <1>2 DEF vars, IInv, TypeOK, Causality
<1> QED BY <1>1, <1>2

(* What the barrier needs of all the calls before it.                      *)
LEMMA Invariant == Spec => []IInv
<1> QED BY InitIInv, NextIInv, PTL DEF Spec

(* DeNet::barrier and DeNet::master_compute: nobody returns before every   *)
(* party has arrived, whatever the number of parties and the program.      *)
THEOREM BarrierHolds == Spec => []BarrierSafe
<1>1. IInv => BarrierSafe
  <2> SUFFICES ASSUME IInv, NEW c \in Channel, NEW k \in 1..(Len(prog[c]) - 1),
                      prog[c][k] = "gather", IsReceive(prog[c][k + 1]),
                      NEW p \in Party, NEW q \in Party, pos[p][c] >= k + 1
               PROVE  pos[q][c] >= k
    BY DEF BarrierSafe
  <2>1. /\ Len(prog[c]) \in Nat /\ k \in 1..Len(prog[c]) /\ k + 1 \in 1..Len(prog[c])
        /\ k \in Nat
        /\ pos[p][c] \in Nat /\ pos[q][c] \in Nat /\ pos[Master][c] \in Nat
    BY ProgramAssumption DEF IInv, TypeOK, Party
  <2>2. pos[Master][c] >= k + 1
    BY <2>1 DEF IInv, Causality, Party
  <2>3. q \in Worker => pos[q][c] >= k
    BY <2>1, <2>2 DEF IInv, Causality
  <2> QED BY <2>1, <2>2, <2>3 DEF Party
<1> QED BY <1>1, Invariant, PTL
=============================================================================
