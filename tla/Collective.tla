----------------------------- MODULE Collective -----------------------------
(***************************************************************************)
(* What the trait DeNet promises to an SPMD program, without saying how.   *)
(*                                                                         *)
(* Every party runs, on every channel, the same list of collective calls.  *)
(* A call moves data between the master and all the workers:               *)
(*   gather  - send_bytes_to_master: every party contributes, the master   *)
(*             gets one slot per party;                                    *)
(*   scatter - recv_bytes_from_master: the master supplies one slot per    *)
(*             party, every party gets its own;                            *)
(*   uniform - recv_bytes_from_master_uniform: one value for everybody.    *)
(* Only the receiving side of a call blocks.  Calls on different channels  *)
(* are independent.                                                        *)
(*                                                                         *)
(* A payload is named by the call that moves it and the party it is from   *)
(* (gather) or for (scatter): two payloads are equal only when they are    *)
(* the same argument of the same call, so that the model tells a value     *)
(* apart from a late, early, swapped or misrouted one.                     *)
(***************************************************************************)
EXTENDS Integers, Sequences

CONSTANTS
  Master,     \* the party with id 0
  Worker,     \* the other parties
  Channel,    \* the channel ids, each used by one thread of every party
  Programs,   \* the lists of calls a channel may run
  NoData      \* what a call returns on the side that gets nothing

Party == {Master} \cup Worker
Op    == {"gather", "scatter", "uniform"}

ASSUME PartyAssumption   == Master \notin Worker
ASSUME ProgramAssumption == Programs \subseteq Seq(Op)

Payload == [ch : Channel, op : Nat, party : Party]

VARIABLES
  prog,   \* prog[c]: the calls every party makes on channel c, in order
  pos,    \* pos[p][c]: how many of them p's thread has returned from
  ret     \* ret[p][c]: what the last of them returned

vars == <<prog, pos, ret>>

\* The lists of calls are fixed, and nobody runs past the end of one.
TypeOK ==
  /\ prog \in [Channel -> Programs]
  /\ pos \in [Party -> [Channel -> Nat]]
  /\ \A p \in Party, c \in Channel : pos[p][c] \in 0..Len(prog[c])

-----------------------------------------------------------------------------
Next1(p, c)    == pos[p][c] + 1
Calls(p, c, o) == /\ pos[p][c] < Len(prog[c])
                  /\ prog[c][Next1(p, c)] = o

\* p's thread on channel c returns v from the call it is in.
Returns(p, c, v) ==
  /\ pos' = [pos EXCEPT ![p][c] = @ + 1]
  /\ ret' = [ret EXCEPT ![p][c] = v]
  /\ UNCHANGED prog

\* One payload, or one for every party.
Single(v) == [kind |-> "Single", bytes |-> v]
Multi(f)  == [kind |-> "Multi", slots |-> f]

Arg(c, k, p)       == [ch |-> c, op |-> k, party |-> p]
GatherResult(c, k) == Multi([p \in Party |-> Arg(c, k, p)])
MasterArg(p, c)    == Single(Arg(c, Next1(p, c),
  IF prog[c][Next1(p, c)] = "scatter" THEN p ELSE Master))

\* A worker hands over its contribution and goes on at once.
Contribute(w, c) == Calls(w, c, "gather") /\ Returns(w, c, NoData)

\* The master waits for the contribution of every worker to this very call.
Gather(c) ==
  /\ Calls(Master, c, "gather")
  /\ \A w \in Worker : pos[w][c] >= Next1(Master, c)
  /\ Returns(Master, c, GatherResult(c, Next1(Master, c)))

\* The master hands out its values and goes on at once.
HandOut(c) ==
  /\ Calls(Master, c, "scatter") \/ Calls(Master, c, "uniform")
  /\ Returns(Master, c, MasterArg(Master, c))

\* Faulty variant: a worker goes on without waiting.
Obtain_NoWait(w, c) ==
  /\ Calls(w, c, "scatter") \/ Calls(w, c, "uniform")
  /\ Returns(w, c, MasterArg(w, c))

\* A worker waits for what the master handed out in this very call.
Obtain(w, c) ==
  /\ Calls(w, c, "scatter") \/ Calls(w, c, "uniform")
  /\ pos[Master][c] >= Next1(w, c)
  /\ Returns(w, c, MasterArg(w, c))

-----------------------------------------------------------------------------
Init ==
  /\ prog \in [Channel -> Programs]
  /\ pos = [p \in Party |-> [c \in Channel |-> 0]]
  /\ ret = [p \in Party |-> [c \in Channel |-> NoData]]

Next ==
  \E c \in Channel :
    \/ Gather(c) \/ HandOut(c)
    \/ \E w \in Worker : Contribute(w, c) \/ Obtain(w, c)

Spec == Init /\ [][Next]_vars

-----------------------------------------------------------------------------
\* The calls in which a worker waits for the master.
IsReceive(o) == o \in {"scatter", "uniform"}

(* DeNet::barrier is a gather followed by a uniform: "all parties wait     *)
(* until everyone reaches this point".  Whoever returns from the second    *)
(* call knows that every party has gone through the first; the same holds  *)
(* of a scatter after a gather (DeNet::master_compute).                    *)
BarrierSafe ==
  \A c \in Channel : \A k \in 1..(Len(prog[c]) - 1) :
    prog[c][k] = "gather" /\ IsReceive(prog[c][k + 1]) =>
      \A p, q \in Party : pos[p][c] >= k + 1 => pos[q][c] >= k
=============================================================================
