---------------------------- MODULE MCCollective ----------------------------
(* Small instances of Collective for TLC: all the programs of three calls. *)
EXTENDS Collective, TLC

MCPrograms == [1..3 -> Op]

\* Every program is completed: the bounded run stops there.
Done == (\A p \in Party, c \in Channel : pos[p][c] = Len(prog[c])) /\ UNCHANGED vars

MCSpec == Init /\ [][Next \/ Done]_vars
=============================================================================
