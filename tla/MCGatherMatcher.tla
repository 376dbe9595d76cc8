--------------------------- MODULE MCGatherMatcher --------------------------
(* Small instances of GatherMatcher for TLC: every worker sends at most    *)
(* MaxSent messages on a channel.                                          *)
EXTENDS GatherMatcher, TLC

CONSTANT MaxSent

MCNext == \E c \in Channel, w \in Worker, d \in Data :
            Len(sent[c][w]) < MaxSent /\ Receive(c, w, d)

\* Every message of every worker has come: the bounded run stops.
AllSent == (\A c \in Channel, w \in Worker : Len(sent[c][w]) = MaxSent)
             /\ UNCHANGED vars

MCSpec == Init /\ [][MCNext \/ AllSent]_vars

MCSymmetry == Permutations(Worker) \cup Permutations(Data)
=============================================================================
