---------------------------- MODULE MCDeNetwork -----------------------------
(* Small instances of DeNetwork for TLC.                                   *)
EXTENDS DeNetwork

\* Every body of at most two calls.
ShortBodies == UNION {[1..k -> {"gather", "scatter", "uniform"}] : k \in 0..2}

\* A barrier on every channel: every party both sends and waits.
CrashBodies == {<<"gather", "uniform">>}
=============================================================================
