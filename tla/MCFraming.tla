----------------------------- MODULE MCFraming ------------------------------
(* Small instances of Framing for TLC: two channels, bodies of no, one and  *)
(* more bytes, of which some need the second digit of the length.           *)
EXTENDS Framing, TLC

Bodies     == {<<>>, <<1>>, <<0, 1>>, <<1, 0, 1>>}
MCMessages == {[ch |-> 0, body |-> b] : b \in Bodies} \cup {[ch |-> 1, body |-> <<1>>]}
=============================================================================
