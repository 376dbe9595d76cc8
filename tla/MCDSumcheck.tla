----------------------------- MODULE MCDSumcheck ----------------------------
(* Small instances of DSumcheck for TLC.                                   *)
EXTENDS DSumcheck

\* Four variables: two for the parties and two of their own.
FourTables ==
  <<AsVec(<<9, 4, 11, 5, 12, 11, 11, 10, 8, 0, 7, 12, 3, 10, 0, 2>>),
    AsVec(<<1, 5, 7, 3, 6, 8, 1, 9, 3, 0, 11, 3, 6, 4, 2, 12>>),
    AsVec(<<6, 2, 12, 12, 1, 2, 9, 9, 7, 2, 2, 0, 0, 3, 12, 3>>),
    BuildEqXR(AsVec(<<3, 12, 9, 2>>))>>

Prod(mles, coeff) == [mles |-> mles, coeff |-> coeff]
Times(mle, coeff) == [mle |-> mle, coeff |-> coeff]
Inst(kind, added, factors) ==
  [kind |-> kind, added |-> added, factors |-> factors, zerocheck_r |-> AsVec(<<8, 4, 11, 2>>)]

\* A table that occurs in two products and twice in one, products of different
\* degrees, all of them multiplied by an eq table.
FourInstances ==
  {Inst("virtual", <<Prod(<<1, 2>>, 2), Prod(<<1>>, 3)>>, <<Times(4, 3)>>),
   Inst("ext", <<Prod(<<1, 2, 1>>, 2), Prod(<<3>>, 1)>>, <<>>),
   Inst("arbitrary", <<Prod(<<1, 2>>, 1), Prod(<<3, 2>>, 4)>>, <<>>),
   Inst("cubic", <<Prod(<<1, 2>>, 1), Prod(<<2, 3>>, 2)>>, <<>>)}
=============================================================================
