----------------------------- MODULE MCDDeepFold ----------------------------
(* Small instances of DDeepFold for TLC.                                   *)
EXTENDS DDeepFold

\* Two polynomials of four variables, one of them twice in the batch.
TwoTables ==
  <<AsVec(<<79, 32, 94, 45, 88, 94, 83, 67, 3, 59, 31, 83, 6, 20, 14, 47>>),
    AsVec(<<60, 31, 48, 69, 13, 73, 31, 1, 93, 27, 52, 35, 23, 49, 20, 9>>)>>
OneTwoOne == <<1, 2, 1>>

At(re, im) == [re |-> AsVec(re), im |-> AsVec(im)]
ThreePoints == <<At(<<5, 71, 32, 8>>, <<0, 0, 0, 0>>), At(<<44, 9, 60, 3>>, <<0, 0, 0, 0>>),
                 At(<<90, 13, 27, 51>>, <<0, 0, 0, 0>>)>>
ExtPoints   == <<At(<<5, 71, 32, 8>>, <<17, 6, 80, 29>>)>>

TwoOracles ==
  {[batch |-> 23, sumcheck |-> <<12, 59, 7, 88>>, gamma |-> <<3, 77, 40>>,
    alpha |-> <<15, 66, 31, 92>>, r |-> <<48, 6, 83, 19>>],
   [batch |-> 64, sumcheck |-> <<95, 3, 41, 26>>, gamma |-> <<58, 1, 9>>,
    alpha |-> <<2, 37, 70, 53>>, r |-> <<11, 96, 4, 65>>]}
=============================================================================
