----------------------------- MODULE MCDLigeSIS ------------------------------
(* Small instances of DLigeSIS for TLC.                                     *)
EXTENDS DLigeSIS

\* Eight rows of four columns.
EightRows ==
  AsVec(<<
    82, 38, 101, 166, 12, 18, 210, 137, 24, 93, 149, 14, 232, 129, 54, 9, 22, 111, 107,
    17, 61, 23, 141, 108, 15, 211, 144, 31, 57, 161, 160, 149>>)

TwoHashes ==
  AsVec(<<
    AsVec(<<
      15, 147, 149, 101, 12, 56, 11, 142, 219, 34, 74, 107, 36, 138, 30, 146, 78, 143,
      208, 174, 46, 26, 148, 146, 163, 48, 95, 24, 140, 182, 16, 144, 15, 158, 52, 127,
      174, 136, 109, 198, 80, 119, 149, 236, 116, 92, 76, 63, 203, 46, 178, 199, 62, 20,
      147, 76, 134, 126, 224, 87, 186, 114, 73, 155>>),
    AsVec(<<
      18, 30, 131, 107, 42, 193, 87, 38, 238, 125, 107, 10, 171, 19, 195, 142, 146, 202,
      224, 209, 80, 87, 177, 89, 152, 127, 148, 204, 116, 17, 215, 23, 69, 121, 178, 170,
      16, 15, 187, 179, 79, 165, 147, 174, 210, 114, 72, 183, 98, 227, 171, 88, 5, 240,
      118, 90, 43, 156, 29, 126, 15, 55, 196, 73>>)>>)

\* One that has a variable less than the polynomial.
TwoPoints == {AsVec(<<35, 191, 65, 103, 102>>), AsVec(<<236, 225, 129, 22>>)}

TwoOracles ==
 {[I |-> <<2, 3, 6, 4>>,
    alpha1 |-> <<73, 228, 37, 211, 112, 223, 142, 73>>, alpha2 |-> <<182>>, alpha3 |-> <<108, 93, 176>>,
    r1 |-> <<228, 99, 61, 40, 23, 47, 40, 61>>, r6 |-> <<170, 61>>, mat_g |-> <<<<5, 126>>, <<214>>>>,
    r2 |-> <<152, 48>>, r3 |-> <<69, 74, 3>>, r4 |-> <<39, 109, 138, 96, 158, 146>>,
    r5 |-> <<83, 34, 178, 221, 133, 160>>],
  [I |-> <<0, 3, 5, 4>>,
    alpha1 |-> <<102, 103, 104, 102, 28, 125, 164, 104>>, alpha2 |-> <<17>>, alpha3 |-> <<50, 19, 55>>,
    r1 |-> <<114, 43, 30, 89, 155, 15, 28, 2>>, r6 |-> <<147, 40>>, mat_g |-> <<<<139, 27>>, <<95>>>>,
    r2 |-> <<159, 8>>, r3 |-> <<20, 225, 55>>, r4 |-> <<159, 98, 40, 164, 66, 90>>,
    r5 |-> <<156, 95, 123, 33, 31, 219>>]}
=============================================================================
