\* Four parties, four folds: codewords of 32, 16, 8 and 4 elements in 8, 4, 2
\* and 1 leaves.  The leaf sizes are a quarter of the code's and the rate is
\* half of it, so that the smallest codeword is as long as a leaf.
CONSTANTS
  Zero = zero
  LEAF_SIZE = 4
  DEFAULT_LEAF_SIZE = 2
  P = 97
  G = 28
  Kinds = {"open","batch","batch_ext"}
  Tables <- TwoTables
  BatchOf <- OneTwoOne
  Points <- ThreePoints
  Oracles <- TwoOracles
  Mu = 4
  Rate = 2
  S = 2
  N = 4
  Betas = {0, 13, 31}
SPECIFICATION Spec
INVARIANTS NoPanic VerifierAccepts Binding
PROPERTIES Implements
