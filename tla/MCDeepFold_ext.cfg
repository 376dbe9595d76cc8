\* One polynomial of four variables at a point of the extension field: from three
\* variables on the rounds after the first matter.
SPECIFICATION Spec
CONSTANTS
  Zero = zero
  LEAF_SIZE = 4
  DEFAULT_LEAF_SIZE = 2
  P = 97
  G = 28
  Kinds = {"ext"}
  Tables <- TwoTables
  BatchOf <- OneTwoOne
  Points <- ExtPoints
  Oracles <- TwoOracles
  Mu = 4
  Rate = 2
  S = 2
  Betas = {0, 13, 31}
INVARIANT ExtProofAccepted
CHECK_DEADLOCK FALSE
