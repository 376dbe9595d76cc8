\* Codewords of 16, 8, 4 and 2 elements: four columns for each of four parties,
\* a round that is spread and one that is not.
CONSTANTS
  Zero = zero
  LEAF_SIZE = 2
  DEFAULT_LEAF_SIZE = 2
  N = 4
  BaseMu = 3
  Rate = 2
  S = 2
  LocalVars <- MixedSizes
  Betas <- SomeBetas
  PointToCommit <- Targets
  PointToPoly <- TargetPoly
SPECIFICATION FairSpec
INVARIANTS NoPanic PartiesAgree RowsAgree SumsComplete VerifierAccepts
PROPERTIES Implements Termination
