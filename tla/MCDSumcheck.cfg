\* Four parties, two local variables each; three challenges.
SPECIFICATION Spec
CONSTANTS
  P = 13
  N = 4
  Challenges = {4, 7, 11}
  Tables <- FourTables
  Instances <- FourInstances
INVARIANTS VerifierAccepts MultilinearAgree UnivariateAgree ReductionExact
PROPERTIES Implements
