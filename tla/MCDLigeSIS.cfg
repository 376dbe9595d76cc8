\* Four parties with two rows each.  Bytes for field elements, and words that
\* just hold the sum of all the 64 entries of a row of A.
CONSTANTS
  P = 241
  G = 8
  Eta = 8
  LogM = 3
  LogN = 2
  WORD = 14
  Evals <- EightRows
  MatA <- TwoHashes
  Points <- TwoPoints
  Oracles <- TwoOracles
  N = 4
SPECIFICATION DSpec
INVARIANTS NoPanic VerifierAccepts SumsExact
PROPERTIES Implements
