\* Three workers, up to three messages each: a worker may be two ahead.
CONSTANTS
  Worker = {w1, w2, w3}
  Channel = {ch0}
  Data = {d1, d2}
  MaxSent = 3
SPECIFICATION MCSpec
SYMMETRY MCSymmetry
INVARIANTS ReadyExact RoundsAligned NoRoundHeldBack NothingLost
