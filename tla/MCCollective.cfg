\* Two workers, one channel, every program of three calls.
CONSTANTS
  Master = master
  Worker = {w1, w2}
  Channel = {ch0}
  Programs <- MCPrograms
  NoData = nodata
SPECIFICATION MCSpec
INVARIANTS BarrierSafe
