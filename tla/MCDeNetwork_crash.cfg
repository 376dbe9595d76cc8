\* Two channels share the threads and sockets of two workers and the master, with a
\* barrier on each, and any party may crash at any time.
CONSTANTS
  Master = master
  Worker = {w1, w2}
  Channel = {ch0, ch1}
  MainChannel = ch0
  NoData = nodata
  SockCap = 2
  Crashable = {master, w1, w2}
  Bodies <- CrashBodies
SPECIFICATION FairSpec
INVARIANTS PipelineExact
PROPERTIES Implements MasterDeathEndsAll
CHECK_DEADLOCK FALSE
