\* Every program of up to two calls after the connection round, one channel,
\* through sockets of one message.
CONSTANTS
  Master = master
  Worker = {w1, w2}
  Channel = {ch0}
  MainChannel = ch0
  NoData = nodata
  SockCap = 1
  Crashable = {}
  Bodies <- ShortBodies
SPECIFICATION FairSpec
INVARIANTS NothingUnreadAtShutdown NoPanic
PROPERTIES Termination
