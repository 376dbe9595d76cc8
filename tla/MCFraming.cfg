\* Two messages of up to six bytes through a socket of four, read three at a time.
CONSTANTS
  Messages <- MCMessages
  MaxSent = 2
  LenBytes = 2
  Base = 2
  SockLen = 4
  TempLen = 3
  MayReset = TRUE
SPECIFICATION FairSpec
INVARIANTS StreamExact NoLostWakeup
PROPERTIES AllReceived
