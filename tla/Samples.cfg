\* Either pair, with less room than the longest text needs.
SPECIFICATION FairSpec
CONSTANTS
  Sends = 7
  Letters = 4
  RecvMax = 3
  Room = 3
INVARIANTS TypeOK EveryLetterArrives CountersBounded
PROPERTIES TcpPairEnds
\* A server may wait for a client for ever, and a program may have ended.
CHECK_DEADLOCK FALSE
