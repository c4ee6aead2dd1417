SPECIFICATION FairSpec
CONSTANTS
  Clients = {c1, c2}
  Realms = {r1}
  MaxBrokers = 2
  SendCap = 1
  MaxMsgs = 2
  None = None
PROPERTIES ReadersServed EvictedIsDisconnected DeadPeerForgotten EveryClientStarted
CHECK_DEADLOCK FALSE
