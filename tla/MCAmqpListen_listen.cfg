SPECIFICATION ListenFairSpec
CONSTANTS
  Procs = {p1, p2, p3}
  MaxFaults = 3
INVARIANTS ListenTypeOK ListenerIsAttached NoRivalGhost
PROPERTY Reattaches
