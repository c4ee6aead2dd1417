SPECIFICATION ListenFairSpec
CONSTANTS
  Procs = {p1}
  MaxFaults = 2
PROPERTY ReconnectsForever
