SPECIFICATION Spec
CONSTANTS
  Clients = {c1, c2}
  Realms = {r1}
  MaxBrokers = 2
  SendCap = 1
  MaxMsgs = 3
  None = None
SYMMETRY Symmetry
INVARIANTS TypeOK NoClosedMember ManagerNeverStuck
PROPERTY ImplementsBus
CHECK_DEADLOCK FALSE
