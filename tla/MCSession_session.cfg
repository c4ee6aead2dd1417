SPECIFICATION Spec
CONSTANTS
  k1 = k1
  k2 = k2
  k3 = k3
  desk = desk
  server = server
  Keys = {k1, k2, k3}
  Introducers = {server}
  MaxKeys = 2
  KeysOf <- KeysOfEach
  MaxPrompts = 2
  MaxNotes = 3
INVARIANTS TypeOK GoesOnWithAGoodKey FalseReportNeedsSurplus ShownOncePerSharedKey
CHECK_DEADLOCK FALSE
