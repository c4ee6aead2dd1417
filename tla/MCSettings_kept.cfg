SPECIFICATION Spec
CONSTANTS
  Introducers = {i1, i2}
  Keys = {k1, k2, k3}
  Nothing = Nothing
  Blank = Blank
  MaxKills = 2
  MaxCommands = 2
  Writers = {w1, w2}
  Names <- MCNames
  Values = {v1, v2}
  Absent = Absent
  MaxJobs = 3
  MaxKilled = 1
CHECK_DEADLOCK FALSE
INVARIANTS TypeOK KeyReused 
