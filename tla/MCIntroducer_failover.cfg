SPECIFICATION FairSpec
CONSTANTS
  desk = desk
  laptop = laptop
  Introducers = {desk, laptop}
  LevelChoices <- Levels
  OutCap = 2
  InCap = 1
  MaxDisturbances = 2
INVARIANTS TypeOK OnlyHighestActive HighestStaysActive
PROPERTIES LowerStepsBack TakesOver
CHECK_DEADLOCK FALSE
