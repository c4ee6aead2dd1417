SPECIFICATION FairSpec
CONSTANTS
  low = low
  mid = mid
  high = high
  Ids = {mid, high}
  Level <- LevelOf
  LevelAlways = 4
  LevelUnacknowledged = 2
  LevelUnseen = 2
  RecentCap = 1
  MaxNotes = 2
  MaxAcks = 1
  None = None
PROPERTY UnacknowledgedPushed
CHECK_DEADLOCK FALSE
