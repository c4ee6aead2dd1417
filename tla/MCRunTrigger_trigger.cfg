SPECIFICATION FairSpec
CONSTANTS
  build1 = build1
  build2 = build2
  test = test
  report = report
  built = built
  tested = tested
  None = None
  Procs = {build1, build2, test, report}
  Triggers = {built, tested}
  Waits <- MCWaits
  Sends <- MCSends
  Always = {report}
  MaxBreaks = 1
CHECK_DEADLOCK FALSE
INVARIANTS TypeOK RunsInOrder
PROPERTY WaitersGoOn
