CONSTANTS
  WatchdogPeriod = 4
  DefaultPeriod = 1
  PassTime = 6
SPECIFICATION FairSpec
PROPERTY StuckResets
CHECK_DEADLOCK FALSE
