CONSTANTS
  Networks = {"home"}
  Reopens = {"refuse"}
  Faults = {"silence"}
  RecoveryThreshold = 3
  ResetThreshold = 12
  WakesGoOn = TRUE
SPECIFICATION FairSpec
PROPERTY WakesHeal
