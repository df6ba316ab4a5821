CONSTANTS
  WatchdogPeriod = 4
  DefaultPeriod = 1
  PassTime = 6
SPECIFICATION FairSpec
INVARIANTS
  TypeOK
  ReasonTruthful
  NoSpuriousReset
PROPERTY WatchedLoopEnds
