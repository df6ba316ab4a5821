CONSTANTS
  Networks = {"home", "guest"}
  Reopens = {"refuse", "renew"}
  Faults = {"silence", "late", "refusal", "peer", "link", "restart"}
  RecoveryThreshold = 2
  ResetThreshold = 4
  WakesGoOn = FALSE
SPECIFICATION FairSpec
INVARIANTS
  TypeOK
  ReportedIsAccepted
  AddressCurrent
  SocketsReturned
PROPERTIES
  OwnSocket
  EscalationPolicy
  TelemetryHeals
