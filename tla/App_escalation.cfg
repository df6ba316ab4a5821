CONSTANTS
  HalfRange = 8
  SendInterval = 4
  SendRetryInterval = 3
  RetryInterval = 2
  MqttRetryInterval = 2
  LoopDelay = 1
  CallTime = 1
  RecoveryTime = 0
  RecoveryThreshold = 2
  ResetThreshold = 4
  Flaky = {"sensors", "wifi", "mqtt", "wol", "api", "link", "power"}
  Down = {}
SPECIFICATION Spec
INVARIANTS
  TypeOK
  SessionNeedsWifi
  RetryPaced
PROPERTY EscalationPolicy
