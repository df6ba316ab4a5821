CONSTANTS
  HalfRange = 8
  SendInterval = 3
  SendRetryInterval = 2
  RetryInterval = 1
  MqttRetryInterval = 1
  LoopDelay = 1
  CallTime = 0
  RecoveryTime = 0
  RecoveryThreshold = 2
  ResetThreshold = 4
  Flaky = {"sensors", "wifi", "mqtt", "wol", "api", "link"}
  Down = {}
SPECIFICATION FairSpec
INVARIANT WaitBounded
PROPERTIES
  SelfHealing
  ListensAgain
