CONSTANTS
  HalfRange = 64
  SendInterval = 30
  SendRetryInterval = 6
  RetryInterval = 3
  MqttRetryInterval = 3
  LoopDelay = 1
  CallTime = 1
  RecoveryTime = 0
  RecoveryThreshold = 3
  ResetThreshold = 12
  Flaky = {}
  Down = {"mqtt"}
SPECIFICATION Spec
INVARIANT SendsOnlyWhenConnected
