CONSTANTS
  HalfRange = 5
  MqttRetryInterval = 2
  PingInterval = 3
  CallTime = 1
  PassRest = 1
  Qos = {1}
  MaxCoalesced = 2
  MaxInbox = 2
  MaxWakes = 2
  Faults = {}
SPECIFICATION Spec
INVARIANT WakeReachesHandler
