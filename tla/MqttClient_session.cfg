CONSTANTS
  HalfRange = 4
  MqttRetryInterval = 2
  PingInterval = 3
  CallTime = 1
  PassRest = 1
  Qos = {0, 1}
  MaxCoalesced = 1
  MaxInbox = 2
  MaxWakes = 1
  Faults = {"call", "loss"}
SPECIFICATION Spec
INVARIANTS
  TypeOK
  KeepAliveHonoured
PROPERTIES
  WakesInOrder
  Reconnects
