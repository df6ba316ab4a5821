CONSTANTS
  HalfRange = 5
  MqttRetryInterval = 2
  PingInterval = 3
  CallTime = 1
  PassRest = 1
  Qos = {1}
  MaxCoalesced = 1
  MaxInbox = 2
  MaxWakes = 0
  Faults = {"refusal"}
SPECIFICATION Spec
INVARIANT ConnectedMeansSubscribed
