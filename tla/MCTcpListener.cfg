SPECIFICATION Spec
CONSTANTS
  MaxSockets = 2
  FifoCount = 4
  FifoSize = 2
  ListenPorts = {7}
  FirstEphemeral = 1024
  Remotes = {r1}
  Nobody = Nobody
  NoApp = NoApp
  OtherTimers = {1}
  RtxSynAck = 1
  RtxSyn = 1
  RtxData = 1
  RtxFin = 1
  MaxLen = 1
  TimerMax = 4
  NoCallback = NoCallback
  NoArg = NoArg
  Apps = {"echod"}
  Calls <- MCEchodCalls
  MainCalls <- MCEchodMainCalls
  SendResults = {TRUE, FALSE}
PROPERTIES
  ListenerStays
\* The system may rest: every socket closed, no timer running.
CHECK_DEADLOCK FALSE
