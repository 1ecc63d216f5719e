SPECIFICATION FairSpec
CONSTANTS
  MaxSockets = 2
  FifoCount = 4
  FifoSize = 2
  ListenPorts = {7}
  FirstEphemeral = 1024
  Remotes = {r1}
  Nobody = Nobody
  NoApp = NoApp
  OtherTimers = {1}
  RtxSynAck = 1
  RtxSyn = 1
  RtxData = 1
  RtxFin = 1
  MaxLen = 1
  TimerMax = 3
  NoCallback = NoCallback
  NoArg = NoArg
  Apps = {"any"}
  Calls <- MCAnyCalls
  MainCalls <- MCAnyMainCalls
  SendResults = {TRUE, FALSE}
INVARIANTS
  TypeOK
  ForeignTimerUntouched
  PeekInBounds
  FinIsLast
PROPERTY TimeWaitEnds
\* The system may rest: every socket closed, no timer running.
CHECK_DEADLOCK FALSE
