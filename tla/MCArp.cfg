SPECIFICATION Spec
CONSTANTS
  TimerMax = 1
  NoCallback = NoCallback
  NoArg = NoArg
  TableSize = 2
  EntryTimeout = 2
  ReqTime = 2
  IpAddrs = {a, b, c}
  ZeroIp = ZeroIp
  Macs = {m, n}
  ZeroMac = ZeroMac
INVARIANTS
  TypeOK
  UniqueEntries
  PairsAreHeard
  WaitsAreAsked
SYMMETRY MCSymmetry
