SPECIFICATION Spec
CONSTANTS
  TimerMax = 2
  NoCallback = NoCallback
  NoArg = NoArg
  AddressLength = 2
  Top = 7
  UdpSocketMax = 2
  FirstEphemeral = 1025
  DHCP_RTX = 1
  Second = 2
  TimeModulus = 16
  Servers <- MCServers
  LeaseOf <- MCLeaseOf
  LeaseTime <- MCLeaseTime
  NetMask <- MCNetMask
  StaticConfig <- MCStaticConfig
  OtherPorts = {0, 68, 69}
INVARIANTS
  TypeOK
  ResourcesHeld
  PortsUnique
  RenewsWithGrantor
  BoundIsArmed
  SendsBroadcast
PROPERTY OthersUntouched
