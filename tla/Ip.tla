--------------------------------- MODULE Ip ---------------------------------
(***************************************************************************)
(* The decisions of net/ip.c, as operators: which packets are ours, which  *)
(* destinations are broadcast, and whose hardware address a packet needs.  *)
(* An address has one digit for each byte, from 0 to Top, the byte of      *)
(* eight ones.  A byte of a mask is all ones or all zeros, as in           *)
(* NET_IP_NETMASK, so that & and | need no bits.                           *)
(***************************************************************************)
EXTENDS Slots

CONSTANTS
  AddressLength,   (* sizeof(ip_address)                                   *)
  Top              (* 0xff                                                 *)

ASSUME AddressAssumption == AddressLength \in Nat \ {0} /\ Top \in Nat \ {0}

Octets    == 1 .. AddressLength
Addresses == [Octets -> 0 .. Top]
Masks     == [Octets -> {0, Top}]

ZeroIp  == [i \in Octets |-> 0]
AllOnes == [i \in Octets |-> Top]

\* ip_init copies the three addresses; the broadcast address follows from them.
Configs == [addr : Addresses, netmask : Masks, gateway : Addresses]

ZeroConfig == [addr |-> ZeroIp, netmask |-> ZeroIp, gateway |-> ZeroIp]

Masked(ip, mask) == [i \in Octets |-> IF mask[i] = 0 THEN 0 ELSE ip[i]]

\* ip_set_broadcast: without a mask it is 0.0.0.0, and not all ones.
Broadcast(config) ==
  IF config.netmask = ZeroIp THEN ZeroIp
  ELSE [i \in Octets |-> IF config.netmask[i] = 0 THEN Top ELSE config.addr[i]]

IsBroadcast(config, ip) == ip = AllOnes \/ ip = Broadcast(config)

InSubnet(config, ip) ==
  Masked(ip, config.netmask) = Masked(config.addr, config.netmask)

\* The address ip_send_packet asks arp_get_mac about.
ArpTarget(config, ip) == IF InSubnet(config, ip) THEN ip ELSE config.gateway

\* What ip_send_packet returns: a unicast packet leaves only when the table knows
\* the target, which depends on what others have sent.  known is that set.
Leaves(config, ip, known) ==
  IsBroadcast(config, ip) \/ ArpTarget(config, ip) \in known

\* ip_handle_packet takes what is sent to us or to 255.255.255.255, but not to
\* the broadcast address of the subnet.
Accepts(config, dst) == dst \in {config.addr, AllOnes}
=============================================================================
