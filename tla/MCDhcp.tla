------------------------------- MODULE MCDhcp -------------------------------
(* Module Dhcp in a network 1.x with two servers.  The lease of the second   *)
(* is longer than a timer can be set to.                                     *)
EXTENDS Dhcp

MCServers == {<<1, 1>>, <<1, 2>>}
MCLeaseOf == [s \in MCServers |-> <<1, 4 + s[2]>>]
MCLeaseTime == [s \in MCServers |-> IF s[2] = 1 THEN 3 ELSE 5]
MCNetMask == <<7, 0>>
MCStaticConfig == [addr |-> <<1, 3>>, netmask |-> <<7, 0>>, gateway |-> <<1, 1>>]
=============================================================================
