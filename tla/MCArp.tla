-------------------------------- MODULE MCArp --------------------------------
(* Module Arp on three other hosts and a table of two, as in arp_config.h.  *)
EXTENDS Arp, TLC

\* No host and no MAC differs from another.
MCSymmetry == Permutations(IpAddrs) \union Permutations(Macs)
=============================================================================
