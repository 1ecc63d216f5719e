-------------------------------- MODULE Slots --------------------------------
(***************************************************************************)
(* What the tables of this program have in common: slots numbered from     *)
(* zero, scanned in that order, each of them free while its callback is    *)
(* the null pointer (sys/timer.c, net/udp.c, net/tcp.c, net/arp.c).        *)
(***************************************************************************)
EXTENDS Integers

CONSTANT NoCallback   (* The null function pointer. *)

\* What a scan of a table from slot 0 on meets first.
Lowest(S) == CHOOSE n \in S : \A m \in S : n <= m

\* What one that goes on to the end meets last.
Highest(S) == CHOOSE n \in S : \A m \in S : m <= n
=============================================================================
