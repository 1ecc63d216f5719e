------------------------------- MODULE MCTftp -------------------------------
(* Module Tftp on a disk whose files lie scattered over clusters of two      *)
(* units, with a directory in cluster 7.  Blocks are two units, too.         *)
EXTENDS Tftp, TLC

entry(kind, name, first, size) == [kind |-> kind, name |-> name, first |-> first, size |-> size]
none == entry("free", "", 0, 0)

MCFatTable == (2 :> 6) @@ (3 :> ClusterLast) @@ (4 :> 8) @@ (5 :> 3)
              @@ (6 :> 4) @@ (7 :> ClusterLast) @@ (8 :> ClusterEnd) @@ (9 :> ClusterFree)
MCRoot == <<entry("volume", "a", 0, 0), entry("lfn", "a", 2, 1), none,
            entry("file", "a", 2, 7), entry("dir", "d", 7, 0)>>
MCDirectories == [c \in Clusters |->
  IF c = 7 THEN <<none, entry("file", "b", 5, 3)>> ELSE <<none, none>>]

MCFiles == (<<"a">> :> [first |-> 2, size |-> 7]) @@ (<<"d", "b">> :> [first |-> 5, size |-> 3])
MCClient == <<1>>
MCServerConfig == [addr |-> <<2>>, netmask |-> <<0>>, gateway |-> <<0>>]

MCReaders == (1 :> <<"a">>) @@ (2 :> <<"d", "b">>) @@ (3 :> <<"a", "b">>)
MCWriters == (4 :> 3) @@ (5 :> 2)

\* The disk and the clients are such as the theorems of Tftp_proofs are about.
ASSUME MCAssumption == ChainsCover /\ LookupFinds /\ BlocksFit
=============================================================================
