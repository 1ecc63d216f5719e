----------------------------- MODULE MCStorage -----------------------------
(* Module Storage with two cards whose partitions begin at different blocks, *)
(* and a third whose partition is marked inactive.                           *)
EXTENDS Storage, TLC

CONSTANTS c1, c2, c3

MCCards  == {c1, c2, c3}
MCBlocks == 0 .. 2
MCBoot   == (c1 :> 1) @@ (c2 :> 2) @@ (c3 :> 1)
MCActive == {c1, c2}
=============================================================================
