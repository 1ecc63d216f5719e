------------------------------- MODULE MCFifo -------------------------------
(* Values for the constants of Fifo that a .cfg cannot express. *)
EXTENDS Fifo

MCRequests == 0 .. FifoSize + 1

\* One string of each length, up to one byte too long for the ring; neighbours
\* differ, so that a byte out of place shows.
MCChunks == {[i \in 1 .. n |-> i % 2] : n \in 0 .. FifoSize + 1}
=============================================================================
