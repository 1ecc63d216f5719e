-------------------------------- MODULE Link --------------------------------
(***************************************************************************)
(* The receive side of the network: the ring of the ENC28J60, into which   *)
(* the chip writes while the driver reads (dev/enc28j60.c), the dispatch   *)
(* of net/ethernet.c, and the loop of the INT7 handler in main.c.  The     *)
(* chip is modelled from its registers as the driver uses them.            *)
(***************************************************************************)
EXTENDS Integers, Sequences

CONSTANTS
  RXSTOP,          (* The last byte of the ring, which begins with byte 0. *)
  HeaderSize,      (* Next pointer, length and status of a packet: 6 bytes.*)
  Lengths,         (* The lengths of packets, with their checksum.         *)
  MaxCount,        (* EPKTCNT holds no more: 255.                          *)
  maxlen,          (* The size of ethernet_rx_buffer.                      *)
  ChecksumSize,    (* 4                                                    *)
  Numbers          (* To tell the packets apart, in turn; a bound, larger  *)
                   (* than the number of packets in the ring.              *)

ASSUME LinkAssumption ==
  /\ RXSTOP \in Nat \ {0}
  /\ HeaderSize \in Nat \ {0} /\ ChecksumSize \in Nat
  /\ \A l \in Lengths : l \in Nat /\ l >= ChecksumSize
  /\ MaxCount \in Nat \ {0} /\ maxlen \in Nat \ {0} /\ Numbers \in Nat \ {0}

RXSTART == 0
Ring    == RXSTART .. RXSTOP
Size    == RXSTOP + 1

\* What becomes of a packet: its status has an error; the handler its type selects
\* returns 1, and the loop goes on; there is none, or it returns 0.
Kinds == {"error", "handled", "refused"}

VARIABLES
  erxwrpt, erxrdpt,  (* Where the chip writes, and where it must not.      *)
  ring,              (* The packets counted in EPKTCNT, oldest first.      *)
  next_packet_ptr,
  cpu,               (* What the program is doing.                         *)
  taken,             (* The packet that is being read, as it was found.    *)
  arrived            (* Number of the next packet.                         *)

\* History, read by the properties and by no guard: whether the chip has been led to
\* take a ring full to its last byte for an empty one.
VARIABLE mistaken

chip == <<erxwrpt, ring, arrived, mistaken>>
vars == <<erxwrpt, erxrdpt, ring, next_packet_ptr, cpu, taken, arrived, mistaken>>

\* A packet in the ring: where it begins, whether its bytes are still all its own,
\* and whether the driver has done with them.
Packets == [number : 0 .. Numbers - 1, start : Ring, bytes : Nat, length : Lengths,
            kind : Kinds, whole : BOOLEAN]

NoPacket == [number |-> -1]

Places == {"main", "count", "copy", "free", "free odd", "decrement", "dispatch"}

TypeOK ==
  /\ erxwrpt \in Ring /\ erxwrpt % 2 = 0 /\ erxrdpt \in Ring
  /\ ring \in Seq(Packets) /\ Len(ring) <= MaxCount
  /\ next_packet_ptr \in Ring /\ next_packet_ptr % 2 = 0
  /\ cpu \in Places /\ taken \in Packets \union {NoPacket}
  /\ arrived \in 0 .. Numbers - 1 /\ mistaken \in BOOLEAN

\* enc28j60_init
Init ==
  /\ erxwrpt = RXSTART /\ erxrdpt = RXSTART
  /\ ring = <<>>
  /\ next_packet_ptr = RXSTART
  /\ cpu = "main" /\ taken = NoPacket
  /\ arrived = 0 /\ mistaken = FALSE

-----------------------------------------------------------------------------
(* The chip.                                                               *)

EPKTCNT == Len(ring)

\* The bytes the chip may write.  It never writes the one at ERXRDPT, and when the
\* two pointers are equal the ring is empty.
Free == IF erxwrpt > erxrdpt THEN RXSTOP - (erxwrpt - erxrdpt)
        ELSE IF erxwrpt = erxrdpt THEN RXSTOP
        ELSE erxrdpt - erxwrpt - 1

\* Packets begin at even addresses.  The byte in between counts as written.
Taken(length) ==
  LET last == (erxwrpt + HeaderSize + length - 1) % Size
  IN  HeaderSize + length + (IF last % 2 = 0 /\ last # RXSTOP THEN 1 ELSE 0)

Covers(start, bytes, a) == (a - start + Size) % Size < bytes

Overlap(p, start, bytes) ==
  \E a \in Ring : Covers(start, bytes, a) /\ Covers(p.start, p.bytes, a)

\* A packet comes in; when there is no room for it, it is lost.
Arrive(length, kind) ==
  LET bytes == Taken(length)
      hit(p) == [p EXCEPT !.whole = @ /\ ~Overlap(p, erxwrpt, bytes)]
      new == [number |-> arrived, start |-> erxwrpt, bytes |-> HeaderSize + length,
              length |-> length, kind |-> kind, whole |-> TRUE]
  IN  /\ bytes <= Free /\ EPKTCNT < MaxCount
      /\ ring' = Append([i \in DOMAIN ring |-> hit(ring[i])], new)
      /\ taken' = IF cpu = "copy" THEN hit(taken) ELSE taken
      /\ erxwrpt' = (erxwrpt + bytes) % Size
      /\ arrived' = (arrived + 1) % Numbers
      /\ UNCHANGED <<erxrdpt, next_packet_ptr, cpu, mistaken>>

\* The pointer the chip has put before a packet.
NextOf(p) == LET end == (p.start + p.bytes) % Size IN IF end % 2 = 0 THEN end ELSE (end + 1) % Size

-----------------------------------------------------------------------------
(* The program.                                                            *)

\* INT7 is level-triggered, and its pin is low while a packet is in the ring.
Interrupt ==
  /\ cpu = "main" /\ EPKTCNT > 0
  /\ cpu' = "count"
  /\ UNCHANGED <<chip, erxrdpt, next_packet_ptr, taken>>

\* No packet: the length is 0, ethernet_handle_packet returns 0, the loop ends.
CountIsZero ==
  /\ cpu = "count" /\ EPKTCNT = 0
  /\ cpu' = "main"
  /\ UNCHANGED <<chip, erxrdpt, next_packet_ptr, taken>>

\* What lies at a place of the ring: the packet that begins there, if one does.
At(a) == {ring[i] : i \in {j \in DOMAIN ring : ring[j].start = a}}

\* Mutation: the memory is freed before the packet has been copied.
Header_Frees ==
  /\ cpu = "count" /\ EPKTCNT > 0
  /\ \E p \in At(next_packet_ptr) :
       /\ taken' = p
       /\ next_packet_ptr' = NextOf(p)
       /\ erxrdpt' = NextOf(p)
  /\ cpu' = "copy"
  /\ UNCHANGED chip

\* The read pointer is set, and the next pointer, the length and the status are read.
Header ==
  /\ cpu = "count" /\ EPKTCNT > 0
  /\ \E p \in At(next_packet_ptr) :
       /\ taken' = p
       /\ next_packet_ptr' = NextOf(p)
  /\ cpu' = "copy"
  /\ UNCHANGED <<chip, erxrdpt>>

\* The bytes are read into ethernet_rx_buffer, unless the status has an error.
Copy ==
  /\ cpu = "copy"
  /\ cpu' = "free"
  /\ UNCHANGED <<chip, erxrdpt, next_packet_ptr, taken>>

\* ERXRDPT is written twice, first with the pointer itself.
FreeMemory ==
  /\ cpu = "free"
  /\ erxrdpt' = next_packet_ptr
  /\ cpu' = "free odd"
  /\ UNCHANGED <<chip, next_packet_ptr, taken>>

\* Mutation: the pointer is not wrapped.
Before_NoWrap(a) == a - 1

\* The address before a, with the condition of the driver.
Before(a) == IF a - 1 < RXSTART \/ a - 1 > RXSTOP THEN RXSTOP ELSE a - 1

\* The one before the pointer: the pair of pointers that now means an empty ring may
\* have meant a full one, and the chip cannot tell.
FreeMemoryOdd ==
  /\ cpu = "free odd"
  /\ erxrdpt' = Before(next_packet_ptr)
  /\ mistaken' = (mistaken \/ erxrdpt' = erxwrpt)
  /\ cpu' = "decrement"
  /\ UNCHANGED <<erxwrpt, ring, arrived, next_packet_ptr, taken>>

\* Mutation: a packet with an error is left where it is.
Decrement_LeavesErrors ==
  /\ cpu = "decrement"
  /\ ring' = IF taken.kind = "error" THEN ring ELSE Tail(ring)
  /\ next_packet_ptr' = IF taken.kind = "error" THEN taken.start ELSE next_packet_ptr
  /\ cpu' = "dispatch"
  /\ UNCHANGED <<erxwrpt, arrived, mistaken, erxrdpt, taken>>

\* PKTDEC
Decrement ==
  /\ cpu = "decrement"
  /\ ring' = Tail(ring)
  /\ cpu' = "dispatch"
  /\ UNCHANGED <<erxwrpt, arrived, mistaken, erxrdpt, next_packet_ptr, taken>>

\* The length enc28j60_receive_packet returns.
rxlen(p) == LET n == p.length - ChecksumSize
            IN  IF p.kind = "error" THEN 0 ELSE IF n > maxlen THEN maxlen - 1 ELSE n

\* ethernet_handle_packet on what was read, and the while of the interrupt handler.
Dispatch ==
  /\ cpu = "dispatch"
  /\ cpu' = IF rxlen(taken) < 1 \/ taken.kind # "handled" THEN "main" ELSE "count"
  /\ taken' = NoPacket
  /\ UNCHANGED <<chip, erxrdpt, next_packet_ptr>>

Program ==
  \/ Interrupt \/ CountIsZero \/ Header \/ Copy \/ FreeMemory \/ FreeMemoryOdd
  \/ Decrement \/ Dispatch

Next == Program \/ \E length \in Lengths, kind \in Kinds : Arrive(length, kind)

Spec == Init /\ [][Next]_vars

\* Nothing holds the processor: the other handlers return, and INT7 is enabled.
FairSpec == Spec /\ WF_vars(Program)

-----------------------------------------------------------------------------
(* Properties.                                                             *)

\* The driver and the chip agree: what the driver takes next is the oldest packet,
\* or the place where the next will be, and no byte of a packet is written over
\* before it has been copied, although the chip writes at any time, around the end
\* of the ring too, and the driver moves ERXRDPT (twice) and EPKTCNT separately.
\* This holds until the second of the two writes meets ERXWRPT.
OldestIsIntact ==
  LET due == IF cpu \in {"main", "count", "dispatch"} THEN ring ELSE Tail(ring)
  IN  ~mistaken =>
        /\ \A i \in DOMAIN due : due[i].whole
        /\ cpu = "copy" => taken = Head(ring) /\ taken.whole
        /\ next_packet_ptr = IF due = <<>> THEN erxwrpt ELSE Head(due).start

\* Every packet in the ring is served in the end, whatever comes after it, and also
\* when the loop is left for the return value of a packet before it.
Served ==
  \A n \in 0 .. Numbers - 1 :
    (\E i \in DOMAIN ring : ring[i].number = n)
      ~> mistaken \/ ~\E i \in DOMAIN ring : ring[i].number = n
=============================================================================
