------------------------------ MODULE Fifo_proofs ------------------------------
(***************************************************************************)
(* For every number of fifos, every fifo size and whatever is written,     *)
(* read, skipped and peeked at: the rings of util/fifo.c implement the     *)
(* bounded queues of module FifoQueue.  The lemmas about one ring come     *)
(* first: what a copy that is split at the end of the buffer reads and     *)
(* leaves, as sequences of bytes.                                          *)
(***************************************************************************)
EXTENDS Fifo, SequenceTheorems, TLAPS

Buffers == [Slots -> Bytes]
Pointers == 0 .. FifoSize

\* The bytes of a ring whose first is p and whose length is n.
Ring(buf, p, n) == [i \in 1 .. n |-> buf[Wrap(Bound(p) + i - 1)]]

LEMMA WrapInside ==
  ASSUME NEW p \in Slots, NEW n \in 0 .. FifoSize
  PROVE  Wrap(p + n) \in Slots
BY SizesAssumption DEF Wrap, Slots

LEMMA BoundInside ==
  ASSUME NEW p \in Pointers
  PROVE  Bound(p) \in Slots
BY SizesAssumption DEF Bound, Slots, Pointers

LEMMA RingIsSeq ==
  ASSUME NEW buf \in Buffers, NEW p \in Pointers, NEW n \in 0 .. FifoSize
  PROVE  /\ Ring(buf, p, n) \in Seq(Bytes)
         /\ Len(Ring(buf, p, n)) = n
         /\ \A i \in 1 .. n : Ring(buf, p, n)[i] = buf[Wrap(Bound(p) + i - 1)]
<1>1. ASSUME NEW i \in 1 .. n PROVE buf[Wrap(Bound(p) + i - 1)] \in Bytes
  <2>1. Bound(p) \in Slots /\ i - 1 \in 0 .. FifoSize
    BY BoundInside, SizesAssumption
  <2>2. Wrap(Bound(p) + (i - 1)) \in Slots
    BY <2>1, WrapInside
  <2>3. Bound(p) + (i - 1) = Bound(p) + i - 1
    BY <2>1, SizesAssumption DEF Slots
  <2>4. QED
    BY <2>2, <2>3 DEF Buffers
<1>2. Ring(buf, p, n) \in [1 .. n -> Bytes]
  BY <1>1 DEF Ring
<1>3. QED
  BY <1>2 DEF Ring

LEMMA RunIsSeq ==
  ASSUME NEW buf \in Buffers, NEW p \in Pointers, NEW n \in 0 .. FifoSize - p
  PROVE  /\ Run(buf, p, n) \in Seq(Bytes)
         /\ Len(Run(buf, p, n)) = n
         /\ \A i \in 1 .. n : Run(buf, p, n)[i] = buf[p + i - 1]
<1>1. ASSUME NEW i \in 1 .. n PROVE buf[p + i - 1] \in Bytes
  BY SizesAssumption DEF Buffers, Pointers, Slots
<1>2. Run(buf, p, n) \in [1 .. n -> Bytes]
  BY <1>1 DEF Run
<1>3. QED
  BY <1>2 DEF Run

\* The two memcpy calls of a read give the bytes of the ring (fifo.c:142-151).
LEMMA CopyOutIsRing ==
  ASSUME NEW buf \in Buffers, NEW p \in Pointers, NEW n \in 0 .. FifoSize
  PROVE  CopyOut(buf, p, n) = Ring(buf, p, n)
<1>1. FifoSize \in Nat \ {0} /\ p \in Nat /\ p <= FifoSize /\ n \in Nat /\ n <= FifoSize
  BY SizesAssumption DEF Pointers
<1>2. CASE n > FifoSize - p
  <2> DEFINE head == Run(buf, p, FifoSize - p)
             tail == Run(buf, 0, n - (FifoSize - p))
  <2>1. /\ head \in Seq(Bytes) /\ Len(head) = FifoSize - p
        /\ \A i \in 1 .. FifoSize - p : head[i] = buf[p + i - 1]
    BY <1>1, RunIsSeq
  <2>2. /\ 0 \in Pointers /\ n - (FifoSize - p) \in 0 .. FifoSize - 0
    BY <1>1, <1>2, SMT DEF Pointers
  <2>3. /\ tail \in Seq(Bytes) /\ Len(tail) = n - (FifoSize - p)
        /\ \A i \in 1 .. n - (FifoSize - p) : tail[i] = buf[0 + i - 1]
    BY <2>2, RunIsSeq
  <2> HIDE DEF head, tail
  <2>4. /\ head \o tail \in Seq(Bytes) /\ Len(head \o tail) = Len(head) + Len(tail)
        /\ \A i \in 1 .. Len(head) + Len(tail) :
             (head \o tail)[i] = IF i <= Len(head) THEN head[i] ELSE tail[i - Len(head)]
    BY <2>1, <2>3, ConcatProperties
  <2>5. Len(head \o tail) = n
    BY <1>1, <2>1, <2>3, <2>4
  <2>6. ASSUME NEW i \in 1 .. n PROVE (head \o tail)[i] = Ring(buf, p, n)[i]
    <3>1. Ring(buf, p, n)[i] = buf[Wrap(Bound(p) + i - 1)]
      BY RingIsSeq
    <3>2. CASE i <= FifoSize - p
      <4>1. (head \o tail)[i] = buf[p + i - 1]
        BY <1>1, <2>1, <2>3, <2>4, <3>2
      <4>2. Wrap(Bound(p) + i - 1) = p + i - 1
        BY <1>1, <3>2 DEF Wrap, Bound
      <4>3. QED
        BY <3>1, <4>1, <4>2
    <3>3. CASE ~(i <= FifoSize - p)
      <4>1. (head \o tail)[i] = tail[i - (FifoSize - p)]
        BY <1>1, <2>1, <2>3, <2>4, <3>3
      <4>2. i - (FifoSize - p) \in 1 .. n - (FifoSize - p)
        BY <1>1, <3>3
      <4>3. tail[i - (FifoSize - p)] = buf[0 + (i - (FifoSize - p)) - 1]
        BY <2>3, <4>2
      <4>4. Wrap(Bound(p) + i - 1) = 0 + (i - (FifoSize - p)) - 1
        BY <1>1, <3>3 DEF Wrap, Bound
      <4>5. QED
        BY <3>1, <4>1, <4>3, <4>4
    <3>4. QED
      BY <3>2, <3>3
  <2>7. head \o tail = Ring(buf, p, n)
    BY <2>4, <2>5, <2>6, RingIsSeq, SeqEqual
  <2>8. QED
    BY <1>2, <2>7 DEF CopyOut, head, tail
<1>3. CASE ~(n > FifoSize - p)
  <2>1. /\ Run(buf, p, n) \in Seq(Bytes) /\ Len(Run(buf, p, n)) = n
        /\ \A i \in 1 .. n : Run(buf, p, n)[i] = buf[p + i - 1]
    BY <1>1, <1>3, RunIsSeq
  <2>2. ASSUME NEW i \in 1 .. n PROVE Run(buf, p, n)[i] = Ring(buf, p, n)[i]
    <3>1. Wrap(Bound(p) + i - 1) = p + i - 1
      BY <1>1, <1>3 DEF Wrap, Bound
    <3>2. QED
      BY <2>1, <3>1, RingIsSeq
  <2>3. Run(buf, p, n) = Ring(buf, p, n)
    BY <2>1, <2>2, RingIsSeq, SeqEqual
  <2>4. QED
    BY <1>3, <2>3 DEF CopyOut
<1>4. QED
  BY <1>2, <1>3

\* The first m bytes of a ring, and the ring that is left without them.
LEMMA RingPrefix ==
  ASSUME NEW buf \in Buffers, NEW p \in Pointers, NEW n \in 0 .. FifoSize, NEW m \in 0 .. n
  PROVE  Ring(buf, p, m) = SubSeq(Ring(buf, p, n), 1, m)
<1>1. m \in 0 .. FifoSize /\ m \in Nat /\ n \in Nat
  BY SizesAssumption
<1>2. \A i \in 1 .. m : Ring(buf, p, n)[i] \in Bytes
  BY <1>1, RingIsSeq, ElementOfSeq
<1>3. /\ SubSeq(Ring(buf, p, n), 1, m) \in Seq(Bytes)
      /\ Len(SubSeq(Ring(buf, p, n), 1, m)) = m
      /\ \A i \in 1 .. m : SubSeq(Ring(buf, p, n), 1, m)[i] = Ring(buf, p, n)[i]
  <2> DEFINE part == SubSeq(Ring(buf, p, n), 1, m)
  <2>1. /\ part \in Seq(Bytes) /\ Len(part) = IF 1 <= m THEN m - 1 + 1 ELSE 0
        /\ \A i \in 1 .. m - 1 + 1 : part[i] = Ring(buf, p, n)[1 + i - 1]
    BY <1>1, <1>2, SubSeqProperties
  <2> HIDE DEF part
  <2>2. QED
    BY <1>1, <2>1 DEF part
<1>4. \A i \in 1 .. m : Ring(buf, p, m)[i] = Ring(buf, p, n)[i]
  BY <1>1, RingIsSeq
<1>5. QED
  BY <1>1, <1>3, <1>4, RingIsSeq, SeqEqual

LEMMA RingSuffix ==
  ASSUME NEW buf \in Buffers, NEW p \in Pointers, NEW n \in 0 .. FifoSize, NEW m \in 0 .. n,
         NEW q \in Pointers, Bound(q) = Wrap(Bound(p) + m)
  PROVE  Ring(buf, q, n - m) = SubSeq(Ring(buf, p, n), m + 1, n)
<1>1. /\ m \in Nat /\ n \in Nat /\ n - m \in 0 .. FifoSize /\ n - m \in Nat
      /\ FifoSize \in Nat /\ n <= FifoSize
  BY SizesAssumption
<1>2. \A i \in m + 1 .. n : Ring(buf, p, n)[i] \in Bytes
  BY <1>1, RingIsSeq, ElementOfSeq
<1>3. /\ SubSeq(Ring(buf, p, n), m + 1, n) \in Seq(Bytes)
      /\ Len(SubSeq(Ring(buf, p, n), m + 1, n)) = n - m
      /\ \A i \in 1 .. n - m : SubSeq(Ring(buf, p, n), m + 1, n)[i] = Ring(buf, p, n)[m + i]
  <2> DEFINE part == SubSeq(Ring(buf, p, n), m + 1, n)
  <2>1. /\ part \in Seq(Bytes) /\ Len(part) = IF m + 1 <= n THEN n - (m + 1) + 1 ELSE 0
        /\ \A i \in 1 .. n - (m + 1) + 1 : part[i] = Ring(buf, p, n)[(m + 1) + i - 1]
    BY <1>1, <1>2, SubSeqProperties
  <2> HIDE DEF part
  <2>2. QED
    BY <1>1, <2>1 DEF part
<1>4. ASSUME NEW i \in 1 .. n - m PROVE Ring(buf, q, n - m)[i] = Ring(buf, p, n)[m + i]
  <2>1. Ring(buf, q, n - m)[i] = buf[Wrap(Bound(q) + i - 1)]
    BY <1>1, RingIsSeq
  <2>2. Ring(buf, p, n)[m + i] = buf[Wrap(Bound(p) + (m + i) - 1)]
    BY <1>1, RingIsSeq
  <2>3. Bound(p) \in Slots
    BY BoundInside
  <2>4. Wrap(Bound(q) + i - 1) = Wrap(Bound(p) + (m + i) - 1)
    BY <1>1, <2>3 DEF Wrap, Slots
  <2>5. QED
    BY <2>1, <2>2, <2>4
<1>5. /\ Ring(buf, q, n - m) \in Seq(Bytes) /\ Len(Ring(buf, q, n - m)) = n - m
  BY <1>1, RingIsSeq
<1>6. \A i \in 1 .. n - m : Ring(buf, q, n - m)[i] = SubSeq(Ring(buf, p, n), m + 1, n)[i]
  BY <1>3, <1>4
<1>7. QED
  BY <1>3, <1>5, <1>6, SeqEqual

\* The two memcpy calls of a write put the new bytes behind those of the ring,
\* which they leave as they are (fifo.c:97-121).
LEMMA CopyInAppends ==
  ASSUME NEW buf \in Buffers, NEW p \in Pointers, NEW len \in 0 .. FifoSize,
         NEW chunk \in Seq(Bytes), NEW n \in 0 .. FifoSize - len, n <= Len(chunk)
  PROVE  /\ CopyIn(buf, Wrap(Bound(p) + len), chunk, n) \in Buffers
         /\ Ring(CopyIn(buf, Wrap(Bound(p) + len), chunk, n), p, len + n)
              = Ring(buf, p, len) \o SubSeq(chunk, 1, n)
<1> DEFINE at == Wrap(Bound(p) + len)
           new == CopyIn(buf, at, chunk, n)
<1>1. /\ FifoSize \in Nat \ {0} /\ len \in Nat /\ n \in Nat /\ len + n \in 0 .. FifoSize
      /\ Bound(p) \in 0 .. FifoSize - 1 /\ Len(chunk) \in Nat
      /\ at \in 0 .. FifoSize - 1
  BY SizesAssumption, BoundInside, WrapInside DEF Slots
<1>2. \A i \in 1 .. n : chunk[i] \in Bytes
  BY <1>1, ElementOfSeq
<1>3. new \in Buffers
  <2>1. ASSUME NEW i \in Slots
        PROVE  IF at <= i /\ i < at + n THEN chunk[i - at + 1] \in Bytes
               ELSE i < n - (FifoSize - at) => chunk[i + (FifoSize - at) + 1] \in Bytes
    <3> HIDE DEF at
    <3>1. i \in 0 .. FifoSize - 1
      BY DEF Slots
    <3>2. QED
      BY <1>1, <1>2, <3>1
  <2>2. \A i \in Slots : new[i] \in Bytes
    <3> HIDE DEF at
    <3>1. QED
      BY <2>1 DEF CopyIn, Buffers
  <2>3. QED
    BY <2>2 DEF Buffers, CopyIn
<1>4. \A i \in 1 .. len : new[Wrap(Bound(p) + i - 1)] = buf[Wrap(Bound(p) + i - 1)]
  <2> SUFFICES ASSUME NEW i \in 1 .. len
               PROVE  new[Wrap(Bound(p) + i - 1)] = buf[Wrap(Bound(p) + i - 1)]
    OBVIOUS
  <2> DEFINE k == Wrap(Bound(p) + i - 1)
  <2>1. k \in Slots /\ ~(at <= k /\ k < at + n) /\ ~(k < n - (FifoSize - at))
    BY <1>1 DEF Wrap, Slots
  <2> HIDE DEF k, at
  <2>2. new[k] = buf[k]
    BY <2>1 DEF CopyIn
  <2>3. QED
    BY <2>2 DEF k
<1>5. \A i \in 1 .. n : new[Wrap(Bound(p) + (len + i) - 1)] = chunk[i]
  <2> SUFFICES ASSUME NEW i \in 1 .. n
               PROVE  new[Wrap(Bound(p) + (len + i) - 1)] = chunk[i]
    OBVIOUS
  <2> DEFINE k == Wrap(Bound(p) + (len + i) - 1)
  <2>1. /\ k \in Slots
        /\ \/ at <= k /\ k < at + n /\ k - at + 1 = i
           \/ k < at /\ k < n - (FifoSize - at) /\ k + (FifoSize - at) + 1 = i
    <3>1. PICK b \in 0 .. FifoSize - 1 : b = Bound(p)
      BY <1>1
    <3>2. CASE b + len >= FifoSize
      <4>1. at = b + len - FifoSize
        BY <1>1, <3>1, <3>2 DEF Wrap
      <4>2. k = b + (len + i) - 1 - FifoSize
        BY <1>1, <3>1, <3>2 DEF Wrap
      <4> HIDE DEF at, k
      <4>3. QED
        BY <1>1, <3>2, <4>1, <4>2 DEF Slots
    <3>3. CASE ~(b + len >= FifoSize)
      <4>1. at = b + len
        BY <1>1, <3>1, <3>3 DEF Wrap
      <4>2. k = IF b + (len + i) - 1 >= FifoSize THEN b + (len + i) - 1 - FifoSize
                ELSE b + (len + i) - 1
        BY <1>1, <3>1 DEF Wrap
      <4> HIDE DEF at, k
      <4>3. QED
        BY <1>1, <3>3, <4>1, <4>2 DEF Slots
    <3>4. QED
      BY <3>2, <3>3
  <2> HIDE DEF k, at
  <2>2. new[k] = chunk[i]
    <3>1. CASE at <= k /\ k < at + n /\ k - at + 1 = i
      BY <2>1, <3>1 DEF CopyIn
    <3>2. CASE k < at /\ k < n - (FifoSize - at) /\ k + (FifoSize - at) + 1 = i
      <4>1. ~(at <= k /\ k < at + n)
        BY <1>1, <2>1, <3>2 DEF Slots
      <4>2. QED
        BY <2>1, <3>2, <4>1 DEF CopyIn
    <3>3. QED
      BY <2>1, <3>1, <3>2
  <2>3. QED
    BY <2>2 DEF k
<1>6. /\ SubSeq(chunk, 1, n) \in Seq(Bytes) /\ Len(SubSeq(chunk, 1, n)) = n
      /\ \A i \in 1 .. n : SubSeq(chunk, 1, n)[i] = chunk[i]
  <2> DEFINE part == SubSeq(chunk, 1, n)
  <2>1. /\ part \in Seq(Bytes) /\ Len(part) = IF 1 <= n THEN n - 1 + 1 ELSE 0
        /\ \A i \in 1 .. n - 1 + 1 : part[i] = chunk[1 + i - 1]
    BY <1>1, <1>2, SubSeqProperties
  <2> HIDE DEF part
  <2>2. QED
    BY <1>1, <2>1 DEF part
<1> HIDE DEF new, at
<1> DEFINE old == Ring(buf, p, len)
           part == SubSeq(chunk, 1, n)
           ring == Ring(new, p, len + n)
<1>7. /\ ring \in Seq(Bytes) /\ Len(ring) = len + n
      /\ \A i \in 1 .. len + n : ring[i] = new[Wrap(Bound(p) + i - 1)]
  BY <1>1, <1>3, RingIsSeq
<1>8. /\ old \in Seq(Bytes) /\ Len(old) = len
      /\ \A i \in 1 .. len : old[i] = buf[Wrap(Bound(p) + i - 1)]
  BY RingIsSeq
<1>9. /\ part \in Seq(Bytes) /\ Len(part) = n /\ \A i \in 1 .. n : part[i] = chunk[i]
  BY <1>6
<1> HIDE DEF old, part, ring
<1>10. /\ old \o part \in Seq(Bytes) /\ Len(old \o part) = len + n
       /\ \A i \in 1 .. len + n :
            (old \o part)[i] = IF i <= len THEN old[i] ELSE part[i - len]
  BY <1>8, <1>9, ConcatProperties
<1>11. ASSUME NEW i \in 1 .. len + n PROVE ring[i] = (old \o part)[i]
  <2>1. CASE i <= len
    <3>1. i \in 1 .. len
      BY <1>1, <2>1
    <3>2. (old \o part)[i] = old[i]
      BY <1>10, <2>1
    <3>3. QED
      BY <1>4, <1>7, <1>8, <3>1, <3>2
  <2>2. CASE ~(i <= len)
    <3>1. PICK j \in 1 .. n : i = len + j
      <4>1. i - len \in 1 .. n /\ i = len + (i - len)
        BY <1>1, <2>2
      <4>2. QED
        BY <4>1
    <3>2. (old \o part)[i] = part[j]
      <4>1. i - len = j
        BY <1>1, <3>1
      <4>2. QED
        BY <1>10, <2>2, <4>1
    <3>3. ring[i] = new[Wrap(Bound(p) + (len + j) - 1)]
      BY <1>7, <3>1
    <3>4. QED
      BY <1>5, <1>9, <3>2, <3>3
  <2>3. QED
    BY <2>1, <2>2
<1>12. ring = old \o part
  BY <1>7, <1>10, <1>11, SeqEqual
<1>13. QED
  BY <1>3, <1>12 DEF new, at, old, part, ring

-----------------------------------------------------------------------------
(* One call changes one fifo.                                              *)

\* The four fields of a fifo: of a free one, or of a ring whose last agrees with
\* the rest.
RingOK(buf, len, p, q) ==
  /\ buf \in Buffers /\ len \in 0 .. FifoSize
  /\ \/ p = Null /\ q = Null
     \/ p \in Pointers /\ q \in Slots /\ q = Wrap(Bound(p) + len)

RingInv == TypeOK /\ PointersAgree

\* The step that gives fifo f these fields, and no other fifo any.
FifoBecomes(f, buf, len, p, q) ==
  /\ buffer' = [buffer EXCEPT ![f] = buf]
  /\ length' = [length EXCEPT ![f] = len]
  /\ first' = [first EXCEPT ![f] = p]
  /\ last' = [last EXCEPT ![f] = q]

\* The queues and the owners that the refinement sees.
AbsQueue == [f \in Fifos |-> IF Free(f) THEN <<>> ELSE Content(f)]
Owned == {f \in Fifos : ~Free(f)}

LEMMA RingFields ==
  ASSUME RingInv, NEW f \in Fifos
  PROVE  /\ RingOK(buffer[f], length[f], first[f], last[f])
         /\ ~Free(f) => /\ first[f] \in Pointers /\ last[f] \in Slots
                        /\ last[f] = Wrap(Bound(first[f]) + length[f])
                        /\ AbsQueue[f] = Ring(buffer[f], first[f], length[f])
                        /\ Len(AbsQueue[f]) = length[f]
<1>1. /\ buffer[f] \in Buffers /\ length[f] \in 0 .. FifoSize
      /\ first[f] \in Pointers \union {Null} /\ last[f] \in Slots \union {Null}
  BY DEF RingInv, TypeOK, Buffers, Pointers
<1>2. \/ Free(f)
      \/ first[f] # Null /\ last[f] # Null /\ last[f] = Wrap(Bound(first[f]) + length[f])
  BY DEF RingInv, PointersAgree
<1>3. RingOK(buffer[f], length[f], first[f], last[f])
  BY <1>1, <1>2 DEF RingOK, Free
<1>4. ~Free(f) => AbsQueue[f] = Ring(buffer[f], first[f], length[f])
  BY DEF AbsQueue, Content, Ring
<1>5. QED
  BY <1>1, <1>2, <1>3, <1>4, RingIsSeq

LEMMA NullIsNoPointer ==
  ASSUME NEW p \in Pointers
  PROVE  p # Null
BY SizesAssumption DEF Pointers, Null

LEMMA OneFifo ==
  ASSUME RingInv, NEW f \in Fifos, NEW buf, NEW len, NEW p, NEW q, RingOK(buf, len, p, q),
         FifoBecomes(f, buf, len, p, q)
  PROVE  /\ RingInv'
         /\ p = Null => AbsQueue' = [AbsQueue EXCEPT ![f] = <<>>] /\ Owned' = Owned \ {f}
         /\ p # Null => /\ AbsQueue' = [AbsQueue EXCEPT ![f] = Ring(buf, p, len)]
                        /\ Owned' = Owned \union {f}
<1>1. /\ buffer \in [Fifos -> Buffers] /\ length \in [Fifos -> 0 .. FifoSize]
      /\ first \in [Fifos -> Pointers \union {Null}] /\ last \in [Fifos -> Slots \union {Null}]
  BY DEF RingInv, TypeOK, Buffers, Pointers
<1>2. /\ buf \in Buffers /\ len \in 0 .. FifoSize
      /\ p \in Pointers \union {Null} /\ q \in Slots \union {Null}
      /\ \/ p = Null /\ q = Null
         \/ p # Null /\ q # Null /\ q = Wrap(Bound(p) + len)
  <2>1. \A s \in Slots : s \in Pointers
    BY SizesAssumption DEF Slots, Pointers
  <2>2. QED
    BY <2>1, NullIsNoPointer DEF RingOK
<1>3. TypeOK'
  BY <1>1, <1>2 DEF FifoBecomes, TypeOK, Buffers, Pointers
<1>4. /\ buffer'[f] = buf /\ length'[f] = len /\ first'[f] = p /\ last'[f] = q
      /\ \A g \in Fifos : g # f =>
           /\ buffer'[g] = buffer[g] /\ length'[g] = length[g]
           /\ first'[g] = first[g] /\ last'[g] = last[g]
  BY <1>1 DEF FifoBecomes
<1>5. PointersAgree'
  <2> SUFFICES ASSUME NEW g \in Fifos
               PROVE  \/ Free(g)'
                      \/ /\ first'[g] # Null /\ last'[g] # Null
                         /\ last'[g] = Wrap(Bound(first'[g]) + length'[g])
    BY DEF PointersAgree, Wrap, Bound
  <2>1. CASE g = f
    BY <1>2, <1>4, <2>1 DEF Free
  <2>2. CASE g # f
    <3>1. \/ Free(g)
          \/ first[g] # Null /\ last[g] # Null /\ last[g] = Wrap(Bound(first[g]) + length[g])
      BY DEF RingInv, PointersAgree
    <3>2. QED
      BY <1>4, <2>2, <3>1 DEF Free
  <2>3. QED
    BY <2>1, <2>2
<1>6. \A g \in Fifos : g # f => (Free(g)' <=> Free(g)) /\ Content(g)' = Content(g)
  BY <1>4 DEF Free, Content, Wrap, Bound
<1>7. (Free(f)' <=> p = Null) /\ Content(f)' = Ring(buf, p, len)
  <2>1. Free(f)' <=> p = Null
    BY <1>2, <1>4 DEF Free
  <2>2. Content(f)' = Ring(buf, p, len)
    BY <1>4 DEF Content, Ring, Wrap, Bound
  <2>3. QED
    BY <2>1, <2>2
<1>8. Owned' = IF p = Null THEN Owned \ {f} ELSE Owned \union {f}
  BY <1>6, <1>7 DEF Owned
<1>9. AbsQueue' = [AbsQueue EXCEPT ![f] = IF p = Null THEN <<>> ELSE Ring(buf, p, len)]
  <2>1. AbsQueue' = [g \in Fifos |-> IF Free(g)' THEN <<>> ELSE Content(g)']
    BY Zenon DEF AbsQueue
  <2>2. \A g \in Fifos :
          AbsQueue'[g] = IF g = f THEN (IF p = Null THEN <<>> ELSE Ring(buf, p, len))
                         ELSE AbsQueue[g]
    BY <1>6, <1>7, <2>1 DEF AbsQueue
  <2>3. QED
    BY <2>1, <2>2 DEF AbsQueue
<1>10. QED
  BY <1>3, <1>5, <1>8, <1>9 DEF RingInv

LEMMA OneRing ==
  ASSUME RingInv, NEW f \in Fifos, NEW buf, NEW len, NEW p \in Pointers, NEW q,
         RingOK(buf, len, p, q),
         FifoBecomes(f, buf, len, p, q)
  PROVE  /\ RingInv'
         /\ AbsQueue' = [AbsQueue EXCEPT ![f] = Ring(buf, p, len)]
         /\ Owned' = Owned \union {f}
<1>1. p # Null
  BY NullIsNoPointer
<1>2. QED
  BY <1>1, OneFifo

-----------------------------------------------------------------------------
(* Each call does to the ring what FifoQueue says of the queue.            *)

LEMMA SameOperators ==
  ASSUME NEW m, NEW n, NEW v, NEW s
  PROVE  /\ Queue!Fifos = Fifos /\ Queue!NoFifo = NoFifo
         /\ Queue!Least(m, n) = Least(m, n)
         /\ Queue!Answer(v, s) = Answer(v, s)
         /\ Queue!Prefix(s, n) = SubSeq(s, 1, Least(n, Len(s)))
         /\ Queue!Suffix(s, n) = SubSeq(s, Least(n, Len(s)) + 1, Len(s))
BY DEF Queue!Fifos, Fifos, Queue!NoFifo, NoFifo, Queue!Least, Least, Queue!Answer, Answer,
       Queue!Prefix, Queue!Suffix

\* The actions of FifoQueue on the queues that the rings stand for.
LEMMA QueueActions ==
  ASSUME NEW f, NEW n, NEW offset, NEW chunk
  PROVE  /\ Queue!Take <=>
              \/ Owned = Fifos /\ result' = Answer(NoFifo, <<>>) /\ UNCHANGED <<AbsQueue, Owned>>
              \/ \E g \in Fifos \ Owned :
                   /\ 1 .. g - 1 \subseteq Owned /\ Owned' = Owned \union {g}
                   /\ result' = Answer(g, <<>>) /\ UNCHANGED AbsQueue
         /\ Queue!GiveBack(f) <=>
              /\ Owned' = Owned \ {f} /\ AbsQueue' = [AbsQueue EXCEPT ![f] = <<>>]
              /\ UNCHANGED result
         /\ Queue!Clear(f) <=>
              /\ f \in Owned /\ AbsQueue' = [AbsQueue EXCEPT ![f] = <<>>]
              /\ result' = Answer(1, <<>>) /\ UNCHANGED Owned
         /\ Queue!Enqueue(f, chunk) <=>
              /\ f \in Owned
              /\ AbsQueue' = [AbsQueue EXCEPT
                                ![f] = @ \o Queue!Prefix(chunk, FifoSize - Len(AbsQueue[f]))]
              /\ result' = Answer(Least(Len(chunk), FifoSize - Len(AbsQueue[f])), <<>>)
              /\ UNCHANGED Owned
         /\ Queue!Dequeue(f, n) <=>
              /\ f \in Owned /\ AbsQueue' = [AbsQueue EXCEPT ![f] = Queue!Suffix(@, n)]
              /\ result' = Answer(Least(n, Len(AbsQueue[f])), Queue!Prefix(AbsQueue[f], n))
              /\ UNCHANGED Owned
         /\ Queue!Skip(f, n) <=>
              /\ f \in Owned /\ AbsQueue' = [AbsQueue EXCEPT ![f] = Queue!Suffix(@, n)]
              /\ result' = Answer(Least(n, Len(AbsQueue[f])), <<>>)
              /\ UNCHANGED Owned
         /\ Queue!Peek(f, n, offset) <=>
              /\ f \in Owned /\ offset <= Len(AbsQueue[f])
              /\ result' = Answer(Least(n, Len(Queue!Suffix(AbsQueue[f], offset))),
                                  Queue!Prefix(Queue!Suffix(AbsQueue[f], offset), n))
              /\ UNCHANGED <<AbsQueue, Owned>>
<1>1. \A x, y : Queue!Least(x, y) = Least(x, y) /\ Queue!Answer(x, y) = Answer(x, y)
  BY SameOperators
<1>2. Queue!Fifos = Fifos /\ Queue!NoFifo = NoFifo
  BY SameOperators
<1>3. QED
  BY <1>1, <1>2, Zenon DEF Queue!Take, Queue!GiveBack, Queue!Clear, Queue!Enqueue, Queue!Dequeue,
     Queue!Skip, Queue!Peek, AbsQueue, Owned

LEMMA EmptyRing ==
  ASSUME NEW buf, NEW p
  PROVE  Ring(buf, p, 0) = <<>>
BY DEF Ring

LEMMA ClearedRing ==
  ASSUME RingInv, NEW f \in Fifos, ClearedAt(f)
  PROVE  /\ RingInv'
         /\ AbsQueue' = [AbsQueue EXCEPT ![f] = <<>>]
         /\ Owned' = Owned \union {f}
<1>1. buffer[f] \in Buffers
  BY DEF RingInv, TypeOK, Buffers
<1>2. 0 \in Pointers /\ 0 \in Slots /\ 0 = Wrap(Bound(0) + 0) /\ 0 \in 0 .. FifoSize
  BY SizesAssumption DEF Pointers, Slots, Wrap, Bound
<1>3. RingOK(buffer[f], 0, 0, 0)
  BY <1>1, <1>2 DEF RingOK
<1>4. FifoBecomes(f, buffer[f], 0, 0, 0)
  BY DEF ClearedAt, RingInv, TypeOK, FifoBecomes
<1>5. Ring(buffer[f], 0, 0) = <<>>
  BY EmptyRing
<1>6. /\ RingInv'
      /\ AbsQueue' = [AbsQueue EXCEPT ![f] = Ring(buffer[f], 0, 0)]
      /\ Owned' = Owned \union {f}
  BY <1>2, <1>3, <1>4, OneRing
<1>7. QED
  BY <1>5, <1>6

LEMMA AllocStep == RingInv /\ fifo_alloc => RingInv' /\ Queue!Take
<1> SUFFICES ASSUME RingInv, fifo_alloc PROVE RingInv' /\ Queue!Take
  OBVIOUS
<1>1. CASE (\A f \in Fifos : ~Free(f)) /\ result' = Answer(NoFifo, <<>>)
           /\ UNCHANGED <<buffer, length, first, last>>
  <2>1. Owned = Fifos
    BY <1>1 DEF Owned
  <2>2. RingInv' /\ UNCHANGED <<AbsQueue, Owned>>
    BY <1>1 DEF RingInv, TypeOK, PointersAgree, Free, Wrap, Bound, AbsQueue, Owned, Content
  <2>3. QED
    BY <1>1, <2>1, <2>2, QueueActions
<1>2. ASSUME NEW f \in Fifos, Free(f), \A g \in 1 .. f - 1 : ~Free(g), ClearedAt(f),
             result' = Answer(f, <<>>)
      PROVE  RingInv' /\ Queue!Take
  <2>1. RingInv' /\ AbsQueue' = [AbsQueue EXCEPT ![f] = <<>>] /\ Owned' = Owned \union {f}
    BY <1>2, ClearedRing
  <2>2. AbsQueue' = AbsQueue
    BY <1>2, <2>1 DEF AbsQueue
  <2>3. f \notin Owned /\ 1 .. f - 1 \subseteq Owned
    BY <1>2, SizesAssumption DEF Owned, Fifos
  <2>4. QED
    BY <1>2, <2>1, <2>2, <2>3, QueueActions
<1>3. QED
  BY <1>1, <1>2 DEF fifo_alloc

LEMMA ClearStep ==
  ASSUME NEW f \in Fifos
  PROVE  RingInv /\ fifo_clear(f) => RingInv' /\ Queue!Clear(f)
<1> SUFFICES ASSUME RingInv, fifo_clear(f) PROVE RingInv' /\ Queue!Clear(f)
  OBVIOUS
<1>1. RingInv' /\ AbsQueue' = [AbsQueue EXCEPT ![f] = <<>>] /\ Owned' = Owned \union {f}
  BY ClearedRing DEF fifo_clear
<1>2. f \in Owned /\ Owned' = Owned
  BY <1>1 DEF fifo_clear, Owned
<1>3. QED
  BY <1>1, <1>2, QueueActions DEF fifo_clear

LEMMA FreeStep ==
  ASSUME NEW f \in Fifos
  PROVE  RingInv /\ fifo_free(f) => RingInv' /\ Queue!GiveBack(f)
<1> SUFFICES ASSUME RingInv, fifo_free(f) PROVE RingInv' /\ Queue!GiveBack(f)
  OBVIOUS
<1>1. FifoBecomes(f, buffer[f], length[f], Null, Null)
  BY DEF fifo_free, RingInv, TypeOK, FifoBecomes
<1>2. RingOK(buffer[f], length[f], Null, Null)
  BY RingFields DEF RingOK
<1>3. RingInv' /\ AbsQueue' = [AbsQueue EXCEPT ![f] = <<>>] /\ Owned' = Owned \ {f}
  BY <1>1, <1>2, OneFifo
<1>4. QED
  BY <1>3, QueueActions DEF fifo_free

\* What moving first by m of the n bytes in the ring gives.
LEMMA Advanced ==
  ASSUME NEW p \in Pointers, NEW n \in 0 .. FifoSize, NEW m \in 0 .. n
  PROVE  /\ Advance(p, m) \in Pointers
         /\ Bound(Advance(p, m)) \in Slots
         /\ Bound(Bound(Advance(p, m))) = Bound(Advance(p, m))
         /\ Bound(Advance(p, m)) = Wrap(Bound(p) + m)
         /\ Wrap(Bound(p) + n) = Wrap(Wrap(Bound(p) + m) + (n - m))
<1>1. /\ FifoSize \in Nat \ {0} /\ p \in 0 .. FifoSize /\ n \in Nat /\ m \in Nat
      /\ n <= FifoSize /\ m <= n
  BY SizesAssumption DEF Pointers
<1>2. CASE m > FifoSize - p
  BY <1>1, <1>2 DEF Advance, Bound, Wrap, Pointers, Slots
<1>3. CASE ~(m > FifoSize - p)
  BY <1>1, <1>3 DEF Advance, Bound, Wrap, Pointers, Slots
<1>4. QED
  BY <1>2, <1>3

LEMMA WriteStep ==
  ASSUME NEW f \in Fifos, NEW chunk \in Chunks
  PROVE  RingInv /\ fifo_write(f, chunk) => RingInv' /\ Queue!Enqueue(f, chunk)
<1> SUFFICES ASSUME RingInv, fifo_write(f, chunk) PROVE RingInv' /\ Queue!Enqueue(f, chunk)
  OBVIOUS
<1> DEFINE n == Least(Len(chunk), Space(f))
           buf == CopyIn(buffer[f], last[f], chunk, n)
           q == Bound(Advance(last[f], n))
<1>1. /\ ~Free(f) /\ f \in Owned
      /\ RingOK(buffer[f], length[f], first[f], last[f])
      /\ first[f] \in Pointers /\ last[f] \in Slots
      /\ last[f] = Wrap(Bound(first[f]) + length[f])
      /\ AbsQueue[f] = Ring(buffer[f], first[f], length[f]) /\ Len(AbsQueue[f]) = length[f]
  BY RingFields DEF fifo_write, Owned
<1>2. chunk \in Seq(Bytes) /\ Len(chunk) \in Nat
  BY ChunksAssumption
<1>3. /\ length[f] \in 0 .. FifoSize /\ buffer[f] \in Buffers
      /\ n \in 0 .. FifoSize - length[f] /\ n \in Nat /\ n <= Len(chunk) /\ n <= FifoSize
  BY <1>1, <1>2, SizesAssumption DEF RingOK, Least, Space
<1>4. /\ buf \in Buffers
      /\ Ring(buf, first[f], length[f] + n) = AbsQueue[f] \o SubSeq(chunk, 1, n)
  <2> HIDE DEF n
  <2>1. n \in 0 .. FifoSize - length[f] /\ n <= Len(chunk)
    BY <1>3
  <2>2. /\ CopyIn(buffer[f], Wrap(Bound(first[f]) + length[f]), chunk, n) \in Buffers
        /\ Ring(CopyIn(buffer[f], Wrap(Bound(first[f]) + length[f]), chunk, n), first[f],
                length[f] + n)
             = Ring(buffer[f], first[f], length[f]) \o SubSeq(chunk, 1, n)
    BY <1>1, <1>2, <1>3, <2>1, CopyInAppends
  <2>3. QED
    BY <1>1, <2>2
<1>5. q \in Slots /\ q = Wrap(Bound(first[f]) + (length[f] + n))
  <2>1. last[f] \in Pointers /\ n \in 0 .. n
    BY <1>1, <1>3, SizesAssumption DEF Pointers, Slots
  <2>2. q \in Slots /\ q = Wrap(Bound(last[f]) + n)
    BY <1>3, <2>1, Advanced
  <2>3. Bound(last[f]) = Wrap(Bound(first[f]) + length[f])
    BY <1>1, SizesAssumption DEF Bound, Slots
  <2>4. /\ length[f] + n \in 0 .. FifoSize /\ length[f] \in 0 .. length[f] + n
        /\ (length[f] + n) - length[f] = n
    <3> HIDE DEF n
    <3>1. QED
      BY <1>3, SizesAssumption
  <2>5. Wrap(Bound(first[f]) + (length[f] + n))
          = Wrap(Wrap(Bound(first[f]) + length[f]) + ((length[f] + n) - length[f]))
    BY <1>1, <2>4, Advanced
  <2>6. QED
    BY <2>2, <2>3, <2>4, <2>5
<1>6. FifoBecomes(f, buf, length[f] + n, first[f], q) /\ result' = Answer(n, <<>>)
  BY DEF fifo_write, RingInv, TypeOK, FifoBecomes
<1>7. n = Least(Len(chunk), FifoSize - Len(AbsQueue[f]))
  BY <1>1 DEF Space
<1>8. n = Least(FifoSize - Len(AbsQueue[f]), Len(chunk))
  BY <1>1, <1>2, <1>3, SizesAssumption DEF Space, Least
<1> HIDE DEF n, buf, q
<1>9. RingOK(buf, length[f] + n, first[f], q)
  BY <1>1, <1>3, <1>4, <1>5, SizesAssumption DEF RingOK
<1>11. /\ RingInv'
       /\ AbsQueue' = [AbsQueue EXCEPT ![f] = Ring(buf, first[f], length[f] + n)]
       /\ Owned' = Owned \union {f}
  BY <1>1, <1>6, <1>9, OneRing
<1>12. Queue!Prefix(chunk, FifoSize - Len(AbsQueue[f])) = SubSeq(chunk, 1, n)
  BY <1>8, SameOperators
<1>13. AbsQueue' = [AbsQueue EXCEPT
                      ![f] = @ \o Queue!Prefix(chunk, FifoSize - Len(AbsQueue[f]))]
  BY <1>4, <1>11, <1>12
<1>14. Owned' = Owned
  BY <1>1, <1>11
<1>15. QED
  BY <1>1, <1>6, <1>7, <1>11, <1>13, <1>14, QueueActions

\* What fifo_dequeue and fifo_skip leave.
LEMMA TakenOut ==
  ASSUME RingInv, NEW f \in Fifos, NEW request \in Requests, NEW p, ~Free(f),
         Least(request, length[f]) = 0 => p = first[f],
         Least(request, length[f]) # 0 =>
           \/ p = Advance(first[f], Least(request, length[f]))
           \/ p = Bound(Advance(first[f], Least(request, length[f]))),
         UNCHANGED <<buffer, last>>,
         length' = [length EXCEPT ![f] = @ - Least(request, length[f])],
         first' = [first EXCEPT ![f] = p]
  PROVE  /\ RingInv' /\ f \in Owned /\ Owned' = Owned
         /\ AbsQueue' = [AbsQueue EXCEPT ![f] = Queue!Suffix(@, request)]
         /\ Len(AbsQueue[f]) = length[f]
         /\ CopyOut(buffer[f], first[f], Least(request, length[f]))
              = Queue!Prefix(AbsQueue[f], request)
<1> DEFINE n == Least(request, length[f])
<1>1. /\ f \in Owned
      /\ RingOK(buffer[f], length[f], first[f], last[f])
      /\ first[f] \in Pointers /\ last[f] \in Slots
      /\ last[f] = Wrap(Bound(first[f]) + length[f])
      /\ AbsQueue[f] = Ring(buffer[f], first[f], length[f]) /\ Len(AbsQueue[f]) = length[f]
  BY RingFields DEF Owned
<1>2. /\ length[f] \in 0 .. FifoSize /\ buffer[f] \in Buffers /\ n \in 0 .. length[f]
      /\ n \in 0 .. FifoSize /\ length[f] - n \in 0 .. FifoSize
  BY <1>1, SizesAssumption, RequestsAssumption DEF RingOK, Least
<1>3. p \in Pointers /\ Bound(p) = Wrap(Bound(first[f]) + n)
  <2>1. CASE n = 0
    <3>1. Bound(first[f]) \in Slots
      BY <1>1, BoundInside
    <3>2. Wrap(Bound(first[f]) + 0) = Bound(first[f])
      BY <3>1, SizesAssumption DEF Wrap, Slots
    <3>3. QED
      BY <1>1, <2>1, <3>2
  <2>2. CASE n # 0
    <3>1. /\ Advance(first[f], n) \in Pointers /\ Bound(Advance(first[f], n)) \in Slots
          /\ Bound(Bound(Advance(first[f], n))) = Bound(Advance(first[f], n))
          /\ Bound(Advance(first[f], n)) = Wrap(Bound(first[f]) + n)
      BY <1>1, <1>2, Advanced
    <3>2. \A s \in Slots : s \in Pointers
      BY SizesAssumption DEF Slots, Pointers
    <3>3. p = Advance(first[f], n) \/ p = Bound(Advance(first[f], n))
      BY <2>2
    <3> HIDE DEF n
    <3>4. QED
      BY <3>1, <3>2, <3>3
  <2>3. QED
    BY <2>1, <2>2
<1>4. last[f] = Wrap(Bound(p) + (length[f] - n))
  BY <1>1, <1>2, <1>3, Advanced
<1>5. Ring(buffer[f], p, length[f] - n) = SubSeq(AbsQueue[f], n + 1, length[f])
  BY <1>1, <1>2, <1>3, RingSuffix
<1>6. CopyOut(buffer[f], first[f], n) = SubSeq(AbsQueue[f], 1, n)
  BY <1>1, <1>2, CopyOutIsRing, RingPrefix
<1>7. /\ Queue!Prefix(AbsQueue[f], request) = SubSeq(AbsQueue[f], 1, n)
      /\ Queue!Suffix(AbsQueue[f], request) = SubSeq(AbsQueue[f], n + 1, length[f])
  BY <1>1, SameOperators
<1>8. FifoBecomes(f, buffer[f], length[f] - n, p, last[f])
  BY DEF RingInv, TypeOK, FifoBecomes
<1>9. RingOK(buffer[f], length[f] - n, p, last[f])
  BY <1>1, <1>2, <1>3, <1>4 DEF RingOK
<1> HIDE DEF n
<1>11. /\ RingInv'
       /\ AbsQueue' = [AbsQueue EXCEPT ![f] = Ring(buffer[f], p, length[f] - n)]
       /\ Owned' = Owned \union {f}
  BY <1>3, <1>8, <1>9, OneRing
<1>12. QED
  BY <1>1, <1>5, <1>6, <1>7, <1>11 DEF n

LEMMA DequeueStep ==
  ASSUME NEW f \in Fifos, NEW request \in Requests
  PROVE  RingInv /\ fifo_dequeue(f, request) => RingInv' /\ Queue!Dequeue(f, request)
<1> SUFFICES ASSUME RingInv, fifo_dequeue(f, request)
             PROVE  RingInv' /\ Queue!Dequeue(f, request)
  OBVIOUS
<1> DEFINE n == Least(request, length[f])
           p == IF n = 0 THEN first[f] ELSE Bound(Advance(first[f], n))
<1>1. /\ ~Free(f) /\ UNCHANGED <<buffer, last>>
      /\ length' = [length EXCEPT ![f] = @ - n]
      /\ first' = [first EXCEPT ![f] = p]
      /\ result' = Answer(n, CopyOut(buffer[f], first[f], n))
  BY DEF fifo_dequeue
<1>2. /\ n = 0 => p = first[f]
      /\ n # 0 => p = Advance(first[f], n) \/ p = Bound(Advance(first[f], n))
  OBVIOUS
<1> HIDE DEF p
<1>3. /\ RingInv' /\ f \in Owned /\ Owned' = Owned
      /\ AbsQueue' = [AbsQueue EXCEPT ![f] = Queue!Suffix(@, request)]
      /\ Len(AbsQueue[f]) = length[f]
      /\ CopyOut(buffer[f], first[f], n) = Queue!Prefix(AbsQueue[f], request)
  BY <1>1, <1>2, TakenOut
<1>4. QED
  BY <1>1, <1>3, QueueActions

LEMMA SkipStep ==
  ASSUME NEW f \in Fifos, NEW request \in Requests
  PROVE  RingInv /\ fifo_skip(f, request) => RingInv' /\ Queue!Skip(f, request)
<1> SUFFICES ASSUME RingInv, fifo_skip(f, request)
             PROVE  RingInv' /\ Queue!Skip(f, request)
  OBVIOUS
<1> DEFINE n == Least(request, length[f])
           p == IF n = 0 THEN first[f] ELSE Advance(first[f], n)
<1>1. /\ ~Free(f) /\ UNCHANGED <<buffer, last>>
      /\ length' = [length EXCEPT ![f] = @ - n]
      /\ first' = [first EXCEPT ![f] = p]
      /\ result' = Answer(n, <<>>)
  BY DEF fifo_skip
<1>2. /\ n = 0 => p = first[f]
      /\ n # 0 => p = Advance(first[f], n) \/ p = Bound(Advance(first[f], n))
  OBVIOUS
<1> HIDE DEF p
<1>3. /\ RingInv' /\ f \in Owned /\ Owned' = Owned
      /\ AbsQueue' = [AbsQueue EXCEPT ![f] = Queue!Suffix(@, request)]
      /\ Len(AbsQueue[f]) = length[f]
  BY <1>1, <1>2, TakenOut
<1>4. QED
  BY <1>1, <1>3, QueueActions

LEMMA PeekStep ==
  ASSUME NEW f \in Fifos, NEW request \in Requests, NEW offset \in Requests
  PROVE  RingInv /\ fifo_peek(f, request, offset) =>
           RingInv' /\ Queue!Peek(f, request, offset)
<1> SUFFICES ASSUME RingInv, fifo_peek(f, request, offset)
             PROVE  RingInv' /\ Queue!Peek(f, request, offset)
  OBVIOUS
<1> DEFINE len == length[f]
           n == Least(offset + request, len) - offset
           ptr == Advance(first[f], offset)
           rest == Queue!Suffix(AbsQueue[f], offset)
<1>1. /\ f \in Owned /\ offset <= len
      /\ RingOK(buffer[f], len, first[f], last[f])
      /\ first[f] \in Pointers
      /\ AbsQueue[f] = Ring(buffer[f], first[f], len) /\ Len(AbsQueue[f]) = len
  BY RingFields DEF fifo_peek, Owned
<1>2. /\ len \in 0 .. FifoSize /\ buffer[f] \in Buffers /\ request \in Nat
      /\ offset \in 0 .. len /\ offset \in 0 .. FifoSize /\ len - offset \in 0 .. FifoSize
  <2>1. request \in Nat /\ offset \in Nat
    BY RequestsAssumption
  <2>2. len \in 0 .. FifoSize /\ buffer[f] \in Buffers
    BY <1>1 DEF RingOK
  <2> HIDE DEF len
  <2>3. QED
    BY <1>1, <2>1, <2>2, SizesAssumption
<1>3. ptr \in Pointers /\ Bound(ptr) = Wrap(Bound(first[f]) + offset)
  BY <1>1, <1>2, Advanced
<1>4. Ring(buffer[f], ptr, len - offset) = SubSeq(AbsQueue[f], offset + 1, len)
  BY <1>1, <1>2, <1>3, RingSuffix
<1>5. rest = Ring(buffer[f], ptr, len - offset)
  <2>1. Least(offset, Len(AbsQueue[f])) = offset
    BY <1>1 DEF Least
  <2>2. rest = SubSeq(AbsQueue[f], Least(offset, Len(AbsQueue[f])) + 1, Len(AbsQueue[f]))
    BY SameOperators
  <2>3. QED
    BY <1>1, <1>4, <2>1, <2>2
<1>6. Len(rest) = len - offset
  BY <1>2, <1>3, <1>5, RingIsSeq
<1>7. n = Least(request, len - offset) /\ n \in 0 .. len - offset /\ n \in 0 .. FifoSize
  BY <1>2, SizesAssumption DEF Least
<1>8. CopyOut(buffer[f], ptr, n) = SubSeq(rest, 1, n)
  BY <1>2, <1>3, <1>5, <1>7, CopyOutIsRing, RingPrefix
<1>9. Queue!Prefix(rest, request) = SubSeq(rest, 1, n)
  <2>1. Queue!Prefix(rest, request) = SubSeq(rest, 1, Least(request, Len(rest)))
    BY SameOperators
  <2>2. n = Least(request, Len(rest))
    BY <1>6, <1>7
  <2> HIDE DEF n, rest
  <2>3. QED
    BY <2>1, <2>2
<1>10. result' = Answer(Least(request, Len(rest)), Queue!Prefix(rest, request))
  <2>1. result' = Answer(n, CopyOut(buffer[f], ptr, n))
    BY DEF fifo_peek
  <2>2. n = Least(request, Len(rest))
    BY <1>6, <1>7
  <2> HIDE DEF n, ptr, rest
  <2>3. QED
    BY <1>8, <1>9, <2>1, <2>2
<1>11. RingInv' /\ UNCHANGED <<AbsQueue, Owned>>
  BY DEF fifo_peek, RingInv, TypeOK, PointersAgree, Free, Wrap, Bound, AbsQueue, Owned, Content
<1>12. QED
  BY <1>1, <1>10, <1>11, QueueActions

-----------------------------------------------------------------------------
(* The theorems.                                                           *)

LEMMA RingInit == Init => RingInv /\ Queue!QueueInit
<1> SUFFICES ASSUME Init PROVE RingInv /\ Queue!QueueInit
  OBVIOUS
<1>1. TypeOK
  BY BytesAssumption, SizesAssumption DEF Init, TypeOK
<1>2. \A f \in Fifos : Free(f)
  BY DEF Init, Free
<1>3. AbsQueue = [f \in Fifos |-> <<>>] /\ Owned = {}
  BY <1>2 DEF AbsQueue, Owned
<1>4. Queue!QueueInit
  BY <1>3, SameOperators DEF Queue!QueueInit, AbsQueue, Owned, Init
<1>5. QED
  BY <1>1, <1>2, <1>4 DEF RingInv, PointersAgree

LEMMA RingNext == RingInv /\ [Next]_vars => RingInv' /\ [Queue!QueueNext]_(Queue!qvars)
<1> SUFFICES ASSUME RingInv, [Next]_vars
             PROVE  RingInv' /\ [Queue!QueueNext]_(Queue!qvars)
  OBVIOUS
<1>0. Queue!Fifos = Fifos
  BY SameOperators
<1>1. CASE UNCHANGED vars
  BY <1>1 DEF vars, RingInv, TypeOK, PointersAgree, Free, Wrap, Bound, Content, Queue!qvars
<1>2. CASE fifo_alloc
  BY <1>2, AllocStep DEF Queue!QueueNext
<1>3. ASSUME NEW f \in Fifos, fifo_clear(f) \/ fifo_free(f)
      PROVE  RingInv' /\ Queue!QueueNext
  BY <1>0, <1>3, ClearStep, FreeStep DEF Queue!QueueNext
<1>4. ASSUME NEW f \in Fifos, NEW chunk \in Chunks, fifo_write(f, chunk)
      PROVE  RingInv' /\ Queue!QueueNext
  BY <1>0, <1>4, WriteStep DEF Queue!QueueNext
<1>5. ASSUME NEW f \in Fifos, NEW n \in Requests, fifo_dequeue(f, n) \/ fifo_skip(f, n)
      PROVE  RingInv' /\ Queue!QueueNext
  BY <1>0, <1>5, DequeueStep, SkipStep DEF Queue!QueueNext
<1>6. ASSUME NEW f \in Fifos, NEW n \in Requests, NEW offset \in Requests, fifo_peek(f, n, offset)
      PROVE  RingInv' /\ Queue!QueueNext
  BY <1>0, <1>6, PeekStep DEF Queue!QueueNext
<1>7. QED
  BY <1>1, <1>2, <1>3, <1>4, <1>5, <1>6 DEF Next

\* No pointer of a ring leaves its buffer, except first to the address one past
\* the end where fifo_skip may put it, and no length exceeds the size, whatever
\* lengths are asked for (fifo.c:94-228).
THEOREM TypeCorrect == Spec => []TypeOK
<1>1. RingInv => TypeOK
  BY DEF RingInv
<1>2. QED
  BY <1>1, RingInit, RingNext, PTL DEF Spec

\* The pointers and the length of a ring never drift apart, although fifo_write and
\* fifo_dequeue wrap a pointer at once and fifo_skip only when it is next used.
THEOREM PointersCorrect == Spec => []PointersAgree
<1>1. RingInv => PointersAgree
  BY DEF RingInv
<1>2. QED
  BY <1>1, RingInit, RingNext, PTL DEF Spec

\* The pool of rings implements the pool of bounded queues: what tcp.c enqueues it
\* gets back once, in order and unchanged, and only from the fifo it gave it to.
THEOREM QueueImplemented == Spec => ImplementsQueue
BY RingInit, RingNext, PTL DEF Spec, ImplementsQueue, Queue!QueueSpec

=============================================================================
