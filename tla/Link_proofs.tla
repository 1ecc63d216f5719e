------------------------------ MODULE Link_proofs ------------------------------
(***************************************************************************)
(* Theorems about the receive ring, for every size of the ring, of the     *)
(* header and of the packets: no packet is written over before it has been *)
(* copied, until the second write of ERXRDPT meets ERXWRPT, and when it    *)
(* does the ring is full to its last byte.                                 *)
(*                                                                         *)
(* Addresses run around the ring, so the invariant speaks of distances     *)
(* from Base, the first byte the chip must leave alone: from there on the  *)
(* packets lie one behind the other, and the chip's pointer behind them.   *)
(***************************************************************************)
EXTENDS Link, SequenceTheorems, TLAPS

-----------------------------------------------------------------------------
(* Arithmetic of the ring.                                                 *)

\* How far it is from a to b, forwards.
Dist(a, b) == IF a <= b THEN b - a ELSE b - a + Size

\* One lap at most is taken off by the remainder.
LEMMA Wrap ==
  ASSUME NEW x \in Nat, x < 2 * Size
  PROVE  x % Size = IF x < Size THEN x ELSE x - Size
<1>1. Size \in Nat /\ Size > 0
  BY LinkAssumption DEF Size
<1>2. CASE x < Size
  BY <1>1, <1>2
<1>3. CASE ~(x < Size)
  <2>1. x >= Size /\ x < 2 * Size
    BY <1>1, <1>3
  <2>2. x % Size = x - Size
    BY <1>1, <2>1
  <2>3. QED
    BY <1>3, <2>2
<1>4. QED
  BY <1>2, <1>3

\* A remainder lies in the ring.
LEMMA InRing ==
  ASSUME NEW x \in Nat
  PROVE  x % Size \in Ring
<1>1. Size \in Nat /\ Size > 0
  BY LinkAssumption DEF Size
<1>2. x % Size \in 0 .. Size - 1
  BY <1>1
<1>3. QED
  BY <1>2, LinkAssumption DEF Size, Ring, RXSTART

\* Where the packet after one of n bytes that begins at a is expected.
After(a, n) ==
  LET end == (a + n) % Size IN IF end % 2 = 0 THEN end ELSE (end + 1) % Size

\* It is an even address of the ring, also where the ring ends at an even one.
LEMMA AfterEven ==
  ASSUME NEW a \in Ring, NEW n \in Nat
  PROVE  After(a, n) \in Ring /\ After(a, n) % 2 = 0
<1> DEFINE end == (a + n) % Size
<1>1. end \in Ring
  BY InRing DEF Ring, RXSTART
<1>2. Ring = 0 .. Size - 1 /\ Size \in Nat /\ Size > 1
  BY LinkAssumption DEF Ring, Size, RXSTART
<1> HIDE DEF end
<1>3. CASE end % 2 = 0
  BY <1>1, <1>3 DEF After, end
<1>4. CASE end % 2 # 0 /\ end + 1 < Size
  <2>1. (end + 1) % Size = end + 1
    BY <1>1, <1>2, <1>4, Wrap
  <2>2. After(a, n) = end + 1
    BY <1>4, <2>1 DEF After, end
  <2>3. QED
    BY <1>1, <1>2, <1>4, <2>2
<1>5. CASE end % 2 # 0 /\ ~(end + 1 < Size)
  <2>1. (end + 1) % Size = 0
    BY <1>1, <1>2, <1>5, Wrap
  <2>2. After(a, n) = 0
    BY <1>5, <2>1 DEF After, end
  <2>3. QED
    BY <1>1, <1>2, <2>2
<1>6. QED
  BY <1>3, <1>4, <1>5

\* The address after x, and the one after that.
LEMMA Steps ==
  ASSUME NEW x \in Nat, x < 2 * Size - 2
  PROVE  LET last == x % Size
         IN  /\ last \in Ring
             /\ last = RXSTOP => (x + 1) % Size = 0
             /\ last # RXSTOP => (x + 1) % Size = last + 1
             /\ (x + 2) % Size = (((x + 1) % Size) + 1) % Size
<1>1. RXSTOP \in Nat /\ Size = RXSTOP + 1 /\ Ring = 0 .. RXSTOP
  BY LinkAssumption DEF Ring, Size, RXSTART
<1>2. PICK y \in Nat : y = x + 1
  OBVIOUS
<1>3. PICK z \in Nat : z = x + 2
  OBVIOUS
<1>4. /\ x % Size = IF x < Size THEN x ELSE x - Size
      /\ y % Size = IF y < Size THEN y ELSE y - Size
      /\ z % Size = IF z < Size THEN z ELSE z - Size
  <2>1. x < 2 * Size /\ y < 2 * Size /\ z < 2 * Size
    BY <1>1, <1>2, <1>3
  <2>2. QED
    BY <2>1, <1>2, <1>3, Wrap
<1>5. PICK v \in Nat : v = (y % Size) + 1
  <2>1. y % Size \in Ring
    BY <1>2, InRing
  <2>2. QED
    BY <1>1, <2>1
<1>6. v % Size = IF v < Size THEN v ELSE v - Size
  <2>1. v < 2 * Size
    BY <1>1, <1>2, <1>4, <1>5
  <2>2. QED
    BY <2>1, Wrap
<1>7. v % Size = z % Size
  BY <1>1, <1>2, <1>3, <1>4, <1>5, <1>6
<1>8. (x + 2) % Size = (((x + 1) % Size) + 1) % Size
  BY <1>2, <1>3, <1>5, <1>7
<1>9. x % Size \in Ring
  BY InRing
<1>10. /\ x % Size = RXSTOP => y % Size = 0
       /\ x % Size # RXSTOP => y % Size = (x % Size) + 1
  BY <1>1, <1>2, <1>4, <1>9
<1>11. QED
  BY <1>2, <1>8, <1>9, <1>10

\* The bytes the chip takes for a packet of n bytes in all.
Rounded(w, n) ==
  LET last == (w + n - 1) % Size IN n + (IF last % 2 = 0 /\ last # RXSTOP THEN 1 ELSE 0)

\* They end where the next packet is expected.
LEMMA RoundedEnds ==
  ASSUME NEW w \in Ring, NEW n \in Nat \ {0}, n <= RXSTOP
  PROVE  Rounded(w, n) \in Nat /\ Rounded(w, n) >= n /\ (w + Rounded(w, n)) % Size = After(w, n)
<1>1. RXSTOP \in Nat /\ Size = RXSTOP + 1 /\ Ring = 0 .. RXSTOP
  BY LinkAssumption DEF Ring, Size, RXSTART
<1>2. PICK x \in Nat : x = w + n - 1
  BY <1>1
<1>3. x < 2 * Size - 2 /\ w + n = x + 1 /\ w + (n + 1) = x + 2
  BY <1>1, <1>2
<1>4. PICK last \in Ring : last = x % Size
  BY InRing
<1>5. PICK end \in Ring : end = (x + 1) % Size
  BY InRing
<1>6. /\ last = RXSTOP => end = 0
      /\ last # RXSTOP => end = last + 1
      /\ (x + 2) % Size = (end + 1) % Size
  BY <1>3, <1>4, <1>5, Steps
<1>7. After(w, n) = IF end % 2 = 0 THEN end ELSE (end + 1) % Size
  BY <1>3, <1>5 DEF After
<1>8. Rounded(w, n) = n + (IF last % 2 = 0 /\ last # RXSTOP THEN 1 ELSE 0)
  BY <1>2, <1>4 DEF Rounded
<1>9. CASE last % 2 = 0 /\ last # RXSTOP
  <2>1. end % 2 # 0
    BY <1>1, <1>6, <1>9
  <2>2. Rounded(w, n) = n + 1
    BY <1>8, <1>9
  <2>3. (w + Rounded(w, n)) % Size = (x + 2) % Size
    BY <1>3, <2>2
  <2>4. QED
    BY <1>6, <1>7, <2>1, <2>2, <2>3
<1>10. CASE ~(last % 2 = 0 /\ last # RXSTOP)
  <2>1. end % 2 = 0
    BY <1>1, <1>6, <1>10
  <2>2. Rounded(w, n) = n
    BY <1>8, <1>10
  <2>3. (w + Rounded(w, n)) % Size = end
    BY <1>3, <1>5, <2>2
  <2>4. QED
    BY <1>7, <2>1, <2>2, <2>3
<1>11. QED
  BY <1>9, <1>10

\* That is what Taken says.
LEMMA TakenEnds ==
  ASSUME erxwrpt \in Ring, NEW length \in Lengths, Taken(length) <= RXSTOP
  PROVE  /\ HeaderSize + length \in Nat \ {0}
         /\ Taken(length) \in Nat /\ Taken(length) >= HeaderSize + length
         /\ (erxwrpt + Taken(length)) % Size = After(erxwrpt, HeaderSize + length)
<1>1. PICK n \in Nat \ {0} : n = HeaderSize + length
  BY LinkAssumption
<1>2. Taken(length) = Rounded(erxwrpt, n)
  <2>1. erxwrpt + HeaderSize + length - 1 = erxwrpt + n - 1
    BY <1>1, LinkAssumption DEF Ring, RXSTART
  <2>2. QED
    BY <1>1, <2>1 DEF Taken, Rounded
<1>3. n <= RXSTOP
  BY <1>2, LinkAssumption DEF Rounded
<1>4. QED
  BY <1>1, <1>2, <1>3, RoundedEnds

LEMMA DistFacts ==
  ASSUME NEW a \in Ring, NEW b \in Ring
  PROVE  /\ Dist(a, b) \in 0 .. RXSTOP
         /\ Dist(a, b) = 0 <=> a = b
BY LinkAssumption DEF Dist, Ring, RXSTART, Size

\* What lies behind b on the way from a to c is what is left of the way.
LEMMA DistRest ==
  ASSUME NEW a \in Ring, NEW b \in Ring, NEW c \in Ring, Dist(a, b) <= Dist(a, c)
  PROVE  Dist(b, c) = Dist(a, c) - Dist(a, b)
BY LinkAssumption DEF Dist, Ring, RXSTART, Size

\* A pointer that goes on by k, and not past b, is k farther from b.
LEMMA DistOn ==
  ASSUME NEW b \in Ring, NEW w \in Ring, NEW k \in Nat, Dist(b, w) + k <= RXSTOP
  PROVE  /\ (w + k) % Size \in Ring
         /\ Dist(b, (w + k) % Size) = Dist(b, w) + k
<1>1. RXSTOP \in Nat /\ Size = RXSTOP + 1 /\ Ring = 0 .. RXSTOP
  BY LinkAssumption DEF Ring, Size, RXSTART
<1>2. PICK x \in Nat : x = w + k
  BY <1>1
<1>3. PICK y \in Ring : y = x % Size
  BY InRing
<1>4. x < 2 * Size
  BY <1>1, <1>2 DEF Dist
<1>5. y = IF x < Size THEN x ELSE x - Size
  BY <1>3, <1>4, Wrap
<1>6. Dist(b, y) = Dist(b, w) + k
  BY <1>1, <1>2, <1>5 DEF Dist
<1>7. QED
  BY <1>2, <1>3, <1>6

\* The chip has room up to the byte before b, or the one before that.
LEMMA RoomUpTo ==
  ASSUME erxwrpt \in Ring, NEW b \in Ring, erxrdpt \in {b, Before(b)},
         erxrdpt # b => erxwrpt # erxrdpt
  PROVE  /\ erxrdpt \in Ring
         /\ Free \in Nat
         /\ Dist(b, erxwrpt) + Free <= RXSTOP
         /\ erxrdpt # b => Dist(b, erxwrpt) + Free < Dist(b, erxrdpt)
<1>1. RXSTOP \in Nat /\ Size = RXSTOP + 1 /\ Ring = 0 .. RXSTOP /\ RXSTART = 0
  BY LinkAssumption DEF Ring, Size, RXSTART
<1>2. CASE erxrdpt = b
  BY <1>1, <1>2 DEF Dist, Free
<1>3. CASE erxrdpt # b
  <2>1. erxrdpt = IF b = 0 THEN RXSTOP ELSE b - 1
    BY <1>1, <1>3 DEF Before
  <2>2. CASE b = 0
    BY <1>1, <1>3, <2>1, <2>2 DEF Dist, Free
  <2>3. CASE b # 0
    BY <1>1, <1>3, <2>1, <2>3 DEF Dist, Free
  <2>4. QED
    BY <2>2, <2>3
<1>4. QED
  BY <1>2, <1>3

\* What is written from w on, and short of b, touches no packet that ends before w.
LEMMA NoOverlap ==
  ASSUME NEW b \in Ring, NEW w \in Ring, NEW k \in Nat, Dist(b, w) + k <= RXSTOP,
         NEW p, p.start \in Ring, p.bytes \in Nat, Dist(b, p.start) + p.bytes <= Dist(b, w)
  PROVE  ~Overlap(p, w, k)
<1>0. PICK s \in Ring, n \in Nat : s = p.start /\ n = p.bytes
  OBVIOUS
<1> SUFFICES ASSUME NEW a \in Ring, Covers(w, k, a), Covers(s, n, a)
             PROVE  FALSE
  BY <1>0 DEF Overlap
<1>1. RXSTOP \in Nat /\ Size = RXSTOP + 1 /\ Ring = 0 .. RXSTOP
  BY LinkAssumption DEF Ring, Size, RXSTART
<1>2. ASSUME NEW f \in Ring, NEW m \in Nat, Covers(f, m, a)
      PROVE  Dist(f, a) < m
  <2>1. PICK x \in Nat : x = a - f + Size
    BY <1>1
  <2>2. x % Size = IF x < Size THEN x ELSE x - Size
    <3>1. x < 2 * Size
      BY <1>1, <2>1
    <3>2. QED
      BY <3>1, Wrap
  <2>3. PICK y \in Int : y = x % Size
    BY <1>1, <2>1, <2>2
  <2>4. y < m
    BY <1>2, <2>1, <2>3 DEF Covers
  <2>5. y = Dist(f, a)
    BY <1>1, <2>1, <2>2, <2>3 DEF Dist
  <2>6. QED
    BY <2>4, <2>5
<1>3. Dist(w, a) < k /\ Dist(s, a) < n
  BY <1>2
<1>31. Dist(b, s) + n <= Dist(b, w)
  BY <1>0
<1>32. Dist(b, s) \in Int /\ Dist(b, a) \in Int /\ Dist(b, w) \in Int
  BY <1>1, DistFacts
<1>4. CASE Dist(b, w) <= Dist(b, a)
  <2>1. Dist(b, s) <= Dist(b, a)
    BY <1>31, <1>32, <1>4
  <2>2. Dist(s, a) = Dist(b, a) - Dist(b, s)
    BY <2>1, DistRest
  <2>3. QED
    BY <1>3, <1>31, <1>32, <1>4, <2>2
<1>5. CASE ~(Dist(b, w) <= Dist(b, a))
  BY <1>1, <1>3, <1>5 DEF Dist
<1>6. QED
  BY <1>4, <1>5

-----------------------------------------------------------------------------
(* The inductive invariant.                                                *)

Reading == cpu \in {"copy", "free", "free odd", "decrement"}
Freed   == cpu \in {"free odd", "decrement"}

\* The first byte the chip must leave alone, and the first packet that is not freed.
Base  == IF cpu \in {"copy", "free"} THEN Head(ring).start ELSE next_packet_ptr
First == IF Freed THEN 2 ELSE 1

\* Each packet of q says where the next one begins, and the last where w is.
Chained(q, w) ==
  \A i \in 1 .. Len(q) : NextOf(q[i]) = IF i = Len(q) THEN w ELSE q[i + 1].start

\* Seen from b, p ends before the next packet begins, and that before w.
Within(b, p, w) ==
  /\ p.whole /\ p.bytes > 0
  /\ Dist(b, p.start) + p.bytes <= Dist(b, NextOf(p))
  /\ Dist(b, NextOf(p)) <= Dist(b, w)

Behind(b, p, r) == Dist(b, NextOf(p)) <= Dist(b, r.start)

\* Seen from b, the packets of q from the n-th on lie one behind the other up to w.
Laid(b, q, n, w) ==
  /\ \A i \in n .. Len(q) : Within(b, q[i], w)
  /\ \A i, j \in n .. Len(q) : i < j => Behind(b, q[i], q[j])

\* The driver expects a packet where the chip has put it.
Expected ==
  next_packet_ptr = IF Reading THEN NextOf(Head(ring))
                    ELSE IF ring = <<>> THEN erxwrpt ELSE Head(ring).start

\* The chip is stopped at Base or one byte before; then it is not stopped already.
Fenced ==
  /\ erxrdpt \in {Base, Before(Base)}
  /\ cpu = "free odd" => erxrdpt = Base
  /\ erxrdpt # Base => erxwrpt # erxrdpt

Sound ==
  /\ Chained(ring, erxwrpt) /\ Expected /\ Laid(Base, ring, First, erxwrpt) /\ Fenced
  /\ cpu = "copy" => taken = Head(ring)

LinkInv ==
  /\ TypeOK
  /\ Reading => ring # <<>>
  /\ cpu = "copy" => taken \in Packets
  /\ ~mistaken => Sound

-----------------------------------------------------------------------------
(* Packets in a row.                                                       *)

LEMMA PacketFacts ==
  ASSUME NEW p \in Packets
  PROVE  /\ p.start \in Ring /\ p.bytes \in Nat
         /\ NextOf(p) = After(p.start, p.bytes)
         /\ NextOf(p) \in Ring /\ NextOf(p) % 2 = 0
<1>1. p.start \in Ring /\ p.bytes \in Nat
  BY DEF Packets
<1>2. NextOf(p) = After(p.start, p.bytes)
  BY DEF NextOf, After
<1>3. QED
  BY <1>1, <1>2, AfterEven

\* Once the first packet is freed, the others lie behind the place where it ended.
LEMMA LaidFreed ==
  ASSUME NEW q \in Seq(Packets), q # <<>>, NEW b \in Ring, NEW w \in Ring, Laid(b, q, 1, w)
  PROVE  Laid(NextOf(q[1]), q, 2, w)
<1> DEFINE e == NextOf(q[1])
<1>1. Len(q) \in Nat /\ 1 \in 1 .. Len(q) /\ \A i \in 1 .. Len(q) : q[i] \in Packets
  BY EmptySeq
<1>2. e \in Ring
  BY <1>1, PacketFacts
<1>3. RXSTOP \in Nat
  BY LinkAssumption
<1> HIDE DEF e
<1>4. \A i \in 2 .. Len(q) : i \in 1 .. Len(q) /\ 1 < i
  BY <1>1
<1>5. Dist(b, e) <= Dist(b, w) /\ \A i \in 2 .. Len(q) : Dist(b, e) <= Dist(b, q[i].start)
  BY <1>1, <1>4 DEF Laid, Within, Behind, e
<1>6. ASSUME NEW i \in 2 .. Len(q)
      PROVE  /\ q[i].start \in Ring /\ NextOf(q[i]) \in Ring /\ q[i].bytes \in Nat
             /\ Dist(b, e) <= Dist(b, NextOf(q[i]))
             /\ Dist(e, q[i].start) = Dist(b, q[i].start) - Dist(b, e)
             /\ Dist(e, NextOf(q[i])) = Dist(b, NextOf(q[i])) - Dist(b, e)
             /\ Dist(b, q[i].start) \in Int /\ Dist(b, NextOf(q[i])) \in Int
  <2>1. q[i].start \in Ring /\ NextOf(q[i]) \in Ring /\ q[i].bytes \in Nat
    BY <1>1, <1>4, PacketFacts
  <2>2. /\ Dist(b, q[i].start) \in Int /\ Dist(b, NextOf(q[i])) \in Int
        /\ Dist(b, e) \in Int
    BY <1>2, <1>3, <2>1, DistFacts
  <2>3. Dist(b, q[i].start) + q[i].bytes <= Dist(b, NextOf(q[i]))
    BY <1>4 DEF Laid, Within
  <2>4. Dist(b, e) <= Dist(b, q[i].start)
    BY <1>5
  <2>5. Dist(b, e) <= Dist(b, NextOf(q[i]))
    BY <2>1, <2>2, <2>3, <2>4
  <2>6. QED
    BY <1>2, <2>1, <2>2, <2>4, <2>5, DistRest
<1>7. Dist(e, w) = Dist(b, w) - Dist(b, e) /\ Dist(b, w) \in Int /\ Dist(b, e) \in Int
  BY <1>2, <1>3, <1>5, DistFacts, DistRest
<1>8. ASSUME NEW i \in 2 .. Len(q)
      PROVE  Within(e, q[i], w)
  <2>1. Within(b, q[i], w)
    BY <1>4 DEF Laid
  <2>2. QED
    BY <1>6, <1>7, <2>1 DEF Within
<1>9. ASSUME NEW i \in 2 .. Len(q), NEW j \in 2 .. Len(q), i < j
      PROVE  Behind(e, q[i], q[j])
  <2>1. Behind(b, q[i], q[j])
    BY <1>4, <1>9 DEF Laid
  <2>2. QED
    BY <1>6, <1>7, <2>1 DEF Behind
<1>10. QED
  BY <1>8, <1>9 DEF Laid, e

\* A packet that is no longer counted was no longer held.
LEMMA LaidTail ==
  ASSUME NEW q \in Seq(Packets), q # <<>>, NEW b, NEW w, Laid(b, q, 2, w), Chained(q, w)
  PROVE  Laid(b, Tail(q), 1, w) /\ Chained(Tail(q), w)
<1>1. /\ Len(q) \in Nat /\ Len(q) > 0 /\ Len(Tail(q)) = Len(q) - 1
      /\ \A i \in 1 .. Len(q) - 1 : Tail(q)[i] = q[i + 1]
  BY EmptySeq
<1>2. PICK n \in Nat : n = Len(Tail(q))
  <2>1. Len(q) - 1 \in Nat
    BY <1>1
  <2>2. QED
    BY <1>1, <2>1
<1>3. /\ n + 1 = Len(q)
      /\ \A i \in 1 .. n : /\ i + 1 \in 2 .. Len(q) /\ i + 1 \in 1 .. Len(q)
                          /\ Tail(q)[i] = q[i + 1]
  BY <1>1, <1>2
<1>4. Laid(b, Tail(q), 1, w)
  <2>1. \A i, j \in 1 .. n : i < j => i + 1 < j + 1
    BY <1>2
  <2>2. QED
    BY <1>2, <1>3, <2>1 DEF Laid
<1>5. ASSUME NEW i \in 1 .. n
      PROVE  NextOf(Tail(q)[i]) = IF i = n THEN w ELSE Tail(q)[i + 1].start
  <2>1. PICK k \in Nat : k = i + 1
    BY <1>2
  <2>2. k \in 1 .. Len(q) /\ Tail(q)[i] = q[k]
    BY <1>3, <2>1
  <2>3. NextOf(q[k]) = IF k = Len(q) THEN w ELSE q[k + 1].start
    BY <2>2 DEF Chained
  <2>4. i # n => k \in 1 .. n
    BY <1>2, <2>1
  <2>5. i # n => Tail(q)[k] = q[k + 1]
    BY <1>3, <2>4
  <2>6. i = n <=> k = Len(q)
    BY <1>2, <1>3, <2>1
  <2>7. QED
    BY <2>1, <2>2, <2>3, <2>5, <2>6
<1>6. QED
  BY <1>2, <1>4, <1>5 DEF Chained

\* A packet after the chip has written k bytes from w on.
Hit(p, w, k) == [p EXCEPT !.whole = @ /\ ~Overlap(p, w, k)]

LEMMA HitFacts ==
  ASSUME NEW p \in Packets, NEW w, NEW k
  PROVE  /\ Hit(p, w, k) \in Packets
         /\ Hit(p, w, k).start = p.start /\ Hit(p, w, k).bytes = p.bytes
         /\ NextOf(Hit(p, w, k)) = NextOf(p)
         /\ Hit(p, w, k).whole = (p.whole /\ ~Overlap(p, w, k))
<1>1. Overlap(p, w, k) \in BOOLEAN
  BY DEF Overlap
<1>2. /\ Hit(p, w, k) \in Packets
      /\ Hit(p, w, k).start = p.start /\ Hit(p, w, k).bytes = p.bytes
      /\ Hit(p, w, k).whole = (p.whole /\ ~Overlap(p, w, k))
  BY <1>1 DEF Hit, Packets
<1>3. NextOf(Hit(p, w, k)) = NextOf(p)
  BY <1>2 DEF NextOf
<1>4. QED
  BY <1>2, <1>3

\* A packet written from w on, short of b, lies behind the others and hits none.
LEMMA LaidAppend ==
  ASSUME NEW q \in Seq(Packets), NEW b \in Ring, NEW w \in Ring, NEW n \in {1, 2},
         Laid(b, q, n, w), Chained(q, w),
         NEW k \in Nat, Dist(b, w) + k <= RXSTOP,
         NEW p \in Packets, p.start = w, p.whole, p.bytes > 0, p.bytes <= k,
         NextOf(p) = (w + k) % Size,
         NEW r \in Seq(Packets), r = [i \in DOMAIN q |-> Hit(q[i], w, k)]
  PROVE  Laid(b, Append(r, p), n, NextOf(p)) /\ Chained(Append(r, p), NextOf(p))
<1> DEFINE s == Append(r, p)
           x == NextOf(p)
<1>1. PICK m \in Nat : m = Len(q) /\ m = Len(r) /\ m + 1 = Len(s)
  <2>1. DOMAIN r = DOMAIN q
    OBVIOUS
  <2>2. Len(q) \in Nat /\ Len(r) = Len(q)
    BY <2>1, LenProperties
  <2>3. Len(s) = Len(r) + 1
    BY AppendProperties
  <2>4. QED
    BY <2>2, <2>3
<1>2. \A i \in 1 .. m : /\ q[i] \in Packets /\ s[i] = r[i] /\ r[i] = Hit(q[i], w, k)
                        /\ q[i].start \in Ring /\ q[i].bytes \in Nat /\ NextOf(q[i]) \in Ring
                        /\ s[i].start = q[i].start /\ s[i].bytes = q[i].bytes
                        /\ NextOf(s[i]) = NextOf(q[i])
                        /\ s[i].whole = (q[i].whole /\ ~Overlap(q[i], w, k))
  <2> TAKE i \in 1 .. m
  <2>1. i \in DOMAIN q /\ q[i] \in Packets
    BY <1>1
  <2>2. s[i] = r[i] /\ r[i] = Hit(q[i], w, k)
    BY <1>1, <2>1
  <2>3. QED
    BY <2>1, <2>2, PacketFacts, HitFacts
<1>3. s[m + 1] = p
  BY <1>1
<1>4. RXSTOP \in Nat
  BY LinkAssumption
<1>5. x \in Ring /\ Dist(b, x) = Dist(b, w) + k /\ Dist(b, w) \in Int
  BY <1>4, DistFacts, DistOn
<1>6. p.bytes \in Nat
  BY PacketFacts
<1> HIDE DEF s, x
<1>7. ASSUME NEW i \in n .. m
      PROVE  /\ i \in 1 .. m
             /\ q[i].whole /\ q[i].bytes > 0
             /\ Dist(b, q[i].start) \in Int /\ Dist(b, NextOf(q[i])) \in Int
             /\ Dist(b, q[i].start) + q[i].bytes <= Dist(b, NextOf(q[i]))
             /\ Dist(b, NextOf(q[i])) <= Dist(b, w)
             /\ ~Overlap(q[i], w, k)
  <2>1. i \in 1 .. m
    BY <1>1
  <2>2. Within(b, q[i], w)
    BY <1>1 DEF Laid
  <2>3. q[i].start \in Ring /\ q[i].bytes \in Nat /\ NextOf(q[i]) \in Ring
    BY <1>2, <2>1
  <2>4. Dist(b, q[i].start) \in Int /\ Dist(b, NextOf(q[i])) \in Int
    BY <1>4, <2>3, DistFacts
  <2>5. Dist(b, q[i].start) + q[i].bytes <= Dist(b, w)
    BY <1>5, <2>2, <2>3, <2>4 DEF Within
  <2>6. ~Overlap(q[i], w, k)
    BY <2>3, <2>5, NoOverlap
  <2>7. QED
    BY <2>1, <2>2, <2>4, <2>6 DEF Within
<1>8. ASSUME NEW i \in n .. m + 1
      PROVE  Within(b, s[i], x)
  <2>1. CASE i = m + 1
    <3>1. /\ Dist(b, p.start) + p.bytes <= Dist(b, NextOf(p))
          /\ Dist(b, NextOf(p)) <= Dist(b, x)
      BY <1>5, <1>6 DEF x
    <3>2. QED
      BY <1>3, <2>1, <3>1 DEF Within
  <2>2. CASE i # m + 1
    <3>1. i \in n .. m
      BY <1>1, <2>2
    <3>2. i \in 1 .. m
      BY <1>7, <3>1
    <3>3. Dist(b, NextOf(q[i])) <= Dist(b, x)
      BY <1>5, <1>7, <3>1
    <3>4. QED
      BY <1>2, <1>7, <3>1, <3>2, <3>3 DEF Within
  <2>3. QED
    BY <2>1, <2>2
<1>9. ASSUME NEW i \in n .. m + 1, NEW j \in n .. m + 1, i < j
      PROVE  Behind(b, s[i], s[j])
  <2>1. i \in n .. m
    BY <1>1, <1>9
  <2>2. i \in 1 .. m
    BY <1>7, <2>1
  <2>3. CASE j = m + 1
    BY <1>2, <1>3, <1>7, <2>1, <2>2, <2>3 DEF Behind
  <2>4. CASE j # m + 1
    <3>1. j \in n .. m
      BY <1>1, <2>4
    <3>2. j \in 1 .. m
      BY <1>7, <3>1
    <3>3. Behind(b, q[i], q[j])
      BY <1>1, <1>9, <2>1, <3>1 DEF Laid
    <3>4. QED
      BY <1>2, <2>2, <3>2, <3>3 DEF Behind
  <2>5. QED
    BY <2>3, <2>4
<1>10. ASSUME NEW i \in 1 .. m + 1
       PROVE  NextOf(s[i]) = IF i = m + 1 THEN x ELSE s[i + 1].start
  <2>1. CASE i = m + 1
    BY <1>3, <2>1 DEF x
  <2>2. CASE i # m + 1
    <3>1. i \in 1 .. m
      BY <1>1, <2>2
    <3>2. NextOf(s[i]) = IF i = m THEN w ELSE q[i + 1].start
      BY <1>1, <1>2, <3>1 DEF Chained
    <3>3. CASE i = m
      BY <1>3, <2>2, <3>2, <3>3
    <3>4. CASE i # m
      <4>1. i + 1 \in 1 .. m
        BY <1>1, <3>1, <3>4
      <4>2. QED
        BY <1>2, <2>2, <3>2, <3>4, <4>1
    <3>5. QED
      BY <3>3, <3>4
  <2>3. QED
    BY <2>1, <2>2
<1>11. Laid(b, s, n, x) /\ Chained(s, x)
  BY <1>1, <1>8, <1>9, <1>10 DEF Laid, Chained
<1>12. QED
  BY <1>11 DEF s, x

-----------------------------------------------------------------------------
(* The invariant is inductive.                                             *)

LEMMA HeadFacts ==
  ASSUME TypeOK, ring # <<>>
  PROVE  /\ Head(ring) = ring[1] /\ Head(ring) \in Packets
         /\ Len(ring) \in Nat /\ Len(ring) > 0
         /\ Head(ring).start \in Ring
         /\ NextOf(Head(ring)) \in Ring /\ NextOf(Head(ring)) % 2 = 0
<1>1. ring \in Seq(Packets)
  BY DEF TypeOK
<1>2. Head(ring) = ring[1] /\ Head(ring) \in Packets /\ Len(ring) \in Nat /\ Len(ring) > 0
  BY <1>1, EmptySeq
<1>3. QED
  BY <1>2, PacketFacts

LEMMA BaseInRing ==
  ASSUME TypeOK, Reading => ring # <<>>
  PROVE  Base \in Ring
<1>1. CASE cpu \in {"copy", "free"}
  BY <1>1, HeadFacts DEF Base, Reading
<1>2. CASE cpu \notin {"copy", "free"}
  BY <1>2 DEF Base, TypeOK
<1>3. QED
  BY <1>1, <1>2

\* The place after the first packet is where the second lies, or where the next will.
LEMMA ExpectedTail ==
  ASSUME ring \in Seq(Packets), ring # <<>>, Chained(ring, erxwrpt)
  PROVE  NextOf(ring[1]) = IF Tail(ring) = <<>> THEN erxwrpt ELSE Head(Tail(ring)).start
<1>1. /\ Tail(ring) \in Seq(Packets) /\ Len(ring) \in Nat /\ Len(ring) > 0
      /\ Len(Tail(ring)) = Len(ring) - 1
      /\ \A i \in 1 .. Len(ring) - 1 : Tail(ring)[i] = ring[i + 1]
  BY EmptySeq
<1>2. NextOf(ring[1]) = IF 1 = Len(ring) THEN erxwrpt ELSE ring[2].start
  <2>1. 1 \in 1 .. Len(ring)
    BY <1>1
  <2>2. NextOf(ring[1]) = IF 1 = Len(ring) THEN erxwrpt ELSE ring[1 + 1].start
    BY <2>1 DEF Chained
  <2>3. QED
    BY <2>2
<1>3. PICK t \in Seq(Packets) : t = Tail(ring) /\ Len(t) = Len(ring) - 1
  BY <1>1
<1>4. t = <<>> <=> Len(ring) = 1
  <2>1. t = <<>> <=> Len(t) = 0
    BY <1>3, EmptySeq
  <2>2. Len(t) = 0 <=> Len(ring) = 1
    BY <1>1, <1>3
  <2>3. QED
    BY <2>1, <2>2
<1>5. CASE Len(ring) = 1
  <2>1. Tail(ring) = <<>>
    BY <1>3, <1>4, <1>5
  <2>2. QED
    BY <1>2, <1>5, <2>1
<1>6. CASE Len(ring) # 1
  <2>1. Tail(ring) # <<>> /\ Head(Tail(ring)) = Tail(ring)[1]
    <3>1. t # <<>> /\ Head(t) = t[1]
      BY <1>6, <1>4
    <3>2. QED
      BY <1>3, <3>1
  <2>2. 1 \in 1 .. Len(ring) - 1
    BY <1>1, <1>6
  <2>3. Tail(ring)[1] = ring[2]
    BY <1>1, <2>2
  <2>4. QED
    BY <1>2, <1>6, <2>1, <2>3
<1>7. QED
  BY <1>5, <1>6

LEMMA InitInv == Init => LinkInv
<1> SUFFICES ASSUME Init PROVE LinkInv
  OBVIOUS
<1>1. 0 \in Ring /\ 0 % 2 = 0 /\ 0 \in 0 .. Numbers - 1 /\ 0 <= MaxCount
  BY LinkAssumption DEF Ring, RXSTART
<1>2. ring \in Seq(Packets) /\ Len(ring) = 0
  BY DEF Init
<1>3. TypeOK
  BY <1>1, <1>2 DEF Init, TypeOK, RXSTART, Places
<1>4. Chained(ring, erxwrpt) /\ Laid(Base, ring, First, erxwrpt)
  BY <1>2 DEF Chained, Laid, First, Freed, Init
<1>5. Expected /\ Fenced
  BY DEF Init, Expected, Fenced, Reading, Base
<1>6. QED
  BY <1>3, <1>4, <1>5 DEF Init, LinkInv, Sound, Reading

LEMMA ArriveInv ==
  ASSUME LinkInv, NEW length \in Lengths, NEW kind \in Kinds, Arrive(length, kind)
  PROVE  LinkInv'
<1> DEFINE k == Taken(length)
           new == [number |-> arrived, start |-> erxwrpt, bytes |-> HeaderSize + length,
                   length |-> length, kind |-> kind, whole |-> TRUE]
           r == [i \in DOMAIN ring |-> Hit(ring[i], erxwrpt, k)]
<1>1. /\ k <= Free /\ Len(ring) < MaxCount
      /\ ring' = Append(r, new)
      /\ taken' = IF cpu = "copy" THEN Hit(taken, erxwrpt, k) ELSE taken
      /\ erxwrpt' = (erxwrpt + k) % Size
      /\ arrived' = (arrived + 1) % Numbers
      /\ UNCHANGED <<erxrdpt, next_packet_ptr, cpu, mistaken>>
  BY DEF Arrive, Hit, EPKTCNT
<1>2. TypeOK /\ erxwrpt \in Ring /\ ring \in Seq(Packets) /\ RXSTOP \in Nat
  BY LinkAssumption DEF LinkInv, TypeOK
<1>3. Free \in Int /\ Free <= RXSTOP
  BY <1>2, LinkAssumption DEF Free, TypeOK, Ring, RXSTART
<1>4. k \in Nat /\ k <= RXSTOP
  <2>1. HeaderSize + length \in Nat
    BY LinkAssumption
  <2>2. k \in Nat
    BY <2>1 DEF Taken
  <2>3. QED
    BY <1>1, <1>2, <1>3, <2>2
<1>5. /\ HeaderSize + length \in Nat \ {0} /\ HeaderSize + length <= k
      /\ (erxwrpt + k) % Size = After(erxwrpt, HeaderSize + length)
  BY <1>2, <1>4, TakenEnds
<1>6. new \in Packets
  BY <1>2, <1>5 DEF Packets, TypeOK
<1>7. /\ new.start = erxwrpt /\ new.bytes = HeaderSize + length /\ new.whole
      /\ NextOf(new) = erxwrpt'
  BY <1>1, <1>5 DEF NextOf, After
<1>8. r \in Seq(Packets) /\ Len(r) = Len(ring)
  <2>1. \A i \in DOMAIN ring : Hit(ring[i], erxwrpt, k) \in Packets
    BY <1>2, HitFacts
  <2>2. DOMAIN ring = 1 .. Len(ring) /\ Len(ring) \in Nat
    BY <1>2, LenProperties
  <2>3. QED
    BY <2>1, <2>2, SeqDef
<1> HIDE DEF k, new, r
<1>9. /\ ring' \in Seq(Packets) /\ Len(ring') = Len(ring) + 1 /\ ring' # <<>>
      /\ ring = <<>> => Head(ring') = new
      /\ ring # <<>> => Head(ring') = Hit(Head(ring), erxwrpt, k)
  <2>1. ring' \in Seq(Packets) /\ Len(ring') = Len(ring) + 1
    BY <1>1, <1>2, <1>6, <1>8, AppendProperties
  <2>2. Len(ring) \in Nat
    BY <1>2
  <2>3. ring' # <<>> /\ Head(ring') = ring'[1]
    BY <2>1, <2>2, EmptySeq
  <2>4. ring = <<>> => ring'[1] = new
    BY <1>1, <1>2, <1>6, <1>8, AppendProperties, EmptySeq
  <2>5. ring # <<>> => Head(ring) = ring[1] /\ 1 \in 1 .. Len(ring)
    BY <1>2, <2>2, EmptySeq
  <2>6. ring # <<>> => ring'[1] = Hit(ring[1], erxwrpt, k)
    <3>1. ring # <<>> => 1 \in DOMAIN ring /\ 1 \in 1 .. Len(r)
      BY <1>2, <1>8, <2>5
    <3>2. ring # <<>> => r[1] = Hit(ring[1], erxwrpt, k)
      BY <3>1 DEF r
    <3>3. QED
      BY <1>1, <1>6, <1>8, <3>1, <3>2, AppendProperties
  <2>7. QED
    BY <2>1, <2>3, <2>4, <2>5, <2>6
<1>10. cpu = "copy" => Hit(taken, erxwrpt, k) \in Packets
  BY HitFacts DEF LinkInv
<1>11. TypeOK'
  <2>1. erxwrpt' \in Ring /\ erxwrpt' % 2 = 0
    BY <1>6, <1>7, PacketFacts
  <2>2. Len(ring') <= MaxCount
    BY <1>1, <1>2, <1>9, LinkAssumption
  <2>3. taken' \in Packets \union {NoPacket}
    BY <1>1, <1>2, <1>10 DEF TypeOK
  <2>4. arrived' \in 0 .. Numbers - 1
    BY <1>1, <1>2, LinkAssumption DEF TypeOK
  <2>5. QED
    BY <1>1, <1>2, <1>9, <2>1, <2>2, <2>3, <2>4 DEF TypeOK
<1>12. Reading => ring # <<>>
  BY DEF LinkInv
<1>13. Base \in Ring
  BY <1>2, <1>12, BaseInRing
<1>14. /\ Reading' = Reading /\ First' = First
       /\ Base' = Base
  <2>1. cpu' = cpu /\ next_packet_ptr' = next_packet_ptr
    BY <1>1
  <2>2. ring # <<>> => Head(ring').start = Head(ring).start
    BY <1>2, <1>9, HeadFacts, HitFacts
  <2>3. cpu \in {"copy", "free"} => ring # <<>>
    BY <1>12 DEF Reading
  <2>4. QED
    BY <2>1, <2>2, <2>3 DEF Reading, Base, First, Freed
<1>15. ASSUME ~mistaken'
       PROVE  Sound'
  <2>1. Sound
    BY <1>1, <1>15 DEF LinkInv
  <2>2. First \in {1, 2}
    BY DEF First
  <2>3. /\ Dist(Base, erxwrpt) + Free <= RXSTOP
        /\ erxrdpt # Base => Dist(Base, erxwrpt) + Free < Dist(Base, erxrdpt)
        /\ erxrdpt \in Ring
    BY <1>2, <1>13, <2>1, RoomUpTo DEF Sound, Fenced
  <2>4. Dist(Base, erxwrpt) \in Int /\ Dist(Base, erxrdpt) \in Int
    BY <1>2, <1>13, <2>3, DistFacts
  <2>5. Dist(Base, erxwrpt) + k <= RXSTOP
    BY <1>1, <1>2, <1>3, <1>4, <2>3, <2>4
  <2>6. Laid(Base, ring', First, erxwrpt') /\ Chained(ring', erxwrpt')
    <3>1. new.bytes > 0 /\ new.bytes <= k
      BY <1>5, <1>7
    <3>2. NextOf(new) = (erxwrpt + k) % Size
      BY <1>1, <1>7
    <3>3. Laid(Base, ring, First, erxwrpt) /\ Chained(ring, erxwrpt)
      BY <2>1 DEF Sound
    <3>4. r = [i \in DOMAIN ring |-> Hit(ring[i], erxwrpt, k)]
      BY DEF r
    <3>5. Laid(Base, Append(r, new), First, NextOf(new)) /\ Chained(Append(r, new), NextOf(new))
      BY <1>2, <1>4, <1>6, <1>7, <1>8, <1>13, <2>2, <2>5, <3>1, <3>2, <3>3, <3>4, LaidAppend
    <3>6. QED
      BY <1>1, <1>7, <3>5
  <2>7. Fenced'
    <3>1. erxrdpt' = erxrdpt /\ cpu' = cpu
      BY <1>1
    <3>2. erxrdpt # Base => erxwrpt' # erxrdpt
      <4>1. Dist(Base, erxwrpt') = Dist(Base, erxwrpt) + k
        BY <1>1, <1>2, <1>4, <1>13, <2>5, DistOn
      <4>2. erxrdpt # Base => Dist(Base, erxwrpt') < Dist(Base, erxrdpt)
        BY <1>1, <1>3, <1>4, <2>3, <2>4, <4>1
      <4>3. QED
        BY <2>4, <4>2
    <3>3. QED
      BY <1>14, <2>1, <3>1, <3>2 DEF Sound, Fenced
  <2>8. Expected'
    <3>1. next_packet_ptr' = next_packet_ptr
      BY <1>1
    <3>2. CASE ring = <<>>
      <4>1. ~Reading /\ next_packet_ptr = erxwrpt
        BY <1>12, <2>1, <3>2 DEF Sound, Expected
      <4>2. QED
        BY <1>7, <1>9, <1>14, <3>1, <3>2, <4>1 DEF Expected
    <3>3. CASE ring # <<>>
      <4>1. Head(ring').start = Head(ring).start /\ NextOf(Head(ring')) = NextOf(Head(ring))
        BY <1>2, <1>9, <3>3, HeadFacts, HitFacts
      <4>2. QED
        BY <1>9, <1>14, <2>1, <3>1, <3>3, <4>1 DEF Sound, Expected
    <3>4. QED
      BY <3>2, <3>3
  <2>9. cpu' = "copy" => taken' = Head(ring')
    <3>1. cpu = "copy" => ring # <<>> /\ taken = Head(ring)
      BY <1>12, <2>1 DEF Sound, Reading
    <3>2. QED
      BY <1>1, <1>9, <3>1
  <2>10. QED
    BY <1>14, <2>6, <2>7, <2>8, <2>9 DEF Sound
<1>16. (Reading => ring # <<>>)' /\ (cpu = "copy" => taken \in Packets)'
  BY <1>1, <1>9, <1>10
<1>17. QED
  BY <1>11, <1>15, <1>16 DEF LinkInv

LEMMA InterruptInv == LinkInv /\ (Interrupt \/ CountIsZero) => LinkInv'
<1> SUFFICES ASSUME LinkInv, Interrupt \/ CountIsZero PROVE LinkInv'
  OBVIOUS
<1>1. /\ UNCHANGED <<erxwrpt, erxrdpt, ring, next_packet_ptr, taken, arrived, mistaken>>
      /\ cpu \in {"main", "count"} /\ cpu' \in {"main", "count"}
  BY DEF Interrupt, CountIsZero, chip
<1>2. TypeOK'
  BY <1>1 DEF LinkInv, TypeOK, Places
<1>3. ~Reading /\ ~Reading' /\ Base' = Base /\ First' = First
  BY <1>1 DEF Reading, Base, First, Freed
<1>4. ~mistaken' => Sound'
  BY <1>1, <1>3 DEF LinkInv, Sound, Chained, Laid, Within, Behind, NextOf, Expected, Fenced
<1>5. QED
  BY <1>1, <1>2, <1>3, <1>4 DEF LinkInv

LEMMA HeaderInv == LinkInv /\ Header => LinkInv'
<1> SUFFICES ASSUME LinkInv, Header PROVE LinkInv'
  OBVIOUS
<1>1. PICK p \in At(next_packet_ptr) : taken' = p /\ next_packet_ptr' = NextOf(p)
  BY DEF Header
<1>2. /\ UNCHANGED <<erxwrpt, erxrdpt, ring, arrived, mistaken>>
      /\ cpu = "count" /\ cpu' = "copy"
  BY DEF Header, chip
<1>3. TypeOK /\ ring \in Seq(Packets)
  BY DEF LinkInv, TypeOK
<1>4. PICK j \in DOMAIN ring : p = ring[j] /\ ring[j].start = next_packet_ptr
  BY <1>1 DEF At
<1>5. p \in Packets /\ ring # <<>> /\ Len(ring) \in Nat /\ j \in 1 .. Len(ring)
  BY <1>3, <1>4, LenProperties, EmptySeq
<1>6. TypeOK'
  BY <1>1, <1>2, <1>3, <1>5, PacketFacts DEF TypeOK, Places
<1>7. ASSUME ~mistaken'
      PROVE  Sound'
  <2>1. Sound
    BY <1>2, <1>7 DEF LinkInv
  <2>2. next_packet_ptr = Head(ring).start /\ Head(ring) = ring[1]
    BY <1>2, <1>3, <1>5, <2>1, HeadFacts DEF Sound, Expected, Reading
  <2>3. Base = next_packet_ptr /\ Base \in Ring /\ First = 1
    BY <1>2, <1>3 DEF Base, First, Freed, TypeOK
  <2>4. j = 1
    <3>1. SUFFICES ASSUME j # 1 PROVE FALSE
      OBVIOUS
    <3>2. 1 \in 1 .. Len(ring) /\ 1 < j
      BY <1>5, <3>1
    <3>3. Within(Base, ring[1], erxwrpt) /\ Behind(Base, ring[1], ring[j])
      BY <1>5, <2>1, <2>3, <3>2 DEF Sound, Laid
    <3>4. ring[1] \in Packets /\ NextOf(ring[1]) \in Ring /\ ring[1].bytes \in Nat
      BY <1>3, <1>5, <2>2, HeadFacts, PacketFacts
    <3>5. Dist(Base, ring[1].start) = 0 /\ Dist(Base, ring[j].start) = 0
      BY <1>4, <2>2, <2>3, DistFacts
    <3>6. Dist(Base, NextOf(ring[1])) \in 0 .. RXSTOP /\ RXSTOP \in Nat
      BY <2>3, <3>4, DistFacts, LinkAssumption
    <3>7. QED
      BY <3>3, <3>4, <3>5, <3>6 DEF Within, Behind
  <2>5. p = Head(ring)
    BY <1>4, <2>2, <2>4
  <2>6. Base' = Base /\ First' = First /\ Reading'
    BY <1>2, <2>2, <2>3 DEF Base, First, Freed, Reading
  <2>7. Chained(ring', erxwrpt') /\ Laid(Base', ring', First', erxwrpt')
    BY <1>2, <2>1, <2>6 DEF Sound
  <2>8. Expected'
    BY <1>1, <1>2, <2>5, <2>6 DEF Expected
  <2>9. Fenced'
    BY <1>2, <2>1, <2>6 DEF Sound, Fenced
  <2>10. QED
    BY <1>1, <1>2, <2>5, <2>7, <2>8, <2>9 DEF Sound
<1>8. QED
  BY <1>1, <1>2, <1>5, <1>6, <1>7 DEF LinkInv

LEMMA CopyInv == LinkInv /\ Copy => LinkInv'
<1> SUFFICES ASSUME LinkInv, Copy PROVE LinkInv'
  OBVIOUS
<1>1. /\ UNCHANGED <<erxwrpt, erxrdpt, ring, next_packet_ptr, taken, arrived, mistaken>>
      /\ cpu = "copy" /\ cpu' = "free"
  BY DEF Copy, chip
<1>2. TypeOK'
  BY <1>1 DEF LinkInv, TypeOK, Places
<1>3. Reading /\ Reading' /\ Base' = Base /\ First' = First
  BY <1>1 DEF Reading, Base, First, Freed
<1>4. ~mistaken' => Sound'
  BY <1>1, <1>3 DEF LinkInv, Sound, Expected, Fenced
<1>5. QED
  BY <1>1, <1>2, <1>3, <1>4 DEF LinkInv

LEMMA FreeMemoryInv == LinkInv /\ FreeMemory => LinkInv'
<1> SUFFICES ASSUME LinkInv, FreeMemory PROVE LinkInv'
  OBVIOUS
<1>1. /\ UNCHANGED <<erxwrpt, ring, next_packet_ptr, taken, arrived, mistaken>>
      /\ cpu = "free" /\ cpu' = "free odd" /\ erxrdpt' = next_packet_ptr
  BY DEF FreeMemory, chip
<1>2. TypeOK /\ TypeOK' /\ ring \in Seq(Packets) /\ erxwrpt \in Ring
  BY <1>1 DEF LinkInv, TypeOK, Places
<1>3. Reading /\ Reading' /\ ring # <<>>
  BY <1>1 DEF Reading, LinkInv
<1>4. /\ Base = Head(ring).start /\ Base \in Ring /\ First = 1
      /\ Base' = next_packet_ptr /\ First' = 2
  BY <1>1, <1>2, <1>3, HeadFacts DEF Base, First, Freed
<1>5. ASSUME ~mistaken'
      PROVE  Sound'
  <2>1. Sound
    BY <1>1, <1>5 DEF LinkInv
  <2>2. next_packet_ptr = NextOf(ring[1])
    BY <1>2, <1>3, <2>1, HeadFacts DEF Sound, Expected
  <2>3. Laid(NextOf(ring[1]), ring, 2, erxwrpt)
    BY <1>2, <1>3, <1>4, <2>1, LaidFreed DEF Sound
  <2>4. Laid(Base', ring', First', erxwrpt') /\ Chained(ring', erxwrpt')
    BY <1>1, <1>4, <2>1, <2>2, <2>3 DEF Sound
  <2>5. Expected' /\ Fenced'
    BY <1>1, <1>3, <1>4, <2>1 DEF Sound, Expected, Fenced
  <2>6. QED
    BY <1>1, <2>4, <2>5 DEF Sound
<1>6. QED
  BY <1>1, <1>2, <1>3, <1>5 DEF LinkInv

LEMMA FreeMemoryOddInv == LinkInv /\ FreeMemoryOdd => LinkInv'
<1> SUFFICES ASSUME LinkInv, FreeMemoryOdd PROVE LinkInv'
  OBVIOUS
<1>1. /\ UNCHANGED <<erxwrpt, ring, next_packet_ptr, taken, arrived>>
      /\ cpu = "free odd" /\ cpu' = "decrement" /\ erxrdpt' = Before(next_packet_ptr)
      /\ mistaken' = (mistaken \/ erxrdpt' = erxwrpt)
  BY DEF FreeMemoryOdd
<1>2. Before(next_packet_ptr) \in Ring
  BY LinkAssumption DEF LinkInv, TypeOK, Before, Ring, RXSTART
<1>3. TypeOK'
  BY <1>1, <1>2 DEF LinkInv, TypeOK, Places
<1>4. Reading /\ Reading' /\ Base = next_packet_ptr /\ Base' = Base /\ First' = First
  BY <1>1 DEF Reading, Base, First, Freed
<1>5. ~mistaken' => Sound'
  BY <1>1, <1>4 DEF LinkInv, Sound, Expected, Fenced
<1>6. QED
  BY <1>1, <1>3, <1>4, <1>5 DEF LinkInv

LEMMA DecrementInv == LinkInv /\ Decrement => LinkInv'
<1> SUFFICES ASSUME LinkInv, Decrement PROVE LinkInv'
  OBVIOUS
<1>1. /\ UNCHANGED <<erxwrpt, erxrdpt, next_packet_ptr, taken, arrived, mistaken>>
      /\ cpu = "decrement" /\ cpu' = "dispatch" /\ ring' = Tail(ring)
  BY DEF Decrement
<1>2. TypeOK /\ ring \in Seq(Packets) /\ RXSTOP \in Nat
  BY LinkAssumption DEF LinkInv, TypeOK
<1>3. Reading /\ ~Reading' /\ ring # <<>>
  BY <1>1 DEF Reading, LinkInv
<1>4. /\ Tail(ring) \in Seq(Packets) /\ Len(ring) \in Nat /\ Len(ring) > 0
      /\ Len(Tail(ring)) = Len(ring) - 1
      /\ \A i \in 1 .. Len(ring) - 1 : Tail(ring)[i] = ring[i + 1]
  BY <1>2, <1>3, EmptySeq
<1>5. TypeOK'
  BY <1>1, <1>2, <1>4, LinkAssumption DEF TypeOK, Places
<1>6. Base = next_packet_ptr /\ Base' = Base /\ First = 2 /\ First' = 1
  BY <1>1 DEF Base, First, Freed
<1>7. ASSUME ~mistaken'
      PROVE  Sound'
  <2>1. Sound
    BY <1>1, <1>7 DEF LinkInv
  <2>2. Laid(Base, Tail(ring), 1, erxwrpt) /\ Chained(Tail(ring), erxwrpt)
    BY <1>2, <1>3, <1>6, <2>1, LaidTail DEF Sound
  <2>3. next_packet_ptr = IF Tail(ring) = <<>> THEN erxwrpt ELSE Head(Tail(ring)).start
    <3>1. next_packet_ptr = NextOf(ring[1])
      BY <1>2, <1>3, <2>1, HeadFacts DEF Sound, Expected
    <3>2. QED
      BY <1>2, <1>3, <2>1, <3>1, ExpectedTail DEF Sound
  <2>4. Laid(Base', ring', First', erxwrpt') /\ Chained(ring', erxwrpt')
    BY <1>1, <1>6, <2>2
  <2>5. Expected' /\ Fenced'
    BY <1>1, <1>3, <1>6, <2>1, <2>3 DEF Sound, Expected, Fenced
  <2>6. QED
    BY <1>1, <2>4, <2>5 DEF Sound
<1>8. QED
  BY <1>1, <1>3, <1>5, <1>7 DEF LinkInv

LEMMA DispatchInv == LinkInv /\ Dispatch => LinkInv'
<1> SUFFICES ASSUME LinkInv, Dispatch PROVE LinkInv'
  OBVIOUS
<1>1. /\ UNCHANGED <<erxwrpt, erxrdpt, ring, next_packet_ptr, arrived, mistaken>>
      /\ cpu = "dispatch" /\ cpu' \in {"main", "count"} /\ taken' = NoPacket
  BY DEF Dispatch, chip
<1>2. TypeOK'
  BY <1>1 DEF LinkInv, TypeOK, Places
<1>3. ~Reading /\ ~Reading' /\ Base' = Base /\ First' = First
  BY <1>1 DEF Reading, Base, First, Freed
<1>4. ~mistaken' => Sound'
  BY <1>1, <1>3 DEF LinkInv, Sound, Expected, Fenced
<1>5. QED
  BY <1>1, <1>2, <1>3, <1>4 DEF LinkInv

LEMMA NextInv == LinkInv /\ [Next]_vars => LinkInv'
<1> SUFFICES ASSUME LinkInv, [Next]_vars PROVE LinkInv'
  OBVIOUS
<1>1. CASE Program
  BY <1>1, InterruptInv, HeaderInv, CopyInv, FreeMemoryInv, FreeMemoryOddInv, DecrementInv,
     DispatchInv DEF Program
<1>2. CASE \E length \in Lengths, kind \in Kinds : Arrive(length, kind)
  BY <1>2, ArriveInv
<1>3. CASE UNCHANGED vars
  <2>1. UNCHANGED <<erxwrpt, erxrdpt, ring, next_packet_ptr, cpu, taken, arrived, mistaken>>
    BY <1>3 DEF vars
  <2>2. Base' = Base /\ First' = First /\ Reading' = Reading
    BY <2>1 DEF Base, First, Freed, Reading
  <2>3. ~mistaken' => Sound'
    BY <2>1, <2>2 DEF LinkInv, Sound, Expected, Fenced
  <2>4. TypeOK'
    BY <2>1 DEF LinkInv, TypeOK
  <2>5. QED
    BY <2>1, <2>2, <2>3, <2>4 DEF LinkInv
<1>4. QED
  BY <1>1, <1>2, <1>3 DEF Next

LEMMA Invariance == Spec => []LinkInv
BY InitInv, NextInv, PTL DEF Spec

-----------------------------------------------------------------------------
(* The theorems.                                                           *)

\* The registers stay inside the ring and even, the driver's next pointer too, and
\* the chip counts no more packets than it can, whatever it receives.
THEOREM TypeCorrect == Spec => []TypeOK
<1>1. LinkInv => TypeOK
  BY DEF LinkInv
<1>2. QED
  BY <1>1, Invariance, PTL

\* enc28j60_receive_packet reads the oldest packet, whole, at every moment a packet
\* may come in, as long as the second write of ERXRDPT has not met ERXWRPT.
THEOREM OldestIntact == Spec => []OldestIsIntact
<1>1. LinkInv => OldestIsIntact
  <2> SUFFICES ASSUME LinkInv, ~mistaken PROVE OldestIsIntact
    BY DEF OldestIsIntact
  <2>1. Sound /\ TypeOK /\ ring \in Seq(Packets) /\ (Reading => ring # <<>>)
    BY DEF LinkInv, TypeOK
  <2> DEFINE idle == cpu \in {"main", "count", "dispatch"}
             due == IF idle THEN ring ELSE Tail(ring)
  <2>2. idle <=> ~Reading
    BY <2>1 DEF TypeOK, Places, Reading
  <2>3. ring # <<>> => /\ Len(ring) \in Nat /\ Len(ring) > 0
                       /\ Len(Tail(ring)) = Len(ring) - 1 /\ Tail(ring) \in Seq(Packets)
                       /\ \A i \in 1 .. Len(ring) - 1 : Tail(ring)[i] = ring[i + 1]
    BY <2>1, EmptySeq
  <2>4. \A i \in First .. Len(ring) : ring[i].whole
    BY <2>1 DEF Sound, Laid, Within
  <2>5. \A i \in DOMAIN due : due[i].whole
    <3>1. CASE idle
      <4>1. First = 1 /\ DOMAIN ring = 1 .. Len(ring)
        BY <2>1, <3>1, LenProperties DEF First, Freed
      <4>2. QED
        BY <2>4, <3>1, <4>1
    <3>2. CASE ~idle
      <4>1. ring # <<>>
        BY <2>1, <2>2, <3>2
      <4>2. DOMAIN Tail(ring) = 1 .. Len(ring) - 1
        BY <2>3, <4>1, LenProperties
      <4>3. \A i \in 1 .. Len(ring) - 1 : i + 1 \in First .. Len(ring)
        BY <2>3, <4>1 DEF First
      <4>4. \A i \in 1 .. Len(ring) - 1 : Tail(ring)[i].whole
        BY <2>3, <2>4, <4>1, <4>3
      <4>5. QED
        BY <3>2, <4>2, <4>4
    <3>3. QED
      BY <3>1, <3>2
  <2>6. cpu = "copy" => taken = Head(ring) /\ taken.whole
    <3>1. cpu = "copy" => ring # <<>> /\ First = 1
      BY <2>1 DEF Reading, First, Freed
    <3>2. cpu = "copy" => 1 \in First .. Len(ring) /\ Head(ring) = ring[1]
      BY <2>1, <2>3, <3>1, HeadFacts
    <3>3. QED
      BY <2>1, <2>4, <3>2 DEF Sound
  <2>7. next_packet_ptr = IF due = <<>> THEN erxwrpt ELSE Head(due).start
    <3>1. CASE idle
      BY <2>1, <2>2, <3>1 DEF Sound, Expected
    <3>2. CASE ~idle
      <4>1. ring # <<>> /\ next_packet_ptr = NextOf(ring[1])
        BY <2>1, <2>2, <3>2, HeadFacts DEF Sound, Expected
      <4>2. next_packet_ptr = IF Tail(ring) = <<>> THEN erxwrpt ELSE Head(Tail(ring)).start
        BY <2>1, <4>1, ExpectedTail DEF Sound
      <4>3. QED
        BY <3>2, <4>2
    <3>3. QED
      BY <3>1, <3>2
  <2>8. QED
    BY <2>5, <2>6, <2>7 DEF OldestIsIntact
<1>2. QED
  BY <1>1, Invariance, PTL

\* There is one way for the chip to be misled, and a ring as enc28j60.h:57-58 lays it
\* out has it: the pointer the driver has freed up to has come round to the first byte,
\* the ring is full to its last byte, which has an even address, and the second write
\* of ERXRDPT moves it there (enc28j60.c:346-360).  Whatever else comes in, at whatever
\* moment, the chip and the driver agree.
THEOREM MisledOnlyWhenFull ==
  Spec => [][~mistaken /\ mistaken' =>
               /\ next_packet_ptr = RXSTART /\ erxwrpt = RXSTOP /\ RXSTOP % 2 = 0
               /\ ring # <<>> /\ Free = 0]_vars
<1> DEFINE Full == /\ next_packet_ptr = RXSTART /\ erxwrpt = RXSTOP /\ RXSTOP % 2 = 0
                   /\ ring # <<>> /\ Free = 0
<1>1. ASSUME LinkInv, Next, ~mistaken, mistaken'
      PROVE  Full
  <2>1. FreeMemoryOdd
    BY <1>1 DEF Next, Program, Interrupt, CountIsZero, Header, Copy, FreeMemory, Decrement,
       Dispatch, Arrive, chip
  <2>2. erxwrpt = Before(next_packet_ptr) /\ cpu = "free odd"
    BY <1>1, <2>1 DEF FreeMemoryOdd
  <2>3. erxrdpt = next_packet_ptr /\ ring # <<>>
    BY <1>1, <2>2 DEF LinkInv, Sound, Fenced, Base, Reading
  <2>4. /\ RXSTOP \in Nat /\ next_packet_ptr \in 0 .. RXSTOP /\ erxwrpt \in 0 .. RXSTOP
        /\ next_packet_ptr % 2 = 0 /\ erxwrpt % 2 = 0
    BY <1>1, LinkAssumption DEF LinkInv, TypeOK, Ring, RXSTART
  <2>5. next_packet_ptr = 0
    <3> SUFFICES ASSUME next_packet_ptr # 0 PROVE FALSE
      OBVIOUS
    <3>1. Before(next_packet_ptr) = next_packet_ptr - 1
      BY <2>4 DEF Before, RXSTART
    <3>2. (next_packet_ptr - 1) % 2 = 1
      BY <2>4
    <3>3. erxwrpt % 2 = 1
      BY <2>2, <3>1, <3>2, Zenon
    <3>4. QED
      BY <2>4, <3>3
  <2>6. erxwrpt = RXSTOP
    <3>1. Before(next_packet_ptr) = RXSTOP
      BY <2>4, <2>5 DEF Before, RXSTART
    <3>2. QED
      BY <2>2, <3>1, Zenon
  <2>7. Free = 0
    BY <2>3, <2>4, <2>5, <2>6, LinkAssumption DEF Free
  <2>8. QED
    BY <2>3, <2>4, <2>5, <2>6, <2>7 DEF RXSTART
<1>2. LinkInv /\ [Next]_vars => [~mistaken /\ mistaken' => Full]_vars
  BY <1>1 DEF vars
<1>3. QED
  BY <1>2, Invariance, PTL DEF Spec
=============================================================================
