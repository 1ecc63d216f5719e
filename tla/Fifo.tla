-------------------------------- MODULE Fifo --------------------------------
(***************************************************************************)
(* util/fifo.c: the pool of ring buffers under the TCP sockets.            *)
(*                                                                         *)
(* A pointer into buffer[] is the index it points to; FifoSize is the      *)
(* address one past the end, which fifo_skip leaves in first, and Null is  *)
(* the null pointer.  Every memcpy is split at the end of the buffer the   *)
(* way the code splits it.                                                 *)
(***************************************************************************)
EXTENDS Integers, Sequences

CONSTANTS FifoCount, FifoSize, Bytes, Requests, Chunks

ASSUME SizesAssumption == FifoCount \in Nat \ {0} /\ FifoSize \in Nat \ {0}
ASSUME RequestsAssumption == Requests \subseteq Nat
ASSUME ChunksAssumption == Chunks \subseteq Seq(Bytes)
ASSUME BytesAssumption == 0 \in Bytes

Fifos == 1 .. FifoCount
NoFifo == 0
Null == -1

Slots == 0 .. FifoSize - 1

VARIABLES
  buffer,  (* buffer[f]: the FIFO_SIZE bytes of fifo f.                    *)
  length,  (* length[f]: the bytes in use.                                 *)
  first,   (* first[f]: the oldest byte.                                   *)
  last,    (* last[f]: where the next byte goes.                           *)
  result   (* What the last call returned and the bytes it copied out.     *)

vars == <<buffer, length, first, last, result>>

Answer(value, bytes) == [value |-> value, bytes |-> bytes]

TypeOK ==
  /\ buffer \in [Fifos -> [Slots -> Bytes]]
  /\ length \in [Fifos -> 0 .. FifoSize]
  /\ first \in [Fifos -> 0 .. FifoSize \union {Null}]
  /\ last \in [Fifos -> Slots \union {Null}]

\* fifo_init clears the whole table, so a fifo starts with null pointers.
Init ==
  /\ buffer = [f \in Fifos |-> [i \in Slots |-> 0]]
  /\ length = [f \in Fifos |-> 0]
  /\ first = [f \in Fifos |-> Null]
  /\ last = [f \in Fifos |-> Null]
  /\ result = Answer(NoFifo, <<>>)

-----------------------------------------------------------------------------
(* Helpers.                                                                *)

Least(m, n) == IF m <= n THEN m ELSE n

Free(f) == first[f] = Null /\ last[f] = Null

Space(f) == FifoSize - length[f]

\* n bytes of a buffer from index p on, no wrapping: what one memcpy reads.
Run(buf, p, n) == [i \in 1 .. n |-> buf[p + i - 1]]

\* n bytes from index p on, split at the end of the buffer.
CopyOut(buf, p, n) ==
  IF n > FifoSize - p
  THEN Run(buf, p, FifoSize - p) \o Run(buf, 0, n - (FifoSize - p))
  ELSE Run(buf, p, n)

\* The buffer after the first n bytes of chunk were copied to index p on,
\* split at the end of the buffer.
CopyIn(buf, p, chunk, n) ==
  [i \in Slots |->
     IF p <= i /\ i < p + n THEN chunk[i - p + 1]
     ELSE IF i < n - (FifoSize - p) THEN chunk[i + (FifoSize - p) + 1]
     ELSE buf[i]]

\* Mutation: no wrap at the end of the buffer.
Advance_NoWrap(p, n) == p + n

\* A pointer moved n bytes on.  The code wraps when n reaches beyond the end.
Advance(p, n) == IF n > FifoSize - p THEN n - (FifoSize - p) ELSE p + n

\* Mutation: > for >=.
Bound_Late(p) == IF p > FifoSize THEN 0 ELSE p

\* The final test of fifo_write and fifo_dequeue; fifo_skip has none.
Bound(p) == IF p >= FifoSize THEN 0 ELSE p

-----------------------------------------------------------------------------
(* The operations.                                                         *)

\* Mutation: last is not reset.
ClearedAt_KeepsLast(f) ==
  /\ length' = [length EXCEPT ![f] = 0]
  /\ first' = [first EXCEPT ![f] = 0]
  /\ last' = [last EXCEPT ![f] = IF @ = Null THEN 0 ELSE @]
  /\ UNCHANGED buffer

ClearedAt(f) ==
  /\ length' = [length EXCEPT ![f] = 0]
  /\ first' = [first EXCEPT ![f] = 0]
  /\ last' = [last EXCEPT ![f] = 0]
  /\ UNCHANGED buffer

fifo_alloc ==
  \/ /\ \A f \in Fifos : ~Free(f)
     /\ result' = Answer(NoFifo, <<>>)
     /\ UNCHANGED <<buffer, length, first, last>>
  \/ \E f \in Fifos :
       /\ Free(f)
       /\ \A g \in 1 .. f - 1 : ~Free(g)
       /\ ClearedAt(f)
       /\ result' = Answer(f, <<>>)

fifo_clear(f) ==
  /\ ~Free(f)
  /\ ClearedAt(f)
  /\ result' = Answer(1, <<>>)

fifo_free(f) ==
  /\ first' = [first EXCEPT ![f] = Null]
  /\ last' = [last EXCEPT ![f] = Null]
  /\ UNCHANGED <<buffer, length, result>>

fifo_write(f, chunk) ==
  LET n == Least(Len(chunk), Space(f))
  IN  /\ ~Free(f)
      /\ buffer' = [buffer EXCEPT ![f] = CopyIn(@, last[f], chunk, n)]
      /\ length' = [length EXCEPT ![f] = @ + n]
      /\ last' = [last EXCEPT ![f] = Bound(Advance(@, n))]
      /\ result' = Answer(n, <<>>)
      /\ UNCHANGED first

\* With nothing to read the code returns before it touches a pointer.
fifo_dequeue(f, request) ==
  LET n == Least(request, length[f])
  IN  /\ ~Free(f)
      /\ length' = [length EXCEPT ![f] = @ - n]
      /\ first' = [first EXCEPT ![f] = IF n = 0 THEN @ ELSE Bound(Advance(@, n))]
      /\ result' = Answer(n, CopyOut(buffer[f], first[f], n))
      /\ UNCHANGED <<buffer, last>>

fifo_skip(f, request) ==
  LET n == Least(request, length[f])
  IN  /\ ~Free(f)
      /\ length' = [length EXCEPT ![f] = @ - n]
      /\ first' = [first EXCEPT ![f] = IF n = 0 THEN @ ELSE Advance(@, n)]
      /\ result' = Answer(n, <<>>)
      /\ UNCHANGED <<buffer, last>>

\* offset_len - offset is unsigned: an offset past the end of the data would
\* ask for some 64 KiB, so the callers must not pass one.
fifo_peek(f, request, offset) ==
  LET n == Least(offset + request, length[f]) - offset
      ptr == Advance(first[f], offset)
  IN  /\ ~Free(f)
      /\ offset <= length[f]
      /\ result' = Answer(n, CopyOut(buffer[f], ptr, n))
      /\ UNCHANGED <<buffer, length, first, last>>

Next ==
  \/ fifo_alloc
  \/ \E f \in Fifos :
       \/ fifo_clear(f)
       \/ fifo_free(f)
       \/ \E chunk \in Chunks : fifo_write(f, chunk)
       \/ \E n \in Requests : fifo_dequeue(f, n) \/ fifo_skip(f, n)
       \/ \E n, offset \in Requests : fifo_peek(f, n, offset)

Spec == Init /\ [][Next]_vars

-----------------------------------------------------------------------------
(* Properties.                                                             *)

\* An index up to twice the size, folded back into the buffer.
Wrap(p) == IF p >= FifoSize THEN p - FifoSize ELSE p

\* The byte queue a ring stands for: length bytes from first on, around the
\* end of the buffer.
Content(f) == [i \in 1 .. length[f] |-> buffer[f][Wrap(Bound(first[f]) + i - 1)]]

\* The three words that describe a ring agree: both pointers are null, or last
\* is length bytes after first.  fifo_write wraps last eagerly and fifo_skip
\* leaves first one past the end (fifo.c:112-120 and 220-226), so the two
\* pointers are kept in different normal forms and could drift apart.
PointersAgree ==
  \A f \in Fifos :
    \/ Free(f)
    \/ /\ first[f] # Null /\ last[f] # Null
       /\ last[f] = Wrap(Bound(first[f]) + length[f])

\* The rings behave as the bounded queues of FifoQueue: what was enqueued comes
\* out once, in order, unchanged, whatever mixture of writes, reads, skips and
\* peeks wraps around the end of the buffer, and no call on one fifo changes
\* another (fifo.c:94-228).
Queue == INSTANCE FifoQueue WITH
           queue <- [f \in Fifos |-> IF Free(f) THEN <<>> ELSE Content(f)],
           allocated <- {f \in Fifos : ~Free(f)}
ImplementsQueue == Queue!QueueSpec
=============================================================================
