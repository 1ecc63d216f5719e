------------------------------ MODULE FifoQueue ------------------------------
(***************************************************************************)
(* What util/fifo.c promises its users: a fixed pool of byte queues of     *)
(* bounded length.  Enqueueing takes as much as fits, dequeueing and       *)
(* skipping give up at most what is there, peeking looks without removing, *)
(* and no operation touches a queue it was not given.                      *)
(***************************************************************************)
EXTENDS Integers, Sequences

CONSTANTS
  FifoCount,   (* FIFO_MAX_COUNT, the number of queues in the pool.        *)
  FifoSize,    (* FIFO_SIZE, the bytes one queue can hold.                 *)
  Bytes,       (* The values of a byte.                                    *)
  Requests,    (* The lengths and offsets users ask for.                   *)
  Chunks       (* The byte strings users enqueue.                          *)

Fifos == 1 .. FifoCount

NoFifo == 0    \* the null pointer

VARIABLES
  queue,       (* queue[f]: the bytes in queue f, oldest first.            *)
  allocated,   (* The queues that have an owner.                           *)
  result       (* What the last call handed back to its caller: its return *)
               (* value and the bytes it copied out.                       *)

qvars == <<queue, allocated, result>>

Least(m, n) == IF m <= n THEN m ELSE n

Prefix(q, n) == SubSeq(q, 1, Least(n, Len(q)))
Suffix(q, n) == SubSeq(q, Least(n, Len(q)) + 1, Len(q))

Answer(value, bytes) == [value |-> value, bytes |-> bytes]

QueueTypeOK ==
  /\ queue \in [Fifos -> Seq(Bytes)]
  /\ \A f \in Fifos : Len(queue[f]) <= FifoSize
  /\ allocated \subseteq Fifos

QueueInit ==
  /\ queue = [f \in Fifos |-> <<>>]
  /\ allocated = {}
  /\ result = Answer(NoFifo, <<>>)

\* A new owner gets the first queue without one, empty, or nothing.
Take ==
  \/ /\ allocated = Fifos
     /\ result' = Answer(NoFifo, <<>>)
     /\ UNCHANGED <<queue, allocated>>
  \/ \E f \in Fifos \ allocated :
       /\ 1 .. f - 1 \subseteq allocated
       /\ allocated' = allocated \union {f}
       /\ result' = Answer(f, <<>>)
       /\ UNCHANGED queue

GiveBack(f) ==
  /\ allocated' = allocated \ {f}
  /\ queue' = [queue EXCEPT ![f] = <<>>]
  /\ UNCHANGED result

Clear(f) ==
  /\ f \in allocated
  /\ queue' = [queue EXCEPT ![f] = <<>>]
  /\ result' = Answer(1, <<>>)
  /\ UNCHANGED allocated

Enqueue(f, chunk) ==
  LET space == FifoSize - Len(queue[f])
  IN  /\ f \in allocated
      /\ queue' = [queue EXCEPT ![f] = @ \o Prefix(chunk, space)]
      /\ result' = Answer(Least(Len(chunk), space), <<>>)
      /\ UNCHANGED allocated

Dequeue(f, n) ==
  /\ f \in allocated
  /\ queue' = [queue EXCEPT ![f] = Suffix(@, n)]
  /\ result' = Answer(Least(n, Len(queue[f])), Prefix(queue[f], n))
  /\ UNCHANGED allocated

Skip(f, n) ==
  /\ f \in allocated
  /\ queue' = [queue EXCEPT ![f] = Suffix(@, n)]
  /\ result' = Answer(Least(n, Len(queue[f])), <<>>)
  /\ UNCHANGED allocated

\* The offset must lie inside the queue; module Tcp shows its caller obeys.
Peek(f, n, offset) ==
  LET rest == Suffix(queue[f], offset)
  IN  /\ f \in allocated
      /\ offset <= Len(queue[f])
      /\ result' = Answer(Least(n, Len(rest)), Prefix(rest, n))
      /\ UNCHANGED <<queue, allocated>>

QueueNext ==
  \/ Take
  \/ \E f \in Fifos :
       \/ GiveBack(f)
       \/ Clear(f)
       \/ \E chunk \in Chunks : Enqueue(f, chunk)
       \/ \E n \in Requests : Dequeue(f, n) \/ Skip(f, n)
       \/ \E n, offset \in Requests : Peek(f, n, offset)

QueueSpec == QueueInit /\ [][QueueNext]_qvars
=============================================================================
