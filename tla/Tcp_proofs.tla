------------------------------- MODULE Tcp_proofs -------------------------------
(***************************************************************************)
(* Theorems about module Tcp, for every number of sockets, timers and      *)
(* fifos, every fifo size, every set of peers and ports: first its type,   *)
(* for applications that call whatever they like, then who owns what, and  *)
(* what the owners are told.                                               *)
(***************************************************************************)
EXTENDS TcpApps, FiniteSets, FiniteSetTheorems, SequenceTheorems, TLAPS

-----------------------------------------------------------------------------
(* The timer table: a free slot is found when there is one, and no call of *)
(* timer.h takes the table out of its type.                                *)

\* The scan of a table for the first slot that fits finds one, if there is one: a
\* finite set of numbers that is not empty has a least element.
LEMMA LeastExists ==
  ASSUME NEW S \in SUBSET Int, IsFiniteSet(S), S # {}
  PROVE  \E n \in S : \A m \in S : n <= m
<1> DEFINE Below(n) == {m \in S : m < n}
           Sets == {Below(n) : n \in S}
<1>1. \A n \in S : Below(n) \in FiniteSubsetsOf(S)
  BY FS_Subset DEF FiniteSubsetsOf
<1>2. Sets \subseteq FiniteSubsetsOf(S) /\ Sets # {}
  BY <1>1
<1>3. IsWellFoundedOn(StrictSubsetOrdering(S), FiniteSubsetsOf(S))
  BY FS_StrictSubsetOrderingWellFounded
<1> HIDE DEF Sets
<1>4. PICK x \in Sets : \A y \in Sets : <<y, x>> \notin StrictSubsetOrdering(S)
  BY <1>2, <1>3, WFMin
<1> USE DEF Sets
<1>5. PICK n \in S : x = Below(n)
  BY <1>4
<1>6. ASSUME NEW m \in S, ~(n <= m)
      PROVE  FALSE
  <2>1. m \in Int /\ n \in Int /\ m < n
    BY <1>6
  <2>2. Below(m) \subseteq Below(n)
    <3>1. \A k \in S : k < m => k < n
      BY <2>1
    <3>2. QED
      BY <3>1
  <2>3. m \in Below(n) /\ m \notin Below(m)
    BY <2>1
  <2>4. <<Below(m), x>> \in StrictSubsetOrdering(S)
    BY <1>5, <2>2, <2>3 DEF StrictSubsetOrdering
  <2>5. QED
    BY <1>4, <2>4
<1>7. QED
  BY <1>6

\* And so does a scan that goes on to the end: it has a greatest.
LEMMA GreatestExists ==
  ASSUME NEW S \in SUBSET Int, IsFiniteSet(S), S # {}
  PROVE  \E n \in S : \A m \in S : m <= n
<1> DEFINE Above(n) == {m \in S : m > n}
           Sets == {Above(n) : n \in S}
<1>1. \A n \in S : Above(n) \in FiniteSubsetsOf(S)
  BY FS_Subset DEF FiniteSubsetsOf
<1>2. Sets \subseteq FiniteSubsetsOf(S) /\ Sets # {}
  BY <1>1
<1>3. IsWellFoundedOn(StrictSubsetOrdering(S), FiniteSubsetsOf(S))
  BY FS_StrictSubsetOrderingWellFounded
<1> HIDE DEF Sets
<1>4. PICK x \in Sets : \A y \in Sets : <<y, x>> \notin StrictSubsetOrdering(S)
  BY <1>2, <1>3, WFMin
<1> USE DEF Sets
<1>5. PICK n \in S : x = Above(n)
  BY <1>4
<1>6. ASSUME NEW m \in S, ~(m <= n)
      PROVE  FALSE
  <2>1. m \in Int /\ n \in Int /\ m > n
    BY <1>6
  <2>2. Above(m) \subseteq Above(n)
    <3>1. \A k \in S : k > m => k > n
      BY <2>1
    <3>2. QED
      BY <3>1
  <2>3. m \in Above(n) /\ m \notin Above(m)
    BY <2>1
  <2>4. <<Above(m), x>> \in StrictSubsetOrdering(S)
    BY <1>5, <2>2, <2>3 DEF StrictSubsetOrdering
  <2>5. QED
    BY <1>4, <2>4
<1>7. QED
  BY <1>6

\* timer_alloc finds the first free slot, or there is none (timer.c:142-144).
LEMMA AllocHandleFree ==
  ASSUME NEW pool
  PROVE  /\ FreeSlots(pool) = {} => AllocHandle(pool) = NoTimer
         /\ FreeSlots(pool) # {} =>
              /\ AllocHandle(pool) \in FreeSlots(pool)
              /\ AllocHandle(pool) \in Timers
<1>1. IsFiniteSet(FreeSlots(pool)) /\ FreeSlots(pool) \in SUBSET Int
  <2>1. IsFiniteSet(Timers) /\ Timers \in SUBSET Int
    BY FS_Interval, TimerMaxAssumption DEF Timers
  <2>2. FreeSlots(pool) \in SUBSET Timers
    BY DEF FreeSlots
  <2>3. QED
    BY <2>1, <2>2, FS_Subset
<1>2. ASSUME FreeSlots(pool) # {}
      PROVE  AllocHandle(pool) \in FreeSlots(pool)
  <2>1. \E t \in FreeSlots(pool) : \A u \in FreeSlots(pool) : t <= u
    BY <1>1, <1>2, LeastExists
  <2>2. QED
    BY <1>2, <2>1 DEF AllocHandle, Lowest
<1>3. QED
  BY <1>2 DEF AllocHandle, FreeSlots

\* timer_init leaves a table of its type.
LEMMA EmptyPoolType ==
  ASSUME NEW C, NEW A
  PROVE  EmptyPool \in PoolType(C, A)
BY DEF EmptyPool, EmptyEntry, PoolType, States, Modes

\* timer_alloc keeps the type of the table, whether it finds a slot or not.
LEMMA AllocType ==
  ASSUME NEW C, NEW A, NEW pool \in PoolType(C, A), NEW c \in C
  PROVE  Alloc(pool, c) \in PoolType(C, A)
BY AllocHandleFree DEF Alloc, PoolType, States

\* timer_set_arg keeps it, whatever handle it is given.
LEMMA SetArgType ==
  ASSUME NEW C, NEW A, NEW pool \in PoolType(C, A), NEW t, NEW a \in A
  PROVE  SetArg(pool, t, a) \in PoolType(C, A)
BY DEF SetArg, Valid, PoolType

\* So does timer_set, whatever handle it is given.
LEMMA SetType ==
  ASSUME NEW C, NEW A, NEW pool \in PoolType(C, A), NEW t, NEW ms, NEW m \in Modes
  PROVE  Set(pool, t, ms, m) \in PoolType(C, A)
BY DEF Set, Valid, PoolType, States

\* So does timer_stop.
LEMMA StopType ==
  ASSUME NEW C, NEW A, NEW pool \in PoolType(C, A), NEW t
  PROVE  Stop(pool, t) \in PoolType(C, A)
BY DEF Stop, Valid, PoolType, States

\* So does timer_free.
LEMMA FreeType ==
  ASSUME NEW C, NEW A, NEW pool \in PoolType(C, A), NEW t
  PROVE  Free(pool, t) \in PoolType(C, A)
BY DEF Free, PoolType, States

\* So does the return of a callback to timer_tick (timer.c:67-75).
LEMMA AfterCallbackType ==
  ASSUME NEW C, NEW A, NEW pool \in PoolType(C, A), NEW t
  PROVE  AfterCallback(pool, t) \in PoolType(C, A)
BY DEF AfterCallback, PoolType, States


-----------------------------------------------------------------------------
(* The parts of the type.                                                  *)

TcpPool == PoolType({"tcp_timeout", "other"}, Sockets)

TcbOK == tcb \in [Sockets -> Tcb]
TimersOK == timers \in TcpPool
FifoOK == fifo \in [Fifos -> 0 .. FifoSize \union {Unowned}]
StackOK == stack \in Seq(Frame)
ToldOK == told \in [Sockets -> {"nothing", "opening", "open", "over", "wrong"}]
FinOK == finSent \in [Sockets -> BOOLEAN]

LEMMA TypeParts == TypeOK <=> TcbOK /\ TimersOK /\ FifoOK /\ StackOK /\ ToldOK /\ FinOK
<1>1. {NoCallback, "tcp_timeout", "other"} = {"tcp_timeout", "other"} \union {NoCallback}
  OBVIOUS
<1>2. QED
  BY <1>1, Zenon DEF TypeOK, TcbOK, TimersOK, TcpPool, PoolType, FifoOK, StackOK, ToldOK, FinOK

LEMMA TypePartsNext ==
  ASSUME TcbOK', TimersOK', FifoOK', StackOK', ToldOK', FinOK'
  PROVE  TypeOK'
<1>1. {NoCallback, "tcp_timeout", "other"} = {"tcp_timeout", "other"} \union {NoCallback}
  OBVIOUS
<1>2. QED
  BY <1>1, Zenon DEF TypeOK, TcbOK, TimersOK, TcpPool, PoolType, FifoOK, StackOK, ToldOK, FinOK

\* A scan of the sockets or of the fifos finds the first that fits.
LEMMA LowestFound ==
  ASSUME NEW n \in Int, NEW S \in SUBSET (0 .. n), S # {}
  PROVE  Lowest(S) \in S /\ Highest(S) \in S
<1>1. IsFiniteSet(S) /\ S \in SUBSET Int
  <2>1. IsFiniteSet(0 .. n) /\ 0 .. n \in SUBSET Int
    BY FS_Interval
  <2>2. QED
    BY <2>1, FS_Subset
<1>2. \E k \in S : \A m \in S : k <= m
  BY <1>1, LeastExists
<1>3. \E k \in S : \A m \in S : m <= k
  BY <1>1, GreatestExists
<1>4. QED
  BY <1>2, <1>3 DEF Lowest, Highest

LEMMA UnusedSocketFound ==
  ASSUME UnusedSockets # {}
  PROVE  Lowest(UnusedSockets) \in UnusedSockets /\ Lowest(UnusedSockets) \in Sockets
<1>1. MaxSockets - 1 \in Int /\ UnusedSockets \in SUBSET (0 .. MaxSockets - 1)
  BY SizesAssumption DEF UnusedSockets, Sockets
<1>2. QED
  BY <1>1, LowestFound DEF Sockets

\* The two handles tcp_tcb_alloc_fifo gets (tcp.c:1250-1263).
LEMMA FifoPairFound ==
  /\ FifoPair[1] \in FreeFifos \union {NoFifo}
  /\ FifoPair[2] \in (FreeFifos \ {FifoPair[1]}) \union {NoFifo}
<1>1. FifoCount \in Int /\ FreeFifos \in SUBSET (0 .. FifoCount)
  BY SizesAssumption DEF FreeFifos, Fifos
<1>2. ASSUME NEW S \in SUBSET FreeFifos, S # {}
      PROVE  Lowest(S) \in S
  BY <1>1, <1>2, LowestFound
<1>3. FifoPair[1] \in FreeFifos \union {NoFifo}
  BY <1>2 DEF FifoPair
<1>4. FifoPair[2] = IF FreeFifos \ {FifoPair[1]} = {} THEN NoFifo
                    ELSE Lowest(FreeFifos \ {FifoPair[1]})
  BY DEF FifoPair
<1>5. QED
  BY <1>2, <1>3, <1>4

\* One port more than there are sockets is enough: some of them is free
\* (tcp.c:1240-1248).
LEMMA UnusedPortFound ==
  ASSUME TcbOK
  PROVE  FindUnusedPort \in EphemeralPorts /\ PortFree(FindUnusedPort)
<1> DEFINE Unused == {p \in EphemeralPorts : PortFree(p)}
<1>1. /\ IsFiniteSet(EphemeralPorts) /\ Cardinality(EphemeralPorts) = MaxSockets + 1
      /\ IsFiniteSet(Sockets) /\ Cardinality(Sockets) = MaxSockets
  <2>1. FirstEphemeral \in Int /\ FirstEphemeral + MaxSockets \in Int
        /\ 0 \in Int /\ MaxSockets - 1 \in Int /\ MaxSockets \in Nat
    BY SizesAssumption
  <2>2. QED
    BY <2>1, FS_Interval DEF EphemeralPorts, Sockets
<1>2. Unused # {}
  <2> SUFFICES ASSUME \A p \in EphemeralPorts : \E s \in Sockets : tcb[s].port = p
               PROVE  FALSE
    BY DEF PortFree
  <2> DEFINE holder == [p \in EphemeralPorts |-> CHOOSE s \in Sockets : tcb[s].port = p]
  <2>1. holder \in [EphemeralPorts -> Sockets]
    OBVIOUS
  <2>2. \A p \in EphemeralPorts : tcb[holder[p]].port = p
    OBVIOUS
  <2>3. Cardinality(Sockets) < Cardinality(EphemeralPorts)
    BY <1>1, SizesAssumption
  <2> HIDE DEF holder
  <2>4. \E p, q \in EphemeralPorts : p # q /\ holder[p] = holder[q]
    BY <1>1, <2>1, <2>3, FS_PigeonHole
  <2>5. QED
    BY <2>2, <2>4
<1>3. FindUnusedPort \in Unused
  <2>1. IsFiniteSet(Unused) /\ Unused \in SUBSET Int
    BY <1>1, FS_Subset, SizesAssumption DEF EphemeralPorts
  <2>2. \E n \in Unused : \A m \in Unused : n <= m
    BY <1>2, <2>1, LeastExists
  <2>3. QED
    BY <2>2 DEF FindUnusedPort, Lowest
<1>4. QED
  BY <1>3

-----------------------------------------------------------------------------
(* The call stack.                                                         *)

LEMMA FramesTyped ==
  ASSUME NEW s \in Sockets
  PROVE  /\ \A app \in Apps \union {NoApp}, event \in Events :
              [at |-> "callback", sock |-> s, app |-> app, event |-> event] \in Frame
         /\ \A l \in Sockets : [at |-> "incoming", sock |-> s, listener |-> l] \in Frame
         /\ [at |-> "drop", sock |-> s] \in Frame
         /\ \A t \in Timers : [at |-> "tick", timer |-> t] \in Frame
         /\ \A label \in {"arm_idle", "acked", "rearm", "text", "received", "fin"},
               len \in Nat, fin \in BOOLEAN : Resume(label, s, len, fin) \in Seq(Frame)
<1>1. \A app \in Apps \union {NoApp}, event \in Events :
        [at |-> "callback", sock |-> s, app |-> app, event |-> event] \in Frame
  BY DEF Frame, CallbackFrame
<1>2. \A l \in Sockets : [at |-> "incoming", sock |-> s, listener |-> l] \in Frame
  BY DEF Frame, IncomingFrame
<1>3. [at |-> "drop", sock |-> s] \in Frame
  BY DEF Frame, DropFrame
<1>4. \A t \in Timers : [at |-> "tick", timer |-> t] \in Frame
  BY DEF Frame, TickFrame
<1>5. ASSUME NEW label \in {"arm_idle", "acked", "rearm", "text", "received", "fin"},
             NEW len \in Nat, NEW fin \in BOOLEAN
      PROVE  Resume(label, s, len, fin) \in Seq(Frame)
  <2>1. [at |-> label, sock |-> s, len |-> len, fin |-> fin] \in Frame
    BY DEF Frame, SegmentFrame
  <2>2. QED
    BY <2>1 DEF Resume
<1>6. QED
  BY <1>1, <1>2, <1>3, <1>4, <1>5

\* What the innermost frame holds is known by its label.
LEMMA TopTyped ==
  ASSUME StackOK, stack # <<>>
  PROVE  /\ Tail(stack) \in Seq(Frame)
         /\ At("callback") => Head(stack) \in CallbackFrame
         /\ At("incoming") => Head(stack) \in IncomingFrame
         /\ At("drop") => Head(stack) \in DropFrame
         /\ At("tick") => Head(stack) \in TickFrame
         /\ \A label \in {"arm_idle", "acked", "rearm", "text", "received", "fin"} :
              At(label) => Head(stack) \in SegmentFrame
<1>1. Head(stack) \in Frame /\ Tail(stack) \in Seq(Frame)
  BY HeadTailProperties DEF StackOK
<1>2. QED
  BY <1>1 DEF At, Frame, CallbackFrame, IncomingFrame, DropFrame, TickFrame, SegmentFrame

-----------------------------------------------------------------------------
(* The pieces the handlers are made of.                                    *)

LEMMA ArmTimerTyped ==
  ASSUME TimersOK, NEW t, ArmTimer(t)
  PROVE  TimersOK'
<1>1. "one_shot" \in Modes
  BY DEF Modes
<1>2. QED
  BY <1>1, SetType DEF ArmTimer, TimersOK, TcpPool

LEMMA RaiseTyped ==
  ASSUME ToldOK, NEW s \in Sockets, NEW app \in Apps \union {NoApp}, NEW event \in Events,
         NEW below \in Seq(Frame), Raise(s, app, event, below)
  PROVE  StackOK' /\ ToldOK'
<1>1. [at |-> "callback", sock |-> s, app |-> app, event |-> event] \in Frame
  BY FramesTyped
<1>2. StackOK'
  BY <1>1, ConcatProperties DEF Raise, StackOK
<1>3. TellNext(told[s], event) \in {"nothing", "opening", "open", "over", "wrong"}
  BY DEF TellNext, Events
<1>4. ToldOK'
  BY <1>3 DEF Raise, ToldOK
<1>5. QED
  BY <1>2, <1>4

LEMMA GoOnTyped ==
  ASSUME ToldOK, NEW below \in Seq(Frame), GoOn(below)
  PROVE  StackOK' /\ ToldOK'
BY DEF GoOn, StackOK, ToldOK

LEMMA TcbCloseTyped ==
  ASSUME TcbOK, TimersOK, ToldOK, NEW s \in Sockets, NEW t \in Tcb, NEW event \in Events,
         NEW below \in Seq(Frame), TcbClose(s, t, event, below)
  PROVE  TcbOK' /\ TimersOK' /\ StackOK' /\ ToldOK'
<1>1. [t EXCEPT !.state = "closed"] \in Tcb
  BY DEF Tcb, TcpStates
<1>2. TcbOK'
  BY <1>1 DEF TcbClose, TcbOK
<1>3. TimersOK'
  BY StopType DEF TcbClose, TimersOK, TcpPool
<1>4. t.callback \in Apps \union {NoApp}
  BY DEF Tcb
<1>5. StackOK' /\ ToldOK'
  BY <1>4, RaiseTyped DEF TcbClose
<1>6. QED
  BY <1>2, <1>3, <1>5

LEMMA RearmedTyped ==
  ASSUME TcbOK, TimersOK, ToldOK, NEW s \in Sockets, NEW t \in Tcb,
         NEW below \in Seq(Frame), Rearmed(s, t, below)
  PROVE  TcbOK' /\ TimersOK' /\ StackOK' /\ ToldOK'
<1>1. TcbOK'
  BY DEF Rearmed, TcbOK
<1>2. TimersOK'
  BY ArmTimerTyped DEF Rearmed
<1>3. StackOK' /\ ToldOK'
  BY GoOnTyped DEF Rearmed
<1>4. QED
  BY <1>1, <1>2, <1>3

LEMMA ZeroTcbTyped == ZeroTcb \in Tcb
BY TimerMaxAssumption DEF ZeroTcb, Tcb, TcpStates, Timers

LEMMA TcbFreeTyped ==
  ASSUME TcbOK, TimersOK, FifoOK, ToldOK, FinOK, NEW s \in Sockets, TcbFree(s)
  PROVE  TcbOK' /\ TimersOK' /\ FifoOK' /\ ToldOK' /\ FinOK'
<1>1. TcbOK'
  BY ZeroTcbTyped DEF TcbFree, TcbOK
<1>2. TimersOK'
  BY FreeType DEF TcbFree, TimersOK, TcpPool
<1>3. FifoOK'
  BY DEF TcbFree, FifosWithout, FifoOK
<1>4. ToldOK' /\ FinOK'
  BY DEF TcbFree, ToldOK, FinOK
<1>5. QED
  BY <1>1, <1>2, <1>3, <1>4

\* The number of bytes queued, and how far a send can get.
LEMMA QueuedTyped ==
  ASSUME FifoOK, NEW t \in Tcb
  PROVE  /\ Queued(t) \in Int /\ Queued(t) >= -1 /\ Queued(t) <= FifoSize
         /\ \A n \in SentUpTo(t) : n \in Nat
<1>1. Queued(t) \in 0 .. FifoSize \union {-1}
  BY SizesAssumption DEF Queued, FifoLength, FifoOK, Unowned, Tcb
<1>2. t.seqNext \in Nat
  BY DEF Tcb
<1>3. QED
  BY <1>1, <1>2, SizesAssumption DEF SentUpTo

\* The fields of a TCB the handlers write.
LEMMA TcbFieldsTyped ==
  ASSUME NEW t \in Tcb
  PROVE  /\ \A state \in TcpStates : [t EXCEPT !.state = state] \in Tcb
         /\ \A rtx \in Int : [t EXCEPT !.rtx = rtx] \in Tcb
         /\ \A n \in Nat : [t EXCEPT !.seqNext = n] \in Tcb
         /\ [t EXCEPT !.rtx = @ - 1] \in Tcb
         /\ \A state \in TcpStates : [t EXCEPT !.rtx = @ - 1, !.state = state] \in Tcb
         /\ \A state \in TcpStates, rtx \in Int : [t EXCEPT !.rtx = rtx, !.state = state] \in Tcb
         /\ \A n \in Nat : [t EXCEPT !.rtx = @ - 1, !.seqNext = n] \in Tcb
         /\ \A n \in Nat, state \in TcpStates : [t EXCEPT !.state = state, !.seqNext = n] \in Tcb
<1>1. \A state \in TcpStates : [t EXCEPT !.state = state] \in Tcb
  BY DEF Tcb
<1>2. \A rtx \in Int : [t EXCEPT !.rtx = rtx] \in Tcb
  BY DEF Tcb
<1>3. \A n \in Nat : [t EXCEPT !.seqNext = n] \in Tcb
  BY DEF Tcb
<1>4. [t EXCEPT !.rtx = @ - 1] \in Tcb
  BY <1>2 DEF Tcb
<1>5. \A state \in TcpStates, rtx \in Int : [t EXCEPT !.rtx = rtx, !.state = state] \in Tcb
  BY DEF Tcb
<1>6. \A state \in TcpStates : [t EXCEPT !.rtx = @ - 1, !.state = state] \in Tcb
  <2>1. t.rtx - 1 \in Int
    BY DEF Tcb
  <2>2. QED
    BY <1>5, <2>1
<1>7. \A n \in Nat : [t EXCEPT !.rtx = @ - 1, !.seqNext = n] \in Tcb
  <2>1. t.rtx - 1 \in Int
    BY DEF Tcb
  <2>2. \A rtx \in Int, n \in Nat : [t EXCEPT !.rtx = rtx, !.seqNext = n] \in Tcb
    BY DEF Tcb
  <2>3. QED
    BY <2>1, <2>2
<1>8. \A n \in Nat, state \in TcpStates : [t EXCEPT !.state = state, !.seqNext = n] \in Tcb
  BY DEF Tcb
<1>9. QED
  BY <1>1, <1>2, <1>3, <1>4, <1>5, <1>6, <1>7, <1>8

LEMMA StateAndRtxTyped ==
  ASSUME NEW t \in Tcb, NEW state \in TcpStates, NEW rtx \in Int
  PROVE  /\ [t EXCEPT !.rtx = rtx, !.state = state] \in Tcb
         /\ \A n \in Nat : [t EXCEPT !.seqNext = n, !.rtx = rtx, !.state = state] \in Tcb
BY DEF Tcb

-----------------------------------------------------------------------------
(* tcp_timeout, on any TCB the callers hand it.                            *)

LEMMA TimeoutTyped ==
  ASSUME TypeOK, NEW s \in Sockets, NEW t \in Tcb, NEW below \in Seq(Frame),
         tcp_timeout(s, t, below)
  PROVE  TypeOK'
<1> DEFINE Moved == TcbOK' /\ TimersOK' /\ StackOK' /\ ToldOK'
<1>1. TcbOK /\ TimersOK /\ FifoOK /\ StackOK /\ ToldOK /\ FinOK
  BY TypeParts
<1>2. ASSUME Moved, UNCHANGED <<fifo, finSent>>
      PROVE  TypeOK'
  <2>1. FifoOK' /\ FinOK'
    BY <1>1, <1>2 DEF FifoOK, FinOK
  <2>2. QED
    BY <1>2, <2>1, TypePartsNext
<1>3. ASSUME NEW event \in Events, NEW u \in Tcb, TcbClose(s, u, event, below)
      PROVE  Moved
  BY <1>1, <1>3, TcbCloseTyped
<1>4. ASSUME NEW u \in Tcb, Rearmed(s, u, below)
      PROVE  Moved
  BY <1>1, <1>4, RearmedTyped
<1>5. {"timeout", "error", "closed", "idle"} \subseteq Events
  BY DEF Events
<1>6. {"syn_sent", "closed", "fin_wait_1", "last_ack"} \subseteq TcpStates
  BY DEF TcpStates
<1>7. [t EXCEPT !.rtx = @ - 1] \in Tcb
  BY TcbFieldsTyped
<1>8. CASE TimeoutGiveUp(s, t, below)
  BY <1>2, <1>3, <1>5, <1>7, <1>8 DEF TimeoutGiveUp
<1>9. CASE TimeoutSyn(s, t, below)
  <2>1. \A state \in TcpStates : [t EXCEPT !.rtx = @ - 1, !.state = state] \in Tcb
    BY TcbFieldsTyped
  <2>2. QED
    BY <1>2, <1>3, <1>4, <1>5, <1>6, <1>7, <1>9, <2>1 DEF TimeoutSyn
<1>10. CASE TimeoutSynAck(s, t, below)
  BY <1>2, <1>3, <1>4, <1>5, <1>7, <1>10 DEF TimeoutSynAck
<1> DEFINE again == [t EXCEPT !.rtx = @ - 1, !.seqNext = 0]
<1>11. again \in Tcb
  BY TcbFieldsTyped
<1>12. \A n \in SentUpTo(again) : n \in Nat /\ [again EXCEPT !.seqNext = n] \in Tcb
  BY <1>1, <1>11, QueuedTyped, TcbFieldsTyped
<1> HIDE DEF again
<1>13. CASE TimeoutData(s, t, below)
  <2> USE DEF again
  <2>1. CASE \E n \in SentUpTo(again) : Rearmed(s, [again EXCEPT !.seqNext = n], below)
    BY <1>2, <1>4, <1>12, <1>13, <2>1 DEF TimeoutData
  <2>2. CASE TcbClose(s, again, "error", below)
    BY <1>2, <1>3, <1>5, <1>11, <1>13, <2>2 DEF TimeoutData
  <2>3. CASE tcb' = [tcb EXCEPT ![s] = again] /\ GoOn(below) /\ UNCHANGED timers
    <3>1. TcbOK' /\ TimersOK'
      BY <1>1, <1>11, <2>3 DEF TcbOK, TimersOK
    <3>2. StackOK' /\ ToldOK'
      BY <1>1, <2>3, GoOnTyped
    <3>3. QED
      BY <1>2, <1>13, <3>1, <3>2 DEF TimeoutData
  <2>4. QED
    BY <1>13, <2>1, <2>2, <2>3 DEF TimeoutData
<1>14. CASE TimeoutStartClose(s, t, below)
  <2>1. [t EXCEPT !.rtx = RtxFin, !.state = "fin_wait_1"] \in Tcb
    <3>1. RtxFin \in Int
      BY RtxAssumption
    <3>2. QED
      BY <1>6, <3>1, StateAndRtxTyped
  <2>2. Moved
    BY <1>3, <1>4, <1>5, <1>7, <1>14, <2>1 DEF TimeoutStartClose
  <2>3. FinOK'
    BY <1>1, <1>14, SendResultsAssumption DEF TimeoutStartClose, FinOK
  <2>4. FifoOK'
    BY <1>1, <1>14 DEF TimeoutStartClose, FifoOK
  <2>5. QED
    BY <2>2, <2>3, <2>4, TypePartsNext
<1>15. CASE TimeoutIdle(s, t, below)
  <2>1. TcbOK' /\ TimersOK'
    BY <1>1, <1>7, <1>15 DEF TimeoutIdle, TcbOK, TimersOK
  <2>2. t.callback \in Apps \union {NoApp}
    BY DEF Tcb
  <2>3. StackOK' /\ ToldOK'
    BY <1>1, <1>5, <1>15, <2>2, RaiseTyped DEF TimeoutIdle
  <2>4. QED
    BY <1>2, <1>15, <2>1, <2>3 DEF TimeoutIdle
<1>16. CASE TimeoutFin(s, t, below)
  <2> USE DEF again
  <2>1. FifoOK'
    BY <1>1, <1>16 DEF TimeoutFin, FifoOK
  <2>2. ASSUME NEW n \in SentUpTo(again)
        PROVE  [again EXCEPT !.seqNext = n, !.rtx = 0, !.state = "last_ack"] \in Tcb
    <3>1. n \in Nat
      BY <1>12
    <3>2. "last_ack" \in TcpStates /\ 0 \in Int
      BY <1>6
    <3>3. QED
      BY <1>11, <3>1, <3>2, StateAndRtxTyped
  <2>3. Moved
    BY <1>3, <1>4, <1>5, <1>11, <1>12, <1>16, <2>2 DEF TimeoutFin
  <2>4. FinOK'
    BY <1>1, <1>16 DEF TimeoutFin, FinOK, FinLeaves
  <2>5. QED
    BY <2>1, <2>3, <2>4, TypePartsNext
<1>17. CASE TimeoutEnd(s, t, below)
  BY <1>2, <1>3, <1>5, <1>7, <1>17 DEF TimeoutEnd
<1>18. QED
  BY <1>8, <1>9, <1>10, <1>13, <1>14, <1>15, <1>16, <1>17 DEF tcp_timeout

LEMMA TimerExpiresTyped ==
  ASSUME TypeOK, NEW s \in Sockets, TimerExpires(s)
  PROVE  TypeOK'
<1>1. TcbOK
  BY TypeParts
<1>2. tcb[s] \in Tcb
  BY <1>1 DEF TcbOK
<1>3. tcb[s].timer \in Timers
  BY DEF TimerExpires, Running, Valid
<1>4. <<[at |-> "tick", timer |-> tcb[s].timer]>> \in Seq(Frame)
  <2>1. [at |-> "tick", timer |-> tcb[s].timer] \in Frame
    BY <1>3, FramesTyped
  <2>2. QED
    BY <2>1
<1>5. QED
  BY <1>2, <1>4, TimeoutTyped DEF TimerExpires

-----------------------------------------------------------------------------
(* The socket API.                                                         *)

\* What the calls that only move a socket's state leave typed.
LEMMA StateSetTyped ==
  ASSUME TypeOK, NEW s \in Sockets, NEW state \in TcpStates,
         tcb' = [tcb EXCEPT ![s].state = state],
         UNCHANGED <<timers, fifo, stack, told, finSent>>
  PROVE  TypeOK'
<1>1. TcbOK /\ TimersOK /\ FifoOK /\ StackOK /\ ToldOK /\ FinOK
  BY TypeParts
<1>2. [tcb[s] EXCEPT !.state = state] \in Tcb
  BY <1>1, TcbFieldsTyped DEF TcbOK
<1>3. TcbOK'
  BY <1>1, <1>2 DEF TcbOK
<1>4. TimersOK' /\ FifoOK' /\ StackOK' /\ ToldOK' /\ FinOK'
  BY <1>1 DEF TimersOK, FifoOK, StackOK, ToldOK, FinOK
<1>5. QED
  BY <1>3, <1>4, TypePartsNext

LEMMA SocketAllocTyped ==
  ASSUME TypeOK, NEW app \in Apps, tcp_socket_alloc(app)
  PROVE  TypeOK'
<1>1. TcbOK /\ TimersOK /\ FifoOK /\ StackOK /\ ToldOK /\ FinOK
  BY TypeParts
<1> DEFINE s == Lowest(UnusedSockets)
           t == AllocHandle(timers)
<1>2. s \in Sockets /\ t \in Timers \union {NoTimer}
  BY UnusedSocketFound, AllocHandleFree DEF tcp_socket_alloc, FreeSlots
<1>3. tcb[s] \in Tcb
  BY <1>1, <1>2 DEF TcbOK
<1>4. [tcb[s] EXCEPT !.state = "closed", !.callback = app, !.timer = t] \in Tcb
  BY <1>2, <1>3 DEF Tcb, TcpStates
<1>5. tcb' = [tcb EXCEPT ![s] = [tcb[s] EXCEPT !.state = "closed", !.callback = app, !.timer = t]]
  BY <1>1, <1>2 DEF tcp_socket_alloc, TcbOK
<1>6. TcbOK'
  BY <1>1, <1>4, <1>5 DEF TcbOK
<1>7. TimersOK'
  <2>1. Alloc(timers, "tcp_timeout") \in TcpPool
    BY <1>1, AllocType DEF TimersOK, TcpPool
  <2>2. SetArg(Alloc(timers, "tcp_timeout"), t, s) \in TcpPool
    BY <1>2, <2>1, SetArgType DEF TcpPool
  <2>3. QED
    BY <2>2 DEF tcp_socket_alloc, TimersOK
<1>8. FifoOK' /\ StackOK' /\ ToldOK' /\ FinOK'
  BY <1>1 DEF tcp_socket_alloc, FifoOK, StackOK, ToldOK, FinOK
<1>9. QED
  BY <1>6, <1>7, <1>8, TypePartsNext

LEMMA ListenTyped ==
  ASSUME TypeOK, NEW s \in Sockets, NEW port \in ListenPorts, tcp_listen(s, port)
  PROVE  TypeOK'
<1>1. TcbOK /\ TimersOK /\ FifoOK /\ StackOK /\ ToldOK /\ FinOK
  BY TypeParts
<1>2. [tcb[s] EXCEPT !.port = port, !.state = "listen"] \in Tcb
  <2>1. tcb[s] \in Tcb /\ port \in Ports /\ "listen" \in TcpStates
    BY <1>1 DEF TcbOK, Ports, TcpStates
  <2>2. QED
    BY <2>1 DEF Tcb
<1>3. tcb' = [tcb EXCEPT ![s] = [tcb[s] EXCEPT !.port = port, !.state = "listen"]]
  BY <1>1 DEF tcp_listen, TcbOK
<1>4. TcbOK'
  BY <1>1, <1>2, <1>3 DEF TcbOK
<1>5. TimersOK' /\ FifoOK' /\ StackOK' /\ ToldOK' /\ FinOK'
  BY <1>1 DEF tcp_listen, TimersOK, FifoOK, StackOK, ToldOK, FinOK
<1>6. QED
  BY <1>4, <1>5, TypePartsNext

LEMMA ResetTyped ==
  ASSUME NEW t \in Tcb, NEW remote \in Remotes, NEW rtx \in Int
  PROVE  [Reset(t) EXCEPT !.remote = remote, !.rtx = rtx] \in Tcb
<1>1. "closed" \in TcpStates
  BY DEF TcpStates
<1>2. Reset(t) \in Tcb
  BY <1>1, ZeroTcbTyped DEF Reset, Tcb
<1>3. QED
  BY <1>2 DEF Tcb

LEMMA ConnectTyped ==
  ASSUME TypeOK, NEW s \in Sockets, NEW remote \in Remotes, tcp_connect(s, remote)
  PROVE  TypeOK'
<1>1. TcbOK /\ TimersOK /\ FifoOK /\ StackOK /\ ToldOK /\ FinOK
  BY TypeParts
<1> DEFINE pair == FifoPair
           t == [tcb[s] EXCEPT !.port = FindUnusedPort, !.rx = pair[1], !.tx = pair[2]]
<1>2. pair[1] \in Fifos \union {NoFifo} /\ pair[2] \in Fifos \union {NoFifo}
  BY FifoPairFound DEF FreeFifos
<1>3. t \in Tcb
  <2>1. tcb[s] \in Tcb /\ FindUnusedPort \in Ports
    BY <1>1, UnusedPortFound DEF TcbOK, Ports
  <2>2. QED
    BY <1>2, <2>1 DEF Tcb
<1>4. FinOK' /\ StackOK'
  BY <1>1 DEF tcp_connect, FinOK, StackOK
<1> HIDE DEF t, pair
<1>5. CASE NoFifo \in {pair[1], pair[2]}
  <2>1. tcb' = [tcb EXCEPT ![s] = t] /\ UNCHANGED <<timers, fifo, told>>
    BY <1>5 DEF tcp_connect, t, pair
  <2>2. TcbOK' /\ TimersOK' /\ FifoOK' /\ ToldOK'
    BY <1>1, <1>3, <2>1 DEF TcbOK, TimersOK, FifoOK, ToldOK
  <2>3. QED
    BY <1>4, <2>2, TypePartsNext
<1>6. CASE NoFifo \notin {pair[1], pair[2]}
  <2>1. /\ tcb' = [tcb EXCEPT ![s] = [Reset(t) EXCEPT !.remote = remote, !.rtx = RtxSyn]]
        /\ fifo' = [fifo EXCEPT ![pair[1]] = 0, ![pair[2]] = 0]
        /\ ArmTimer(t)
        /\ told' = [told EXCEPT ![s] = "opening"]
    BY <1>6 DEF tcp_connect, t, pair
  <2>2. TcbOK'
    <3>1. RtxSyn \in Int
      BY RtxAssumption
    <3>2. [Reset(t) EXCEPT !.remote = remote, !.rtx = RtxSyn] \in Tcb
      BY <1>3, <3>1, ResetTyped
    <3>3. QED
      BY <1>1, <2>1, <3>2 DEF TcbOK
  <2>3. TimersOK'
    BY <1>1, <2>1, ArmTimerTyped
  <2>4. FifoOK' /\ ToldOK'
    <3>1. 0 \in 0 .. FifoSize \union {Unowned}
      BY SizesAssumption
    <3>2. FifoOK'
      BY <1>1, <2>1, <3>1 DEF FifoOK
    <3>3. ToldOK'
      BY <1>1, <2>1 DEF ToldOK
    <3>4. QED
      BY <3>2, <3>3
  <2>5. QED
    BY <1>4, <2>2, <2>3, <2>4, TypePartsNext
<1>7. QED
  BY <1>5, <1>6

LEMMA CloseTyped ==
  ASSUME TypeOK, NEW s \in Sockets, tcp_close(s)
  PROVE  TypeOK'
<1>1. TcbOK /\ StackOK
  BY TypeParts
<1>2. "start_close" \in TcpStates /\ "closed" \in TcpStates
  BY DEF TcpStates
<1> DEFINE t == [tcb[s] EXCEPT !.state = "start_close"]
<1>3. t \in Tcb /\ stack \in Seq(Frame)
  BY <1>1, <1>2, TcbFieldsTyped DEF TcbOK, StackOK
<1>4. CASE tcp_timeout(s, t, stack)
  BY <1>3, <1>4, TimeoutTyped
<1>5. CASE /\ tcb' = [tcb EXCEPT ![s].state = "closed"]
           /\ UNCHANGED <<timers, fifo, stack, told, finSent>>
  BY <1>2, <1>5, StateSetTyped
<1>6. QED
  BY <1>4, <1>5 DEF tcp_close, tcp_timeout

LEMMA FreeTyped ==
  ASSUME TypeOK, NEW s \in Sockets, TcbFree(s), stack' \in Seq(Frame)
  PROVE  TypeOK'
<1>1. TcbOK /\ TimersOK /\ FifoOK /\ StackOK /\ ToldOK /\ FinOK
  BY TypeParts
<1>2. TcbOK' /\ TimersOK' /\ FifoOK' /\ ToldOK' /\ FinOK'
  BY <1>1, TcbFreeTyped
<1>3. StackOK'
  BY DEF StackOK
<1>4. QED
  BY <1>2, <1>3, TypePartsNext

LEMMA ReadTyped ==
  ASSUME TypeOK, NEW s \in Sockets, NEW n \in 1 .. FifoSize, tcp_read(s, n)
  PROVE  TypeOK'
<1>1. TcbOK /\ TimersOK /\ FifoOK /\ StackOK /\ ToldOK /\ FinOK
  BY TypeParts
<1>2. FifoOK'
  BY <1>1, SizesAssumption DEF tcp_read, FifoLength, FifoOK, Least, Unowned, TcbOK, Tcb
<1>3. TcbOK' /\ TimersOK' /\ StackOK' /\ ToldOK' /\ FinOK'
  BY <1>1 DEF tcp_read, TcbOK, TimersOK, StackOK, ToldOK, FinOK
<1>4. QED
  BY <1>2, <1>3, TypePartsNext

LEMMA WriteTyped ==
  ASSUME TypeOK, NEW s \in Sockets, NEW n \in 1 .. FifoSize, tcp_write(s, n)
  PROVE  TypeOK'
<1>1. TcbOK /\ TimersOK /\ FifoOK /\ StackOK /\ ToldOK /\ FinOK
  BY TypeParts
<1>2. tcb[s] \in Tcb /\ RtxData \in Int
  BY <1>1, RtxAssumption DEF TcbOK
<1>3. TcbOK'
  <2>1. [tcb[s] EXCEPT !.rtx = RtxData] \in Tcb
    BY <1>2, TcbFieldsTyped
  <2>2. tcb' = [tcb EXCEPT ![s] = [tcb[s] EXCEPT !.rtx = RtxData]]
    BY <1>1 DEF tcp_write, TcbOK
  <2>3. QED
    BY <1>1, <2>1, <2>2 DEF TcbOK
<1>4. FifoOK'
  <2>1. Least(Queued(tcb[s]) + n, FifoSize) \in 0 .. FifoSize
    BY <1>1, <1>2, QueuedTyped, SizesAssumption DEF Least
  <2>2. QED
    BY <1>1, <2>1 DEF tcp_write, FifoOK
<1>5. TimersOK'
  BY <1>1, ArmTimerTyped DEF tcp_write
<1>6. StackOK' /\ ToldOK' /\ FinOK'
  BY <1>1 DEF tcp_write, StackOK, ToldOK, FinOK
<1>7. QED
  BY <1>3, <1>4, <1>5, <1>6, TypePartsNext

LEMMA ApiTyped ==
  ASSUME TypeOK, Api
  PROVE  TypeOK'
<1>1. ASSUME NEW app \in Apps, tcp_socket_alloc(app)
      PROVE  TypeOK'
  BY <1>1, SocketAllocTyped
<1>2. ASSUME NEW s \in Sockets, NEW port \in ListenPorts, tcp_listen(s, port)
      PROVE  TypeOK'
  BY <1>2, ListenTyped
<1>3. ASSUME NEW s \in Sockets, NEW remote \in Remotes, tcp_connect(s, remote)
      PROVE  TypeOK'
  BY <1>3, ConnectTyped
<1>4. ASSUME NEW s \in Sockets, tcp_accept(s)
      PROVE  TypeOK'
  <2>1. "accepted" \in TcpStates
    BY DEF TcpStates
  <2>2. QED
    BY <1>4, <2>1, StateSetTyped DEF tcp_accept
<1>5. ASSUME NEW s \in Sockets, tcp_close(s)
      PROVE  TypeOK'
  BY <1>5, CloseTyped
<1>6. ASSUME NEW s \in Sockets, tcp_socket_free(s)
      PROVE  TypeOK'
  BY <1>6, FreeTyped, TypeParts DEF tcp_socket_free, StackOK
<1>7. ASSUME NEW s \in Sockets, NEW n \in 1 .. FifoSize, tcp_read(s, n) \/ tcp_write(s, n)
      PROVE  TypeOK'
  BY <1>7, ReadTyped, WriteTyped
<1>8. QED
  BY <1>1, <1>2, <1>3, <1>4, <1>5, <1>6, <1>7 DEF Api

-----------------------------------------------------------------------------
(* A received segment.                                                     *)

LEMMA ResumeTyped ==
  ASSUME NEW label \in {"arm_idle", "acked", "rearm", "text", "received", "fin"},
         NEW s \in Sockets, NEW len \in Nat, NEW fin \in BOOLEAN, NEW below \in Seq(Frame)
  PROVE  /\ Resume(label, s, len, fin) \in Seq(Frame)
         /\ Resume(label, s, len, fin) \o below \in Seq(Frame)
<1>1. Resume(label, s, len, fin) \in Seq(Frame)
  BY FramesTyped
<1>2. QED
  BY <1>1, ConcatProperties

\* A step that closes the connection, or arms its timer, and no more.
LEMMA CloseStepTyped ==
  ASSUME TypeOK, NEW s \in Sockets, NEW t \in Tcb, NEW event \in Events,
         NEW below \in Seq(Frame), TcbClose(s, t, event, below), UNCHANGED finSent, FifoOK'
  PROVE  TypeOK'
<1>1. TcbOK /\ TimersOK /\ ToldOK /\ FinOK
  BY TypeParts
<1>2. TcbOK' /\ TimersOK' /\ StackOK' /\ ToldOK'
  BY <1>1, TcbCloseTyped
<1>3. FinOK'
  BY <1>1 DEF FinOK
<1>4. QED
  BY <1>2, <1>3, TypePartsNext

LEMMA RearmStepTyped ==
  ASSUME TypeOK, NEW s \in Sockets, NEW t \in Tcb, NEW below \in Seq(Frame),
         Rearmed(s, t, below), UNCHANGED <<fifo, finSent>>
  PROVE  TypeOK'
<1>1. TcbOK /\ TimersOK /\ FifoOK /\ ToldOK /\ FinOK
  BY TypeParts
<1>2. TcbOK' /\ TimersOK' /\ StackOK' /\ ToldOK'
  BY <1>1, RearmedTyped
<1>3. FifoOK' /\ FinOK'
  BY <1>1 DEF FifoOK, FinOK
<1>4. QED
  BY <1>2, <1>3, TypePartsNext

LEMMA ListenSynTyped ==
  ASSUME TypeOK, NEW l \in Sockets, NEW remote \in Remotes, RcvListenSyn(l, remote)
  PROVE  TypeOK'
<1>1. TcbOK /\ TimersOK /\ FifoOK /\ StackOK /\ ToldOK /\ FinOK
  BY TypeParts
<1> DEFINE pair == FifoPair
           timer == AllocHandle(timers)
           new == Lowest(UnusedSockets)
<1>2. pair[1] \in Fifos \union {NoFifo} /\ pair[2] \in Fifos \union {NoFifo}
  BY FifoPairFound DEF FreeFifos
<1>3. new \in Sockets
  BY UnusedSocketFound DEF RcvListenSyn
<1>4. timer \in Timers \union {NoTimer}
  BY AllocHandleFree DEF FreeSlots
<1>5. tcb[l] \in Tcb /\ tcb[l].callback \in Apps \union {NoApp}
      /\ tcb[l].port \in Ports \union {NoPort}
  BY <1>1 DEF TcbOK, Tcb
<1>6. TcbOK'
  <2> DEFINE t == [ZeroTcb EXCEPT !.state = "not_accepted", !.callback = tcb[l].callback,
                                  !.port = tcb[l].port, !.remote = remote,
                                  !.timer = timer, !.rx = pair[1], !.tx = pair[2]]
  <2>1. "not_accepted" \in TcpStates
    BY DEF TcpStates
  <2>2. t \in Tcb
    BY <1>2, <1>4, <1>5, <2>1, ZeroTcbTyped DEF Tcb
  <2>3. tcb' = [tcb EXCEPT ![new] = t]
    BY DEF RcvListenSyn
  <2>4. QED
    BY <1>1, <1>3, <2>2, <2>3 DEF TcbOK
<1>7. TimersOK'
  <2>1. Alloc(timers, "tcp_timeout") \in TcpPool
    BY <1>1, AllocType DEF TimersOK, TcpPool
  <2>2. SetArg(Alloc(timers, "tcp_timeout"), timer, new) \in TcpPool
    BY <1>3, <2>1, SetArgType DEF TcpPool
  <2>3. QED
    BY <2>2 DEF RcvListenSyn, TimersOK
<1>8. FifoOK'
  <2>1. 0 \in 0 .. FifoSize \union {Unowned}
    BY SizesAssumption
  <2>2. QED
    BY <1>1, <2>1 DEF RcvListenSyn, FifoOK
<1>9. StackOK' /\ ToldOK'
  <2>1. [at |-> "incoming", sock |-> new, listener |-> l] \in Frame
    BY <1>3, FramesTyped
  <2>2. <<[at |-> "incoming", sock |-> new, listener |-> l]>> \in Seq(Frame)
    BY <2>1
  <2>3. "incoming" \in Events
    BY DEF Events
  <2>4. QED
    BY <1>1, <1>3, <1>5, <2>2, <2>3, RaiseTyped DEF RcvListenSyn
<1>10. FinOK'
  BY <1>1 DEF RcvListenSyn, FinOK
<1>11. QED
  BY <1>6, <1>7, <1>8, <1>9, <1>10, TypePartsNext

LEMMA SynSentTyped ==
  ASSUME TypeOK, NEW s \in Sockets,
         \/ RcvSynSentSynAck(s) \/ RcvSynSentSyn(s) \/ RcvSynSentReset(s) \/ RcvSynSentOther(s)
  PROVE  TypeOK'
<1>1. TcbOK /\ TimersOK /\ FifoOK /\ StackOK /\ ToldOK /\ FinOK
  BY TypeParts
<1>2. tcb[s] \in Tcb /\ tcb[s].callback \in Apps \union {NoApp}
  BY <1>1 DEF TcbOK, Tcb
<1>3. "error" \in Events /\ "established" \in Events /\ <<>> \in Seq(Frame)
  BY DEF Events
<1>4. "established" \in TcpStates /\ "syn_received" \in TcpStates
  BY DEF TcpStates
<1>5. ASSUME TcbClose(s, tcb[s], "error", <<>>), UNCHANGED <<fifo, finSent>>
      PROVE  TypeOK'
  <2>1. FifoOK'
    BY <1>1, <1>5 DEF FifoOK
  <2>2. QED
    BY <1>2, <1>3, <1>5, <2>1, CloseStepTyped
<1>6. CASE RcvSynSentSynAck(s)
  <2>1. ASSUME tcb' = [tcb EXCEPT ![s].state = "established"],
               timers' = Stop(timers, tcb[s].timer),
               Raise(s, tcb[s].callback, "established", Resume("arm_idle", s, 0, FALSE)),
               UNCHANGED <<fifo, finSent>>
        PROVE  TypeOK'
    <3>1. TcbOK'
      <4>1. [tcb[s] EXCEPT !.state = "established"] \in Tcb
        BY <1>2, <1>4, TcbFieldsTyped
      <4>2. QED
        BY <1>1, <2>1, <4>1 DEF TcbOK
    <3>2. TimersOK'
      BY <1>1, <2>1, StopType DEF TimersOK, TcpPool
    <3>3. Resume("arm_idle", s, 0, FALSE) \in Seq(Frame)
      <4>1. 0 \in Nat /\ FALSE \in BOOLEAN
        OBVIOUS
      <4>2. QED
        BY <1>3, <4>1, FramesTyped
    <3>4. StackOK' /\ ToldOK'
      BY <1>1, <1>2, <1>3, <2>1, <3>3, RaiseTyped
    <3>5. FifoOK' /\ FinOK'
      BY <1>1, <2>1 DEF FifoOK, FinOK
    <3>6. QED
      BY <3>1, <3>2, <3>4, <3>5, TypePartsNext
  <2>2. QED
    BY <1>5, <1>6, <2>1 DEF RcvSynSentSynAck
<1>7. CASE RcvSynSentSyn(s)
  <2>1. RtxSynAck \in Int
    BY RtxAssumption
  <2>2. [tcb[s] EXCEPT !.state = "syn_received", !.rtx = RtxSynAck] \in Tcb
    BY <1>2, <1>4, <2>1 DEF Tcb
  <2>3. QED
    BY <1>3, <1>5, <1>7, <2>2, RearmStepTyped DEF RcvSynSentSyn
<1>8. CASE RcvSynSentReset(s)
  BY <1>5, <1>8 DEF RcvSynSentReset
<1>9. CASE RcvSynSentOther(s)
  <2>1. TimersOK'
    BY <1>1, <1>9, StopType DEF RcvSynSentOther, TimersOK, TcpPool
  <2>2. TcbOK' /\ FifoOK' /\ StackOK' /\ ToldOK' /\ FinOK'
    BY <1>1, <1>9 DEF RcvSynSentOther, TcbOK, FifoOK, StackOK, ToldOK, FinOK
  <2>3. QED
    BY <2>1, <2>2, TypePartsNext
<1>10. QED
  BY <1>6, <1>7, <1>8, <1>9

LEMMA ResetSegmentTyped ==
  ASSUME TypeOK, NEW s \in Sockets, RcvReset(s) \/ RcvLastAck(s)
  PROVE  TypeOK'
<1>1. TcbOK /\ FifoOK
  BY TypeParts
<1>2. tcb[s] \in Tcb
  BY <1>1 DEF TcbOK
<1>3. "reset" \in Events /\ "closed" \in Events /\ <<>> \in Seq(Frame)
  BY DEF Events
<1>4. FifoOK'
  BY <1>1 DEF RcvReset, RcvLastAck, FifoOK
<1>5. QED
  BY <1>2, <1>3, <1>4, CloseStepTyped DEF RcvReset, RcvLastAck

LEMMA AckBeyondTyped ==
  ASSUME TypeOK, NEW s \in Sockets, RcvAckBeyond(s)
  PROVE  TypeOK'
<1>1. TcbOK /\ TimersOK /\ FifoOK /\ StackOK /\ ToldOK /\ FinOK
  BY TypeParts
<1>2. tcb[s] \in Tcb
  BY <1>1 DEF TcbOK
<1>3. FifoOK' /\ FinOK'
  BY <1>1 DEF RcvAckBeyond, FifoOK, FinOK
<1>4. ASSUME NEW n \in SentUpTo(tcb[s]), tcb' = [tcb EXCEPT ![s].seqNext = n],
             UNCHANGED <<timers, stack, told>>
      PROVE  TypeOK'
  <2>1. n \in Nat
    BY <1>1, <1>2, QueuedTyped
  <2>2. [tcb[s] EXCEPT !.seqNext = n] \in Tcb
    BY <1>2, <2>1, TcbFieldsTyped
  <2>3. TcbOK'
    BY <1>1, <1>4, <2>2 DEF TcbOK
  <2>4. TimersOK' /\ StackOK' /\ ToldOK'
    BY <1>1, <1>4 DEF TimersOK, StackOK, ToldOK
  <2>5. QED
    BY <1>3, <2>3, <2>4, TypePartsNext
<1>5. ASSUME TcbClose(s, tcb[s], "error", <<>>)
      PROVE  TypeOK'
  <2>1. "error" \in Events /\ <<>> \in Seq(Frame)
    BY DEF Events
  <2>2. UNCHANGED finSent
    BY DEF RcvAckBeyond
  <2>3. QED
    BY <1>2, <1>3, <1>5, <2>1, <2>2, CloseStepTyped
<1>6. QED
  BY <1>4, <1>5 DEF RcvAckBeyond

LEMMA AckTyped ==
  ASSUME TypeOK, NEW s \in Sockets, NEW len \in Lengths, NEW fin \in BOOLEAN,
         \/ RcvSynReceivedAck(s, len, fin)
         \/ RcvAckNothing(s, len, fin)
         \/ RcvAckOfFin(s, len, fin)
  PROVE  TypeOK'
<1>1. TcbOK /\ TimersOK /\ FifoOK /\ StackOK /\ ToldOK /\ FinOK
  BY TypeParts
<1>2. tcb[s] \in Tcb /\ tcb[s].callback \in Apps \union {NoApp}
  BY <1>1 DEF TcbOK, Tcb
<1>3. len \in Nat
  BY RtxAssumption DEF Lengths
<1>4. Resume("arm_idle", s, len, fin) \in Seq(Frame)
      /\ Resume("text", s, len, fin) \in Seq(Frame)
  BY <1>3, FramesTyped
<1>5. "established" \in TcpStates /\ "fin_wait_2" \in TcpStates /\ "established" \in Events
  BY DEF TcpStates, Events
<1>6. CASE RcvSynReceivedAck(s, len, fin)
  <2>1. TcbOK'
    <3>1. [tcb[s] EXCEPT !.state = "established"] \in Tcb
      BY <1>2, <1>5, TcbFieldsTyped
    <3>2. QED
      BY <1>1, <1>6, <3>1 DEF RcvSynReceivedAck, TcbOK
  <2>2. StackOK' /\ ToldOK'
    BY <1>1, <1>2, <1>4, <1>5, <1>6, RaiseTyped DEF RcvSynReceivedAck
  <2>3. TimersOK' /\ FifoOK' /\ FinOK'
    BY <1>1, <1>6 DEF RcvSynReceivedAck, TimersOK, FifoOK, FinOK
  <2>4. QED
    BY <2>1, <2>2, <2>3, TypePartsNext
<1>7. CASE RcvAckNothing(s, len, fin)
  <2>1. StackOK' /\ ToldOK'
    BY <1>1, <1>4, <1>7, GoOnTyped DEF RcvAckNothing
  <2>2. TcbOK' /\ TimersOK' /\ FifoOK' /\ FinOK'
    BY <1>1, <1>7 DEF RcvAckNothing, TcbOK, TimersOK, FifoOK, FinOK
  <2>3. QED
    BY <2>1, <2>2, TypePartsNext
<1>8. CASE RcvAckOfFin(s, len, fin)
  <2>1. [tcb[s] EXCEPT !.state = "fin_wait_2"] \in Tcb
    BY <1>2, <1>5, TcbFieldsTyped
  <2>2. QED
    BY <1>4, <1>8, <2>1, RearmStepTyped DEF RcvAckOfFin
<1>9. QED
  BY <1>6, <1>7, <1>8

LEMMA AckDataTyped ==
  ASSUME TypeOK, NEW s \in Sockets, NEW len \in Lengths, NEW fin \in BOOLEAN,
         NEW n \in 1 .. FifoSize, RcvAckData(s, n, len, fin)
  PROVE  TypeOK'
<1>1. TcbOK /\ TimersOK /\ FifoOK /\ StackOK /\ ToldOK /\ FinOK
  BY TypeParts
<1>2. tcb[s] \in Tcb /\ tcb[s].callback \in Apps \union {NoApp}
  BY <1>1 DEF TcbOK, Tcb
<1>3. TcbOK'
  <2>1. tcb[s].seqNext - n \in Nat /\ RtxData \in Int
    BY <1>2, RtxAssumption DEF RcvAckData, Tcb
  <2>2. [tcb[s] EXCEPT !.seqNext = @ - n, !.rtx = RtxData] \in Tcb
    BY <1>2, <2>1 DEF Tcb
  <2>3. tcb' = [tcb EXCEPT ![s] = [tcb[s] EXCEPT !.seqNext = @ - n, !.rtx = RtxData]]
    BY <1>1 DEF RcvAckData, TcbOK
  <2>4. QED
    BY <1>1, <2>2, <2>3 DEF TcbOK
<1>4. FifoOK'
  <2>1. \A f \in Fifos : fifo[f] - Least(n, fifo[f]) \in 0 .. FifoSize
    BY <1>1, SizesAssumption DEF FifoOK, Least, Unowned
  <2>2. QED
    BY <1>1, <2>1 DEF RcvAckData, FifoOK
<1>5. StackOK' /\ ToldOK'
  <2>1. len \in Nat /\ "data_acked" \in Events
    BY RtxAssumption DEF Lengths, Events
  <2>2. Resume("acked", s, len, fin) \in Seq(Frame)
    BY <2>1, FramesTyped
  <2>3. QED
    BY <1>1, <1>2, <2>1, <2>2, RaiseTyped DEF RcvAckData
<1>6. TimersOK' /\ FinOK'
  BY <1>1 DEF RcvAckData, TimersOK, FinOK
<1>7. QED
  BY <1>3, <1>4, <1>5, <1>6, TypePartsNext

LEMMA PacketTyped ==
  ASSUME TypeOK, tcp_handle_packet
  PROVE  TypeOK'
<1>1. PICK s \in Sockets :
        \/ \E remote \in Remotes : RcvListenSyn(s, remote)
        \/ RcvSynSentSynAck(s) \/ RcvSynSentSyn(s) \/ RcvSynSentReset(s) \/ RcvSynSentOther(s)
        \/ RcvReset(s) \/ RcvLastAck(s)
        \/ RcvAckBeyond(s)
        \/ \E len \in Lengths, fin \in BOOLEAN :
             \/ RcvSynReceivedAck(s, len, fin)
             \/ RcvAckNothing(s, len, fin)
             \/ RcvAckOfFin(s, len, fin)
             \/ \E n \in 1 .. FifoSize : RcvAckData(s, n, len, fin)
  BY DEF tcp_handle_packet
<1>2. CASE \E remote \in Remotes : RcvListenSyn(s, remote)
  BY <1>2, ListenSynTyped
<1>3. CASE RcvSynSentSynAck(s) \/ RcvSynSentSyn(s) \/ RcvSynSentReset(s) \/ RcvSynSentOther(s)
  BY <1>3, SynSentTyped
<1>4. CASE RcvReset(s) \/ RcvLastAck(s)
  BY <1>4, ResetSegmentTyped
<1>5. CASE RcvAckBeyond(s)
  BY <1>5, AckBeyondTyped
<1>6. ASSUME NEW len \in Lengths, NEW fin \in BOOLEAN,
             \/ RcvSynReceivedAck(s, len, fin)
             \/ RcvAckNothing(s, len, fin)
             \/ RcvAckOfFin(s, len, fin)
      PROVE  TypeOK'
  BY <1>6, AckTyped
<1>7. ASSUME NEW len \in Lengths, NEW fin \in BOOLEAN, NEW n \in 1 .. FifoSize,
             RcvAckData(s, n, len, fin)
      PROVE  TypeOK'
  BY <1>7, AckDataTyped
<1>8. QED
  BY <1>1, <1>2, <1>3, <1>4, <1>5, <1>6, <1>7

-----------------------------------------------------------------------------
(* The rest of a handler, after a callback.                                *)

\* The frames under the innermost one, and what a segment's frame holds.
LEMMA SegmentTyped ==
  ASSUME TypeOK, NEW label \in {"arm_idle", "acked", "rearm", "text", "received", "fin"},
         At(label)
  PROVE  /\ Top.sock \in Sockets /\ Top.len \in Nat /\ Top.fin \in BOOLEAN
         /\ Tail(stack) \in Seq(Frame)
         /\ tcb[Top.sock] \in Tcb /\ tcb[Top.sock].callback \in Apps \union {NoApp}
         /\ \A next \in {"text", "rearm", "received", "fin"}, len \in Nat :
              Resume(next, Top.sock, len, Top.fin) \o Tail(stack) \in Seq(Frame)
<1>1. StackOK /\ TcbOK /\ stack # <<>>
  BY TypeParts DEF At
<1>2. Top \in SegmentFrame /\ Tail(stack) \in Seq(Frame)
  BY <1>1, TopTyped DEF Top
<1>3. Top.sock \in Sockets /\ Top.len \in Nat /\ Top.fin \in BOOLEAN
  BY <1>2 DEF SegmentFrame
<1>4. tcb[Top.sock] \in Tcb /\ tcb[Top.sock].callback \in Apps \union {NoApp}
  BY <1>1, <1>3 DEF TcbOK, Tcb
<1>5. ASSUME NEW next \in {"text", "rearm", "received", "fin"}, NEW len \in Nat
      PROVE  Resume(next, Top.sock, len, Top.fin) \o Tail(stack) \in Seq(Frame)
  BY <1>2, <1>3, ResumeTyped
<1>6. QED
  BY <1>2, <1>3, <1>4, <1>5

\* The steps that only arm the timer, or only go on.
LEMMA OnlyArmTyped ==
  ASSUME TypeOK, NEW t, NEW below \in Seq(Frame), ArmTimer(t) \/ UNCHANGED timers,
         GoOn(below), UNCHANGED <<tcb, fifo, finSent>>
  PROVE  TypeOK'
<1>1. TcbOK /\ TimersOK /\ FifoOK /\ ToldOK /\ FinOK
  BY TypeParts
<1>2. TimersOK'
  <2>1. CASE ArmTimer(t)
    BY <1>1, <2>1, ArmTimerTyped
  <2>2. CASE UNCHANGED timers
    BY <1>1, <2>2 DEF TimersOK
  <2>3. QED
    BY <2>1, <2>2
<1>3. StackOK' /\ ToldOK'
  BY <1>1, GoOnTyped
<1>4. TcbOK' /\ FifoOK' /\ FinOK'
  BY <1>1 DEF TcbOK, FifoOK, FinOK
<1>5. QED
  BY <1>2, <1>3, <1>4, TypePartsNext

LEMMA IncomingTyped ==
  ASSUME TypeOK, Incoming
  PROVE  TypeOK'
<1>1. TcbOK /\ TimersOK /\ FifoOK /\ StackOK /\ ToldOK /\ FinOK
  BY TypeParts
<1>2. Head(stack) \in IncomingFrame /\ Tail(stack) \in Seq(Frame)
  BY <1>1, TopTyped DEF Incoming, At
<1> DEFINE new == Head(stack).sock
           l == Head(stack).listener
<1>3. new \in Sockets /\ l \in Sockets
  BY <1>2 DEF IncomingFrame
<1>4. /\ tcb[new] \in Tcb /\ tcb[l] \in Tcb
      /\ tcb[l].callback \in Apps \union {NoApp}
  BY <1>1, <1>3 DEF TcbOK, Tcb
<1> HIDE DEF new, l
<1>5. CASE IncomingRefused(new)
  BY <1>2, <1>3, <1>5, FreeTyped DEF IncomingRefused
<1>6. CASE IncomingAccepted(new, l)
  <2>1. FifoOK' /\ FinOK'
    BY <1>1, <1>6 DEF IncomingAccepted, FifoOK, FinOK
  <2>2. CASE /\ tcb' = [tcb EXCEPT ![new].state = "syn_received", ![new].rtx = RtxSynAck]
             /\ ArmTimer(tcb[new])
             /\ GoOn(Tail(stack))
    <3>1. RtxSynAck \in Int /\ "syn_received" \in TcpStates
      BY RtxAssumption DEF TcpStates
    <3>2. [tcb[new] EXCEPT !.state = "syn_received", !.rtx = RtxSynAck] \in Tcb
      BY <1>4, <3>1 DEF Tcb
    <3>3. tcb' = [tcb EXCEPT ![new] =
                    [tcb[new] EXCEPT !.state = "syn_received", !.rtx = RtxSynAck]]
      BY <1>1, <1>3, <2>2 DEF TcbOK
    <3>4. TcbOK'
      BY <1>1, <1>3, <3>2, <3>3 DEF TcbOK
    <3>5. TimersOK'
      BY <1>1, <2>2, ArmTimerTyped
    <3>6. StackOK' /\ ToldOK'
      BY <1>1, <1>2, <2>2, GoOnTyped
    <3>7. QED
      BY <2>1, <3>4, <3>5, <3>6, TypePartsNext
  <2>3. CASE /\ tcb' = [tcb EXCEPT ![l].state = "closed"]
             /\ timers' = Stop(timers, tcb[l].timer)
             /\ Raise(new, tcb[l].callback, "error",
                      <<[at |-> "drop", sock |-> new]>> \o Tail(stack))
    <3>1. "closed" \in TcpStates /\ "error" \in Events
      BY DEF TcpStates, Events
    <3>2. TcbOK'
      <4>1. [tcb[l] EXCEPT !.state = "closed"] \in Tcb
        BY <1>4, <3>1, TcbFieldsTyped
      <4>2. QED
        BY <1>1, <1>3, <2>3, <4>1 DEF TcbOK
    <3>3. TimersOK'
      BY <1>1, <2>3, StopType DEF TimersOK, TcpPool
    <3>4. <<[at |-> "drop", sock |-> new]>> \o Tail(stack) \in Seq(Frame)
      <4>1. [at |-> "drop", sock |-> new] \in Frame
        BY <1>3, FramesTyped
      <4>2. QED
        BY <1>2, <4>1, ConcatProperties
    <3>5. StackOK' /\ ToldOK'
      BY <1>1, <1>3, <1>4, <2>3, <3>1, <3>4, RaiseTyped
    <3>6. QED
      BY <2>1, <3>2, <3>3, <3>5, TypePartsNext
  <2>4. QED
    BY <1>6, <2>2, <2>3 DEF IncomingAccepted
<1>7. QED
  BY <1>5, <1>6 DEF Incoming, new, l

LEMMA AckedTyped ==
  ASSUME TypeOK, Acked
  PROVE  TypeOK'
<1>1. TcbOK /\ FifoOK
  BY TypeParts
<1> DEFINE s == Top.sock
           text == Resume("text", s, Top.len, Top.fin) \o Tail(stack)
           rearm == Resume("rearm", s, Top.len, Top.fin) \o Tail(stack)
<1>2. s \in Sockets /\ tcb[s] \in Tcb /\ text \in Seq(Frame) /\ rearm \in Seq(Frame)
  <2>1. At("acked")
    BY DEF Acked
  <2>2. QED
    BY <2>1, SegmentTyped
<1>3. UNCHANGED <<fifo, finSent>> /\ FifoOK'
  BY <1>1 DEF Acked, FifoOK
<1>4. CASE \E n \in SentUpTo(tcb[s]) : Rearmed(s, [tcb[s] EXCEPT !.seqNext = n], text)
  <2>1. PICK n \in SentUpTo(tcb[s]) : Rearmed(s, [tcb[s] EXCEPT !.seqNext = n], text)
    BY <1>4
  <2>2. n \in Nat
    BY <1>1, <1>2, QueuedTyped
  <2>3. [tcb[s] EXCEPT !.seqNext = n] \in Tcb
    BY <1>2, <2>2, TcbFieldsTyped
  <2>4. QED
    BY <1>2, <1>3, <2>1, <2>3, RearmStepTyped
<1>5. CASE TcbClose(s, tcb[s], "error", rearm)
  <2>1. "error" \in Events
    BY DEF Events
  <2>2. QED
    BY <1>2, <1>3, <1>5, <2>1, CloseStepTyped
<1>6. CASE Rearmed(s, tcb[s], text)
  BY <1>2, <1>3, <1>6, RearmStepTyped
<1>7. QED
  BY <1>4, <1>5, <1>6 DEF Acked

LEMMA TextQueuedTyped ==
  ASSUME TypeOK, TextQueued
  PROVE  TypeOK'
<1>1. TcbOK /\ TimersOK /\ FifoOK /\ StackOK /\ ToldOK /\ FinOK
  BY TypeParts
<1> DEFINE s == Top.sock
           t == tcb[s]
           n == Least(Top.len, FifoSpace(t.rx))
           received == Resume("received", s, Top.len - n, Top.fin) \o Tail(stack)
<1>2. At("text")
  BY DEF TextQueued
<1>3. /\ s \in Sockets /\ t \in Tcb /\ t.callback \in Apps \union {NoApp}
      /\ Top.len \in Nat /\ Tail(stack) \in Seq(Frame)
  BY <1>2, SegmentTyped
<1>4. t.rx \in Fifos \union {NoFifo}
  BY <1>3 DEF Tcb
<1>5. n \in Int /\ n > 0 /\ n <= Top.len /\ n <= FifoSpace(t.rx)
  <2>1. FifoSpace(t.rx) \in Int
    BY <1>1, <1>4, SizesAssumption DEF FifoSpace, FifoOK, Unowned
  <2>2. n > 0
    BY DEF TextQueued
  <2>3. QED
    BY <1>3, <2>1, <2>2 DEF Least
<1>6. received \in Seq(Frame)
  <2>1. Top.len - n \in Nat
    BY <1>3, <1>5
  <2>2. QED
    BY <1>2, <2>1, SegmentTyped
<1>7. FifoOK'
  <2>1. fifo' = [fifo EXCEPT ![t.rx] = @ + n]
    BY DEF TextQueued
  <2>2. t.rx \in Fifos => fifo[t.rx] + n \in 0 .. FifoSize
    BY <1>1, <1>5, SizesAssumption, SMTT(30) DEF FifoSpace, FifoOK, Fifos, NoFifo, Unowned
  <2>3. QED
    BY <1>1, <2>1, <2>2 DEF FifoOK
<1>8. UNCHANGED finSent /\ FinOK'
  BY <1>1 DEF TextQueued, FinOK
<1> HIDE DEF n, received
<1>9. CASE TcbClose(s, t, "error", Tail(stack))
  <2>1. "error" \in Events
    BY DEF Events
  <2>2. QED
    BY <1>3, <1>7, <1>8, <1>9, <2>1, CloseStepTyped
<1>10. CASE /\ \E upTo \in IF Top.fin THEN {t.seqNext} ELSE SentUpTo(t) :
                 tcb' = [tcb EXCEPT ![s].seqNext = upTo]
            /\ IF t.state = "established" /\ Queued(t) < 1
               THEN ArmTimer(t) ELSE UNCHANGED timers
            /\ Raise(s, t.callback, "data_received", received)
  <2>1. PICK upTo \in IF Top.fin THEN {t.seqNext} ELSE SentUpTo(t) :
          tcb' = [tcb EXCEPT ![s].seqNext = upTo]
    BY <1>10
  <2>2. upTo \in Nat
    <3>1. t.seqNext \in Nat
      BY <1>3 DEF Tcb
    <3>2. \A m \in SentUpTo(t) : m \in Nat
      BY <1>1, <1>3, QueuedTyped
    <3>3. QED
      BY <3>1, <3>2
  <2>3. TcbOK'
    <3>1. [t EXCEPT !.seqNext = upTo] \in Tcb
      BY <1>3, <2>2, TcbFieldsTyped
    <3>2. QED
      BY <1>1, <2>1, <3>1 DEF TcbOK
  <2>4. TimersOK'
    <3>1. ArmTimer(t) \/ UNCHANGED timers
      BY <1>10
    <3>2. CASE ArmTimer(t)
      BY <1>1, <3>2, ArmTimerTyped
    <3>3. CASE UNCHANGED timers
      BY <1>1, <3>3 DEF TimersOK
    <3>4. QED
      BY <3>1, <3>2, <3>3
  <2>5. StackOK' /\ ToldOK'
    <3>1. "data_received" \in Events
      BY DEF Events
    <3>2. QED
      BY <1>1, <1>3, <1>6, <1>10, <3>1, RaiseTyped
  <2>6. QED
    BY <1>7, <1>8, <2>3, <2>4, <2>5, TypePartsNext
<1>11. QED
  BY <1>9, <1>10 DEF TextQueued, n, received

LEMMA FinTakenTyped ==
  ASSUME TypeOK, FinTaken
  PROVE  TypeOK'
<1>1. TcbOK /\ TimersOK /\ FifoOK /\ StackOK /\ ToldOK /\ FinOK
  BY TypeParts
<1> DEFINE s == Top.sock
           t == tcb[s]
           next == AfterFin(t.state)
           turned == IF t.state = "fin_wait_1" THEN [t EXCEPT !.state = "time_wait"] ELSE t
<1>2. s \in Sockets /\ t \in Tcb /\ Tail(stack) \in Seq(Frame)
  <2>1. At("fin")
    BY DEF FinTaken
  <2>2. QED
    BY <2>1, SegmentTyped
<1>3. {"close_wait", "time_wait"} \subseteq TcpStates /\ t.state \in TcpStates
  BY <1>2 DEF Tcb, TcpStates
<1>4. next \in TcpStates
  BY <1>3 DEF AfterFin
<1>5. turned \in Tcb
  BY <1>2, <1>3, TcbFieldsTyped
<1>6. UNCHANGED finSent /\ FifoOK' /\ FinOK'
  BY <1>1 DEF FinTaken, FifoOK, FinOK
<1>7. CASE TcbClose(s, turned, "error", Tail(stack))
  <2>1. "error" \in Events
    BY DEF Events
  <2> HIDE DEF turned
  <2>2. QED
    BY <1>2, <1>5, <1>6, <1>7, <2>1, CloseStepTyped
<1>8. CASE /\ \E n \in SentUpTo(t) :
                tcb' = [tcb EXCEPT ![s] = [t EXCEPT !.state = next, !.seqNext = n]]
           /\ IF ArmedByFin(t.state) THEN ArmTimer(t) ELSE UNCHANGED timers
           /\ GoOn(Tail(stack))
  <2>1. PICK n \in SentUpTo(t) :
          tcb' = [tcb EXCEPT ![s] = [t EXCEPT !.state = next, !.seqNext = n]]
    BY <1>8
  <2>2. n \in Nat
    BY <1>1, <1>2, QueuedTyped
  <2> HIDE DEF next
  <2>3. [t EXCEPT !.state = next, !.seqNext = n] \in Tcb
    BY <1>2, <1>4, <2>2, TcbFieldsTyped
  <2>4. TcbOK'
    BY <1>1, <2>1, <2>3 DEF TcbOK
  <2>5. TimersOK'
    <3>1. ArmTimer(t) \/ UNCHANGED timers
      BY <1>8
    <3>2. CASE ArmTimer(t)
      BY <1>1, <3>2, ArmTimerTyped
    <3>3. CASE UNCHANGED timers
      BY <1>1, <3>3 DEF TimersOK
    <3>4. QED
      BY <3>1, <3>2, <3>3
  <2>6. StackOK' /\ ToldOK'
    BY <1>1, <1>2, <1>8, GoOnTyped
  <2>7. QED
    BY <1>6, <2>4, <2>5, <2>6, TypePartsNext
<1>9. QED
  BY <1>7, <1>8 DEF FinTaken

LEMMA HandlerTyped ==
  ASSUME TypeOK, HandlerStep
  PROVE  TypeOK'
<1>1. TcbOK /\ TimersOK /\ FifoOK /\ StackOK /\ ToldOK /\ FinOK
  BY TypeParts
<1>2. stack # <<>> => Tail(stack) \in Seq(Frame)
  BY <1>1, TopTyped
<1>3. CASE CallbackReturn
  <2>1. StackOK'
    BY <1>2, <1>3 DEF CallbackReturn, At, StackOK
  <2>2. TcbOK' /\ TimersOK' /\ FifoOK' /\ ToldOK' /\ FinOK'
    BY <1>1, <1>3 DEF CallbackReturn, TcbOK, TimersOK, FifoOK, ToldOK, FinOK
  <2>3. QED
    BY <2>1, <2>2, TypePartsNext
<1>4. CASE Incoming
  BY <1>4, IncomingTyped
<1>5. CASE DropConnection
  <2>1. Head(stack) \in DropFrame /\ Tail(stack) \in Seq(Frame)
    BY <1>1, <1>5, TopTyped DEF DropConnection, At
  <2>2. Head(stack).sock \in Sockets
    BY <2>1 DEF DropFrame
  <2>3. QED
    BY <1>5, <2>1, <2>2, FreeTyped DEF DropConnection
<1>6. CASE TickEnds
  <2>1. TimersOK'
    BY <1>1, <1>6, AfterCallbackType DEF TickEnds, TimersOK, TcpPool
  <2>2. StackOK'
    BY <1>2, <1>6 DEF TickEnds, At, StackOK
  <2>3. TcbOK' /\ FifoOK' /\ ToldOK' /\ FinOK'
    BY <1>1, <1>6 DEF TickEnds, TcbOK, FifoOK, ToldOK, FinOK
  <2>4. QED
    BY <2>1, <2>2, <2>3, TypePartsNext
<1>7. CASE ArmIdle
  <2>1. At("arm_idle")
    BY <1>7 DEF ArmIdle
  <2>2. Resume("text", Top.sock, Top.len, Top.fin) \o Tail(stack) \in Seq(Frame)
    BY <2>1, SegmentTyped
  <2>3. QED
    BY <1>7, <2>2, OnlyArmTyped DEF ArmIdle
<1>8. CASE Acked
  BY <1>8, AckedTyped
<1>9. CASE Rearm
  <2>1. At("rearm")
    BY <1>9 DEF Rearm
  <2>2. Resume("text", Top.sock, Top.len, Top.fin) \o Tail(stack) \in Seq(Frame)
    BY <2>1, SegmentTyped
  <2>3. QED
    BY <1>9, <2>2, OnlyArmTyped DEF Rearm
<1>10. CASE TextNone
  <2>1. At("text") /\ 0 \in Nat
    BY <1>10 DEF TextNone
  <2>2. Resume("fin", Top.sock, 0, Top.fin) \o Tail(stack) \in Seq(Frame)
    BY <2>1, SegmentTyped
  <2>3. QED
    BY <1>10, <2>2, OnlyArmTyped DEF TextNone
<1>11. CASE TextNoRoom
  BY <1>2, <1>11, OnlyArmTyped DEF TextNoRoom, At
<1>12. CASE TextQueued
  BY <1>12, TextQueuedTyped
<1>13. CASE Received
  <2>1. At("received") /\ 0 \in Nat
    BY <1>13 DEF Received
  <2>2. Resume("fin", Top.sock, 0, Top.fin) \o Tail(stack) \in Seq(Frame)
        /\ Tail(stack) \in Seq(Frame)
    BY <2>1, SegmentTyped
  <2>3. QED
    BY <1>13, <2>2, OnlyArmTyped DEF Received
<1>14. CASE FinIgnored
  BY <1>2, <1>14, OnlyArmTyped DEF FinIgnored, At
<1>15. CASE FinTaken
  BY <1>15, FinTakenTyped
<1>16. QED
  BY <1>3, <1>4, <1>5, <1>6, <1>7, <1>8, <1>9, <1>10, <1>11, <1>12, <1>13, <1>14, <1>15
     DEF HandlerStep

-----------------------------------------------------------------------------
(* The theorem.                                                            *)

LEMMA InitTyped == Init => TypeOK
<1> SUFFICES ASSUME Init PROVE TypeOK
  OBVIOUS
<1>1. TcbOK
  BY ZeroTcbTyped DEF Init, TcbOK
<1>2. TimersOK
  <2>1. EmptyEntry \in [callback : {"tcp_timeout", "other"} \union {NoCallback},
                        arg : Sockets \union {NoArg}, state : States, mode : Modes]
    BY DEF EmptyEntry, States, Modes
  <2>2. "stopped" \in States /\ "one_shot" \in Modes
    BY DEF States, Modes
  <2>3. ForeignEntry \in [callback : {"tcp_timeout", "other"} \union {NoCallback},
                          arg : Sockets \union {NoArg}, state : States, mode : Modes]
    BY <2>2 DEF ForeignEntry
  <2>4. QED
    BY <2>1, <2>3 DEF Init, TimersOK, TcpPool, PoolType
<1>3. FifoOK /\ StackOK /\ ToldOK /\ FinOK
  BY DEF Init, FifoOK, StackOK, ToldOK, FinOK
<1>4. QED
  BY <1>1, <1>2, <1>3, TypeParts

LEMMA NextTyped == TypeOK /\ [Next]_vars => TypeOK'
<1> SUFFICES ASSUME TypeOK, [Next]_vars PROVE TypeOK'
  OBVIOUS
<1>1. CASE Api
  BY <1>1, ApiTyped
<1>2. CASE tcp_handle_packet
  BY <1>2, PacketTyped
<1>3. CASE \E s \in Sockets : TimerExpires(s)
  BY <1>3, TimerExpiresTyped
<1>4. CASE HandlerStep
  BY <1>4, HandlerTyped
<1>5. CASE UNCHANGED vars
  <2>1. TcbOK /\ TimersOK /\ FifoOK /\ StackOK /\ ToldOK /\ FinOK
    BY TypeParts
  <2>2. TcbOK' /\ TimersOK' /\ FifoOK' /\ StackOK' /\ ToldOK' /\ FinOK'
    BY <1>5, <2>1 DEF vars, TcbOK, TimersOK, FifoOK, StackOK, ToldOK, FinOK
  <2>3. QED
    BY <2>2, TypePartsNext
<1>6. QED
  BY <1>1, <1>2, <1>3, <1>4, <1>5 DEF Next

\* Whatever segments come, whatever the applications call from their callbacks
\* and wherever a pool runs out, every TCB field, timer entry and fifo length
\* keeps its range: no fifo is filled beyond its size (tcp_write, the segment
\* text), no timer handle or fifo handle leaves the tables, seq_next does not
\* wrap below zero (tcp.c:451-555), and an ephemeral port is always found.
THEOREM TypeCorrect == Spec => []TypeOK
BY InitTyped, NextTyped, PTL DEF Spec

-----------------------------------------------------------------------------
(* Who owns what in net/tcp.c, and what the owners are told.               *)
(*                                                                         *)
(* HeldInv, an inductive invariant of module Tcp, says of every socket     *)
(* which timer and which pair of fifos it has, and of every function that  *)
(* waits for a callback to return what it will find there.  From it follow *)
(* five properties of the model, for every number of sockets, timers and   *)
(* fifos and for any applications that free a socket only in the last      *)
(* event of a connection (FreesLate), as those of the repository do.       *)
(*                                                                         *)
(* ToldInv, on top of it, says how the state of a socket and what its      *)
(* owner was told fit one another, and who has which port.  From it follow *)
(* the order of the events and that a segment has one receiver, for        *)
(* applications that also do not close a socket where tcp.c goes on to arm *)
(* its timer (ClosesLate) and when every segment can be sent (AllSent).    *)

\* The last events of a socket, and the states from which its FIN has left.
FinalEvents == {"closed", "reset", "idle"}
FinStates == {"fin_wait_1", "fin_wait_2", "time_wait"}

\* The TCB has its pair of fifos: the socket is, or was, a connection.
HasPair(t) == t.rx # NoFifo
Conn(s) == HasPair(tcb[s])

\* The timer of a socket in use is registered for that socket (tcp.c:954-955 and
\* 1058-1064), and runs only while there is a connection.
TimerHeld(s) ==
  InUse(s) /\ tcb[s].timer # NoTimer =>
    /\ timers[tcb[s].timer].callback = "tcp_timeout"
    /\ timers[tcb[s].timer].arg = s
    /\ ~Conn(s) => timers[tcb[s].timer].state # "running"

\* The fifos are an odd and the next even one, taken one after the other
\* (tcp.c:1250-1263), and a socket has both or neither.
PairHeld(s) ==
  /\ Conn(s) =>
       /\ tcb[s].rx % 2 = 1 /\ tcb[s].tx = tcb[s].rx + 1
       /\ fifo[tcb[s].rx] # Unowned /\ fifo[tcb[s].tx] # Unowned
  /\ ~Conn(s) => tcb[s].tx = NoFifo

\* What the state of a socket says of its other fields.
StateHeld(s) ==
  /\ tcb[s].state = "unused" => tcb[s] = ZeroTcb
  /\ Conn(s) => tcb[s].port # NoPort /\ tcb[s].state # "listen"
  /\ ~Conn(s) => tcb[s].state \in {"unused", "listen", "closed"}
  /\ tcb[s].state = "listen" => tcb[s].port # NoPort

\* What is in flight is in the queue to send, and after the FIN the queue is empty.
QueueHeld(s) ==
  /\ tcb[s].seqNext <= Queued(tcb[s])
  /\ tcb[s].state \in FinStates => finSent[s] /\ Queued(tcb[s]) = 0

\* Nothing has two owners, and nothing of the stack is without one.
PairsApart == \A s, r \in Sockets : Conn(s) /\ tcb[s].rx = tcb[r].rx => s = r
FifosClaimed ==
  \A f \in Fifos : fifo[f] # Unowned => \E s \in Sockets : f \in {tcb[s].rx, tcb[s].tx}
TimersClaimed ==
  \A t \in Timers :
    timers[t].callback = "tcp_timeout" => \E s \in Sockets : InUse(s) /\ tcb[s].timer = t

\* The function at place i of the call stack q, whose first place is the top.  A
\* handler or the tick is the oldest frame, and so is a callback that is told the
\* last event of a socket, but for the tick; every other callback, and every
\* handler that goes on after one, is about a connection that is still there.
FrameHeld(table, q, i) ==
  LET frame == q[i] IN
  /\ frame.at # "callback" => i = Len(q)
  /\ frame.at = "callback" /\ frame.event \in FinalEvents =>
       i = Len(q) \/ (i + 1 = Len(q) /\ q[i + 1].at = "tick")
  /\ frame.at = "callback" /\ frame.event \notin FinalEvents => HasPair(table[frame.sock])
  /\ frame.at \notin {"callback", "tick"} => HasPair(table[frame.sock])
  /\ frame.at = "incoming" => table[frame.listener].state # "unused"
FramesHeld(table, q) == \A i \in 1 .. Len(q) : FrameHeld(table, q, i)
StackHeld == FramesHeld(tcb, stack)

SocketsHeld ==
  \A s \in Sockets : TimerHeld(s) /\ PairHeld(s) /\ StateHeld(s) /\ QueueHeld(s)

\* The inductive invariant.
HeldInv ==
  /\ SocketsHeld
  /\ PairsApart /\ FifosClaimed /\ TimersClaimed /\ ForeignTimerUntouched
  /\ StackHeld

-----------------------------------------------------------------------------
(* What the invariant says of two sockets.                                 *)

LEMMA SocketTyped ==
  ASSUME TypeOK, NEW s \in Sockets
  PROVE  /\ tcb[s] \in Tcb
         /\ tcb[s].rx \in Nat /\ tcb[s].tx \in Nat
         /\ tcb[s].rx # NoFifo => tcb[s].rx \in Fifos
         /\ tcb[s].tx # NoFifo => tcb[s].tx \in Fifos
         /\ tcb[s].timer # NoTimer => tcb[s].timer \in Timers
         /\ tcb[s].port \in Ports \union {NoPort}
         /\ tcb[s].callback \in Apps \union {NoApp}
<1>1. tcb[s] \in Tcb
  BY TypeParts DEF TcbOK
<1>2. QED
  BY <1>1 DEF Tcb, Fifos, NoFifo

LEMMA ForeignApart ==
  ASSUME TypeOK, HeldInv, NEW s \in Sockets, InUse(s)
  PROVE  tcb[s].timer # ForeignTimer
<1>1. timers[ForeignTimer].callback = "other" /\ ForeignTimer # NoTimer
  BY DEF HeldInv, ForeignTimerUntouched, ForeignEntry, ForeignTimer, NoTimer
<1>2. QED
  BY <1>1 DEF HeldInv, SocketsHeld, TimerHeld

LEMMA TimersApart ==
  ASSUME TypeOK, HeldInv, NEW s \in Sockets, NEW r \in Sockets, s # r, InUse(s), InUse(r),
         tcb[s].timer = tcb[r].timer
  PROVE  tcb[s].timer = NoTimer
BY DEF HeldInv, SocketsHeld, TimerHeld

LEMMA OddPairs ==
  ASSUME NEW m \in Nat, NEW n \in Nat, m % 2 = 1, n % 2 = 1
  PROVE  m # n + 1
OBVIOUS

LEMMA OddBelow ==
  ASSUME NEW m \in Nat, m % 2 # 1, m # 0
  PROVE  m - 1 \in Nat /\ (m - 1) % 2 = 1
OBVIOUS

LEMMA FifosApart ==
  ASSUME TypeOK, HeldInv, NEW s \in Sockets, NEW r \in Sockets, s # r, Conn(r)
  PROVE  {tcb[r].rx, tcb[r].tx} \intersect {tcb[s].rx, tcb[s].tx} = {}
<1>1. tcb[r].rx # tcb[s].rx
  BY DEF HeldInv, PairsApart
<1>2. /\ tcb[r].rx \in Nat /\ tcb[r].rx % 2 = 1 /\ tcb[r].rx # NoFifo
      /\ tcb[r].tx = tcb[r].rx + 1
  BY SocketTyped DEF HeldInv, SocketsHeld, PairHeld, Conn, HasPair
<1>3. CASE Conn(s)
  <2>1. tcb[s].rx \in Nat /\ tcb[s].rx % 2 = 1 /\ tcb[s].tx = tcb[s].rx + 1
    BY <1>3, SocketTyped DEF HeldInv, SocketsHeld, PairHeld
  <2>2. tcb[r].rx # tcb[s].rx + 1 /\ tcb[s].rx # tcb[r].rx + 1
    BY <1>2, <2>1, OddPairs
  <2>3. QED
    BY <1>1, <1>2, <2>1, <2>2
<1>4. CASE ~Conn(s)
  <2>1. tcb[s].rx = NoFifo /\ tcb[s].tx = NoFifo
    BY <1>4 DEF HeldInv, SocketsHeld, PairHeld, Conn, HasPair
  <2>2. QED
    BY <1>2, <2>1 DEF NoFifo
<1>5. QED
  BY <1>3, <1>4

-----------------------------------------------------------------------------
(* The call stack.                                                         *)

\* A table that has every connection of another, and every socket in use.
Outlasts(after, before) ==
  \A r \in Sockets :
    /\ HasPair(before[r]) => HasPair(after[r])
    /\ before[r].state # "unused" => after[r].state # "unused"

LEMMA FramesKept ==
  ASSUME NEW before, NEW after, NEW q \in Seq(Frame), FramesHeld(before, q),
         Outlasts(after, before)
  PROVE  FramesHeld(after, q)
<1> SUFFICES ASSUME NEW i \in 1 .. Len(q) PROVE FrameHeld(after, q, i)
  BY DEF FramesHeld
<1>1. q[i] \in Frame
  BY ElementOfSeq
<1>2. /\ q[i].at # "tick" => q[i].sock \in Sockets
      /\ q[i].at = "incoming" => q[i].listener \in Sockets
  BY <1>1 DEF Frame, CallbackFrame, IncomingFrame, DropFrame, TickFrame, SegmentFrame
<1>3. FrameHeld(before, q, i)
  BY DEF FramesHeld
<1>4. QED
  BY <1>2, <1>3 DEF FrameHeld, Outlasts

LEMMA FramesPushed ==
  ASSUME NEW table, NEW below \in Seq(Frame), FramesHeld(table, below),
         NEW s, NEW app, NEW event,
         event \notin FinalEvents => HasPair(table[s]),
         event \in FinalEvents => below = <<>> \/ (Len(below) = 1 /\ below[1].at = "tick")
  PROVE  FramesHeld(table, <<[at |-> "callback", sock |-> s, app |-> app, event |-> event]>> \o below)
<1> DEFINE top == [at |-> "callback", sock |-> s, app |-> app, event |-> event]
           q == <<top>> \o below
<1>1. /\ Len(q) = Len(below) + 1 /\ q[1] = top /\ Len(below) \in Nat
      /\ \A i \in 1 .. Len(below) : q[i + 1] = below[i]
  OBVIOUS
<1>2. top.at = "callback" /\ top.sock = s /\ top.event = event
  OBVIOUS
<1> HIDE DEF q, top
<1>3. FrameHeld(table, q, 1)
  BY <1>1, <1>2 DEF FrameHeld
<1>4. ASSUME NEW i \in 1 .. Len(below)
      PROVE  FrameHeld(table, q, i + 1)
  <2>1. FrameHeld(table, below, i)
    BY DEF FramesHeld
  <2>2. q[i + 1] = below[i] /\ (i + 1 = Len(q) <=> i = Len(below))
        /\ (i + 1 + 1 = Len(q) <=> i + 1 = Len(below))
    BY <1>1
  <2>3. i + 1 = Len(below) => q[(i + 1) + 1] = below[i + 1]
    <3>1. i + 1 = Len(below) => i + 1 \in 1 .. Len(below)
      BY <1>1
    <3>2. QED
      BY <1>1, <3>1
  <2>4. QED
    BY <2>1, <2>2, <2>3 DEF FrameHeld
<1>5. ASSUME NEW j \in 1 .. Len(q)
      PROVE  FrameHeld(table, q, j)
  <2>1. j = 1 \/ (j - 1 \in 1 .. Len(below) /\ j = (j - 1) + 1)
    BY <1>1
  <2>2. QED
    BY <1>3, <1>4, <2>1
<1>6. QED
  BY <1>5 DEF FramesHeld, q, top

LEMMA FramesPopped ==
  ASSUME NEW table, NEW q \in Seq(Frame), q # <<>>, FramesHeld(table, q)
  PROVE  /\ FramesHeld(table, Tail(q))
         /\ Head(q).at # "callback" => Tail(q) = <<>>
         /\ Head(q).at \notin {"callback", "tick"} => HasPair(table[Head(q).sock])
         /\ Head(q).at = "incoming" => table[Head(q).listener].state # "unused"
         /\ Head(q).at = "callback" /\ Head(q).event \in FinalEvents =>
              Tail(q) = <<>> \/ (Len(Tail(q)) = 1 /\ Tail(q)[1].at = "tick")
<1> DEFINE rest == Tail(q)
<1>1. /\ Len(q) = Len(rest) + 1 /\ Head(q) = q[1] /\ Len(rest) \in Nat
      /\ \A i \in 1 .. Len(rest) : rest[i] = q[i + 1]
      /\ rest \in Seq(Frame)
  OBVIOUS
<1>2. Len(rest) = 0 => rest = <<>>
  BY <1>1, EmptySeq
<1> HIDE DEF rest
<1>3. FrameHeld(table, q, 1)
  BY <1>1 DEF FramesHeld
<1>4. ASSUME NEW i \in 1 .. Len(rest)
      PROVE  FrameHeld(table, rest, i)
  <2>1. FrameHeld(table, q, i + 1)
    BY <1>1 DEF FramesHeld
  <2>2. q[i + 1] = rest[i] /\ (i + 1 = Len(q) <=> i = Len(rest))
        /\ (i + 1 = Len(rest) => q[i + 1 + 1] = rest[i + 1])
        /\ (i + 1 + 1 = Len(q) <=> i + 1 = Len(rest))
    BY <1>1
  <2>3. QED
    BY <2>1, <2>2 DEF FrameHeld
<1>5. FramesHeld(table, rest)
  BY <1>4 DEF FramesHeld
<1>6. /\ Head(q).at # "callback" => Len(rest) = 0
      /\ Head(q).at \notin {"callback", "tick"} => HasPair(table[Head(q).sock])
      /\ Head(q).at = "incoming" => table[Head(q).listener].state # "unused"
      /\ Head(q).at = "callback" /\ Head(q).event \in FinalEvents =>
           Len(rest) = 0 \/ (Len(rest) = 1 /\ rest[1].at = "tick")
  <2>1. Len(rest) = 1 => rest[1] = q[1 + 1]
    BY <1>1
  <2>2. (1 = Len(q) => Len(rest) = 0) /\ (1 + 1 = Len(q) => Len(rest) = 1)
    <3>1. Len(q) = Len(rest) + 1 /\ Len(rest) \in Nat /\ Len(q) \in Nat
      BY <1>1
    <3>2. \A m, n \in Nat : m = n + 1 => (1 = m => n = 0) /\ (1 + 1 = m => n = 1)
      OBVIOUS
    <3>3. QED
      BY <3>1, <3>2, Zenon
  <2>3. Head(q) = q[1]
    BY <1>1
  <2>4. QED
    BY <1>3, <2>1, <2>2, <2>3 DEF FrameHeld
<1>7. QED
  BY <1>2, <1>5, <1>6 DEF rest

LEMMA FramesResumed ==
  ASSUME NEW table, NEW label \in {"arm_idle", "acked", "rearm", "text", "received", "fin"},
         NEW s, NEW len, NEW fin, HasPair(table[s])
  PROVE  FramesHeld(table, Resume(label, s, len, fin))
<1> DEFINE frame == [at |-> label, sock |-> s, len |-> len, fin |-> fin]
<1>1. frame.at = label /\ frame.sock = s
  OBVIOUS
<1> HIDE DEF frame
<1>2. Len(<<frame>>) = 1 /\ <<frame>>[1] = frame
  OBVIOUS
<1>3. FrameHeld(table, <<frame>>, 1)
  BY <1>1, <1>2 DEF FrameHeld
<1>4. FramesHeld(table, <<frame>>)
  BY <1>2, <1>3 DEF FramesHeld
<1>5. QED
  BY <1>4 DEF Resume, frame

LEMMA FramesEmpty == \A table : FramesHeld(table, <<>>)
BY DEF FramesHeld
-----------------------------------------------------------------------------
(* Steps that keep what a socket owns.                                     *)

\* Socket s keeps its timer and its fifos, and nothing of another is touched.
TablesKept(s) ==
  /\ \A t \in Timers : timers'[t].callback = timers[t].callback /\ timers'[t].arg = timers[t].arg
  /\ \A t \in Timers \ {tcb[s].timer} : timers'[t] = timers[t]
FifosKept(s) ==
  /\ \A f \in Fifos : fifo'[f] = Unowned <=> fifo[f] = Unowned
  /\ \A f \in Fifos \ {tcb[s].rx, tcb[s].tx} : fifo'[f] = fifo[f]
OthersKept(s) == \A r \in Sockets \ {s} : tcb'[r] = tcb[r] /\ finSent'[r] = finSent[r]
OwnKept(s) ==
  tcb'[s].rx = tcb[s].rx /\ tcb'[s].tx = tcb[s].tx /\ tcb'[s].timer = tcb[s].timer
Kept(s) == OthersKept(s) /\ OwnKept(s) /\ TablesKept(s) /\ FifosKept(s)

\* What a step of s leaves alone: the timers and fifos that others own.
OnlyOwn(s) ==
  /\ OthersKept(s)
  /\ \A t \in Timers :
       \/ timers'[t] = timers[t]
       \/ timers[t].callback = NoCallback
       \/ InUse(s) /\ t = tcb[s].timer
  /\ \A f \in Fifos :
       \/ fifo'[f] = fifo[f]
       \/ fifo[f] = Unowned
       \/ f \in {tcb[s].rx, tcb[s].tx}

LEMMA OtherHolds ==
  ASSUME TypeOK, HeldInv, NEW s \in Sockets, NEW r \in Sockets, r # s, OnlyOwn(s)
  PROVE  TimerHeld(r)' /\ PairHeld(r)' /\ StateHeld(r)' /\ QueueHeld(r)'
<1>1. TimerHeld(r) /\ PairHeld(r) /\ StateHeld(r) /\ QueueHeld(r)
  BY DEF HeldInv, SocketsHeld
<1>2. tcb'[r] = tcb[r] /\ finSent'[r] = finSent[r]
  BY DEF OnlyOwn, OthersKept
<1>3. Conn(r) => fifo'[tcb[r].rx] = fifo[tcb[r].rx] /\ fifo'[tcb[r].tx] = fifo[tcb[r].tx]
  <2>1. Conn(r) => /\ tcb[r].rx \in Fifos /\ tcb[r].tx \in Fifos
                   /\ fifo[tcb[r].rx] # Unowned /\ fifo[tcb[r].tx] # Unowned
    BY <1>1, SocketTyped DEF PairHeld, Conn, HasPair, NoFifo
  <2>2. Conn(r) => /\ tcb[r].rx \notin {tcb[s].rx, tcb[s].tx}
                   /\ tcb[r].tx \notin {tcb[s].rx, tcb[s].tx}
    BY FifosApart
  <2>3. QED
    BY <2>1, <2>2 DEF OnlyOwn
<1>4. TimerHeld(r)'
  <2> SUFFICES ASSUME InUse(r), tcb[r].timer # NoTimer
               PROVE  TimerHeld(r)'
    BY <1>2 DEF TimerHeld, InUse
  <2>1. tcb[r].timer \in Timers /\ (InUse(s) => tcb[r].timer # tcb[s].timer)
    BY SocketTyped, TimersApart
  <2>2. timers[tcb[r].timer].callback # NoCallback
    BY <1>1, NamesAssumption DEF TimerHeld
  <2>3. timers'[tcb[r].timer] = timers[tcb[r].timer]
    BY <2>1, <2>2 DEF OnlyOwn
  <2>4. QED
    BY <1>1, <1>2, <2>3 DEF TimerHeld, Conn, InUse
<1>5. PairHeld(r)'
  <2>1. Conn(r) => fifo'[tcb[r].rx] # Unowned /\ fifo'[tcb[r].tx] # Unowned
    BY <1>1, <1>3 DEF PairHeld
  <2>2. QED
    BY <1>1, <1>2, <2>1 DEF PairHeld, Conn
<1>6. StateHeld(r)'
  BY <1>1, <1>2 DEF StateHeld, Conn
<1>7. QueueHeld(r)'
  <2>1. Queued(tcb[r])' = Queued(tcb[r])
    BY <1>1, <1>2, <1>3 DEF Queued, FifoLength, PairHeld
  <2>2. QED
    BY <1>1, <1>2, <2>1 DEF QueueHeld
<1>8. QED
  BY <1>4, <1>5, <1>6, <1>7

LEMMA KeptHolds ==
  ASSUME TypeOK, TypeOK', HeldInv, NEW s \in Sockets, InUse(s), InUse(s)', Kept(s),
         ~Conn(s) => TimerHeld(s)', StateHeld(s)', QueueHeld(s)', StackHeld'
  PROVE  HeldInv'
<1>1. TimerHeld(s) /\ PairHeld(s)
  BY DEF HeldInv, SocketsHeld
<1>2. Conn(s)' <=> Conn(s)
  BY DEF Kept, OwnKept, Conn, HasPair
<1>3. TimerHeld(s)'
  <2> SUFFICES ASSUME Conn(s), tcb[s].timer # NoTimer
               PROVE  TimerHeld(s)'
    BY DEF TimerHeld, Kept, OwnKept
  <2>1. tcb[s].timer \in Timers
    BY SocketTyped
  <2>2. QED
    BY <1>1, <1>2, <2>1 DEF TimerHeld, Kept, OwnKept, TablesKept
<1>4. PairHeld(s)'
  <2>1. Conn(s) => tcb[s].rx \in Fifos /\ tcb[s].tx \in Fifos
    BY <1>1, SocketTyped DEF PairHeld, Conn, HasPair, NoFifo
  <2>2. QED
    BY <1>1, <1>2, <2>1 DEF PairHeld, Kept, OwnKept, FifosKept
<1>5. SocketsHeld'
  <2>1. OnlyOwn(s)
    BY DEF OnlyOwn, Kept, TablesKept, FifosKept
  <2>2. QED
    BY <1>3, <1>4, <2>1, OtherHolds DEF SocketsHeld
<1>6. \A r \in Sockets : /\ tcb'[r].rx = tcb[r].rx /\ tcb'[r].tx = tcb[r].tx
                         /\ tcb'[r].timer = tcb[r].timer /\ (InUse(r)' <=> InUse(r))
  BY DEF Kept, OthersKept, OwnKept, InUse
<1>7. PairsApart'
  BY <1>6 DEF HeldInv, PairsApart, Conn, HasPair
<1>8. FifosClaimed'
  BY <1>6 DEF HeldInv, FifosClaimed, Kept, FifosKept
<1>9. TimersClaimed'
  <2> SUFFICES ASSUME NEW t \in Timers, timers'[t].callback = "tcp_timeout"
               PROVE  \E r \in Sockets : InUse(r)' /\ tcb'[r].timer = t
    BY DEF TimersClaimed
  <2>1. timers[t].callback = "tcp_timeout"
    BY DEF Kept, TablesKept
  <2>2. QED
    BY <1>6, <2>1 DEF HeldInv, TimersClaimed
<1>10. ForeignTimerUntouched'
  <2>1. ForeignTimer \in Timers \ {tcb[s].timer}
    BY ForeignApart, TimerMaxAssumption DEF ForeignTimer, Timers
  <2>2. QED
    BY <2>1 DEF HeldInv, ForeignTimerUntouched, Kept, TablesKept
<1>11. QED
  BY <1>5, <1>7, <1>8, <1>9, <1>10 DEF HeldInv

\* A connection stays one, whatever state it goes to.
LEMMA ConnStep ==
  ASSUME TypeOK, TypeOK', HeldInv, NEW s \in Sockets, Conn(s), Kept(s),
         tcb'[s].state \notin {"unused", "listen"}, tcb'[s].port = tcb[s].port,
         QueueHeld(s)', StackHeld'
  PROVE  HeldInv'
<1>1. InUse(s)
  BY DEF HeldInv, SocketsHeld, StateHeld, Conn, HasPair, ZeroTcb, InUse
<1>2. StateHeld(s)'
  BY DEF HeldInv, SocketsHeld, StateHeld, Conn, HasPair, Kept, OwnKept
<1>3. InUse(s)'
  BY DEF InUse
<1>4. QED
  BY <1>1, <1>2, <1>3, KeptHolds

\* The timer calls on the timer of a socket reach no other timer.
LEMMA TimerCallsKept ==
  ASSUME TypeOK, NEW s \in Sockets, NEW t, t.timer = tcb[s].timer,
         ArmTimer(t) \/ timers' = Stop(timers, t.timer) \/ UNCHANGED timers
  PROVE  TablesKept(s)
<1>1. timers \in [Timers -> [callback : {NoCallback, "tcp_timeout", "other"},
                             arg : Sockets \union {NoArg}, state : States, mode : Modes]]
  BY DEF TypeOK
<1>2. CASE ArmTimer(t)
  BY <1>1, <1>2 DEF ArmTimer, Set, TablesKept
<1>3. CASE timers' = Stop(timers, t.timer)
  BY <1>1, <1>3 DEF Stop, TablesKept
<1>4. CASE UNCHANGED timers
  BY <1>4 DEF TablesKept
<1>5. QED
  BY <1>2, <1>3, <1>4

\* A pair of fifos that one end of is filled or drained.
LEMMA FifoChangeKept ==
  ASSUME TypeOK, HeldInv, NEW s \in Sockets, Conn(s),
         NEW f \in {tcb[s].rx, tcb[s].tx}, NEW n \in Nat, fifo' = [fifo EXCEPT ![f] = n]
  PROVE  FifosKept(s) /\ f \in Fifos
         /\ (f = tcb[s].rx => fifo'[tcb[s].tx] = fifo[tcb[s].tx])
         /\ (f = tcb[s].tx => fifo'[f] = n)
<1>1. PairHeld(s)
  BY DEF HeldInv, SocketsHeld
<1>2. tcb[s].rx \in Fifos /\ tcb[s].tx \in Fifos /\ tcb[s].tx # tcb[s].rx
      /\ fifo[tcb[s].rx] # Unowned /\ fifo[tcb[s].tx] # Unowned
  BY <1>1, SocketTyped DEF PairHeld, Conn, HasPair, NoFifo
<1>3. fifo \in [Fifos -> 0 .. FifoSize \union {Unowned}]
  BY DEF TypeOK
<1>4. n # Unowned
  BY DEF Unowned
<1>5. QED
  BY <1>2, <1>3, <1>4 DEF FifosKept

LEMMA FifoKept ==
  ASSUME NEW s, UNCHANGED fifo
  PROVE  FifosKept(s)
BY DEF FifosKept

\* t is what becomes of the TCB of s: it names the same timer, fifos and port.
SameOwner(s, t) ==
  /\ t.rx = tcb[s].rx /\ t.tx = tcb[s].tx /\ t.timer = tcb[s].timer
  /\ t.port = tcb[s].port

LEMMA QueueIsThere ==
  ASSUME NEW s \in Sockets, tcb'[s].tx = tcb[s].tx, fifo'[tcb[s].tx] = fifo[tcb[s].tx]
  PROVE  Queued(tcb[s])' = Queued(tcb[s])
BY DEF Queued, FifoLength

LEMMA MoveStep ==
  ASSUME TypeOK, TypeOK', HeldInv, NEW s \in Sockets, Conn(s), NEW t \in Tcb, SameOwner(s, t),
         tcb' = [tcb EXCEPT ![s] = t], t.state \notin {"unused", "listen"},
         \A r \in Sockets \ {s} : finSent'[r] = finSent[r],
         TablesKept(s), FifosKept(s),
         t.seqNext <= Queued(tcb[s])',
         t.state \in FinStates => finSent'[s] /\ Queued(tcb[s])' = 0,
         StackHeld'
  PROVE  HeldInv'
<1>1. tcb'[s] = t /\ \A r \in Sockets \ {s} : tcb'[r] = tcb[r]
  BY TypeParts DEF TcbOK
<1>2. Kept(s)
  BY <1>1 DEF Kept, OthersKept, OwnKept, SameOwner
<1>3. QueueHeld(s)'
  BY <1>1 DEF QueueHeld
<1>4. QED
  BY <1>1, <1>2, <1>3, ConnStep DEF SameOwner

LEMMA MovedTable ==
  ASSUME TypeOK, NEW s \in Sockets, NEW t, SameOwner(s, t), t.state # "unused",
         tcb' = [tcb EXCEPT ![s] = t]
  PROVE  Outlasts(tcb', tcb)
<1>1. tcb'[s] = t /\ \A r \in Sockets \ {s} : tcb'[r] = tcb[r]
  BY TypeParts DEF TcbOK
<1>2. QED
  BY <1>1 DEF SameOwner, HasPair, Outlasts

\* An event that is the last one is raised on an empty stack, but for the tick.
Raisable(event, below) ==
  event \in FinalEvents => below = <<>> \/ (Len(below) = 1 /\ below[1].at = "tick")

LEMMA RaiseHeld ==
  ASSUME NEW below \in Seq(Frame), FramesHeld(tcb, below), NEW s, NEW app, NEW event,
         Raise(s, app, event, below), Raisable(event, below), HasPair(tcb'[s]),
         Outlasts(tcb', tcb)
  PROVE  StackHeld'
<1>1. FramesHeld(tcb', below)
  BY FramesKept
<1>2. FramesHeld(tcb', <<[at |-> "callback", sock |-> s, app |-> app, event |-> event]>> \o below)
  BY <1>1, FramesPushed DEF Raisable
<1>3. QED
  BY <1>2 DEF Raise, StackHeld

LEMMA GoOnHeld ==
  ASSUME NEW below \in Seq(Frame), FramesHeld(tcb, below), GoOn(below),
         Outlasts(tcb', tcb)
  PROVE  StackHeld'
BY FramesKept DEF GoOn, StackHeld

LEMMA StackStays ==
  ASSUME TypeOK, HeldInv, UNCHANGED stack,
         Outlasts(tcb', tcb)
  PROVE  StackHeld'
<1>1. stack \in Seq(Frame) /\ FramesHeld(tcb, stack)
  BY DEF TypeOK, HeldInv, StackHeld
<1>2. FramesHeld(tcb', stack)
  BY <1>1, FramesKept
<1>3. QED
  BY <1>2 DEF StackHeld

LEMMA CloseStep ==
  ASSUME TypeOK, TypeOK', HeldInv, NEW s \in Sockets, Conn(s), NEW t \in Tcb, SameOwner(s, t),
         NEW event, NEW below \in Seq(Frame), FramesHeld(tcb, below), Raisable(event, below),
         TcbClose(s, t, event, below),
         \A r \in Sockets \ {s} : finSent'[r] = finSent[r],
         FifosKept(s), fifo'[tcb[s].tx] = fifo[tcb[s].tx],
         t.seqNext <= Queued(tcb[s])
  PROVE  HeldInv'
<1> DEFINE u == [t EXCEPT !.state = "closed"]
<1>1. u \in Tcb /\ u.state = "closed" /\ u.seqNext = t.seqNext /\ SameOwner(s, u)
  BY DEF Tcb, TcpStates, SameOwner
<1>2. tcb' = [tcb EXCEPT ![s] = u]
  BY DEF TcbClose
<1> HIDE DEF u
<1>3. tcb'[s] = u
  BY <1>2 DEF TypeOK
<1>4. Queued(tcb[s])' = Queued(tcb[s])
  BY <1>1, <1>3, QueueIsThere DEF SameOwner
<1>5. TablesKept(s)
  BY TimerCallsKept DEF TcbClose, SameOwner
<1>6. StackHeld'
  <2>1. HasPair(tcb'[s])
    BY <1>1, <1>3 DEF SameOwner, Conn, HasPair
  <2>2. Raise(s, t.callback, event, below)
    BY DEF TcbClose
  <2>3. QED
    BY <1>1, <1>2, <2>1, <2>2, MovedTable, RaiseHeld
<1>7. u.state \notin FinStates
  BY <1>1 DEF FinStates
<1>8. QED
  BY <1>1, <1>2, <1>4, <1>5, <1>6, <1>7, MoveStep

LEMMA RearmStep ==
  ASSUME TypeOK, TypeOK', HeldInv, NEW s \in Sockets, Conn(s), NEW t \in Tcb, SameOwner(s, t),
         NEW below \in Seq(Frame), FramesHeld(tcb, below), Rearmed(s, t, below),
         t.state \notin {"unused", "listen"},
         \A r \in Sockets \ {s} : finSent'[r] = finSent[r],
         UNCHANGED fifo,
         t.seqNext <= Queued(tcb[s]),
         t.state \in FinStates => finSent'[s] /\ Queued(tcb[s]) = 0
  PROVE  HeldInv'
<1>1. tcb' = [tcb EXCEPT ![s] = t] /\ ArmTimer(t) /\ GoOn(below)
  BY DEF Rearmed
<1>2. tcb'[s] = t
  BY <1>1 DEF TypeOK
<1>3. Queued(tcb[s])' = Queued(tcb[s])
  BY <1>2, QueueIsThere DEF SameOwner
<1>4. TablesKept(s) /\ FifosKept(s)
  BY <1>1, TimerCallsKept, FifoKept DEF SameOwner
<1>5. StackHeld'
  BY <1>1, MovedTable, GoOnHeld
<1>6. QED
  BY <1>1, <1>3, <1>4, <1>5, MoveStep
-----------------------------------------------------------------------------
(* tcp_timeout, called by the tick and by tcp_close.                       *)

OnlyTick(below) == below = <<>> \/ (Len(below) = 1 /\ below[1].at = "tick")

LEMMA TimeoutHeld ==
  ASSUME TypeOK, TypeOK', HeldInv, NEW s \in Sockets, Conn(s), NEW t \in Tcb, SameOwner(s, t),
         t.seqNext <= Queued(tcb[s]),
         t.state \in FinStates => finSent[s] /\ Queued(tcb[s]) = 0,
         NEW below \in Seq(Frame), FramesHeld(tcb, below),
         t.state # "start_close" => OnlyTick(below),
         tcp_timeout(s, t, below)
  PROVE  HeldInv'
<1> DEFINE counted == [t EXCEPT !.rtx = @ - 1]
           again == [t EXCEPT !.rtx = @ - 1, !.seqNext = 0]
<1>1. /\ counted \in Tcb /\ SameOwner(s, counted)
      /\ counted.seqNext = t.seqNext /\ counted.state = t.state
  BY TcbFieldsTyped, ZenonT(60) DEF SameOwner, Tcb
<1>2. /\ again \in Tcb /\ SameOwner(s, again)
      /\ again.seqNext = 0 /\ again.state = t.state
  BY TcbFieldsTyped, ZenonT(60) DEF SameOwner, Tcb
<1>3. /\ Queued(t) = Queued(tcb[s]) /\ Queued(again) = Queued(tcb[s])
      /\ t.seqNext \in Nat /\ Queued(tcb[s]) \in Int /\ Queued(tcb[s]) >= 0
  <2>1. Queued(t) = Queued(tcb[s]) /\ Queued(again) = Queued(tcb[s])
    BY <1>2 DEF Queued, SameOwner
  <2>2. t.seqNext \in Nat /\ Queued(tcb[s]) \in Int
    BY QueuedTyped, SocketTyped, TypeParts DEF Tcb
  <2>3. QED
    BY <2>1, <2>2
<1>4. ASSUME NEW event, NEW u \in Tcb, SameOwner(s, u), u.seqNext <= Queued(tcb[s]),
             Raisable(event, below), TcbClose(s, u, event, below), UNCHANGED fifo,
             \A r \in Sockets \ {s} : finSent'[r] = finSent[r]
      PROVE  HeldInv'
  <2>1. FifosKept(s)
    BY <1>4, FifoKept
  <2>2. QED
    BY <1>4, <2>1, CloseStep
<1>5. ASSUME NEW u \in Tcb, SameOwner(s, u), u.seqNext <= Queued(tcb[s]),
             u.state \notin {"unused", "listen"}, UNCHANGED fifo,
             \A r \in Sockets \ {s} : finSent'[r] = finSent[r],
             u.state \in FinStates => finSent'[s] /\ Queued(tcb[s]) = 0,
             Rearmed(s, u, below)
      PROVE  HeldInv'
  BY <1>5, RearmStep
<1>6. Raisable("timeout", below) /\ Raisable("error", below)
  BY DEF Raisable, FinalEvents
<1>7. finSent \in [Sockets -> BOOLEAN]
  BY DEF TypeOK
<1>8. ASSUME NEW n \in SentUpTo(again)
      PROVE  LET u == [again EXCEPT !.seqNext = n]
             IN  /\ u \in Tcb /\ SameOwner(s, u) /\ u.state = t.state
                 /\ u.seqNext <= Queued(tcb[s])
  <2>1. n \in Nat /\ n <= Queued(tcb[s])
    BY <1>2, <1>3 DEF SentUpTo
  <2>2. QED
    BY <1>2, <2>1 DEF SameOwner, Tcb
<1> HIDE DEF again, counted
<1>9. CASE TimeoutGiveUp(s, t, below)
  BY <1>1, <1>4, <1>6, <1>9 DEF TimeoutGiveUp, counted
<1>10. CASE TimeoutSyn(s, t, below)
  <2>1. UNCHANGED <<fifo, finSent>>
    BY <1>10 DEF TimeoutSyn
  <2>2. CASE TcbClose(s, counted, "error", below)
    BY <1>1, <1>4, <1>6, <2>1, <2>2
  <2>3. ASSUME NEW state \in {"syn_sent", "closed"},
               Rearmed(s, [t EXCEPT !.rtx = @ - 1, !.state = state], below)
        PROVE  HeldInv'
    <3> DEFINE u == [t EXCEPT !.rtx = @ - 1, !.state = state]
    <3>1. u \in Tcb /\ SameOwner(s, u) /\ u.state = state /\ u.seqNext = t.seqNext
      <4>1. u \in Tcb
        BY TcbFieldsTyped DEF TcpStates
      <4>2. QED
        BY <4>1 DEF SameOwner, Tcb
    <3> HIDE DEF u
    <3>2. u.state \notin FinStates /\ u.state \notin {"unused", "listen"}
      BY <3>1 DEF FinStates
    <3>3. Rearmed(s, u, below)
      BY <2>3 DEF u
    <3>4. QED
      BY <1>5, <2>1, <3>1, <3>2, <3>3
  <2>4. QED
    BY <1>10, <2>2, <2>3 DEF TimeoutSyn, counted
<1>11. CASE TimeoutSynAck(s, t, below)
  <2>1. UNCHANGED <<fifo, finSent>> /\ t.state = "syn_received"
    BY <1>11 DEF TimeoutSynAck
  <2>2. CASE TcbClose(s, counted, "error", below)
    BY <1>1, <1>4, <1>6, <2>1, <2>2
  <2>3. CASE Rearmed(s, counted, below)
    BY <1>1, <1>5, <2>1, <2>3 DEF FinStates
  <2>4. QED
    BY <1>11, <2>2, <2>3 DEF TimeoutSynAck, counted
<1>12. CASE TimeoutData(s, t, below)
  <2>1. UNCHANGED <<fifo, finSent>> /\ t.state \in {"established", "start_close"}
    BY <1>12 DEF TimeoutData
  <2>2. t.state \notin FinStates /\ t.state \notin {"unused", "listen"}
    BY <2>1 DEF FinStates
  <2>3. ASSUME NEW n \in SentUpTo(again), Rearmed(s, [again EXCEPT !.seqNext = n], below)
        PROVE  HeldInv'
    BY <1>5, <1>8, <2>1, <2>2, <2>3
  <2>4. CASE TcbClose(s, again, "error", below)
    BY <1>2, <1>3, <1>4, <1>6, <2>1, <2>4
  <2>5. CASE tcb' = [tcb EXCEPT ![s] = again] /\ GoOn(below) /\ UNCHANGED timers
    <3>1. TablesKept(s) /\ FifosKept(s)
      BY <2>1, <2>5, TimerCallsKept, FifoKept
    <3>2. StackHeld'
      BY <1>2, <2>2, <2>5, MovedTable, GoOnHeld
    <3>3. Queued(tcb[s])' = Queued(tcb[s])
      <4>1. tcb'[s] = again
        BY <2>5 DEF TypeOK
      <4>2. QED
        BY <1>2, <2>1, <4>1, QueueIsThere DEF SameOwner
    <3>4. QED
      BY <1>2, <1>3, <2>1, <2>2, <2>5, <3>1, <3>2, <3>3, MoveStep
  <2>6. QED
    BY <1>12, <2>3, <2>4, <2>5 DEF TimeoutData, again
<1>13. CASE TimeoutStartClose(s, t, below)
  <2>1. UNCHANGED fifo /\ Queued(tcb[s]) = 0
    BY <1>3, <1>13 DEF TimeoutStartClose
  <2>2. PICK sent \in SendResults :
          /\ IF sent
             THEN Rearmed(s, [t EXCEPT !.rtx = RtxFin, !.state = "fin_wait_1"], below)
             ELSE TcbClose(s, counted, "error", below)
          /\ finSent' = [finSent EXCEPT ![s] = @ \/ sent]
    BY <1>13 DEF TimeoutStartClose, counted
  <2>3. \A r \in Sockets \ {s} : finSent'[r] = finSent[r]
    BY <1>7, <2>2
  <2>4. CASE sent
    <3> DEFINE u == [t EXCEPT !.rtx = RtxFin, !.state = "fin_wait_1"]
    <3>1. /\ u \in Tcb /\ SameOwner(s, u) /\ u.state = "fin_wait_1"
          /\ u.seqNext = t.seqNext
      <4>1. "fin_wait_1" \in TcpStates /\ RtxFin \in Int
        BY RtxAssumption DEF TcpStates
      <4>2. u \in Tcb
        BY <4>1, StateAndRtxTyped
      <4>3. QED
        BY <4>2 DEF SameOwner, Tcb
    <3> HIDE DEF u
    <3>2. finSent'[s]
      BY <1>7, <2>2, <2>4
    <3>3. Rearmed(s, u, below)
      BY <2>2, <2>4 DEF u
    <3>4. QED
      BY <1>5, <2>1, <2>3, <3>1, <3>2, <3>3
  <2>5. CASE ~sent
    BY <1>1, <1>4, <1>6, <2>1, <2>2, <2>3, <2>5
  <2>6. QED
    BY <2>4, <2>5
<1>14. CASE TimeoutIdle(s, t, below)
  <2>1. /\ UNCHANGED <<timers, fifo, finSent>> /\ t.state = "established"
        /\ tcb' = [tcb EXCEPT ![s] = counted] /\ Raise(s, t.callback, "idle", below)
    BY <1>14 DEF TimeoutIdle, counted
  <2>2. tcb'[s] = counted
    BY <2>1 DEF TypeOK
  <2>3. TablesKept(s) /\ FifosKept(s)
    BY <2>1, TimerCallsKept, FifoKept
  <2>4. Queued(tcb[s])' = Queued(tcb[s])
    BY <1>1, <2>1, <2>2, QueueIsThere DEF SameOwner
  <2>5. StackHeld'
    <3>1. Raisable("idle", below)
      BY <2>1 DEF Raisable, OnlyTick
    <3>2. HasPair(tcb'[s])
      BY <1>1, <2>2 DEF SameOwner, Conn, HasPair
    <3>3. QED
      BY <1>1, <2>1, <3>1, <3>2, MovedTable, RaiseHeld
  <2>6. counted.state \notin FinStates /\ counted.state \notin {"unused", "listen"}
    BY <1>1, <2>1 DEF FinStates
  <2>7. QED
    BY <1>1, <2>1, <2>3, <2>4, <2>5, <2>6, MoveStep
<1>15. CASE TimeoutFin(s, t, below)
  <2>1. UNCHANGED fifo /\ t.state \in {"close_wait", "fin_wait_1", "last_ack"}
    BY <1>15 DEF TimeoutFin
  <2>2. CASE TcbClose(s, again, "error", below) /\ UNCHANGED finSent
    BY <1>2, <1>3, <1>4, <1>6, <2>1, <2>2
  <2>3. ASSUME NEW n \in SentUpTo(again),
               IF t.state = "close_wait"
               THEN Rearmed(s, [again EXCEPT !.seqNext = n, !.rtx = 0, !.state = "last_ack"], below)
               ELSE Rearmed(s, [again EXCEPT !.seqNext = n], below),
               finSent' = [finSent EXCEPT ![s] = @ \/ FinLeaves(t, n)]
        PROVE  HeldInv'
    <3>1. \A r \in Sockets \ {s} : finSent'[r] = finSent[r]
      BY <1>7, <2>3
    <3>2. CASE t.state = "close_wait"
      <4> DEFINE u == [again EXCEPT !.seqNext = n, !.rtx = 0, !.state = "last_ack"]
      <4>1. n \in Nat /\ n <= Queued(tcb[s])
        BY <1>2, <1>3 DEF SentUpTo
      <4>2. u \in Tcb /\ SameOwner(s, u) /\ u.state = "last_ack" /\ u.seqNext = n
        <5>1. "last_ack" \in TcpStates /\ 0 \in Int
          BY DEF TcpStates
        <5>2. u \in Tcb
          BY <1>2, <4>1, <5>1, StateAndRtxTyped
        <5>3. QED
          BY <1>2, <5>2 DEF SameOwner, Tcb
      <4> HIDE DEF u
      <4>3. Rearmed(s, u, below)
        BY <2>3, <3>2 DEF u
      <4>4. u.state \notin FinStates /\ u.state \notin {"unused", "listen"}
        BY <4>2 DEF FinStates
      <4>5. QED
        BY <1>5, <2>1, <3>1, <4>1, <4>2, <4>3, <4>4
    <3>3. CASE t.state # "close_wait"
      <4>1. t.state \in FinStates => finSent'[s]
        BY <1>7, <2>3
      <4>2. QED
        BY <1>5, <1>8, <2>1, <2>3, <3>1, <3>3, <4>1
    <3>4. QED
      BY <3>2, <3>3
  <2>4. QED
    BY <1>15, <2>2, <2>3 DEF TimeoutFin, again
<1>16. CASE TimeoutEnd(s, t, below)
  <2>1. UNCHANGED <<fifo, finSent>> /\ t.state \in {"fin_wait_2", "time_wait"}
    BY <1>16 DEF TimeoutEnd
  <2>2. Raisable("closed", below)
    BY <2>1 DEF Raisable, OnlyTick
  <2>3. TcbClose(s, counted, IF t.state = "time_wait" THEN "closed" ELSE "timeout", below)
    BY <1>16 DEF TimeoutEnd, counted
  <2>4. QED
    BY <1>1, <1>4, <1>6, <2>1, <2>2, <2>3
<1>17. QED
  BY <1>9, <1>10, <1>11, <1>12, <1>13, <1>14, <1>15, <1>16 DEF tcp_timeout

\* The connections, and what the invariant says of one.
LEMMA InConnection ==
  ASSUME HeldInv, NEW s \in Sockets
  PROVE  /\ tcb[s].state \notin {"unused", "listen", "closed"} => Conn(s)
         /\ Conn(s) => tcb[s].state \notin {"unused", "listen"} /\ tcb[s].port # NoPort
         /\ tcb[s].seqNext <= Queued(tcb[s])
         /\ tcb[s].state \in FinStates => finSent[s] /\ Queued(tcb[s]) = 0
<1>1. StateHeld(s) /\ QueueHeld(s)
  BY DEF HeldInv, SocketsHeld
<1>2. ZeroTcb.rx = NoFifo
  BY DEF ZeroTcb
<1>3. QED
  BY <1>1, <1>2 DEF StateHeld, QueueHeld, Conn, HasPair

\* A socket that is no connection.
LEMMA RestStep ==
  ASSUME TypeOK, TypeOK', HeldInv, NEW s \in Sockets, ~Conn(s), InUse(s), NEW t \in Tcb,
         t.rx = tcb[s].rx, t.tx = tcb[s].tx, t.timer = tcb[s].timer, t.seqNext = tcb[s].seqNext,
         t.state \in {"listen", "closed"}, t.state = "listen" => t.port # NoPort,
         tcb' = [tcb EXCEPT ![s] = t],
         UNCHANGED timers \/ timers' = Stop(timers, t.timer), UNCHANGED fifo,
         \A r \in Sockets \ {s} : finSent'[r] = finSent[r],
         StackHeld'
  PROVE  HeldInv'
<1>1. tcb'[s] = t /\ \A r \in Sockets \ {s} : tcb'[r] = tcb[r]
  BY DEF TypeOK
<1>2. Kept(s)
  <2>1. TablesKept(s) /\ FifosKept(s)
    BY TimerCallsKept, FifoKept
  <2>2. QED
    BY <1>1, <2>1 DEF Kept, OthersKept, OwnKept
<1>3. TimerHeld(s)'
  <2> SUFFICES ASSUME tcb[s].timer # NoTimer PROVE TimerHeld(s)'
    BY <1>1 DEF TimerHeld
  <2>1. /\ timers[tcb[s].timer].callback = "tcp_timeout" /\ timers[tcb[s].timer].arg = s
        /\ timers[tcb[s].timer].state # "running"
    BY DEF HeldInv, SocketsHeld, TimerHeld
  <2>2. tcb[s].timer \in Timers /\ Valid(timers, tcb[s].timer)
    BY <2>1, SocketTyped, NamesAssumption DEF Valid
  <2>3. timers'[tcb[s].timer].state # "running"
    BY <2>1, <2>2 DEF Stop, TypeOK
  <2>4. QED
    BY <1>1, <1>2, <2>1, <2>2, <2>3 DEF TimerHeld, Kept, TablesKept
<1>4. StateHeld(s)'
  BY <1>1 DEF StateHeld, Conn, HasPair
<1>5. QueueHeld(s)'
  <2>1. Queued(tcb[s])' = Queued(tcb[s])
    BY <1>1, QueueIsThere
  <2>2. QED
    BY <1>1, <2>1, InConnection DEF QueueHeld, FinStates
<1>6. InUse(s)'
  BY <1>1 DEF InUse
<1>7. QED
  BY <1>2, <1>3, <1>4, <1>5, <1>6, KeptHolds

LEMMA TimerExpiresHeld ==
  ASSUME TypeOK, TypeOK', HeldInv, NEW s \in Sockets, TimerExpires(s)
  PROVE  HeldInv'
<1> DEFINE timer == tcb[s].timer
           below == <<[at |-> "tick", timer |-> timer]>>
<1>1. /\ timer \in Timers /\ timers[timer].callback = "tcp_timeout" /\ timers[timer].arg = s
      /\ timers[timer].state = "running" /\ tcp_timeout(s, tcb[s], below)
  BY DEF TimerExpires, Running, Valid
<1>2. timer # NoTimer
  BY <1>1 DEF Timers, NoTimer
<1>3. InUse(s)
  <2>1. PICK r \in Sockets : InUse(r) /\ tcb[r].timer = timer
    BY <1>1 DEF HeldInv, TimersClaimed
  <2>2. timers[timer].arg = r
    BY <1>2, <2>1 DEF HeldInv, SocketsHeld, TimerHeld
  <2>3. QED
    BY <1>1, <2>1, <2>2
<1>4. Conn(s)
  BY <1>1, <1>2, <1>3 DEF HeldInv, SocketsHeld, TimerHeld
<1>5. below \in Seq(Frame) /\ FramesHeld(tcb, below) /\ OnlyTick(below)
  <2> DEFINE tick == [at |-> "tick", timer |-> timer]
  <2>1. tick \in Frame /\ tick.at = "tick"
    BY <1>1, FramesTyped
  <2> HIDE DEF tick
  <2>2. <<tick>> \in Seq(Frame) /\ Len(<<tick>>) = 1 /\ <<tick>>[1] = tick
    BY <2>1
  <2>3. FrameHeld(tcb, <<tick>>, 1)
    BY <2>1, <2>2 DEF FrameHeld
  <2>4. QED
    BY <2>1, <2>2, <2>3 DEF FramesHeld, OnlyTick, tick
<1>6. SameOwner(s, tcb[s]) /\ tcb[s] \in Tcb
  BY SocketTyped DEF SameOwner
<1> HIDE DEF below
<1>7. QED
  BY <1>1, <1>4, <1>5, <1>6, InConnection, TimeoutHeld

-----------------------------------------------------------------------------
(* The socket API.                                                         *)

LEMMA CloseHeld ==
  ASSUME TypeOK, TypeOK', HeldInv, NEW s \in Sockets, tcp_close(s)
  PROVE  HeldInv'
<1> DEFINE t == [tcb[s] EXCEPT !.state = "start_close"]
<1>1. tcb[s] \in Tcb /\ stack \in Seq(Frame) /\ FramesHeld(tcb, stack)
  BY SocketTyped DEF HeldInv, StackHeld, TypeOK
<1>2. CASE tcb[s].state = "established" /\ tcp_timeout(s, t, stack)
  <2>1. Conn(s)
    BY <1>2, InConnection
  <2>2. t \in Tcb /\ SameOwner(s, t) /\ t.state = "start_close" /\ t.seqNext = tcb[s].seqNext
    BY <1>1 DEF Tcb, TcpStates, SameOwner
  <2> HIDE DEF t
  <2>3. t.state \notin FinStates
    BY <2>2 DEF FinStates
  <2>4. QED
    BY <1>1, <1>2, <2>1, <2>2, <2>3, InConnection, TimeoutHeld
<1>3. CASE /\ tcb[s].state = "listen" /\ tcb' = [tcb EXCEPT ![s].state = "closed"]
           /\ UNCHANGED <<timers, fifo, stack, told, finSent>>
  <2> DEFINE u == [tcb[s] EXCEPT !.state = "closed"]
  <2>1. tcb' = [tcb EXCEPT ![s] = u] /\ u.state = "closed" /\ u \in Tcb /\ SameOwner(s, u)
        /\ u.seqNext = tcb[s].seqNext
    BY <1>1, <1>3 DEF Tcb, TcpStates, TypeOK, SameOwner
  <2> HIDE DEF u
  <2>2. ~Conn(s) /\ InUse(s)
    BY <1>3, InConnection DEF InUse
  <2>3. StackHeld'
    BY <1>1, <1>3, <2>1, MovedTable, StackStays
  <2>4. QED
    BY <1>3, <2>1, <2>2, <2>3, RestStep DEF SameOwner
<1>4. QED
  BY <1>2, <1>3 DEF tcp_close, tcp_timeout

LEMMA ListenHeld ==
  ASSUME TypeOK, TypeOK', HeldInv, NEW s \in Sockets, NEW port \in ListenPorts,
         tcp_listen(s, port)
  PROVE  HeldInv'
<1> DEFINE t == [tcb[s] EXCEPT !.port = port, !.state = "listen"]
<1>1. tcb[s] \in Tcb /\ stack \in Seq(Frame) /\ FramesHeld(tcb, stack)
  BY SocketTyped DEF HeldInv, StackHeld, TypeOK
<1>2. /\ tcb[s].state = "closed" /\ tcb[s].port = NoPort /\ tcb' = [tcb EXCEPT ![s] = t]
      /\ UNCHANGED <<timers, fifo, stack, told, finSent>>
  BY <1>1 DEF tcp_listen, TypeOK
<1>3. ~Conn(s) /\ InUse(s)
  BY <1>2, InConnection DEF InUse
<1>4. /\ t \in Tcb /\ t.state = "listen" /\ t.port = port /\ t.seqNext = tcb[s].seqNext
      /\ t.rx = tcb[s].rx /\ t.tx = tcb[s].tx /\ t.timer = tcb[s].timer
  <2>1. port \in Ports
    BY DEF Ports
  <2>2. QED
    BY <1>1, <2>1 DEF Tcb, TcpStates
<1> HIDE DEF t
<1>5. port # NoPort
  BY SizesAssumption DEF NoPort
<1>6. StackHeld'
  <2>1. tcb'[s] = t /\ \A r \in Sockets \ {s} : tcb'[r] = tcb[r]
    BY <1>2 DEF TypeOK
  <2>2. Outlasts(tcb', tcb)
    BY <1>4, <2>1 DEF HasPair, Outlasts
  <2>3. QED
    BY <1>2, <2>2, StackStays
<1>7. QED
  BY <1>2, <1>3, <1>4, <1>5, <1>6, RestStep

\* A step that only moves the state of a connection.
LEMMA AcceptHeld ==
  ASSUME TypeOK, TypeOK', HeldInv, NEW s \in Sockets, tcp_accept(s)
  PROVE  HeldInv'
<1> DEFINE t == [tcb[s] EXCEPT !.state = "accepted"]
<1>1. tcb[s] \in Tcb /\ stack \in Seq(Frame) /\ FramesHeld(tcb, stack)
  BY SocketTyped DEF HeldInv, StackHeld, TypeOK
<1>2. /\ tcb[s].state = "not_accepted" /\ tcb' = [tcb EXCEPT ![s] = t]
      /\ UNCHANGED <<timers, fifo, stack, told, finSent>>
  BY <1>1 DEF tcp_accept, TypeOK
<1>3. t \in Tcb /\ t.state = "accepted" /\ SameOwner(s, t) /\ t.seqNext = tcb[s].seqNext
  BY <1>1 DEF Tcb, TcpStates, SameOwner
<1> HIDE DEF t
<1>4. Conn(s)
  BY <1>2, InConnection
<1>5. StackHeld'
  BY <1>1, <1>2, <1>3, MovedTable, StackStays
<1>6. Queued(tcb[s])' = Queued(tcb[s])
  <2>1. tcb'[s] = t
    BY <1>2 DEF TypeOK
  <2>2. QED
    BY <1>2, <1>3, <2>1, QueueIsThere DEF SameOwner
<1>7. TablesKept(s) /\ FifosKept(s)
  BY <1>2, TimerCallsKept, FifoKept
<1>8. t.state \notin FinStates
  BY <1>3 DEF FinStates
<1>9. QED
  BY <1>2, <1>3, <1>4, <1>5, <1>6, <1>7, <1>8, InConnection, MoveStep

LEMMA ReadHeld ==
  ASSUME TypeOK, TypeOK', HeldInv, NEW s \in Sockets, NEW n \in 1 .. FifoSize, tcp_read(s, n)
  PROVE  HeldInv'
<1> DEFINE f == tcb[s].rx
           left == fifo[f] - Least(n, fifo[f])
<1>1. tcb[s] \in Tcb /\ FifoLength(f) > 0 /\ UNCHANGED <<tcb, timers, stack, told, finSent>>
  BY SocketTyped DEF tcp_read
<1>2. Conn(s) /\ f \in Fifos
  BY <1>1, SocketTyped DEF FifoLength, Conn, HasPair
<1>3. left \in Nat /\ fifo' = [fifo EXCEPT ![f] = left]
  <2>1. fifo[f] \in 0 .. FifoSize
    BY <1>1, <1>2 DEF TypeOK, FifoLength, Unowned, Fifos, NoFifo
  <2>2. QED
    BY <1>2, <2>1, SizesAssumption DEF tcp_read, Least, TypeOK
<1> HIDE DEF left
<1>4. FifosKept(s) /\ fifo'[tcb[s].tx] = fifo[tcb[s].tx]
  BY <1>2, <1>3, FifoChangeKept
<1>5. Queued(tcb[s])' = Queued(tcb[s])
  BY <1>1, <1>4, QueueIsThere
<1>6. QueueHeld(s)'
  BY <1>1, <1>5, InConnection DEF QueueHeld
<1>7. Kept(s)
  BY <1>1, <1>4 DEF Kept, OthersKept, OwnKept, TablesKept
<1>8. StackHeld'
  BY <1>1 DEF HeldInv, StackHeld
<1>9. QED
  BY <1>1, <1>2, <1>6, <1>7, <1>8, InConnection, ConnStep

LEMMA WriteHeld ==
  ASSUME TypeOK, TypeOK', HeldInv, NEW s \in Sockets, NEW n \in 1 .. FifoSize, tcp_write(s, n)
  PROVE  HeldInv'
<1> DEFINE t == [tcb[s] EXCEPT !.rtx = RtxData]
           length == Least(Queued(tcb[s]) + n, FifoSize)
<1>1. tcb[s] \in Tcb /\ stack \in Seq(Frame) /\ FramesHeld(tcb, stack)
  BY SocketTyped DEF HeldInv, StackHeld, TypeOK
<1>2. /\ tcb[s].state = "established" /\ tcb' = [tcb EXCEPT ![s] = t]
      /\ fifo' = [fifo EXCEPT ![tcb[s].tx] = length] /\ ArmTimer(tcb[s])
      /\ UNCHANGED <<stack, told, finSent>>
  BY <1>1 DEF tcp_write, TypeOK
<1>3. Conn(s)
  BY <1>2, InConnection
<1>4. t \in Tcb /\ SameOwner(s, t) /\ t.state = "established" /\ t.seqNext = tcb[s].seqNext
  BY <1>1, <1>2, RtxAssumption DEF Tcb, SameOwner
<1>5. length \in Nat /\ Queued(tcb[s]) <= length /\ Queued(tcb[s]) \in Int
  <2>1. Queued(tcb[s]) \in Int /\ Queued(tcb[s]) >= -1 /\ Queued(tcb[s]) <= FifoSize
    BY <1>1, QueuedTyped, TypeParts
  <2>2. QED
    BY <2>1, SizesAssumption DEF Least
<1> HIDE DEF t, length
<1>6. FifosKept(s) /\ fifo'[tcb[s].tx] = length
  BY <1>2, <1>3, <1>5, FifoChangeKept
<1>7. Queued(tcb[s])' = length
  <2>1. tcb'[s] = t
    BY <1>2 DEF TypeOK
  <2>2. tcb[s].tx # NoFifo
    BY <1>3, SocketTyped DEF HeldInv, SocketsHeld, PairHeld, Conn, HasPair, NoFifo
  <2>3. QED
    BY <1>4, <1>6, <2>1, <2>2 DEF Queued, FifoLength, SameOwner
<1>8. t.seqNext <= length
  <2>1. tcb[s].seqNext <= Queued(tcb[s]) /\ tcb[s].seqNext \in Int
    BY <1>1, InConnection DEF Tcb
  <2>2. QED
    BY <1>4, <1>5, <2>1
<1>9. TablesKept(s)
  BY <1>2, TimerCallsKept
<1>10. StackHeld'
  BY <1>1, <1>2, <1>4, MovedTable, StackStays
<1>11. t.state \notin FinStates
  BY <1>4 DEF FinStates
<1>12. QED
  BY <1>2, <1>3, <1>4, <1>6, <1>7, <1>8, <1>9, <1>10, <1>11, MoveStep

-----------------------------------------------------------------------------
(* What the pools hand out.                                                *)

LEMMA LowestIsLeast ==
  ASSUME NEW n \in Int, NEW S \in SUBSET (0 .. n), S # {}
  PROVE  Lowest(S) \in S /\ \A m \in S : Lowest(S) <= m
<1>1. IsFiniteSet(S) /\ S \in SUBSET Int
  <2>1. IsFiniteSet(0 .. n) /\ 0 .. n \in SUBSET Int
    BY FS_Interval
  <2>2. QED
    BY <2>1, FS_Subset
<1>2. \E k \in S : \A m \in S : k <= m
  BY <1>1, LeastExists
<1>3. QED
  BY <1>2 DEF Lowest

\* The fifos are taken and given back in pairs, so the free ones are pairs too.
LEMMA FreePairs ==
  ASSUME TypeOK, HeldInv, NEW f \in Fifos, f % 2 = 1
  PROVE  f + 1 \in Fifos /\ (fifo[f] = Unowned <=> fifo[f + 1] = Unowned)
<1>1. f \in Nat /\ f + 1 \in Fifos /\ (f + 1) % 2 = 0
  BY SizesAssumption DEF Fifos
<1>2. ASSUME NEW g \in Fifos, fifo[g] # Unowned
      PROVE  \E s \in Sockets :
               /\ tcb[s].rx \in Nat /\ tcb[s].rx % 2 = 1 /\ tcb[s].tx = tcb[s].rx + 1
               /\ fifo[tcb[s].rx] # Unowned /\ fifo[tcb[s].tx] # Unowned
               /\ g \in {tcb[s].rx, tcb[s].tx}
  <2>1. PICK s \in Sockets : g \in {tcb[s].rx, tcb[s].tx}
    BY <1>2 DEF HeldInv, FifosClaimed
  <2>2. PairHeld(s)
    BY DEF HeldInv, SocketsHeld
  <2>3. g # NoFifo
    BY DEF Fifos, NoFifo
  <2>4. Conn(s)
    BY <2>1, <2>2, <2>3 DEF PairHeld, Conn, HasPair
  <2>5. QED
    BY <2>1, <2>2, <2>4, SocketTyped DEF PairHeld
<1>3. ASSUME fifo[f] # Unowned
      PROVE  fifo[f + 1] # Unowned
  <2>1. PICK s \in Sockets :
          /\ tcb[s].rx \in Nat /\ tcb[s].rx % 2 = 1 /\ tcb[s].tx = tcb[s].rx + 1
          /\ fifo[tcb[s].tx] # Unowned /\ f \in {tcb[s].rx, tcb[s].tx}
    BY <1>2, <1>3
  <2>2. f # tcb[s].tx
    BY <1>1, <2>1, OddPairs
  <2>3. QED
    BY <2>1, <2>2
<1>4. ASSUME fifo[f + 1] # Unowned
      PROVE  fifo[f] # Unowned
  <2>1. PICK s \in Sockets :
          /\ tcb[s].rx \in Nat /\ tcb[s].rx % 2 = 1 /\ tcb[s].tx = tcb[s].rx + 1
          /\ fifo[tcb[s].rx] # Unowned /\ f + 1 \in {tcb[s].rx, tcb[s].tx}
    BY <1>1, <1>2, <1>4
  <2>2. f + 1 # tcb[s].rx
    BY <1>1, <2>1, OddPairs
  <2>3. f = tcb[s].rx
    BY <1>1, <2>1, <2>2
  <2>4. QED
    BY <2>1, <2>3
<1>5. QED
  BY <1>1, <1>3, <1>4

LEMMA PairFound ==
  ASSUME TypeOK, HeldInv
  PROVE  \/ FifoPair[1] = NoFifo /\ FifoPair[2] = NoFifo
         \/ /\ FifoPair[1] \in FreeFifos /\ FifoPair[1] % 2 = 1
            /\ FifoPair[2] = FifoPair[1] + 1 /\ FifoPair[2] \in FreeFifos
<1>1. FifoCount \in Int /\ FreeFifos \in SUBSET (0 .. FifoCount)
  BY SizesAssumption DEF FreeFifos, Fifos
<1>2. CASE FreeFifos = {}
  BY <1>2 DEF FifoPair
<1>3. CASE FreeFifos # {}
  <2> DEFINE m == Lowest(FreeFifos)
             rest == FreeFifos \ {m}
  <2>1. m \in FreeFifos /\ \A k \in FreeFifos : m <= k
    BY <1>1, <1>3, LowestIsLeast
  <2> HIDE DEF m
  <2>2. m \in Fifos /\ m \in Nat /\ fifo[m] = Unowned
    BY <2>1 DEF FreeFifos, Fifos
  <2>3. m % 2 = 1
    <3> SUFFICES ASSUME m % 2 # 1 PROVE FALSE
      OBVIOUS
    <3>1. m - 1 \in Fifos /\ (m - 1) % 2 = 1 /\ (m - 1) + 1 = m
      <4>1. m # 0 /\ m <= FifoCount
        BY <2>2, SizesAssumption DEF Fifos
      <4>2. m - 1 \in Nat /\ (m - 1) % 2 = 1
        BY <2>2, <4>1, OddBelow
      <4>3. m - 1 # 0
        BY <4>2
      <4>4. m - 1 \in Int /\ m - 1 >= 1 /\ m - 1 <= FifoCount /\ (m - 1) + 1 = m
        BY <2>2, <4>1, <4>2, <4>3, SizesAssumption
      <4>5. m - 1 \in Fifos
        BY <4>4, SizesAssumption DEF Fifos
      <4>6. QED
        BY <4>2, <4>4, <4>5
    <3>2. fifo[m - 1] = Unowned
      BY <2>2, <3>1, FreePairs
    <3>3. m <= m - 1
      BY <2>1, <3>1, <3>2 DEF FreeFifos
    <3>4. QED
      BY <2>2, <3>3
  <2>4. m + 1 \in FreeFifos
    BY <2>2, <2>3, FreePairs DEF FreeFifos
  <2>5. rest # {} /\ rest \in SUBSET (0 .. FifoCount)
    BY <1>1, <2>2, <2>4
  <2> DEFINE l == Lowest(rest)
  <2>6. l \in rest /\ \A k \in rest : l <= k
    BY <1>1, <2>5, LowestIsLeast
  <2> HIDE DEF l
  <2>7. l = m + 1
    <3>1. m + 1 \in rest
      BY <2>2, <2>4
    <3>2. l \in FreeFifos /\ l # m /\ l <= m + 1
      BY <2>6, <3>1
    <3>3. m <= l /\ l \in Int
      BY <1>1, <2>1, <3>2
    <3>4. QED
      BY <2>2, <3>2, <3>3
  <2>8. FifoPair[1] = m /\ FifoPair[2] = l
    BY <1>3, <2>5 DEF FifoPair, m, l
  <2>9. QED
    BY <2>1, <2>3, <2>4, <2>7, <2>8
<1>4. QED
  BY <1>2, <1>3

\* A slot of the timer table that timer_alloc takes, or none.
LEMMA TimerTaken ==
  ASSUME TypeOK, HeldInv, NEW s \in Sockets, NEW pool,
         pool = SetArg(Alloc(timers, "tcp_timeout"), AllocHandle(timers), s)
  PROVE  \/ AllocHandle(timers) = NoTimer /\ pool = timers
         \/ /\ AllocHandle(timers) \in Timers
            /\ timers[AllocHandle(timers)].callback = NoCallback
            /\ pool[AllocHandle(timers)].callback = "tcp_timeout"
            /\ pool[AllocHandle(timers)].arg = s
            /\ pool[AllocHandle(timers)].state = "stopped"
            /\ \A t \in Timers \ {AllocHandle(timers)} : pool[t] = timers[t]
<1> DEFINE t == AllocHandle(timers)
<1>1. timers \in [Timers -> [callback : {NoCallback, "tcp_timeout", "other"},
                             arg : Sockets \union {NoArg}, state : States, mode : Modes]]
  BY DEF TypeOK
<1>2. CASE FreeSlots(timers) = {}
  <2>1. t = NoTimer /\ ~ (NoTimer \in Timers)
    BY <1>2, AllocHandleFree DEF NoTimer, Timers
  <2>2. QED
    BY <2>1 DEF Alloc, SetArg, Valid
<1>3. CASE FreeSlots(timers) # {}
  <2>1. t \in Timers /\ timers[t].callback = NoCallback /\ t # NoTimer
    BY <1>3, AllocHandleFree DEF FreeSlots, NoTimer, Timers
  <2> HIDE DEF t
  <2> DEFINE taken == [timers EXCEPT ![t].callback = "tcp_timeout", ![t].state = "stopped"]
  <2>2. Alloc(timers, "tcp_timeout") = taken
    BY <2>1 DEF Alloc, t
  <2>3. /\ taken[t].callback = "tcp_timeout" /\ taken[t].state = "stopped"
        /\ \A u \in Timers \ {t} : taken[u] = timers[u]
    BY <1>1, <2>1
  <2>4. Valid(taken, t)
    BY <2>1, <2>3, NamesAssumption DEF Valid
  <2>5. pool = [taken EXCEPT ![t].arg = s]
    BY <2>2, <2>4 DEF SetArg, t
  <2>6. /\ pool[t].callback = "tcp_timeout" /\ pool[t].arg = s /\ pool[t].state = "stopped"
        /\ \A u \in Timers \ {t} : pool[u] = timers[u]
    BY <1>1, <2>1, <2>3, <2>5
  <2>7. QED
    BY <2>1, <2>6 DEF t
<1>4. QED
  BY <1>2, <1>3

-----------------------------------------------------------------------------
(* Steps that take from the pools or give back to them.                    *)

\* A socket that had no fifos gets a free pair.
LEMMA PairTaken ==
  ASSUME TypeOK, HeldInv, NEW s \in Sockets, ~Conn(s), OthersKept(s),
         NEW f \in FreeFifos, f % 2 = 1, f + 1 \in FreeFifos,
         tcb'[s].rx = f, tcb'[s].tx = f + 1,
         fifo' = [fifo EXCEPT ![f] = 0, ![f + 1] = 0]
  PROVE  /\ PairHeld(s)' /\ Conn(s)' /\ Queued(tcb[s])' = 0
         /\ PairsApart' /\ FifosClaimed'
         /\ \A g \in Fifos : fifo'[g] = fifo[g] \/ fifo[g] = Unowned
<1>1. /\ f \in Fifos /\ f + 1 \in Fifos /\ f \in Nat /\ f # NoFifo /\ f + 1 # NoFifo
      /\ fifo[f] = Unowned /\ fifo[f + 1] = Unowned
  BY DEF FreeFifos, Fifos, NoFifo
<1>2. /\ fifo'[f] = 0 /\ fifo'[f + 1] = 0 /\ 0 # Unowned
      /\ \A g \in Fifos \ {f, f + 1} : fifo'[g] = fifo[g]
  BY <1>1 DEF TypeOK, Unowned
<1>3. Conn(s)'
  BY <1>1 DEF Conn, HasPair
<1>4. PairHeld(s)'
  BY <1>2, <1>3 DEF PairHeld
<1>5. Queued(tcb[s])' = 0
  BY <1>1, <1>2 DEF Queued, FifoLength
<1>6. ASSUME NEW r \in Sockets \ {s}
      PROVE  tcb'[r] = tcb[r] /\ tcb[r].rx # f
  <2>1. Conn(r) => fifo[tcb[r].rx] # Unowned
    BY DEF HeldInv, SocketsHeld, PairHeld
  <2>2. QED
    BY <1>1, <2>1 DEF OthersKept, Conn, HasPair
<1>7. PairsApart'
  BY <1>6 DEF HeldInv, PairsApart, Conn, HasPair
<1>8. FifosClaimed'
  <2> SUFFICES ASSUME NEW g \in Fifos, fifo'[g] # Unowned
               PROVE  \E r \in Sockets : g \in {tcb'[r].rx, tcb'[r].tx}
    BY DEF FifosClaimed
  <2>1. CASE g \in {f, f + 1}
    BY <2>1
  <2>2. CASE g \notin {f, f + 1}
    <3>1. fifo[g] # Unowned
      BY <1>2, <2>2
    <3>2. PICK r \in Sockets : g \in {tcb[r].rx, tcb[r].tx}
      BY <3>1 DEF HeldInv, FifosClaimed
    <3>3. r # s
      <4>1. tcb[s].rx = NoFifo /\ tcb[s].tx = NoFifo
        BY DEF HeldInv, SocketsHeld, PairHeld, Conn, HasPair
      <4>2. QED
        BY <3>2, <4>1 DEF Fifos, NoFifo
    <3>4. QED
      BY <1>6, <3>2, <3>3
  <2>3. QED
    BY <2>1, <2>2
<1>9. QED
  BY <1>1, <1>2, <1>3, <1>4, <1>5, <1>7, <1>8

\* An unused socket gets a free timer, or none.
LEMMA TimerGiven ==
  ASSUME TypeOK, HeldInv, NEW s \in Sockets, ~InUse(s), OthersKept(s), InUse(s)',
         tcb'[s].timer = AllocHandle(timers),
         timers' = SetArg(Alloc(timers, "tcp_timeout"), AllocHandle(timers), s)
  PROVE  /\ TimerHeld(s)' /\ TimersClaimed' /\ ForeignTimerUntouched'
         /\ \A t \in Timers : timers'[t] = timers[t] \/ timers[t].callback = NoCallback
<1>1. \A r \in Sockets : InUse(r) => r # s /\ tcb'[r] = tcb[r] /\ InUse(r)'
  BY DEF OthersKept, InUse
<1>2. /\ ForeignTimer \in Timers /\ timers[ForeignTimer].callback = "other"
      /\ timers[ForeignTimer] = ForeignEntry
  BY TimerMaxAssumption DEF HeldInv, ForeignTimerUntouched, ForeignEntry, ForeignTimer, Timers
<1>3. CASE AllocHandle(timers) = NoTimer /\ timers' = timers
  <2>1. TimersClaimed'
    BY <1>1, <1>3 DEF HeldInv, TimersClaimed
  <2>2. TimerHeld(s)' /\ ForeignTimerUntouched'
    BY <1>2, <1>3 DEF TimerHeld, ForeignTimerUntouched
  <2>3. QED
    BY <1>3, <2>1, <2>2
<1>4. CASE /\ AllocHandle(timers) \in Timers
           /\ timers[AllocHandle(timers)].callback = NoCallback
           /\ timers'[AllocHandle(timers)].callback = "tcp_timeout"
           /\ timers'[AllocHandle(timers)].arg = s
           /\ timers'[AllocHandle(timers)].state = "stopped"
           /\ \A t \in Timers \ {AllocHandle(timers)} : timers'[t] = timers[t]
  <2>1. TimersClaimed'
    <3> SUFFICES ASSUME NEW t \in Timers, timers'[t].callback = "tcp_timeout"
                 PROVE  \E r \in Sockets : InUse(r)' /\ tcb'[r].timer = t
      BY DEF TimersClaimed
    <3>1. CASE t = AllocHandle(timers)
      BY <3>1
    <3>2. CASE t # AllocHandle(timers)
      <4>1. timers[t].callback = "tcp_timeout"
        BY <1>4, <3>2
      <4>2. PICK r \in Sockets : InUse(r) /\ tcb[r].timer = t
        BY <4>1 DEF HeldInv, TimersClaimed
      <4>3. QED
        BY <1>1, <4>2
    <3>3. QED
      BY <3>1, <3>2
  <2>2. TimerHeld(s)'
    BY <1>4 DEF TimerHeld
  <2>3. ForeignTimerUntouched'
    <3>1. ForeignTimer # AllocHandle(timers)
      BY <1>2, <1>4, NamesAssumption
    <3>2. QED
      BY <1>2, <1>4, <3>1 DEF ForeignTimerUntouched
  <2>4. QED
    BY <1>4, <2>1, <2>2, <2>3
<1>5. QED
  BY <1>3, <1>4, TimerTaken

\* An unused TCB is a zero one.
LEMMA UnusedIsZero ==
  ASSUME HeldInv, NEW s \in Sockets, ~InUse(s)
  PROVE  tcb[s] = ZeroTcb /\ ~Conn(s) /\ tcb[s].tx = NoFifo
BY DEF HeldInv, SocketsHeld, StateHeld, InUse, ZeroTcb, Conn, HasPair

LEMMA SocketAllocHeld ==
  ASSUME TypeOK, TypeOK', HeldInv, NEW app \in Apps, tcp_socket_alloc(app)
  PROVE  HeldInv'
<1> DEFINE t == AllocHandle(timers)
<1>1. PICK s \in Sockets : s = Lowest(UnusedSockets) /\ ~InUse(s)
  BY UnusedSocketFound DEF tcp_socket_alloc, UnusedSockets
<1>2. /\ tcb' = [tcb EXCEPT ![s].state = "closed", ![s].callback = app, ![s].timer = t]
      /\ timers' = SetArg(Alloc(timers, "tcp_timeout"), t, s)
      /\ UNCHANGED <<fifo, stack, told, finSent>>
  BY <1>1 DEF tcp_socket_alloc
<1>3. tcb[s] = ZeroTcb /\ ~Conn(s)
  BY <1>1, UnusedIsZero
<1>4. /\ tcb'[s].state = "closed" /\ tcb'[s].timer = t /\ tcb'[s].rx = NoFifo
      /\ tcb'[s].tx = NoFifo /\ tcb'[s].seqNext = 0
      /\ \A r \in Sockets \ {s} : tcb'[r] = tcb[r]
  <2>1. tcb \in [Sockets -> Tcb]
    BY DEF TypeOK
  <2>2. tcb'[s] = [ZeroTcb EXCEPT !.state = "closed", !.callback = app, !.timer = t]
    BY <1>1, <1>2, <1>3, <2>1
  <2>3. \A r \in Sockets \ {s} : tcb'[r] = tcb[r]
    BY <1>2, <2>1
  <2>4. QED
    BY <2>2, <2>3 DEF ZeroTcb
<1>5. OthersKept(s) /\ InUse(s)'
  BY <1>2, <1>4 DEF OthersKept, InUse
<1>6. /\ TimerHeld(s)' /\ TimersClaimed' /\ ForeignTimerUntouched'
      /\ \A u \in Timers : timers'[u] = timers[u] \/ timers[u].callback = NoCallback
  BY <1>1, <1>2, <1>4, <1>5, TimerGiven
<1>7. OnlyOwn(s)
  BY <1>2, <1>5, <1>6 DEF OnlyOwn
<1>8. PairHeld(s)' /\ StateHeld(s)' /\ QueueHeld(s)'
  BY <1>4 DEF PairHeld, StateHeld, QueueHeld, Conn, HasPair, Queued, FifoLength, FinStates
<1>9. SocketsHeld'
  BY <1>6, <1>7, <1>8, OtherHolds DEF SocketsHeld
<1>10. \A r \in Sockets : tcb'[r].rx = tcb[r].rx /\ tcb'[r].tx = tcb[r].tx
  BY <1>3, <1>4 DEF ZeroTcb
<1>11. PairsApart' /\ FifosClaimed'
  <2>1. PairsApart'
    BY <1>10 DEF HeldInv, PairsApart, Conn, HasPair
  <2>2. FifosClaimed'
    BY <1>2, <1>10 DEF HeldInv, FifosClaimed
  <2>3. QED
    BY <2>1, <2>2
<1>12. StackHeld'
  <2>1. Outlasts(tcb', tcb)
    BY <1>4, <1>10 DEF Outlasts, HasPair
  <2>2. QED
    BY <1>2, <2>1, StackStays
<1>13. QED
  BY <1>6, <1>9, <1>11, <1>12 DEF HeldInv

LEMMA ConnectHeld ==
  ASSUME TypeOK, TypeOK', HeldInv, NEW s \in Sockets, NEW remote \in Remotes,
         tcp_connect(s, remote)
  PROVE  HeldInv'
<1> DEFINE t == [tcb[s] EXCEPT !.port = FindUnusedPort, !.rx = FifoPair[1], !.tx = FifoPair[2]]
           u == [Reset(t) EXCEPT !.remote = remote, !.rtx = RtxSyn]
<1>1. tcb[s] \in Tcb /\ finSent \in [Sockets -> BOOLEAN] /\ tcb \in [Sockets -> Tcb]
  BY SocketTyped DEF TypeOK
<1>2. /\ tcb[s].state = "closed" /\ tcb[s].port = NoPort /\ UNCHANGED stack
      /\ finSent' = [finSent EXCEPT ![s] = FALSE]
  BY DEF tcp_connect
<1>3. ~Conn(s) /\ InUse(s) /\ tcb[s].rx = NoFifo /\ tcb[s].tx = NoFifo
  BY <1>2, InConnection DEF InUse, HeldInv, SocketsHeld, PairHeld, Conn, HasPair
<1>4. \A r \in Sockets \ {s} : finSent'[r] = finSent[r]
  BY <1>1, <1>2
<1>5. FindUnusedPort \in Ports /\ FindUnusedPort # NoPort
  <2>1. FindUnusedPort \in EphemeralPorts
    BY <1>1, UnusedPortFound DEF TcbOK
  <2>2. QED
    BY <2>1, SizesAssumption DEF EphemeralPorts, Ports, NoPort
<1>6. /\ t.state = "closed" /\ t.rx = FifoPair[1] /\ t.tx = FifoPair[2]
      /\ t.timer = tcb[s].timer /\ t.seqNext = tcb[s].seqNext /\ t.port = FindUnusedPort
  BY <1>1, <1>2 DEF Tcb
<1>7. /\ u.state = "closed" /\ u.rx = FifoPair[1] /\ u.tx = FifoPair[2]
      /\ u.timer = tcb[s].timer /\ u.seqNext = 0 /\ u.port = FindUnusedPort
  BY <1>6 DEF Reset, ZeroTcb
<1>8. IF NoFifo \in {FifoPair[1], FifoPair[2]}
      THEN tcb' = [tcb EXCEPT ![s] = t] /\ UNCHANGED <<timers, fifo, told>>
      ELSE /\ tcb' = [tcb EXCEPT ![s] = u]
           /\ fifo' = [fifo EXCEPT ![FifoPair[1]] = 0, ![FifoPair[2]] = 0]
           /\ ArmTimer(t)
  BY DEF tcp_connect
<1>9. FifoPair[1] \in Fifos \union {NoFifo} /\ FifoPair[2] \in Fifos \union {NoFifo}
  BY FifoPairFound DEF FreeFifos
<1>10. t \in Tcb
  BY <1>1, <1>5, <1>9 DEF Tcb
<1> HIDE DEF t, u
<1>11. CASE FifoPair[1] = NoFifo /\ FifoPair[2] = NoFifo
  <2>1. tcb' = [tcb EXCEPT ![s] = t] /\ UNCHANGED <<timers, fifo, told>>
    BY <1>8, <1>11
  <2>2. StackHeld'
    <3>1. tcb'[s] = t /\ \A r \in Sockets \ {s} : tcb'[r] = tcb[r]
      BY <1>1, <2>1
    <3>2. Outlasts(tcb', tcb)
      BY <1>3, <1>6, <3>1 DEF Outlasts, HasPair, Conn
    <3>3. QED
      BY <1>2, <3>2, StackStays
  <2>3. QED
    BY <1>3, <1>4, <1>6, <1>10, <1>11, <2>1, <2>2, RestStep
<1>12. CASE /\ FifoPair[1] \in FreeFifos /\ FifoPair[1] % 2 = 1
            /\ FifoPair[2] = FifoPair[1] + 1 /\ FifoPair[2] \in FreeFifos
  <2> DEFINE f == FifoPair[1]
  <2>1. f \in FreeFifos /\ f + 1 \in FreeFifos /\ f % 2 = 1
    BY <1>12
  <2>2. FifoPair[1] # NoFifo /\ FifoPair[2] # NoFifo
    BY <1>12 DEF FreeFifos, Fifos, NoFifo
  <2>3. tcb' = [tcb EXCEPT ![s] = u] /\ fifo' = [fifo EXCEPT ![f] = 0, ![f + 1] = 0] /\ ArmTimer(t)
    BY <1>8, <1>12, <2>2
  <2> HIDE DEF f
  <2>4. tcb'[s] = u /\ \A r \in Sockets \ {s} : tcb'[r] = tcb[r]
    BY <1>1, <2>3
  <2>5. tcb'[s].rx = f /\ tcb'[s].tx = f + 1
    BY <1>7, <1>12, <2>4 DEF f
  <2>6. OthersKept(s)
    BY <1>4, <2>4 DEF OthersKept
  <2>7. /\ PairHeld(s)' /\ Conn(s)' /\ Queued(tcb[s])' = 0
        /\ PairsApart' /\ FifosClaimed'
        /\ \A g \in Fifos : fifo'[g] = fifo[g] \/ fifo[g] = Unowned
    BY <1>3, <2>1, <2>3, <2>5, <2>6, PairTaken
  <2>8. TablesKept(s)
    BY <1>6, <2>3, TimerCallsKept
  <2>9. OnlyOwn(s)
    BY <1>3, <2>6, <2>7, <2>8 DEF OnlyOwn, TablesKept
  <2>10. StateHeld(s)' /\ QueueHeld(s)'
    BY <1>5, <1>7, <2>4, <2>7 DEF StateHeld, QueueHeld, Conn, HasPair, FinStates
  <2>11. TimerHeld(s)'
    <3> SUFFICES ASSUME tcb[s].timer # NoTimer PROVE TimerHeld(s)'
      BY <1>7, <2>4 DEF TimerHeld
    <3>1. tcb[s].timer \in Timers
      BY SocketTyped
    <3>2. TimerHeld(s)
      BY DEF HeldInv, SocketsHeld
    <3>3. QED
      BY <1>3, <1>7, <2>4, <2>7, <2>8, <3>1, <3>2 DEF TimerHeld, TablesKept
  <2>12. SocketsHeld'
    BY <2>7, <2>9, <2>10, <2>11, OtherHolds DEF SocketsHeld
  <2>13. TimersClaimed' /\ ForeignTimerUntouched'
    <3>1. \A r \in Sockets : tcb'[r].timer = tcb[r].timer /\ (InUse(r) => InUse(r)')
      BY <1>7, <2>4 DEF InUse
    <3>2. TimersClaimed'
      BY <2>8, <3>1 DEF HeldInv, TimersClaimed, TablesKept
    <3>3. ForeignTimer \in Timers \ {tcb[s].timer}
      BY <1>3, ForeignApart, TimerMaxAssumption DEF ForeignTimer, Timers
    <3>4. ForeignTimerUntouched'
      BY <2>8, <3>3 DEF HeldInv, ForeignTimerUntouched, TablesKept
    <3>5. QED
      BY <3>2, <3>4
  <2>14. StackHeld'
    <3>1. Outlasts(tcb', tcb)
      BY <1>3, <1>7, <2>4, <2>7 DEF Outlasts, Conn, HasPair
    <3>2. QED
      BY <1>2, <3>1, StackStays
  <2>15. QED
    BY <2>7, <2>12, <2>13, <2>14 DEF HeldInv
<1>13. QED
  BY <1>11, <1>12, PairFound

LEMMA ListenSynHeld ==
  ASSUME TypeOK, TypeOK', HeldInv, NEW l \in Sockets, NEW remote \in Remotes,
         RcvListenSyn(l, remote)
  PROVE  HeldInv'
<1> DEFINE timer == AllocHandle(timers)
<1>1. PICK s \in Sockets : s = Lowest(UnusedSockets) /\ ~InUse(s)
  BY UnusedSocketFound DEF RcvListenSyn, UnusedSockets
<1> DEFINE u == [ZeroTcb EXCEPT !.state = "not_accepted", !.callback = tcb[l].callback,
                                !.port = tcb[l].port, !.remote = remote, !.timer = timer,
                                !.rx = FifoPair[1], !.tx = FifoPair[2]]
           below == <<[at |-> "incoming", sock |-> s, listener |-> l]>>
<1>2. /\ Idle /\ tcb[l].state = "listen" /\ NoFifo \notin {FifoPair[1], FifoPair[2]}
      /\ tcb' = [tcb EXCEPT ![s] = u]
      /\ timers' = SetArg(Alloc(timers, "tcp_timeout"), timer, s)
      /\ fifo' = [fifo EXCEPT ![FifoPair[1]] = 0, ![FifoPair[2]] = 0]
      /\ Raise(s, tcb[l].callback, "incoming", below)
      /\ UNCHANGED finSent
  BY <1>1 DEF RcvListenSyn, Reached
<1>3. /\ u.state = "not_accepted" /\ u.port = tcb[l].port /\ u.timer = timer
      /\ u.rx = FifoPair[1] /\ u.tx = FifoPair[2] /\ u.seqNext = 0
  BY DEF ZeroTcb
<1> HIDE DEF u
<1>4. tcb[s] = ZeroTcb /\ ~Conn(s)
  BY <1>1, UnusedIsZero
<1>5. tcb'[s] = u /\ \A r \in Sockets \ {s} : tcb'[r] = tcb[r]
  BY <1>2 DEF TypeOK
<1>6. OthersKept(s) /\ InUse(s)'
  BY <1>2, <1>3, <1>5 DEF OthersKept, InUse
<1> DEFINE f == FifoPair[1]
<1>7. f \in FreeFifos /\ f % 2 = 1 /\ f + 1 \in FreeFifos /\ FifoPair[2] = f + 1
  BY <1>2, PairFound
<1>8. fifo' = [fifo EXCEPT ![f] = 0, ![f + 1] = 0] /\ u.rx = f /\ u.tx = f + 1
  BY <1>2, <1>3, <1>7
<1> HIDE DEF f
<1>9. /\ PairHeld(s)' /\ Conn(s)' /\ Queued(tcb[s])' = 0
      /\ PairsApart' /\ FifosClaimed'
      /\ \A g \in Fifos : fifo'[g] = fifo[g] \/ fifo[g] = Unowned
  BY <1>4, <1>5, <1>6, <1>7, <1>8, PairTaken
<1>10. /\ TimerHeld(s)' /\ TimersClaimed' /\ ForeignTimerUntouched'
       /\ \A t \in Timers : timers'[t] = timers[t] \/ timers[t].callback = NoCallback
  BY <1>1, <1>2, <1>3, <1>5, <1>6, TimerGiven
<1>11. OnlyOwn(s)
  BY <1>6, <1>9, <1>10 DEF OnlyOwn
<1>12. tcb[l].port # NoPort
  BY <1>2 DEF HeldInv, SocketsHeld, StateHeld
<1>13. StateHeld(s)' /\ QueueHeld(s)'
  BY <1>3, <1>5, <1>9, <1>12 DEF StateHeld, QueueHeld, Conn, FinStates
<1>14. SocketsHeld'
  BY <1>9, <1>10, <1>11, <1>13, OtherHolds DEF SocketsHeld
<1>15. StackHeld'
  <2>1. HasPair(tcb'[s]) /\ tcb'[l].state # "unused"
    <3>1. l # s
      BY <1>1, <1>2 DEF InUse
    <3>2. QED
      BY <1>2, <1>5, <1>9, <3>1 DEF Conn
  <2> DEFINE frame == [at |-> "incoming", sock |-> s, listener |-> l]
  <2>2. frame.at = "incoming" /\ frame.sock = s /\ frame.listener = l /\ frame \in Frame
    BY FramesTyped
  <2> HIDE DEF frame
  <2>3. Len(<<frame>>) = 1 /\ <<frame>>[1] = frame /\ <<frame>> \in Seq(Frame)
    BY <2>2
  <2>4. FrameHeld(tcb', <<frame>>, 1)
    BY <2>1, <2>2, <2>3 DEF FrameHeld
  <2>5. FramesHeld(tcb', below) /\ below \in Seq(Frame)
    BY <2>3, <2>4 DEF FramesHeld, frame
  <2> HIDE DEF below
  <2>6. "incoming" \notin FinalEvents
    BY DEF FinalEvents
  <2>7. FramesHeld(tcb', <<[at |-> "callback", sock |-> s, app |-> tcb[l].callback,
                            event |-> "incoming"]>> \o below)
    BY <2>1, <2>5, <2>6, FramesPushed
  <2>8. QED
    BY <1>2, <2>7 DEF Raise, StackHeld
<1>16. QED
  BY <1>9, <1>10, <1>14, <1>15 DEF HeldInv

LEMMA FreeHeld ==
  ASSUME TypeOK, TypeOK', HeldInv, NEW s \in Sockets, InUse(s), TcbFree(s),
         FramesHeld(tcb', stack')
  PROVE  HeldInv'
<1>1. /\ timers' = Free(timers, tcb[s].timer) /\ fifo' = FifosWithout(tcb[s])
      /\ tcb' = [tcb EXCEPT ![s] = ZeroTcb] /\ finSent' = [finSent EXCEPT ![s] = FALSE]
  BY DEF TcbFree
<1>2. tcb'[s] = ZeroTcb /\ \A r \in Sockets \ {s} : tcb'[r] = tcb[r]
  BY <1>1 DEF TypeOK
<1>3. OthersKept(s)
  BY <1>1, <1>2 DEF OthersKept, TypeOK
<1>4. /\ \A t \in Timers \ {tcb[s].timer} : timers'[t] = timers[t]
      /\ tcb[s].timer \in Timers => timers'[tcb[s].timer].callback = NoCallback
  BY <1>1 DEF Free, TypeOK
<1>5. /\ \A g \in Fifos \ {tcb[s].rx, tcb[s].tx} : fifo'[g] = fifo[g]
      /\ \A g \in Fifos : g \in {tcb[s].rx, tcb[s].tx} => fifo'[g] = Unowned
  BY <1>1 DEF FifosWithout
<1>6. OnlyOwn(s)
  BY <1>3, <1>4, <1>5 DEF OnlyOwn
<1>7. TimerHeld(s)' /\ PairHeld(s)' /\ StateHeld(s)' /\ QueueHeld(s)'
  BY <1>2 DEF TimerHeld, PairHeld, StateHeld, QueueHeld, InUse, Conn, HasPair, Queued,
              FifoLength, FinStates, ZeroTcb
<1>8. SocketsHeld'
  BY <1>6, <1>7, OtherHolds DEF SocketsHeld
<1>9. PairsApart'
  BY <1>2 DEF HeldInv, PairsApart, Conn, HasPair, ZeroTcb
<1>10. FifosClaimed'
  <2> SUFFICES ASSUME NEW g \in Fifos, fifo'[g] # Unowned
               PROVE  \E r \in Sockets : g \in {tcb'[r].rx, tcb'[r].tx}
    BY DEF FifosClaimed
  <2>1. g \notin {tcb[s].rx, tcb[s].tx} /\ fifo[g] # Unowned
    BY <1>5
  <2>2. PICK r \in Sockets : g \in {tcb[r].rx, tcb[r].tx}
    BY <2>1 DEF HeldInv, FifosClaimed
  <2>3. QED
    BY <1>2, <2>1, <2>2
<1>11. TimersClaimed'
  <2> SUFFICES ASSUME NEW t \in Timers, timers'[t].callback = "tcp_timeout"
               PROVE  \E r \in Sockets : InUse(r)' /\ tcb'[r].timer = t
    BY DEF TimersClaimed
  <2>1. t # tcb[s].timer
    BY <1>4, NamesAssumption
  <2>2. PICK r \in Sockets : InUse(r) /\ tcb[r].timer = t
    BY <1>4, <2>1 DEF HeldInv, TimersClaimed
  <2>3. QED
    BY <1>2, <2>1, <2>2 DEF InUse
<1>12. ForeignTimerUntouched'
  <2>1. ForeignTimer \in Timers \ {tcb[s].timer}
    BY ForeignApart, TimerMaxAssumption DEF ForeignTimer, Timers
  <2>2. QED
    BY <1>4, <2>1 DEF HeldInv, ForeignTimerUntouched
<1>13. QED
  BY <1>8, <1>9, <1>10, <1>11, <1>12 DEF HeldInv, StackHeld

\* The events in which an application frees a socket: the last ones, from which
\* tcp.c goes on with nothing that concerns the socket.
FreesLate ==
  \A app \in Apps, event \in Events : "free" \in Calls[app][event] => event \in FinalEvents

LEMMA SocketFreeHeld ==
  ASSUME FreesLate, TypeOK, TypeOK', HeldInv, NEW s \in Sockets, tcp_socket_free(s)
  PROVE  HeldInv'
<1>1. MayCall("free", s) /\ InUse(s) /\ TcbFree(s) /\ UNCHANGED stack
  BY DEF tcp_socket_free
<1>2. stack \in Seq(Frame) /\ FramesHeld(tcb, stack)
  BY DEF TypeOK, HeldInv, StackHeld
<1>3. CASE Idle
  <2>1. stack' = <<>>
    BY <1>1, <1>3 DEF Idle
  <2>2. QED
    BY <1>1, <2>1, FramesEmpty, FreeHeld
<1>4. CASE /\ At("callback") /\ Head(stack).app \in Apps
           /\ "free" \in Calls[Head(stack).app][Head(stack).event]
  <2>1. stack # <<>> /\ Head(stack) \in CallbackFrame
    BY <1>4, TopTyped, TypeParts DEF At
  <2>2. Head(stack).at = "callback" /\ Head(stack).event \in FinalEvents
    BY <1>4, <2>1 DEF FreesLate, CallbackFrame
  <2>3. /\ Tail(stack) = <<>> \/ (Len(Tail(stack)) = 1 /\ Tail(stack)[1].at = "tick")
        /\ FramesHeld(tcb, Tail(stack)) /\ Tail(stack) \in Seq(Frame)
    BY <1>2, <2>1, <2>2, FramesPopped, TopTyped, TypeParts
  <2> DEFINE rest == Tail(stack)
  <2>4. ASSUME NEW i \in 1 .. Len(stack)
        PROVE  FrameHeld(tcb', stack, i)
    <3>1. /\ Len(stack) = Len(rest) + 1 /\ Head(stack) = stack[1] /\ Len(rest) \in Nat
          /\ \A j \in 1 .. Len(rest) : rest[j] = stack[j + 1]
      BY <1>2, <2>1
    <3> HIDE DEF rest
    <3>2. Len(rest) \in {0, 1} /\ (Len(rest) = 1 => rest[1].at = "tick")
      <4>1. rest = <<>> \/ (Len(rest) = 1 /\ rest[1].at = "tick")
        BY <2>3 DEF rest
      <4>2. Len(<<>>) = 0
        OBVIOUS
      <4>3. QED
        BY <4>1, <4>2
    <3>3. Len(rest) = 1 => stack[1 + 1].at = "tick"
      <4>1. Len(rest) = 1 => 1 \in 1 .. Len(rest)
        OBVIOUS
      <4>2. QED
        BY <3>1, <3>2, <4>1
    <3>4. \/ i = 1 /\ (Len(stack) = 1 \/ (1 + 1 = Len(stack) /\ Len(rest) = 1))
          \/ i = 1 + 1 /\ Len(stack) = 1 + 1 /\ Len(rest) = 1
      <4>1. \A n, m \in Nat : \A j \in 1 .. n :
              n = m + 1 /\ m \in {0, 1} =>
                \/ j = 1 /\ (n = 1 \/ (1 + 1 = n /\ m = 1))
                \/ j = 1 + 1 /\ n = 1 + 1 /\ m = 1
        OBVIOUS
      <4>2. Len(stack) \in Nat
        BY <1>2
      <4>3. QED
        BY <3>1, <3>2, <4>1, <4>2, Zenon
    <3>5. QED
      BY <2>2, <3>1, <3>3, <3>4 DEF FrameHeld
  <2>5. FramesHeld(tcb', stack)
    BY <2>4 DEF FramesHeld
  <2>6. QED
    BY <1>1, <2>5, FreeHeld
<1>5. QED
  BY <1>1, <1>3, <1>4 DEF MayCall

-----------------------------------------------------------------------------
(* A received segment.                                                     *)

LEMMA OnlyStack ==
  ASSUME HeldInv, UNCHANGED <<tcb, timers, fifo, finSent>>, StackHeld'
  PROVE  HeldInv'
<1>1. SocketsHeld'
  <2> SUFFICES ASSUME NEW s \in Sockets
               PROVE  TimerHeld(s)' /\ PairHeld(s)' /\ StateHeld(s)' /\ QueueHeld(s)'
    BY DEF SocketsHeld
  <2>1. TimerHeld(s) /\ PairHeld(s) /\ StateHeld(s) /\ QueueHeld(s)
    BY DEF HeldInv, SocketsHeld
  <2>2. TimerHeld(s)' /\ PairHeld(s)'
    BY <2>1 DEF TimerHeld, PairHeld, InUse, Conn
  <2>3. StateHeld(s)' /\ QueueHeld(s)'
    BY <2>1 DEF StateHeld, QueueHeld, Conn, Queued, FifoLength
  <2>4. QED
    BY <2>2, <2>3
<1>2. PairsApart' /\ FifosClaimed'
  BY DEF HeldInv, PairsApart, FifosClaimed, Conn
<1>3. TimersClaimed' /\ ForeignTimerUntouched'
  BY DEF HeldInv, TimersClaimed, ForeignTimerUntouched, InUse
<1>4. QED
  BY <1>1, <1>2, <1>3 DEF HeldInv

\* A step that leaves the table alone, and of the fifos the queues to send.
LEMMA StillStep ==
  ASSUME TypeOK, TypeOK', HeldInv, NEW s \in Sockets, Conn(s), UNCHANGED <<tcb, finSent>>,
         TablesKept(s), FifosKept(s), fifo'[tcb[s].tx] = fifo[tcb[s].tx], StackHeld'
  PROVE  HeldInv'
<1>1. Kept(s)
  BY DEF Kept, OthersKept, OwnKept
<1>2. Queued(tcb[s])' = Queued(tcb[s])
  BY QueueIsThere
<1>3. QueueHeld(s)'
  BY <1>2, InConnection DEF QueueHeld
<1>4. QED
  BY <1>1, <1>3, InConnection, ConnStep

LEMMA SynSentHeld ==
  ASSUME TypeOK, TypeOK', HeldInv, NEW s \in Sockets,
         \/ RcvSynSentSynAck(s) \/ RcvSynSentSyn(s) \/ RcvSynSentReset(s) \/ RcvSynSentOther(s)
  PROVE  HeldInv'
<1>1. tcb[s].state = "syn_sent" /\ Idle /\ UNCHANGED <<fifo, finSent>>
  BY DEF RcvSynSentSynAck, RcvSynSentSyn, RcvSynSentReset, RcvSynSentOther, InSynSent, Reached
<1>2. /\ Conn(s) /\ tcb[s] \in Tcb /\ SameOwner(s, tcb[s])
      /\ tcb[s].seqNext <= Queued(tcb[s])
  BY <1>1, SocketTyped, InConnection DEF SameOwner
<1>3. <<>> \in Seq(Frame) /\ FramesHeld(tcb, <<>>)
  BY FramesEmpty
<1>4. FifosKept(s)
  BY <1>1, FifoKept
<1>5. CASE TcbClose(s, tcb[s], "error", <<>>)
  <2>1. Raisable("error", <<>>)
    BY DEF Raisable
  <2>2. QED
    BY <1>1, <1>2, <1>3, <1>4, <1>5, <2>1, CloseStep
<1>6. CASE RcvSynSentSynAck(s) /\ ~TcbClose(s, tcb[s], "error", <<>>)
  <2> DEFINE u == [tcb[s] EXCEPT !.state = "established"]
             below == Resume("arm_idle", s, 0, FALSE)
  <2>1. /\ tcb' = [tcb EXCEPT ![s] = u] /\ timers' = Stop(timers, tcb[s].timer)
        /\ Raise(s, tcb[s].callback, "established", below)
    BY <1>6 DEF RcvSynSentSynAck, TypeOK
  <2>2. /\ u \in Tcb /\ SameOwner(s, u) /\ u.state = "established"
        /\ u.seqNext = tcb[s].seqNext
    BY <1>2 DEF Tcb, TcpStates, SameOwner
  <2> HIDE DEF u
  <2>3. tcb'[s] = u
    BY <2>1 DEF TypeOK
  <2>4. TablesKept(s)
    BY <2>1, TimerCallsKept
  <2>5. Queued(tcb[s])' = Queued(tcb[s])
    BY <1>1, <2>2, <2>3, QueueIsThere DEF SameOwner
  <2>6. StackHeld'
    <3>1. below \in Seq(Frame) /\ FramesHeld(tcb, below)
      <4>1. 0 \in Nat /\ FALSE \in BOOLEAN
        OBVIOUS
      <4>2. QED
        BY <1>2, <4>1, FramesTyped, FramesResumed DEF Conn
    <3>2. Raisable("established", below)
      BY DEF Raisable, FinalEvents
    <3>3. HasPair(tcb'[s])
      BY <1>2, <2>2, <2>3 DEF SameOwner, Conn, HasPair
    <3> HIDE DEF below
    <3>4. QED
      BY <2>1, <2>2, <3>1, <3>2, <3>3, MovedTable, RaiseHeld
  <2>7. u.state \notin FinStates
    BY <2>2 DEF FinStates
  <2>8. QED
    BY <1>1, <1>2, <1>4, <2>1, <2>2, <2>4, <2>5, <2>6, <2>7, MoveStep
<1>7. CASE RcvSynSentSyn(s) /\ ~TcbClose(s, tcb[s], "error", <<>>)
  <2> DEFINE u == [tcb[s] EXCEPT !.state = "syn_received", !.rtx = RtxSynAck]
  <2>1. Rearmed(s, u, <<>>)
    BY <1>7 DEF RcvSynSentSyn
  <2>2. /\ u \in Tcb /\ SameOwner(s, u) /\ u.state = "syn_received"
        /\ u.seqNext = tcb[s].seqNext
    <3>1. "syn_received" \in TcpStates /\ RtxSynAck \in Int
      BY RtxAssumption DEF TcpStates
    <3>2. QED
      BY <1>2, <3>1 DEF Tcb, SameOwner
  <2> HIDE DEF u
  <2>3. u.state \notin FinStates
    BY <2>2 DEF FinStates
  <2>4. QED
    BY <1>1, <1>2, <1>3, <2>1, <2>2, <2>3, RearmStep
<1>8. CASE RcvSynSentOther(s)
  <2>1. timers' = Stop(timers, tcb[s].timer) /\ UNCHANGED <<tcb, fifo, stack, told, finSent>>
    BY <1>8 DEF RcvSynSentOther
  <2>2. TablesKept(s)
    BY <2>1, TimerCallsKept
  <2>3. StackHeld'
    BY <2>1 DEF HeldInv, StackHeld
  <2>4. QED
    BY <1>2, <1>4, <2>1, <2>2, <2>3, StillStep
<1>9. QED
  BY <1>5, <1>6, <1>7, <1>8 DEF RcvSynSentReset

LEMMA ResetSegmentHeld ==
  ASSUME TypeOK, TypeOK', HeldInv, NEW s \in Sockets, RcvReset(s) \/ RcvLastAck(s)
  PROVE  HeldInv'
<1>1. /\ tcb[s].state \notin {"unused", "listen", "closed"} /\ UNCHANGED <<fifo, finSent>>
      /\ TcbClose(s, tcb[s], "reset", <<>>) \/ TcbClose(s, tcb[s], "closed", <<>>)
  BY DEF RcvReset, RcvLastAck, InState, SynchronizedStates, DataStates
<1>2. /\ Conn(s) /\ tcb[s] \in Tcb /\ SameOwner(s, tcb[s])
      /\ tcb[s].seqNext <= Queued(tcb[s])
  BY <1>1, SocketTyped, InConnection DEF SameOwner
<1>3. <<>> \in Seq(Frame) /\ FramesHeld(tcb, <<>>) /\ \A event : Raisable(event, <<>>)
  BY FramesEmpty DEF Raisable
<1>4. FifosKept(s)
  BY <1>1, FifoKept
<1>5. QED
  BY <1>1, <1>2, <1>3, <1>4, CloseStep

LEMMA AckBeyondHeld ==
  ASSUME TypeOK, TypeOK', HeldInv, NEW s \in Sockets, RcvAckBeyond(s)
  PROVE  HeldInv'
<1>1. tcb[s].state \in DataStates /\ UNCHANGED <<fifo, finSent>>
  BY DEF RcvAckBeyond, InState
<1>2. /\ Conn(s) /\ tcb[s] \in Tcb /\ SameOwner(s, tcb[s])
      /\ tcb[s].seqNext <= Queued(tcb[s])
  BY <1>1, SocketTyped, InConnection DEF SameOwner, DataStates
<1>3. FifosKept(s)
  BY <1>1, FifoKept
<1>4. CASE TcbClose(s, tcb[s], "error", <<>>)
  <2>1. <<>> \in Seq(Frame) /\ FramesHeld(tcb, <<>>) /\ Raisable("error", <<>>)
    BY FramesEmpty DEF Raisable
  <2>2. QED
    BY <1>1, <1>2, <1>3, <1>4, <2>1, CloseStep
<1>5. ASSUME NEW n \in SentUpTo(tcb[s]), tcb' = [tcb EXCEPT ![s].seqNext = n],
             UNCHANGED <<timers, stack, told>>
      PROVE  HeldInv'
  <2> DEFINE u == [tcb[s] EXCEPT !.seqNext = n]
  <2>1. n \in Nat /\ n <= Queued(tcb[s])
    <3>1. n \in Nat
      BY <1>2, QueuedTyped, TypeParts
    <3>2. tcb[s].seqNext \in Int /\ Queued(tcb[s]) \in Int
      BY <1>2, QueuedTyped, TypeParts DEF Tcb
    <3>3. QED
      BY <3>1, <3>2 DEF SentUpTo
  <2>2. u \in Tcb /\ SameOwner(s, u) /\ u.state = tcb[s].state /\ u.seqNext = n
    BY <1>2, <2>1 DEF Tcb, SameOwner
  <2>3. tcb' = [tcb EXCEPT ![s] = u]
    BY <1>5 DEF TypeOK
  <2> HIDE DEF u
  <2>4. tcb'[s] = u
    BY <2>3 DEF TypeOK
  <2>5. Queued(tcb[s])' = Queued(tcb[s])
    BY <1>1, <2>2, <2>4, QueueIsThere DEF SameOwner
  <2>6. StackHeld' /\ TablesKept(s)
    <3>1. u.state # "unused"
      BY <1>1, <2>2 DEF DataStates
    <3>2. Outlasts(tcb', tcb)
      BY <2>2, <2>3, <3>1, MovedTable
    <3>3. QED
      BY <1>5, <3>2, StackStays, TimerCallsKept
  <2>7. QED
    BY <1>1, <1>2, <1>3, <2>1, <2>2, <2>3, <2>5, <2>6, InConnection, MoveStep
<1>6. QED
  BY <1>4, <1>5 DEF RcvAckBeyond

LEMMA AckHeld ==
  ASSUME TypeOK, TypeOK', HeldInv, NEW s \in Sockets, NEW len \in Lengths, NEW fin \in BOOLEAN,
         \/ RcvSynReceivedAck(s, len, fin)
         \/ RcvAckNothing(s, len, fin)
         \/ RcvAckOfFin(s, len, fin)
         \/ \E n \in 1 .. FifoSize : RcvAckData(s, n, len, fin)
  PROVE  HeldInv'
<1>1. tcb[s].state \in SynchronizedStates /\ Idle /\ UNCHANGED finSent
  BY DEF RcvSynReceivedAck, RcvAckNothing, RcvAckOfFin, RcvAckData, InState, Reached,
         SynchronizedStates, DataStates
<1>2. /\ Conn(s) /\ tcb[s] \in Tcb /\ SameOwner(s, tcb[s]) /\ tcb[s].state \notin {"unused", "listen"}
      /\ tcb[s].seqNext <= Queued(tcb[s])
  BY <1>1, SocketTyped, InConnection DEF SameOwner, SynchronizedStates, DataStates
<1>3. ASSUME NEW label \in {"arm_idle", "acked", "rearm", "text", "received", "fin"}
      PROVE  /\ Resume(label, s, len, fin) \in Seq(Frame)
             /\ FramesHeld(tcb, Resume(label, s, len, fin))
  <2>1. len \in Nat
    BY RtxAssumption DEF Lengths
  <2>2. QED
    BY <1>2, <2>1, FramesTyped, FramesResumed DEF Conn
<1>4. CASE RcvSynReceivedAck(s, len, fin)
  <2> DEFINE u == [tcb[s] EXCEPT !.state = "established"]
             below == Resume("arm_idle", s, len, fin)
  <2>1. /\ tcb' = [tcb EXCEPT ![s] = u] /\ UNCHANGED <<timers, fifo>>
        /\ Raise(s, tcb[s].callback, "established", below)
    BY <1>4 DEF RcvSynReceivedAck, TypeOK
  <2>2. /\ u \in Tcb /\ SameOwner(s, u) /\ u.state = "established"
        /\ u.seqNext = tcb[s].seqNext
    BY <1>2 DEF Tcb, TcpStates, SameOwner
  <2> HIDE DEF u
  <2>3. tcb'[s] = u
    BY <2>1 DEF TypeOK
  <2>4. TablesKept(s) /\ FifosKept(s)
    BY <2>1, TimerCallsKept, FifoKept
  <2>5. Queued(tcb[s])' = Queued(tcb[s])
    BY <2>1, <2>2, <2>3, QueueIsThere DEF SameOwner
  <2>6. StackHeld'
    <3>1. below \in Seq(Frame) /\ FramesHeld(tcb, below)
      BY <1>3
    <3>2. Raisable("established", below)
      BY DEF Raisable, FinalEvents
    <3>3. HasPair(tcb'[s])
      BY <1>2, <2>2, <2>3 DEF SameOwner, Conn, HasPair
    <3> HIDE DEF below
    <3>4. QED
      BY <2>1, <2>2, <3>1, <3>2, <3>3, MovedTable, RaiseHeld
  <2>7. u.state \notin FinStates
    BY <2>2 DEF FinStates
  <2>8. QED
    BY <1>1, <1>2, <2>1, <2>2, <2>4, <2>5, <2>6, <2>7, MoveStep
<1>5. CASE RcvAckNothing(s, len, fin)
  <2>1. UNCHANGED <<tcb, timers, fifo, finSent>> /\ stack' = Resume("text", s, len, fin)
    BY <1>5 DEF RcvAckNothing, GoOn
  <2>2. StackHeld'
    BY <1>3, <2>1 DEF StackHeld
  <2>3. QED
    BY <2>1, <2>2, OnlyStack
<1>6. CASE RcvAckOfFin(s, len, fin)
  <2> DEFINE u == [tcb[s] EXCEPT !.state = "fin_wait_2"]
             below == Resume("text", s, len, fin)
  <2>1. Rearmed(s, u, below) /\ UNCHANGED <<fifo, finSent>> /\ tcb[s].state = "fin_wait_1"
    BY <1>6 DEF RcvAckOfFin, InState
  <2>2. /\ u \in Tcb /\ SameOwner(s, u) /\ u.state = "fin_wait_2"
        /\ u.seqNext = tcb[s].seqNext
    BY <1>2 DEF Tcb, TcpStates, SameOwner
  <2>3. below \in Seq(Frame) /\ FramesHeld(tcb, below)
    BY <1>3
  <2>4. finSent'[s] /\ Queued(tcb[s]) = 0
    BY <2>1, InConnection DEF FinStates
  <2> HIDE DEF u, below
  <2>5. QED
    BY <1>2, <2>1, <2>2, <2>3, <2>4, RearmStep
<1>7. ASSUME NEW n \in 1 .. FifoSize, RcvAckData(s, n, len, fin)
      PROVE  HeldInv'
  <2> DEFINE u == [tcb[s] EXCEPT !.seqNext = @ - n, !.rtx = RtxData]
             below == Resume("acked", s, len, fin)
             f == tcb[s].tx
             left == fifo[f] - Least(n, fifo[f])
  <2>1. /\ tcb' = [tcb EXCEPT ![s] = u] /\ UNCHANGED timers
        /\ Raise(s, tcb[s].callback, "data_acked", below)
        /\ n \in 1 .. tcb[s].seqNext
    BY <1>7 DEF RcvAckData, TypeOK
  <2>2. Queued(tcb[s]) = fifo[f] /\ f \in Fifos /\ f # NoFifo
    BY <1>2, SocketTyped DEF HeldInv, SocketsHeld, PairHeld, Conn, HasPair, NoFifo, Queued,
                             FifoLength
  <2>3. tcb[s].seqNext \in Int /\ fifo[f] \in Int /\ n \in Int /\ 1 <= n /\ n <= tcb[s].seqNext
    <3>1. Queued(tcb[s]) \in Int /\ tcb[s].seqNext \in Int
      BY <1>2, QueuedTyped, TypeParts DEF Tcb
    <3>2. QED
      BY <2>1, <2>2, <3>1
  <2>4. left = fifo[f] - n /\ left \in Nat /\ tcb[s].seqNext - n \in Nat
        /\ tcb[s].seqNext - n <= left
    <3>1. n <= fifo[f] /\ tcb[s].seqNext <= fifo[f]
      BY <1>2, <2>2, <2>3
    <3>2. left = fifo[f] - n
      BY <3>1 DEF Least
    <3> HIDE DEF left
    <3>3. QED
      BY <2>3, <3>1, <3>2
  <2>5. /\ u \in Tcb /\ SameOwner(s, u) /\ u.state = tcb[s].state
        /\ u.seqNext = tcb[s].seqNext - n
    <3>1. RtxData \in Int
      BY RtxAssumption
    <3>2. QED
      BY <1>2, <2>4, <3>1 DEF Tcb, SameOwner
  <2>6. fifo' = [fifo EXCEPT ![f] = left]
    BY <1>7, <2>2 DEF RcvAckData, TypeOK
  <2> HIDE DEF u, left
  <2>7. FifosKept(s) /\ fifo'[f] = left
    BY <1>2, <2>4, <2>6, FifoChangeKept
  <2>8. tcb'[s] = u
    BY <2>1 DEF TypeOK
  <2>9. Queued(tcb[s])' = left
    BY <2>2, <2>5, <2>7, <2>8 DEF Queued, FifoLength, SameOwner
  <2>10. TablesKept(s)
    BY <2>1, TimerCallsKept
  <2>11. StackHeld'
    <3>1. below \in Seq(Frame) /\ FramesHeld(tcb, below)
      BY <1>3
    <3>2. Raisable("data_acked", below)
      BY DEF Raisable, FinalEvents
    <3>3. HasPair(tcb'[s])
      BY <1>2, <2>5, <2>8 DEF SameOwner, Conn, HasPair
    <3> HIDE DEF below
    <3>4. QED
      BY <1>2, <2>1, <2>5, <3>1, <3>2, <3>3, MovedTable, RaiseHeld
  <2>12. u.state \notin FinStates
    <3>1. tcb[s].state \in FinStates => FALSE
      BY <1>2, <2>2, <2>3, InConnection
    <3>2. QED
      BY <2>5, <3>1
  <2>13. QED
    BY <1>1, <1>2, <2>1, <2>4, <2>5, <2>7, <2>9, <2>10, <2>11, <2>12, MoveStep
<1>8. QED
  BY <1>4, <1>5, <1>6, <1>7

LEMMA PacketHeld ==
  ASSUME TypeOK, TypeOK', HeldInv, tcp_handle_packet
  PROVE  HeldInv'
<1>1. PICK s \in Sockets :
        \/ \E remote \in Remotes : RcvListenSyn(s, remote)
        \/ RcvSynSentSynAck(s) \/ RcvSynSentSyn(s) \/ RcvSynSentReset(s) \/ RcvSynSentOther(s)
        \/ RcvReset(s) \/ RcvLastAck(s) \/ RcvAckBeyond(s)
        \/ \E len \in Lengths, fin \in BOOLEAN :
             \/ RcvSynReceivedAck(s, len, fin)
             \/ RcvAckNothing(s, len, fin)
             \/ RcvAckOfFin(s, len, fin)
             \/ \E n \in 1 .. FifoSize : RcvAckData(s, n, len, fin)
  BY DEF tcp_handle_packet
<1>2. QED
  BY <1>1, ListenSynHeld, SynSentHeld, ResetSegmentHeld, AckBeyondHeld, AckHeld
-----------------------------------------------------------------------------
(* The rest of a handler, after a callback.                                *)

\* What the invariant says of the segment a handler goes on with.
LEMMA SegmentOwner ==
  ASSUME TypeOK, HeldInv, NEW label \in {"arm_idle", "acked", "rearm", "text", "received", "fin"},
         At(label)
  PROVE  \E s \in Sockets :
           /\ s = Top.sock /\ Conn(s) /\ tcb[s] \in Tcb /\ SameOwner(s, tcb[s])
           /\ Tail(stack) = <<>>
           /\ \A next \in {"text", "rearm", "received", "fin"}, len \in Nat :
                /\ Resume(next, s, len, Top.fin) \o Tail(stack) \in Seq(Frame)
                /\ FramesHeld(tcb, Resume(next, s, len, Top.fin) \o Tail(stack))
<1>1. /\ Top.sock \in Sockets /\ Top.fin \in BOOLEAN /\ tcb[Top.sock] \in Tcb
      /\ \A next \in {"text", "rearm", "received", "fin"}, len \in Nat :
           Resume(next, Top.sock, len, Top.fin) \o Tail(stack) \in Seq(Frame)
  BY SegmentTyped
<1>2. stack \in Seq(Frame) /\ stack # <<>> /\ FramesHeld(tcb, stack) /\ Top.at = label
  BY DEF TypeOK, HeldInv, StackHeld, At, Top
<1>3. Tail(stack) = <<>> /\ HasPair(tcb[Top.sock])
  BY <1>2, FramesPopped DEF Top
<1>4. ASSUME NEW next \in {"text", "rearm", "received", "fin"}, NEW len \in Nat
      PROVE  FramesHeld(tcb, Resume(next, Top.sock, len, Top.fin) \o Tail(stack))
  <2>1. FramesHeld(tcb, Resume(next, Top.sock, len, Top.fin))
    BY <1>3, FramesResumed
  <2>2. Resume(next, Top.sock, len, Top.fin) \o <<>> = Resume(next, Top.sock, len, Top.fin)
    <3>1. \A x : <<x>> \o <<>> = <<x>>
      OBVIOUS
    <3>2. QED
      BY <3>1 DEF Resume
  <2>3. QED
    BY <1>3, <2>1, <2>2
<1>5. QED
  BY <1>1, <1>3, <1>4 DEF SameOwner, Conn

\* The steps that only arm the timer, or only go on.
LEMMA OnlyArmHeld ==
  ASSUME TypeOK, TypeOK', HeldInv,
         NEW label \in {"arm_idle", "rearm", "text", "received", "fin"}, At(label),
         NEW next \in {"text", "fin"}, NEW len \in Nat,
         \/ GoOn(Resume(next, Top.sock, len, Top.fin) \o Tail(stack))
         \/ GoOn(Tail(stack)),
         ArmTimer(tcb[Top.sock]) \/ UNCHANGED timers, UNCHANGED <<tcb, fifo, finSent>>
  PROVE  HeldInv'
<1>1. PICK s \in Sockets :
        /\ s = Top.sock /\ Conn(s) /\ Tail(stack) = <<>>
        /\ FramesHeld(tcb, Resume(next, s, len, Top.fin) \o Tail(stack))
  BY SegmentOwner
<1>2. FramesHeld(tcb, stack')
  BY <1>1, FramesEmpty DEF GoOn
<1>3. StackHeld'
  BY <1>2 DEF StackHeld
<1>4. TablesKept(s) /\ FifosKept(s)
  BY <1>1, TimerCallsKept, FifoKept
<1>5. QED
  BY <1>1, <1>3, <1>4, StillStep

LEMMA CallbackReturnHeld ==
  ASSUME TypeOK, HeldInv, CallbackReturn
  PROVE  HeldInv'
<1>1. stack \in Seq(Frame) /\ stack # <<>> /\ FramesHeld(tcb, stack)
  BY DEF TypeOK, HeldInv, StackHeld, CallbackReturn, At
<1>2. FramesHeld(tcb, Tail(stack))
  BY <1>1, FramesPopped
<1>3. UNCHANGED <<tcb, timers, fifo, finSent>> /\ stack' = Tail(stack)
  BY DEF CallbackReturn
<1>4. StackHeld'
  BY <1>2, <1>3 DEF StackHeld
<1>5. QED
  BY <1>3, <1>4, OnlyStack

LEMMA TickEndsHeld ==
  ASSUME TypeOK, HeldInv, TickEnds
  PROVE  HeldInv'
<1> DEFINE t == Head(stack).timer
<1>1. stack \in Seq(Frame) /\ stack # <<>> /\ FramesHeld(tcb, stack)
  BY DEF TypeOK, HeldInv, StackHeld, TickEnds, At
<1>2. FramesHeld(tcb, Tail(stack))
  BY <1>1, FramesPopped
<1>3. /\ UNCHANGED <<tcb, fifo, finSent>> /\ stack' = Tail(stack)
      /\ timers' = AfterCallback(timers, t)
  BY DEF TickEnds
<1>4. StackHeld'
  BY <1>2, <1>3 DEF StackHeld
<1>5. /\ \A u \in Timers :
           /\ timers'[u].callback = timers[u].callback /\ timers'[u].arg = timers[u].arg
           /\ timers[u].state # "running" => timers'[u].state # "running"
      /\ timers[ForeignTimer] = ForeignEntry => timers'[ForeignTimer] = ForeignEntry
  <2>1. timers \in [Timers -> [callback : {NoCallback, "tcp_timeout", "other"},
                               arg : Sockets \union {NoArg}, state : States, mode : Modes]]
    BY DEF TypeOK
  <2>2. timers' = timers \/ timers' = [timers EXCEPT ![t].state = "stopped"]
    BY <1>3 DEF AfterCallback
  <2> HIDE DEF t
  <2>3. \A u \in Timers :
          /\ timers'[u].callback = timers[u].callback /\ timers'[u].arg = timers[u].arg
          /\ timers[u].state # "running" => timers'[u].state # "running"
    BY <2>1, <2>2
  <2>4. ForeignTimer \in Timers
    BY TimerMaxAssumption DEF ForeignTimer, Timers
  <2>5. timers[ForeignTimer] = ForeignEntry => timers'[ForeignTimer] = ForeignEntry
    BY <2>1, <2>2, <2>4 DEF ForeignEntry
  <2>6. QED
    BY <2>3, <2>5
<1>6. SocketsHeld'
  <2> SUFFICES ASSUME NEW s \in Sockets
               PROVE  TimerHeld(s)' /\ PairHeld(s)' /\ StateHeld(s)' /\ QueueHeld(s)'
    BY DEF SocketsHeld
  <2>1. TimerHeld(s) /\ PairHeld(s) /\ StateHeld(s) /\ QueueHeld(s)
    BY DEF HeldInv, SocketsHeld
  <2>2. TimerHeld(s)'
    <3>1. tcb[s].timer # NoTimer => tcb[s].timer \in Timers
      BY SocketTyped
    <3>2. QED
      BY <1>3, <1>5, <2>1, <3>1 DEF TimerHeld, InUse, Conn
  <2>3. PairHeld(s)' /\ StateHeld(s)' /\ QueueHeld(s)'
    BY <1>3, <2>1 DEF PairHeld, StateHeld, QueueHeld, Conn, Queued, FifoLength
  <2>4. QED
    BY <2>2, <2>3
<1>7. PairsApart' /\ FifosClaimed'
  BY <1>3 DEF HeldInv, PairsApart, FifosClaimed, Conn
<1>8. TimersClaimed' /\ ForeignTimerUntouched'
  BY <1>3, <1>5 DEF HeldInv, TimersClaimed, ForeignTimerUntouched, InUse
<1>9. QED
  BY <1>4, <1>6, <1>7, <1>8 DEF HeldInv

LEMMA DropHeld ==
  ASSUME TypeOK, TypeOK', HeldInv, DropConnection
  PROVE  HeldInv'
<1>1. stack \in Seq(Frame) /\ stack # <<>> /\ FramesHeld(tcb, stack) /\ Head(stack).at = "drop"
  BY DEF TypeOK, HeldInv, StackHeld, DropConnection, At
<1>2. HasPair(tcb[Head(stack).sock]) /\ Tail(stack) = <<>>
  BY <1>1, FramesPopped
<1>3. PICK s \in Sockets : s = Head(stack).sock
  <2>1. Head(stack) \in DropFrame
    BY <1>1, TopTyped, TypeParts DEF At
  <2>2. QED
    BY <2>1 DEF DropFrame
<1>4. InUse(s)
  BY <1>2, <1>3, InConnection DEF Conn, InUse
<1>5. TcbFree(s) /\ stack' = <<>>
  BY <1>2, <1>3 DEF DropConnection
<1>6. QED
  BY <1>4, <1>5, FramesEmpty, FreeHeld

LEMMA IncomingHeld ==
  ASSUME TypeOK, TypeOK', HeldInv, Incoming
  PROVE  HeldInv'
<1>1. stack \in Seq(Frame) /\ stack # <<>> /\ FramesHeld(tcb, stack) /\ Head(stack).at = "incoming"
  BY DEF TypeOK, HeldInv, StackHeld, Incoming, At
<1>2. Head(stack) \in IncomingFrame
  BY <1>1, TopTyped, TypeParts DEF At
<1>3. PICK new \in Sockets : new = Head(stack).sock
  BY <1>2 DEF IncomingFrame
<1>4. PICK l \in Sockets : l = Head(stack).listener
  BY <1>2 DEF IncomingFrame
<1>5. Conn(new) /\ InUse(l) /\ Tail(stack) = <<>>
  <2>1. HasPair(tcb[new]) /\ tcb[l].state # "unused"
    BY <1>1, <1>3, <1>4, FramesPopped
  <2>2. Tail(stack) = <<>>
    BY <1>1, FramesPopped
  <2>3. QED
    BY <2>1, <2>2 DEF Conn, InUse
<1>6. tcb[new] \in Tcb /\ tcb[l] \in Tcb /\ tcb \in [Sockets -> Tcb]
  BY SocketTyped DEF TypeOK
<1>7. <<>> \in Seq(Frame) /\ FramesHeld(tcb, <<>>)
  BY FramesEmpty
<1>8. CASE IncomingRefused(new)
  <2>1. TcbFree(new) /\ stack' = <<>>
    BY <1>5, <1>8 DEF IncomingRefused
  <2>2. InUse(new)
    BY <1>5, InConnection DEF InUse
  <2>3. QED
    BY <2>1, <2>2, FramesEmpty, FreeHeld
<1>9. CASE /\ tcb[new].state = "accepted" /\ UNCHANGED <<fifo, finSent>>
           /\ tcb' = [tcb EXCEPT ![new].state = "syn_received", ![new].rtx = RtxSynAck]
           /\ ArmTimer(tcb[new])
           /\ GoOn(Tail(stack))
  <2> DEFINE u == [tcb[new] EXCEPT !.state = "syn_received", !.rtx = RtxSynAck]
  <2>1. /\ u \in Tcb /\ SameOwner(new, u) /\ u.state = "syn_received"
        /\ u.seqNext = tcb[new].seqNext
    <3>1. "syn_received" \in TcpStates /\ RtxSynAck \in Int
      BY RtxAssumption DEF TcpStates
    <3>2. QED
      BY <1>6, <3>1 DEF Tcb, SameOwner
  <2>2. tcb' = [tcb EXCEPT ![new] = u]
    BY <1>6, <1>9
  <2> HIDE DEF u
  <2>3. Rearmed(new, u, <<>>)
    BY <1>5, <1>9, <2>1, <2>2 DEF Rearmed, ArmTimer, SameOwner
  <2>4. u.state \notin FinStates
    BY <2>1 DEF FinStates
  <2>5. QED
    BY <1>5, <1>7, <1>9, <2>1, <2>3, <2>4, InConnection, RearmStep
<1>10. CASE /\ UNCHANGED <<fifo, finSent>>
            /\ tcb' = [tcb EXCEPT ![l].state = "closed"]
            /\ timers' = Stop(timers, tcb[l].timer)
            /\ Raise(new, tcb[l].callback, "error",
                     <<[at |-> "drop", sock |-> new]>> \o Tail(stack))
  <2> DEFINE u == [tcb[l] EXCEPT !.state = "closed"]
             drop == [at |-> "drop", sock |-> new]
             below == <<drop>> \o Tail(stack)
  <2>1. /\ u \in Tcb /\ SameOwner(l, u) /\ u.state = "closed" /\ u.seqNext = tcb[l].seqNext
        /\ tcb' = [tcb EXCEPT ![l] = u]
    BY <1>6, <1>10 DEF Tcb, TcpStates, SameOwner
  <2> HIDE DEF u
  <2>2. tcb'[l] = u
    BY <1>6, <2>1
  <2>3. Outlasts(tcb', tcb)
    BY <2>1, MovedTable
  <2>4. below \in Seq(Frame) /\ FramesHeld(tcb, below)
    <3>1. drop \in Frame /\ drop.at = "drop" /\ drop.sock = new
      BY FramesTyped
    <3> HIDE DEF drop
    <3>2. Len(<<drop>>) = 1 /\ <<drop>>[1] = drop /\ <<drop>> \in Seq(Frame)
      BY <3>1
    <3>3. FrameHeld(tcb, <<drop>>, 1)
      BY <1>5, <3>1, <3>2 DEF FrameHeld, Conn
    <3>4. FramesHeld(tcb, <<drop>>)
      BY <3>2, <3>3 DEF FramesHeld
    <3>5. below = <<drop>>
      <4>1. \A x : <<x>> \o <<>> = <<x>>
        OBVIOUS
      <4>2. QED
        BY <1>5, <4>1
    <3>6. QED
      BY <3>2, <3>4, <3>5
  <2>5. StackHeld'
    <3>1. Raisable("error", below)
      BY DEF Raisable, FinalEvents
    <3>2. HasPair(tcb'[new])
      BY <1>5, <2>3 DEF Outlasts, Conn
    <3>3. Raise(new, tcb[l].callback, "error", below)
      BY <1>10
    <3> HIDE DEF below
    <3>4. QED
      BY <2>3, <2>4, <3>1, <3>2, <3>3, RaiseHeld
  <2>6. Queued(tcb[l])' = Queued(tcb[l])
    BY <1>10, <2>1, <2>2, QueueIsThere DEF SameOwner
  <2>7. CASE Conn(l)
    <3>1. TablesKept(l) /\ FifosKept(l)
      BY <1>10, TimerCallsKept, FifoKept
    <3>2. u.state \notin FinStates
      BY <2>1 DEF FinStates
    <3>3. QED
      BY <1>10, <2>1, <2>5, <2>6, <2>7, <3>1, <3>2, InConnection, MoveStep
  <2>8. CASE ~Conn(l)
    <3>1. timers' = Stop(timers, u.timer)
      BY <1>10, <2>1 DEF SameOwner
    <3>2. QED
      BY <1>5, <1>10, <2>1, <2>5, <2>8, <3>1, RestStep DEF SameOwner
  <2>9. QED
    BY <2>7, <2>8
<1>11. QED
  BY <1>3, <1>4, <1>8, <1>9, <1>10 DEF Incoming, IncomingAccepted

\* What tcp_send_packet may have sent: no more than is queued.
LEMMA SentTyped ==
  ASSUME TypeOK, NEW t \in Tcb, NEW n \in SentUpTo(t)
  PROVE  n \in Nat /\ n <= Queued(t)
<1>1. n \in Nat
  BY QueuedTyped, TypeParts
<1>2. t.seqNext \in Int /\ Queued(t) \in Int
  BY QueuedTyped, TypeParts DEF Tcb
<1>3. QED
  BY <1>1, <1>2 DEF SentUpTo

LEMMA AckedHeld ==
  ASSUME TypeOK, TypeOK', HeldInv, Acked
  PROVE  HeldInv'
<1>1. At("acked") /\ UNCHANGED <<fifo, finSent>>
  BY DEF Acked
<1>2. PICK s \in Sockets :
        /\ s = Top.sock /\ Conn(s) /\ tcb[s] \in Tcb /\ SameOwner(s, tcb[s])
        /\ \A next \in {"text", "rearm", "received", "fin"}, len \in Nat :
             /\ Resume(next, s, len, Top.fin) \o Tail(stack) \in Seq(Frame)
             /\ FramesHeld(tcb, Resume(next, s, len, Top.fin) \o Tail(stack))
  BY <1>1, SegmentOwner
<1>3. Top.len \in Nat
  BY <1>1, SegmentTyped
<1> DEFINE text == Resume("text", s, Top.len, Top.fin) \o Tail(stack)
           rearm == Resume("rearm", s, Top.len, Top.fin) \o Tail(stack)
<1>4. /\ text \in Seq(Frame) /\ FramesHeld(tcb, text)
      /\ rearm \in Seq(Frame) /\ FramesHeld(tcb, rearm)
  BY <1>2, <1>3
<1>5. \/ \E n \in SentUpTo(tcb[s]) : Rearmed(s, [tcb[s] EXCEPT !.seqNext = n], text)
      \/ TcbClose(s, tcb[s], "error", rearm)
      \/ Rearmed(s, tcb[s], text)
  BY <1>2 DEF Acked
<1>6. /\ tcb[s].state \notin {"unused", "listen"} /\ tcb[s].seqNext <= Queued(tcb[s])
      /\ tcb[s].state \in FinStates => finSent'[s] /\ Queued(tcb[s]) = 0
  BY <1>1, <1>2, InConnection
<1> HIDE DEF text, rearm
<1>7. CASE \E n \in SentUpTo(tcb[s]) : Rearmed(s, [tcb[s] EXCEPT !.seqNext = n], text)
  <2>1. PICK n \in SentUpTo(tcb[s]) : Rearmed(s, [tcb[s] EXCEPT !.seqNext = n], text)
    BY <1>7
  <2>2. n \in Nat /\ n <= Queued(tcb[s])
    BY <1>2, SentTyped
  <2> DEFINE u == [tcb[s] EXCEPT !.seqNext = n]
  <2>3. u \in Tcb /\ SameOwner(s, u) /\ u.state = tcb[s].state /\ u.seqNext = n
    BY <1>2, <2>2 DEF Tcb, SameOwner
  <2> HIDE DEF u
  <2>4. Rearmed(s, u, text)
    BY <2>1 DEF u
  <2>5. QED
    BY <1>1, <1>2, <1>4, <1>6, <2>2, <2>3, <2>4, RearmStep
<1>8. CASE TcbClose(s, tcb[s], "error", rearm)
  <2>1. FifosKept(s) /\ Raisable("error", rearm)
    BY <1>1, FifoKept DEF Raisable, FinalEvents
  <2>2. QED
    BY <1>1, <1>2, <1>4, <1>6, <1>8, <2>1, CloseStep
<1>9. CASE Rearmed(s, tcb[s], text)
  BY <1>1, <1>2, <1>4, <1>6, <1>9, RearmStep
<1>10. QED
  BY <1>5, <1>7, <1>8, <1>9

LEMMA TextQueuedHeld ==
  ASSUME TypeOK, TypeOK', HeldInv, TextQueued
  PROVE  HeldInv'
<1>1. At("text") /\ UNCHANGED finSent
  BY DEF TextQueued
<1>2. PICK s \in Sockets :
        /\ s = Top.sock /\ Conn(s) /\ tcb[s] \in Tcb /\ SameOwner(s, tcb[s])
        /\ Tail(stack) = <<>>
        /\ \A next \in {"text", "rearm", "received", "fin"}, len \in Nat :
             /\ Resume(next, s, len, Top.fin) \o Tail(stack) \in Seq(Frame)
             /\ FramesHeld(tcb, Resume(next, s, len, Top.fin) \o Tail(stack))
  BY <1>1, SegmentOwner
<1> DEFINE f == tcb[s].rx
           n == Least(Top.len, FifoSpace(f))
           filled == fifo[f] + n
           received == Resume("received", s, Top.len - n, Top.fin) \o Tail(stack)
<1>3. /\ n > 0 /\ fifo' = [fifo EXCEPT ![f] = @ + n]
      /\ \/ TcbClose(s, tcb[s], "error", Tail(stack))
         \/ /\ \E upTo \in IF Top.fin THEN {tcb[s].seqNext} ELSE SentUpTo(tcb[s]) :
                 tcb' = [tcb EXCEPT ![s].seqNext = upTo]
            /\ ArmTimer(tcb[s]) \/ UNCHANGED timers
            /\ Raise(s, tcb[s].callback, "data_received", received)
  BY <1>2 DEF TextQueued
<1>4. /\ tcb[s].state \notin {"unused", "listen"} /\ tcb[s].seqNext <= Queued(tcb[s])
      /\ tcb[s].state \in FinStates => finSent'[s] /\ Queued(tcb[s]) = 0
  BY <1>1, <1>2, InConnection
<1>5. f \in Fifos /\ f # NoFifo /\ f \in {tcb[s].rx, tcb[s].tx} /\ fifo[f] \in 0 .. FifoSize
  <2>1. f \in Fifos /\ f # NoFifo /\ fifo[f] # Unowned
    BY <1>2, SocketTyped DEF HeldInv, SocketsHeld, PairHeld, Conn, HasPair
  <2>2. QED
    BY <2>1 DEF TypeOK
<1>6. n \in Nat /\ Top.len - n \in Nat /\ filled \in Nat /\ fifo' = [fifo EXCEPT ![f] = filled]
  <2>1. Top.len \in Nat
    BY <1>1, SegmentTyped
  <2>2. FifoSpace(f) \in Nat
    BY <1>5, SizesAssumption DEF FifoSpace
  <2>3. n \in Nat /\ Top.len - n \in Nat
    BY <2>1, <2>2 DEF Least
  <2> HIDE DEF n
  <2>4. QED
    BY <1>3, <1>5, <2>3 DEF TypeOK
<1>7. received \in Seq(Frame) /\ FramesHeld(tcb, received)
  BY <1>2, <1>6
<1> HIDE DEF n, filled, received
<1>8. FifosKept(s) /\ fifo'[tcb[s].tx] = fifo[tcb[s].tx]
  BY <1>2, <1>5, <1>6, FifoChangeKept
<1>9. CASE TcbClose(s, tcb[s], "error", Tail(stack))
  <2>1. /\ Tail(stack) \in Seq(Frame) /\ FramesHeld(tcb, Tail(stack))
        /\ Raisable("error", Tail(stack))
    <3>1. <<>> \in Seq(Frame) /\ FramesHeld(tcb, <<>>) /\ Raisable("error", <<>>)
      BY FramesEmpty DEF Raisable
    <3>2. QED
      BY <1>2, <3>1, Zenon
  <2>2. QED
    BY <1>1, <1>2, <1>4, <1>8, <1>9, <2>1, CloseStep
<1>10. CASE /\ \E upTo \in IF Top.fin THEN {tcb[s].seqNext} ELSE SentUpTo(tcb[s]) :
                 tcb' = [tcb EXCEPT ![s].seqNext = upTo]
            /\ ArmTimer(tcb[s]) \/ UNCHANGED timers
            /\ Raise(s, tcb[s].callback, "data_received", received)
  <2>1. PICK upTo \in IF Top.fin THEN {tcb[s].seqNext} ELSE SentUpTo(tcb[s]) :
          tcb' = [tcb EXCEPT ![s].seqNext = upTo]
    BY <1>10
  <2>2. upTo \in Nat /\ upTo <= Queued(tcb[s])
    <3>1. tcb[s].seqNext \in Nat
      BY <1>2 DEF Tcb
    <3>2. upTo = tcb[s].seqNext \/ upTo \in SentUpTo(tcb[s])
      OBVIOUS
    <3>3. QED
      BY <1>2, <1>4, <3>1, <3>2, SentTyped
  <2> DEFINE u == [tcb[s] EXCEPT !.seqNext = upTo]
  <2>3. u \in Tcb /\ SameOwner(s, u) /\ u.state = tcb[s].state /\ u.seqNext = upTo
    BY <1>2, <2>2 DEF Tcb, SameOwner
  <2>4. tcb' = [tcb EXCEPT ![s] = u]
    BY <2>1 DEF TypeOK
  <2> HIDE DEF u
  <2>5. tcb'[s] = u
    BY <2>4 DEF TypeOK
  <2>6. Queued(tcb[s])' = Queued(tcb[s])
    BY <1>8, <2>3, <2>5, QueueIsThere DEF SameOwner
  <2>7. TablesKept(s)
    BY <1>10, TimerCallsKept
  <2>8. StackHeld'
    <3>1. Raisable("data_received", received)
      BY DEF Raisable, FinalEvents
    <3>2. HasPair(tcb'[s])
      BY <1>2, <2>3, <2>5 DEF SameOwner, Conn, HasPair
    <3>3. Outlasts(tcb', tcb)
      BY <1>4, <2>3, <2>4, MovedTable
    <3>4. QED
      BY <1>7, <1>10, <3>1, <3>2, <3>3, RaiseHeld
  <2>9. QED
    BY <1>1, <1>2, <1>4, <1>8, <2>2, <2>3, <2>4, <2>6, <2>7, <2>8, MoveStep
<1>11. QED
  BY <1>3, <1>9, <1>10

LEMMA FinTakenHeld ==
  ASSUME TypeOK, TypeOK', HeldInv, FinTaken
  PROVE  HeldInv'
<1>1. At("fin") /\ UNCHANGED <<fifo, finSent>>
  BY DEF FinTaken
<1>2. PICK s \in Sockets :
        s = Top.sock /\ Conn(s) /\ tcb[s] \in Tcb /\ SameOwner(s, tcb[s]) /\ Tail(stack) = <<>>
  BY <1>1, SegmentOwner
<1>3. <<>> \in Seq(Frame) /\ FramesHeld(tcb, <<>>)
  BY FramesEmpty
<1> DEFINE t == tcb[s]
           next == AfterFin(t.state)
           turned == IF t.state = "fin_wait_1" THEN [t EXCEPT !.state = "time_wait"] ELSE t
<1>4. /\ tcb[s].state \notin {"unused", "listen", "closed", "syn_sent"}
      /\ \/ /\ \E n \in SentUpTo(t) :
                 tcb' = [tcb EXCEPT ![s] = [t EXCEPT !.state = next, !.seqNext = n]]
            /\ ArmTimer(t) \/ UNCHANGED timers
            /\ GoOn(<<>>)
         \/ TcbClose(s, turned, "error", <<>>)
  BY <1>2, InConnection DEF FinTaken
<1>5. /\ tcb[s].state \notin {"unused", "listen"} /\ tcb[s].seqNext <= Queued(tcb[s])
      /\ tcb[s].state \in FinStates => finSent'[s] /\ Queued(tcb[s]) = 0
  BY <1>1, <1>2, InConnection
<1>6. /\ next \in TcpStates /\ next \notin {"unused", "listen"}
      /\ next \in FinStates => t.state \in FinStates
  <2>1. t.state \in TcpStates
    BY <1>2 DEF Tcb
  <2>2. QED
    BY <1>4, <2>1 DEF AfterFin, FinStates, TcpStates
<1>7. turned \in Tcb /\ SameOwner(s, turned) /\ turned.seqNext = t.seqNext
  BY <1>2 DEF Tcb, TcpStates, SameOwner
<1>8. FifosKept(s)
  BY <1>1, FifoKept
<1> HIDE DEF next, turned
<1>9. CASE TcbClose(s, turned, "error", <<>>)
  <2>1. Raisable("error", <<>>)
    BY DEF Raisable
  <2>2. QED
    BY <1>1, <1>2, <1>3, <1>5, <1>7, <1>8, <1>9, <2>1, CloseStep
<1>10. CASE /\ \E n \in SentUpTo(t) :
                 tcb' = [tcb EXCEPT ![s] = [t EXCEPT !.state = next, !.seqNext = n]]
            /\ ArmTimer(t) \/ UNCHANGED timers
            /\ GoOn(<<>>)
  <2>1. PICK n \in SentUpTo(t) :
          tcb' = [tcb EXCEPT ![s] = [t EXCEPT !.state = next, !.seqNext = n]]
    BY <1>10
  <2>2. n \in Nat /\ n <= Queued(tcb[s])
    BY <1>2, SentTyped
  <2> DEFINE u == [t EXCEPT !.state = next, !.seqNext = n]
  <2>3. u \in Tcb /\ SameOwner(s, u) /\ u.state = next /\ u.seqNext = n
    BY <1>2, <1>6, <2>2 DEF Tcb, SameOwner
  <2>4. tcb' = [tcb EXCEPT ![s] = u]
    BY <2>1
  <2> HIDE DEF u
  <2>5. tcb'[s] = u
    BY <2>4 DEF TypeOK
  <2>6. Queued(tcb[s])' = Queued(tcb[s])
    BY <1>1, <2>3, <2>5, QueueIsThere DEF SameOwner
  <2>7. TablesKept(s)
    BY <1>10, TimerCallsKept
  <2>8. StackHeld'
    <3>1. Outlasts(tcb', tcb)
      BY <1>6, <2>3, <2>4, MovedTable
    <3>2. QED
      BY <1>3, <1>10, <3>1, GoOnHeld
  <2>9. QED
    BY <1>1, <1>2, <1>5, <1>6, <1>8, <2>2, <2>3, <2>4, <2>6, <2>7, <2>8, MoveStep
<1>11. QED
  BY <1>4, <1>9, <1>10

LEMMA HandlerHeld ==
  ASSUME TypeOK, TypeOK', HeldInv, HandlerStep
  PROVE  HeldInv'
<1>1. ASSUME NEW label \in {"arm_idle", "rearm", "text", "received", "fin"}, At(label)
      PROVE  Top.len \in Nat /\ 0 \in Nat
  BY <1>1, SegmentTyped
<1>2. CASE ArmIdle
  <2>1. At("arm_idle")
    BY <1>2 DEF ArmIdle
  <2>2. QED
    BY <1>1, <1>2, <2>1, OnlyArmHeld DEF ArmIdle
<1>3. CASE Rearm
  <2>1. At("rearm")
    BY <1>3 DEF Rearm
  <2>2. QED
    BY <1>1, <1>3, <2>1, OnlyArmHeld DEF Rearm
<1>4. CASE TextNone \/ TextNoRoom
  <2>1. At("text")
    BY <1>4 DEF TextNone, TextNoRoom
  <2>2. QED
    BY <1>1, <1>4, <2>1, OnlyArmHeld DEF TextNone, TextNoRoom
<1>5. CASE Received
  <2>1. At("received")
    BY <1>5 DEF Received
  <2>2. QED
    BY <1>1, <1>5, <2>1, OnlyArmHeld DEF Received
<1>6. CASE FinIgnored
  <2>1. At("fin")
    BY <1>6 DEF FinIgnored
  <2>2. QED
    BY <1>1, <1>6, <2>1, OnlyArmHeld DEF FinIgnored
<1>7. QED
  BY <1>2, <1>3, <1>4, <1>5, <1>6, CallbackReturnHeld, IncomingHeld, DropHeld, TickEndsHeld,
     AckedHeld, TextQueuedHeld, FinTakenHeld DEF HandlerStep

-----------------------------------------------------------------------------
(* The theorems.                                                           *)

LEMMA ApiHeld ==
  ASSUME FreesLate, TypeOK, TypeOK', HeldInv, Api
  PROVE  HeldInv'
<1>1. CASE \E app \in Apps : tcp_socket_alloc(app)
  BY <1>1, SocketAllocHeld
<1>2. ASSUME NEW s \in Sockets,
             \/ \E port \in ListenPorts : tcp_listen(s, port)
             \/ \E remote \in Remotes : tcp_connect(s, remote)
             \/ tcp_accept(s)
             \/ tcp_close(s)
             \/ tcp_socket_free(s)
             \/ \E n \in 1 .. FifoSize : tcp_read(s, n) \/ tcp_write(s, n)
      PROVE  HeldInv'
  BY <1>2, ListenHeld, ConnectHeld, AcceptHeld, CloseHeld, SocketFreeHeld, ReadHeld, WriteHeld
<1>3. QED
  BY <1>1, <1>2 DEF Api

LEMMA InitHeld == Init => HeldInv
<1> SUFFICES ASSUME Init PROVE HeldInv
  OBVIOUS
<1>1. \A s \in Sockets : tcb[s] = ZeroTcb
  BY DEF Init
<1>2. ForeignTimer \in Timers
  BY TimerMaxAssumption DEF ForeignTimer, Timers
<1>3. SocketsHeld
  <2> SUFFICES ASSUME NEW s \in Sockets
               PROVE  TimerHeld(s) /\ PairHeld(s) /\ StateHeld(s) /\ QueueHeld(s)
    BY DEF SocketsHeld
  <2>1. QED
    BY <1>1 DEF TimerHeld, PairHeld, StateHeld, QueueHeld, InUse, Conn, HasPair, Queued,
                FifoLength, FinStates, ZeroTcb
<1>4. PairsApart /\ FifosClaimed
  BY <1>1 DEF Init, PairsApart, FifosClaimed, Conn, HasPair, ZeroTcb
<1>5. timers[ForeignTimer] = ForeignEntry /\ \A t \in Timers : timers[t] \in {ForeignEntry, EmptyEntry}
  BY <1>2, OtherTimersAssumption DEF Init, ForeignTimer
<1>6. TimersClaimed /\ ForeignTimerUntouched
  BY <1>5, NamesAssumption DEF TimersClaimed, ForeignTimerUntouched, ForeignEntry, EmptyEntry
<1>7. StackHeld
  BY FramesEmpty DEF Init, StackHeld
<1>8. QED
  BY <1>3, <1>4, <1>6, <1>7 DEF HeldInv

LEMMA NextHeld == FreesLate /\ TypeOK /\ TypeOK' /\ HeldInv /\ [Next]_vars => HeldInv'
<1> SUFFICES ASSUME FreesLate, TypeOK, TypeOK', HeldInv, [Next]_vars PROVE HeldInv'
  OBVIOUS
<1>1. CASE UNCHANGED vars
  <2>1. UNCHANGED <<tcb, timers, fifo, stack, finSent>>
    BY <1>1 DEF vars
  <2>2. StackHeld'
    BY <2>1 DEF HeldInv, StackHeld
  <2>3. QED
    BY <2>1, <2>2, OnlyStack
<1>2. CASE Next
  BY <1>2, ApiHeld, PacketHeld, TimerExpiresHeld, HandlerHeld DEF Next
<1>3. QED
  BY <1>1, <1>2

\* Every socket has the timer and the fifos its state calls for, and no handler
\* goes on after a callback with a TCB that the callback has freed: what makes
\* tcp.c safe against the applications it calls in the middle of its handlers
\* (tcp.c:451-820).
THEOREM HeldAlways == ASSUME FreesLate PROVE Spec => []HeldInv
<1>1. FreesLate
  OBVIOUS
<1>2. TypeOK /\ TypeOK' /\ HeldInv /\ [Next]_vars => HeldInv'
  BY <1>1, NextHeld
<1>3. QED
  BY <1>2, InitHeld, TypeCorrect, PTL DEF Spec

LEMMA HeldTimers == TypeOK /\ HeldInv => TimersOwned
BY DEF HeldInv, SocketsHeld, TimerHeld, TimersClaimed, TimersOwned

LEMMA HeldFifos == TypeOK /\ HeldInv => FifosOwned
<1> SUFFICES ASSUME TypeOK, HeldInv PROVE FifosOwned
  OBVIOUS
<1>1. ASSUME NEW s \in Sockets
      PROVE  /\ Conn(s) => /\ FifosOf(s) = {tcb[s].rx, tcb[s].tx} /\ tcb[s].rx # tcb[s].tx
                           /\ tcb[s].rx \in Fifos /\ tcb[s].tx \in Fifos
                           /\ fifo[tcb[s].rx] # Unowned /\ fifo[tcb[s].tx] # Unowned
             /\ ~Conn(s) => FifosOf(s) = {}
             /\ tcb[s].state \in SynchronizedStates \union {"syn_sent"} => Conn(s)
  <2>1. PairHeld(s)
    BY DEF HeldInv, SocketsHeld
  <2>2. tcb[s].rx \in Nat /\ tcb[s].tx \in Nat
        /\ (tcb[s].rx # NoFifo => tcb[s].rx \in Fifos)
        /\ (tcb[s].tx # NoFifo => tcb[s].tx \in Fifos)
    BY SocketTyped
  <2>3. Conn(s) => tcb[s].rx # NoFifo /\ tcb[s].tx # NoFifo /\ tcb[s].rx # tcb[s].tx
    BY <2>1, <2>2 DEF PairHeld, Conn, HasPair, NoFifo
  <2>4. ~Conn(s) => tcb[s].rx = NoFifo /\ tcb[s].tx = NoFifo
    BY <2>1 DEF PairHeld, Conn, HasPair
  <2>5. tcb[s].state \in SynchronizedStates \union {"syn_sent"} => Conn(s)
    BY InConnection DEF SynchronizedStates, DataStates
  <2>6. QED
    BY <2>1, <2>2, <2>3, <2>4, <2>5 DEF PairHeld, FifosOf
<1>2. {f \in Fifos : fifo[f] # Unowned} = UNION {FifosOf(s) : s \in Sockets}
  <2>1. ASSUME NEW f \in Fifos, fifo[f] # Unowned
        PROVE  \E s \in Sockets : f \in FifosOf(s)
    <3>1. PICK s \in Sockets : f \in {tcb[s].rx, tcb[s].tx}
      BY <2>1 DEF HeldInv, FifosClaimed
    <3>2. f # NoFifo
      BY DEF Fifos, NoFifo
    <3>3. QED
      BY <3>1, <3>2 DEF FifosOf
  <2>2. ASSUME NEW s \in Sockets, NEW f \in FifosOf(s)
        PROVE  f \in Fifos /\ fifo[f] # Unowned
    BY <1>1
  <2>3. QED
    BY <2>1, <2>2
<1>3. ASSUME NEW s \in Sockets, NEW r \in Sockets \ {s}
      PROVE  FifosOf(s) \intersect FifosOf(r) = {}
  <2>1. CASE Conn(s) /\ Conn(r)
    BY <1>1, <2>1, FifosApart
  <2>2. CASE ~(Conn(s) /\ Conn(r))
    BY <1>1, <2>2
  <2>3. QED
    BY <2>1, <2>2
<1>4. QED
  BY <1>1, <1>2, <1>3 DEF FifosOwned

LEMMA HeldQueues == HeldInv => PeekInBounds /\ FinIsLast
BY DEF HeldInv, SocketsHeld, QueueHeld, PeekInBounds, FinIsLast, FinStates

\* The timer table's tcp entries and the sockets in use belong to one another:
\* tcp_tcb_free gives a timer back before the TCB is cleared, and a tick never
\* hands tcp_timeout a TCB that is no longer in use.
THEOREM EveryTimerOwned == ASSUME FreesLate PROVE Spec => []TimersOwned
BY HeldTimers, TypeCorrect, HeldAlways, PTL

\* No fifo leaks, none is given back twice and none is shared, whichever of the
\* allocations of a connect or an incoming SYN fails and however the connection
\* ends: by a close, a reset, a timeout, a refusal or tcp_socket_free.
THEOREM EveryFifoOwned == ASSUME FreesLate PROVE Spec => []FifosOwned
BY HeldFifos, TypeCorrect, HeldAlways, PTL

\* A TCB that tcp_tcb_free has cleared names timer 0, and tcp.c calls timer_stop,
\* timer_set and timer_free with what a TCB names: never with a cleared one.
THEOREM TimerZeroUntouched == ASSUME FreesLate PROVE Spec => []ForeignTimerUntouched
<1>1. HeldInv => ForeignTimerUntouched
  BY DEF HeldInv
<1>2. QED
  BY <1>1, HeldAlways, PTL

\* The offset tcp_send_packet gives fifo_peek lies in the data: an acknowledgment
\* takes from the queue what it takes from seq_next (tcp.c:451-555).
THEOREM PeeksInBounds == ASSUME FreesLate PROVE Spec => []PeekInBounds
BY HeldQueues, HeldAlways, PTL

\* Nobody writes to a socket that has said it is at its end: when its own FIN has
\* left, all the data has been sent and acknowledged.
THEOREM FinLast == ASSUME FreesLate PROVE Spec => []FinIsLast
BY HeldQueues, HeldAlways, PTL

\* The hypothesis of the theorems above holds of the applications of app/:
\* echod_socket_callback and tp_socket_callback free their socket in
\* tcp_event_connection_closed, httpd_socket_callback never does.
THEOREM RepositoryAppsFreeLate ==
  ASSUME \A app \in Apps : Calls[app] \in {EchodCalls, HttpdCalls, TpCalls}
  PROVE  FreesLate
<1> SUFFICES ASSUME NEW app \in Apps, NEW event \in Events, "free" \in Calls[app][event]
             PROVE  event \in FinalEvents
  BY DEF FreesLate
<1>1. event = "closed"
  BY DEF EchodCalls, HttpdCalls, TpCalls, NoCalls, Events
<1>2. QED
  BY <1>1 DEF FinalEvents

-----------------------------------------------------------------------------
(* What the owner of a socket was told, and who has which port.            *)

\* Every segment leaves: the hardware addresses are known.
AllSent == SendResults \subseteq {TRUE}

\* No application closes its socket when told that it is established or that data
\* was acknowledged, the events after which tcp.c goes on to arm the timer.
ClosesLate ==
  \A app \in Apps, event \in Events :
    "close" \in Calls[app][event] => event \notin {"established", "data_acked"}

OpeningStates == {"syn_sent", "syn_received", "not_accepted", "accepted"}
OpenStates == {"established", "start_close", "fin_wait_1", "fin_wait_2",
               "close_wait", "last_ack", "time_wait"}

\* The state of a socket and where its owner is fit one another.
Fits(state, where) ==
  /\ state \in {"unused", "listen"} => where = "nothing"
  /\ state = "closed" => where \in {"nothing", "opening", "over"}
  /\ state \in OpeningStates => where = "opening"
  /\ state \in OpenStates => where = "open"

\* No other socket in use has the port of s: only then may a closed socket that its
\* timer makes a connection (tcp.c:720) become one.
PortAlone(s) == \A r \in Sockets : InUse(r) /\ tcb[r].port = tcb[s].port => r = s

TimerRuns(s) == tcb[s].timer # NoTimer /\ timers[tcb[s].timer].state = "running"

SocketTold(s) ==
  /\ Fits(tcb[s].state, told[s])
  /\ ~Conn(s) => told[s] = "nothing"
  /\ InUse(s) /\ TimerRuns(s) => told[s] \in {"opening", "open"}
  /\ tcb[s].state = "closed" /\ told[s] = "opening" => PortAlone(s)
SocketsTold == \A s \in Sockets : SocketTold(s)

\* The function that frame stands for, at the bottom of the call stack, finds its
\* socket in a state that fits what it does next.
FrameTold(table, frame) ==
  /\ frame.at \notin {"drop", "rearm"}
  /\ frame.at = "incoming" => table[frame.sock].state \in {"not_accepted", "accepted"}
  /\ frame.at \in {"text", "received", "fin"} =>
       table[frame.sock].state \in OpenStates \union {"closed"}
  /\ frame.at \in {"arm_idle", "acked"} => table[frame.sock].state \in OpenStates

\* When it will arm the timer, nothing but the callback it waits for is on top of it,
\* and that one does not close.
ArmsNext(frame) == frame.at \in {"arm_idle", "acked"}
Lone(q) == Len(q) = 1 \/ (Len(q) = 2 /\ Head(q).event \in {"established", "data_acked"})

Base(q) == q[Len(q)]
FramesTold(table, q) ==
  q # <<>> => FrameTold(table, Base(q)) /\ (ArmsNext(Base(q)) => Lone(q))
StackTold == FramesTold(tcb, stack)

\* The inductive invariant, on top of HeldInv.
ToldInv == SocketsTold /\ StackTold /\ ConnectionsUnique

-----------------------------------------------------------------------------
(* The bottom of the stack.                                                *)

LEMMA BaseOfTail ==
  ASSUME NEW q \in Seq(Frame), Tail(q) # <<>>, q # <<>>
  PROVE  Base(Tail(q)) = Base(q) /\ Len(q) = Len(Tail(q)) + 1 /\ Len(q) >= 2
BY DEF Base

LEMMA BaseOfPushed ==
  ASSUME NEW q \in Seq(Frame), NEW top, q # <<>>
  PROVE  Base(<<top>> \o q) = Base(q) /\ Len(<<top>> \o q) = Len(q) + 1
BY DEF Base

LEMMA BaseOfOne ==
  ASSUME NEW top
  PROVE  Base(<<top>>) = top /\ Len(<<top>>) = 1 /\ <<top>> \o <<>> = <<top>>
BY DEF Base

LEMMA BaseOfTwo ==
  ASSUME NEW top, NEW next
  PROVE  /\ Base(<<top>> \o <<next>>) = next /\ Len(<<top>> \o <<next>>) = 2
         /\ Head(<<top>> \o <<next>>) = top
BY DEF Base

LEMMA FramesToldPopped ==
  ASSUME NEW q \in Seq(Frame), q # <<>>, NEW table, FramesTold(table, q)
  PROVE  FramesTold(table, Tail(q))
<1> SUFFICES ASSUME Tail(q) # <<>>
             PROVE  FrameTold(table, Base(q)) /\ (ArmsNext(Base(q)) => Lone(Tail(q)))
  BY BaseOfTail DEF FramesTold
<1>1. Len(q) = Len(Tail(q)) + 1 /\ Len(q) >= 2 /\ Len(Tail(q)) \in Nat
  BY BaseOfTail
<1>2. Lone(q) => Lone(Tail(q))
  BY <1>1 DEF Lone
<1>3. QED
  BY <1>2 DEF FramesTold

\* A callback is raised on a function that does not arm the timer next.
LEMMA FramesToldPushed ==
  ASSUME NEW q \in Seq(Frame), NEW top, top.at = "callback", NEW table,
         FramesTold(table, q), q = <<>> \/ ~ArmsNext(Base(q))
  PROVE  FramesTold(table, <<top>> \o q)
<1>1. CASE q = <<>>
  <2>1. Base(<<top>>) = top /\ <<top>> \o q = <<top>>
    BY <1>1, BaseOfOne
  <2>2. QED
    BY <2>1 DEF FramesTold, FrameTold, ArmsNext
<1>2. CASE q # <<>>
  <2>1. Base(<<top>> \o q) = Base(q)
    BY <1>2, BaseOfPushed
  <2>2. QED
    BY <1>2, <2>1 DEF FramesTold
<1>3. QED
  BY <1>1, <1>2

LEMMA FramesToldOne ==
  ASSUME NEW frame, NEW table, FrameTold(table, frame)
  PROVE  FramesTold(table, <<frame>>)
BY BaseOfOne DEF FramesTold, Lone

LEMMA FramesToldTwo ==
  ASSUME NEW frame, NEW top, NEW table, FrameTold(table, frame),
         ArmsNext(frame) => top.event \in {"established", "data_acked"}
  PROVE  FramesTold(table, <<top>> \o <<frame>>)
BY BaseOfTwo DEF FramesTold, Lone

\* What becomes of one socket leaves the stack as it should be.
LEMMA FramesToldMoved ==
  ASSUME NEW q \in Seq(Frame), TypeOK, NEW s \in Sockets, NEW u, tcb' = [tcb EXCEPT ![s] = u],
         FramesTold(tcb, q),
         \/ u.state = tcb[s].state
         \/ u.state \in OpenStates /\ tcb[s].state \in OpenStates
         \/ /\ q = <<>> \/ ~ArmsNext(Base(q))
            /\ u.state \in OpenStates \union {"closed"}
            /\ tcb[s].state \notin {"not_accepted", "accepted"}
         \/ u.state = "accepted" /\ tcb[s].state = "not_accepted"
  PROVE  FramesTold(tcb', q)
<1> SUFFICES ASSUME q # <<>> PROVE FrameTold(tcb', Base(q))
  BY DEF FramesTold
<1>1. tcb'[s] = u /\ \A r \in Sockets \ {s} : tcb'[r] = tcb[r]
  BY DEF TypeOK
<1>2. Base(q) \in Frame
  BY DEF Base
<1>3. Base(q).at \notin {"callback", "tick"} => Base(q).sock \in Sockets
  BY <1>2 DEF Frame, CallbackFrame, IncomingFrame, DropFrame, TickFrame, SegmentFrame
<1>4. FrameTold(tcb, Base(q))
  BY DEF FramesTold
<1> DEFINE base == Base(q)
<1> HIDE DEF base
<1>5. base = Base(q)
  BY DEF base
<1>6. CASE base.sock = s
  BY <1>1, <1>4, <1>5, <1>6 DEF FrameTold, ArmsNext, OpenStates
<1>7. CASE base.sock # s
  BY <1>1, <1>3, <1>4, <1>5, <1>7 DEF FrameTold
<1>8. QED
  BY <1>6, <1>7

-----------------------------------------------------------------------------
(* Steps that move one socket.                                             *)

SameEnds(s, u) == SameOwner(s, u) /\ u.remote = tcb[s].remote

Linked(state) == state \notin {"unused", "listen", "closed"}

LEMMA UsedStays ==
  ASSUME TypeOK, NEW s \in Sockets, InUse(s), NEW u, SameEnds(s, u), u.state # "unused",
         tcb' = [tcb EXCEPT ![s] = u]
  PROVE  /\ tcb'[s] = u /\ \A r \in Sockets \ {s} : tcb'[r] = tcb[r]
         /\ \A r \in Sockets : /\ InUse(r)' <=> InUse(r)
                               /\ Conn(r)' <=> Conn(r)
                               /\ tcb'[r].port = tcb[r].port
                               /\ tcb'[r].remote = tcb[r].remote
                               /\ tcb'[r].timer = tcb[r].timer
         /\ \A r \in Sockets : PortAlone(r) => PortAlone(r)'
<1>1. tcb'[s] = u /\ \A r \in Sockets \ {s} : tcb'[r] = tcb[r]
  BY DEF TypeOK
<1>2. \A r \in Sockets : /\ InUse(r)' <=> InUse(r)
                         /\ Conn(r)' <=> Conn(r)
                         /\ tcb'[r].port = tcb[r].port
                         /\ tcb'[r].remote = tcb[r].remote
                         /\ tcb'[r].timer = tcb[r].timer
  <2> SUFFICES ASSUME NEW r \in Sockets
               PROVE  /\ InUse(r)' <=> InUse(r)
                      /\ Conn(r)' <=> Conn(r)
                      /\ tcb'[r].port = tcb[r].port
                      /\ tcb'[r].remote = tcb[r].remote
                      /\ tcb'[r].timer = tcb[r].timer
    OBVIOUS
  <2>1. CASE r = s
    BY <1>1, <2>1 DEF InUse, Conn, HasPair, SameEnds, SameOwner
  <2>2. CASE r # s
    BY <1>1, <2>2 DEF InUse, Conn, HasPair
  <2>3. QED
    BY <2>1, <2>2
<1>3. \A r \in Sockets : PortAlone(r) => PortAlone(r)'
  BY <1>2 DEF PortAlone
<1>4. QED
  BY <1>1, <1>2, <1>3

\* The connections stay apart when one socket changes its state: a socket that was
\* none before must be alone on its port.
LEMMA UniqueMoved ==
  ASSUME TypeOK, ConnectionsUnique, NEW s \in Sockets, InUse(s), NEW u, SameEnds(s, u),
         u.state # "unused", tcb' = [tcb EXCEPT ![s] = u],
         Linked(u.state) => Linked(tcb[s].state) \/ PortAlone(s)
  PROVE  ConnectionsUnique'
<1> SUFFICES ASSUME NEW port \in Ports, NEW remote \in Remotes,
                    NEW a \in Connected(port, remote)', NEW b \in Connected(port, remote)'
             PROVE  a = b
  BY DEF ConnectionsUnique
<1>1. /\ tcb'[s] = u /\ \A r \in Sockets \ {s} : tcb'[r] = tcb[r]
      /\ \A r \in Sockets : tcb'[r].port = tcb[r].port /\ tcb'[r].remote = tcb[r].remote
  BY UsedStays
<1>2. \A r \in {a, b} : /\ r \in Sockets /\ Linked(tcb'[r].state)
                        /\ tcb[r].port = port /\ tcb[r].remote = remote
  BY <1>1 DEF Connected, Linked
<1>3. \A r \in {a, b} : Linked(tcb[r].state) => r \in Connected(port, remote)
  BY <1>2 DEF Connected, Linked
<1>4. \A r \in {a, b} : r # s => Linked(tcb[r].state) /\ InUse(r)
  BY <1>1, <1>2 DEF Linked, InUse
<1>5. CASE \A r \in {a, b} : Linked(tcb[r].state)
  BY <1>3, <1>5 DEF ConnectionsUnique
<1>6. CASE PortAlone(s) /\ s \in {a, b}
  BY <1>2, <1>4, <1>6 DEF PortAlone
<1>7. QED
  BY <1>1, <1>2, <1>4, <1>5, <1>6

\* A step of a socket that stays in use: its owner is told where, or nothing.
LEMMA MoveTold ==
  ASSUME TypeOK, TypeOK', HeldInv, ToldInv, NEW s \in Sockets, InUse(s), NEW u, SameEnds(s, u),
         u.state # "unused", tcb' = [tcb EXCEPT ![s] = u],
         NEW where, told' = [told EXCEPT ![s] = where], Fits(u.state, where),
         Conn(s) \/ where = "nothing",
         TablesKept(s),
         TimerRuns(s)' => where \in {"opening", "open"},
         u.state = "closed" /\ where = "opening" => PortAlone(s),
         Linked(u.state) => Linked(tcb[s].state) \/ PortAlone(s),
         StackTold'
  PROVE  ToldInv'
<1>1. SocketsTold /\ ConnectionsUnique
  BY DEF ToldInv
<1>2. told'[s] = where /\ \A r \in Sockets \ {s} : told'[r] = told[r]
  BY DEF TypeOK
<1>3. /\ tcb'[s] = u /\ \A r \in Sockets \ {s} : tcb'[r] = tcb[r]
      /\ \A r \in Sockets : /\ InUse(r)' <=> InUse(r)
                            /\ Conn(r)' <=> Conn(r)
                            /\ tcb'[r].timer = tcb[r].timer
                            /\ PortAlone(r) => PortAlone(r)'
  BY UsedStays
<1>4. SocketTold(s)'
  BY <1>2, <1>3 DEF SocketTold
<1>5. ASSUME NEW r \in Sockets \ {s} PROVE SocketTold(r)'
  <2>1. InUse(r) /\ TimerRuns(r)' => TimerRuns(r)
    <3> SUFFICES ASSUME InUse(r), TimerRuns(r)' PROVE TimerRuns(r)
      OBVIOUS
    <3>1. tcb[r].timer # NoTimer /\ timers'[tcb[r].timer].state = "running"
      BY <1>3 DEF TimerRuns
    <3>2. tcb[r].timer \in Timers /\ tcb[r].timer # tcb[s].timer
      BY <3>1, SocketTyped, TimersApart
    <3>3. timers'[tcb[r].timer] = timers[tcb[r].timer]
      BY <3>2 DEF TablesKept
    <3>4. QED
      BY <3>1, <3>3 DEF TimerRuns
  <2>2. SocketTold(r)
    BY <1>1 DEF SocketsTold
  <2>3. QED
    BY <1>2, <1>3, <2>1, <2>2 DEF SocketTold
<1>6. SocketsTold'
  BY <1>4, <1>5 DEF SocketsTold
<1>7. ConnectionsUnique'
  BY <1>1, UniqueMoved
<1>8. QED
  BY <1>6, <1>7 DEF ToldInv

\* tcp_tcb_close stops the timer of the socket it closes.
LEMMA StoppedTimer ==
  ASSUME TypeOK, HeldInv, NEW s \in Sockets, InUse(s), timers' = Stop(timers, tcb[s].timer),
         tcb'[s].timer = tcb[s].timer
  PROVE  ~TimerRuns(s)'
<1> SUFFICES ASSUME tcb[s].timer # NoTimer
             PROVE  timers'[tcb[s].timer].state = "stopped"
  BY DEF TimerRuns
<1>1. timers[tcb[s].timer].callback = "tcp_timeout"
  BY DEF HeldInv, SocketsHeld, TimerHeld
<1>2. Valid(timers, tcb[s].timer) /\ tcb[s].timer \in Timers
  BY <1>1, SocketTyped, NamesAssumption DEF Valid
<1>3. QED
  BY <1>2 DEF Stop, TypeOK

ClosingEvents == {"error", "timeout", "reset", "closed"}
FreeToPush(below) == below = <<>> \/ ~ArmsNext(Base(below))

\* tcp_tcb_close on a socket whose owner has not been told the last event yet.
LEMMA CloseTold ==
  ASSUME TypeOK, TypeOK', HeldInv, ToldInv, NEW s \in Sockets, Conn(s),
         NEW t \in Tcb, SameEnds(s, t), NEW event \in ClosingEvents, NEW below \in Seq(Frame),
         TcbClose(s, t, event, below), told[s] \in {"opening", "open"},
         FreeToPush(below), FramesTold(tcb', below)
  PROVE  ToldInv'
<1> DEFINE u == [t EXCEPT !.state = "closed"]
<1>1. SameEnds(s, u) /\ u.state = "closed"
  BY DEF SameEnds, SameOwner, Tcb
<1>2. tcb' = [tcb EXCEPT ![s] = u] /\ timers' = Stop(timers, t.timer)
      /\ Raise(s, t.callback, event, below)
  BY DEF TcbClose
<1> HIDE DEF u
<1>3. InUse(s)
  BY InConnection DEF InUse
<1>4. told' = [told EXCEPT ![s] = "over"]
  <2>1. told' = [told EXCEPT ![s] = TellNext(told[s], event)]
    BY <1>2 DEF Raise
  <2>2. TellNext(told[s], event) = "over"
    BY DEF TellNext, ClosingEvents
  <2>3. QED
    BY <2>1, <2>2
<1>5. t.timer = tcb[s].timer /\ tcb'[s].timer = tcb[s].timer
  BY <1>1, <1>2 DEF TypeOK, SameEnds, SameOwner
<1>6. TablesKept(s) /\ ~TimerRuns(s)'
  BY <1>2, <1>3, <1>5, TimerCallsKept, StoppedTimer
<1>7. StackTold'
  <2> DEFINE top == [at |-> "callback", sock |-> s, app |-> t.callback, event |-> event]
  <2>1. stack' = <<top>> \o below /\ top.at = "callback"
    BY <1>2 DEF Raise
  <2> HIDE DEF top
  <2>2. FramesTold(tcb', <<top>> \o below)
    BY <2>1, FramesToldPushed DEF FreeToPush
  <2>3. QED
    BY <2>1, <2>2 DEF StackTold
<1>8. Fits(u.state, "over")
  BY <1>1 DEF Fits, OpeningStates, OpenStates
<1>9. ~Linked(u.state)
  BY <1>1 DEF Linked
<1>10. QED
  BY <1>1, <1>2, <1>3, <1>4, <1>6, <1>7, <1>8, <1>9, MoveTold

\* A step after which the handler goes on, the owner having been told nothing.
LEMMA SilentTold ==
  ASSUME TypeOK, TypeOK', HeldInv, ToldInv, NEW s \in Sockets, Conn(s),
         NEW u, SameEnds(s, u), Linked(u.state), tcb' = [tcb EXCEPT ![s] = u],
         ArmTimer(u) \/ timers' = Stop(timers, u.timer) \/ UNCHANGED timers,
         UNCHANGED told, told[s] \in {"opening", "open"}, Fits(u.state, told[s]),
         Linked(tcb[s].state) \/ PortAlone(s),
         StackTold'
  PROVE  ToldInv'
<1>1. InUse(s)
  BY InConnection DEF InUse
<1>2. told' = [told EXCEPT ![s] = told[s]]
  BY DEF TypeOK
<1>3. TablesKept(s)
  BY TimerCallsKept DEF SameEnds, SameOwner
<1>4. u.state # "unused" /\ u.state # "closed"
  BY DEF Linked
<1>5. QED
  BY <1>1, <1>2, <1>3, <1>4, MoveTold

LEMMA RearmTold ==
  ASSUME TypeOK, TypeOK', HeldInv, ToldInv, NEW s \in Sockets, Conn(s),
         NEW u, SameEnds(s, u), Linked(u.state), NEW below, Rearmed(s, u, below),
         told[s] \in {"opening", "open"}, Fits(u.state, told[s]),
         Linked(tcb[s].state) \/ PortAlone(s),
         FramesTold(tcb', below)
  PROVE  ToldInv'
<1>1. tcb' = [tcb EXCEPT ![s] = u] /\ ArmTimer(u) /\ stack' = below /\ UNCHANGED told
  BY DEF Rearmed, GoOn
<1>2. StackTold'
  BY <1>1 DEF StackTold
<1>3. QED
  BY <1>1, <1>2, SilentTold

\* A step of a connection that is open, or now opens, in which its owner is told so.
LEMMA OpenTold ==
  ASSUME TypeOK, TypeOK', HeldInv, ToldInv, NEW s \in Sockets, Conn(s),
         NEW u, SameEnds(s, u), u.state \in OpenStates, tcb' = [tcb EXCEPT ![s] = u],
         ArmTimer(u) \/ timers' = Stop(timers, u.timer) \/ UNCHANGED timers,
         NEW app, NEW event, NEW below, Raise(s, app, event, below),
         \/ event = "established" /\ told[s] = "opening"
         \/ event \in {"data_received", "data_acked", "idle"} /\ told[s] = "open",
         Linked(tcb[s].state),
         StackTold'
  PROVE  ToldInv'
<1>1. InUse(s)
  BY InConnection DEF InUse
<1>2. told' = [told EXCEPT ![s] = "open"]
  <2>1. told' = [told EXCEPT ![s] = TellNext(told[s], event)]
    BY DEF Raise
  <2>2. TellNext(told[s], event) = "open"
    BY DEF TellNext
  <2>3. QED
    BY <2>1, <2>2
<1>3. TablesKept(s)
  BY TimerCallsKept DEF SameEnds, SameOwner
<1>4. u.state # "unused" /\ u.state # "closed" /\ Fits(u.state, "open")
  BY DEF OpenStates, OpeningStates, Fits
<1>5. QED
  BY <1>1, <1>2, <1>3, <1>4, MoveTold

\* What the invariants say of a connection.
LEMMA OwnerIs ==
  ASSUME HeldInv, ToldInv, NEW s \in Sockets
  PROVE  /\ tcb[s].state \in OpenStates => told[s] = "open"
         /\ tcb[s].state \in OpeningStates => told[s] = "opening"
         /\ tcb[s].state \in OpenStates \union OpeningStates => Conn(s) /\ Linked(tcb[s].state)
         /\ tcb[s].state = "closed" /\ told[s] = "opening" => PortAlone(s)
         /\ tcb[s].state = "closed" => told[s] \in {"nothing", "opening", "over"}
         /\ ~Conn(s) => told[s] = "nothing"
<1>1. SocketTold(s)
  BY DEF ToldInv, SocketsTold
<1>2. tcb[s].state \in OpenStates \union OpeningStates => Linked(tcb[s].state)
  BY DEF OpenStates, OpeningStates, Linked
<1>3. QED
  BY <1>1, <1>2, InConnection DEF SocketTold, Fits, Linked

-----------------------------------------------------------------------------
(* tcp_timeout.                                                            *)

LEMMA TickTold ==
  ASSUME NEW below \in Seq(Frame), OnlyTick(below), NEW table
  PROVE  FramesTold(table, below) /\ FreeToPush(below)
<1>1. below # <<>> => Base(below).at = "tick"
  BY DEF OnlyTick, Base
<1>2. QED
  BY <1>1 DEF FramesTold, FrameTold, FreeToPush, ArmsNext

LEMMA TimeoutTold ==
  ASSUME AllSent, TypeOK, TypeOK', HeldInv, ToldInv, NEW s \in Sockets, Conn(s),
         NEW t \in Tcb, SameEnds(s, t), told[s] \in {"opening", "open"},
         \/ t.state = tcb[s].state
         \/ t.state = "start_close" /\ tcb[s].state = "established",
         NEW below \in Seq(Frame), FramesTold(tcb, below), FreeToPush(below),
         OnlyTick(below) \/ (t.state = "start_close" /\ tcb[s].state = "established"),
         tcp_timeout(s, t, below)
  PROVE  ToldInv'
<1> DEFINE counted == [t EXCEPT !.rtx = @ - 1]
           again == [t EXCEPT !.rtx = @ - 1, !.seqNext = 0]
<1>1. \A sent \in SendResults : sent = TRUE
  BY DEF AllSent
<1>2. ASSUME NEW u, SameEnds(s, u), tcb' = [tcb EXCEPT ![s] = u],
             t.state = "start_close" => u.state \in OpenStates \union {"closed"}
      PROVE  FramesTold(tcb', below)
  <2>1. CASE OnlyTick(below)
    BY <2>1, TickTold
  <2>2. CASE t.state = "start_close" /\ tcb[s].state = "established"
    BY <1>2, <2>2, FramesToldMoved DEF FreeToPush
  <2>3. QED
    BY <2>1, <2>2
<1>3. t.state = "closed" => told[s] = "opening" /\ PortAlone(s)
  BY OwnerIs
<1>4. /\ Linked(t.state) => Linked(tcb[s].state)
      /\ t.state \in OpenStates => told[s] = "open" /\ Linked(tcb[s].state)
      /\ t.state \in OpeningStates => told[s] = "opening" /\ Linked(tcb[s].state)
  <2>1. "established" \in OpenStates /\ "start_close" \in OpenStates
        /\ "start_close" \notin OpeningStates /\ Linked("established")
    BY DEF OpenStates, OpeningStates, Linked
  <2>2. QED
    BY <2>1, OwnerIs
<1>5. ASSUME NEW u \in Tcb, SameEnds(s, u), NEW event \in ClosingEvents,
             TcbClose(s, u, event, below)
      PROVE  ToldInv'
  <2> DEFINE closed == [u EXCEPT !.state = "closed"]
  <2>1. tcb' = [tcb EXCEPT ![s] = closed] /\ SameEnds(s, closed) /\ closed.state = "closed"
    BY <1>5 DEF TcbClose, SameEnds, SameOwner, Tcb
  <2> HIDE DEF closed
  <2>2. FramesTold(tcb', below)
    BY <1>2, <2>1
  <2>3. QED
    BY <1>5, <2>2, CloseTold
<1>6. ASSUME NEW u, SameEnds(s, u), Rearmed(s, u, below), Linked(u.state),
             Fits(u.state, told[s]), t.state = "start_close" => u.state \in OpenStates,
             Linked(tcb[s].state) \/ PortAlone(s)
      PROVE  ToldInv'
  <2>1. FramesTold(tcb', below)
    BY <1>2, <1>6 DEF Rearmed
  <2>2. QED
    BY <1>6, <2>1, RearmTold
<1>7. /\ counted \in Tcb /\ SameEnds(s, counted) /\ counted.state = t.state
  BY TcbFieldsTyped, ZenonT(60) DEF SameEnds, SameOwner, Tcb
<1>8. /\ again \in Tcb /\ SameEnds(s, again) /\ again.state = t.state
  <2>1. again \in Tcb
    BY TcbFieldsTyped
  <2>2. SameEnds(s, again) /\ again.state = t.state
    BY DEF SameEnds, SameOwner, Tcb
  <2>3. QED
    BY <2>1, <2>2
<1> HIDE DEF counted, again
<1>9. "timeout" \in ClosingEvents /\ "closed" \in ClosingEvents
  BY DEF ClosingEvents
<1>10. CASE TimeoutGiveUp(s, t, below)
  BY <1>5, <1>7, <1>9, <1>10 DEF TimeoutGiveUp, counted
<1>11. CASE TimeoutEnd(s, t, below)
  BY <1>5, <1>7, <1>9, <1>11 DEF TimeoutEnd, counted
<1>12. CASE TimeoutSyn(s, t, below)
  <2> DEFINE u == [t EXCEPT !.rtx = @ - 1, !.state = "syn_sent"]
  <2>1. Rearmed(s, u, below) /\ t.state \in {"closed", "syn_sent"}
    BY <1>1, <1>12 DEF TimeoutSyn
  <2>2. SameEnds(s, u) /\ u.state = "syn_sent"
    BY DEF SameEnds, SameOwner, Tcb
  <2> HIDE DEF u
  <2>3. told[s] = "opening" /\ (Linked(tcb[s].state) \/ PortAlone(s))
    BY <1>3, <1>4, <2>1 DEF OpeningStates
  <2>4. Fits("syn_sent", "opening") /\ Linked("syn_sent")
    BY DEF Fits, OpeningStates, OpenStates, Linked
  <2>5. QED
    BY <1>6, <2>1, <2>2, <2>3, <2>4
<1>13. CASE TimeoutSynAck(s, t, below)
  <2>1. Rearmed(s, counted, below) /\ t.state = "syn_received"
    BY <1>1, <1>13 DEF TimeoutSynAck, counted
  <2>2. told[s] = "opening" /\ Linked(tcb[s].state)
    BY <1>4, <2>1 DEF OpeningStates
  <2>3. Fits("syn_received", "opening") /\ Linked("syn_received")
    BY DEF Fits, OpeningStates, OpenStates, Linked
  <2>4. QED
    BY <1>6, <1>7, <2>1, <2>2, <2>3
<1>14. ASSUME NEW u, SameEnds(s, u), Rearmed(s, u, below), u.state \in OpenStates,
              t.state \in OpenStates
       PROVE  ToldInv'
  <2>1. Fits(u.state, "open") /\ Linked(u.state)
    BY <1>14 DEF Fits, OpeningStates, OpenStates, Linked
  <2>2. QED
    BY <1>4, <1>6, <1>14, <2>1
<1>15. CASE TimeoutData(s, t, below)
  <2>1. PICK n \in SentUpTo(again) : Rearmed(s, [again EXCEPT !.seqNext = n], below)
    BY <1>1, <1>15 DEF TimeoutData, again
  <2>2. t.state \in OpenStates
    BY <1>15 DEF TimeoutData, OpenStates
  <2> DEFINE u == [again EXCEPT !.seqNext = n]
  <2>3. SameEnds(s, u) /\ u.state = t.state
    BY <1>8 DEF SameEnds, SameOwner, Tcb
  <2> HIDE DEF u
  <2>4. Rearmed(s, u, below)
    BY <2>1 DEF u
  <2>5. QED
    BY <1>14, <2>2, <2>3, <2>4
<1>16. CASE TimeoutStartClose(s, t, below)
  <2> DEFINE u == [t EXCEPT !.rtx = RtxFin, !.state = "fin_wait_1"]
  <2>1. Rearmed(s, u, below) /\ t.state \in OpenStates
    BY <1>1, <1>16 DEF TimeoutStartClose, OpenStates
  <2>2. SameEnds(s, u) /\ u.state \in OpenStates
    BY DEF SameEnds, SameOwner, Tcb, OpenStates
  <2> HIDE DEF u
  <2>3. QED
    BY <1>14, <2>1, <2>2
<1>17. CASE TimeoutFin(s, t, below)
  <2>1. t.state \in {"close_wait", "fin_wait_1", "last_ack"} /\ t.state \in OpenStates
    BY <1>17 DEF TimeoutFin, OpenStates
  <2>2. PICK n \in SentUpTo(again) :
          \/ Rearmed(s, [again EXCEPT !.seqNext = n, !.rtx = 0, !.state = "last_ack"], below)
          \/ Rearmed(s, [again EXCEPT !.seqNext = n], below)
    BY <1>1, <1>17 DEF TimeoutFin, again
  <2> DEFINE last == [again EXCEPT !.seqNext = n, !.rtx = 0, !.state = "last_ack"]
             same == [again EXCEPT !.seqNext = n]
  <2>3. /\ SameEnds(s, last) /\ last.state \in OpenStates
        /\ SameEnds(s, same) /\ same.state = t.state
    BY <1>8 DEF SameEnds, SameOwner, Tcb, OpenStates
  <2> HIDE DEF last, same
  <2>4. Rearmed(s, last, below) \/ Rearmed(s, same, below)
    BY <2>2 DEF last, same
  <2>5. QED
    BY <1>14, <2>1, <2>3, <2>4
<1>18. CASE TimeoutIdle(s, t, below)
  <2>1. /\ t.state = "established" /\ tcb' = [tcb EXCEPT ![s] = counted]
        /\ Raise(s, t.callback, "idle", below) /\ UNCHANGED timers
    BY <1>18 DEF TimeoutIdle, counted
  <2>2. t.state \in OpenStates
    BY <2>1 DEF OpenStates
  <2>3. StackTold'
    <3> DEFINE top == [at |-> "callback", sock |-> s, app |-> t.callback, event |-> "idle"]
    <3>1. stack' = <<top>> \o below /\ top.at = "callback"
      BY <2>1 DEF Raise
    <3> HIDE DEF top
    <3>2. FramesTold(tcb', below)
      BY <1>2, <1>7, <2>1, <2>2
    <3>3. FramesTold(tcb', <<top>> \o below)
      BY <3>1, <3>2, FramesToldPushed DEF FreeToPush
    <3>4. QED
      BY <3>1, <3>3 DEF StackTold
  <2>4. QED
    BY <1>4, <1>7, <2>1, <2>2, <2>3, OpenTold
<1>19. QED
  BY <1>10, <1>11, <1>12, <1>13, <1>14, <1>15, <1>16, <1>17, <1>18 DEF tcp_timeout

LEMMA TimerExpiresTold ==
  ASSUME AllSent, TypeOK, TypeOK', HeldInv, ToldInv, NEW s \in Sockets, TimerExpires(s)
  PROVE  ToldInv'
<1> DEFINE timer == tcb[s].timer
           below == <<[at |-> "tick", timer |-> timer]>>
<1>1. /\ timer \in Timers /\ timers[timer].callback = "tcp_timeout" /\ timers[timer].arg = s
      /\ timers[timer].state = "running" /\ tcp_timeout(s, tcb[s], below)
  BY DEF TimerExpires, Running, Valid
<1>2. timer # NoTimer
  BY <1>1 DEF Timers, NoTimer
<1>3. InUse(s)
  <2>1. PICK r \in Sockets : InUse(r) /\ tcb[r].timer = timer
    BY <1>1 DEF HeldInv, TimersClaimed
  <2>2. timers[timer].arg = r
    BY <1>2, <2>1 DEF HeldInv, SocketsHeld, TimerHeld
  <2>3. QED
    BY <1>1, <2>1, <2>2
<1>4. Conn(s)
  BY <1>1, <1>2, <1>3 DEF HeldInv, SocketsHeld, TimerHeld
<1>5. told[s] \in {"opening", "open"}
  BY <1>1, <1>2, <1>3 DEF ToldInv, SocketsTold, SocketTold, TimerRuns
<1>6. below \in Seq(Frame) /\ OnlyTick(below)
  <2> DEFINE tick == [at |-> "tick", timer |-> timer]
  <2>1. tick \in Frame /\ tick.at = "tick"
    BY <1>1, FramesTyped
  <2> HIDE DEF tick
  <2>2. <<tick>> \in Seq(Frame) /\ Len(<<tick>>) = 1 /\ <<tick>>[1] = tick
    BY <2>1
  <2>3. QED
    BY <2>1, <2>2 DEF OnlyTick, tick
<1>7. SameEnds(s, tcb[s]) /\ tcb[s] \in Tcb
  BY SocketTyped DEF SameEnds, SameOwner
<1> HIDE DEF below
<1>8. FramesTold(tcb, below) /\ FreeToPush(below)
  BY <1>6, TickTold
<1>9. QED
  BY <1>1, <1>4, <1>5, <1>6, <1>7, <1>8, TimeoutTold

-----------------------------------------------------------------------------
(* The calls of tcp.h on a socket that keeps its port.                     *)

\* An application may close only where no function waits to arm the timer.
LEMMA MayClose ==
  ASSUME ClosesLate, TypeOK, ToldInv, NEW s \in Sockets, MayCall("close", s)
  PROVE  FreeToPush(stack)
<1> SUFFICES ASSUME stack # <<>>, ArmsNext(Base(stack)) PROVE FALSE
  BY DEF FreeToPush
<1>1. stack \in Seq(Frame) /\ Lone(stack)
  BY DEF TypeOK, ToldInv, StackTold, FramesTold
<1>2. /\ Head(stack).at = "callback" /\ Head(stack).app \in Apps
      /\ "close" \in Calls[Head(stack).app][Head(stack).event]
  BY DEF MayCall, Idle, At
<1>3. Head(stack).event \in Events
  <2>1. Head(stack) \in CallbackFrame
    BY <1>2, TopTyped, TypeParts DEF At
  <2>2. QED
    BY <2>1 DEF CallbackFrame
<1>4. Len(stack) # 1
  <2> SUFFICES ASSUME Len(stack) = 1 PROVE FALSE
    OBVIOUS
  <2>1. Base(stack) = Head(stack)
    BY <1>1 DEF Base
  <2>2. QED
    BY <1>2, <2>1 DEF ArmsNext
<1>5. Head(stack).event \in {"established", "data_acked"}
  BY <1>1, <1>4 DEF Lone
<1>6. QED
  BY <1>2, <1>3, <1>5 DEF ClosesLate

LEMMA CloseCallTold ==
  ASSUME AllSent, ClosesLate, TypeOK, TypeOK', HeldInv, ToldInv, NEW s \in Sockets, tcp_close(s)
  PROVE  ToldInv'
<1> DEFINE t == [tcb[s] EXCEPT !.state = "start_close"]
<1>1. tcb[s] \in Tcb /\ stack \in Seq(Frame) /\ FramesTold(tcb, stack) /\ FreeToPush(stack)
  BY SocketTyped, MayClose DEF ToldInv, StackTold, TypeOK, tcp_close
<1>2. CASE tcb[s].state = "established" /\ tcp_timeout(s, t, stack)
  <2>1. Conn(s) /\ told[s] = "open"
    BY <1>2, OwnerIs DEF OpenStates
  <2>2. t \in Tcb /\ SameEnds(s, t) /\ t.state = "start_close"
    BY <1>1 DEF Tcb, TcpStates, SameEnds, SameOwner
  <2> HIDE DEF t
  <2>3. QED
    BY <1>1, <1>2, <2>1, <2>2, TimeoutTold
<1>3. CASE /\ tcb[s].state = "listen" /\ tcb' = [tcb EXCEPT ![s].state = "closed"]
           /\ UNCHANGED <<timers, fifo, stack, told, finSent>>
  <2> DEFINE u == [tcb[s] EXCEPT !.state = "closed"]
  <2>1. tcb' = [tcb EXCEPT ![s] = u] /\ u.state = "closed" /\ SameEnds(s, u)
    BY <1>1, <1>3 DEF Tcb, TypeOK, SameEnds, SameOwner
  <2> HIDE DEF u
  <2>2. ~Conn(s) /\ InUse(s) /\ told[s] = "nothing"
    BY <1>3, InConnection, OwnerIs DEF InUse
  <2>3. ~TimerRuns(s)'
    <3>1. ~TimerRuns(s)
      BY <2>2 DEF HeldInv, SocketsHeld, TimerHeld, TimerRuns
    <3>2. tcb'[s].timer = tcb[s].timer
      BY <2>1 DEF TypeOK, SameEnds, SameOwner
    <3>3. QED
      BY <1>3, <3>1, <3>2 DEF TimerRuns
  <2>4. StackTold'
    <3>1. FramesTold(tcb', stack)
      BY <1>1, <1>3, <2>1, FramesToldMoved DEF FreeToPush
    <3>2. QED
      BY <1>3, <3>1 DEF StackTold
  <2>5. TablesKept(s) /\ told' = [told EXCEPT ![s] = "nothing"]
    BY <1>3, <2>2, TimerCallsKept DEF TypeOK
  <2>6. Fits(u.state, "nothing") /\ ~Linked(u.state)
    BY <2>1 DEF Fits, OpeningStates, OpenStates, Linked
  <2>7. QED
    BY <2>1, <2>2, <2>3, <2>4, <2>5, <2>6, MoveTold
<1>4. QED
  BY <1>2, <1>3 DEF tcp_close, tcp_timeout

LEMMA AcceptTold ==
  ASSUME TypeOK, TypeOK', HeldInv, ToldInv, NEW s \in Sockets, tcp_accept(s)
  PROVE  ToldInv'
<1> DEFINE u == [tcb[s] EXCEPT !.state = "accepted"]
<1>1. /\ tcb[s].state = "not_accepted" /\ tcb' = [tcb EXCEPT ![s] = u]
      /\ UNCHANGED <<timers, fifo, stack, told, finSent>>
      /\ stack \in Seq(Frame) /\ FramesTold(tcb, stack)
  BY DEF tcp_accept, ToldInv, StackTold, TypeOK
<1>2. SameEnds(s, u) /\ u.state = "accepted"
  BY SocketTyped DEF SameEnds, SameOwner, Tcb
<1> HIDE DEF u
<1>3. Conn(s) /\ told[s] = "opening" /\ Linked(tcb[s].state)
  BY <1>1, OwnerIs DEF OpeningStates
<1>4. FramesTold(tcb', stack)
  BY <1>1, <1>2, FramesToldMoved
<1>5. StackTold'
  BY <1>1, <1>4 DEF StackTold
<1>6. Linked("accepted") /\ Fits("accepted", "opening")
  BY DEF Fits, OpeningStates, OpenStates, Linked
<1>7. QED
  BY <1>1, <1>2, <1>3, <1>5, <1>6, SilentTold

LEMMA WriteTold ==
  ASSUME TypeOK, TypeOK', HeldInv, ToldInv, NEW s \in Sockets, NEW n, tcp_write(s, n)
  PROVE  ToldInv'
<1> DEFINE u == [tcb[s] EXCEPT !.rtx = RtxData]
<1>1. /\ tcb[s].state = "established" /\ tcb' = [tcb EXCEPT ![s] = u]
      /\ ArmTimer(tcb[s]) /\ UNCHANGED <<stack, told, finSent>>
      /\ stack \in Seq(Frame) /\ FramesTold(tcb, stack)
  BY DEF tcp_write, ToldInv, StackTold, TypeOK
<1>2. SameEnds(s, u) /\ u.state = tcb[s].state /\ u.timer = tcb[s].timer
  BY SocketTyped DEF SameEnds, SameOwner, Tcb
<1> HIDE DEF u
<1>3. Conn(s) /\ told[s] = "open" /\ Linked(tcb[s].state)
  BY <1>1, OwnerIs DEF OpenStates
<1>4. FramesTold(tcb', stack)
  BY <1>1, <1>2, FramesToldMoved
<1>5. StackTold'
  BY <1>1, <1>4 DEF StackTold
<1>6. Fits("established", "open") /\ ArmTimer(u)
  BY <1>1, <1>2 DEF Fits, OpeningStates, OpenStates, ArmTimer
<1>7. QED
  BY <1>1, <1>2, <1>3, <1>5, <1>6, SilentTold

\* Steps that leave the sockets and their owners alone.
LEMMA StillTold ==
  ASSUME TypeOK, HeldInv, ToldInv, UNCHANGED <<tcb, told>>,
         \A t \in Timers : timers'[t].state = "running" => timers[t].state = "running",
         StackTold'
  PROVE  ToldInv'
<1>1. ASSUME NEW s \in Sockets PROVE SocketTold(s)'
  <2>1. SocketTold(s)
    BY DEF ToldInv, SocketsTold
  <2>2. TimerRuns(s)' => TimerRuns(s)
    BY SocketTyped DEF TimerRuns
  <2>3. PortAlone(s) => PortAlone(s)'
    BY DEF PortAlone, InUse
  <2>4. QED
    BY <2>1, <2>2, <2>3 DEF SocketTold, InUse, Conn, HasPair
<1>2. ConnectionsUnique'
  BY DEF ToldInv, ConnectionsUnique, Connected
<1>3. QED
  BY <1>1, <1>2 DEF ToldInv, SocketsTold

LEMMA ReadTold ==
  ASSUME TypeOK, HeldInv, ToldInv, NEW s \in Sockets, NEW n, tcp_read(s, n)
  PROVE  ToldInv'
<1>1. UNCHANGED <<tcb, timers, stack, told, finSent>>
  BY DEF tcp_read
<1>2. StackTold'
  BY <1>1 DEF ToldInv, StackTold
<1>3. QED
  BY <1>1, <1>2, StillTold

-----------------------------------------------------------------------------
(* Steps in which a socket comes into use, takes a port, or is freed.      *)

\* The TCB u, whose owner is there, takes no port that another socket must have alone, and
\* not both ends of another connection; when it must have its port alone, it has.
PortsAllow(s, u, where) ==
  \A r \in Sockets \ {s} :
    /\ u.state = "closed" /\ where = "opening" /\ InUse(r) => tcb[r].port # u.port
    /\ u.state # "unused" /\ tcb[r].state = "closed" /\ told[r] = "opening" =>
         tcb[r].port # u.port
    /\ Linked(u.state) /\ Linked(tcb[r].state) =>
         tcb[r].port # u.port \/ tcb[r].remote # u.remote

\* A step in which a socket takes a port or gives up its own.
LEMMA TakeTold ==
  ASSUME TypeOK, TypeOK', ToldInv, NEW s \in Sockets, NEW u, tcb' = [tcb EXCEPT ![s] = u],
         NEW where, told' = [told EXCEPT ![s] = where], Fits(u.state, where),
         HasPair(u) \/ where = "nothing",
         u.state # "unused" /\ TimerRuns(s)' => where \in {"opening", "open"},
         \A r \in Sockets \ {s} : InUse(r) /\ TimerRuns(r)' => TimerRuns(r),
         PortsAllow(s, u, where),
         StackTold'
  PROVE  ToldInv'
<1>1. /\ tcb'[s] = u /\ \A r \in Sockets \ {s} : tcb'[r] = tcb[r]
      /\ told'[s] = where /\ \A r \in Sockets \ {s} : told'[r] = told[r]
  BY DEF TypeOK
<1>2. ASSUME NEW r \in Sockets \ {s} PROVE SocketTold(r)'
  <2>1. SocketTold(r)
    BY DEF ToldInv, SocketsTold
  <2>2. InUse(r)' => InUse(r)
    BY <1>1 DEF InUse
  <2>3. tcb[r].state = "closed" /\ told[r] = "opening" => PortAlone(r)'
    <3> SUFFICES ASSUME tcb[r].state = "closed", told[r] = "opening",
                        NEW p \in Sockets, InUse(p)', tcb'[p].port = tcb'[r].port
                 PROVE  p = r
      BY DEF PortAlone
    <3>1. PortAlone(r)
      BY <2>1 DEF SocketTold
    <3>2. CASE p = s
      BY <1>1, <3>2 DEF InUse, PortsAllow
    <3>3. CASE p # s
      BY <1>1, <3>1, <3>3 DEF InUse, PortAlone
    <3>4. QED
      BY <3>2, <3>3
  <2>4. QED
    BY <1>1, <2>1, <2>2, <2>3 DEF SocketTold, Conn
<1>3. SocketTold(s)'
  <2>1. u.state = "closed" /\ where = "opening" => PortAlone(s)'
    BY <1>1 DEF PortAlone, InUse, PortsAllow
  <2>2. QED
    BY <1>1, <2>1 DEF SocketTold, Conn, InUse
<1>4. ConnectionsUnique'
  <2> SUFFICES ASSUME NEW port \in Ports, NEW remote \in Remotes,
                      NEW a \in Connected(port, remote)', NEW b \in Connected(port, remote)'
               PROVE  a = b
    BY DEF ConnectionsUnique
  <2>1. \A r \in {a, b} : /\ r \in Sockets /\ Linked(tcb'[r].state)
                          /\ tcb'[r].port = port /\ tcb'[r].remote = remote
    BY DEF Connected, Linked
  <2>2. CASE s \notin {a, b}
    <3>1. a \in Connected(port, remote) /\ b \in Connected(port, remote)
      BY <1>1, <2>1, <2>2 DEF Connected, Linked
    <3>2. QED
      BY <3>1 DEF ToldInv, ConnectionsUnique
  <2>3. CASE s \in {a, b}
    BY <1>1, <2>1, <2>3 DEF PortsAllow
  <2>4. QED
    BY <2>2, <2>3
<1>5. QED
  BY <1>2, <1>3, <1>4 DEF ToldInv, SocketsTold

\* Taking a timer leaves it stopped and no other running that was not.
LEMMA TimerTakenStill ==
  ASSUME TypeOK, HeldInv, NEW s \in Sockets,
         timers' = SetArg(Alloc(timers, "tcp_timeout"), AllocHandle(timers), s)
  PROVE  /\ \A t \in Timers : timers'[t].state = "running" => timers[t].state = "running"
         /\ AllocHandle(timers) # NoTimer => timers'[AllocHandle(timers)].state = "stopped"
<1> DEFINE t == AllocHandle(timers)
           pool == SetArg(Alloc(timers, "tcp_timeout"), t, s)
<1>1. \/ t = NoTimer /\ pool = timers
      \/ /\ pool[t].state = "stopped"
         /\ \A r \in Timers \ {t} : pool[r] = timers[r]
  BY TimerTaken
<1>2. timers' = pool
  OBVIOUS
<1> HIDE DEF t, pool
<1>3. /\ \A r \in Timers : timers'[r].state = "running" => timers[r].state = "running"
      /\ t # NoTimer => timers'[t].state = "stopped"
  BY <1>1, <1>2
<1>4. QED
  BY <1>3 DEF t

LEMMA OthersRun ==
  ASSUME TypeOK, NEW s \in Sockets,
         \A t \in Timers : timers'[t].state = "running" => timers[t].state = "running",
         \A r \in Sockets \ {s} : tcb'[r] = tcb[r]
  PROVE  \A r \in Sockets \ {s} : TimerRuns(r)' => TimerRuns(r)
BY SocketTyped DEF TimerRuns

LEMMA AllocTold ==
  ASSUME TypeOK, TypeOK', HeldInv, ToldInv, NEW app \in Apps, tcp_socket_alloc(app)
  PROVE  ToldInv'
<1> DEFINE t == AllocHandle(timers)
<1>1. PICK s \in Sockets : s = Lowest(UnusedSockets) /\ ~InUse(s)
  BY UnusedSocketFound DEF tcp_socket_alloc, UnusedSockets
<1>2. /\ tcb' = [tcb EXCEPT ![s].state = "closed", ![s].callback = app, ![s].timer = t]
      /\ timers' = SetArg(Alloc(timers, "tcp_timeout"), t, s)
      /\ UNCHANGED <<fifo, stack, told, finSent>> /\ Idle
  BY <1>1 DEF tcp_socket_alloc
<1>3. tcb[s] = ZeroTcb /\ ~Conn(s)
  BY <1>1, UnusedIsZero
<1> DEFINE u == [ZeroTcb EXCEPT !.state = "closed", !.callback = app, !.timer = t]
<1>4. tcb' = [tcb EXCEPT ![s] = u]
  BY <1>2, <1>3 DEF TypeOK
<1>5. u.state = "closed" /\ u.timer = t /\ u.port = NoPort
  BY DEF ZeroTcb
<1> HIDE DEF u
<1>6. tcb'[s] = u /\ \A r \in Sockets \ {s} : tcb'[r] = tcb[r]
  BY <1>4 DEF TypeOK
<1>7. told' = [told EXCEPT ![s] = "nothing"]
  BY <1>2, <1>3, OwnerIs DEF TypeOK
<1>8. /\ \A r \in Timers : timers'[r].state = "running" => timers[r].state = "running"
      /\ t # NoTimer => timers'[t].state = "stopped"
  BY <1>2, TimerTakenStill
<1>9. ~TimerRuns(s)'
  BY <1>5, <1>6, <1>8 DEF TimerRuns
<1>10. \A r \in Sockets \ {s} : told[r] = "opening" => tcb[r].port # u.port
  BY <1>5, OwnerIs, InConnection
<1>11. StackTold'
  BY <1>2 DEF StackTold, FramesTold, Idle
<1>12. Fits(u.state, "nothing") /\ ~Linked(u.state)
  BY <1>5 DEF Fits, OpeningStates, OpenStates, Linked
<1>13. \A r \in Sockets \ {s} : TimerRuns(r)' => TimerRuns(r)
  BY <1>6, <1>8, OthersRun
<1>14. PortsAllow(s, u, "nothing")
  BY <1>10, <1>12 DEF PortsAllow
<1>15. QED
  BY <1>4, <1>7, <1>9, <1>11, <1>12, <1>13, <1>14, TakeTold

LEMMA ListenTold ==
  ASSUME TypeOK, TypeOK', HeldInv, ToldInv, NEW s \in Sockets, NEW port, tcp_listen(s, port)
  PROVE  ToldInv'
<1> DEFINE u == [tcb[s] EXCEPT !.port = port, !.state = "listen"]
<1>1. /\ Idle /\ tcb[s].port = NoPort /\ tcb[s].state = "closed" /\ PortFree(port)
      /\ tcb' = [tcb EXCEPT ![s] = u]
      /\ UNCHANGED <<timers, fifo, stack, told, finSent>>
  BY DEF tcp_listen, TypeOK
<1>2. u.port = port /\ u.state = "listen" /\ u.timer = tcb[s].timer
  BY SocketTyped DEF Tcb
<1> HIDE DEF u
<1>3. ~Conn(s) /\ InUse(s)
  BY <1>1, InConnection DEF InUse
<1>4. tcb'[s] = u /\ \A r \in Sockets \ {s} : tcb'[r] = tcb[r]
  BY <1>1 DEF TypeOK
<1>5. told' = [told EXCEPT ![s] = "nothing"]
  BY <1>1, <1>3, OwnerIs DEF TypeOK
<1>6. ~TimerRuns(s)'
  BY <1>1, <1>2, <1>3, <1>4 DEF HeldInv, SocketsHeld, TimerHeld, TimerRuns
<1>7. \A r \in Sockets \ {s} : TimerRuns(r)' => TimerRuns(r)
  BY <1>1, <1>4, OthersRun
<1>8. \A r \in Sockets \ {s} : InUse(r) => tcb[r].port # u.port
  BY <1>1, <1>2 DEF PortFree
<1>9. StackTold'
  BY <1>1 DEF StackTold, FramesTold, Idle
<1>10. Fits(u.state, "nothing") /\ ~Linked(u.state)
  BY <1>2 DEF Fits, OpeningStates, OpenStates, Linked
<1>11. PortsAllow(s, u, "nothing")
  BY <1>8, <1>10 DEF PortsAllow, InUse
<1>12. QED
  BY <1>1, <1>5, <1>6, <1>7, <1>9, <1>10, <1>11, TakeTold

LEMMA ConnectTold ==
  ASSUME TypeOK, TypeOK', HeldInv, ToldInv, NEW s \in Sockets, NEW remote \in Remotes,
         tcp_connect(s, remote)
  PROVE  ToldInv'
<1> DEFINE t == [tcb[s] EXCEPT !.port = FindUnusedPort, !.rx = FifoPair[1], !.tx = FifoPair[2]]
           v == [Reset(t) EXCEPT !.remote = remote, !.rtx = RtxSyn]
<1>1. /\ Idle /\ tcb[s].port = NoPort /\ tcb[s].state = "closed" /\ UNCHANGED stack
      /\ IF NoFifo \in {FifoPair[1], FifoPair[2]}
         THEN tcb' = [tcb EXCEPT ![s] = t] /\ UNCHANGED <<timers, fifo, told>>
         ELSE /\ tcb' = [tcb EXCEPT ![s] = v] /\ ArmTimer(t)
              /\ told' = [told EXCEPT ![s] = "opening"]
  BY DEF tcp_connect
<1>2. /\ t.state = "closed" /\ t.timer = tcb[s].timer /\ t.port = FindUnusedPort
      /\ t.rx = FifoPair[1]
  BY <1>1, SocketTyped DEF Tcb
<1>3. /\ v.state = "closed" /\ v.timer = tcb[s].timer /\ v.port = FindUnusedPort
      /\ v.rx = FifoPair[1]
  BY <1>2 DEF Reset, ZeroTcb
<1> HIDE DEF t, v
<1>4. ~Conn(s) /\ InUse(s)
  BY <1>1, InConnection DEF InUse
<1>5. PortFree(FindUnusedPort)
  BY UnusedPortFound, TypeParts
<1>6. \A r \in Sockets \ {s} : InUse(r) => tcb[r].port # FindUnusedPort
  BY <1>5 DEF PortFree
<1>7. TablesKept(s)
  BY <1>1, <1>2, TimerCallsKept
<1>8. PICK u \in {t, v}, where \in {"nothing", "opening"} :
        /\ tcb' = [tcb EXCEPT ![s] = u] /\ told' = [told EXCEPT ![s] = where]
        /\ HasPair(u) \/ where = "nothing"
        /\ where = "nothing" => UNCHANGED timers
  <2>1. CASE NoFifo \in {FifoPair[1], FifoPair[2]}
    <3>1. told' = [told EXCEPT ![s] = "nothing"]
      BY <1>1, <1>4, <2>1, OwnerIs DEF TypeOK
    <3>2. QED
      BY <1>1, <2>1, <3>1
  <2>2. CASE ~(NoFifo \in {FifoPair[1], FifoPair[2]})
    BY <1>1, <1>3, <2>2 DEF HasPair
  <2>3. QED
    BY <2>1, <2>2
<1>9. u.state = "closed" /\ u.port = FindUnusedPort /\ u.timer = tcb[s].timer
  BY <1>2, <1>3
<1>10. tcb'[s] = u /\ \A r \in Sockets \ {s} : tcb'[r] = tcb[r]
  BY <1>8 DEF TypeOK
<1>11. TimerRuns(s)' => where \in {"opening", "open"}
  BY <1>4, <1>8, <1>9, <1>10 DEF HeldInv, SocketsHeld, TimerHeld, TimerRuns
<1>12. ASSUME NEW r \in Sockets \ {s}, InUse(r), TimerRuns(r)'
       PROVE  TimerRuns(r)
  <2>1. tcb[r].timer \in Timers \ {tcb[s].timer}
    BY <1>4, <1>10, <1>12, SocketTyped, TimersApart DEF TimerRuns
  <2>2. QED
    BY <1>7, <1>10, <1>12, <2>1 DEF TimerRuns, TablesKept
<1>13. StackTold'
  BY <1>1 DEF StackTold, FramesTold, Idle
<1>14. Fits(u.state, where) /\ ~Linked(u.state)
  BY <1>8, <1>9 DEF Fits, OpeningStates, OpenStates, Linked
<1>15. PortsAllow(s, u, where)
  BY <1>6, <1>9, <1>14 DEF PortsAllow, InUse
<1>16. QED
  BY <1>8, <1>11, <1>12, <1>13, <1>14, <1>15, TakeTold

LEMMA FreeTold ==
  ASSUME TypeOK, TypeOK', HeldInv, ToldInv, NEW s \in Sockets, TcbFree(s),
         FramesTold(tcb', stack')
  PROVE  ToldInv'
<1>1. /\ tcb' = [tcb EXCEPT ![s] = ZeroTcb] /\ told' = [told EXCEPT ![s] = "nothing"]
      /\ timers' = Free(timers, tcb[s].timer)
  BY DEF TcbFree
<1>2. \A r \in Sockets \ {s} : tcb'[r] = tcb[r]
  BY <1>1 DEF TypeOK
<1>3. \A t \in Timers : timers'[t].state = "running" => timers[t].state = "running"
  BY <1>1 DEF Free, TypeOK
<1>4. \A r \in Sockets \ {s} : TimerRuns(r)' => TimerRuns(r)
  BY <1>2, <1>3, OthersRun
<1>5. ZeroTcb.state = "unused" /\ ~Linked(ZeroTcb.state) /\ Fits(ZeroTcb.state, "nothing")
  BY DEF ZeroTcb, Linked, Fits, OpeningStates, OpenStates
<1>6. PortsAllow(s, ZeroTcb, "nothing")
  BY <1>5 DEF PortsAllow
<1>7. StackTold'
  BY DEF StackTold
<1>8. QED
  BY <1>1, <1>4, <1>5, <1>6, <1>7, TakeTold

LEMMA SocketFreeTold ==
  ASSUME FreesLate, TypeOK, TypeOK', HeldInv, ToldInv, NEW s \in Sockets, tcp_socket_free(s)
  PROVE  ToldInv'
<1>1. MayCall("free", s) /\ TcbFree(s) /\ UNCHANGED stack
  BY DEF tcp_socket_free
<1>2. stack \in Seq(Frame) /\ FramesHeld(tcb, stack)
  BY DEF TypeOK, HeldInv, StackHeld
<1>3. stack # <<>> => Base(stack).at \in {"callback", "tick"}
  <2> SUFFICES ASSUME stack # <<>> PROVE Base(stack).at \in {"callback", "tick"}
    OBVIOUS
  <2>1. /\ Head(stack).at = "callback" /\ Head(stack).app \in Apps
        /\ "free" \in Calls[Head(stack).app][Head(stack).event]
    BY <1>1 DEF MayCall, Idle, At
  <2>2. Head(stack) \in CallbackFrame
    BY <2>1, TopTyped, TypeParts DEF At
  <2>3. Head(stack).event \in FinalEvents
    BY <2>1, <2>2 DEF FreesLate, CallbackFrame
  <2>4. Len(stack) \in Nat /\ Len(stack) >= 1 /\ stack[1] = Head(stack)
    BY <1>2
  <2>5. FrameHeld(tcb, stack, 1)
    BY <1>2, <2>4 DEF FramesHeld
  <2>6. 1 = Len(stack) \/ (2 = Len(stack) /\ stack[2].at = "tick")
    BY <2>1, <2>3, <2>4, <2>5 DEF FrameHeld
  <2>7. QED
    BY <2>1, <2>4, <2>6 DEF Base
<1>4. FramesTold(tcb', stack')
  BY <1>1, <1>3 DEF FramesTold, FrameTold, ArmsNext
<1>5. QED
  BY <1>1, <1>4, FreeTold

\* SYN at a listener: the new socket shares its port, and no connection of it has the
\* same remote end, or the SYN would have reached that one.
LEMMA ListenSynTold ==
  ASSUME TypeOK, TypeOK', HeldInv, ToldInv, NEW l \in Sockets, NEW remote \in Remotes,
         RcvListenSyn(l, remote)
  PROVE  ToldInv'
<1> DEFINE timer == AllocHandle(timers)
<1>1. PICK s \in Sockets : s = Lowest(UnusedSockets) /\ ~InUse(s)
  BY UnusedSocketFound DEF RcvListenSyn, UnusedSockets
<1> DEFINE u == [ZeroTcb EXCEPT !.state = "not_accepted", !.callback = tcb[l].callback,
                                !.port = tcb[l].port, !.remote = remote, !.timer = timer,
                                !.rx = FifoPair[1], !.tx = FifoPair[2]]
           frame == [at |-> "incoming", sock |-> s, listener |-> l]
           top == [at |-> "callback", sock |-> s, app |-> tcb[l].callback, event |-> "incoming"]
<1>2. /\ tcb[l].state = "listen" /\ NoFifo \notin {FifoPair[1], FifoPair[2]}
      /\ Demux(tcb[l].port, remote) = l
      /\ tcb' = [tcb EXCEPT ![s] = u]
      /\ timers' = SetArg(Alloc(timers, "tcp_timeout"), timer, s)
      /\ Raise(s, tcb[l].callback, "incoming", <<frame>>)
  BY <1>1 DEF RcvListenSyn, Reached
<1>3. /\ u.state = "not_accepted" /\ u.port = tcb[l].port /\ u.timer = timer
      /\ u.rx = FifoPair[1] /\ u.remote = remote
  BY DEF ZeroTcb
<1>4. /\ frame.at = "incoming" /\ frame.sock = s
      /\ stack' = <<top>> \o <<frame>>
  BY <1>2 DEF Raise
<1> HIDE DEF u, frame, top
<1>5. tcb'[s] = u /\ \A r \in Sockets \ {s} : tcb'[r] = tcb[r]
  BY <1>2 DEF TypeOK
<1>6. told' = [told EXCEPT ![s] = "opening"]
  <2>1. told' = [told EXCEPT ![s] = TellNext(told[s], "incoming")]
    BY <1>2 DEF Raise
  <2>2. QED
    BY <2>1 DEF TellNext
<1>7. /\ \A r \in Timers : timers'[r].state = "running" => timers[r].state = "running"
      /\ timer # NoTimer => timers'[timer].state = "stopped"
  BY <1>2, TimerTakenStill
<1>8. ~TimerRuns(s)'
  BY <1>3, <1>5, <1>7 DEF TimerRuns
<1>9. \A r \in Sockets \ {s} : TimerRuns(r)' => TimerRuns(r)
  BY <1>5, <1>7, OthersRun
<1>10. Fits(u.state, "opening") /\ Linked(u.state)
  BY <1>3 DEF Fits, OpeningStates, OpenStates, Linked
<1>11. HasPair(u)
  BY <1>2, <1>3 DEF HasPair
<1>12. Connected(tcb[l].port, remote) = {}
  <2> SUFFICES ASSUME Connected(tcb[l].port, remote) # {} PROVE FALSE
    OBVIOUS
  <2>1. MaxSockets - 1 \in Int /\ Connected(tcb[l].port, remote) \in SUBSET (0 .. MaxSockets - 1)
    BY SizesAssumption DEF Connected, Sockets
  <2>2. Lowest(Connected(tcb[l].port, remote)) \in Connected(tcb[l].port, remote)
    BY <2>1, LowestFound
  <2>3. l \in Connected(tcb[l].port, remote)
    BY <1>2, <2>2 DEF Demux
  <2>4. QED
    BY <1>2, <2>3 DEF Connected
<1>13. PortsAllow(s, u, "opening")
  <2>1. ASSUME NEW r \in Sockets \ {s}, Linked(tcb[r].state), tcb[r].port = u.port
        PROVE  tcb[r].remote # u.remote
    BY <1>3, <1>12, <2>1 DEF Connected, Linked
  <2>2. ASSUME NEW r \in Sockets \ {s}, tcb[r].state = "closed", told[r] = "opening",
               tcb[r].port = u.port
        PROVE  FALSE
    <3>1. PortAlone(r)
      BY <2>2, OwnerIs
    <3>2. InUse(l) /\ l # r
      BY <1>2, <2>2 DEF InUse
    <3>3. QED
      BY <1>3, <2>2, <3>1, <3>2 DEF PortAlone
  <2>3. QED
    BY <1>3, <2>1, <2>2 DEF PortsAllow
<1>14. StackTold'
  <2>1. FrameTold(tcb', frame) /\ ~ArmsNext(frame)
    BY <1>3, <1>4, <1>5 DEF FrameTold, ArmsNext
  <2>2. QED
    BY <1>4, <2>1, FramesToldTwo DEF StackTold
<1>15. QED
  BY <1>2, <1>6, <1>8, <1>9, <1>10, <1>11, <1>13, <1>14, TakeTold

-----------------------------------------------------------------------------
(* A received segment.                                                     *)

LEMMA ResumeTold ==
  ASSUME NEW table, NEW s, NEW len, NEW fin,
         NEW label \in {"arm_idle", "acked", "text", "received", "fin"},
         table[s].state \in OpenStates \union {"closed"},
         label \in {"arm_idle", "acked"} => table[s].state \in OpenStates
  PROVE  /\ FramesTold(table, Resume(label, s, len, fin))
         /\ \A top : (label \in {"arm_idle", "acked"} => top.event \in {"established", "data_acked"})
                       => FramesTold(table, <<top>> \o Resume(label, s, len, fin))
<1> DEFINE frame == [at |-> label, sock |-> s, len |-> len, fin |-> fin]
<1>1. Resume(label, s, len, fin) = <<frame>> /\ frame.at = label /\ frame.sock = s
  BY DEF Resume
<1> HIDE DEF frame
<1>2. FrameTold(table, frame) /\ (ArmsNext(frame) <=> label \in {"arm_idle", "acked"})
  BY <1>1 DEF FrameTold, ArmsNext
<1>3. QED
  BY <1>1, <1>2, FramesToldOne, FramesToldTwo

LEMMA NothingBelow ==
  /\ <<>> \in Seq(Frame) /\ FreeToPush(<<>>)
  /\ \A table : FramesTold(table, <<>>)
BY DEF FreeToPush, FramesTold

LEMMA SynSentTold ==
  ASSUME AllSent, TypeOK, TypeOK', HeldInv, ToldInv, NEW s \in Sockets,
         \/ RcvSynSentSynAck(s) \/ RcvSynSentSyn(s) \/ RcvSynSentReset(s) \/ RcvSynSentOther(s)
  PROVE  ToldInv'
<1>1. \A sent \in SendResults : sent = TRUE
  BY DEF AllSent
<1>2. tcb[s].state = "syn_sent" /\ Idle
  BY DEF RcvSynSentSynAck, RcvSynSentSyn, RcvSynSentReset, RcvSynSentOther, InSynSent, Reached
<1>3. Conn(s) /\ Linked(tcb[s].state) /\ told[s] = "opening"
  BY <1>2, OwnerIs DEF OpeningStates
<1>4. tcb[s] \in Tcb /\ SameEnds(s, tcb[s])
  BY SocketTyped DEF SameEnds, SameOwner
<1>5. CASE RcvSynSentSynAck(s)
  <2> DEFINE u == [tcb[s] EXCEPT !.state = "established"]
             top == [at |-> "callback", sock |-> s, app |-> tcb[s].callback,
                     event |-> "established"]
  <2>1. /\ tcb' = [tcb EXCEPT ![s] = u] /\ timers' = Stop(timers, tcb[s].timer)
        /\ Raise(s, tcb[s].callback, "established", Resume("arm_idle", s, 0, FALSE))
    BY <1>1, <1>5 DEF RcvSynSentSynAck, TypeOK
  <2>2. SameEnds(s, u) /\ u.state = "established" /\ u.timer = tcb[s].timer
    BY <1>4 DEF SameEnds, SameOwner, Tcb
  <2>3. stack' = <<top>> \o Resume("arm_idle", s, 0, FALSE) /\ top.event = "established"
    BY <2>1 DEF Raise
  <2> HIDE DEF u, top
  <2>4. tcb'[s] = u /\ u.state \in OpenStates
    BY <2>1, <2>2 DEF TypeOK, OpenStates
  <2>5. StackTold'
    BY <2>3, <2>4, ResumeTold DEF StackTold
  <2>6. timers' = Stop(timers, u.timer)
    BY <2>1, <2>2
  <2>7. QED
    BY <1>3, <2>1, <2>2, <2>4, <2>5, <2>6, OpenTold
<1>6. CASE RcvSynSentSyn(s)
  <2> DEFINE u == [tcb[s] EXCEPT !.state = "syn_received", !.rtx = RtxSynAck]
  <2>1. Rearmed(s, u, <<>>)
    BY <1>1, <1>6 DEF RcvSynSentSyn
  <2>2. SameEnds(s, u) /\ u.state = "syn_received"
    BY <1>4 DEF SameEnds, SameOwner, Tcb
  <2> HIDE DEF u
  <2>3. Linked("syn_received") /\ Fits("syn_received", "opening")
    BY DEF Fits, OpeningStates, OpenStates, Linked
  <2>4. QED
    BY <1>3, <2>1, <2>2, <2>3, NothingBelow, RearmTold
<1>7. CASE RcvSynSentReset(s)
  <2>1. TcbClose(s, tcb[s], "error", <<>>) /\ "error" \in ClosingEvents
    BY <1>7 DEF RcvSynSentReset, ClosingEvents
  <2>2. QED
    BY <1>3, <1>4, <2>1, NothingBelow, CloseTold
<1>8. CASE RcvSynSentOther(s)
  <2>1. timers' = Stop(timers, tcb[s].timer) /\ UNCHANGED <<tcb, fifo, stack, told, finSent>>
    BY <1>8 DEF RcvSynSentOther
  <2>2. StackTold'
    BY <1>2, <2>1 DEF StackTold, FramesTold, Idle
  <2>3. \A t \in Timers : timers'[t].state = "running" => timers[t].state = "running"
    BY <2>1 DEF Stop, TypeOK
  <2>4. QED
    BY <2>1, <2>2, <2>3, StillTold
<1>9. QED
  BY <1>5, <1>6, <1>7, <1>8

\* RST, SYN, the last ACK, and an ACK of what was not sent.
LEMMA EndingTold ==
  ASSUME AllSent, TypeOK, TypeOK', HeldInv, ToldInv, NEW s \in Sockets,
         RcvReset(s) \/ RcvLastAck(s) \/ RcvAckBeyond(s)
  PROVE  ToldInv'
<1>1. tcb[s].state \in SynchronizedStates /\ Idle
  BY DEF RcvReset, RcvLastAck, RcvAckBeyond, InState, Reached, SynchronizedStates
<1>2. tcb[s].state \in OpenStates \union {"syn_received"}
  BY <1>1 DEF SynchronizedStates, DataStates, OpenStates
<1>3. Conn(s) /\ Linked(tcb[s].state) /\ told[s] \in {"opening", "open"}
  BY <1>2, OwnerIs DEF OpeningStates
<1>4. tcb[s] \in Tcb /\ SameEnds(s, tcb[s])
  BY SocketTyped DEF SameEnds, SameOwner
<1>5. CASE \E event \in ClosingEvents : TcbClose(s, tcb[s], event, <<>>)
  BY <1>3, <1>4, <1>5, NothingBelow, CloseTold
<1>6. CASE \E n \in SentUpTo(tcb[s]) :
             tcb' = [tcb EXCEPT ![s].seqNext = n] /\ UNCHANGED <<timers, stack, told>>
  <2>1. PICK n \in SentUpTo(tcb[s]) :
          tcb' = [tcb EXCEPT ![s].seqNext = n] /\ UNCHANGED <<timers, stack, told>>
    BY <1>6
  <2> DEFINE u == [tcb[s] EXCEPT !.seqNext = n]
  <2>2. tcb' = [tcb EXCEPT ![s] = u] /\ SameEnds(s, u) /\ u.state = tcb[s].state
    BY <1>4, <2>1 DEF SameEnds, SameOwner, Tcb, TypeOK
  <2> HIDE DEF u
  <2>3. StackTold'
    BY <1>1, <2>1 DEF StackTold, FramesTold, Idle
  <2>4. Fits(tcb[s].state, told[s])
    BY DEF ToldInv, SocketsTold, SocketTold
  <2>5. QED
    BY <1>3, <2>1, <2>2, <2>3, <2>4, SilentTold
<1>7. QED
  <2>1. "reset" \in ClosingEvents /\ "closed" \in ClosingEvents /\ ~(FALSE \in SendResults)
    BY DEF ClosingEvents, AllSent
  <2>2. QED
    BY <1>5, <1>6, <2>1 DEF RcvReset, RcvLastAck, RcvAckBeyond

\* An acceptable segment, up to the first callback.
LEMMA AckTold ==
  ASSUME TypeOK, TypeOK', HeldInv, ToldInv, NEW s \in Sockets, NEW len \in Nat, NEW fin \in BOOLEAN,
         \/ RcvSynReceivedAck(s, len, fin) \/ RcvAckNothing(s, len, fin)
         \/ RcvAckOfFin(s, len, fin) \/ \E n \in Nat : RcvAckData(s, n, len, fin)
  PROVE  ToldInv'
<1>1. tcb[s] \in Tcb /\ SameEnds(s, tcb[s])
  BY SocketTyped DEF SameEnds, SameOwner
<1>2. CASE RcvSynReceivedAck(s, len, fin)
  <2> DEFINE u == [tcb[s] EXCEPT !.state = "established"]
             top == [at |-> "callback", sock |-> s, app |-> tcb[s].callback,
                     event |-> "established"]
  <2>1. /\ tcb' = [tcb EXCEPT ![s] = u] /\ UNCHANGED timers /\ tcb[s].state = "syn_received"
        /\ Raise(s, tcb[s].callback, "established", Resume("arm_idle", s, len, fin))
    BY <1>2 DEF RcvSynReceivedAck, InState, TypeOK
  <2>2. SameEnds(s, u) /\ u.state = "established"
    BY <1>1 DEF SameEnds, SameOwner, Tcb
  <2>3. stack' = <<top>> \o Resume("arm_idle", s, len, fin) /\ top.event = "established"
    BY <2>1 DEF Raise
  <2> HIDE DEF u, top
  <2>4. tcb'[s] = u /\ u.state \in OpenStates
    BY <2>1, <2>2 DEF TypeOK, OpenStates
  <2>5. StackTold'
    BY <2>3, <2>4, ResumeTold DEF StackTold
  <2>6. Conn(s) /\ Linked(tcb[s].state) /\ told[s] = "opening"
    BY <2>1, OwnerIs DEF OpeningStates
  <2>7. QED
    BY <2>1, <2>2, <2>4, <2>5, <2>6, OpenTold
<1>3. ASSUME tcb[s].state \in DataStates \union {"time_wait"}
      PROVE  /\ tcb[s].state \in OpenStates /\ Conn(s) /\ Linked(tcb[s].state)
             /\ told[s] = "open"
  <2>1. tcb[s].state \in OpenStates
    BY <1>3 DEF DataStates, OpenStates
  <2>2. QED
    BY <2>1, OwnerIs
<1>4. CASE RcvAckNothing(s, len, fin)
  <2>1. /\ stack' = Resume("text", s, len, fin) /\ UNCHANGED <<tcb, timers, told>>
        /\ tcb[s].state \in DataStates \union {"time_wait"}
    BY <1>4 DEF RcvAckNothing, InState, GoOn
  <2>2. tcb'[s].state \in OpenStates
    BY <1>3, <2>1
  <2>3. FramesTold(tcb', Resume("text", s, len, fin))
    BY <2>2, ResumeTold
  <2>4. StackTold'
    BY <2>1, <2>3 DEF StackTold
  <2>5. QED
    BY <2>1, <2>4, StillTold
<1>5. CASE RcvAckOfFin(s, len, fin)
  <2> DEFINE u == [tcb[s] EXCEPT !.state = "fin_wait_2"]
  <2>1. Rearmed(s, u, Resume("text", s, len, fin)) /\ tcb[s].state \in DataStates
    BY <1>5 DEF RcvAckOfFin, InState, DataStates
  <2>2. SameEnds(s, u) /\ u.state = "fin_wait_2"
    BY <1>1 DEF SameEnds, SameOwner, Tcb
  <2> HIDE DEF u
  <2>3. tcb'[s] = u /\ u.state \in OpenStates
    BY <2>1, <2>2 DEF TypeOK, OpenStates, Rearmed
  <2>4. FramesTold(tcb', Resume("text", s, len, fin))
    BY <2>3, ResumeTold
  <2>5. Linked("fin_wait_2") /\ Fits("fin_wait_2", "open")
    BY DEF Fits, OpeningStates, OpenStates, Linked
  <2>6. QED
    BY <1>3, <2>1, <2>2, <2>4, <2>5, RearmTold
<1>6. CASE \E n \in Nat : RcvAckData(s, n, len, fin)
  <2>1. PICK n \in Nat : RcvAckData(s, n, len, fin)
    BY <1>6
  <2> DEFINE u == [tcb[s] EXCEPT !.seqNext = @ - n, !.rtx = RtxData]
             top == [at |-> "callback", sock |-> s, app |-> tcb[s].callback,
                     event |-> "data_acked"]
  <2>2. /\ tcb' = [tcb EXCEPT ![s] = u] /\ UNCHANGED timers /\ tcb[s].state \in DataStates
        /\ Raise(s, tcb[s].callback, "data_acked", Resume("acked", s, len, fin))
    BY <2>1 DEF RcvAckData, InState, TypeOK
  <2>3. SameEnds(s, u) /\ u.state = tcb[s].state
    BY <1>1 DEF SameEnds, SameOwner, Tcb
  <2>4. stack' = <<top>> \o Resume("acked", s, len, fin) /\ top.event = "data_acked"
    BY <2>2 DEF Raise
  <2> HIDE DEF u, top
  <2>5. tcb'[s] = u /\ u.state \in OpenStates
    BY <1>3, <2>2, <2>3 DEF TypeOK
  <2>6. StackTold'
    BY <2>4, <2>5, ResumeTold DEF StackTold
  <2>7. QED
    BY <1>3, <2>2, <2>3, <2>5, <2>6, OpenTold
<1>7. QED
  BY <1>2, <1>4, <1>5, <1>6

LEMMA PacketTold ==
  ASSUME AllSent, TypeOK, TypeOK', HeldInv, ToldInv, tcp_handle_packet
  PROVE  ToldInv'
<1>1. PICK s \in Sockets :
        \/ \E remote \in Remotes : RcvListenSyn(s, remote)
        \/ RcvSynSentSynAck(s) \/ RcvSynSentSyn(s) \/ RcvSynSentReset(s) \/ RcvSynSentOther(s)
        \/ RcvReset(s) \/ RcvLastAck(s) \/ RcvAckBeyond(s)
        \/ \E len \in Lengths, fin \in BOOLEAN :
             \/ RcvSynReceivedAck(s, len, fin)
             \/ RcvAckNothing(s, len, fin)
             \/ RcvAckOfFin(s, len, fin)
             \/ \E n \in 1 .. FifoSize : RcvAckData(s, n, len, fin)
  BY DEF tcp_handle_packet
<1>2. Lengths \subseteq Nat /\ 1 .. FifoSize \subseteq Nat
  BY SizesAssumption, RtxAssumption DEF Lengths
<1>3. QED
  BY <1>1, <1>2, ListenSynTold, SynSentTold, EndingTold, AckTold

-----------------------------------------------------------------------------
(* The rest of a handler, after a callback.                                *)

LEMMA BaseIsHead ==
  ASSUME NEW q \in Seq(Frame), q # <<>>, Tail(q) = <<>>
  PROVE  Base(q) = Head(q)
<1> DEFINE rest == Tail(q)
<1>1. Len(q) = Len(rest) + 1 /\ Head(q) = q[1] /\ rest \in Seq(Frame)
  OBVIOUS
<1>2. rest = <<>>
  OBVIOUS
<1> HIDE DEF rest
<1>3. Len(rest) = 0
  BY <1>1, <1>2, EmptySeq
<1>4. Len(q) = 1
  BY <1>1, <1>3
<1>5. QED
  BY <1>1, <1>4 DEF Base

\* A handler's function or the tick is alone on the stack.
LEMMA LonelyBase ==
  ASSUME TypeOK, stack # <<>>, FramesHeld(tcb, stack), Head(stack).at # "callback"
  PROVE  Tail(stack) = <<>> /\ Base(stack) = Head(stack)
<1>1. stack \in Seq(Frame)
  BY DEF TypeOK
<1>2. Tail(stack) = <<>>
  BY <1>1, FramesPopped
<1>3. QED
  BY <1>1, <1>2, BaseIsHead

\* The function that goes on is the only one on the stack.
LEMMA TopTold ==
  ASSUME TypeOK, HeldInv, ToldInv,
         NEW label \in {"arm_idle", "acked", "rearm", "text", "received", "fin"}, At(label)
  PROVE  /\ label # "rearm" /\ Top.sock \in Sockets /\ Conn(Top.sock) /\ Tail(stack) = <<>>
         /\ \A next, s, len, fin :
              Resume(next, s, len, fin) \o Tail(stack) = Resume(next, s, len, fin)
         /\ tcb[Top.sock].state \in OpenStates \union {"closed"}
         /\ label \in {"arm_idle", "acked"} => tcb[Top.sock].state \in OpenStates
         /\ tcb[Top.sock].state # "closed" =>
              told[Top.sock] = "open" /\ Linked(tcb[Top.sock].state)
<1>1. /\ Top.sock \in Sockets /\ Conn(Top.sock) /\ Tail(stack) = <<>>
  BY SegmentOwner
<1>2. stack \in Seq(Frame) /\ stack # <<>> /\ Top.at = label
  BY DEF TypeOK, At, Top
<1>3. Top = Base(stack)
  BY <1>2, LonelyBase DEF Top, HeldInv, StackHeld
<1>4. FrameTold(tcb, Top)
  BY <1>2, <1>3 DEF ToldInv, StackTold, FramesTold
<1>5. /\ label # "rearm" /\ tcb[Top.sock].state \in OpenStates \union {"closed"}
      /\ label \in {"arm_idle", "acked"} => tcb[Top.sock].state \in OpenStates
  BY <1>2, <1>4 DEF FrameTold
<1>6. tcb[Top.sock].state # "closed" => told[Top.sock] = "open" /\ Linked(tcb[Top.sock].state)
  BY <1>1, <1>5, OwnerIs
<1>7. ASSUME NEW next, NEW s, NEW len, NEW fin
      PROVE  Resume(next, s, len, fin) \o Tail(stack) = Resume(next, s, len, fin)
  <2>1. \A x : <<x>> \o <<>> = <<x>>
    OBVIOUS
  <2>2. QED
    BY <1>1, <2>1 DEF Resume
<1>8. QED
  BY <1>1, <1>5, <1>6, <1>7, Zenon

LEMMA CallbackReturnTold ==
  ASSUME TypeOK, HeldInv, ToldInv, CallbackReturn
  PROVE  ToldInv'
<1>1. /\ stack \in Seq(Frame) /\ stack # <<>> /\ FramesTold(tcb, stack)
      /\ stack' = Tail(stack) /\ UNCHANGED <<tcb, timers, told>>
  BY DEF CallbackReturn, At, TypeOK, ToldInv, StackTold
<1>2. StackTold'
  BY <1>1, FramesToldPopped DEF StackTold
<1>3. QED
  BY <1>1, <1>2, StillTold

LEMMA TickEndsTold ==
  ASSUME TypeOK, HeldInv, ToldInv, TickEnds
  PROVE  ToldInv'
<1> DEFINE t == Head(stack).timer
<1>1. /\ stack \in Seq(Frame) /\ stack # <<>> /\ FramesTold(tcb, stack)
      /\ stack' = Tail(stack) /\ UNCHANGED <<tcb, told>>
      /\ timers' = timers \/ timers' = [timers EXCEPT ![t].state = "stopped"]
  BY DEF TickEnds, AfterCallback, At, TypeOK, ToldInv, StackTold
<1> HIDE DEF t
<1>2. \A u \in Timers : timers'[u].state = "running" => timers[u].state = "running"
  BY <1>1 DEF TypeOK
<1>3. StackTold'
  BY <1>1, FramesToldPopped DEF StackTold
<1>4. QED
  BY <1>1, <1>2, <1>3, StillTold

LEMMA DropNever ==
  ASSUME TypeOK, HeldInv, ToldInv
  PROVE  ~DropConnection
<1> SUFFICES ASSUME DropConnection PROVE FALSE
  OBVIOUS
<1>1. stack \in Seq(Frame) /\ stack # <<>> /\ FramesHeld(tcb, stack) /\ Head(stack).at = "drop"
  BY DEF TypeOK, HeldInv, StackHeld, DropConnection, At
<1>2. Base(stack) = Head(stack)
  BY <1>1, LonelyBase
<1>3. QED
  BY <1>1, <1>2 DEF ToldInv, StackTold, FramesTold, FrameTold

LEMMA IncomingTold ==
  ASSUME AllSent, TypeOK, TypeOK', HeldInv, ToldInv, Incoming
  PROVE  ToldInv'
<1>1. stack \in Seq(Frame) /\ stack # <<>> /\ FramesHeld(tcb, stack) /\ Head(stack).at = "incoming"
  BY DEF TypeOK, HeldInv, StackHeld, Incoming, At
<1>2. Base(stack) = Head(stack) /\ Tail(stack) = <<>>
  BY <1>1, LonelyBase
<1>3. PICK s \in Sockets : s = Head(stack).sock
  <2>1. Head(stack) \in IncomingFrame
    BY <1>1, TopTyped, TypeParts DEF At
  <2>2. QED
    BY <2>1 DEF IncomingFrame
<1>4. CASE TcbFree(s) /\ stack' = <<>>
  BY <1>4, NothingBelow, FreeTold
<1> DEFINE u == [tcb[s] EXCEPT !.state = "syn_received", !.rtx = RtxSynAck]
<1>5. CASE tcb[s].state = "accepted" /\ tcb' = [tcb EXCEPT ![s] = u] /\ ArmTimer(tcb[s])
           /\ GoOn(<<>>)
  <2>1. Conn(s) /\ Linked(tcb[s].state) /\ told[s] = "opening"
    BY <1>5, OwnerIs DEF OpeningStates
  <2>2. SameEnds(s, u) /\ u.state = "syn_received" /\ u.timer = tcb[s].timer
    BY SocketTyped DEF SameEnds, SameOwner, Tcb
  <2> HIDE DEF u
  <2>3. Rearmed(s, u, <<>>)
    BY <1>5, <2>2 DEF Rearmed, ArmTimer
  <2>4. Linked("syn_received") /\ Fits("syn_received", "opening")
    BY DEF Fits, OpeningStates, OpenStates, Linked
  <2>5. QED
    BY <2>1, <2>2, <2>3, <2>4, NothingBelow, RearmTold
<1>6. IncomingRefused(s) \/ IncomingAccepted(s, Head(stack).listener)
  BY <1>3 DEF Incoming
<1>7. CASE IncomingRefused(s)
  BY <1>2, <1>4, <1>7 DEF IncomingRefused
<1>8. CASE IncomingAccepted(s, Head(stack).listener)
  <2>1. ~(FALSE \in SendResults)
    BY DEF AllSent
  <2>2. /\ tcb[s].state = "accepted" /\ ArmTimer(tcb[s]) /\ GoOn(<<>>)
        /\ tcb' = [tcb EXCEPT ![s].state = "syn_received", ![s].rtx = RtxSynAck]
    BY <1>2, <1>8, <2>1 DEF IncomingAccepted
  <2>3. tcb' = [tcb EXCEPT ![s] = u]
    BY <2>2 DEF TypeOK
  <2>4. QED
    BY <1>5, <2>2, <2>3
<1>9. QED
  BY <1>6, <1>7, <1>8

\* A step after a callback that only goes on.
LEMMA OnlyGoesOnTold ==
  ASSUME TypeOK, HeldInv, ToldInv, UNCHANGED <<tcb, timers, told>>, FramesTold(tcb, stack')
  PROVE  ToldInv'
<1>1. StackTold'
  BY DEF StackTold
<1>2. QED
  BY <1>1, StillTold

LEMMA GoesOnTold ==
  ASSUME TypeOK, HeldInv, ToldInv, TextNone \/ TextNoRoom \/ Received \/ FinIgnored
  PROVE  ToldInv'
<1>1. UNCHANGED <<tcb, timers, told>>
  BY DEF TextNone, TextNoRoom, Received, FinIgnored, GoOn
<1>2. PICK label \in {"text", "received", "fin"} : At(label)
  BY DEF TextNone, TextNoRoom, Received, FinIgnored
<1>3. /\ Tail(stack) = <<>> /\ tcb[Top.sock].state \in OpenStates \union {"closed"}
      /\ Resume("fin", Top.sock, 0, Top.fin) \o Tail(stack) = Resume("fin", Top.sock, 0, Top.fin)
  BY <1>2, TopTold
<1>4. stack' = <<>> \/ stack' = Resume("fin", Top.sock, 0, Top.fin)
  BY <1>3 DEF TextNone, TextNoRoom, Received, FinIgnored, GoOn
<1>5. FramesTold(tcb, stack')
  BY <1>3, <1>4, ResumeTold, NothingBelow
<1>6. QED
  BY <1>1, <1>5, OnlyGoesOnTold

LEMMA ArmIdleTold ==
  ASSUME TypeOK, TypeOK', HeldInv, ToldInv, ArmIdle
  PROVE  ToldInv'
<1> DEFINE s == Top.sock
           text == Resume("text", s, Top.len, Top.fin)
<1>1. At("arm_idle") /\ ArmTimer(tcb[s]) /\ GoOn(text \o Tail(stack)) /\ UNCHANGED tcb
  BY DEF ArmIdle
<1>2. /\ s \in Sockets /\ Conn(s) /\ text \o Tail(stack) = text
      /\ tcb[s].state \in OpenStates /\ "closed" \notin OpenStates
      /\ tcb[s].state # "closed" => told[s] = "open" /\ Linked(tcb[s].state)
  BY <1>1, TopTold DEF OpenStates
<1>3. FramesTold(tcb', text)
  BY <1>1, <1>2, ResumeTold
<1> HIDE DEF s, text
<1>4. Rearmed(s, tcb[s], text)
  BY <1>1, <1>2 DEF Rearmed, TypeOK
<1>5. SameEnds(s, tcb[s]) /\ told[s] = "open" /\ Linked(tcb[s].state)
  BY <1>2 DEF SameEnds, SameOwner
<1>6. Fits(tcb[s].state, told[s])
  BY <1>2 DEF ToldInv, SocketsTold, SocketTold
<1>7. QED
  BY <1>2, <1>3, <1>4, <1>5, <1>6, RearmTold

LEMMA AckedTold ==
  ASSUME AllSent, TypeOK, TypeOK', HeldInv, ToldInv, Acked
  PROVE  ToldInv'
<1> DEFINE s == Top.sock
           text == Resume("text", s, Top.len, Top.fin)
<1>1. /\ At("acked")
      /\ \/ \E n \in SentUpTo(tcb[s]) :
              Rearmed(s, [tcb[s] EXCEPT !.seqNext = n], text \o Tail(stack))
         \/ Rearmed(s, tcb[s], text \o Tail(stack))
  BY DEF Acked, AllSent
<1>2. /\ s \in Sockets /\ Conn(s) /\ text \o Tail(stack) = text
      /\ tcb[s].state \in OpenStates /\ "closed" \notin OpenStates
      /\ tcb[s].state # "closed" => told[s] = "open" /\ Linked(tcb[s].state)
  BY <1>1, TopTold DEF OpenStates
<1>3. tcb[s] \in Tcb /\ Fits(tcb[s].state, told[s])
  BY <1>2, SocketTyped DEF ToldInv, SocketsTold, SocketTold
<1>4. ASSUME NEW u, SameEnds(s, u), u.state = tcb[s].state, Rearmed(s, u, text)
      PROVE  ToldInv'
  <2>1. tcb'[s].state \in OpenStates
    BY <1>2, <1>4 DEF Rearmed, TypeOK
  <2>2. FramesTold(tcb', text)
    BY <2>1, ResumeTold
  <2> HIDE DEF s, text
  <2>3. QED
    BY <1>2, <1>3, <1>4, <2>2, RearmTold
<1> HIDE DEF s, text
<1>5. CASE Rearmed(s, tcb[s], text \o Tail(stack))
  <2>1. SameEnds(s, tcb[s])
    BY DEF SameEnds, SameOwner
  <2>2. QED
    BY <1>2, <1>4, <1>5, <2>1
<1>6. CASE \E n \in SentUpTo(tcb[s]) :
             Rearmed(s, [tcb[s] EXCEPT !.seqNext = n], text \o Tail(stack))
  <2>1. PICK n \in SentUpTo(tcb[s]) :
          Rearmed(s, [tcb[s] EXCEPT !.seqNext = n], text \o Tail(stack))
    BY <1>6
  <2> DEFINE u == [tcb[s] EXCEPT !.seqNext = n]
  <2>2. SameEnds(s, u) /\ u.state = tcb[s].state
    BY <1>3 DEF SameEnds, SameOwner, Tcb
  <2>3. Rearmed(s, u, text)
    BY <1>2, <2>1
  <2> HIDE DEF u
  <2>4. QED
    BY <1>4, <2>2, <2>3
<1>7. QED
  BY <1>1, <1>5, <1>6

LEMMA TextQueuedTold ==
  ASSUME AllSent, TypeOK, TypeOK', HeldInv, ToldInv, TextQueued
  PROVE  ToldInv'
<1> DEFINE s == Top.sock
           n == Least(Top.len, FifoSpace(tcb[s].rx))
           received == Resume("received", s, Top.len - n, Top.fin)
           top == [at |-> "callback", sock |-> s, app |-> tcb[s].callback,
                   event |-> "data_received"]
<1>1. At("text") /\ tcb[s].state \in TextStates
  BY DEF TextQueued
<1>2. PICK upTo : tcb' = [tcb EXCEPT ![s].seqNext = upTo]
  BY DEF TextQueued, AllSent
<1>3. /\ ArmTimer(tcb[s]) \/ UNCHANGED timers
      /\ Raise(s, tcb[s].callback, "data_received", received \o Tail(stack))
  BY DEF TextQueued, AllSent
<1>4. tcb[s].state \in OpenStates /\ tcb[s].state # "closed"
  BY <1>1 DEF TextStates, OpenStates
<1>5. /\ s \in Sockets /\ Conn(s) /\ received \o Tail(stack) = received
      /\ told[s] = "open" /\ Linked(tcb[s].state)
  BY <1>1, <1>4, TopTold
<1>6. tcb[s] \in Tcb
  BY <1>5, SocketTyped
<1> DEFINE u == [tcb[s] EXCEPT !.seqNext = upTo]
<1>7. SameEnds(s, u) /\ u.state = tcb[s].state /\ u.timer = tcb[s].timer
  BY <1>6 DEF SameEnds, SameOwner, Tcb
<1>8. tcb' = [tcb EXCEPT ![s] = u]
  BY <1>2, <1>5 DEF TypeOK
<1>9. Raise(s, tcb[s].callback, "data_received", received) /\ stack' = <<top>> \o received
  BY <1>3, <1>5 DEF Raise
<1> HIDE DEF u
<1>10. tcb'[s].state \in OpenStates
  BY <1>4, <1>5, <1>7, <1>8 DEF TypeOK
<1>11. FramesTold(tcb', <<top>> \o received)
  <2> HIDE DEF top
  <2>1. QED
    BY <1>10, ResumeTold
<1> HIDE DEF s, n, received, top
<1>12. StackTold'
  BY <1>9, <1>11 DEF StackTold
<1>13. ArmTimer(u) \/ UNCHANGED timers
  BY <1>3, <1>7 DEF ArmTimer
<1>14. QED
  BY <1>4, <1>5, <1>7, <1>8, <1>9, <1>12, <1>13, OpenTold

LEMMA FinTakenTold ==
  ASSUME AllSent, TypeOK, TypeOK', HeldInv, ToldInv, FinTaken
  PROVE  ToldInv'
<1> DEFINE s == Top.sock
           next == AfterFin(tcb[s].state)
<1>1. At("fin") /\ tcb[s].state # "closed"
  BY DEF FinTaken
<1>2. PICK n : tcb' = [tcb EXCEPT ![s] = [tcb[s] EXCEPT !.state = next, !.seqNext = n]]
  BY DEF FinTaken, AllSent
<1>3. (ArmTimer(tcb[s]) \/ UNCHANGED timers) /\ GoOn(Tail(stack))
  BY DEF FinTaken, AllSent
<1>4. /\ s \in Sockets /\ Conn(s) /\ Tail(stack) = <<>> /\ tcb[s].state \in OpenStates
      /\ told[s] = "open" /\ Linked(tcb[s].state)
  BY <1>1, TopTold
<1>5. next \in OpenStates
  BY <1>4 DEF AfterFin, OpenStates
<1>6. tcb[s] \in Tcb
  BY <1>4, SocketTyped
<1> DEFINE u == [tcb[s] EXCEPT !.state = next, !.seqNext = n]
<1>7. SameEnds(s, u) /\ u.state = next /\ u.timer = tcb[s].timer
  BY <1>6 DEF SameEnds, SameOwner, Tcb
<1>8. tcb' = [tcb EXCEPT ![s] = u]
  BY <1>2
<1> HIDE DEF u, next, s
<1>9. StackTold'
  BY <1>3, <1>4, NothingBelow DEF GoOn, StackTold
<1>10. ArmTimer(u) \/ UNCHANGED timers
  BY <1>3, <1>7 DEF ArmTimer
<1>11. Fits(u.state, "open") /\ Linked(u.state)
  BY <1>5, <1>7 DEF Fits, OpeningStates, OpenStates, Linked
<1>12. UNCHANGED told
  BY <1>3 DEF GoOn
<1>13. QED
  BY <1>4, <1>7, <1>8, <1>9, <1>10, <1>11, <1>12, SilentTold

LEMMA HandlerTold ==
  ASSUME AllSent, TypeOK, TypeOK', HeldInv, ToldInv, HandlerStep
  PROVE  ToldInv'
<1>1. ~DropConnection /\ ~Rearm
  <2>1. ~Rearm
    BY TopTold DEF Rearm
  <2>2. QED
    BY <2>1, DropNever
<1>2. QED
  BY <1>1, CallbackReturnTold, IncomingTold, TickEndsTold, ArmIdleTold, AckedTold,
     TextQueuedTold, GoesOnTold, FinTakenTold DEF HandlerStep

-----------------------------------------------------------------------------
(* The theorems.                                                           *)

LEMMA ApiTold ==
  ASSUME FreesLate, ClosesLate, AllSent, TypeOK, TypeOK', HeldInv, ToldInv, Api
  PROVE  ToldInv'
<1>1. CASE \E app \in Apps : tcp_socket_alloc(app)
  BY <1>1, AllocTold
<1>2. ASSUME NEW s \in Sockets,
             \/ \E port \in ListenPorts : tcp_listen(s, port)
             \/ \E remote \in Remotes : tcp_connect(s, remote)
             \/ tcp_accept(s)
             \/ tcp_close(s)
             \/ tcp_socket_free(s)
             \/ \E n \in 1 .. FifoSize : tcp_read(s, n) \/ tcp_write(s, n)
      PROVE  ToldInv'
  BY <1>2, ListenTold, ConnectTold, AcceptTold, CloseCallTold, SocketFreeTold, ReadTold, WriteTold
<1>3. QED
  BY <1>1, <1>2 DEF Api

LEMMA InitTold == Init => ToldInv
<1> SUFFICES ASSUME Init PROVE ToldInv
  OBVIOUS
<1>1. \A s \in Sockets : tcb[s] = ZeroTcb /\ told[s] = "nothing"
  BY DEF Init
<1>2. ZeroTcb.state = "unused" /\ Fits("unused", "nothing")
  BY DEF ZeroTcb, Fits, OpeningStates, OpenStates
<1>3. SocketsTold
  BY <1>1, <1>2 DEF SocketsTold, SocketTold, InUse
<1>4. ConnectionsUnique
  BY <1>1, <1>2 DEF ConnectionsUnique, Connected
<1>5. StackTold
  BY NothingBelow DEF Init, StackTold
<1>6. QED
  BY <1>3, <1>4, <1>5 DEF ToldInv

LEMMA NextTold ==
  ASSUME FreesLate, ClosesLate, AllSent
  PROVE  TypeOK /\ TypeOK' /\ HeldInv /\ ToldInv /\ [Next]_vars => ToldInv'
<1> SUFFICES ASSUME TypeOK, TypeOK', HeldInv, ToldInv, [Next]_vars PROVE ToldInv'
  OBVIOUS
<1>1. CASE UNCHANGED vars
  <2>1. UNCHANGED <<tcb, timers, stack, told>>
    BY <1>1 DEF vars
  <2>2. FramesTold(tcb, stack')
    BY <2>1 DEF ToldInv, StackTold
  <2>3. QED
    BY <2>1, <2>2, OnlyGoesOnTold
<1>2. CASE Next
  BY <1>2, ApiTold, PacketTold, TimerExpiresTold, HandlerTold DEF Next
<1>3. QED
  BY <1>1, <1>2

\* What tcp.c has told the owner of a socket fits the state of the socket, at every
\* point of every handler, also while the owner's callback runs, when every segment
\* can be sent (AllSent).
THEOREM ToldAlways ==
  ASSUME FreesLate, ClosesLate, AllSent
  PROVE  Spec => []ToldInv
<1>1. TypeOK /\ TypeOK' /\ HeldInv /\ ToldInv /\ [Next]_vars => ToldInv'
  BY NextTold
<1>2. Spec => []TypeOK
  BY TypeCorrect
<1>3. Spec => []HeldInv
  BY HeldAlways
<1>4. QED
  BY <1>1, <1>2, <1>3, InitTold, PTL DEF Spec

\* An owner is told of a connection in order: that it comes or that it is asked for,
\* that it is established, then data and idle events, then one last event, and
\* nothing more, whatever it calls from its callback (tcp.c:451-820).
THEOREM EventsInOrder ==
  ASSUME FreesLate, ClosesLate, AllSent
  PROVE  Spec => []EventOrder
<1>1. TypeOK /\ ToldInv => EventOrder
  <2> SUFFICES ASSUME TypeOK, ToldInv, NEW s \in Sockets PROVE told[s] # "wrong"
    BY DEF EventOrder
  <2>1. tcb[s].state \in TcpStates
    BY SocketTyped DEF Tcb
  <2>2. Fits(tcb[s].state, told[s])
    BY DEF ToldInv, SocketsTold, SocketTold
  <2>3. QED
    BY <2>1, <2>2 DEF Fits, TcpStates, OpeningStates, OpenStates
<1>2. QED
  BY <1>1, TypeCorrect, ToldAlways, PTL

\* Two connections never have both ends in common, although a socket that asked for
\* a connection is still closed, and found by no segment, until its timer sends the
\* first SYN (tcp.c:706-724): meanwhile it has its port alone.
THEOREM ConnectionsApart ==
  ASSUME FreesLate, ClosesLate, AllSent
  PROVE  Spec => []ConnectionsUnique
<1>1. ToldInv => ConnectionsUnique
  BY DEF ToldInv
<1>2. QED
  BY <1>1, ToldAlways, PTL

\* The applications of app/ close no socket when told that it is established or that
\* data was acknowledged.
THEOREM RepositoryAppsCloseLate ==
  ASSUME \A app \in Apps : Calls[app] \in {EchodCalls, HttpdCalls, TpCalls}
  PROVE  ClosesLate
<1> SUFFICES ASSUME NEW app \in Apps, NEW event \in Events, "close" \in Calls[app][event]
             PROVE  event \notin {"established", "data_acked"}
  BY DEF ClosesLate
<1>1. event = "data_received"
  BY DEF EchodCalls, HttpdCalls, TpCalls, NoCalls, Events
<1>2. QED
  BY <1>1
===============================================================================
