------------------------------ MODULE Timer_proofs ------------------------------
(***************************************************************************)
(* Theorems about module Timer, for every number of slots, every set of    *)
(* callbacks and delays and every number of calls: its table keeps its     *)
(* type, timers run exactly when they were asked to, they fire in the tick *)
(* they should, and the table implements TimerService.                     *)
(***************************************************************************)
EXTENDS Timer, FiniteSets, FiniteSetTheorems, TLAPS

\* The scan of a table for the first slot that fits finds one, if there is one: a
\* finite set of numbers that is not empty has a least element.
LEMMA LeastExists ==
  ASSUME NEW S \in SUBSET Int, IsFiniteSet(S), S # {}
  PROVE  \E n \in S : \A m \in S : n <= m
<1> DEFINE Below(n) == {m \in S : m < n}
           Sets == {Below(n) : n \in S}
<1>1. \A n \in S : Below(n) \in FiniteSubsetsOf(S)
  BY FS_Subset DEF FiniteSubsetsOf
<1>2. Sets \subseteq FiniteSubsetsOf(S) /\ Sets # {}
  BY <1>1
<1>3. IsWellFoundedOn(StrictSubsetOrdering(S), FiniteSubsetsOf(S))
  BY FS_StrictSubsetOrderingWellFounded
<1> HIDE DEF Sets
<1>4. PICK x \in Sets : \A y \in Sets : <<y, x>> \notin StrictSubsetOrdering(S)
  BY <1>2, <1>3, WFMin
<1> USE DEF Sets
<1>5. PICK n \in S : x = Below(n)
  BY <1>4
<1>6. ASSUME NEW m \in S, ~(n <= m)
      PROVE  FALSE
  <2>1. m \in Int /\ n \in Int /\ m < n
    BY <1>6
  <2>2. Below(m) \subseteq Below(n)
    <3>1. \A k \in S : k < m => k < n
      BY <2>1
    <3>2. QED
      BY <3>1
  <2>3. m \in Below(n) /\ m \notin Below(m)
    BY <2>1
  <2>4. <<Below(m), x>> \in StrictSubsetOrdering(S)
    BY <1>5, <2>2, <2>3 DEF StrictSubsetOrdering
  <2>5. QED
    BY <1>4, <2>4
<1>7. QED
  BY <1>6

\* timer_alloc finds the first free slot, or there is none (timer.c:142-144).
LEMMA AllocHandleFree ==
  ASSUME NEW pool
  PROVE  /\ FreeSlots(pool) = {} => AllocHandle(pool) = NoTimer
         /\ FreeSlots(pool) # {} =>
              /\ AllocHandle(pool) \in FreeSlots(pool)
              /\ AllocHandle(pool) \in Timers
<1>1. IsFiniteSet(FreeSlots(pool)) /\ FreeSlots(pool) \in SUBSET Int
  <2>1. IsFiniteSet(Timers) /\ Timers \in SUBSET Int
    BY FS_Interval, TimerMaxAssumption DEF Timers
  <2>2. FreeSlots(pool) \in SUBSET Timers
    BY DEF FreeSlots
  <2>3. QED
    BY <2>1, <2>2, FS_Subset
<1>2. ASSUME FreeSlots(pool) # {}
      PROVE  AllocHandle(pool) \in FreeSlots(pool)
  <2>1. \E t \in FreeSlots(pool) : \A u \in FreeSlots(pool) : t <= u
    BY <1>1, <1>2, LeastExists
  <2>2. QED
    BY <1>2, <2>1 DEF AllocHandle, Lowest
<1>3. QED
  BY <1>2 DEF AllocHandle, FreeSlots


\* timer_set, timer_stop, timer_free and timer_tick keep the table, the scan and
\* the history in their types (timer.c:47-169).
THEOREM TypeCorrect == Spec => []TypeOK
<1>1. Init => TypeOK
  <2> SUFFICES ASSUME Init PROVE TypeOK
    OBVIOUS
  <2>1. cores \in [Timers -> Core]
    BY DEF Init, Core, States, Modes
  <2>2. firing \in BOOLEAN /\ ~firing
    BY Zenon DEF Init
  <2>3. QED
    BY <2>1, <2>2 DEF Init, TypeOK
<1>2. ASSUME TypeOK, [Next]_vars
      PROVE  TypeOK'
  <2> USE <1>2 DEF TypeOK
  <2>1. ASSUME NEW callback \in Callbacks, timer_alloc(callback)
        PROVE  TypeOK'
    <3>1. cores' \in [Timers -> Core]
      BY <2>1, AllocHandleFree DEF timer_alloc, Alloc, Core, States
    <3>2. QED
      BY <2>1, <3>1 DEF timer_alloc, CanCall
  <2>2. ASSUME NEW t \in Timers \union {NoTimer}, NEW arg \in Args, timer_set_arg(t, arg)
        PROVE  TypeOK'
    <3>1. cores' \in [Timers -> Core]
      BY <2>2 DEF timer_set_arg, SetArg, Valid, Core
    <3>2. QED
      BY <2>2, <3>1 DEF timer_set_arg, CanCall
  <2>3. ASSUME NEW t \in Timers \union {NoTimer}, NEW ms \in Times, NEW mode \in Modes,
               timer_set(t, ms, mode)
        PROVE  TypeOK'
    <3>1. ms \in Int
      BY TimesAssumption
    <3>2. cores' \in [Timers -> Core]
      BY <2>3, <3>1 DEF timer_set, Set, Valid, Core, States
    <3>3. wanted' \in [Timers -> {"yes", "self", "no"}] /\ since' \in [Timers -> Nat]
      BY <2>3 DEF timer_set
    <3>4. QED
      BY <2>3, <3>2, <3>3 DEF timer_set, CanCall
  <2>4. ASSUME NEW t \in Timers \union {NoTimer}, timer_stop(t)
        PROVE  TypeOK'
    <3>1. cores' \in [Timers -> Core]
      BY <2>4 DEF timer_stop, Stop, Valid, Core, States
    <3>2. QED
      BY <2>4, <3>1 DEF timer_stop, CanCall, Forget
  <2>5. ASSUME NEW t \in Timers \union {NoTimer}, timer_free(t)
        PROVE  TypeOK'
    <3>1. cores' \in [Timers -> Core]
      <4>1. CASE t \in Timers
        <5>1. [cores[t] EXCEPT !.callback = NoCallback, !.state = "unused"] \in Core
          BY <4>1 DEF Core, States
        <5>2. cores' = [cores EXCEPT ![t] =
                          [cores[t] EXCEPT !.callback = NoCallback, !.state = "unused"]]
          BY <2>5, <4>1 DEF timer_free, Free
        <5>3. QED
          BY <5>1, <5>2
      <4>2. CASE t \notin Timers
        BY <2>5, <4>2 DEF timer_free, Free
      <4>3. QED
        BY <4>1, <4>2
    <3>2. QED
      BY <2>5, <3>1 DEF timer_free, CanCall, Forget
  <2>6. CASE TickBegin
    <3>1. since' \in [Timers -> Nat]
      BY <2>6 DEF TickBegin
    <3>2. QED
      BY <2>6, <3>1, TimerMaxAssumption DEF TickBegin, Timers
  <2>7. CASE TickSkip
    BY <2>7, TimerMaxAssumption DEF TickSkip, Timers
  <2>8. CASE TickCount
    <3>1. cores' \in [Timers -> Core]
      BY <2>8 DEF TickCount, Core
    <3>2. QED
      BY <2>8, <3>1, TimerMaxAssumption DEF TickCount, Timers
  <2>9. CASE TickExpire
    <3>1. cores' \in [Timers -> Core]
      BY <2>9 DEF TickExpire, Core
    <3>2. QED
      BY <2>9, <3>1 DEF TickExpire, Forget
  <2>10. CASE TickReturn
    <3>1. cores' \in [Timers -> Core]
      BY <2>10 DEF TickReturn, AfterCallback, Core, States
    <3>2. scan' \in Timers \union {Idle, TimerMax}
      BY <2>10, TimerMaxAssumption DEF TickReturn, Timers
    <3>3. QED
      BY <2>10, <3>1, <3>2 DEF TickReturn
  <2>11. CASE TickEnd
    BY <2>11, TimerMaxAssumption DEF TickEnd, Timers
  <2>12. CASE UNCHANGED vars
    BY <2>12 DEF vars
  <2>13. QED
    BY <2>1, <2>2, <2>3, <2>4, <2>5, <2>6, <2>7, <2>8, <2>9, <2>10, <2>11, <2>12
       DEF Next, ApiCall, Tick
<1>3. QED
  BY <1>1, <1>2, PTL DEF Spec

-----------------------------------------------------------------------------
(* Timers run exactly when they were asked to.                             *)

\* ArmedAsAsked says nothing of the slot whose callback runs; but that slot was
\* forgotten when it fired, so it is wanted again at most by itself.
ArmedInv == ArmedAsAsked /\ (firing => wanted[scan] # "yes")

LEMMA ArmedStep == TypeOK /\ ArmedInv /\ [Next]_vars => ArmedInv'
<1> SUFFICES ASSUME TypeOK, ArmedInv, [Next]_vars
             PROVE  ArmedInv'
  OBVIOUS
<1> USE DEF TypeOK, ArmedInv, ArmedAsAsked, FiringTimer
<1>1. ASSUME NEW callback \in Callbacks, timer_alloc(callback)
      PROVE  ArmedInv'
  <2> DEFINE a == AllocHandle(cores)
  <2>1. CASE a = NoTimer
    BY <1>1, <2>1 DEF timer_alloc, CanCall, Running, Valid
  <2>2. CASE a # NoTimer
    <3>1. a \in Timers /\ cores[a].callback = NoCallback
      BY <2>2, AllocHandleFree DEF FreeSlots
    <3>2. \A t \in Timers \ {a} : cores'[t] = cores[t]
      BY <1>1, <2>2 DEF timer_alloc, Alloc
    <3>3. cores'[a].state = "stopped"
      BY <1>1, <2>2, <3>1 DEF timer_alloc, Alloc, Core
    <3>4. ~Running(cores, a) /\ ~Running(cores', a)
      BY <3>1, <3>3 DEF Running, Valid
    <3>5. \A t \in Timers \ {a} : Running(cores', t) <=> Running(cores, t)
      BY <3>2 DEF Running, Valid
    <3>6. UNCHANGED <<scan, firing, wanted>>
      BY <1>1 DEF timer_alloc, CanCall
    <3>7. QED
      BY <3>1, <3>4, <3>5, <3>6
  <2>3. QED
    BY <2>1, <2>2
<1>2. ASSUME NEW t \in Timers \union {NoTimer}, NEW arg \in Args, timer_set_arg(t, arg)
      PROVE  ArmedInv'
  <2>1. \A u \in Timers : Running(cores', u) <=> Running(cores, u)
    BY <1>2 DEF timer_set_arg, SetArg, Running, Valid, Core
  <2>2. QED
    BY <1>2, <2>1 DEF timer_set_arg, CanCall
<1>3. ASSUME NEW t \in Timers \union {NoTimer}, NEW ms \in Times, NEW mode \in Modes,
             timer_set(t, ms, mode)
      PROVE  ArmedInv'
  <2>1. CASE Valid(cores, t) /\ ms >= 0
    <3>1. t \in Timers
      BY <2>1 DEF Valid
    <3>2. \A u \in Timers \ {t} : Running(cores', u) <=> Running(cores, u)
      BY <1>3, <2>1 DEF timer_set, Set, Running, Valid, Core
    <3>3. Running(cores', t)
      BY <1>3, <2>1, <3>1 DEF timer_set, Set, Running, Valid, Core
    <3>4. UNCHANGED <<scan, firing>>
      BY <1>3 DEF timer_set, CanCall
    <3>5. wanted' = [wanted EXCEPT ![t] = IF t = FiringTimer THEN "self" ELSE "yes"]
      BY <1>3, <2>1 DEF timer_set
    <3>6. QED
      BY <3>1, <3>2, <3>3, <3>4, <3>5
  <2>2. CASE ~(Valid(cores, t) /\ ms >= 0)
    BY <1>3, <2>2 DEF timer_set, CanCall, Running, Valid
  <2>3. QED
    BY <2>1, <2>2
<1>4. ASSUME NEW t \in Timers \union {NoTimer}, timer_stop(t) \/ timer_free(t)
      PROVE  ArmedInv'
  <2>1. \A u \in Timers : Running(cores', u) <=> Running(cores, u) /\ u # t
    BY <1>4 DEF timer_stop, timer_free, Stop, Free, Running, Valid, Core
  <2>2. wanted' = Forget(t) /\ UNCHANGED <<scan, firing>>
    BY <1>4 DEF timer_stop, timer_free, CanCall
  <2>3. QED
    BY <2>1, <2>2 DEF Forget
<1>5. CASE TickBegin \/ TickSkip \/ TickEnd
  <2>1. \A t \in Timers : Running(cores', t) <=> Running(cores, t)
    BY <1>5 DEF TickBegin, TickSkip, TickEnd, Running, Valid
  <2>2. ~firing /\ ~firing' /\ UNCHANGED wanted
    BY <1>5, TimerMaxAssumption DEF TickBegin, TickSkip, TickEnd, Idle, Timers
  <2>3. QED
    BY <2>1, <2>2
<1>6. CASE TickCount
  <2>1. \A t \in Timers : Running(cores', t) <=> Running(cores, t)
    BY <1>6 DEF TickCount, Running, Valid, Core
  <2>2. QED
    BY <1>6, <2>1 DEF TickCount
<1>7. CASE TickExpire
  <2>1. \A t \in Timers : Running(cores', t) <=> Running(cores, t)
    BY <1>7 DEF TickExpire, Running, Valid, Core
  <2>2. FiringTimer \notin Timers
    BY <1>7, TimerMaxAssumption DEF TickExpire, NoTimer, Timers
  <2>3. scan \in Timers /\ UNCHANGED scan /\ wanted' = Forget(scan)
    BY <1>7 DEF TickExpire
  <2>4. firing'
    BY <1>7, Zenon DEF TickExpire
  <2>5. \A t \in Timers : wanted[t] = "yes" <=> Running(cores, t)
    BY <2>2
  <2>6. \A t \in Timers \ {scan} : wanted'[t] = "yes" <=> Running(cores', t)
    BY <2>1, <2>3, <2>5 DEF Forget
  <2>7. QED
    BY <2>3, <2>4, <2>6 DEF Forget
<1>8. CASE TickReturn
  <2>1. scan \in Timers /\ wanted[scan] # "yes"
    BY <1>8 DEF TickReturn
  <2>2. \A t \in Timers \ {scan} : Running(cores', t) <=> Running(cores, t)
    BY <1>8 DEF TickReturn, AfterCallback, Running, Valid, Core
  <2>3. \A t \in Timers \ {scan} : wanted'[t] = wanted[t]
    BY <1>8 DEF TickReturn
  <2>4. wanted'[scan] = "yes" <=> Running(cores', scan)
    BY <1>8, <2>1 DEF TickReturn
  <2>5. ~firing'
    BY <1>8 DEF TickReturn
  <2>6. \A t \in Timers \ {scan} : wanted[t] = "yes" <=> Running(cores, t)
    BY <1>8 DEF TickReturn
  <2>7. QED
    BY <2>1, <2>2, <2>3, <2>4, <2>5, <2>6
<1>9. CASE UNCHANGED vars
  BY <1>9 DEF vars, Running, Valid
<1>10. QED
  BY <1>1, <1>2, <1>3, <1>4, <1>5, <1>6, <1>7, <1>8, <1>9 DEF Next, ApiCall, Tick

\* A timer armed from outside its own callback runs until it fires, is stopped or
\* is freed, and no other timer runs (timer.c:47-79 against 107-132).
THEOREM ArmedCorrect == Spec => []ArmedAsAsked
<1>1. Init => ArmedInv
  <2> SUFFICES ASSUME Init PROVE ArmedInv
    OBVIOUS
  <2>1. ~firing
    BY Zenon DEF Init
  <2>2. QED
    BY <2>1 DEF Init, ArmedInv, ArmedAsAsked, Running, Valid
<1>2. ArmedInv => ArmedAsAsked
  BY DEF ArmedInv
<1>3. QED
  BY <1>1, <1>2, TypeCorrect, ArmedStep, PTL DEF Spec

-----------------------------------------------------------------------------
(* Timers fire in their tick.                                              *)

\* The scan of the tick under way has not reached slot t.
Ahead(t) == scan # Idle /\ scan <= t

\* A running timer has as many milliseconds left as it was armed with, less the
\* ticks that have counted it.  Those are the ticks begun since, without the one
\* under way when the scan has not reached the slot, and without one more when
\* the timer was armed, by an earlier slot, in a tick that still had to reach it.
CountedAt(t) ==
  Running(cores, t) /\ t # FiringTimer =>
    LET past == IF Ahead(t) THEN since[t] - 1 ELSE since[t]
    IN  /\ cores[t].left >= 0
        /\ cores[t].left \in {cores[t].org - past, cores[t].org - past - 1}

Counted == \A t \in Timers : CountedAt(t)

LEMMA CountedStep == TypeOK /\ Counted /\ [Next]_vars => Counted'
<1> SUFFICES ASSUME TypeOK, Counted, [Next]_vars, NEW t \in Timers
             PROVE  CountedAt(t)'
  BY DEF Counted
<1> USE DEF TypeOK, FiringTimer
<1>0. /\ CountedAt(t) /\ t \in Int /\ scan \in Int /\ since[t] \in Int
      /\ cores[t].org \in Nat /\ cores[t].left \in Int
  BY TimerMaxAssumption DEF Counted, Timers, Idle, Core
<1>1. ASSUME UNCHANGED <<scan, firing>>, since'[t] = since[t],
             cores'[t].left = cores[t].left, cores'[t].org = cores[t].org,
             Running(cores', t) => Running(cores, t)
      PROVE  CountedAt(t)'
  BY <1>0, <1>1 DEF CountedAt, Ahead
<1>2. ASSUME NEW callback \in Callbacks, timer_alloc(callback)
      PROVE  CountedAt(t)'
  <2> DEFINE a == AllocHandle(cores)
  <2>1. UNCHANGED <<scan, firing, since>>
    BY <1>2 DEF timer_alloc, CanCall
  <2>2. CASE t = a
    <3>1. a \in Timers /\ a # NoTimer
      BY <2>2, TimerMaxAssumption DEF NoTimer, Timers
    <3>2. cores'[a].state = "stopped"
      BY <1>2, <3>1 DEF timer_alloc, Alloc, Core
    <3>3. QED
      BY <2>2, <3>2 DEF CountedAt, Running
  <2>3. CASE t # a
    <3>1. cores'[t] = cores[t]
      BY <1>2, <2>3 DEF timer_alloc, Alloc
    <3>2. QED
      BY <1>1, <2>1, <3>1 DEF Running, Valid
  <2>4. QED
    BY <2>2, <2>3
<1>3. ASSUME NEW u \in Timers \union {NoTimer}, NEW arg \in Args, timer_set_arg(u, arg)
      PROVE  CountedAt(t)'
  <2>1. /\ cores'[t].left = cores[t].left /\ cores'[t].org = cores[t].org
        /\ Running(cores', t) => Running(cores, t)
    BY <1>3 DEF timer_set_arg, SetArg, Running, Valid, Core
  <2>2. QED
    BY <1>1, <1>3, <2>1 DEF timer_set_arg, CanCall
<1>4. ASSUME NEW u \in Timers \union {NoTimer}, NEW ms \in Times, NEW mode \in Modes,
             timer_set(u, ms, mode)
      PROVE  CountedAt(t)'
  <2>1. CASE t = u /\ Valid(cores, u) /\ ms >= 0
    <3>1. /\ cores'[t].left = ms /\ cores'[t].org = ms /\ since'[t] = 0
          /\ ms \in Int /\ UNCHANGED scan
      BY <1>4, <2>1, TimesAssumption DEF timer_set, CanCall, Set, Valid, Core
    <3>2. QED
      BY <2>1, <3>1 DEF CountedAt
  <2>2. CASE ~(t = u /\ Valid(cores, u) /\ ms >= 0)
    <3>1. cores'[t] = cores[t] /\ since'[t] = since[t] /\ UNCHANGED <<scan, firing>>
      BY <1>4, <2>2 DEF timer_set, CanCall, Set, Valid
    <3>2. QED
      BY <1>1, <3>1 DEF Running, Valid
  <2>3. QED
    BY <2>1, <2>2
<1>5. ASSUME NEW u \in Timers \union {NoTimer}, timer_stop(u) \/ timer_free(u)
      PROVE  CountedAt(t)'
  <2>1. /\ cores'[t].left = cores[t].left /\ cores'[t].org = cores[t].org
        /\ Running(cores', t) => Running(cores, t)
    BY <1>5 DEF timer_stop, timer_free, Stop, Free, Running, Valid, Core
  <2>2. QED
    BY <1>1, <1>5, <2>1 DEF timer_stop, timer_free, CanCall
<1>6. CASE TickBegin
  <2>1. /\ scan = Idle /\ scan' = 0 /\ UNCHANGED <<cores, firing>>
        /\ since'[t] = IF since[t] <= cores[t].org + 1 THEN since[t] + 1 ELSE since[t]
    BY <1>6 DEF TickBegin
  <2>2. t >= 0 /\ ~Ahead(t) /\ Ahead(t)'
    BY <2>1, TimerMaxAssumption DEF Ahead, Idle, Timers
  <2>3. Running(cores', t) /\ t # FiringTimer' => Running(cores, t) /\ t # FiringTimer
    BY <1>6, <2>1, TimerMaxAssumption DEF TickBegin, Idle, Timers, Running, Valid
  <2>4. QED
    BY <1>0, <2>1, <2>2, <2>3 DEF CountedAt
<1>7. CASE TickSkip
  <2>1. t # scan => (Ahead(t) <=> Ahead(t)')
    BY <1>0, <1>7, TimerMaxAssumption DEF TickSkip, Ahead, Idle, Timers
  <2>2. t = scan => ~Running(cores', t)
    BY <1>7 DEF TickSkip, Running, Valid
  <2>3. UNCHANGED <<cores, firing, since>>
    BY <1>7 DEF TickSkip
  <2>4. t # FiringTimer
    BY <1>7, TimerMaxAssumption DEF TickSkip, NoTimer, Timers
  <2>5. QED
    BY <1>0, <2>1, <2>2, <2>3, <2>4 DEF CountedAt, Running, Valid
<1>8. CASE TickCount
  <2>1. t # FiringTimer
    BY <1>8, TimerMaxAssumption DEF TickCount, NoTimer, Timers
  <2>2. CASE t = scan
    <3>1. /\ Running(cores, t) /\ UNCHANGED since
          /\ cores'[t].left = cores[t].left - 1 /\ cores'[t].left >= 0
          /\ cores'[t].org = cores[t].org
      BY <1>8, <2>2 DEF TickCount, Core
    <3>2. Ahead(t) /\ ~Ahead(t)'
      BY <1>0, <1>8, <2>2, TimerMaxAssumption DEF TickCount, Ahead, Idle, Timers
    <3>3. QED
      BY <1>0, <2>1, <3>1, <3>2 DEF CountedAt
  <2>3. CASE t # scan
    <3>1. cores'[t] = cores[t] /\ UNCHANGED <<since, firing>>
      BY <1>8, <2>3 DEF TickCount
    <3>2. Ahead(t) <=> Ahead(t)'
      BY <1>0, <1>8, <2>3, TimerMaxAssumption DEF TickCount, Ahead, Idle, Timers
    <3>3. QED
      BY <1>0, <2>1, <3>1, <3>2 DEF CountedAt, Running, Valid
  <2>4. QED
    BY <2>2, <2>3
<1>9. CASE TickExpire
  <2>1. t # FiringTimer
    BY <1>9, TimerMaxAssumption DEF TickExpire, NoTimer, Timers
  <2>2. firing' /\ UNCHANGED <<scan, since>>
    BY <1>9, Zenon DEF TickExpire
  <2>3. t # scan => cores'[t] = cores[t]
    BY <1>9 DEF TickExpire
  <2>4. QED
    BY <1>0, <2>1, <2>2, <2>3 DEF CountedAt, Ahead, Running, Valid
<1>10. CASE TickReturn
  <2>1. firing /\ scan \in Timers /\ scan' = scan + 1
    BY <1>10 DEF TickReturn
  <2>2. ~(scan' <= scan)
    BY <2>1, TimerMaxAssumption DEF Timers
  <2>3. CASE t = scan
    <3>1. since'[t] = 0 /\ cores'[t].org = cores[t].org
      BY <1>10, <2>3 DEF TickReturn, AfterCallback, Core
    <3>2. cores'[t].left = cores[t].org \/ ~Running(cores', t)
      BY <1>10, <2>3 DEF TickReturn, AfterCallback, Running, Valid, Core
    <3>3. QED
      BY <1>0, <2>2, <2>3, <3>1, <3>2 DEF CountedAt, Ahead
  <2>4. CASE t # scan
    <3>1. cores'[t] = cores[t] /\ since'[t] = since[t]
      BY <1>10, <2>4 DEF TickReturn, AfterCallback
    <3>2. Ahead(t) <=> Ahead(t)'
      BY <1>0, <2>1, <2>4, TimerMaxAssumption DEF Ahead, Idle, Timers
    <3>3. QED
      BY <1>0, <2>1, <2>4, <3>1, <3>2 DEF CountedAt, Running, Valid
  <2>5. QED
    BY <2>3, <2>4
<1>11. CASE TickEnd
  <2>1. ~Ahead(t) /\ ~Ahead(t)'
    BY <1>11, TimerMaxAssumption DEF TickEnd, Ahead, Timers
  <2>2. UNCHANGED <<cores, firing, since>>
    BY <1>11 DEF TickEnd
  <2>3. ~firing
    BY <1>11, TimerMaxAssumption DEF TickEnd, Timers
  <2>4. t # NoTimer
    BY TimerMaxAssumption DEF NoTimer, Timers
  <2>5. QED
    BY <1>0, <2>1, <2>2, <2>3, <2>4 DEF CountedAt, Running, Valid
<1>12. CASE UNCHANGED vars
  BY <1>1, <1>12 DEF vars, Running, Valid
<1>13. QED
  BY <1>2, <1>3, <1>4, <1>5, <1>6, <1>7, <1>8, <1>9, <1>10, <1>11, <1>12
     DEF Next, ApiCall, Tick

\* A timer of n ms fires in the (n+1)-th tick after it was armed, or in the n-th
\* when it was armed inside a tick that had not yet reached it (timer.c:64-65).
THEOREM PunctualCorrect == Spec => Punctual
<1>1. Init => Counted
  BY DEF Init, Counted, CountedAt, Running, Valid
<1>2. TypeOK /\ Counted /\ [Next]_vars =>
        [\A t \in Timers : (FiringTimer' = t /\ FiringTimer # t)
           => since[t] \in {cores[t].org, cores[t].org + 1}]_vars
  <2> SUFFICES ASSUME TypeOK, Counted, Next, NEW t \in Timers,
                      FiringTimer' = t, FiringTimer # t
               PROVE  since[t] \in {cores[t].org, cores[t].org + 1}
    OBVIOUS
  <2>1. TickExpire /\ t = scan
    <3>1. t # NoTimer
      BY TimerMaxAssumption DEF NoTimer, Timers
    <3>2. firing' /\ scan' = t
      BY <3>1 DEF FiringTimer
    <3>3. ~(scan' = scan /\ firing' = firing)
      BY <3>2 DEF FiringTimer
    <3>4. ~ApiCall
      BY <3>3 DEF ApiCall, timer_alloc, timer_set_arg, timer_set, timer_stop, timer_free,
                  CanCall
    <3>5. ~(TickBegin \/ TickSkip \/ TickCount \/ TickEnd)
      <4>1. firing => scan \in Timers
        BY DEF TypeOK
      <4>2. TickBegin \/ TickEnd => scan \notin Timers /\ UNCHANGED firing
        BY TimerMaxAssumption DEF TickBegin, TickEnd, Idle, Timers
      <4>3. TickSkip \/ TickCount => ~firing /\ UNCHANGED firing
        BY DEF TickSkip, TickCount
      <4>4. QED
        BY <3>2, <4>1, <4>2, <4>3
    <3>6. ~TickReturn
      BY <3>2, Zenon DEF TickReturn
    <3>7. TickExpire
      BY <3>4, <3>5, <3>6 DEF Next, Tick
    <3>8. QED
      BY <3>2, <3>7 DEF TickExpire
  <2>2. /\ cores[t].left - 1 < 0 /\ Running(cores, t) /\ Ahead(t)
        /\ cores[t].left \in Int /\ cores[t].org \in Nat /\ since[t] \in Nat
    BY <2>1, TimerMaxAssumption DEF TickExpire, TypeOK, Core, Ahead, Idle, Timers
  <2>3. CountedAt(t)
    BY DEF Counted
  <2>4. QED
    BY <2>2, <2>3 DEF CountedAt
<1>3. QED
  BY <1>1, <1>2, TypeCorrect, CountedStep, PTL DEF Spec, Punctual

-----------------------------------------------------------------------------
(* The table implements the untimed service.                               *)

\* The table as TimerService sees it: without the counters.
Untimed(table) == [t \in Timers |-> [callback |-> table[t].callback, arg |-> table[t].arg,
                                     state |-> table[t].state, mode |-> table[t].mode]]

\* TimerService names the operators of TimerPool on its own table.
LEMMA SameOperators ==
  ASSUME NEW p, NEW t, NEW x, NEW m
  PROVE  /\ Service!Timers = Timers /\ Service!NoTimer = NoTimer
         /\ Service!Modes = Modes
         /\ Service!EmptyPool = EmptyPool
         /\ Service!Running(p, t) <=> Running(p, t)
         /\ Service!AllocHandle(p) = AllocHandle(p)
         /\ Service!Alloc(p, x) = Alloc(p, x)
         /\ Service!SetArg(p, t, x) = SetArg(p, t, x)
         /\ Service!Set(p, t, x, m) = Set(p, t, x, m)
         /\ Service!Stop(p, t) = Stop(p, t)
         /\ Service!Free(p, t) = Free(p, t)
         /\ Service!AfterCallback(p, t) = AfterCallback(p, t)
<1>1. /\ Service!Timers = Timers /\ Service!NoTimer = NoTimer
      /\ Service!Modes = Modes
  BY DEF Service!Timers, Timers, Service!NoTimer, NoTimer, Service!Modes, Modes
<1>2. Service!EmptyPool = EmptyPool
  BY <1>1 DEF Service!EmptyPool, EmptyPool, Service!EmptyEntry, EmptyEntry
<1>3. Service!Valid(p, t) <=> Valid(p, t)
  BY <1>1 DEF Service!Valid, Valid
<1>4. Service!Running(p, t) <=> Running(p, t)
  BY <1>3 DEF Service!Running, Running
<1>5. Service!AllocHandle(p) = AllocHandle(p)
  <2>1. Service!FreeSlots(p) = FreeSlots(p)
    BY <1>1, Zenon DEF Service!FreeSlots, FreeSlots
  <2>2. Service!Lowest(FreeSlots(p)) = Lowest(FreeSlots(p))
    BY Zenon DEF Service!Lowest, Lowest
  <2>3. QED
    BY <1>1, <2>1, <2>2, Zenon DEF Service!AllocHandle, AllocHandle
<1>6. Service!Alloc(p, x) = Alloc(p, x)
  BY <1>1, <1>5, Zenon DEF Service!Alloc, Alloc
<1>7. /\ Service!SetArg(p, t, x) = SetArg(p, t, x)
      /\ Service!Set(p, t, x, m) = Set(p, t, x, m)
      /\ Service!Stop(p, t) = Stop(p, t)
  BY <1>3, Zenon DEF Service!SetArg, SetArg, Service!Set, Set, Service!Stop, Stop
<1>8. /\ Service!Free(p, t) = Free(p, t)
      /\ Service!AfterCallback(p, t) = AfterCallback(p, t)
  BY <1>1, Zenon DEF Service!Free, Free, Service!AfterCallback, AfterCallback
<1>9. QED
  BY <1>1, <1>2, <1>4, <1>5, <1>6, <1>7, <1>8

\* The slot-by-slot tick and the calls made from its callbacks map to steps of
\* the service or to none (timer.c:47-79): in it, other modules may rely on
\* timers that expire at some moment, one callback at a time.
THEOREM ServiceImplemented == Spec => ImplementsService
<1>1. Init => Service!ServiceInit
  <2> SUFFICES ASSUME Init PROVE Service!ServiceInit
    OBVIOUS
  <2>1. FiringTimer = NoTimer
    BY Zenon DEF Init, FiringTimer
  <2>2. Untimed(cores) = EmptyPool
    BY DEF Init, Untimed, EmptyPool, EmptyEntry
  <2>3. QED
    BY <2>1, <2>2, SameOperators DEF Service!ServiceInit, Untimed
<1>2. TypeOK /\ [Next]_vars => [Service!ServiceNext]_(Service!svars)
  <2> DEFINE pool == Untimed(cores)
             Step == \/ Service!ServiceNext
                     \/ pool' = pool /\ FiringTimer' = FiringTimer
  <2> SUFFICES ASSUME TypeOK, [Next]_vars
               PROVE  Step
    BY DEF Service!svars, Untimed
  <2>1. Untimed(cores)' = Untimed(cores')
    BY DEF Untimed
  <2>2. ASSUME UNCHANGED <<scan, firing>>
        PROVE  FiringTimer' = FiringTimer
    BY <2>2 DEF FiringTimer
  <2>3. ASSUME NEW c \in Callbacks, timer_alloc(c)
        PROVE  Step
    <3>1. pool' = Alloc(pool, c)
      <4>1. AllocHandle(pool) = AllocHandle(cores)
        <5>1. FreeSlots(pool) = FreeSlots(cores)
          BY DEF FreeSlots, Untimed
        <5>2. QED
          BY <5>1, Zenon DEF AllocHandle
      <4>2. CASE AllocHandle(cores) = NoTimer
        BY <2>3, <4>1, <4>2 DEF timer_alloc, Alloc, Untimed
      <4>3. CASE AllocHandle(cores) # NoTimer
        <5>1. AllocHandle(cores) \in Timers
          BY <4>3, AllocHandleFree
        <5>2. \A u \in Timers \ {AllocHandle(cores)} : cores'[u] = cores[u]
          BY <2>3, <4>3 DEF timer_alloc, Alloc, TypeOK
        <5>3. LET a == AllocHandle(cores)
              IN  /\ cores'[a].callback = c /\ cores'[a].arg = cores[a].arg
                  /\ cores'[a].state = "stopped" /\ cores'[a].mode = cores[a].mode
          BY <2>3, <4>3, <5>1 DEF timer_alloc, Alloc, TypeOK, Core
        <5>4. QED
          BY <4>1, <4>3, <5>1, <5>2, <5>3 DEF Alloc, Untimed
      <4>4. QED
        BY <4>2, <4>3
    <3>2. FiringTimer' = FiringTimer
      BY <2>2, <2>3 DEF timer_alloc, CanCall
    <3>3. QED
      BY <3>1, <3>2, SameOperators DEF Service!ServiceNext, Service!Call, Untimed
  <2>4. ASSUME NEW t \in Timers \union {NoTimer}, NEW arg \in Args, timer_set_arg(t, arg)
        PROVE  Step
    <3>1. pool' = SetArg(pool, t, arg)
      BY <2>4 DEF timer_set_arg, SetArg, Valid, Untimed, TypeOK, Core
    <3>2. FiringTimer' = FiringTimer
      BY <2>2, <2>4 DEF timer_set_arg, CanCall
    <3>3. t \notin Timers => pool' = pool
      BY <3>1 DEF SetArg, Valid
    <3>4. CASE t \in Timers
      <4>1. pool' = Service!SetArg(pool, t, arg)
        BY <3>1, SameOperators
      <4>2. t \in Service!Timers
        BY <3>4, SameOperators
      <4>3. QED
        BY <3>2, <4>1, <4>2 DEF Service!ServiceNext, Service!Call, Untimed
    <3>5. QED
      BY <3>2, <3>3, <3>4
  <2>5. ASSUME NEW t \in Timers \union {NoTimer}, NEW ms \in Times, NEW mode \in Modes,
               timer_set(t, ms, mode)
        PROVE  Step
    <3>1. pool' = Set(pool, t, ms, mode)
      <4>1. Valid(pool, t) <=> Valid(cores, t)
        BY DEF Valid, Untimed
      <4>2. CASE Valid(cores, t) /\ ms >= 0
        <5>1. t \in Timers
          BY <4>2 DEF Valid
        <5>2. \A u \in Timers \ {t} : cores'[u] = cores[u]
          BY <2>5, <4>2 DEF timer_set, Set, TypeOK
        <5>3. /\ cores'[t].callback = cores[t].callback /\ cores'[t].arg = cores[t].arg
              /\ cores'[t].state = "running" /\ cores'[t].mode = mode
          BY <2>5, <4>2, <5>1 DEF timer_set, Set, TypeOK, Core
        <5>4. QED
          BY <4>1, <4>2, <5>1, <5>2, <5>3 DEF Set, Untimed
      <4>3. CASE ~(Valid(cores, t) /\ ms >= 0)
        BY <2>5, <4>1, <4>3 DEF timer_set, Set, Untimed
      <4>4. QED
        BY <4>2, <4>3
    <3>2. FiringTimer' = FiringTimer
      BY <2>2, <2>5 DEF timer_set, CanCall
    <3>3. t \notin Timers => pool' = pool
      BY <3>1 DEF Set, Valid
    <3>4. CASE t \in Timers
      <4>1. pool' = Service!Set(pool, t, ms, mode)
        BY <3>1, SameOperators
      <4>2. t \in Service!Timers /\ mode \in Service!Modes
        BY <3>4, SameOperators
      <4>3. QED
        BY <3>2, <4>1, <4>2 DEF Service!ServiceNext, Service!Call, Untimed
    <3>5. QED
      BY <3>2, <3>3, <3>4
  <2>6. ASSUME NEW t \in Timers \union {NoTimer}, timer_stop(t)
        PROVE  Step
    <3>1. pool' = Stop(pool, t)
      BY <2>6 DEF timer_stop, Stop, Valid, Untimed, TypeOK, Core
    <3>2. FiringTimer' = FiringTimer
      BY <2>2, <2>6 DEF timer_stop, CanCall
    <3>3. t \notin Timers => pool' = pool
      BY <3>1 DEF Stop, Valid
    <3>4. QED
      BY <3>1, <3>2, <3>3, SameOperators DEF Service!ServiceNext, Service!Call, Untimed
  <2>7. ASSUME NEW t \in Timers \union {NoTimer}, timer_free(t)
        PROVE  Step
    <3>1. pool' = Free(pool, t)
      BY <2>7 DEF timer_free, Free, Untimed, TypeOK, Core
    <3>2. FiringTimer' = FiringTimer
      BY <2>2, <2>7 DEF timer_free, CanCall
    <3>3. t \notin Timers => pool' = pool
      BY <3>1 DEF Free
    <3>4. pool' = Service!Free(pool, t) /\ Service!Timers = Timers
      BY <3>1, SameOperators
    <3>5. CASE t \in Timers
      BY <3>2, <3>4, <3>5 DEF Service!ServiceNext, Service!Call, Untimed
    <3>6. QED
      BY <3>2, <3>3, <3>5
  <2>8. CASE TickBegin \/ TickSkip \/ TickCount \/ TickEnd
    <3>1. pool' = pool
      BY <2>8 DEF TickBegin, TickSkip, TickCount, TickEnd, Untimed, TypeOK, Core
    <3>2. ~firing /\ ~firing'
      BY <2>8, TimerMaxAssumption
         DEF TickBegin, TickSkip, TickCount, TickEnd, TypeOK, Idle, Timers
    <3>3. QED
      BY <3>1, <3>2 DEF FiringTimer
  <2>9. CASE TickExpire
    <3>1. pool' = pool
      BY <2>9 DEF TickExpire, Untimed, TypeOK, Core
    <3>2. FiringTimer = NoTimer /\ FiringTimer' = scan /\ scan \in Timers
      BY <2>9, Zenon DEF TickExpire, FiringTimer
    <3>3. Running(pool, scan)
      BY <2>9 DEF TickExpire, Running, Valid, Untimed
    <3>4. QED
      BY <3>1, <3>2, <3>3, SameOperators DEF Service!ServiceNext, Service!Fire, Untimed
  <2>10. CASE TickReturn
    <3>1. FiringTimer = scan /\ FiringTimer' = NoTimer /\ scan \in Timers
      BY <2>10, Zenon DEF TickReturn, FiringTimer, TypeOK
    <3>2. scan # NoTimer
      BY <3>1, TimerMaxAssumption DEF NoTimer, Timers
    <3>3. pool' = AfterCallback(pool, scan)
      <4>1. CASE cores[scan].mode = "periodic"
        <5>1. cores' = [cores EXCEPT ![scan].left = cores[scan].org]
          BY <2>10, <4>1 DEF TickReturn
        <5>2. pool' = pool
          BY <3>1, <5>1 DEF Untimed, TypeOK, Core
        <5>3. pool[scan].mode = "periodic"
          BY <3>1, <4>1 DEF Untimed
        <5>4. QED
          BY <5>2, <5>3 DEF AfterCallback
      <4>2. CASE cores[scan].mode # "periodic"
        <5>1. cores' = [cores EXCEPT ![scan].state = "stopped"]
          BY <2>10, <4>2 DEF TickReturn, AfterCallback
        <5>2. pool' = [pool EXCEPT ![scan].state = "stopped"]
          BY <3>1, <5>1, ZenonT(60) DEF Untimed, TypeOK, Core
        <5>3. pool[scan].mode # "periodic"
          BY <3>1, <4>2 DEF Untimed
        <5>4. QED
          BY <5>2, <5>3 DEF AfterCallback
      <4>3. QED
        BY <4>1, <4>2
    <3>4. QED
      BY <3>1, <3>2, <3>3, SameOperators DEF Service!ServiceNext, Service!Return, Untimed
  <2>11. CASE UNCHANGED vars
    BY <2>2, <2>11 DEF vars, Untimed
  <2>12. QED
    BY <2>3, <2>4, <2>5, <2>6, <2>7, <2>8, <2>9, <2>10, <2>11 DEF Next, ApiCall, Tick
<1>3. QED
  BY <1>1, <1>2, TypeCorrect, PTL DEF Spec, ImplementsService, Service!ServiceSpec
=============================================================================
