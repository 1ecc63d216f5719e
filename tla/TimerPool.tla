----------------------------- MODULE TimerPool -----------------------------
(***************************************************************************)
(* The timer table of sys/timer.c as a value, and the calls of timer.h as  *)
(* operators that map one table to the next.  Time itself is left to       *)
(* module Timer; here a timer is only unused, stopped or running, which is *)
(* all that the users of the table (arp.c, tcp.c, dhcp.c, tp.c) can see.   *)
(*                                                                         *)
(* A table is a function from Timers to entries [callback, arg, state,     *)
(* mode].  A slot is taken exactly when its callback is not NoCallback:    *)
(* the code tests the pointer, not the state field.                        *)
(***************************************************************************)
EXTENDS Slots

CONSTANTS
  TimerMax,    (* TIMER_MAX, the number of slots.                          *)
  NoArg        (* The null argument pointer.                               *)

ASSUME TimerMaxAssumption == TimerMax \in Nat \ {0}

Timers == 0 .. TimerMax - 1

NoTimer == -1    \* what timer_alloc returns when it fails

States == {"unused", "stopped", "running"}
Modes  == {"one_shot", "periodic"}

\* The table after timer_init: every field of every slot is zero.
EmptyEntry == [callback |-> NoCallback, arg |-> NoArg,
               state |-> "unused", mode |-> "one_shot"]
EmptyPool == [t \in Timers |-> EmptyEntry]

Valid(pool, t) == t \in Timers /\ pool[t].callback # NoCallback

FreeSlots(pool) == {t \in Timers : pool[t].callback = NoCallback}

\* The handle timer_alloc returns: the first free slot, or NoTimer.
AllocHandle(pool) ==
  IF FreeSlots(pool) = {} THEN NoTimer ELSE Lowest(FreeSlots(pool))

\* timer_alloc leaves the mode and the argument of the previous owner.
Alloc(pool, callback) ==
  LET t == AllocHandle(pool)
  IN  IF t = NoTimer THEN pool
      ELSE [pool EXCEPT ![t].callback = callback, ![t].state = "stopped"]

SetArg(pool, t, arg) ==
  IF Valid(pool, t) THEN [pool EXCEPT ![t].arg = arg] ELSE pool

\* timer_set: a negative time, or a slot nobody owns, changes nothing.
Set(pool, t, ms, mode) ==
  IF Valid(pool, t) /\ ms >= 0
  THEN [pool EXCEPT ![t].state = "running", ![t].mode = mode]
  ELSE pool

Stop(pool, t) ==
  IF Valid(pool, t) THEN [pool EXCEPT ![t].state = "stopped"] ELSE pool

\* timer_free checks only the range of the handle, not who owns the slot.
Free(pool, t) ==
  IF t \in Timers
  THEN [pool EXCEPT ![t].callback = NoCallback, ![t].state = "unused"]
  ELSE pool

Running(pool, t) == Valid(pool, t) /\ pool[t].state = "running"

\* Mutation: a timer its callback has armed again goes on running.
AfterCallback_KeepsArmed(pool, t) == pool

\* What timer_tick does to a slot once its callback has returned: it looks at
\* the mode as the callback left it, and a one-shot timer is stopped even if
\* the callback has just armed it again (or freed the slot).
AfterCallback(pool, t) ==
  IF pool[t].mode = "periodic" THEN pool
  ELSE [pool EXCEPT ![t].state = "stopped"]

\* The type of a table whose callbacks are in C and whose arguments are in A.
PoolType(C, A) ==
  [Timers -> [callback : C \union {NoCallback}, arg : A \union {NoArg},
              state : States, mode : Modes]]
=============================================================================
