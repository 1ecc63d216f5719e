---------------------------- MODULE TimerService ----------------------------
(***************************************************************************)
(* What sys/timer.c promises the rest of the firmware, with time left out: *)
(* a running timer may expire at some moment; while its callback runs no   *)
(* other timer expires; when the callback returns, a one-shot timer is     *)
(* stopped and a periodic one goes on running.  The modules for the users  *)
(* of timers (Arp, Tcp) are written against this interface; module Timer   *)
(* is shown to implement it.                                               *)
(***************************************************************************)
EXTENDS TimerPool

CONSTANTS
  Callbacks,   (* The callback functions.                                  *)
  Args,        (* Their arguments.                                         *)
  Times        (* The delays, in milliseconds, that timer_set is given.    *)

VARIABLES
  pool,    (* The timer table.                                             *)
  firing   (* The timer whose callback is running, or NoTimer.             *)

svars == <<pool, firing>>

Entry == [callback : Callbacks \union {NoCallback}, arg : Args \union {NoArg},
          state : States, mode : Modes]

ServiceTypeOK ==
  /\ pool \in [Timers -> Entry]
  /\ firing \in Timers \union {NoTimer}

ServiceInit == pool = EmptyPool /\ firing = NoTimer

Call ==
  /\ \/ \E cb \in Callbacks : pool' = Alloc(pool, cb)
     \/ \E t \in Timers, arg \in Args : pool' = SetArg(pool, t, arg)
     \/ \E t \in Timers, ms \in Times, mode \in Modes : pool' = Set(pool, t, ms, mode)
     \/ \E t \in Timers : pool' = Stop(pool, t)
     \/ \E t \in Timers : pool' = Free(pool, t)
  /\ UNCHANGED firing

Fire(t) ==
  /\ firing = NoTimer
  /\ Running(pool, t)
  /\ firing' = t
  /\ UNCHANGED pool

Return ==
  /\ firing # NoTimer
  /\ pool' = AfterCallback(pool, firing)
  /\ firing' = NoTimer

ServiceNext == Call \/ (\E t \in Timers : Fire(t)) \/ Return

ServiceSpec == ServiceInit /\ [][ServiceNext]_svars
=============================================================================
