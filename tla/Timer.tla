-------------------------------- MODULE Timer --------------------------------
(***************************************************************************)
(* sys/timer.c in full: the table with its millisecond counters, and       *)
(* timer_tick, the body of the 1 ms interrupt, slot by slot.               *)
(*                                                                         *)
(* Interrupts do not nest, so while a tick is under way the only code that *)
(* can call the API is the callback of the slot the tick has reached;      *)
(* between ticks it is main() or the packet interrupt.                     *)
(***************************************************************************)
EXTENDS TimerPool

CONSTANTS
  Callbacks, Args, Times

ASSUME CallbacksAssumption == NoCallback \notin Callbacks /\ NoArg \notin Args
ASSUME TimesAssumption == Times \subseteq Int

VARIABLES
  cores,   (* timer_cores: the pool entries with ms_left and ms_org.       *)
  scan,    (* The slot timer_tick has reached, or Idle between ticks.      *)
  firing   (* TRUE while the callback of slot scan runs.                   *)

\* History, read by the properties and by no guard.
VARIABLES
  wanted,  (* "yes": armed and not since stopped, freed or fired; "self":  *)
           (* armed by its own callback; "no" otherwise.                   *)
  since    (* Ticks begun since the slot was last armed, counted until it  *)
           (* can only be late.                                            *)

vars == <<cores, scan, firing, wanted, since>>

Idle == -1

Core == [callback : Callbacks \union {NoCallback}, arg : Args \union {NoArg},
         state : States, mode : Modes, left : Int, org : Nat]

TypeOK ==
  /\ cores \in [Timers -> Core]
  /\ scan \in Timers \union {Idle, TimerMax}
  /\ firing \in BOOLEAN
  /\ firing => scan \in Timers
  /\ wanted \in [Timers -> {"yes", "self", "no"}]
  /\ since \in [Timers -> Nat]

\* The slot whose callback is running, as module TimerService names it.
FiringTimer == IF firing THEN scan ELSE NoTimer

Init ==
  /\ cores = [t \in Timers |-> [callback |-> NoCallback, arg |-> NoArg,
                                state |-> "unused", mode |-> "one_shot",
                                left |-> 0, org |-> 0]]
  /\ scan = Idle
  /\ firing = FALSE
  /\ wanted = [t \in Timers |-> "no"]
  /\ since = [t \in Timers |-> 0]

-----------------------------------------------------------------------------
(* The calls of timer.h.  A handle is any number the callers can hold: a   *)
(* slot, or the -1 of a failed timer_alloc.                                *)

CanCall ==
  /\ scan = Idle \/ firing
  /\ UNCHANGED <<scan, firing>>

Forget(t) == [u \in Timers |-> IF u = t THEN "no" ELSE wanted[u]]

timer_alloc(callback) ==
  /\ CanCall
  /\ LET t == AllocHandle(cores)
     IN  cores' = IF t = NoTimer THEN cores
                  ELSE [Alloc(cores, callback) EXCEPT ![t].left = 0]
  /\ UNCHANGED <<wanted, since>>

timer_set_arg(t, arg) ==
  /\ CanCall
  /\ cores' = SetArg(cores, t, arg)
  /\ UNCHANGED <<wanted, since>>

\* Mutation: a running timer keeps the counter it has.
timer_set_KeepsCounter(t, ms, mode) ==
  /\ CanCall
  /\ IF Valid(cores, t) /\ ms >= 0
     THEN /\ cores' = [Set(cores, t, ms, mode) EXCEPT
                         ![t].left = IF Running(cores, t) THEN @ ELSE ms, ![t].org = ms]
          /\ wanted' = [wanted EXCEPT ![t] = IF t = FiringTimer THEN "self" ELSE "yes"]
          /\ since' = [since EXCEPT ![t] = 0]
     ELSE UNCHANGED <<cores, wanted, since>>

\* Mutation: the slot's owner is not looked at.
timer_set_Unowned(t, ms, mode) ==
  /\ CanCall
  /\ IF t \in Timers /\ ms >= 0
     THEN /\ cores' = [cores EXCEPT ![t].state = "running", ![t].mode = mode,
                                   ![t].left = ms, ![t].org = ms]
          /\ wanted' = [wanted EXCEPT ![t] = IF t = FiringTimer THEN "self" ELSE "yes"]
          /\ since' = [since EXCEPT ![t] = 0]
     ELSE UNCHANGED <<cores, wanted, since>>

timer_set(t, ms, mode) ==
  /\ CanCall
  /\ IF Valid(cores, t) /\ ms >= 0
     THEN /\ cores' = [Set(cores, t, ms, mode) EXCEPT ![t].left = ms, ![t].org = ms]
          /\ wanted' = [wanted EXCEPT ![t] = IF t = FiringTimer THEN "self" ELSE "yes"]
          /\ since' = [since EXCEPT ![t] = 0]
     ELSE UNCHANGED <<cores, wanted, since>>

\* Mutation: the counter is cleared and the state left.
timer_stop_Counter(t) ==
  /\ CanCall
  /\ cores' = IF Valid(cores, t) THEN [cores EXCEPT ![t].left = 0] ELSE cores
  /\ wanted' = Forget(t)
  /\ UNCHANGED since

timer_stop(t) ==
  /\ CanCall
  /\ cores' = Stop(cores, t)
  /\ wanted' = Forget(t)
  /\ UNCHANGED since

timer_free(t) ==
  /\ CanCall
  /\ cores' = Free(cores, t)
  /\ wanted' = Forget(t)
  /\ UNCHANGED since

ApiCall ==
  \/ \E callback \in Callbacks : timer_alloc(callback)
  \/ \E t \in Timers \union {NoTimer} :
       \/ \E arg \in Args : timer_set_arg(t, arg)
       \/ \E ms \in Times, mode \in Modes : timer_set(t, ms, mode)
       \/ timer_stop(t)
       \/ timer_free(t)

-----------------------------------------------------------------------------
(* timer_tick: the loop over the slots.                                    *)

TickBegin ==
  /\ scan = Idle
  /\ scan' = 0
  /\ since' = [t \in Timers |-> IF since[t] <= cores[t].org + 1 THEN since[t] + 1
                                ELSE since[t]]
  /\ UNCHANGED <<cores, firing, wanted>>

\* Mutation: <= for < in the loop.
TickSkip_PastEnd ==
  /\ scan \in Timers \union {TimerMax} /\ ~firing
  /\ ~Running(cores, scan)
  /\ scan' = scan + 1
  /\ UNCHANGED <<cores, firing, wanted, since>>

TickSkip ==
  /\ scan \in Timers /\ ~firing
  /\ ~Running(cores, scan)
  /\ scan' = scan + 1
  /\ UNCHANGED <<cores, firing, wanted, since>>

TickCount ==
  /\ scan \in Timers /\ ~firing
  /\ Running(cores, scan)
  /\ cores' = [cores EXCEPT ![scan].left = @ - 1]
  /\ cores'[scan].left >= 0
  /\ scan' = scan + 1
  /\ UNCHANGED <<firing, wanted, since>>

\* The counter drops below zero and the callback is called.
TickExpire ==
  /\ scan \in Timers /\ ~firing
  /\ Running(cores, scan)
  /\ cores' = [cores EXCEPT ![scan].left = @ - 1]
  /\ cores'[scan].left < 0
  /\ firing' = TRUE
  /\ wanted' = Forget(scan)
  /\ UNCHANGED <<scan, since>>

\* Mutation: the loop is left after the first timer that fires.
TickReturn_Breaks ==
  /\ firing
  /\ cores' = IF cores[scan].mode = "periodic"
              THEN [cores EXCEPT ![scan].left = cores[scan].org]
              ELSE AfterCallback(cores, scan)
  /\ wanted' = [wanted EXCEPT ![scan] =
                  IF Running(cores', scan) THEN "yes" ELSE @]
  /\ since' = [since EXCEPT ![scan] = 0]
  /\ firing' = FALSE
  /\ scan' = TimerMax

\* The callback returns; the slot is then reloaded or stopped.
TickReturn ==
  /\ firing
  /\ cores' = IF cores[scan].mode = "periodic"
              THEN [cores EXCEPT ![scan].left = cores[scan].org]
              ELSE AfterCallback(cores, scan)
  /\ wanted' = [wanted EXCEPT ![scan] =
                  IF Running(cores', scan) THEN "yes" ELSE @]
  /\ since' = [since EXCEPT ![scan] = 0]
  /\ firing' = FALSE
  /\ scan' = scan + 1

TickEnd ==
  /\ scan = TimerMax
  /\ scan' = Idle
  /\ UNCHANGED <<cores, firing, wanted, since>>

Tick == TickBegin \/ TickSkip \/ TickCount \/ TickExpire \/ TickReturn \/ TickEnd

Next == ApiCall \/ Tick

Spec == Init /\ [][Next]_vars

(* The 1 ms interrupt keeps coming and its handler is never preempted, so  *)
(* the loop always advances; callbacks always return.                      *)
FairSpec == Spec /\ WF_vars(Tick)

-----------------------------------------------------------------------------
(* Properties. *)

\* A timer that was armed from outside its own callback runs until it fires,
\* is stopped or is freed, and no other timer runs: no tick, no callback of
\* another slot and no reuse of a slot arms or disarms it
\* (timer_tick, timer.c:47-79, against timer_set and timer_stop, 107-132).
ArmedAsAsked ==
  \A t \in Timers : t # FiringTimer => (wanted[t] = "yes" <=> Running(cores, t))

\* A timer set to n ms fires in the (n+1)-th tick after the call, because the
\* counter must drop below zero (timer.c:64-65); it fires in the n-th one only
\* when an earlier slot's callback armed it inside a tick that had not yet
\* reached it.  It never fires sooner or later than that.
Punctual ==
  [][\A t \in Timers :
       (FiringTimer' = t /\ FiringTimer # t)
          => since[t] \in {cores[t].org, cores[t].org + 1}]_vars

\* A timer that is not armed again for ever is served, each time it is armed: it
\* sooner or later fires, or is stopped or freed, whatever the callbacks of the slots
\* before it do (the loop of timer_tick, timer.c:51-78).  One that is armed again in
\* every tick never fires, because timer_set begins its counter anew (timer.c:112-117).
ArmedIsServed ==
  \A t \in Timers :
    \/ wanted[t] = "yes" ~> wanted[t] # "yes"
    \/ []<><<\E ms \in Times, mode \in Modes : timer_set(t, ms, mode)>>_vars

\* The table with its counters and its slot-by-slot tick implements the untimed
\* interface the other modules are written against.
Service == INSTANCE TimerService WITH
             pool <- [t \in Timers |-> [callback |-> cores[t].callback,
                                       arg |-> cores[t].arg,
                                       state |-> cores[t].state,
                                       mode |-> cores[t].mode]],
             firing <- FiringTimer
ImplementsService == Service!ServiceSpec
=============================================================================
