------------------------------ MODULE MC_Timer ------------------------------
(***************************************************************************)
(* Timer's arithmetic over every start tick, requested sleep and elapsed   *)
(* time of a TickBits-wide tick count, which never change, and counter 0 *)
(* of the 8253 before and after timer_init.                               *)
(***************************************************************************)
EXTENDS Timer

Ticks == 0 .. 2^TickBits - 1

VARIABLES start, sleep, elapsed,
          pit      \* the reload value of counter 0; 0 until timer_init

vars == <<start, sleep, elapsed, pit>>

Init == /\ start \in Ticks
        /\ sleep \in Ticks \ {0}
        /\ elapsed \in Ticks
        /\ pit = 0

\* timer_init: frequency_set(CONTRER0_PORT, ..., COUNTER0_VALUE).
TimerInit == /\ pit = 0
             /\ pit' = TimerInitReload
             /\ UNCHANGED <<start, sleep, elapsed>>

Next == TimerInit

Spec == Init /\ [][Next]_vars

\* The sleeping thread reads ticks = start + elapsed, wrapped.
Now == Wrap(start + elapsed)

\* ticks_to_sleep keeps yielding exactly while fewer than sleep_ticks
\* ticks have passed since it read start_tick, also when ticks wraps past
\* 2^32 in between: it neither returns early nor sleeps on.
SleepWaitsRequestedTicks == KeepsSleeping(start, Now, sleep) <=> elapsed < sleep

\* timer.c's comments set counter 0 to interrupt IRQ0_FREQUENCY times a
\* second: timer_init must load COUNTER0_VALUE as its reload value, whose
\* high byte frequency_set's comment says it writes second.
PitReloadIsCounter0Value == pit # 0 => pit = COUNTER0_VALUE
=============================================================================
