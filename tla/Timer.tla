------------------------------- MODULE Timer -------------------------------
(***************************************************************************)
(* The arithmetic of src/device/timer.c: the two bytes frequency_set      *)
(* writes to counter 0 of the 8253 and the reload value they program, and *)
(* the loop test of ticks_to_sleep on the global tick count, a uint32_t   *)
(* that wraps (TickBits wide).  The tick handler itself is Sched's        *)
(* TimerTick.                                                             *)
(***************************************************************************)
EXTENDS Integers

CONSTANTS IRQ0_FREQUENCY,    \* 100 interrupts a second
          INPUT_FREQUENCY,   \* 1193180 Hz on the counter's CLK pin
          TickBits           \* width of ticks (32)

ASSUME {IRQ0_FREQUENCY, INPUT_FREQUENCY, TickBits} \subseteq Nat \ {0}

\* #define COUNTER0_VALUE INPUT_FREQUENCY / IRQ0_FREQUENCY
COUNTER0_VALUE == INPUT_FREQUENCY \div IRQ0_FREQUENCY

U8(x)  == x % 256
U16(x) == x % 2^16

(***************************************************************************)
(* frequency_set(port, no, rwl, mode, counter_value): the control word,   *)
(* then (uint8_t)counter_value, then (uint8_t)counter_value >> 8: the     *)
(* cast binds before the shift, so the byte is taken from the low byte.   *)
(* With rwl = 3 the 8253 takes the first byte as the low and the second   *)
(* as the high half of the reload value; 0 stands for 65536.              *)
(***************************************************************************)
FrequencySetBytes(counter_value) ==
    LET v == U16(counter_value)
    IN  <<U8(v), U8(v) \div 2^8>>

Reload(bytes) == LET r == bytes[1] + 2^8 * bytes[2] IN IF r = 0 THEN 2^16 ELSE r

\* What timer_init programs: the reload value of counter 0.
TimerInitReload == Reload(FrequencySetBytes(COUNTER0_VALUE))

(***************************************************************************)
(* ticks_to_sleep(sleep_ticks): start_tick = ticks, then thread_yield     *)
(* while ticks - start_tick < sleep_ticks, in uint32_t arithmetic.        *)
(***************************************************************************)
Wrap(x) == x % 2^TickBits

KeepsSleepingNoWrap(start, now, sleep) == now < start + sleep   \* mutant: ticks < start_tick + sleep_ticks

KeepsSleeping(start, now, sleep) == Wrap(now - start) < sleep
=============================================================================
