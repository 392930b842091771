\* The constants of timer.c: a 1193180 Hz input clock divided down to 100
\* interrupts a second.  The tick width does not matter to this property;
\* 2 bits keep the input small.
CONSTANTS
    IRQ0_FREQUENCY = 100
    INPUT_FREQUENCY = 1193180
    TickBits = 2
SPECIFICATION Spec
INVARIANT PitReloadIsCounter0Value
CHECK_DEADLOCK FALSE
