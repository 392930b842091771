---------------------------- MODULE MC_Operators ----------------------------
(***************************************************************************)
(* The project's pure operators, each checked against its reference over  *)
(* bounded inputs: bitmap_scan (MC_Bitmap) over every 2-byte bitmap and   *)
(* count, sys_malloc's size arithmetic (MC_HeapClasses) with the code's   *)
(* constants over every request size, the loops of string.c (MC_Strings) *)
(* over every small memory window, and ticks_to_sleep's test (MC_Timer)   *)
(* over every start, sleep and elapsed time of a 4-bit tick count.  A     *)
(* state is one input to one of the four; it never changes.               *)
(***************************************************************************)
EXTENDS Integers

CONSTANTS LEN, W, MaxCnt, NDEBUG,
          PG_SIZE, ARENA_SIZE, MIN_BLOCK, DESC_CNT, LARGE_SIZE, MaxSize,
          N, Alphabet, Chars,
          IRQ0_FREQUENCY, INPUT_FREQUENCY, TickBits

VARIABLES input, bits, cnt, size, mem, a, b, ch, start, sleep, elapsed, pit

B == INSTANCE MC_Bitmap
H == INSTANCE MC_HeapClasses
S == INSTANCE MC_Strings
T == INSTANCE MC_Timer

NoBits == bits = [i \in 0 .. LEN * W |-> 0] /\ cnt = 1
NoString == mem = [i \in 0 .. N - 1 |-> 0] /\ a = 0 /\ b = 0 /\ ch = CHOOSE c \in Chars : TRUE

NoSleep == start = 0 /\ sleep = 1 /\ elapsed = 0 /\ pit = 0

Init ==
    \/ input = "bitmap" /\ B!Init /\ size = 1 /\ NoString /\ NoSleep
    \/ input = "size" /\ H!Init /\ NoBits /\ NoString /\ NoSleep
    \/ input = "string" /\ S!Init /\ NoBits /\ size = 1 /\ NoSleep
    \/ input = "sleep" /\ T!Init /\ NoBits /\ size = 1 /\ NoString

vars == <<input, bits, cnt, size, mem, a, b, ch, start, sleep, elapsed, pit>>

Next == UNCHANGED vars

Spec == Init /\ [][Next]_vars

\* bitmap_scan returns the first run of cnt free bits whenever the bitmap
\* holds one (MC_Bitmap!ScanFindsFirstFit).
ScanFindsFirstFit == input = "bitmap" => B!ScanFindsFirstFit

\* sys_malloc sends every size to the smallest class that holds it, or to
\* the fewest pages, as spec 8's table says (MC_HeapClasses).
RoutingIsSmallestFit == input = "size" => H!RoutingIsSmallestFit

\* The class a small request goes to has arenas whose blocks end inside
\* the page (MC_HeapClasses).
ArenaBlocksFitPage == input = "size" => H!ArenaBlocksFitPage

\* strcmp is a total order on strings that agrees with memcmp
\* (MC_Strings).
StrCmpIsOrder == input = "string" => S!StrCmpIsOrder

\* strchr, strrchr and strchrs find the first, the last and every
\* occurrence of an ASCII character (MC_Strings).
SearchFindsOccurrences == input = "string" => S!SearchFindsOccurrences

\* strcpy and strcat build the copied and the joined string and write
\* nothing else (MC_Strings).
CopiesBuildStrings == input = "string" => S!CopiesBuildStrings

\* ticks_to_sleep yields exactly until sleep_ticks ticks have passed, also
\* across the wrap of ticks (MC_Timer).
SleepWaitsRequestedTicks == input = "sleep" => T!SleepWaitsRequestedTicks
=============================================================================
