\* bitmap_scan: every 2-byte bitmap with 8-bit bytes, every value of the
\* bit after it, every count from 1 to 9, in the build with ASSERT.
\* sys_malloc: the constants of memory.c (4096-byte pages, a 12-byte
\* struct arena, seven classes from 16 to 1024 bytes) and every size up
\* to a little more than a page.
\* string.c: every 6-byte window over 0, 'a', 'b' and the byte 200 (a
\* negative char), every two pointers into it, and 'a' and 'b' searched:
\* room for strcat to join a 2-byte and a 1-byte string, or two 1-byte
\* strings with a byte to spare.
\* ticks_to_sleep: a 4-bit tick count, so that start + sleep passes the
\* wrap for most starts; timer.c's frequencies (unused by this test).
CONSTANTS
    LEN = 2
    W = 8
    MaxCnt = 9
    NDEBUG = FALSE
    PG_SIZE = 4096
    ARENA_SIZE = 12
    MIN_BLOCK = 16
    DESC_CNT = 7
    LARGE_SIZE = 1024
    MaxSize = 4200
    N = 6
    Alphabet = {0, 97, 98, 200}
    Chars = {97, 98}
    IRQ0_FREQUENCY = 100
    INPUT_FREQUENCY = 1193180
    TickBits = 4
SPECIFICATION Spec
INVARIANTS ScanFindsFirstFit RoutingIsSmallestFit ArenaBlocksFitPage
           StrCmpIsOrder SearchFindsOccurrences CopiesBuildStrings
           SleepWaitsRequestedTicks
