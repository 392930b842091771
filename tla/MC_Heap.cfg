\* One kernel thread and two processes.  Each sys_malloc / sys_free is one
\* step, so a second kernel thread on k_block_descs adds no behaviour that
\* k1 making both threads' calls does not.  The processes have private
\* ladders and virtual spaces of four pages (the top one the stack) and
\* share a user pool of four frames, two of which hold the stacks.
\* Pages of 48 bytes with the code's 12-byte arena header: class 16 has
\* two blocks per arena, class 32 one; 60 bytes take a two-page large
\* arena.  As on a 32 MiB machine, the kernel pool has as many pages as
\* malloc_page's ASSERT allows (3840).
CONSTANTS
    KThreads = {k1}
    Procs = {p1, p2}
    W = 4
    KLen = 1
    ULen = 1
    UVLen = 1
    PG_SIZE = 48
    ARENA_SIZE = 12
    MIN_BLOCK = 16
    DESC_CNT = 2
    LARGE_SIZE = 32
    PG_CNT_LIMIT = 4
    Sizes = {1, 17, 60}
    None = None
SPECIFICATION Spec
INVARIANTS TypeOK BlocksExclusive ArenaCountMatchesFreeList FreeListBlocksInLiveArenas IdleArenasReclaimed HeapPagesAccounted
