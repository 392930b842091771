---------------------------- MODULE HeapClasses ----------------------------
(***************************************************************************)
(* The size arithmetic of sys_malloc (src/kernel/memory.c): the class     *)
(* ladder block_desc_init builds, the loop that picks a class for a small *)
(* request, and the page count of a large one.                            *)
(***************************************************************************)
EXTENDS Integers

CONSTANTS
    PG_SIZE,        \* bytes per page
    ARENA_SIZE,     \* sizeof(struct arena)
    MIN_BLOCK,      \* block_size of the first class (16)
    DESC_CNT,       \* classes per ladder
    LARGE_SIZE      \* the literal 1024 of sys_malloc: larger requests take pages

ASSUME {PG_SIZE, ARENA_SIZE, MIN_BLOCK, DESC_CNT, LARGE_SIZE} \subseteq Nat \ {0}

DIV_ROUND_UP(x, y) == (x + y - 1) \div y

Classes == 0 .. DESC_CNT - 1

\* block_desc_init: block_size starts at 16 and doubles per class.
BlockSize(c) == MIN_BLOCK * 2^c

BlocksPerArenaNoHeader(c) == PG_SIZE \div BlockSize(c)   \* mutant: header ignored

\* (PG_SIZE - sizeof(struct arena)) / block_size.
BlocksPerArena(c) == (PG_SIZE - ARENA_SIZE) \div BlockSize(c)

RECURSIVE DescIdxStrict(_, _)
DescIdxStrict(size, i) ==   \* mutant: size < block_size
    IF i = DESC_CNT THEN DESC_CNT
    ELSE IF size < BlockSize(i) THEN i ELSE DescIdxStrict(size, i + 1)

\* The class loop of sys_malloc: the first class whose blocks hold size,
\* or DESC_CNT when none does.
RECURSIVE DescIdx(_, _)
DescIdx(size, i) ==
    IF i = DESC_CNT THEN DESC_CNT
    ELSE IF size <= BlockSize(i) THEN i ELSE DescIdx(size, i + 1)

\* DIV_ROUND_UP(size + sizeof(struct arena), PG_SIZE).
LargePages(size) == DIV_ROUND_UP(size + ARENA_SIZE, PG_SIZE)

\* Where sys_malloc sends a request: a class, or the large path's pages.
Route(size) ==
    IF size > LARGE_SIZE THEN [large |-> TRUE, class |-> DESC_CNT, pages |-> LargePages(size)]
    ELSE [large |-> FALSE, class |-> DescIdx(size, 0), pages |-> 1]
=============================================================================
