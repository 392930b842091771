-------------------------------- MODULE Heap --------------------------------
(***************************************************************************)
(* The byte-granular heap of src/kernel/memory.c: sys_malloc, sys_free,   *)
(* the class ladders of block_desc_init (k_block_descs shared by kernel   *)
(* threads, u_block_desc private to each process) and the arenas carved   *)
(* out of pages from malloc_page.                                          *)
(*                                                                         *)
(* sys_malloc and sys_free hold the pool lock from their first access to  *)
(* a ladder or an arena to their last, and no other code touches either,  *)
(* so each call is one step.  malloc_page and mfree_page are taken at the *)
(* level of the pages they reserve and return; PageAlloc models their     *)
(* steps.  The build is the one with ASSERT: a palloc that finds its pool *)
(* full panics (bitmap.c:35), so malloc_page either succeeds, returns     *)
(* NULL for want of a virtual run, or halts.                              *)
(***************************************************************************)
EXTENDS Integers, Sequences, SequencesExt, FiniteSets, Functions, Bitmap, HeapClasses

CONSTANTS
    KThreads,       \* kernel threads: k_block_descs, kernel_pool
    Procs,          \* processes: own u_block_desc and virtual space, user_pool
    W,              \* bits per bitmap byte
    KLen,           \* bytes of the kernel pool bitmap and of kernel_vaddr's
    ULen,           \* bytes of the user pool bitmap
    UVLen,          \* bytes of a process's virtual address bitmap
    PG_CNT_LIMIT,   \* the literal 3840 of malloc_page's ASSERT
    Sizes,          \* request sizes callers pass to sys_malloc
    None

ASSUME KThreads \cap Procs = {} /\ KThreads \cup Procs # {}

Threads   == KThreads \cup Procs
PF_KERNEL == "kernel"
PF_USER   == "user"

\* The owner of a virtual space and a class ladder; the pool a thread uses.
Spaces     == {PF_KERNEL} \cup Procs
SpaceOf(t) == IF t \in KThreads THEN PF_KERNEL ELSE t
PoolOf(t)  == IF t \in KThreads THEN PF_KERNEL ELSE PF_USER
PoolOfSpace(s) == IF s = PF_KERNEL THEN PF_KERNEL ELSE PF_USER

VLen(s)       == IF s = PF_KERNEL THEN KLen ELSE UVLen
NVP(s)        == VLen(s) * W
PoolPages(pf) == IF pf = PF_KERNEL THEN KLen * W ELSE ULen * W
StackPage     == UVLen * W - 1
Pools         == {PF_KERNEL, PF_USER}

\* A pointer sys_malloc returns: block idx of the arena at page, or for a
\* large request (idx = None) the byte after the header of its first page.
Ptr == [page : Nat, idx : Nat \cup {None}]

VARIABLES
    vbits,   \* space -> its virtual bitmap (kernel_vaddr / userprog_vaddr)
    nfree,   \* pool -> frames whose pool bit is clear
    arena,   \* space -> page -> the struct arena at the page's start, or None
    flist,   \* space -> class -> free_list of the ladder, head first
    held,    \* thread -> pointers sys_malloc returned to it, not yet freed
    panic    \* "none", or the ASSERT that halted the kernel

vars == <<vbits, nfree, arena, flist, held, panic>>

Panics == {"none", "bitmap_full", "pg_cnt", "user_stack", "free_list"}

Panic(why) == /\ panic' = why
              /\ UNCHANGED <<vbits, nfree, arena, flist, held>>

(***************************************************************************)
(* malloc_page(pf, n) as the calling heap operation sees it: the start of *)
(* the pages, None (NULL), or the ASSERT that fails.                      *)
(***************************************************************************)
MallocPageResultNoFrameCheck(s, n) ==   \* mutant: palloc's NULL goes unnoticed
    LET r == BitmapScan(vbits[s], VLen(s), W, n, FALSE)
    IN  CASE ~(n > 0 /\ n < PG_CNT_LIMIT)      -> [at |-> None, why |-> "pg_cnt"]
          [] r = AssertFailed                  -> [at |-> None, why |-> "bitmap_full"]
          [] r = NotFound                      -> [at |-> None, why |-> "none"]
          [] s # PF_KERNEL /\ ~(r < StackPage) -> [at |-> None, why |-> "user_stack"]
          [] OTHER                             -> [at |-> r, why |-> "none"]

MallocPageResult(s, n) ==
    LET r == BitmapScan(vbits[s], VLen(s), W, n, FALSE)
    IN  CASE ~(n > 0 /\ n < PG_CNT_LIMIT)      -> [at |-> None, why |-> "pg_cnt"]
          [] r = AssertFailed                  -> [at |-> None, why |-> "bitmap_full"]
          [] r = NotFound                      -> [at |-> None, why |-> "none"]
          [] s # PF_KERNEL /\ ~(r < StackPage) -> [at |-> None, why |-> "user_stack"]
          [] nfree[PoolOfSpace(s)] < n         -> [at |-> None, why |-> "bitmap_full"]
          [] OTHER                             -> [at |-> r, why |-> "none"]

\* The pages malloc_page reserved: vaddr_get's bits and n pool frames.
TakePages(s, r, n) ==
    /\ vbits' = [vbits EXCEPT ![s] = [i \in DOMAIN @ |->
                    IF i \in r .. r + n - 1 THEN 1 ELSE @[i]]]
    /\ nfree' = [nfree EXCEPT ![PoolOfSpace(s)] = @ - n]

\* mfree_page(pf, page, n): pfree of each frame and vaddr_remove.
ReturnPages(s, r, n) ==
    /\ vbits' = [vbits EXCEPT ![s] = [i \in DOMAIN @ |->
                    IF i \in r .. r + n - 1 THEN 0 ELSE @[i]]]
    /\ nfree' = [nfree EXCEPT ![PoolOfSpace(s)] = @ + n]

\* The blocks of a fresh arena of class c at page r, in arena2block order.
ArenaBlocks(r, c) == [i \in 1 .. BlocksPerArena(c) |-> [page |-> r, idx |-> i - 1]]

(***************************************************************************)
(* sys_malloc(size)                                                        *)
(***************************************************************************)
\* The large path: page_cnt pages, header {desc NULL, cnt page_cnt, large}.
MallocLarge(t, size) ==
    LET s   == SpaceOf(t)
        n   == LargePages(size)
        res == MallocPageResult(s, n)
        r   == res.at
    IN  CASE res.why # "none" -> Panic(res.why)
          [] r = None          -> UNCHANGED vars
          [] OTHER ->
               /\ TakePages(s, r, n)
               /\ arena' = [arena EXCEPT ![s][r] =
                               [desc |-> None, cnt |-> n, large |-> TRUE]]
               /\ held' = [held EXCEPT ![t] = @ \cup {[page |-> r, idx |-> None]}]
               /\ UNCHANGED <<flist, panic>>

PopBlockPeek(t, s, c, fl, ar) ==   \* mutant: the head is used but not popped
    LET b == Head(fl[c])
    IN  /\ flist' = [flist EXCEPT ![s] = fl]
        /\ arena' = [arena EXCEPT ![s] = [ar EXCEPT ![b.page].cnt = @ - 1]]
        /\ held'  = [held EXCEPT ![t] = @ \cup {b}]

\* list_pop of the class's free list; block2arena(b)->cnt--.
PopBlock(t, s, c, fl, ar) ==
    LET b == Head(fl[c])
    IN  /\ flist' = [flist EXCEPT ![s] = [fl EXCEPT ![c] = Tail(@)]]
        /\ arena' = [arena EXCEPT ![s] = [ar EXCEPT ![b.page].cnt = @ - 1]]
        /\ held'  = [held EXCEPT ![t] = @ \cup {b}]

\* The small path.  An empty free list gets a fresh one-page arena whose
\* blocks are all appended (with interrupts off) before the pop.
MallocSmall(t, size) ==
    LET s   == SpaceOf(t)
        c   == DescIdx(size, 0)
        res == MallocPageResult(s, 1)
        r   == res.at
    IN  IF flist[s][c] # <<>>
           THEN /\ PopBlock(t, s, c, flist[s], arena[s])
                /\ UNCHANGED <<vbits, nfree, panic>>
        ELSE CASE res.why # "none" -> Panic(res.why)
               [] r = None          -> UNCHANGED vars
               [] OTHER ->
                    /\ TakePages(s, r, 1)
                    /\ PopBlock(t, s, c,
                          [flist[s] EXCEPT ![c] = @ \o ArenaBlocks(r, c)],
                          [arena[s] EXCEPT ![r] =
                              [desc |-> c, cnt |-> BlocksPerArena(c), large |-> FALSE]])
                    /\ UNCHANGED panic

\* sys_malloc: requests outside (0, pool_size) return NULL before the lock.
SysMalloc(t) ==
    /\ panic = "none"
    /\ \E size \in Sizes :
         /\ size > 0 /\ size < PoolPages(PoolOf(t)) * PG_SIZE
         /\ IF size > LARGE_SIZE THEN MallocLarge(t, size) ELSE MallocSmall(t, size)

(***************************************************************************)
(* sys_free(ptr)                                                           *)
(***************************************************************************)
FreedCountNoInc(a) == a.cnt   \* mutant: sys_free forgets ++a->cnt

\* ++a->cnt: the arena's free blocks after one more comes back.
FreedCount(a) == a.cnt + 1

ArenaIdleLate(a, cnt) == cnt = BlocksPerArena(a.desc) + 1   \* mutant: off by one

\* The reclaim test: every block of the arena is free again.
ArenaIdle(a, cnt) == cnt = BlocksPerArena(a.desc)

ReclaimListKeep(fl, page) == fl   \* mutant: the list_remove loop is skipped

\* The loop of list_remove over arena2block(a, 0 .. blocks_per_arena - 1).
ReclaimList(fl, page) == SelectSeq(fl, LAMBDA b : b.page # page)

\* list_append of the block to its class list; when the arena is idle,
\* every one of its blocks (each ASSERTed to be on the list) leaves the
\* list and mfree_page returns the arena's page.
FreeBlock(t, s, p) ==
    LET a   == arena[s][p.page]
        fl  == Append(flist[s][a.desc], p)
        cnt == FreedCount(a)
    IN  /\ held' = [held EXCEPT ![t] = @ \ {p}]
        /\ IF ArenaIdle(a, cnt)
              THEN IF \E i \in 0 .. BlocksPerArena(a.desc) - 1 :
                           [page |-> p.page, idx |-> i] \notin ToSet(fl)
                      THEN Panic("free_list")
                   ELSE /\ flist' = [flist EXCEPT ![s][a.desc] = ReclaimList(fl, p.page)]
                        /\ ReturnPages(s, p.page, 1)
                        /\ arena' = [arena EXCEPT ![s][p.page] = None]
                        /\ UNCHANGED panic
           ELSE /\ flist' = [flist EXCEPT ![s][a.desc] = fl]
                /\ arena' = [arena EXCEPT ![s][p.page].cnt = cnt]
                /\ UNCHANGED <<vbits, nfree, panic>>

FreeLargeOnePage(t, s, p) ==   \* mutant: the large path frees one page
    /\ ReturnPages(s, p.page, 1)
    /\ arena' = [arena EXCEPT ![s][p.page] = None]
    /\ held' = [held EXCEPT ![t] = @ \ {p}]
    /\ UNCHANGED <<flist, panic>>

\* A large arena: mfree_page of all a->cnt pages.
FreeLarge(t, s, p) ==
    /\ ReturnPages(s, p.page, arena[s][p.page].cnt)
    /\ arena' = [arena EXCEPT ![s][p.page] = None]
    /\ held' = [held EXCEPT ![t] = @ \ {p}]
    /\ UNCHANGED <<flist, panic>>

SysFree(t) ==
    /\ panic = "none"
    /\ \E p \in held[t] :
         LET s == SpaceOf(t)
             a == arena[s][p.page]
         IN  IF a.desc = None /\ a.large THEN FreeLarge(t, s, p)
             ELSE FreeBlock(t, s, p)

(***************************************************************************)
(* Specification                                                           *)
(***************************************************************************)
\* After mem_init and start_process: empty ladders and pools, zeroed
\* bitmaps; the bit after kernel_vaddr's buffer is whatever memory holds;
\* each process's stack page is mapped with a frame of the user pool.
Init ==
    /\ vbits \in {[s \in Spaces |->
                     [i \in 0 .. NVP(s) |->
                        CASE i = NVP(s)                       -> IF s = PF_KERNEL THEN x ELSE 0
                          [] s # PF_KERNEL /\ i = StackPage   -> 1
                          [] OTHER                            -> 0]] : x \in {0, 1}}
    /\ nfree = [pf \in Pools |-> IF pf = PF_KERNEL THEN PoolPages(pf)
                                 ELSE PoolPages(pf) - Cardinality(Procs)]
    /\ arena = [s \in Spaces |-> [i \in 0 .. NVP(s) |-> None]]
    /\ flist = [s \in Spaces |-> [c \in Classes |-> <<>>]]
    /\ held  = [t \in Threads |-> {}]
    /\ panic = "none"

\* panic_spin
Halt == panic # "none" /\ UNCHANGED vars

Next == \/ \E t \in Threads : SysMalloc(t) \/ SysFree(t)
        \/ Halt

Spec == Init /\ [][Next]_vars

(***************************************************************************)
(* Properties                                                              *)
(***************************************************************************)
TypeOK ==
    /\ \A s \in Spaces : vbits[s] \in [0 .. NVP(s) -> {0, 1}]
    /\ \A pf \in Pools : nfree[pf] \in 0 .. PoolPages(pf)
    /\ \A s \in Spaces : \A i \in DOMAIN arena[s] :
          arena[s][i] = None \/ arena[s][i] \in
              [desc : Classes \cup {None}, cnt : Nat, large : BOOLEAN]
    /\ \A s \in Spaces : \A c \in Classes : flist[s][c] \in Seq(Ptr)
    /\ \A t \in Threads : held[t] \subseteq Ptr
    /\ panic \in Panics

Listed(s)    == UNION {ToSet(flist[s][c]) : c \in Classes}
LiveSmall(s) == {i \in DOMAIN arena[s] : arena[s][i] # None /\ ~arena[s][i].large}
LiveArenas(s) == {i \in DOMAIN arena[s] : arena[s][i] # None}
ArenaPages(s) == UNION {i .. i + (IF arena[s][i].large THEN arena[s][i].cnt ELSE 1) - 1 :
                          i \in LiveArenas(s)}
HeldIn(s) == UNION {held[t] : t \in {u \in Threads : SpaceOf(u) = s}}

\* No block is handed out twice or while it sits on a free list, and no
\* block is on a list twice: sys_malloc's list_pop and sys_free's
\* list_append and arena reclamation keep each block in one place.
BlocksExclusive ==
    \A s \in Spaces :
        /\ \A c \in Classes : IsInjective(flist[s][c])
        /\ \A c, d \in Classes : c # d => ToSet(flist[s][c]) \cap ToSet(flist[s][d]) = {}
        /\ \A t, u \in {v \in Threads : SpaceOf(v) = s} :
              /\ held[t] \cap Listed(s) = {}
              /\ t # u => held[t] \cap held[u] = {}

\* Each small arena's header count is the number of its blocks on the free
\* list, and every one of its blocks is either there or handed out: the
\* count sys_free compares with blocks_per_arena tells the truth.
ArenaCountMatchesFreeList ==
    \A s \in Spaces : \A i \in LiveSmall(s) :
        LET c     == arena[s][i].desc
            free  == Cardinality({b \in ToSet(flist[s][c]) : b.page = i})
            given == Cardinality({p \in HeldIn(s) : p.page = i})
        IN  /\ arena[s][i].cnt = free
            /\ free + given = BlocksPerArena(c)

\* Every block on a free list lies inside a live arena of that list's
\* class: reclaiming an arena takes all its blocks off the list first.
FreeListBlocksInLiveArenas ==
    \A s \in Spaces : \A c \in Classes : \A b \in ToSet(flist[s][c]) :
        /\ b.page \in LiveSmall(s)
        /\ arena[s][b.page].desc = c
        /\ b.idx \in 0 .. BlocksPerArena(c) - 1

\* Spec 4.5: an arena whose blocks are all free is reclaimed at once, so
\* no live small arena has every block on the free list.
IdleArenasReclaimed ==
    \A s \in Spaces : \A i \in LiveSmall(s) :
        arena[s][i].cnt < BlocksPerArena(arena[s][i].desc)

\* Virtual bits are set exactly on the pages of live arenas (and the stack
\* page), and each pool's free frames are its size less those pages: the
\* large path returns all a->cnt pages, the small path its one page.
HeapPagesAccounted ==
    /\ \A s \in Spaces : \A i \in 0 .. NVP(s) - 1 :
          vbits[s][i] = 1 <=> (i \in ArenaPages(s) \/ (s # PF_KERNEL /\ i = StackPage))
    /\ \A pf \in Pools :
          nfree[pf] = PoolPages(pf) - (IF pf = PF_USER THEN Cardinality(Procs) ELSE 0)
                      - MapThenSumSet(LAMBDA s : Cardinality(ArenaPages(s)),
                                      {s \in Spaces : PoolOfSpace(s) = pf})

\* Spec 7: a request memory cannot satisfy is reported as NULL.  sys_malloc
\* passes every size below pool_size to malloc_page, whose ASSERT(pg_cnt <
\* 3840) halts the kernel when the header makes the page count reach the
\* limit -- on a 32 MiB machine the kernel pool has exactly 3840 pages.
OversizedRequestReturnsNull == panic # "pg_cnt"
=============================================================================
