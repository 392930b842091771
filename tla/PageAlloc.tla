------------------------------ MODULE PageAlloc ------------------------------
(***************************************************************************)
(* Page-granular memory management of src/kernel/memory.c: the kernel and *)
(* user physical pools (struct pool), the kernel virtual space            *)
(* (kernel_vaddr) and each process's virtual space (userprog_vaddr), the  *)
(* kernel page table and each process's page directory, driven by kernel  *)
(* threads and user processes that the timer may preempt between any two *)
(* of the steps below.                                                    *)
(*                                                                         *)
(* Frame numbers: 0 is the frame a NULL physical address names; kernel    *)
(* pool bit i is frame KStart + i, user pool bit i is frame UStart + i.   *)
(* A virtual page is its bit index in its space's bitmap.                 *)
(***************************************************************************)
EXTENDS Integers, FiniteSets, FiniteSetsExt, Bitmap

CONSTANTS
    KThreads,   \* kernel threads (pgdir == NULL)
    Procs,      \* user processes (own pgdir, userprog_vaddr)
    W,          \* bits per bitmap byte
    KLen,       \* bytes of the kernel pool bitmap (kbm_length)
    ULen,       \* bytes of the user pool bitmap (ubm_length)
    UVLen,      \* bytes of a process's virtual address bitmap
    PTES,       \* page table entries per page table
    MaxPages,   \* largest pg_cnt a caller requests
    NDEBUG,     \* ASSERT compiled out
    None        \* no frame / no thread

ASSUME KThreads \cap Procs = {} /\ KThreads \cup Procs # {}
ASSUME {W, KLen, ULen, UVLen, PTES, MaxPages} \subseteq Nat \ {0}
ASSUME NDEBUG \in BOOLEAN

Threads   == KThreads \cup Procs
PF_KERNEL == "kernel"
PF_USER   == "user"

NK  == KLen * W        \* kernel pool frames
NU  == ULen * W        \* user pool frames
NKV == NK              \* kernel_vaddr uses the kernel pool's bitmap length
NUV == UVLen * W       \* pages of a user virtual space
LowFrame  == 0
KStart    == 1
UStart    == KStart + NK
Frames    == 0 .. NK + NU
StackPage == NUV - 1   \* USER_STACK3_VADDR, the topmost user page
PDE_IDX(v) == v \div PTES
DirSlots   == 0 .. (NUV - 1) \div PTES

VARIABLES
    kpool,    \* kernel_pool.pool_bitmap
    upool,    \* user_pool.pool_bitmap
    kvaddr,   \* kernel_vaddr.vaddr_bitmap, plus the bit after its buffer
    uvaddr,   \* p -> p's userprog_vaddr.vaddr_bitmap, plus the bit after it
    kpte,     \* kernel heap PTEs (tables shared by every directory)
    upte,     \* p -> user PTEs of p's directory
    upde,     \* p -> user PDEs of p's directory
    lock,     \* pool -> [holder, repeat] of kernel_pool.lock, user_pool.lock
    st,       \* thread -> its position in the operation it runs
    owned,    \* thread -> allocations returned to it and not yet freed
    halted    \* the kernel stopped in PANIC / a fatal fault

vars == <<kpool, upool, kvaddr, uvaddr, kpte, upte, upde, lock, st, owned,
          halted>>

Alloc == [pf : {PF_KERNEL, PF_USER}, start : Nat, n : Nat]
Pages(a) == a.start .. a.start + a.n - 1

Idle == [pc |-> "idle", op |-> None, n |-> 0, vstart |-> None, v |-> 0,
         left |-> 0, bit |-> None, frame |-> None, alloc |-> None]

PoolOf(t) == IF t \in KThreads THEN PF_KERNEL ELSE PF_USER

(***************************************************************************)
(* Helpers                                                                 *)
(***************************************************************************)
SetRange(b, s, n, v) == [i \in DOMAIN b |-> IF i \in s .. s + n - 1 THEN v ELSE b[i]]

\* The virtual bitmap vaddr_get/vaddr_remove use for pool flag pf.
VBits(pf, t) == IF pf = PF_KERNEL THEN kvaddr ELSE uvaddr[t]
VLen(pf)     == IF pf = PF_KERNEL THEN KLen ELSE UVLen

\* *pte_ptr(vaddr) in the directory t runs on; kernel heap tables are shared.
PTE(pf, t, v) == IF pf = PF_KERNEL THEN kpte[v] ELSE upte[t][v]

\* The physical pool malloc_page/get_a_page take: pf & PF_KERNEL ? kernel : user.
PoolBits(pf) == IF pf = PF_KERNEL THEN kpool ELSE upool
PoolLen(pf)  == IF pf = PF_KERNEL THEN KLen ELSE ULen
PoolBase(pf) == IF pf = PF_KERNEL THEN KStart ELSE UStart

\* pfree: the pool a frame belongs to, by one comparison with user_pool's start.
InUserPool(f) == f >= UStart

(***************************************************************************)
(* struct lock (sync.c): reentrant through holder_repeat_nr, blocking when *)
(* another thread holds it.                                                *)
(***************************************************************************)
LockAcquire(pool, t) ==
    /\ lock[pool].holder \in {None, t}
    /\ lock' = [lock EXCEPT ![pool] = [holder |-> t, repeat |-> @.repeat + 1]]

LockRelease(pool) ==
    lock' = [lock EXCEPT ![pool] =
                IF @.repeat > 1 THEN [@ EXCEPT !.repeat = @ - 1]
                ELSE [holder |-> None, repeat |-> 0]]

(***************************************************************************)
(* PANIC / a failed ASSERT: panic_spin never returns.                     *)
(***************************************************************************)
Panic == /\ halted' = TRUE
         /\ UNCHANGED <<kpool, upool, kvaddr, uvaddr, kpte, upte, upde, lock,
                        st, owned>>

\* An ASSERT: a halt unless compiled out.
AssertFails == ~NDEBUG

Goto(t, pc) == st' = [st EXCEPT ![t].pc = pc]

(***************************************************************************)
(* Entry points.  Kernel threads call get_kernel_pages and free what it    *)
(* returned; a process first runs start_process, whose get_a_page maps     *)
(* its level-3 stack, then calls get_user_pages and frees.  A free is      *)
(* mfree_page under the pool lock, as sys_free's large path does it.      *)
(***************************************************************************)
CallGetKernelPages(t) ==
    /\ t \in KThreads /\ st[t].pc = "idle"
    /\ \E n \in 1 .. MaxPages :
         st' = [st EXCEPT ![t] = [Idle EXCEPT !.pc = "acquire", !.op = "gkp", !.n = n]]
    /\ UNCHANGED <<kpool, upool, kvaddr, uvaddr, kpte, upte, upde, lock, owned, halted>>

CallGetUserPages(t) ==
    /\ t \in Procs /\ st[t].pc = "idle"
    /\ \E n \in 1 .. MaxPages :
         st' = [st EXCEPT ![t] = [Idle EXCEPT !.pc = "acquire", !.op = "gup", !.n = n]]
    /\ UNCHANGED <<kpool, upool, kvaddr, uvaddr, kpte, upte, upde, lock, owned, halted>>

CallStartProcess(t) ==
    /\ t \in Procs /\ st[t].pc = "new"
    /\ st' = [st EXCEPT ![t] = [Idle EXCEPT !.pc = "acquire", !.op = "stack", !.n = 1]]
    /\ UNCHANGED <<kpool, upool, kvaddr, uvaddr, kpte, upte, upde, lock, owned, halted>>

CallFree(t) ==
    /\ st[t].pc = "idle"
    /\ \E a \in owned[t] :
         st' = [st EXCEPT ![t] = [Idle EXCEPT !.pc = "acquire", !.op = "free", !.alloc = a]]
    /\ UNCHANGED <<kpool, upool, kvaddr, uvaddr, kpte, upte, upde, lock, owned, halted>>

\* lock_acquire(&mem_pool->lock): blocks while another thread holds it.
Acquire(t) ==
    /\ st[t].pc = "acquire"
    /\ LockAcquire(PoolOf(t), t)
    /\ Goto(t, CASE st[t].op \in {"gkp", "gup"} -> "vaddr_get"
                 [] st[t].op = "stack"          -> "ga_vbit"
                 [] st[t].op = "free"           -> "mfree")
    /\ UNCHANGED <<kpool, upool, kvaddr, uvaddr, kpte, upte, upde, owned, halted>>

(***************************************************************************)
(* malloc_page(pf, pg_cnt): vaddr_get, then per page palloc and           *)
(* page_table_add.                                                         *)
(***************************************************************************)
VaddrMarkFirstOnly(pf, t, r, n) ==   \* mutant: the loop sets bit_idx_start each time
    IF pf = PF_KERNEL
       THEN kvaddr' = SetRange(kvaddr, r, 1, 1) /\ UNCHANGED uvaddr
       ELSE uvaddr' = [uvaddr EXCEPT ![t] = SetRange(@, r, 1, 1)] /\ UNCHANGED kvaddr

\* The loop of vaddr_get: bitmap_set of bits bit_idx_start .. + pg_cnt - 1.
VaddrMark(pf, t, r, n) ==
    IF pf = PF_KERNEL
       THEN kvaddr' = SetRange(kvaddr, r, n, 1) /\ UNCHANGED uvaddr
       ELSE uvaddr' = [uvaddr EXCEPT ![t] = SetRange(@, r, n, 1)] /\ UNCHANGED kvaddr

\* vaddr_get: scan pf's virtual bitmap for pg_cnt pages and set them.
VaddrGet(t) ==
    LET pf == PoolOf(t)
        n  == st[t].n
        r  == BitmapScan(VBits(pf, t), VLen(pf), W, n, NDEBUG)
    IN
    /\ st[t].pc = "vaddr_get"
    /\ CASE r = AssertFailed -> Panic
         [] r = NotFound ->
              /\ st' = [st EXCEPT ![t].pc = "mp_ret", ![t].vstart = None]
              /\ UNCHANGED <<kpool, upool, kvaddr, uvaddr, kpte, upte, upde, lock, owned, halted>>
         [] pf = PF_USER /\ ~(r < StackPage) /\ AssertFails -> Panic
         [] OTHER ->
              /\ VaddrMark(pf, t, r, n)
              /\ st' = [st EXCEPT ![t].pc = "palloc_scan", ![t].vstart = r,
                                  ![t].v = r, ![t].left = n]
              /\ UNCHANGED <<kpool, upool, kpte, upte, upde, lock, owned, halted>>

\* The loop test of malloc_page and bitmap_scan(&m_pool->pool_bitmap, 1) of
\* palloc.  A NULL from palloc makes malloc_page return NULL at once; in
\* get_a_page it returns NULL with the pool lock still held.
PallocScan(t) ==
    LET pf == PoolOf(t)
        r  == BitmapScan(PoolBits(pf), PoolLen(pf), W, 1, NDEBUG)
    IN
    /\ st[t].pc = "palloc_scan"
    /\ IF st[t].left = 0
          THEN /\ Goto(t, "mp_ret")
               /\ UNCHANGED <<kpool, upool, kvaddr, uvaddr, kpte, upte, upde, lock, owned, halted>>
       ELSE CASE r = AssertFailed -> Panic
              [] r = NotFound /\ st[t].op = "stack" ->
                   /\ st' = [st EXCEPT ![t] = Idle]
                   /\ UNCHANGED <<kpool, upool, kvaddr, uvaddr, kpte, upte, upde, lock, owned, halted>>
              [] r = NotFound ->
                   /\ st' = [st EXCEPT ![t].pc = "mp_ret", ![t].vstart = None]
                   /\ UNCHANGED <<kpool, upool, kvaddr, uvaddr, kpte, upte, upde, lock, owned, halted>>
              [] OTHER ->
                   /\ st' = [st EXCEPT ![t].pc = "palloc_set", ![t].bit = r]
                   /\ UNCHANGED <<kpool, upool, kvaddr, uvaddr, kpte, upte, upde, lock, owned, halted>>

PallocSetNoMark(t) ==   \* mutant: palloc forgets bitmap_set
    LET pf == PoolOf(t)
    IN  /\ st[t].pc = "palloc_set"
        /\ st' = [st EXCEPT ![t].pc = "pt_add", ![t].frame = PoolBase(pf) + st[t].bit,
                            ![t].bit = None]
        /\ UNCHANGED <<kpool, upool, kvaddr, uvaddr, kpte, upte, upde, lock, owned, halted>>

PallocSetOffByOne(t) ==   \* mutant: page_phyaddr computed from bit_idx + 1
    LET pf == PoolOf(t)
        b  == st[t].bit
    IN  /\ st[t].pc = "palloc_set"
        /\ IF pf = PF_KERNEL THEN kpool' = BitmapSet(kpool, b, 1) /\ UNCHANGED upool
                             ELSE upool' = BitmapSet(upool, b, 1) /\ UNCHANGED kpool
        /\ st' = [st EXCEPT ![t].pc = "pt_add", ![t].frame = PoolBase(pf) + b + 1,
                            ![t].bit = None]
        /\ UNCHANGED <<kvaddr, uvaddr, kpte, upte, upde, lock, owned, halted>>

\* bitmap_set(&m_pool->pool_bitmap, bit_idx, 1) and the frame palloc returns.
PallocSet(t) ==
    LET pf == PoolOf(t)
        b  == st[t].bit
    IN
    /\ st[t].pc = "palloc_set"
    /\ IF pf = PF_KERNEL THEN kpool' = BitmapSet(kpool, b, 1) /\ UNCHANGED upool
                         ELSE upool' = BitmapSet(upool, b, 1) /\ UNCHANGED kpool
    /\ st' = [st EXCEPT ![t].pc = "pt_add", ![t].frame = PoolBase(pf) + b,
                        ![t].bit = None]
    /\ UNCHANGED <<kvaddr, uvaddr, kpte, upte, upde, lock, owned, halted>>

MappedOneSkip(t) ==   \* mutant: the page counter is decremented twice
    IF st[t].op = "stack"
       THEN st' = [st EXCEPT ![t].pc = "ga_ret", ![t].frame = None]
       ELSE st' = [st EXCEPT ![t].pc = "palloc_scan", ![t].frame = None,
                             ![t].v = @ + 1, ![t].left = IF @ > 1 THEN @ - 2 ELSE 0]

\* After page_table_add: the next page of malloc_page, or get_a_page's return.
MappedOne(t) ==
    IF st[t].op = "stack"
       THEN st' = [st EXCEPT ![t].pc = "ga_ret", ![t].frame = None]
       ELSE st' = [st EXCEPT ![t].pc = "palloc_scan", ![t].frame = None,
                             ![t].v = @ + 1, ![t].left = @ - 1]

\* page_table_add(vaddr, page_phyaddr), PDE present: the PTE must be absent
\* (ASSERT, then PANIC("pte repeat") in either build) and gets the frame.
\* Kernel heap PDEs were all created at boot.  An absent user PDE leads to
\* PdeScan.
PageTableAdd(t) ==
    LET pf == PoolOf(t)
        v  == st[t].v
    IN
    /\ st[t].pc = "pt_add"
    /\ IF pf = PF_USER /\ upde[t][PDE_IDX(v)] = None
          THEN /\ Goto(t, "pde_scan")
               /\ UNCHANGED <<kpool, upool, kvaddr, uvaddr, kpte, upte, upde, lock, owned, halted>>
       ELSE IF PTE(pf, t, v) # None THEN Panic
       ELSE /\ IF pf = PF_KERNEL
                  THEN kpte' = [kpte EXCEPT ![v] = st[t].frame] /\ UNCHANGED upte
                  ELSE upte' = [upte EXCEPT ![t][v] = st[t].frame] /\ UNCHANGED kpte
            /\ MappedOne(t)
            /\ UNCHANGED <<kpool, upool, kvaddr, uvaddr, upde, lock, owned, halted>>

\* page_table_add, PDE absent: palloc(&kernel_pool) for the page table --
\* the scan, made without kernel_pool.lock (the caller holds user_pool.lock).
PdeScan(t) ==
    LET r == BitmapScan(kpool, KLen, W, 1, NDEBUG)
    IN
    /\ st[t].pc = "pde_scan"
    /\ IF r = AssertFailed THEN Panic
       ELSE /\ st' = [st EXCEPT ![t].pc = "pde_set",
                                ![t].bit = IF r = NotFound THEN None ELSE r]
            /\ UNCHANGED <<kpool, upool, kvaddr, uvaddr, kpte, upte, upde, lock, owned, halted>>

PdeSetNoMark(t) ==   \* mutant: the page-table frame's bit is never set
    LET v  == st[t].v
        b  == st[t].bit
    IN  /\ st[t].pc = "pde_set"
        /\ upde' = [upde EXCEPT ![t][PDE_IDX(v)] = IF b = None THEN LowFrame ELSE KStart + b]
        /\ upte' = [upte EXCEPT ![t][v] = st[t].frame]
        /\ MappedOne(t)
        /\ UNCHANGED <<kpool, upool, kvaddr, uvaddr, kpte, lock, owned, halted>>

\* The rest of that palloc, then *pde = pde_phyaddr | US | RW | P (a NULL
\* from palloc installs frame 0), memset of the new table, the ASSERT that
\* the PTE is absent, and *pte = page_phyaddr | US | RW | P.
PdeSet(t) ==
    LET v  == st[t].v
        b  == st[t].bit
    IN
    /\ st[t].pc = "pde_set"
    /\ IF b = None THEN UNCHANGED kpool ELSE kpool' = BitmapSet(kpool, b, 1)
    /\ upde' = [upde EXCEPT ![t][PDE_IDX(v)] = IF b = None THEN LowFrame ELSE KStart + b]
    /\ upte' = [upte EXCEPT ![t][v] = st[t].frame]
    /\ MappedOne(t)
    /\ UNCHANGED <<upool, kvaddr, uvaddr, kpte, lock, owned, halted>>

MallocPageReturnKeepLock(t) ==   \* mutant: the NULL return skips lock_release
    LET a == [pf |-> PoolOf(t), start |-> st[t].vstart, n |-> st[t].n]
    IN  /\ st[t].pc = "mp_ret"
        /\ IF st[t].op = "gup" /\ st[t].vstart = None THEN Panic
           ELSE /\ IF st[t].vstart = None THEN UNCHANGED lock ELSE LockRelease(PoolOf(t))
                /\ owned' = IF st[t].vstart = None THEN owned
                            ELSE [owned EXCEPT ![t] = @ \cup {a}]
                /\ st' = [st EXCEPT ![t] = Idle]
                /\ UNCHANGED <<kpool, upool, kvaddr, uvaddr, kpte, upte, upde, halted>>

\* End of get_kernel_pages / get_user_pages: memset of the returned pages
\* (get_user_pages does it even when malloc_page returned NULL, which
\* faults on the unmapped page 0), lock_release, return.
MallocPageReturn(t) ==
    LET a == [pf |-> PoolOf(t), start |-> st[t].vstart, n |-> st[t].n]
    IN
    /\ st[t].pc = "mp_ret"
    /\ IF st[t].op = "gup" /\ st[t].vstart = None THEN Panic
       ELSE /\ LockRelease(PoolOf(t))
            /\ owned' = IF st[t].vstart = None THEN owned
                        ELSE [owned EXCEPT ![t] = @ \cup {a}]
            /\ st' = [st EXCEPT ![t] = Idle]
            /\ UNCHANGED <<kpool, upool, kvaddr, uvaddr, kpte, upte, upde, halted>>

(***************************************************************************)
(* get_a_page(PF_USER, USER_STACK3_VADDR) from start_process.             *)
(***************************************************************************)
\* A process asking for user memory: set its own virtual bit for vaddr.
GetAPageVbit(t) ==
    /\ st[t].pc = "ga_vbit"
    /\ uvaddr' = [uvaddr EXCEPT ![t] = BitmapSet(@, StackPage, 1)]
    /\ st' = [st EXCEPT ![t].pc = "palloc_scan", ![t].vstart = StackPage,
                        ![t].v = StackPage, ![t].left = 1]
    /\ UNCHANGED <<kpool, upool, kvaddr, kpte, upte, upde, lock, owned, halted>>

GetAPageReturnKeepLock(t) ==   \* mutant: lock_release dropped
    /\ st[t].pc = "ga_ret"
    /\ st' = [st EXCEPT ![t] = Idle]
    /\ UNCHANGED <<kpool, upool, kvaddr, uvaddr, kpte, upte, upde, lock, owned, halted>>

\* get_a_page after page_table_add: lock_release, return vaddr.
GetAPageReturn(t) ==
    /\ st[t].pc = "ga_ret"
    /\ LockRelease(PF_USER)
    /\ st' = [st EXCEPT ![t] = Idle]
    /\ UNCHANGED <<kpool, upool, kvaddr, uvaddr, kpte, upte, upde, owned, halted>>

(***************************************************************************)
(* mfree_page(pf, vaddr, pg_cnt) under the pool lock, then lock_release.   *)
(***************************************************************************)
PfreeWrongBase(frames) ==   \* mutant: user bit index taken from the kernel base
    /\ kpool' = [i \in DOMAIN kpool |->
                   IF KStart + i \in frames /\ ~InUserPool(KStart + i) THEN 0 ELSE kpool[i]]
    /\ upool' = [i \in DOMAIN upool |->
                   IF \E f \in frames : InUserPool(f) /\ f - KStart = i THEN 0 ELSE upool[i]]

\* pfree for each frame: the pool is chosen by comparing the frame with
\* user_pool.phy_addr_start, and the frame's bit is cleared.
Pfree(frames) ==
    /\ kpool' = [i \in DOMAIN kpool |->
                   IF KStart + i \in frames /\ ~InUserPool(KStart + i) THEN 0 ELSE kpool[i]]
    /\ upool' = [i \in DOMAIN upool |->
                   IF UStart + i \in frames /\ InUserPool(UStart + i) THEN 0 ELSE upool[i]]

\* page_table_pte_remove for each page (P bit cleared, TLB entry flushed).
PageTablePteRemove(pf, t, pages) ==
    IF pf = PF_KERNEL
       THEN /\ kpte' = [v \in DOMAIN kpte |-> IF v \in pages THEN None ELSE kpte[v]]
            /\ UNCHANGED upte
       ELSE /\ upte' = [upte EXCEPT ![t] = [v \in DOMAIN @ |->
                          IF v \in pages THEN None ELSE @[v]]]
            /\ UNCHANGED kpte

VaddrRemoveShort(pf, t, start, n) ==   \* mutant: clears one bit too few
    IF pf = PF_KERNEL
       THEN kvaddr' = SetRange(kvaddr, start, n - 1, 0) /\ UNCHANGED uvaddr
       ELSE uvaddr' = [uvaddr EXCEPT ![t] = SetRange(@, start, n - 1, 0)]
            /\ UNCHANGED kvaddr

\* vaddr_remove: clear pg_cnt bits of pf's virtual bitmap from vaddr.
VaddrRemove(pf, t, start, n) ==
    IF pf = PF_KERNEL
       THEN kvaddr' = SetRange(kvaddr, start, n, 0) /\ UNCHANGED uvaddr
       ELSE uvaddr' = [uvaddr EXCEPT ![t] = SetRange(@, start, n, 0)]
            /\ UNCHANGED kvaddr

\* mfree_page: addr_v2p of the first page picks the user or the kernel
\* branch; each branch ASSERTs every frame lies in its pool, pfrees it and
\* removes its PTE, then vaddr_remove.  sys_free then releases the lock.
MfreePage(t) ==
    LET a      == st[t].alloc
        frames == {PTE(a.pf, t, v) : v \in Pages(a)}
        user   == InUserPool(PTE(a.pf, t, a.start))
        inPool(f) == IF user THEN f >= UStart ELSE f >= KStart /\ f < UStart
    IN
    /\ st[t].pc = "mfree"
    /\ IF \E f \in frames : ~inPool(f) /\ AssertFails THEN Panic
       ELSE
       /\ Pfree(frames)
       /\ PageTablePteRemove(a.pf, t, Pages(a))
       /\ VaddrRemove(a.pf, t, a.start, a.n)
       /\ LockRelease(a.pf)
       /\ owned' = [owned EXCEPT ![t] = @ \ {a}]
       /\ st' = [st EXCEPT ![t] = Idle]
       /\ UNCHANGED <<upde, halted>>

(***************************************************************************)
(* Specification                                                           *)
(***************************************************************************)
Init ==
    /\ kpool  = [i \in 0 .. NK - 1 |-> 0]
    /\ upool  = [i \in 0 .. NU - 1 |-> 0]
    /\ kvaddr \in {[i \in 0 .. NKV |-> IF i < NKV THEN 0 ELSE x] : x \in {0, 1}}
    /\ uvaddr = [p \in Procs |-> [i \in 0 .. NUV |-> 0]]
    /\ kpte   = [v \in 0 .. NKV |-> None]
    /\ upte   = [p \in Procs |-> [v \in 0 .. NUV - 1 |-> None]]
    /\ upde   = [p \in Procs |-> [d \in DirSlots |-> None]]
    /\ lock   = [pf \in {PF_KERNEL, PF_USER} |-> [holder |-> None, repeat |-> 0]]
    /\ st     = [t \in Threads |-> IF t \in Procs THEN [Idle EXCEPT !.pc = "new"] ELSE Idle]
    /\ owned  = [t \in Threads |-> {}]
    /\ halted = FALSE

\* Everything a thread does once it has entered an operation.
Busy(t) ==
    \/ Acquire(t) \/ VaddrGet(t) \/ PallocScan(t) \/ PallocSet(t)
    \/ PageTableAdd(t) \/ PdeScan(t) \/ PdeSet(t) \/ MallocPageReturn(t)
    \/ GetAPageVbit(t) \/ GetAPageReturn(t) \/ MfreePage(t)

Call(t) ==
    \/ CallGetKernelPages(t) \/ CallGetUserPages(t) \/ CallStartProcess(t)
    \/ CallFree(t)

\* panic_spin: the halted kernel spins forever.
Halt == halted /\ UNCHANGED vars

Next == \/ ~halted /\ \E t \in Threads : Call(t) \/ Busy(t)
        \/ Halt

\* The timer preempts every thread and the round-robin scheduler runs
\* every ready one, so a thread inside an operation keeps taking steps.
Fairness == \A t \in Threads : WF_vars(~halted /\ Busy(t))

Spec == Init /\ [][Next]_vars /\ Fairness

(***************************************************************************)
(* Properties                                                              *)
(***************************************************************************)
PCs == {"new", "idle", "acquire", "vaddr_get", "palloc_scan", "palloc_set",
        "pt_add", "pde_scan", "pde_set", "mp_ret", "ga_vbit", "ga_ret", "mfree"}

TypeOK ==
    /\ kpool \in [0 .. NK - 1 -> {0, 1}]
    /\ upool \in [0 .. NU - 1 -> {0, 1}]
    /\ kvaddr \in [0 .. NKV -> {0, 1}]
    /\ uvaddr \in [Procs -> [0 .. NUV -> {0, 1}]]
    /\ kpte \in [0 .. NKV -> Frames \cup {None}]
    /\ upte \in [Procs -> [0 .. NUV - 1 -> Frames \cup {None}]]
    /\ upde \in [Procs -> [DirSlots -> Frames \cup {None}]]
    /\ lock \in [{PF_KERNEL, PF_USER} -> [holder : Threads \cup {None}, repeat : Nat]]
    /\ \A t \in Threads : st[t].pc \in PCs /\ st[t].frame \in Frames \cup {None}
    /\ owned \in [Threads -> SUBSET Alloc]
    /\ halted \in BOOLEAN

\* The number of places that hold frame f: kernel and user PTEs, user PDEs,
\* and a thread between palloc and page_table_add.
UseCount(f) ==
    Cardinality({v \in DOMAIN kpte : kpte[v] = f})
    + MapThenSumSet(LAMBDA p : Cardinality({v \in DOMAIN upte[p] : upte[p][v] = f})
                               + Cardinality({d \in DirSlots : upde[p][d] = f}), Procs)
    + Cardinality({t \in Threads : st[t].frame = f})

\* Virtual pages of space pf (PF_USER: of process p) that some thread has
\* reserved: the allocations handed out and not freed, the range of a
\* malloc_page in progress, and a started process's stack page.
InProgress(t) ==
    st[t].pc \in {"palloc_scan", "palloc_set", "pt_add", "pde_scan", "pde_set", "mp_ret"}
    /\ st[t].vstart # None /\ st[t].op \in {"gkp", "gup"}
LiveAllocs(pf, p) ==
    LET holders == IF pf = PF_KERNEL THEN KThreads ELSE {p}
    IN  UNION {owned[t] : t \in holders}
        \cup {[pf |-> pf, start |-> st[t].vstart, n |-> st[t].n] :
                 t \in {u \in holders : InProgress(u)}}
StackReserved(p) == st[p].pc # "new" /\ ~(st[p].op = "stack" /\ st[p].pc \in {"acquire", "ga_vbit"})
LivePages(pf, p) ==
    UNION {Pages(a) : a \in LiveAllocs(pf, p)}
    \cup (IF pf = PF_USER /\ StackReserved(p) THEN {StackPage} ELSE {})

\* No physical frame is ever in two places: two mappings of the same frame
\* (or a frame mapped while a thread is installing it elsewhere) let one
\* owner's writes land in another's page or page table.
FramesExclusive == \A f \in Frames : UseCount(f) <= 1

\* Each pool bitmap says exactly which of its frames are in use: a set bit
\* for every frame mapped or being installed, a clear bit for every other.
\* This is what pfree's single-comparison pool choice and the palloc /
\* page_table_add / mfree_page sequence must preserve.
PoolBitsMatchUse ==
    /\ \A i \in DOMAIN kpool : kpool[i] = 1 <=> UseCount(KStart + i) > 0
    /\ \A i \in DOMAIN upool : upool[i] = 1 <=> UseCount(UStart + i) > 0

\* Every set virtual-address bit and every present PTE belongs to an
\* allocation some thread holds or is building (or a stack page), and
\* every reserved page's bit is set: no address range is leaked and none
\* is mapped behind the bitmap's back.
VirtualPagesAccounted ==
    /\ \A v \in 0 .. NKV - 1 :
          (kvaddr[v] = 1 \/ kpte[v] # None) <=> v \in LivePages(PF_KERNEL, None)
    /\ \A p \in Procs : \A v \in 0 .. NUV - 1 :
          (uvaddr[p][v] = 1 \/ upte[p][v] # None) <=> v \in LivePages(PF_USER, p)

OwnedFullyMapped ==
    \A t \in Threads : \A a \in owned[t] : \A v \in Pages(a) : PTE(a.pf, t, v) # None

\* Every page table a process's directory points to is a frame of the
\* kernel pool (spec 4.4: page tables come from the kernel pool).  When
\* page_table_add's palloc(&kernel_pool) returns NULL, *pde gets physical
\* address 0 and memset clears the low page as if it were a new table.
PageTablesFromKernelPool ==
    \A p \in Procs : \A d \in DirSlots :
        upde[p][d] \in {None} \cup (KStart .. UStart - 1)

\* A pool lock that is taken is eventually given back (or the kernel has
\* halted): no path through get_kernel_pages, get_user_pages, get_a_page or
\* the free path returns with the lock held.
LockEventuallyReleased ==
    \A pf \in {PF_KERNEL, PF_USER} :
        lock[pf].holder # None ~> (lock[pf].holder = None \/ halted)

(***************************************************************************)
(* Refinement: PageAlloc implements PageSpace.  A virtual space is the set *)
(* of its bitmap's bits that are set (the bit after the buffer is not a   *)
(* page), a pool the set of its bits that are set, and the ranges handed  *)
(* out are `owned`.  vaddr_get is Reserve, palloc's bitmap_set (also the  *)
(* page table's, in page_table_add) is TakeFrame, get_a_page's bit is     *)
(* ReserveStack, the return of get_kernel_pages / get_user_pages is Hand, *)
(* mfree_page is Release and a panic is Crash; every other step leaves    *)
(* the abstract state alone.                                              *)
(***************************************************************************)
SetBits(b, len) == {i \in 0 .. len - 1 : b[i] = 1}

AbsVused == [s \in {"kernel_space"} \cup Procs |->
                IF s = "kernel_space" THEN SetBits(kvaddr, NKV) ELSE SetBits(uvaddr[s], NUV)]
AbsFused == [pf \in {PF_KERNEL, PF_USER} |->
                IF pf = PF_KERNEL THEN SetBits(kpool, NK) ELSE SetBits(upool, NU)]

PS == INSTANCE PageSpace WITH vused <- AbsVused, fused <- AbsFused, held <- owned

\* Every behaviour of the threads' interleaved steps is one of PageSpace:
\* vaddr_get reserves the first fit of its space, palloc takes the lowest
\* free frame, a caller is handed only reserved pages nobody else holds,
\* and mfree_page gives back exactly a held range and as many frames.
RefinesPageSpace == PS!Spec

=============================================================================
