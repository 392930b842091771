------------------------------- MODULE Sched -------------------------------
(***************************************************************************)
(* Threads and the round-robin scheduler of src/thread/thread.c, driven   *)
(* by intr_timer_handler (src/device/timer.c), with the page directory   *)
(* switch of process_activate and the kernel memory a thread or process  *)
(* is built from (src/userprog/process.c, get_kernel_pages).             *)
(*                                                                         *)
(* Every operation here runs with interrupts disabled (schedule asserts   *)
(* INTR_OFF; thread_block, thread_unblock, thread_yield, thread_exit and *)
(* process_execute call intr_disable), or only touches the ready and all  *)
(* lists through list operations and the kernel pool under its lock, so   *)
(* each is one step.  A thread is an element of Threads; its PCB fields   *)
(* are functions of the thread.                                           *)
(*                                                                         *)
(* Kernel memory is counted, not placed: in this model only thread        *)
(* creation and start_process take kernel pages and frames, nothing gives *)
(* them back while the kernel runs (thread_exit of any thread but main    *)
(* faults, see ThreadExit), so the free kernel pages stay one contiguous  *)
(* run and vaddr_get finds n pages exactly when n are free.  PageAlloc    *)
(* models where the pages are.                                            *)
(*                                                                         *)
(* The bodies of main, init and of the threads started later are not     *)
(* under src/: the running kernel thread (other than idle), or a process  *)
(* once in user mode, may make any call of the thread API.  idle runs    *)
(* its own loop, and a new process runs start_process.                    *)
(***************************************************************************)
EXTENDS Integers, Sequences, SequencesExt, Bitmap

CONSTANTS
    Main,       \* main_thread: the boot context, a kernel thread
    Idle,       \* idle_thread
    InitProc,   \* the user process "init" that thread_init executes
    KThreads,   \* kernel threads a kernel thread may start (thread_start)
    Procs,      \* processes a kernel thread may start (process_execute)
    Prio,       \* thread -> priority, the length of its time slice
    W,          \* bits per byte of pid_pool.pid_bitmap
    PidLen,     \* bytes of pid_pool.pid_bitmap (128 in the code)
    NDEBUG,     \* ASSERT compiled out
    None,       \* a PCB not yet allocated
    BitmapPages,\* pages of a process's vaddr bitmap (23 in the code)
    KFreeInit   \* possible numbers of free kernel pages after thread_init

Threads     == {Main, Idle, InitProc} \cup KThreads \cup Procs
UserThreads == {InitProc} \cup Procs          \* pgdir # NULL
KernelDir   == "kernel_dir"                   \* physical 0x100000
BlockStates == {"BLOCKED", "WAITING", "HANGING"}
Statuses    == {"RUNNING", "READY", "DIED"} \cup BlockStates
\* Where a PCB, a vaddr bitmap or a page directory is: a kernel heap page
\* of its own, the NULL an unchecked get_kernel_pages returned, main's
\* PCB below the boot stack, or no page directory (pgdir == NULL).
Heap == "heap"
Null == "null"
Boot == "boot"
NoDir == "none"
Stop == "stop"   \* an ASSERT of bitmap_scan halted the kernel

ASSUME Prio \in [Threads -> Nat \ {0}] /\ W \in Nat \ {0} /\ PidLen \in Nat \ {0}
ASSUME NDEBUG \in BOOLEAN
ASSUME BitmapPages \in Nat \ {0} /\ KFreeInit \subseteq Nat

VARIABLES
    status,   \* t -> pthread->status, or None before t's PCB exists
    ticks,    \* t -> pthread->ticks
    ready,    \* thread_ready_list, head first
    all,      \* thread_all_list
    cur,      \* running_thread()
    pid,      \* t -> pthread->pid
    pidbits,  \* pid_pool.pid_bitmap, plus the bit after its buffer
    cr3,      \* the page directory the CPU translates with
    idleAt,   \* where idle() is: about to thread_block, or at hlt
    halted,   \* PANIC, a failed ASSERT, or a fault
    kvfree,   \* free pages of kernel_vaddr
    kffree,   \* free frames of kernel_pool
    pcb,      \* t -> where t's task_struct is (None before it exists)
    vbm,      \* p -> where p's userprog_vaddr bitmap is
    pgdir,    \* t -> pthread->pgdir
    started   \* processes that have left start_process for user mode

memVars == <<kvfree, kffree, pcb, vbm, pgdir, started>>
vars == <<status, ticks, ready, all, cur, pid, pidbits, cr3, idleAt, halted,
          kvfree, kffree, pcb, vbm, pgdir, started>>

Panic == /\ halted' = TRUE
         /\ UNCHANGED <<status, ticks, ready, all, cur, pid, pidbits, cr3, idleAt>>
         /\ UNCHANGED memVars

\* page_dir_activate: the directory pgdir names, else the kernel's.
PageDir(t) == IF pgdir[t] = Heap THEN t ELSE KernelDir

\* The running thread makes a call of the thread API: a kernel thread, or
\* a process once start_process has taken it to user mode.
CanCall == cur # Idle /\ (cur \in UserThreads => cur \in started)

(***************************************************************************)
(* schedule(), entered with the running thread's status already set to   *)
(* st0 by its caller and with ready queue rq0.  A thread still RUNNING    *)
(* was preempted: it goes to the tail with a fresh slice.  An empty queue *)
(* wakes idle_thread through thread_unblock.  The head is popped, made    *)
(* RUNNING, and process_activate loads its page directory.                *)
(***************************************************************************)
\* Mutant: the preempted thread is pushed at the head, not the tail.
SchedulePreemptFront(st0, tk0, rq0) ==
    LET preempt == st0[cur] = "RUNNING"
        st1  == IF preempt THEN [st0 EXCEPT ![cur] = "READY"] ELSE st0
        rq1  == IF preempt THEN <<cur>> \o rq0 ELSE rq0
        st2  == IF rq1 = <<>> THEN [st1 EXCEPT ![Idle] = "READY"] ELSE st1
        rq2  == IF rq1 = <<>> THEN <<Idle>> ELSE rq1
    IN  /\ status' = [st2 EXCEPT ![Head(rq2)] = "RUNNING"]
        /\ ticks'  = IF preempt THEN [tk0 EXCEPT ![cur] = Prio[cur]] ELSE tk0
        /\ ready'  = Tail(rq2)
        /\ cur'    = Head(rq2)
        /\ cr3'    = PageDir(Head(rq2))
        /\ UNCHANGED halted

Schedule(st0, tk0, rq0) ==
    LET preempt == st0[cur] = "RUNNING"
        st1  == IF preempt THEN [st0 EXCEPT ![cur] = "READY"] ELSE st0
        tk1  == IF preempt THEN [tk0 EXCEPT ![cur] = Prio[cur]] ELSE tk0
        rq1  == IF preempt THEN Append(rq0, cur) ELSE rq0
        wake == rq1 = <<>> /\ st1[Idle] # "READY"
        st2  == IF wake THEN [st1 EXCEPT ![Idle] = "READY"] ELSE st1
        rq2  == IF wake THEN <<Idle>> ELSE rq1
        asserts == /\ preempt => ~Contains(rq0, cur)
                   /\ rq1 = <<>> => st1[Idle] \in BlockStates
                   /\ rq2 # <<>>
        next == Head(rq2)
    IN  IF (asserts \/ NDEBUG) /\ rq2 # <<>>
        THEN /\ status' = [st2 EXCEPT ![next] = "RUNNING"]
             /\ ticks'  = tk1
             /\ ready'  = Tail(rq2)
             /\ cur'    = next
             /\ cr3'    = PageDir(next)
             /\ UNCHANGED halted
        ELSE /\ halted' = TRUE
             /\ UNCHANGED <<status, ticks, ready, cur, cr3>>

\* Mutant: the handler decrements the slice without testing it for 0.
TimerTickNoZeroCheck ==
    /\ ~halted
    /\ UNCHANGED memVars
    /\ idleAt' = IF cur = Idle THEN "block" ELSE idleAt
    /\ ticks' = [ticks EXCEPT ![cur] = @ - 1]
    /\ UNCHANGED <<status, ready, cur, cr3, halted, all, pid, pidbits>>

\* intr_timer_handler: a slice used up is rescheduled, else one tick less.
\* An interrupt ends idle's hlt, so idle next loops back to thread_block.
TimerTick ==
    /\ ~halted
    /\ UNCHANGED memVars
    /\ idleAt' = IF cur = Idle THEN "block" ELSE idleAt
    /\ IF ticks[cur] = 0
       THEN Schedule(status, ticks, ready)
       ELSE /\ ticks' = [ticks EXCEPT ![cur] = @ - 1]
            /\ UNCHANGED <<status, ready, cur, cr3, halted>>
    /\ UNCHANGED <<all, pid, pidbits>>

\* thread_block(stat) by the running thread.
ThreadBlock(stat) ==
    /\ ~halted /\ CanCall
    /\ UNCHANGED memVars
    /\ Schedule([status EXCEPT ![cur] = stat], ticks, ready)
    /\ UNCHANGED <<all, pid, pidbits, idleAt>>

\* idle(): thread_block(TASK_BLOCKED), then hlt once it is woken.
IdleBlock ==
    /\ ~halted /\ cur = Idle /\ idleAt = "block"
    /\ UNCHANGED memVars
    /\ idleAt' = "hlt"
    /\ Schedule([status EXCEPT ![Idle] = "BLOCKED"], ticks, ready)
    /\ UNCHANGED <<all, pid, pidbits>>

\* Mutant: thread_unblock queues t but leaves its status blocked.
ThreadUnblockNoStatus(t) ==
    /\ ~halted /\ CanCall
    /\ UNCHANGED memVars
    /\ status[t] \in BlockStates
    /\ IF Contains(ready, t)
       THEN Panic
       ELSE /\ ready' = <<t>> \o ready
            /\ UNCHANGED <<status, ticks, all, cur, pid, pidbits, cr3, idleAt, halted>>

\* thread_unblock(t) of a thread its caller saw block: to the queue head.
ThreadUnblock(t) ==
    /\ ~halted /\ CanCall
    /\ UNCHANGED memVars
    /\ status[t] \in BlockStates
    /\ IF Contains(ready, t)
       THEN Panic
       ELSE /\ ready'  = <<t>> \o ready
            /\ status' = [status EXCEPT ![t] = "READY"]
            /\ UNCHANGED <<ticks, all, cur, pid, pidbits, cr3, idleAt, halted>>

\* thread_yield: the running thread goes to the tail, then schedule.
ThreadYield ==
    /\ ~halted /\ CanCall
    /\ UNCHANGED memVars
    /\ IF Contains(ready, cur) /\ ~NDEBUG
       THEN Panic
       ELSE /\ Schedule([status EXCEPT ![cur] = "READY"], ticks,
                        Append(ready, cur))
            /\ UNCHANGED <<all, pid, pidbits, idleAt>>

(***************************************************************************)
(* allocate_pid: bitmap_scan(&pid_bitmap, 1), bitmap_set, bit + 1.  Its   *)
(* result is not checked: with the bitmap full, bitmap_scan's ASSERT      *)
(* halts, or (NDEBUG) it returns -1, and bitmap_set writes bit 0xffffffff, *)
(* byte 0x1fffffff past the 128-byte array.  That write may fault or      *)
(* land in other memory; the pid is then 0.                               *)
(***************************************************************************)
\* Mutant: allocate_pid does not set the bit it found.
PidOutcomesNoSet ==
    LET idx == BitmapScan(pidbits, PidLen, W, 1, NDEBUG)
    IN  IF idx < 0 THEN {[ok |-> FALSE]}
        ELSE {[ok |-> TRUE, pid |-> idx + 1, bits |-> pidbits]}

PidOutcomes ==
    LET idx == BitmapScan(pidbits, PidLen, W, 1, NDEBUG)
    IN  CASE idx = AssertFailed -> {[ok |-> FALSE]}
          [] idx = NotFound     -> {[ok |-> FALSE],
                                    [ok |-> TRUE, pid |-> 0, bits |-> pidbits]}
          [] OTHER -> {[ok |-> TRUE, pid |-> idx + 1,
                        bits |-> BitmapSet(pidbits, idx, 1)]}

(***************************************************************************)
(* get_kernel_pages(n) under kernel_pool.lock: vaddr_get takes n pages or *)
(* fails with nothing taken; then palloc takes frames one by one and      *)
(* malloc_page returns NULL at the first that fails, keeping the pages    *)
(* and frames it took.  In the debug build bitmap_scan ASSERTs that the   *)
(* bitmap has a free bit before it looks for cnt of them: a scan of a     *)
(* full pool (no vaddr left, or palloc's single frame) halts the kernel   *)
(* (Stop), and only a request of n > 1 pages finding too few returns      *)
(* NULL.  Under NDEBUG every failure returns NULL.  The result is where   *)
(* the memory is and what is left free.                                   *)
(***************************************************************************)
GetKernelPages(n, kv, kf) ==
    IF ~NDEBUG /\ (kv = 0 \/ (kv >= n /\ kf < n))
    THEN [at |-> Stop, kv |-> kv, kf |-> kf]
    ELSE [at |-> IF kv >= n /\ kf >= n THEN Heap ELSE Null,
          kv |-> IF kv >= n THEN kv - n ELSE kv,
          kf |-> IF kv < n THEN kf ELSE IF kf >= n THEN kf - n ELSE 0]

\* elem_find(&thread_all_list, &thread->all_list_tag) before list_append:
\* a tag lives in the PCB, so a new PCB at NULL finds the tag of a thread
\* already built at NULL (the all list holds every thread, so the test on
\* the ready list finds nothing more).
ElemFound(at) == at = Null /\ \E u \in Range(all) : pcb[u] = Null

\* list_append(&thread_ready_list, ...), list_append(&thread_all_list, ...).
ListAppend(t) == ready' = Append(ready, t) /\ all' = Append(all, t)

(***************************************************************************)
(* thread_start(k) (k a kernel thread) and process_execute(p), called by  *)
(* a kernel thread.  Neither tests get_kernel_pages for NULL:             *)
(*  - the PCB: init_thread's memset writes at NULL;                       *)
(*  - a process's vaddr bitmap (create_user_vaddr_bitmap): bitmap_init's  *)
(*    memset writes BitmapPages pages at NULL;                            *)
(*  - a process's directory: create_page_dir returns NULL, pgdir is NULL. *)
(* Whether a write at NULL faults depends on the loader's page 0 mapping, *)
(* not under src/: both outcomes are taken.  In the debug build only the  *)
(* bitmap's request, of BitmapPages > 1 pages, can return NULL; a request *)
(* of one page on a full pool halts in bitmap_scan's ASSERT.  Then        *)
(* allocate_pid, the ASSERTs and the two list_append: t is READY at both  *)
(* list tails.                                                            *)
(***************************************************************************)
Spawn(t) ==
    LET user == t \in Procs
        g1 == GetKernelPages(1, kvfree, kffree)              \* the PCB
        g2 == GetKernelPages(BitmapPages, g1.kv, g1.kf)      \* vaddr bitmap
        g3 == GetKernelPages(1, g2.kv, g2.kf)                \* page directory
        gl == IF user THEN g3 ELSE g1
        atNull == g1.at = Null \/ (user /\ g2.at = Null)
        stops  == g1.at = Stop \/ (user /\ Stop \in {g2.at, g3.at})
    IN
    /\ ~halted /\ cur # Idle /\ cur \notin UserThreads
    /\ status[t] = None
    /\ \E survives \in BOOLEAN, r \in PidOutcomes :
          IF stops \/ (atNull /\ ~survives) \/ ~r.ok \/ (ElemFound(g1.at) /\ ~NDEBUG)
          THEN Panic
          ELSE /\ pid'     = [pid EXCEPT ![t] = r.pid]
               /\ pidbits' = r.bits
               /\ status'  = [status EXCEPT ![t] = "READY"]
               /\ ticks'   = [ticks EXCEPT ![t] = Prio[t]]
               /\ ListAppend(t)
               /\ kvfree'  = gl.kv
               /\ kffree'  = gl.kf
               /\ pcb'     = [pcb EXCEPT ![t] = g1.at]
               /\ vbm'     = IF user THEN [vbm EXCEPT ![t] = g2.at] ELSE vbm
               /\ pgdir'   = IF user /\ g3.at = Heap THEN [pgdir EXCEPT ![t] = Heap]
                             ELSE pgdir
               /\ UNCHANGED <<cur, cr3, idleAt, halted, started>>

ThreadStart(k)    == k \in KThreads /\ Spawn(k)
ProcessExecute(p) == p \in Procs /\ Spawn(p)

(***************************************************************************)
(* A new process's first run: switch_to pops its context from the PCB,   *)
(* then start_process calls get_a_page(PF_USER, USER_STACK3_VADDR) under  *)
(* user_pool.lock and jumps to user mode through intr_exit.              *)
(*  - A PCB at NULL: its kernel stack is page 0, unmapped in a process's  *)
(*    directory (create_page_dir copies only the kernel PDEs): a fault.  *)
(*  - pgdir NULL: get_a_page's test cur->pgdir != NULL fails and it       *)
(*    PANICs ("not allow kernel alloc userspace").                        *)
(*  - A vaddr bitmap at NULL: bitmap_set writes near NULL in the          *)
(*    process's directory: a fault.                                       *)
(* Otherwise the stack page is mapped, and page_table_add takes a kernel  *)
(* frame for the new page table (palloc without the kernel lock): with no *)
(* frame left the debug build's bitmap_scan halts, and under NDEBUG the   *)
(* NULL installs frame 0, which PageAlloc models.  The user frame is      *)
(* PageAlloc's.                                                           *)
(***************************************************************************)
ProcessStart(p) ==
    /\ ~halted /\ cur = p /\ p \in UserThreads /\ p \notin started
    /\ IF \/ pcb[p] = Null \/ pgdir[p] = NoDir \/ vbm[p] = Null
          \/ kffree = 0 /\ ~NDEBUG
       THEN Panic
       ELSE /\ started' = started \cup {p}
            /\ kffree' = IF kffree > 0 THEN kffree - 1 ELSE 0
            /\ UNCHANGED <<status, ticks, ready, all, cur, pid, pidbits, cr3,
                           idleAt, halted, kvfree, pcb, vbm, pgdir>>

\* release_pid: clear bit pid - pid_start of the pid bitmap.
ReleasePid(p) == BitmapSet(pidbits, p - 1, 0)

(***************************************************************************)
(* thread_exit(t, need_schedule), with interrupts off: t is DIED and off  *)
(* the ready list, mfree_page frees its directory (a process) and its PCB *)
(* (not main's), release_pid(t->pid), then schedule if asked.  Only main  *)
(* survives it: for any other thread release_pid reads t->pid from the   *)
(* PCB page mfree_page has just unmapped (and a PCB at NULL fails         *)
(* mfree_page's ASSERT first), a fault.  A thread exiting itself asks for *)
(* schedule.  Nothing under src/ calls thread_exit.                      *)
(***************************************************************************)
ThreadExit(t, sched) ==
    LET st1 == [status EXCEPT ![t] = "DIED"]
        rq1 == SelectSeq(ready, LAMBDA u : u # t)
    IN
    /\ ~halted /\ CanCall
    /\ t \in Range(all) /\ (t = cur => sched)
    /\ IF t # Main THEN Panic
       ELSE /\ all'     = SelectSeq(all, LAMBDA u : u # t)
            /\ pidbits' = ReleasePid(pid[t])
            /\ IF sched THEN Schedule(st1, ticks, rq1)
               ELSE /\ status' = st1 /\ ready' = rq1
                    /\ UNCHANGED <<ticks, cur, cr3, halted>>
            /\ UNCHANGED <<pid, idleAt>>
            /\ UNCHANGED memVars

Halt == halted /\ UNCHANGED vars

(***************************************************************************)
(* thread_init: pid_pool_init, process_execute(init) (pid 1),             *)
(* make_main_thread (pid 2, RUNNING, only on the all list) and            *)
(* thread_start("idle") (pid 3).  main keeps running.  init's PCB,      *)
(* bitmap and directory and idle's PCB were allocated; the kernel pool   *)
(* and kernel_vaddr, sized alike, have the same number of pages left,    *)
(* which depends on the machine's memory.                                 *)
(***************************************************************************)
Init ==
    /\ status  = [t \in Threads |->
                    CASE t = Main -> "RUNNING"
                      [] t \in {InitProc, Idle} -> "READY"
                      [] OTHER -> None]
    /\ ticks   = Prio
    /\ ready   = <<InitProc, Idle>>
    /\ all     = <<InitProc, Main, Idle>>
    /\ cur     = Main
    /\ pid     = [t \in Threads |->
                    CASE t = InitProc -> 1 [] t = Main -> 2 [] t = Idle -> 3
                      [] OTHER -> 0]
    /\ pidbits = [i \in 0 .. PidLen * W |-> IF i < 3 THEN 1 ELSE 0]
    /\ cr3     = KernelDir
    /\ idleAt  = "block"
    /\ halted  = FALSE
    /\ kvfree  \in KFreeInit
    /\ kffree  = kvfree
    /\ pcb     = [t \in Threads |->
                    CASE t = Main -> Boot [] t \in {InitProc, Idle} -> Heap
                      [] OTHER -> None]
    /\ vbm     = [t \in UserThreads |-> IF t = InitProc THEN Heap ELSE None]
    /\ pgdir   = [t \in Threads |-> IF t = InitProc THEN Heap ELSE NoDir]
    /\ started = {}

Next ==
    \/ TimerTick
    \/ IdleBlock
    \/ ThreadYield
    \/ \E stat \in BlockStates : ThreadBlock(stat)
    \/ \E t \in Threads : ThreadUnblock(t)
    \/ \E k \in KThreads : ThreadStart(k)
    \/ \E p \in Procs : ProcessExecute(p)
    \/ \E p \in UserThreads : ProcessStart(p)
    \/ \E t \in Threads, sched \in BOOLEAN : ThreadExit(t, sched)
    \/ Halt

\* The 8253 interrupts the CPU at a fixed rate whenever interrupts are
\* on, which they are between any two of the steps above.  The threads'
\* own calls need no fairness.
Fairness == WF_vars(TimerTick)

Spec == Init /\ [][Next]_vars /\ Fairness

(***************************************************************************)
(* Properties                                                              *)
(***************************************************************************)
TypeOK ==
    /\ status \in [Threads -> Statuses \cup {None}]
    /\ ticks \in [Threads -> 0 .. 255]
    /\ ready \in Seq(Threads) /\ all \in Seq(Threads)
    /\ cur \in Threads /\ cr3 \in UserThreads \cup {KernelDir}
    /\ idleAt \in {"block", "hlt"}
    /\ halted \in BOOLEAN
    /\ kvfree \in Nat /\ kffree \in Nat
    /\ pcb \in [Threads -> {Heap, Null, Boot, None}]
    /\ vbm \in [UserThreads -> {Heap, Null, None}]
    /\ pgdir \in [Threads -> {Heap, NoDir}]
    /\ started \subseteq UserThreads

\* Run queue (thread_ready_list) and statuses agree in every interleaving
\* of timer preemption, thread_block, thread_unblock, thread_yield, idle's
\* loop and thread creation: the queue holds each READY thread exactly
\* once and nothing else, and the running thread is the one RUNNING one.
\* The ASSERTs of schedule and thread_unblock rely on this.
SchedulerStateConsistent ==
    /\ IsInjective(ready)
    /\ Range(ready) = {t \in Threads : status[t] = "READY"}
    /\ {t \in Threads : status[t] = "RUNNING"} = {cur}

\* allocate_pid and the bitmap of pid_pool: the threads on thread_all_list
\* have distinct pids, and the bits set are exactly those pids (pid - 1).
PidsUnique ==
    /\ \A s, t \in Range(all) : s # t => pid[s] # pid[t]
    /\ {i \in 0 .. PidLen * W - 1 : pidbits[i] = 1} = {pid[t] - 1 : t \in Range(all)}

\* Round robin does not starve: under the timer alone, a READY thread
\* eventually runs (or is ended by thread_exit), whatever the running
\* threads do with thread_block, thread_unblock (which puts a thread at
\* the head) and thread_yield.
EveryReadyThreadRuns ==
    \A t \in Threads :
        status[t] = "READY" ~> (cur = t \/ status[t] = "DIED" \/ halted)

=============================================================================
