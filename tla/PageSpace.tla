----------------------------- MODULE PageSpace -----------------------------
(***************************************************************************)
(* What page allocation promises its callers, with no bitmaps, page       *)
(* tables, locks or steps inside a call (spec sections 4.2, 4.3 and 8).   *)
(*                                                                         *)
(* A virtual space (the kernel's, or a process's) is the set of its pages *)
(* that are reserved; a pool is the set of its frames in use.  A range    *)
(* is reserved first fit, a frame is always the lowest free one, a range  *)
(* is handed to one thread only when it is reserved and no other thread   *)
(* holds any of it, and only a range a thread holds is given back.  The   *)
(* kernel may stop (a panic) at any moment; this promises nothing about   *)
(* when.                                                                  *)
(***************************************************************************)
EXTENDS Integers, FiniteSets

CONSTANTS
    KThreads, Procs,   \* kernel threads and processes
    NK, NU,            \* frames of the kernel and the user pool
    NKV, NUV,          \* pages of the kernel and of a process's space
    MaxPages,          \* largest page count a caller asks for
    StackPage,         \* USER_STACK3_VADDR's page in a process's space
    None

Threads == KThreads \cup Procs
Kernel  == "kernel_space"
Spaces  == {Kernel} \cup Procs
PF_KERNEL == "kernel"
PF_USER   == "user"
Range(a) == a.start .. a.start + a.n - 1

SpaceOf(t) == IF t \in KThreads THEN Kernel ELSE t
PfOf(t)    == IF t \in KThreads THEN PF_KERNEL ELSE PF_USER
SpaceLen(s) == IF s = Kernel THEN NKV ELSE NUV
PoolLen(pf) == IF pf = PF_KERNEL THEN NK ELSE NU

\* The first run of n pages none of which is in `used`, or None.
FirstFree(used, len, n) ==
    LET fits == {s \in 0 .. len - n : (s .. s + n - 1) \cap used = {}}
    IN  IF fits = {} THEN None ELSE CHOOSE s \in fits : \A u \in fits : s <= u

VARIABLES
    vused,    \* space -> its reserved pages
    fused,    \* pool -> its frames in use
    held,     \* thread -> the ranges handed to it and not given back
    halted

vars == <<vused, fused, held, halted>>

HeldPages(s) == UNION {Range(a) : a \in UNION {held[t] : t \in {u \in Threads : SpaceOf(u) = s}}}

\* vaddr_get: reserve the first free run of n pages of t's space.
Reserve(t, n) ==
    LET s == SpaceOf(t)
        r == FirstFree(vused[s], SpaceLen(s), n)
    IN  /\ r # None
        /\ vused' = [vused EXCEPT ![s] = @ \cup (r .. r + n - 1)]
        /\ UNCHANGED <<fused, held, halted>>

\* get_a_page(PF_USER, USER_STACK3_VADDR): the stack page, not yet taken.
ReserveStack(p) ==
    /\ StackPage \notin vused[p]
    /\ vused' = [vused EXCEPT ![p] = @ \cup {StackPage}]
    /\ UNCHANGED <<fused, held, halted>>

\* palloc: the lowest free frame of pool pf.
TakeFrame(pf) ==
    \E f \in 0 .. PoolLen(pf) - 1 :
        /\ f \notin fused[pf]
        /\ \A g \in 0 .. f - 1 : g \in fused[pf]
        /\ fused' = [fused EXCEPT ![pf] = @ \cup {f}]
        /\ UNCHANGED <<vused, held, halted>>

\* malloc_page returns: a reserved range no other thread holds any of.
Hand(t, a) ==
    /\ a.pf = PfOf(t) /\ a.n \in 1 .. MaxPages
    /\ Range(a) \subseteq vused[SpaceOf(t)]
    /\ Range(a) \cap HeldPages(SpaceOf(t)) = {}
    /\ held' = [held EXCEPT ![t] = @ \cup {a}]
    /\ UNCHANGED <<vused, fused, halted>>

\* mfree_page of a range t holds: its pages, and n frames of its pool.
Release(t, a) ==
    /\ a \in held[t]
    /\ \E F \in SUBSET fused[a.pf] :
          /\ Cardinality(F) = a.n
          /\ fused' = [fused EXCEPT ![a.pf] = @ \ F]
    /\ vused' = [vused EXCEPT ![SpaceOf(t)] = @ \ Range(a)]
    /\ held' = [held EXCEPT ![t] = @ \ {a}]
    /\ UNCHANGED halted

Crash == halted' = TRUE /\ UNCHANGED <<vused, fused, held>>

Init ==
    /\ vused  = [s \in Spaces |-> {}]
    /\ fused  = [pf \in {PF_KERNEL, PF_USER} |-> {}]
    /\ held   = [t \in Threads |-> {}]
    /\ halted = FALSE

Next ==
    /\ ~halted
    /\ \/ \E t \in Threads, n \in 1 .. MaxPages : Reserve(t, n)
       \/ \E p \in Procs : ReserveStack(p)
       \/ \E pf \in {PF_KERNEL, PF_USER} : TakeFrame(pf)
       \/ \E t \in Threads : \E s \in 0 .. SpaceLen(SpaceOf(t)) - 1, n \in 1 .. MaxPages :
              Hand(t, [pf |-> PfOf(t), start |-> s, n |-> n])
       \/ \E t \in Threads : \E a \in held[t] : Release(t, a)
       \/ Crash

Spec == Init /\ [][Next]_vars
=============================================================================
