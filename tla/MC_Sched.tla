------------------------------ MODULE MC_Sched ------------------------------
EXTENDS Sched

CONSTANTS m, i, init, k1, p1

\* One slice tick each: the shortest slices give the most preemptions.
MCPrio == [t \in {m, i, init, k1, p1} |-> 1]
=============================================================================
