\* main, idle and init as after thread_init, one kernel thread and one
\* process to start, and a 4-pid pool: the second start finds it full
\* unless main has exited and given its pid back.  A process's bitmap is
\* 2 pages (23 in the code): more than the PCB and the directory, so it
\* can fail alone.  Free kernel pages after thread_init: none and one (a
\* one-page request then finds the pool full and halts), three (after a
\* kernel thread, a process's bitmap finds one page and gets NULL; alone,
\* the process takes the last page and its directory halts), and enough
\* for everything.
CONSTANTS
    m = m
    i = i
    init = init
    k1 = k1
    p1 = p1
    Main = m
    Idle = i
    InitProc = init
    KThreads = {k1}
    Procs = {p1}
    Prio <- MCPrio
    W = 2
    PidLen = 2
    NDEBUG = FALSE
    None = None
    BitmapPages = 2
    KFreeInit = {0, 1, 3, 6}
SPECIFICATION Spec
INVARIANTS TypeOK SchedulerStateConsistent PidsUnique
PROPERTIES EveryReadyThreadRuns
