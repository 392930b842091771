\* Two direct blocks of two slots and an indirect table of two: the first
\* sector is full with "." and "..", the second takes two names, and the
\* third name needs the indirect table.  A delete_dir_entry that spins
\* stops the directory's one caller for good: no further step is taken.
CONSTANTS
    n1 = n1
    n2 = n2
    n3 = n3
    n4 = n4
    n5 = n5
    Names <- MCNames
    NDirect = 2
    NIndirect = 2
    Slots = 2
    NBlocks = 6
    InitUsed = {{}}
SPECIFICATION Spec
PROPERTIES DeleteDirEntryReturns
CHECK_DEADLOCK FALSE
