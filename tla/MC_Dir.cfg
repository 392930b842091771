\* Two direct blocks of three slots and no indirect table: the first
\* sector holds ".", ".." and one entry, the second three more, so a fifth
\* name finds the directory full.  Other files hold no block, block 2, or
\* blocks 2 and 3, so the second sector is block 2, block 3, or the disk
\* is full.
CONSTANTS
    n1 = n1
    n2 = n2
    n3 = n3
    n4 = n4
    n5 = n5
    Names <- MCNames
    NDirect = 2
    NIndirect = 0
    Slots = 3
    NBlocks = 3
    InitUsed = {{}, {2}, {2, 3}}
SYMMETRY NameSymmetry
SPECIFICATION Spec
INVARIANTS TypeOK DirectoryBlocksAllocated EmptyDirectoryUsesOnlyFirstBlock DirReadListsEveryEntryOnce
PROPERTIES RefinesDirMap
