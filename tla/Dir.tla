------------------------------- MODULE Dir --------------------------------
(***************************************************************************)
(* One directory of the file system (src/fs/dir.c): its inode's block     *)
(* addresses (i_sectors[0 .. NDirect-1] direct, i_sectors[NDirect] the     *)
(* single indirect table), its i_size, the sectors holding its entries,   *)
(* the partition's block bitmap, and one open handle that dir_read walks. *)
(*                                                                         *)
(* Sizes are abstracted: NDirect is the code's 12, NIndirect its 128,     *)
(* Slots the 512 / sizeof(struct dir_entry) entries of a sector, and      *)
(* i_size counts entries instead of bytes.  An entry is its name: the     *)
(* i_no delete_dir_entry compares is unique among a directory's entries,  *)
(* so it names the same entry the name does.                              *)
(*                                                                         *)
(* The callers (file_create, sys_mkdir, sys_unlink, sys_rmdir) and         *)
(* block_bitmap_alloc are in fs.c and file.c, which are not under src.    *)
(* One thread calls into the directory at a time, and each call is one    *)
(* step.                                                                  *)
(***************************************************************************)
EXTENDS Integers, Sequences, FiniteSets, SequencesExt

CONSTANTS
    Names,       \* names a caller may create
    NDirect,     \* direct block addresses of an inode (12)
    NIndirect,   \* addresses in the indirect table (128)
    Slots,       \* directory entries per sector
    NBlocks,     \* data blocks of the partition
    InitUsed     \* the possible sets of blocks other files hold at the start

ASSUME NDirect \in Nat \ {0} /\ NIndirect \in Nat /\ Slots \in Nat \ {0, 1}
ASSUME NBlocks \in Nat \ {0} /\ InitUsed \subseteq SUBSET (2 .. NBlocks)

Dot    == "."
DotDot == ".."
Empty  == ""        \* a slot whose f_type is FT_UNKNOWN: zeroed or never written
Blocks == 1 .. NBlocks
NoBlock == -1       \* what block_bitmap_alloc returns when the disk is full
Idx    == 0 .. NDirect + NIndirect - 1   \* block_idx: all_blocks[0 .. 139]
SlotIdx == 0 .. Slots - 1

FirstOf(S) == CHOOSE x \in S : \A y \in S : x <= y

VARIABLES
    isec,     \* dir_inode->i_sectors
    isize,    \* dir_inode->i_size, in entries
    blk,      \* sector b read as directory entries
    tbl,      \* sector b read as an indirect table
    bbits,    \* cur_part->block_bitmap: the blocks in use
    foreign,  \* the blocks other files held at the start (ghost)
    pos,      \* dir->dir_pos of the open handle, in entries
    listed,   \* the entries dir_read returned since dir_open (ghost)
    eof,      \* dir_read has returned NULL since dir_open (ghost)
    dirty,    \* the directory changed since dir_open (ghost)
    spin      \* a delete_dir_entry is in the loop at dir.c:407

dirVars == <<isec, isize, blk, tbl, bbits, foreign, spin>>
readVars == <<pos, listed, eof, dirty>>
vars == <<dirVars, readVars>>

(***************************************************************************)
(* The block addresses each function collects into all_blocks.             *)
(***************************************************************************)

TableAddr == isec[NDirect]

\* search_dir_entry, delete_dir_entry and dir_read: the direct addresses,
\* then the indirect table read from disk when there is one.
AllBlocks(idx) ==
    IF idx < NDirect THEN isec[idx]
    ELSE IF TableAddr # 0 THEN tbl[TableAddr][idx - NDirect]
    ELSE 0

\* sync_dir_entry: the direct addresses only; the rest of all_blocks stays
\* 0, because the indirect table is never read.
SyncBlocks(idx) == IF idx < NDirect THEN isec[idx] ELSE 0

\* The non-empty slots of sector i of all_blocks, in slot order.
BlockEntries(i) ==
    IF AllBlocks(i) = 0 THEN <<>>
    ELSE SelectSeq([k \in 1 .. Slots |-> blk[AllBlocks(i)][k - 1]], LAMBDA e : e # Empty)

\* The non-empty slots of the directory, in the order the loops visit them.
LiveSeq == FlattenSeq([j \in 1 .. NDirect + NIndirect |-> BlockEntries(j - 1)])

\* The names search_dir_entry finds.
Reachable == Range(LiveSeq) \ {Dot, DotDot}

Search(n) == n \in Reachable

UserEntry(e) == e \notin {Empty, Dot, DotDot}

(***************************************************************************)
(* block_bitmap_alloc (file.c, not under src): the lowest free block, or   *)
(* -1; it sets the bit.                                                    *)
(***************************************************************************)
BlockBitmapAllocOff(used) ==   \* mutant: one past the free block
    IF Blocks \subseteq used THEN NoBlock ELSE FirstOf(Blocks \ used) + 1

BlockBitmapAlloc(used) ==
    IF Blocks \subseteq used THEN NoBlock ELSE FirstOf(Blocks \ used)

\* A new sector holding only entry e (memset then memcpy).
Fresh(e) == [k \in SlotIdx |-> IF k = 0 THEN e ELSE Empty]

FreeSlotBase(b) == 0   \* mutant: memcpy(dir_e, ...) without the index

\* The first slot of sector b whose f_type is FT_UNKNOWN.
FreeSlot(b) == FirstOf({k \in SlotIdx : blk[b][k] = Empty})

(***************************************************************************)
(* sync_dir_entry(parent_dir, p_de, io_buf): the first block_idx whose      *)
(* all_blocks entry is 0 or whose sector has a free slot.  A sector with a *)
(* free slot takes the entry.  A 0 address takes a new block: a direct    *)
(* one, or at block_idx NDirect a new indirect table and its first block  *)
(* (rolled back when the second allocation fails), or an unused table     *)
(* slot.  i_size grows by one entry on success.                           *)
(***************************************************************************)
SyncDirEntry(n) ==
    LET cand == {i \in Idx : SyncBlocks(i) = 0 \/ \E s \in SlotIdx : blk[SyncBlocks(i)][s] = Empty}
        fi   == FirstOf(cand)
        b    == SyncBlocks(fi)
        b1   == BlockBitmapAlloc(bbits)
        b2   == BlockBitmapAlloc(bbits \cup {b1})
    IN  IF cand = {} THEN UNCHANGED <<isec, isize, blk, tbl, bbits>>    \* "directory is full!"
        ELSE IF b # 0 THEN
            /\ blk' = [blk EXCEPT ![b][FreeSlot(b)] = n]
            /\ isize' = isize + 1
            /\ UNCHANGED <<isec, tbl, bbits>>
        ELSE IF b1 = NoBlock THEN UNCHANGED <<isec, isize, blk, tbl, bbits>>
        ELSE IF fi < NDirect THEN
            /\ bbits' = bbits \cup {b1}
            /\ isec' = [isec EXCEPT ![fi] = b1]
            /\ blk' = [blk EXCEPT ![b1] = Fresh(n)]
            /\ isize' = isize + 1
            /\ UNCHANGED tbl
        ELSE IF fi = NDirect /\ b2 = NoBlock THEN
            \* the table's bit is cleared again and i_sectors[12] set to 0
            /\ isec' = [isec EXCEPT ![NDirect] = 0]
            /\ UNCHANGED <<isize, blk, tbl, bbits>>
        ELSE IF fi = NDirect THEN
            /\ bbits' = bbits \cup {b1, b2}
            /\ isec' = [isec EXCEPT ![NDirect] = b1]
            /\ tbl' = [tbl EXCEPT ![b1] = [k \in 0 .. NIndirect - 1 |-> IF k = 0 THEN b2 ELSE 0]]
            /\ blk' = [blk EXCEPT ![b2] = Fresh(n)]
            /\ isize' = isize + 1
        ELSE
            \* all_blocks + 12 holds only this address; block_idx > 12 is
            \* never reached, since all_blocks[12] is always 0
            /\ bbits' = bbits \cup {b1}
            /\ tbl' = [tbl EXCEPT ![TableAddr] = [k \in 0 .. NIndirect - 1 |-> IF k = fi - NDirect THEN b1 ELSE 0]]
            /\ blk' = [blk EXCEPT ![b1] = Fresh(n)]
            /\ isize' = isize + 1
            /\ UNCHANGED isec

ReclaimableNever(cnt, first) == FALSE   \* mutant: a sector is never given back

\* Outside the directory's first sector (the one holding "."), a sector
\* whose only entry is deleted is given back.
Reclaimable(cnt, first) == cnt = 1 /\ ~first

DropBlockKeep(fi) == UNCHANGED isec   \* mutant: i_sectors keeps the address

\* i_sectors[block_idx] = 0
DropBlock(fi) == isec' = [isec EXCEPT ![fi] = 0]

(***************************************************************************)
(* delete_dir_entry(part, pdir, inode_no, io_buf): the first sector that   *)
(* holds the entry.  Its only entry outside the first sector: the block's *)
(* bit is cleared, then a direct address is dropped; for an indirect one  *)
(* the loop counting the table's addresses never advances its index       *)
(* (dir.c:407), and the call never returns.  Otherwise the slot is        *)
(* zeroed.  i_size shrinks by one entry.                                  *)
(***************************************************************************)
DeleteDirEntry(n) ==
    LET hits  == {i \in Idx : AllBlocks(i) # 0 /\ \E s \in SlotIdx : blk[AllBlocks(i)][s] = n}
        fi    == FirstOf(hits)
        b     == AllBlocks(fi)
        s     == CHOOSE k \in SlotIdx : blk[b][k] = n
        cnt   == Cardinality({k \in SlotIdx : UserEntry(blk[b][k])})
        first == \E k \in SlotIdx : blk[b][k] = Dot
    IN  IF hits = {} THEN UNCHANGED <<isec, isize, blk, tbl, bbits, spin>>
        ELSE IF Reclaimable(cnt, first) /\ fi < NDirect THEN
            /\ bbits' = bbits \ {b}
            /\ DropBlock(fi)
            /\ isize' = isize - 1
            /\ UNCHANGED <<blk, tbl, spin>>
        ELSE IF Reclaimable(cnt, first) THEN
            /\ bbits' = bbits \ {b}
            /\ spin' = TRUE
            /\ UNCHANGED <<isec, isize, blk, tbl>>
        ELSE
            /\ blk' = [blk EXCEPT ![b][s] = Empty]
            /\ isize' = isize - 1
            /\ UNCHANGED <<isec, tbl, bbits, spin>>

NextEntryAtOffByOne(p) ==   \* mutant: cur_dir_entry_pos <= dir_pos
    IF p + 1 < isize /\ p + 1 < Len(LiveSeq) THEN LiveSeq[p + 2] ELSE Empty

\* The entry dir_read returns at dir_pos p: the live slot after the p it
\* skips, or NULL (Empty) once p reaches i_size or the slots run out.
NextEntryAt(p) ==
    IF p < isize /\ p < Len(LiveSeq) THEN LiveSeq[p + 1] ELSE Empty

\* dir_is_empty: only "." and ".." remain.
DirIsEmpty == isize = 2

(***************************************************************************)
(* The calls.                                                              *)
(***************************************************************************)

\* file_create / sys_mkdir: a name search_dir_entry does not find is
\* written with sync_dir_entry.
FileCreate(n) ==
    /\ ~spin
    /\ ~Search(n)
    /\ SyncDirEntry(n)
    /\ dirty' = TRUE
    /\ UNCHANGED <<foreign, spin, pos, listed, eof>>

\* sys_unlink / dir_remove: the entry of a name search_dir_entry finds is
\* deleted (the inode is then released, which the directory does not see).
Unlink(n) ==
    /\ ~spin
    /\ Search(n)
    /\ DeleteDirEntry(n)
    /\ dirty' = TRUE
    /\ UNCHANGED <<foreign, pos, listed, eof>>

\* dir_open / sys_rewinddir: dir_pos = 0.
DirOpen ==
    /\ ~spin
    /\ pos' = 0 /\ listed' = <<>> /\ eof' = FALSE /\ dirty' = FALSE
    /\ UNCHANGED dirVars

\* dir_read, called until it returns NULL.
DirRead ==
    /\ ~spin /\ ~eof
    /\ LET e == NextEntryAt(pos)
       IN  IF e = Empty THEN eof' = TRUE /\ UNCHANGED <<pos, listed>>
           ELSE pos' = pos + 1 /\ listed' = Append(listed, e) /\ UNCHANGED eof
    /\ UNCHANGED <<dirVars, dirty>>

\* The state a new directory (sys_mkdir, or the root at format) is in: one
\* sector holding "." and "..".
Init ==
    /\ \E used \in InitUsed :
          /\ foreign = used
          /\ bbits = used \cup {1}
    /\ isec = [i \in 0 .. NDirect |-> IF i = 0 THEN 1 ELSE 0]
    /\ isize = 2
    /\ blk = [b \in Blocks |-> [k \in SlotIdx |->
                 IF b = 1 /\ k = 0 THEN Dot ELSE IF b = 1 /\ k = 1 THEN DotDot ELSE Empty]]
    /\ tbl = [b \in Blocks |-> [k \in 0 .. NIndirect - 1 |-> 0]]
    /\ spin = FALSE
    /\ pos = 0 /\ listed = <<>> /\ eof = FALSE /\ dirty = FALSE

Next ==
    \/ \E n \in Names : FileCreate(n) \/ Unlink(n)
    \/ DirOpen
    \/ DirRead

Spec == Init /\ [][Next]_vars

(***************************************************************************)
(* Properties.                                                             *)
(***************************************************************************)

Addr == 0 .. NBlocks

TypeOK ==
    /\ isec \in [0 .. NDirect -> Addr]
    /\ isize \in Nat
    /\ bbits \subseteq Blocks
    /\ pos \in Nat /\ eof \in BOOLEAN /\ dirty \in BOOLEAN /\ spin \in BOOLEAN

\* The blocks the directory's inode points at, directly, as its indirect
\* table, or through that table.
RefIdx == {i \in Idx : AllBlocks(i) # 0}

\* Every block the directory points at is marked in the block bitmap, was
\* never another file's, and is pointed at from one place only: a sector
\* delete_dir_entry gives back is no longer reachable from the inode, and
\* sync_dir_entry never takes a block that is in use.
DirectoryBlocksAllocated ==
    LET refs == {AllBlocks(i) : i \in RefIdx} \cup (IF TableAddr # 0 THEN {TableAddr} ELSE {})
    IN  /\ refs \subseteq bbits \ foreign
        /\ \A i, j \in RefIdx : i # j => AllBlocks(i) # AllBlocks(j)
        /\ TableAddr \notin {AllBlocks(i) : i \in RefIdx}

\* dir_remove ASSERTs that an empty directory uses only i_sectors[0]
\* (dir.c:557): once every entry but "." and ".." is deleted, every other
\* sector the directory took has been given back.
EmptyDirectoryUsesOnlyFirstBlock ==
    DirIsEmpty => \A i \in 1 .. NDirect : isec[i] = 0

\* After dir_open, dir_read returns every entry of an unchanged directory
\* once, in order, before it returns NULL.
DirReadListsEveryEntryOnce ==
    eof /\ ~dirty => listed = LiveSeq

\* The directory implements a set of names (DirMap) under the names
\* search_dir_entry finds: creating a name adds it and loses no other,
\* removing one removes only it, and a failed call changes nothing a
\* lookup can see.
DM == INSTANCE DirMap WITH names <- Reachable

RefinesDirMap == DM!Spec

\* Every delete_dir_entry call returns.
DeleteDirEntryReturns == spin ~> ~spin
=============================================================================
