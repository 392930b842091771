----------------------------- MODULE DirEntry -----------------------------
(***************************************************************************)
(* A directory entry's bytes (struct dir_entry, src/fs/dir.h) and the two  *)
(* things dir.c does with its filename: create_dir_entry writes it, and    *)
(* search_dir_entry matches it against a name with strcmp.  The entry is   *)
(* filename[MAX_FILE_NAME_LEN], then i_no and f_type as 4-byte            *)
(* little-endian integers, laid out in the memory window of Strings.      *)
(***************************************************************************)
EXTENDS Strings

CONSTANT MAX_FILE_NAME_LEN   \* 16 in dir.h

ASSUME MAX_FILE_NAME_LEN \in Nat \ {0}

\* Offsets of the fields from the start of the entry.
INoOff   == MAX_FILE_NAME_LEN
FTypeOff == MAX_FILE_NAME_LEN + 4
EntrySize == MAX_FILE_NAME_LEN + 8

\* Byte k (0 = lowest) of a 32-bit value.
ByteOf(v, k) == (v \div 2^(8 * k)) % 256

\* Store a uint32_t at address p, lowest byte first.
PutU32(m, p, v) == [i \in DOMAIN m |-> IF p <= i /\ i < p + 4 THEN ByteOf(v, i - p) ELSE m[i]]

(***************************************************************************)
(* create_dir_entry(filename, inode_no, file_type, p_de): the ASSERT on     *)
(* the name's length, then strlen(filename) bytes copied into the          *)
(* filename field (its 0 is not copied), then i_no and f_type.  An        *)
(* ASSERT that fails is FALSE: no entry is made.                          *)
(***************************************************************************)
CreateDirEntry(m, filename, inode_no, file_type, pde) ==
    LET len == StrLen(m, filename)
    IN  IF len > MAX_FILE_NAME_LEN THEN FALSE
        ELSE PutU32(PutU32(MemCpy(m, pde, filename, len), pde + INoOff, inode_no),
                    pde + FTypeOff, file_type)

\* The test search_dir_entry applies to each entry: !strcmp(p_de->filename, name).
NameMatches(m, pde, name) == StrCmp(m, pde, name) = 0
=============================================================================
