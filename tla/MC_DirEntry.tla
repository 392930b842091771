---------------------------- MODULE MC_DirEntry ----------------------------
(***************************************************************************)
(* Every name of 1 .. MAX_FILE_NAME_LEN characters over Letters and every  *)
(* inode number in INos: the entry create_dir_entry makes in a zeroed      *)
(* struct dir_entry (as its callers in fs.c pass one), laid out at address *)
(* 0, and the name itself after it, then the test search_dir_entry         *)
(* applies.  The state is the input; it never changes.                    *)
(***************************************************************************)
EXTENDS DirEntry, Sequences

CONSTANTS Letters,   \* the non-zero bytes a name is made of
          INos,      \* inode numbers
          FType      \* FT_REGULAR

ASSUME Letters \subseteq 1 .. 255 /\ INos \subseteq Nat

NameAt == EntrySize
Window == 0 .. NameAt + MAX_FILE_NAME_LEN

Names == UNION {[1 .. k -> Letters] : k \in 1 .. MAX_FILE_NAME_LEN}

VARIABLES name, ino

Init == name \in Names /\ ino \in INos
Next == UNCHANGED <<name, ino>>
Spec == Init /\ [][Next]_<<name, ino>>

\* A zeroed window with the name, and its 0, at NameAt.
Before == [i \in Window |-> IF NameAt <= i /\ i < NameAt + Len(name) THEN name[i - NameAt + 1] ELSE 0]

After == CreateDirEntry(Before, NameAt, ino, FType, 0)

\* dir.h sets the longest name at MAX_FILE_NAME_LEN and create_dir_entry
\* ASSERTs strlen(filename) <= MAX_FILE_NAME_LEN: every name it accepts
\* must be found again by search_dir_entry's strcmp against the entry it
\* wrote, or file_create makes a second entry of the same name and opening
\* the file fails.
NameFoundAfterCreate == NameMatches(After, 0, NameAt)
=============================================================================
