------------------------------ MODULE DirMap ------------------------------
(***************************************************************************)
(* What a directory promises the file system above it (file_create,       *)
(* sys_mkdir, sys_unlink and sys_rmdir, in fs.c, which is not under src): *)
(* it is a set of names.  Creating a name that is not in it adds that     *)
(* name and nothing else; removing a name that is in it removes that name *)
(* and nothing else.  A create may also fail and leave the set as it was  *)
(* (a full directory or disk), which is a stuttering step.                 *)
(***************************************************************************)
CONSTANT Names

VARIABLE names   \* the names a lookup finds

Init == names = {}

Create(n) == /\ n \notin names
             /\ names' = names \cup {n}

Remove(n) == /\ n \in names
             /\ names' = names \ {n}

Next == \E n \in Names : Create(n) \/ Remove(n)

Spec == Init /\ [][Next]_names
=============================================================================
