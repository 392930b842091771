------------------------------- MODULE MC_Dir -------------------------------
(***************************************************************************)
(* Dir with model values for names.  Names are interchangeable: nothing   *)
(* in dir.c orders or compares them except for equality.                   *)
(***************************************************************************)
EXTENDS Dir, TLC

CONSTANTS n1, n2, n3, n4, n5

MCNames == {n1, n2, n3, n4, n5}

NameSymmetry == Permutations(Names)
=============================================================================
