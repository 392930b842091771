----------------------------- MODULE MC_Strings -----------------------------
(***************************************************************************)
(* Checks the loops of string.c (Strings) against references over every   *)
(* memory window of N bytes drawn from Alphabet, every pair of pointers    *)
(* into it and every searched character.  The state is the input; it      *)
(* never changes.                                                          *)
(***************************************************************************)
EXTENDS Strings, Sequences, FiniteSets, FiniteSetsExt

CONSTANTS N,          \* bytes in the memory window
          Alphabet,   \* bytes the window may hold: 0, ASCII and one >= 128
          Chars       \* the ch a caller searches for

ASSUME N \in Nat \ {0} /\ 0 \in Alphabet /\ Alphabet \subseteq 0 .. 255
ASSUME Chars \subseteq 1 .. 255

Addr == 0 .. N - 1

VARIABLES mem, a, b, ch

Init == /\ mem \in [Addr -> Alphabet]
        /\ a \in Addr
        /\ b \in Addr
        /\ ch \in Chars

Next == UNCHANGED <<mem, a, b, ch>>

Spec == Init /\ [][Next]_<<mem, a, b, ch>>

(***************************************************************************)
(* References: the string at p is the bytes of the window before the      *)
(* first 0 at or after p.                                                 *)
(***************************************************************************)
Terminated(m, p) == \E i \in p .. N - 1 : m[i] = 0

Str(m, p) ==
    LET e == Min({i \in p .. N - 1 : m[i] = 0})
    IN  [k \in 1 .. e - p |-> m[p + k - 1]]

Occurrences(s, c) == {k \in 1 .. Len(s) : s[k] = c}

\* The addresses a string occupies, its 0 included.
Span(p, len) == p .. p + len

\* strcmp is a total order on the strings: 0 exactly when they are equal,
\* the opposite sign with the arguments swapped, and the same answer as
\* memcmp over the first string and its 0.  A walk that stops too early,
\* too late, or answers one side of the comparison wrongly breaks it.
StrCmpIsOrder ==
    Terminated(mem, a) /\ Terminated(mem, b) =>
        /\ StrCmp(mem, a, b) = 0 <=> Str(mem, a) = Str(mem, b)
        /\ StrCmp(mem, a, b) = - StrCmp(mem, b, a)
        /\ StrCmp(mem, a, b) = MemCmp(mem, a, b, Len(Str(mem, a)) + 1)

\* For an ASCII ch, strchr returns the address of its first occurrence in
\* the string, strrchr of its last, NULL when it does not occur, and
\* strchrs counts them; a byte of 128 or more in the string never matches.
SearchFindsOccurrences ==
    Terminated(mem, a) /\ ch < 128 =>
        LET occ == Occurrences(Str(mem, a), ch)
        IN  /\ StrChr(mem, a, ch) = IF occ = {} THEN NULL ELSE a + Min(occ) - 1
            /\ StrRChr(mem, a, ch) = IF occ = {} THEN NULL ELSE a + Max(occ) - 1
            /\ StrChrs(mem, a, ch) = Cardinality(occ)

\* When the result fits in the window and does not overlap the source,
\* strcpy(a, b) leaves the string at a equal to the one at b, and
\* strcat(a, b) leaves the two strings joined, each writing only the bytes
\* of its result.
CopiesBuildStrings ==
    LET sa == Str(mem, a)
        sb == Str(mem, b)
        cpy == StrCpy(mem, a, b)
        cat == StrCat(mem, a, b)
        Fits(p, len) == p + len <= N - 1 /\ Span(p, len) \cap Span(b, Len(sb)) = {}
    IN  Terminated(mem, a) /\ Terminated(mem, b) =>
        /\ Fits(a, Len(sb)) =>
              /\ Str(cpy, a) = sb
              /\ \A i \in Addr \ Span(a, Len(sb)) : cpy[i] = mem[i]
        /\ Fits(a, Len(sa) + Len(sb)) =>
              /\ Str(cat, a) = sa \o sb
              /\ \A i \in Addr \ Span(a + Len(sa), Len(sb)) : cat[i] = mem[i]
=============================================================================
