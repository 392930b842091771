------------------------------ MODULE Strings ------------------------------
(***************************************************************************)
(* The byte loops of src/lib/string.c over a window of memory.  Memory is *)
(* a function from addresses 0 .. N-1 to bytes 0 .. 255 and a pointer is   *)
(* an address; bytes outside the window read as 0 and writes outside it   *)
(* are dropped, so every loop ends.  The code reads strings through        *)
(* (const) char *, and char is signed on i386: a byte of 128 or more       *)
(* compares as a negative number (SChar).  strchr, strrchr and strchrs     *)
(* compare that signed byte with a uint8_t ch, promoted to int.           *)
(* The asserts on NULL arguments are left out: a pointer here is always an *)
(* address.                                                                *)
(***************************************************************************)
EXTENDS Integers

NULL == -1

\* The byte at address p.
Byte(m, p) == IF p \in DOMAIN m THEN m[p] ELSE 0

\* A byte read through char *: signed.
SChar(v) == IF v >= 128 THEN v - 256 ELSE v

\* memset: size bytes from dest set to value.
MemSet(m, dest, value, size) ==
    [i \in DOMAIN m |-> IF dest <= i /\ i < dest + size THEN value ELSE m[i]]

\* memcpy: one byte at a time, lowest address first.
RECURSIVE MemCpy(_, _, _, _)
MemCpy(m, dst, src, size) ==
    IF size = 0 THEN m
    ELSE MemCpy([m EXCEPT ![dst] = Byte(m, src)], dst + 1, src + 1, size - 1)

\* memcmp: the sign of the first differing pair of signed bytes, or 0.
RECURSIVE MemCmp(_, _, _, _)
MemCmp(m, a, b, size) ==
    IF size = 0 THEN 0
    ELSE IF Byte(m, a) # Byte(m, b)
         THEN IF SChar(Byte(m, a)) > SChar(Byte(m, b)) THEN 1 ELSE -1
         ELSE MemCmp(m, a + 1, b + 1, size - 1)

\* strcpy: copy bytes until the 0 byte has been copied.
RECURSIVE StrCpy(_, _, _)
StrCpy(m, dst, src) ==
    LET m1 == [m EXCEPT ![dst] = Byte(m, src)]
    IN  IF Byte(m, src) = 0 THEN m1 ELSE StrCpy(m1, dst + 1, src + 1)

\* strlen: the bytes before the first 0.
RECURSIVE StrLen(_, _)
StrLen(m, p) == IF Byte(m, p) = 0 THEN 0 ELSE 1 + StrLen(m, p + 1)

RECURSIVE StrCmpNoGreater(_, _, _)
StrCmpNoGreater(m, a, b) ==   \* mutant: return *a < *b ? -1 : 0
    IF Byte(m, a) # 0 /\ Byte(m, a) = Byte(m, b) THEN StrCmpNoGreater(m, a + 1, b + 1)
    ELSE IF SChar(Byte(m, a)) < SChar(Byte(m, b)) THEN -1
    ELSE 0

\* strcmp: walk while *a is not 0 and equals *b, then -1, 0 or 1 as the
\* signed bytes there compare.
RECURSIVE StrCmp(_, _, _)
StrCmp(m, a, b) ==
    IF Byte(m, a) # 0 /\ Byte(m, a) = Byte(m, b) THEN StrCmp(m, a + 1, b + 1)
    ELSE IF SChar(Byte(m, a)) < SChar(Byte(m, b)) THEN -1
    ELSE IF SChar(Byte(m, a)) > SChar(Byte(m, b)) THEN 1
    ELSE 0

\* *str == ch: a signed char against a uint8_t, both promoted to int.
Matches(m, p, ch) == SChar(Byte(m, p)) = ch

\* strchr: the address of the first byte before the 0 that matches ch.
RECURSIVE StrChr(_, _, _)
StrChr(m, p, ch) ==
    IF Byte(m, p) = 0 THEN NULL
    ELSE IF Matches(m, p, ch) THEN p
    ELSE StrChr(m, p + 1, ch)

RECURSIVE StrRChrFromFirst(_, _, _, _)
StrRChrFromFirst(m, p, ch, last) ==   \* mutant: last_char set only once
    IF Byte(m, p) = 0 THEN last
    ELSE StrRChrFromFirst(m, p + 1, ch, IF Matches(m, p, ch) /\ last = NULL THEN p ELSE last)

\* strrchr: one pass, last_char moved to every match.
RECURSIVE StrRChrFrom(_, _, _, _)
StrRChrFrom(m, p, ch, last) ==
    IF Byte(m, p) = 0 THEN last
    ELSE StrRChrFrom(m, p + 1, ch, IF Matches(m, p, ch) THEN p ELSE last)

StrRChr(m, p, ch) == StrRChrFrom(m, p, ch, NULL)

\* strchrs: the matches before the 0.
RECURSIVE StrChrs(_, _, _)
StrChrs(m, p, ch) ==
    IF Byte(m, p) = 0 THEN 0
    ELSE (IF Matches(m, p, ch) THEN 1 ELSE 0) + StrChrs(m, p + 1, ch)

\* The first loop of strcat leaves str one past the 0; --str steps back.
StrEndNoStepBack(m, dst) == dst + StrLen(m, dst) + 1   \* mutant: --str dropped

StrEnd(m, dst) == dst + StrLen(m, dst)

\* strcat: copy src, 0 included, over the 0 that ends dst.
StrCat(m, dst, src) == StrCpy(m, StrEnd(m, dst), src)
=============================================================================
