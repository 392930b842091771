------------------------------- MODULE Bitmap -------------------------------
(***************************************************************************)
(* The bit vector of src/lib/kernel/bitmap.c, as pure operators.          *)
(*                                                                         *)
(* A bitmap of `len` bytes of `W` bits is a function b whose domain holds  *)
(* the bit indices 0 .. len*W.  Index len*W is NOT part of the bitmap: it  *)
(* is the first bit of whatever memory follows the bitmap's buffer, which  *)
(* bitmap_scan reads (see RunFrom).  1 = allocated, 0 = free.              *)
(*                                                                         *)
(* A scan returns a bit index, NotFound (-1) or AssertFailed, the outcome  *)
(* of the ASSERT at bitmap.c:35 in a build without NDEBUG.                 *)
(***************************************************************************)
EXTENDS Integers

NotFound     == -1
AssertFailed == -2

\* bitmap_set: one bit takes value v (the value is checked by an ASSERT).
BitmapSet(b, idx, v) == [b EXCEPT ![idx] = v]

\* bitmap_scan_test: whether bit idx is allocated.
BitmapScanTest(b, idx) == b[idx] = 1

\* The skip loop of bitmap_scan: the first byte that is not 0xff, or len.
FirstNonFullByte(b, len, W) ==
    LET open == {i \in 0 .. len - 1 : \E k \in 0 .. W - 1 : b[i * W + k] = 0}
    IN  IF open = {} THEN len ELSE CHOOSE i \in open : \A j \in open : i <= j

\* The bit loop: the first free bit inside byte i.
FirstFreeBitOf(b, i, W) ==
    CHOOSE k \in 0 .. W - 1 : b[i * W + k] = 0
                              /\ \A j \in 0 .. k - 1 : b[i * W + j] = 1

\* Mutant: the run counter is not reset at an allocated bit.
RECURSIVE RunFromNoReset(_, _, _, _, _)
RunFromNoReset(b, next, count, left, cnt) ==
    IF left = 0 THEN NotFound
    ELSE LET c == IF ~BitmapScanTest(b, next) THEN count + 1 ELSE count
         IN  IF c = cnt THEN next - cnt + 1
             ELSE RunFromNoReset(b, next + 1, c, left - 1, cnt)

\* The counting loop of bitmap_scan: `left` iterations remain, the run of
\* free bits ending before `next` has length `count`.  It visits bit
\* indices up to start + (len*W - start) = len*W, one past the buffer.
RECURSIVE RunFrom(_, _, _, _, _)
RunFrom(b, next, count, left, cnt) ==
    IF left = 0 THEN NotFound
    ELSE LET c == IF ~BitmapScanTest(b, next) THEN count + 1 ELSE 0
         IN  IF c = cnt THEN next - cnt + 1
             ELSE RunFrom(b, next + 1, c, left - 1, cnt)

\* bitmap_scan(btmp, cnt) for a bitmap of len bytes, W bits per byte;
\* ndebug says whether ASSERT is compiled out.
BitmapScan(b, len, W, cnt, ndebug) ==
    LET idxByte == FirstNonFullByte(b, len, W)
        start   == idxByte * W + FirstFreeBitOf(b, idxByte, W)
    IN  IF idxByte = len
            THEN IF ndebug THEN NotFound ELSE AssertFailed
        ELSE IF cnt = 1 THEN start
        ELSE RunFrom(b, start + 1, 1, len * W - start, cnt)

(***************************************************************************)
(* Reference: first fit inside the n bits of the bitmap.                  *)
(***************************************************************************)
FreeRun(b, s, cnt) == \A i \in s .. s + cnt - 1 : b[i] = 0

FirstFit(b, n, cnt) ==
    LET fits == {s \in 0 .. n - cnt : FreeRun(b, s, cnt)}
    IN  IF fits = {} THEN NotFound
        ELSE CHOOSE s \in fits : \A t \in fits : s <= t
=============================================================================
