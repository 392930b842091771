----------------------------- MODULE MC_Bitmap ------------------------------
(***************************************************************************)
(* Checks bitmap_scan (Bitmap!BitmapScan) against first fit over every     *)
(* bitmap of LEN bytes, every following bit and every requested count.    *)
(* The state is the input; it never changes.                               *)
(***************************************************************************)
EXTENDS Bitmap

CONSTANTS LEN,      \* bytes in the bitmap (btmp_bytes_len)
          W,        \* bits per byte (8 in the code)
          MaxCnt,   \* largest run requested
          NDEBUG    \* whether ASSERT is compiled out

ASSUME LEN \in Nat \ {0} /\ W \in Nat \ {0} /\ MaxCnt \in 1 .. LEN * W
ASSUME NDEBUG \in BOOLEAN

NBits == LEN * W

VARIABLES bits, cnt

Init == /\ bits \in [0 .. NBits -> {0, 1}]
        /\ cnt \in 1 .. MaxCnt

Next == UNCHANGED <<bits, cnt>>

Spec == Init /\ [][Next]_<<bits, cnt>>

Scan == BitmapScan(bits, LEN, W, cnt, NDEBUG)

\* When the bitmap holds a free run of cnt bits, bitmap_scan returns the
\* first one: the byte skip, the in-byte search and the restart-on-
\* allocated-bit counting loop together are first fit (spec section 9).
ScanFindsFirstFit ==
    FirstFit(bits, NBits, cnt) # NotFound => Scan = FirstFit(bits, NBits, cnt)

\* A run bitmap_scan returns lies inside the bitmap.
ScanWithinBounds ==
    Scan \in 0 .. NBits => Scan + cnt <= NBits
=============================================================================
