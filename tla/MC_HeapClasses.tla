--------------------------- MODULE MC_HeapClasses ---------------------------
(***************************************************************************)
(* Every request size from 1 to MaxSize against the routing spec 8 states *)
(* and against a reference: the smallest class that fits.                 *)
(***************************************************************************)
EXTENDS HeapClasses

CONSTANT MaxSize

VARIABLE size

Init == size \in 1 .. MaxSize
Next == UNCHANGED size
Spec == Init /\ [][Next]_size

\* Reference: the smallest class whose blocks hold n bytes.
SmallestFit(n) == CHOOSE c \in Classes : BlockSize(c) >= n
                                         /\ \A d \in Classes : BlockSize(d) >= n => c <= d

\* Spec 8's table: 1 and 16 bytes take the 16-byte class, 17 the 32-byte
\* class, 1024 the 1024-byte class, 1025 and 4097 the large path (4097 in
\* two pages).
SpecTable == [n \in {1, 16, 17, 1024, 1025, 4097} |->
                CASE n \in {1, 16} -> [large |-> FALSE, bytes |-> 16]
                  [] n = 17        -> [large |-> FALSE, bytes |-> 32]
                  [] n = 1024      -> [large |-> FALSE, bytes |-> 1024]
                  [] n = 1025      -> [large |-> TRUE, bytes |-> PG_SIZE]
                  [] n = 4097      -> [large |-> TRUE, bytes |-> 2 * PG_SIZE]]

\* sys_malloc sends each small request to the smallest class that holds
\* it, each large one to the fewest pages that hold it and its arena
\* header, and the sizes of spec 8 where that table says.
RoutingIsSmallestFit ==
    LET r == Route(size)
    IN  /\ ~r.large => r.class = SmallestFit(size)
        /\ r.large => /\ r.pages * PG_SIZE >= size + ARENA_SIZE
                      /\ (r.pages - 1) * PG_SIZE < size + ARENA_SIZE
        /\ size \in DOMAIN SpecTable =>
              /\ r.large = SpecTable[size].large
              /\ IF r.large THEN r.pages * PG_SIZE = SpecTable[size].bytes
                 ELSE BlockSize(r.class) = SpecTable[size].bytes

\* The arena of the class a small request is routed to holds at least one
\* block, and its blocks, after the header, end inside the page:
\* arena2block never leaves the arena's page and block2arena's page mask
\* finds the header again.
ArenaBlocksFitPage ==
    LET c == Route(size).class
    IN  ~Route(size).large =>
            /\ BlocksPerArena(c) >= 1
            /\ ARENA_SIZE + BlocksPerArena(c) * BlockSize(c) <= PG_SIZE
=============================================================================
