------------------------------- MODULE MCHeap -------------------------------
(* Memory maps of four regions, the first being frame zero, over so many   *)
(* pages of two bytes that the bitmap takes one or two pages; and          *)
(* kernel_reserved_end absent, inside a region, between two, past all.     *)
(* The heap has three pages: the first one lacks two page tables, the last *)
(* one begins another table.  Some pools are too small, some just enough.  *)
(* The second page of the range is free at the start or already mapped.    *)
EXTENDS Heap

MCRegion(a, b, u) == [first |-> a, last |-> b, usable |-> u]

MCMap(a, b, n, ua, ub, un) ==
  <<MCRegion(0, 1, FALSE), MCRegion(1, a, ua), MCRegion(a, b, ub),
    MCRegion(b, n, un)>>

MCMemoryMaps ==
  {MCMap(a, b, n, ua, ub, un) :
     a \in {2, 4}, b \in {12, 14}, n \in {15, 18, 22}, ua \in BOOLEAN,
     ub \in {FALSE}, un \in BOOLEAN}
  \cup {MCMap(3, 5, n, ua, TRUE, un) :
          n \in {7, 12, 14}, ua \in BOOLEAN, un \in BOOLEAN}

MCReservedEnds == {0, 4, 6, 12, 28, 40}

MCNewTables == [p \in 0 .. 3 |-> CASE p = 0 -> 2 [] p = 2 -> 1 [] OTHER -> 0]

MCInUse == {{}, {1}}

=============================================================================
