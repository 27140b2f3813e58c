---------------------------- MODULE MCMemRoutines ----------------------------
(* Vectors of two bytes.  In the copying runs every byte is distinct, so    *)
(* that a result tells where each byte came from; comparisons see every     *)
(* memory of two values.                                                    *)
EXTENDS MemRoutines

MCCopies == {"memcpy", "memset", "memmove", "memcmp"}
MCDistinct == {[a \in Addr |-> a], [a \in Addr |-> a % 3], [a \in Addr |-> 0]}

MCCompare == {"memcmp"}
MCBinary == [Addr -> {0, 1}]

=============================================================================
