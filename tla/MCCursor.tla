------------------------------ MODULE MCCursor ------------------------------
(* A box of 2 by 2 whose last pixel is clear, on a screen where it has     *)
(* four places, which overlap by a row, a column or one pixel; the         *)
(* position can drift past every edge.                                     *)
EXTENDS Cursor

MCDeltas == {-2, 0, 1}
MCIntMin == -1

=============================================================================
