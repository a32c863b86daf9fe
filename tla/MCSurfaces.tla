----------------------------- MODULE MCSurfaces -----------------------------
(***************************************************************************)
(* Surfaces for TLC: two corners of a surface of two by two pixels, which  *)
(* only their union joins, and a row of it.                                *)
(***************************************************************************)
EXTENDS Surfaces

At(left, top, width) == [x |-> left, y |-> top, w |-> width, h |-> 1]

MCDrawn == {At(0, 0, 1), At(1, 1, 1), At(0, 1, 2)}
=============================================================================
