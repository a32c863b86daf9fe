----------------------------- MODULE Rectangles -----------------------------
(***************************************************************************)
(* The rectangles that the shell, the compositor and the damage of a       *)
(* surface are made of: a corner and a size, where no width or no height   *)
(* means nothing at all.                                                   *)
(***************************************************************************)
EXTENDS Integers

NoRect == [x |-> 0, y |-> 0, w |-> 0, h |-> 0]
Empty(r) == r.w = 0 \/ r.h = 0

Low(a, b) == IF a < b THEN a ELSE b
High(a, b) == IF a < b THEN b ELSE a

Union(a, b) ==
  LET left == Low(a.x, b.x)
      top == Low(a.y, b.y)
  IN [x |-> left, y |-> top,
      w |-> High(a.x + a.w, b.x + b.w) - left,
      h |-> High(a.y + a.h, b.y + b.h) - top]

(* The rectangle that holds both, where either may be nothing yet.         *)
Extended(r, s) == IF Empty(r) THEN s ELSE Union(r, s)

(* The points of r on a surface of that width and height.                  *)
PointsOf(r, width, height) ==
  (High(r.x, 0) .. Low(r.x + r.w, width) - 1)
    \X (High(r.y, 0) .. Low(r.y + r.h, height) - 1)
=============================================================================
