--------------------------- MODULE SurfacesProofs ---------------------------
(***************************************************************************)
(* No damage of the shell's surface is lost as long as no mark overlaps    *)
(* clear_surface_damage: for a surface of any size, any rectangles and any *)
(* number of marks, with a tick between any two loads and stores.          *)
(***************************************************************************)
EXTENDS Surfaces, TLAPS

-----------------------------------------------------------------------------
Words == [x : Int, y : Int, w : Nat, h : Nat]

(* The shell has what it stores; a word of it is in damage already.        *)
Storing == marking \in {"x", "y", "w", "h", "commit"}
Stored == marking \in {"y", "w", "h", "commit"}

(* The compositor has a whole snapshot, or all its words up to one.        *)
Snapped(frames) == frame \in frames \cup {"again", "clear"}

Types ==
  /\ damage \in Words /\ mine \in Words /\ read \in Words
  /\ snap \in [x : Int, y : Int, w : Nat, h : Nat, seq : Nat]
  /\ seq \in Nat /\ taken \in 0 .. seq
  /\ marking \in {"idle", "read w", "read h", "read x", "read y",
                  "x", "y", "w", "h", "commit"}
  /\ frame \in {"start", "seq", "x", "y", "w", "h", "again", "clear",
                "x = 0", "y = 0", "w = 0", "h = 0", "copy"}
  /\ plan \in {"none", "rect", "all"}
  /\ overlapped \in BOOLEAN
  /\ dirty \subseteq Surface
  /\ marking # "idle" => ~Empty(mine)

(* The shell has loaded damage as it is: nobody else stores to it.         *)
ReadInv ==
  /\ marking \in {"read h", "read x", "read y", "x"} => read.w = damage.w
  /\ marking \in {"read x", "read y", "x"} => read.h = damage.h
  /\ marking \in {"read x", "read y"} => ~Empty(read)
  /\ marking = "read y" => read.x = damage.x
  /\ marking = "x" /\ ~Empty(read) => read.x = damage.x /\ read.y = damage.y

(* And it has stored the first words of the union.                         *)
StoredInv ==
  /\ marking \in {"y", "w", "h", "commit"} => damage.x = Merged.x
  /\ marking \in {"w", "h", "commit"} => damage.y = Merged.y
  /\ marking \in {"y", "w"} => damage.w = read.w
  /\ marking \in {"h", "commit"} => damage.w = Merged.w
  /\ marking \in {"y", "w", "h"} => damage.h = read.h
  /\ marking = "commit" => damage.h = Merged.h
  /\ Stored /\ seq # taken => ~Empty(read)

(* Marks not yet taken show a rectangle.                                   *)
FreshInv == seq # taken => ~Empty(damage)

(* A snapshot with the number of the last mark is damage as that mark left *)
(* it, unless the shell has begun to store the next.                       *)
SnapInv ==
  /\ Snapped({"x", "y", "w", "h"}) => snap.seq <= seq
  /\ seq = snap.seq /\ ~Stored =>
       /\ Snapped({"y", "w", "h"}) => snap.x = damage.x
       /\ Snapped({"w", "h"}) => snap.y = damage.y
       /\ Snapped({"h"}) => snap.w = damage.w
       /\ Snapped({}) => snap.h = damage.h

(* What clear_surface_damage clears has been taken, and no mark is there.  *)
ClearInv ==
  /\ frame = "clear" => snap.seq = taken
  /\ Clearing => marking = "idle" /\ seq = taken
  /\ plan = "rect" => frame = "clear" \/ Clearing \/ frame = "copy"

(* A dirty pixel is in the mark or in the union the shell stores, in the   *)
(* rectangle of whole marks, or in what this frame copies.                 *)
Kept(p) ==
  \/ marking # "idle" /\ p \in Pixels(mine)
  \/ Storing /\ p \in Pixels(Merged)
  \/ ~Stored /\ seq # taken /\ p \in Pixels(damage)
  \/ plan = "all"
  \/ plan = "rect" /\ p \in Pixels(snap)

KeptInv == \A p \in dirty : Kept(p)

Apart == ReadInv /\ StoredInv /\ FreshInv /\ SnapInv /\ ClearInv /\ KeptInv

IInv == Types /\ (~overlapped => Apart)

-----------------------------------------------------------------------------
(* extend_rect in merge_surface_damage loses no pixel of either rectangle. *)
LEMMA UnionHolds ==
  ASSUME NEW r \in Words, NEW s \in Words
  PROVE  /\ Union(r, s) \in Words
         /\ Pixels(r) \subseteq Pixels(Union(r, s))
         /\ Pixels(s) \subseteq Pixels(Union(r, s))
         /\ ~Empty(s) => ~Empty(Union(r, s))
<1> DEFINE u == Union(r, s)
<1>1. /\ u.x \in Int /\ u.x <= r.x /\ u.x <= s.x
      /\ u.y \in Int /\ u.y <= r.y /\ u.y <= s.y
      /\ u.w \in Int /\ u.x + u.w >= r.x + r.w /\ u.x + u.w >= s.x + s.w
      /\ u.h \in Int /\ u.y + u.h >= r.y + r.h /\ u.y + u.h >= s.y + s.h
  BY DEF Union, Low, High, Words
<1>2. u \in Words
  BY <1>1 DEF Union, Words
<1>3. ASSUME NEW b \in {r, s}
      PROVE  Pixels(b) \subseteq Pixels(u)
  <2>1. Width \in Int /\ Height \in Int
    BY SurfacesAssumption
  <2>2. /\ b.x \in Int /\ b.w \in Int /\ u.x <= b.x /\ u.x + u.w >= b.x + b.w
        /\ b.y \in Int /\ b.h \in Int /\ u.y <= b.y /\ u.y + u.h >= b.y + b.h
    BY <1>1 DEF Words
  <2> HIDE DEF u
  <2>3. High(b.x, 0) .. Low(b.x + b.w, Width) - 1
          \subseteq High(u.x, 0) .. Low(u.x + u.w, Width) - 1
    BY <1>1, <2>1, <2>2 DEF High, Low
  <2>4. High(b.y, 0) .. Low(b.y + b.h, Height) - 1
          \subseteq High(u.y, 0) .. Low(u.y + u.h, Height) - 1
    BY <1>1, <2>1, <2>2 DEF High, Low
  <2>5. QED
    BY <2>3, <2>4 DEF Pixels, PointsOf
<1>4. ~Empty(s) => ~Empty(u)
  <2> HIDE DEF u
  <2>1. s.w \in Nat /\ s.h \in Nat /\ s.x \in Int /\ s.y \in Int
    BY DEF Words
  <2>2. QED
    BY <1>1, <2>1 DEF Empty
<1>5. QED
  BY <1>2, <1>3, <1>4

(* The pixels of a rectangle are those of its four words.                  *)
LEMMA SamePixels ==
  ASSUME NEW r, NEW s, r.x = s.x, r.y = s.y, r.w = s.w, r.h = s.h
  PROVE  Pixels(r) = Pixels(s) /\ (Empty(r) <=> Empty(s))
  BY DEF Pixels, PointsOf, Empty

(* The union that the shell stores holds its mark, and the rectangle it    *)
(* has loaded if there was one.                                            *)
LEMMA MergedHolds ==
  ASSUME Types
  PROVE  /\ Merged \in Words
         /\ Pixels(mine) \subseteq Pixels(Merged)
         /\ ~Empty(read) => Pixels(read) \subseteq Pixels(Merged)
         /\ marking # "idle" => ~Empty(Merged)
<1>1. read \in Words /\ mine \in Words /\ (marking # "idle" => ~Empty(mine))
  BY DEF Types
<1>2. CASE Empty(read)
  BY <1>1, <1>2 DEF Merged, Extended
<1>3. CASE ~Empty(read)
  BY <1>1, <1>3, UnionHolds DEF Merged, Extended
<1>4. QED
  BY <1>2, <1>3

(* Nothing is a rectangle too, and the pixels of a rectangle are cut to    *)
(* the surface.                                                            *)
LEMMA NoRectFacts ==
  /\ NoRect \in Words
  /\ NoSnap \in [x : Int, y : Int, w : Nat, h : Nat, seq : Nat]
  /\ \A r \in Words : Pixels(r) \subseteq Surface
<1>1. NoRect \in Words
  BY DEF NoRect, Words
<1>2. NoSnap \in [x : Int, y : Int, w : Nat, h : Nat, seq : Nat]
  BY DEF NoSnap
<1>3. ASSUME NEW r \in Words PROVE Pixels(r) \subseteq Surface
  <2>1. /\ r.x \in Int /\ r.y \in Int /\ r.w \in Int /\ r.h \in Int
        /\ Width \in Int /\ Height \in Int
    BY SurfacesAssumption DEF Words
  <2>2. /\ High(r.x, 0) .. Low(r.x + r.w, Width) - 1 \subseteq 0 .. Width - 1
        /\ High(r.y, 0) .. Low(r.y + r.h, Height) - 1 \subseteq 0 .. Height - 1
    BY <2>1 DEF High, Low
  <2>3. QED
    BY <2>2 DEF Pixels, PointsOf, Surface
<1>4. QED
  BY <1>1, <1>2, <1>3

(* At the start nothing is marked, and the first frame copies everything.  *)
LEMMA InitFacts ==
  Init => IInv
<1> SUFFICES ASSUME Init PROVE IInv
  OBVIOUS
<1>1. Types
  <2>1. /\ damage \in Words /\ mine \in Words /\ read \in Words
        /\ snap \in [x : Int, y : Int, w : Nat, h : Nat, seq : Nat]
        /\ overlapped \in BOOLEAN /\ dirty \subseteq Surface
    BY NoRectFacts DEF Init
  <2>2. seq \in Nat /\ taken \in 0 .. seq
    BY DEF Init
  <2>3. QED
    BY <2>1, <2>2 DEF Init, Types
<1>2. Apart
  BY DEF Init, Apart, ReadInv, StoredInv, FreshInv, SnapInv, ClearInv, KeptInv, Stored,
         Snapped, Clearing
<1>3. QED
  BY <1>1, <1>2 DEF IInv

-----------------------------------------------------------------------------
(* The shell.                                                              *)

(* A new mark changes nothing that the marks before it rely on.            *)
LEMMA MarkFacts ==
  ASSUME IInv, NEW r \in Drawn, Mark(r)
  PROVE  IInv'
<1>1. r \in Words /\ ~Empty(r)
  BY SurfacesAssumption DEF Words, Rects, Empty
<1>2. Types'
  <2>1. overlapped' \in BOOLEAN /\ dirty' \subseteq Surface
    BY <1>1, NoRectFacts DEF IInv, Types, Mark
  <2>2. QED
    BY <1>1, <2>1, NoRectFacts DEF IInv, Types, Mark, compositorVars, shared, Empty
<1>3. SUFFICES ASSUME ~overlapped' PROVE Apart'
  BY <1>2 DEF IInv
<1>4. ~overlapped /\ ~Clearing /\ Apart
  BY <1>3 DEF IInv, Mark
<1>5. ReadInv' /\ StoredInv' /\ FreshInv'
  BY <1>4 DEF Apart, ReadInv, StoredInv, FreshInv, Mark, Stored, Empty, compositorVars,
              shared
<1>6. SnapInv'
  BY <1>4 DEF Apart, SnapInv, Mark, Snapped, Stored, compositorVars, shared
<1>7. ClearInv'
  BY <1>4 DEF Apart, ClearInv, Mark, Clearing, compositorVars, shared
<1>8. ASSUME NEW p \in dirty' PROVE Kept(p)'
  <2>1. /\ marking = "idle" /\ marking' = "read w" /\ mine' = r
        /\ damage' = damage /\ seq' = seq /\ taken' = taken /\ plan' = plan /\ snap' = snap
        /\ p \in dirty \/ p \in Pixels(r)
    BY <1>8 DEF Mark, compositorVars, shared
  <2>2. CASE p \in Pixels(r)
    BY <2>1, <2>2 DEF Kept, Pixels
  <2>3. CASE p \in dirty
    BY <1>4, <2>1, <2>3 DEF Apart, KeptInv, Kept, Storing, Stored, Pixels
  <2>4. QED
    BY <2>1, <2>2, <2>3
<1>9. QED
  BY <1>5, <1>6, <1>7, <1>8 DEF Apart, KeptInv

(* A load leaves damage, and what will be copied, alone.                   *)
LEMMA ReadFacts ==
  ASSUME IInv, Reads
  PROVE  IInv'
<1>1. PICK word \in {"w", "h", "x", "y"} :
        /\ read' = [read EXCEPT ![word] = damage[word]]
        /\ \/ word = "w" /\ marking = "read w" /\ marking' = "read h"
           \/ /\ word = "h" /\ marking = "read h"
              /\ marking' = IF read.w = 0 \/ damage.h = 0 THEN "x" ELSE "read x"
           \/ word = "x" /\ marking = "read x" /\ marking' = "read y"
           \/ word = "y" /\ marking = "read y" /\ marking' = "x"
  BY DEF Reads, ReadWord
<1>2. /\ damage' = damage /\ seq' = seq /\ mine' = mine /\ frame' = frame
      /\ snap' = snap /\ taken' = taken /\ plan' = plan /\ dirty' = dirty
      /\ overlapped' = overlapped
  BY DEF Reads, ReadWord, shared, compositorVars
<1>3. read' \in Words
  BY <1>1 DEF IInv, Types, Words
<1>4. Types'
  BY <1>1, <1>2, <1>3 DEF IInv, Types, Empty
<1>5. SUFFICES ASSUME ~overlapped PROVE Apart'
  BY <1>2, <1>4 DEF IInv
<1>6. Apart /\ ~Stored /\ ~Stored' /\ ~Storing /\ marking' # "idle" /\ marking # "idle"
  BY <1>1, <1>5 DEF IInv, Stored, Storing
<1>7. /\ read.x \in Int /\ read.y \in Int /\ read.w \in Nat /\ read.h \in Nat
  BY DEF IInv, Types, Words
<1>8. ReadInv'
  <2>1. /\ damage.x \in Int /\ damage.y \in Int /\ damage.w \in Nat /\ damage.h \in Nat
        /\ ReadInv
    BY <1>6 DEF IInv, Types, Words, Apart
  <2>2. CASE word = "w"
    BY <1>1, <1>2, <1>3, <1>7, <2>1, <2>2 DEF ReadInv, Words
  <2>3. CASE word = "h"
    <3>1. read' = [read EXCEPT !.h = damage.h] /\ read'.w = read.w /\ read'.h = damage.h
      BY <1>1, <2>3 DEF IInv, Types, Words
    <3>2. QED
      BY <1>1, <1>2, <1>7, <2>1, <2>3, <3>1 DEF ReadInv, Empty
  <2>4. CASE word = "x"
    <3>1. read'.x = damage.x /\ read'.w = read.w /\ read'.h = read.h
      BY <1>1, <2>4 DEF IInv, Types, Words
    <3>2. QED
      BY <1>1, <1>2, <1>7, <2>1, <2>4, <3>1 DEF ReadInv, Empty
  <2>5. CASE word = "y"
    <3>1. /\ read'.y = damage.y /\ read'.x = read.x
          /\ read'.w = read.w /\ read'.h = read.h
      BY <1>1, <2>5 DEF IInv, Types, Words
    <3>2. QED
      BY <1>1, <1>2, <1>7, <2>1, <2>5, <3>1 DEF ReadInv, Empty
  <2>6. QED
    BY <1>1, <2>2, <2>3, <2>4, <2>5
<1>9. StoredInv' /\ FreshInv'
  BY <1>1, <1>2, <1>6 DEF Apart, StoredInv, FreshInv, Stored, Empty
<1>10. SnapInv' /\ ClearInv'
  BY <1>2, <1>6 DEF Apart, SnapInv, ClearInv, Snapped, Clearing
<1>11. KeptInv'
  BY <1>2, <1>6 DEF Apart, KeptInv, Kept, Pixels
<1>12. QED
  BY <1>8, <1>9, <1>10, <1>11 DEF Apart

(* A store tears damage, but what it showed is in the union being stored.  *)
LEMMA StoreFacts ==
  ASSUME IInv, Stores
  PROVE  IInv'
<1>1. PICK word \in {"w", "h", "x", "y"} :
        /\ damage' = [damage EXCEPT ![word] = Merged[word]]
        /\ marking = word
        /\ \/ word = "x" /\ marking' = "y"
           \/ word = "y" /\ marking' = "w"
           \/ word = "w" /\ marking' = "h"
           \/ word = "h" /\ marking' = "commit"
  BY DEF Stores, StoreWord
<1>2. /\ read' = read /\ seq' = seq /\ mine' = mine /\ frame' = frame
      /\ snap' = snap /\ taken' = taken /\ plan' = plan /\ dirty' = dirty
      /\ overlapped' = overlapped
  BY DEF Stores, StoreWord, compositorVars
<1>3. Merged' = Merged
  BY <1>2 DEF Merged
<1>4. /\ Merged \in Words /\ ~Empty(Merged)
      /\ ~Empty(read) => Pixels(read) \subseteq Pixels(Merged)
  BY <1>1, MergedHolds DEF IInv
<1>5. damage' \in Words
  BY <1>1, <1>4 DEF IInv, Types, Words
<1>6. Types'
  BY <1>1, <1>2, <1>5 DEF IInv, Types, Empty
<1>7. SUFFICES ASSUME ~overlapped PROVE Apart'
  BY <1>2, <1>6 DEF IInv
<1>8. Apart /\ Stored' /\ Storing /\ Storing' /\ ~Clearing
  BY <1>1, <1>7 DEF IInv, Stored, Storing, Apart, ClearInv
<1>9. ReadInv'
  BY <1>1 DEF ReadInv
<1>10. /\ damage.w \in Nat /\ damage.h \in Nat /\ read.w \in Nat /\ read.h \in Nat
       /\ Merged.w > 0 /\ Merged.h > 0
  <2>1. Merged.w \in Nat /\ Merged.h \in Nat
    BY <1>4 DEF Words
  <2>2. Merged.w > 0 /\ Merged.h > 0
    <3> HIDE DEF Merged
    <3> QED
      BY <1>4, <2>1 DEF Empty
  <2>3. QED
    BY <2>2 DEF IInv, Types, Words
<1>11. seq # taken => ~Empty(read)
  BY <1>1, <1>8 DEF Apart, ReadInv, StoredInv, FreshInv, Stored, Empty
<1>12. StoredInv'
  <2>1. \A other \in {"x", "y", "w", "h"} :
          damage'[other] = IF other = word THEN Merged[other] ELSE damage[other]
    BY <1>1 DEF IInv, Types, Words
  <2>2. /\ damage'.x = IF word = "x" THEN Merged.x ELSE damage.x
        /\ damage'.y = IF word = "y" THEN Merged.y ELSE damage.y
        /\ damage'.w = IF word = "w" THEN Merged.w ELSE damage.w
        /\ damage'.h = IF word = "h" THEN Merged.h ELSE damage.h
    BY <2>1
  <2>3. ReadInv /\ StoredInv
    BY <1>8 DEF Apart
  <2>4. QED
    BY <1>1, <1>2, <1>3, <1>11, <2>2, <2>3 DEF ReadInv, StoredInv, Empty
<1>13. FreshInv'
  BY <1>1, <1>2, <1>8, <1>10, <1>11 DEF Apart, FreshInv, StoredInv, Empty
<1>14. SnapInv' /\ ClearInv'
  BY <1>1, <1>2, <1>8 DEF Apart, SnapInv, ClearInv, Snapped, Clearing
<1>15. ASSUME NEW p \in dirty' PROVE Kept(p)'
  <2>1. Kept(p)
    BY <1>2, <1>8 DEF Apart, KeptInv
  <2>2. CASE ~Stored /\ seq # taken /\ p \in Pixels(damage)
    <3>1. marking = "x" /\ ~Empty(read)
      BY <1>1, <1>11, <2>2 DEF Stored
    <3>2. Pixels(damage) = Pixels(read)
      BY <1>8, <3>1, SamePixels DEF Apart, ReadInv
    <3>3. p \in Pixels(Merged)
      BY <1>4, <2>2, <3>1, <3>2
    <3>4. QED
      BY <1>3, <1>8, <3>3 DEF Kept, Pixels
  <2>3. CASE ~(~Stored /\ seq # taken /\ p \in Pixels(damage))
    BY <1>1, <1>2, <1>3, <1>8, <2>1, <2>3 DEF Kept, Pixels
  <2>4. QED
    BY <2>2, <2>3
<1>16. QED
  BY <1>9, <1>12, <1>13, <1>14, <1>15 DEF Apart, KeptInv

(* The number of the mark makes the union the damage to take next.         *)
LEMMA CommitFacts ==
  ASSUME IInv, Commit
  PROVE  IInv'
<1>1. /\ marking = "commit" /\ marking' = "idle" /\ seq' = seq + 1 /\ mine' = NoRect
      /\ read' = NoRect /\ damage' = damage /\ frame' = frame /\ snap' = snap
      /\ taken' = taken /\ plan' = plan /\ dirty' = dirty /\ overlapped' = overlapped
  BY DEF Commit, compositorVars
<1>2. /\ Merged \in Words /\ ~Empty(Merged)
      /\ Pixels(mine) \subseteq Pixels(Merged)
  BY <1>1, MergedHolds DEF IInv
<1>3. Types'
  <2>1. seq \in Nat /\ taken \in 0 .. seq
    BY DEF IInv, Types
  <2>2. taken' \in 0 .. seq' /\ seq' \in Nat
    BY <1>1, <2>1
  <2>3. QED
    BY <1>1, <2>2, NoRectFacts DEF IInv, Types
<1>4. SUFFICES ASSUME ~overlapped PROVE Apart'
  BY <1>1, <1>3 DEF IInv
<1>5. Apart /\ ~Stored' /\ ~Clearing /\ seq \in Nat /\ taken \in 0 .. seq /\ snap.seq \in Nat
  BY <1>1, <1>4 DEF IInv, Stored, Apart, ClearInv, Types
<1>6. ReadInv' /\ StoredInv'
  BY <1>1, <1>5 DEF ReadInv, StoredInv
<1>7. damage.x = Merged.x /\ damage.y = Merged.y /\ damage.w = Merged.w /\ damage.h = Merged.h
  BY <1>1, <1>5 DEF Apart, StoredInv
<1>8. Pixels(damage) = Pixels(Merged) /\ ~Empty(damage)
  BY <1>2, <1>7, SamePixels
<1>9. FreshInv'
  BY <1>1, <1>8 DEF FreshInv, Empty
<1>10. SnapInv'
  BY <1>1, <1>5 DEF Apart, SnapInv, Snapped
<1>11. ClearInv'
  BY <1>1, <1>5 DEF Apart, ClearInv, Clearing
<1>12. ASSUME NEW p \in dirty' PROVE Kept(p)'
  <2>1. Kept(p) /\ seq' # taken'
    BY <1>1, <1>5 DEF Apart, KeptInv
  <2>2. CASE p \in Pixels(mine) \/ p \in Pixels(Merged)
    BY <1>1, <1>2, <1>5, <1>8, <2>1, <2>2 DEF Kept, Pixels
  <2>3. CASE plan = "all" \/ (plan = "rect" /\ p \in Pixels(snap))
    BY <1>1, <2>3 DEF Kept, Pixels
  <2>4. QED
    BY <1>1, <2>1, <2>2, <2>3 DEF Kept, Stored
<1>13. QED
  BY <1>6, <1>9, <1>10, <1>11, <1>12 DEF Apart, KeptInv

-----------------------------------------------------------------------------
(* The compositor.                                                         *)

(* A frame starts with nothing planned, or with the whole window.          *)
LEMMA StartFacts ==
  ASSUME IInv, NEW switched \in BOOLEAN, NEW front \in BOOLEAN, Start(switched, front)
  PROVE  IInv'
<1>1. /\ frame = "start" /\ frame' = "seq" /\ plan' \in {plan, "all"}
      /\ damage' = damage /\ seq' = seq /\ marking' = marking /\ mine' = mine
      /\ read' = read /\ snap' = snap /\ taken' = taken /\ dirty' = dirty
      /\ overlapped' = overlapped
  BY DEF Start, shared, shellVars
<1>2. Types'
  BY <1>1 DEF IInv, Types, Empty
<1>3. SUFFICES ASSUME ~overlapped PROVE Apart'
  BY <1>1, <1>2 DEF IInv
<1>4. Apart /\ (Stored' <=> Stored) /\ (Storing' <=> Storing) /\ Merged' = Merged
  BY <1>1, <1>3 DEF IInv, Stored, Storing, Merged
<1>5. ReadInv' /\ StoredInv' /\ FreshInv'
  BY <1>1, <1>4 DEF Apart, ReadInv, StoredInv, FreshInv, Empty
<1>6. SnapInv' /\ ClearInv'
  BY <1>1, <1>4 DEF Apart, SnapInv, ClearInv, Snapped, Clearing
<1>7. KeptInv'
  BY <1>1, <1>4 DEF Apart, KeptInv, Kept, Pixels
<1>8. QED
  BY <1>5, <1>6, <1>7 DEF Apart

(* The steps of the snapshot, another try and a frame with no new mark     *)
(* change the snapshot only, which nobody relies on then.                  *)
LEMMA SnapFacts ==
  ASSUME IInv, Snaps \/ Retry \/ NoDamage
  PROVE  IInv'
<1>1. /\ damage' = damage /\ seq' = seq /\ marking' = marking /\ mine' = mine
      /\ read' = read /\ taken' = taken /\ plan' = plan /\ dirty' = dirty
      /\ overlapped' = overlapped
  BY DEF Snaps, SnapWord, Retry, NoDamage, shared, shellVars
<1>2. /\ damage \in Words /\ seq \in Nat
      /\ snap \in [x : Int, y : Int, w : Nat, h : Nat, seq : Nat]
      /\ plan \in {"none", "rect", "all"}
  BY DEF IInv, Types
<1>3. snap' \in [x : Int, y : Int, w : Nat, h : Nat, seq : Nat]
  BY <1>2 DEF Snaps, SnapWord, Retry, NoDamage, NoSnap, Words
<1>4. /\ frame \in {"seq", "x", "y", "w", "h", "again"}
      /\ frame' \in {"start", "seq", "x", "y", "w", "h", "again", "copy"}
      /\ frame' = "x" => frame = "seq" /\ snap' = [snap EXCEPT !.seq = seq]
      /\ frame' = "y" => frame = "x" /\ snap' = [snap EXCEPT !.x = damage.x]
      /\ frame' = "w" => frame = "y" /\ snap' = [snap EXCEPT !.y = damage.y]
      /\ frame' = "h" => frame = "w" /\ snap' = [snap EXCEPT !.w = damage.w]
      /\ frame' = "again" => frame = "h" /\ snap' = [snap EXCEPT !.h = damage.h]
  BY DEF Snaps, SnapWord, Retry, NoDamage
<1>5. Types'
  BY <1>1, <1>3, <1>4 DEF IInv, Types, Empty
<1>6. SUFFICES ASSUME ~overlapped PROVE Apart'
  BY <1>1, <1>5 DEF IInv
<1>7. /\ Apart /\ (Stored' <=> Stored) /\ (Storing' <=> Storing) /\ Merged' = Merged
      /\ plan # "rect"
  BY <1>1, <1>4, <1>6 DEF IInv, Stored, Storing, Merged, Apart, ClearInv, Clearing
<1>8. ReadInv' /\ StoredInv' /\ FreshInv'
  BY <1>1, <1>7 DEF Apart, ReadInv, StoredInv, FreshInv, Empty
<1>9. SnapInv'
  <2>1. SnapInv /\ damage' = damage /\ seq' = seq /\ (Stored' <=> Stored)
    BY <1>1, <1>7 DEF Apart
  <2>2. CASE frame' \in {"start", "seq", "copy"}
    BY <2>2 DEF SnapInv, Snapped
  <2>3. CASE frame' = "x"
    BY <1>2, <1>4, <2>1, <2>3 DEF SnapInv, Snapped
  <2>4. CASE frame' \in {"y", "w", "h", "again"}
    BY <1>2, <1>4, <2>1, <2>4 DEF SnapInv, Snapped
  <2>5. QED
    BY <1>4, <2>2, <2>3, <2>4
<1>10. ClearInv'
  BY <1>1, <1>4, <1>7 DEF ClearInv, Clearing
<1>11. KeptInv'
  BY <1>1, <1>7 DEF Apart, KeptInv, Kept, Pixels
<1>12. QED
  BY <1>8, <1>9, <1>10, <1>11 DEF Apart

(* A snapshot of whole marks shows what they left in damage; of a torn one *)
(* the pixels are in the mark that tears it.                               *)
LEMMA NewDamageFacts ==
  ASSUME IInv, NewDamage
  PROVE  IInv'
<1>1. /\ frame = "again" /\ frame' = "clear" /\ seq = snap.seq /\ taken' = snap.seq
      /\ snap.seq # taken /\ plan' = Planned
      /\ damage' = damage /\ seq' = seq /\ marking' = marking /\ mine' = mine
      /\ read' = read /\ snap' = snap /\ dirty' = dirty /\ overlapped' = overlapped
  BY DEF NewDamage, shared, shellVars
<1>2. Planned \in {"all", "rect"}
  BY DEF Planned
<1>3. Types'
  <2>1. seq \in Nat
    BY DEF IInv, Types
  <2>2. taken' \in 0 .. seq'
    BY <1>1, <2>1
  <2>3. QED
    BY <1>1, <1>2, <2>2 DEF IInv, Types, Empty
<1>4. SUFFICES ASSUME ~overlapped PROVE Apart'
  BY <1>1, <1>3 DEF IInv
<1>5. /\ Apart /\ (Stored' <=> Stored) /\ (Storing' <=> Storing) /\ Merged' = Merged
      /\ plan # "rect" /\ seq' = taken'
  BY <1>1, <1>4 DEF IInv, Stored, Storing, Merged, Apart, ClearInv, Clearing
<1>6. ReadInv' /\ StoredInv' /\ FreshInv'
  BY <1>1, <1>5 DEF Apart, ReadInv, StoredInv, FreshInv, Empty
<1>7. SnapInv' /\ ClearInv'
  BY <1>1, <1>5 DEF Apart, SnapInv, ClearInv, Snapped, Clearing
<1>8. ASSUME NEW p \in dirty' PROVE Kept(p)'
  <2>1. Kept(p)
    BY <1>1, <1>5 DEF Apart, KeptInv
  <2>2. CASE ~Stored /\ seq # taken /\ p \in Pixels(damage)
    <3>1. Pixels(snap) = Pixels(damage)
      BY <1>1, <1>5, <2>2, SamePixels DEF Apart, SnapInv, Snapped
    <3>2. QED
      BY <1>1, <1>2, <2>2, <3>1 DEF Kept, Pixels
  <2>3. CASE ~(~Stored /\ seq # taken /\ p \in Pixels(damage))
    <3>1. plan = "all" => plan' = "all"
      BY <1>1 DEF Planned
    <3>2. QED
      BY <1>1, <1>5, <2>1, <2>3, <3>1 DEF Kept, Pixels
  <2>4. QED
    BY <2>2, <2>3
<1>9. QED
  BY <1>6, <1>7, <1>8 DEF Apart, KeptInv

(* What is cleared has been taken, unless a mark overlaps.                 *)
LEMMA ClearFacts ==
  ASSUME IInv, Clears
  PROVE  IInv'
<1>1. /\ seq' = seq /\ marking' = marking /\ mine' = mine /\ read' = read
      /\ snap' = snap /\ taken' = taken /\ plan' = plan /\ dirty' = dirty
  BY DEF Clears, ClearBegins, ClearWord, shared, shellVars
<1>2. /\ damage' \in Words
      /\ frame' \in {"x = 0", "y = 0", "w = 0", "h = 0", "copy"}
      /\ overlapped' \in BOOLEAN
  <2>1. damage \in Words /\ overlapped \in BOOLEAN
    BY DEF IInv, Types
  <2>2. CASE ClearBegins
    <3>1. damage' = damage /\ frame' \in {"x = 0", "copy"}
      BY <2>2 DEF ClearBegins, shared
    <3>2. overlapped' \in BOOLEAN
      BY <2>1, <2>2 DEF ClearBegins
    <3>3. QED
      BY <2>1, <3>1, <3>2
  <2>3. CASE ~ClearBegins
    <3>1. PICK word \in {"x", "y", "w", "h"} : damage' = [damage EXCEPT ![word] = 0]
      BY <2>3 DEF Clears, ClearWord
    <3>2. damage' \in Words
      BY <2>1, <3>1 DEF Words
    <3>3. /\ overlapped' = overlapped
          /\ frame' \in {"x = 0", "y = 0", "w = 0", "h = 0", "copy"}
      BY <2>3 DEF Clears, ClearWord
    <3>4. QED
      BY <2>1, <3>2, <3>3
  <2>4. QED
    BY <2>2, <2>3
<1>3. Types'
  BY <1>1, <1>2 DEF IInv, Types, Empty
<1>4. SUFFICES ASSUME ~overlapped' PROVE Apart'
  BY <1>3 DEF IInv
<1>5. /\ Apart /\ (Stored' <=> Stored) /\ (Storing' <=> Storing) /\ Merged' = Merged
      /\ frame = "clear" \/ Clearing
  BY <1>1, <1>4 DEF IInv, Stored, Storing, Merged, Clears, ClearBegins, ClearWord, Clearing
<1>6. CASE ClearBegins /\ frame' = "copy"
  <2>1. damage' = damage
    BY <1>6 DEF ClearBegins, shared
  <2>2. ReadInv' /\ StoredInv' /\ FreshInv'
    BY <1>1, <1>5, <2>1 DEF Apart, ReadInv, StoredInv, FreshInv, Empty
  <2>3. SnapInv' /\ ClearInv'
    BY <1>6 DEF SnapInv, ClearInv, Snapped, Clearing
  <2>4. KeptInv'
    BY <1>1, <1>5, <2>1 DEF Apart, KeptInv, Kept, Pixels
  <2>5. QED
    BY <2>2, <2>3, <2>4 DEF Apart
<1>7. CASE ~(ClearBegins /\ frame' = "copy")
  <2>1. marking = "idle" /\ seq = taken
    BY <1>4, <1>5, <1>7 DEF Apart, ClearInv, Clears, ClearBegins, ClearWord, Clearing, Current
  <2>2. ReadInv' /\ StoredInv' /\ FreshInv'
    BY <1>1, <2>1 DEF ReadInv, StoredInv, FreshInv, Stored
  <2>3. SnapInv' /\ ClearInv'
    BY <1>1, <1>2, <2>1 DEF SnapInv, ClearInv, Snapped, Clearing
  <2>4. KeptInv'
    BY <1>1, <1>5, <2>1 DEF Apart, KeptInv, Kept, Pixels, Storing, Stored
  <2>5. QED
    BY <2>2, <2>3, <2>4 DEF Apart
<1>8. QED
  BY <1>6, <1>7

(* What is dirty after the copy was not in it.                             *)
LEMMA CopyFacts ==
  ASSUME IInv, Copy
  PROVE  IInv'
<1>1. /\ frame = "copy" /\ frame' = "start" /\ plan' = "none" /\ snap' = NoSnap
      /\ dirty' = dirty \ Copied
      /\ damage' = damage /\ seq' = seq /\ marking' = marking /\ mine' = mine
      /\ read' = read /\ taken' = taken /\ overlapped' = overlapped
  BY DEF Copy, shared, shellVars
<1>2. Types'
  BY <1>1, NoRectFacts DEF IInv, Types, Empty
<1>3. SUFFICES ASSUME ~overlapped PROVE Apart'
  BY <1>1, <1>2 DEF IInv
<1>4. Apart /\ (Stored' <=> Stored) /\ (Storing' <=> Storing) /\ Merged' = Merged
  BY <1>1, <1>3 DEF IInv, Stored, Storing, Merged
<1>5. ReadInv' /\ StoredInv' /\ FreshInv'
  BY <1>1, <1>4 DEF Apart, ReadInv, StoredInv, FreshInv, Empty
<1>6. SnapInv' /\ ClearInv'
  BY <1>1, <1>4 DEF Apart, SnapInv, ClearInv, Snapped, Clearing
<1>7. KeptInv'
  <2>1. dirty \subseteq Surface
    BY DEF IInv, Types
  <2>2. QED
    BY <1>1, <1>4, <2>1 DEF Apart, KeptInv, Kept, Pixels, Copied
<1>8. QED
  BY <1>5, <1>6, <1>7 DEF Apart

-----------------------------------------------------------------------------
(* The invariant holds of every step.                                      *)
LEMMA NextFacts ==
  ASSUME IInv, [Next]_vars
  PROVE  IInv'
<1>1. CASE \E r \in Drawn : Mark(r)
  BY <1>1, MarkFacts
<1>2. CASE Reads
  BY <1>2, ReadFacts
<1>3. CASE Stores
  BY <1>3, StoreFacts
<1>4. CASE Commit
  BY <1>4, CommitFacts
<1>5. CASE \E switched, front \in BOOLEAN : Start(switched, front)
  BY <1>5, StartFacts
<1>6. CASE Snaps \/ Retry \/ NoDamage
  BY <1>6, SnapFacts
<1>7. CASE NewDamage
  BY <1>7, NewDamageFacts
<1>8. CASE Clears
  BY <1>8, ClearFacts
<1>9. CASE Copy
  BY <1>9, CopyFacts
<1>10. CASE UNCHANGED vars
  <2>1. /\ damage' = damage /\ seq' = seq /\ marking' = marking /\ mine' = mine
        /\ read' = read /\ frame' = frame /\ snap' = snap /\ taken' = taken
        /\ plan' = plan /\ dirty' = dirty /\ overlapped' = overlapped
    BY <1>10 DEF vars, shared, shellVars, compositorVars
  <2>2. Types'
    BY <2>1 DEF IInv, Types, Empty
  <2>3. /\ (Stored' <=> Stored) /\ (Storing' <=> Storing) /\ Merged' = Merged
        /\ (Clearing' <=> Clearing)
    BY <2>1 DEF Stored, Storing, Merged, Clearing
  <2>4. ReadInv' = ReadInv
    BY <2>1, <2>3 DEF ReadInv, Empty
  <2>5. StoredInv' = StoredInv
    BY <2>1, <2>3 DEF StoredInv, Empty
  <2>6. FreshInv' = FreshInv
    BY <2>1, <2>3 DEF FreshInv, Empty
  <2>7. SnapInv' = SnapInv
    BY <2>1, <2>3 DEF SnapInv, Snapped
  <2>8. ClearInv' = ClearInv
    BY <2>1, <2>3 DEF ClearInv
  <2>9. KeptInv' = KeptInv
    <3>1. \A p : Kept(p)' = Kept(p)
      BY <2>1, <2>3 DEF Kept, Pixels
    <3>2. QED
      BY <2>1, <3>1 DEF KeptInv
  <2>10. Apart' = Apart
    BY <2>4, <2>5, <2>6, <2>7, <2>8, <2>9 DEF Apart
  <2>11. QED
    BY <2>1, <2>2, <2>10 DEF IInv
<1>11. QED
  BY <1>1, <1>2, <1>3, <1>4, <1>5, <1>6, <1>7, <1>8, <1>9, <1>10 DEF Next

(* Whatever the ticks interrupt, damage is torn only where the union that  *)
(* is being stored stands in for it, as long as no mark overlaps a clear.  *)
THEOREM Invariance == Spec => []IInv
<1>1. Init => IInv
  BY InitFacts
<1>2. IInv /\ [Next]_vars => IInv'
  BY NextFacts
<1>3. QED
  BY <1>1, <1>2, PTL DEF Spec

(* No rectangle that the shell marks is lost: each of its pixels stays in  *)
(* the mark, in damage or in what the compositor copies in this frame, as  *)
(* long as no mark overlaps the stores of clear_surface_damage.            *)
THEOREM NoDamageLost == Spec => []DamageNotLost
<1>1. IInv => DamageNotLost
  BY DEF IInv, Apart, KeptInv, Kept, Storing, Stored, DamageNotLost, WillBeCopied
<1>2. QED
  BY <1>1, Invariance, PTL
=============================================================================
