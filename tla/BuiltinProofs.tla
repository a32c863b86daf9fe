---------------------------- MODULE BuiltinProofs ---------------------------
(***************************************************************************)
(* What holds of the built-in tasks.  On the desktop, for any size of      *)
(* page, windows and screen and any keys: the shell's line is its command, *)
(* and after a frame the screen shows each layer where it belongs, or      *)
(* damage that will be drawn.  At the end, on the MCP bridge, for any      *)
(* bytes, sizes and number of tasks: its rows are those of the tasks, and  *)
(* it answers every line once and in order.                                *)
(***************************************************************************)
EXTENDS Desktop, Mcp, FiniteSetTheorems, SequenceTheorems, TLAPS

-----------------------------------------------------------------------------
(* Rectangles on the page.                                                 *)
Words == [x : Int, y : Int, w : Nat, h : Nat]

Lit(r) == PointsOf(r, Cols, Rows)

(* Extended, as merge_surface_damage and extend_rect compute it, loses no  *)
(* point of either rectangle, on a surface of any size.                    *)
LEMMA UnionHolds ==
  ASSUME NEW r \in Words, NEW s \in Words, NEW w \in Int, NEW h \in Int
  PROVE  /\ Union(r, s) \in Words
         /\ PointsOf(r, w, h) \subseteq PointsOf(Union(r, s), w, h)
         /\ PointsOf(s, w, h) \subseteq PointsOf(Union(r, s), w, h)
         /\ ~Empty(r) \/ ~Empty(s) => ~Empty(Union(r, s))
<1> DEFINE u == Union(r, s)
<1>1. /\ u.x \in Int /\ u.x <= r.x /\ u.x <= s.x
      /\ u.y \in Int /\ u.y <= r.y /\ u.y <= s.y
      /\ u.w \in Int /\ u.x + u.w >= r.x + r.w /\ u.x + u.w >= s.x + s.w
      /\ u.h \in Int /\ u.y + u.h >= r.y + r.h /\ u.y + u.h >= s.y + s.h
  BY DEF Union, Low, High, Words
<1>2. u \in Words
  BY <1>1 DEF Union, Words
<1>3. ASSUME NEW b \in {r, s}
      PROVE  PointsOf(b, w, h) \subseteq PointsOf(u, w, h)
  <2>1. /\ b.x \in Int /\ b.w \in Int /\ u.x <= b.x /\ u.x + u.w >= b.x + b.w
        /\ b.y \in Int /\ b.h \in Int /\ u.y <= b.y /\ u.y + u.h >= b.y + b.h
    BY <1>1 DEF Words
  <2> HIDE DEF u
  <2>2. High(b.x, 0) .. Low(b.x + b.w, w) - 1 \subseteq High(u.x, 0) .. Low(u.x + u.w, w) - 1
    BY <1>1, <2>1 DEF High, Low
  <2>3. High(b.y, 0) .. Low(b.y + b.h, h) - 1 \subseteq High(u.y, 0) .. Low(u.y + u.h, h) - 1
    BY <1>1, <2>1 DEF High, Low
  <2>4. QED
    BY <2>2, <2>3 DEF PointsOf
<1>4. ~Empty(r) \/ ~Empty(s) => ~Empty(u)
  <2> HIDE DEF u
  <2>1. /\ s.w \in Nat /\ s.h \in Nat /\ s.x \in Int /\ s.y \in Int
        /\ r.w \in Nat /\ r.h \in Nat /\ r.x \in Int /\ r.y \in Int
    BY DEF Words
  <2>2. u.x \in Int /\ u.w \in Int /\ u.y \in Int /\ u.h \in Int
    BY <1>1
  <2>3. CASE ~Empty(r)
    <3>1. r.w > 0 /\ r.h > 0
      BY <2>1, <2>3 DEF Empty
    <3>2. u.w > 0 /\ u.h > 0
      BY <1>1, <2>1, <2>2, <3>1
    <3>3. QED
      BY <2>2, <3>2 DEF Empty
  <2>4. CASE ~Empty(s)
    <3>1. s.w > 0 /\ s.h > 0
      BY <2>1, <2>4 DEF Empty
    <3>2. u.w > 0 /\ u.h > 0
      BY <1>1, <2>1, <2>2, <3>1
    <3>3. QED
      BY <2>2, <3>2 DEF Empty
  <2>5. QED
    BY <2>3, <2>4
<1>5. QED
  BY <1>2, <1>3, <1>4

(* Nothing has no point, whatever its corner.                              *)
LEMMA EmptyIsDark ==
  ASSUME NEW r \in Words, Empty(r), NEW w \in Int, NEW h \in Int
  PROVE  PointsOf(r, w, h) = {}
<1>1. /\ r.x \in Int /\ r.y \in Int /\ r.w \in Nat /\ r.h \in Nat
      /\ r.w = 0 \/ r.h = 0
  BY DEF Words, Empty
<1>2. CASE r.w = 0
  <2>1. High(r.x, 0) .. Low(r.x + r.w, w) - 1 = {}
    BY <1>1, <1>2 DEF High, Low
  <2>2. QED
    BY <2>1 DEF PointsOf
<1>3. CASE r.h = 0
  <2>1. High(r.y, 0) .. Low(r.y + r.h, h) - 1 = {}
    BY <1>1, <1>3 DEF High, Low
  <2>2. QED
    BY <2>1 DEF PointsOf
<1>4. QED
  BY <1>1, <1>2, <1>3

(* Growing a damage by another rectangle, which may be nothing, loses      *)
(* nothing of either.                                                      *)
LEMMA ExtendedHolds ==
  ASSUME NEW r \in Words, NEW s \in Words, NEW w \in Int, NEW h \in Int
  PROVE  /\ Extended(r, s) \in Words
         /\ PointsOf(r, w, h) \subseteq PointsOf(Extended(r, s), w, h)
         /\ PointsOf(s, w, h) \subseteq PointsOf(Extended(r, s), w, h)
         /\ ~Empty(r) \/ ~Empty(s) => ~Empty(Extended(r, s))
<1>1. CASE Empty(r)
  BY <1>1, EmptyIsDark DEF Extended
<1>2. CASE ~Empty(r)
  BY <1>2, UnionHolds DEF Extended
<1>3. QED
  BY <1>1, <1>2

-----------------------------------------------------------------------------
(* The shell's page.                                                       *)
Glyphs == Letters \cup {Blank, Smear, ">", "answer"}

Texts == [text : [Cells -> Glyphs], cx : Nat, cy : 0 .. Rows - 1,
          command : Seq(Letters), damage : Words]

Clean(q) == \A cell \in Cells : q.text[cell] # Smear
BlankBelow(q) == \A cell \in Cells : cell[2] > q.cy => q.text[cell] = Blank
BlankFrom(q) == \A cell \in Cells : cell[2] >= q.cy => q.text[cell] = Blank

(* What has changed from q to r is in the damage of r, and so is what was  *)
(* in the damage of q.                                                     *)
Marks(q, r) ==
  \A cell \in Cells :
    r.text[cell] # q.text[cell] \/ cell \in Lit(q.damage) => cell \in Lit(r.damage)

(* The sizes of the page, and what a printable character is not.           *)
LEMMA PageSizes ==
  /\ Cols \in Nat /\ Cols > 2 /\ Rows \in Nat /\ Rows >= 2 /\ PromptX = 2
  /\ Smear # Blank /\ Smear # ">" /\ Smear # "answer" /\ Smear \notin Letters
  BY TerminalAssumption DEF PromptX, Smear, Blank

(* The line and the body of the page, and a cell, are lit as a whole.      *)
LEMMA LitRects ==
  /\ \A y \in 0 .. Rows - 1 :
       /\ Line(y) \in Words /\ ~Empty(Line(y))
       /\ \A cell \in Cells : cell[2] = y => cell \in Lit(Line(y))
  /\ Body \in Words /\ ~Empty(Body) /\ \A cell \in Cells : cell \in Lit(Body)
  /\ \A cell \in Cells :
       /\ Cell(cell[1], cell[2]) \in Words /\ ~Empty(Cell(cell[1], cell[2]))
       /\ Lit(Cell(cell[1], cell[2])) = {cell}
<1> USE PageSizes
<1>1. ASSUME NEW cell \in Cells
      PROVE  /\ cell[1] \in 0 .. Cols - 1 /\ cell[2] \in 0 .. Rows - 1
             /\ cell = <<cell[1], cell[2]>>
  BY DEF Cells
<1>2. ASSUME NEW y \in 0 .. Rows - 1
      PROVE  /\ Line(y) \in Words /\ ~Empty(Line(y))
             /\ \A cell \in Cells : cell[2] = y => cell \in Lit(Line(y))
  <2>1. Line(y) \in Words /\ ~Empty(Line(y))
    BY DEF Line, Words, Empty
  <2>2. Lit(Line(y)) = (0 .. Cols - 1) \X (y .. y)
    <3>1. High(0, 0) .. Low(0 + Cols, Cols) - 1 = 0 .. Cols - 1
      BY DEF High, Low
    <3>2. High(y, 0) .. Low(y + 1, Rows) - 1 = y .. y
      BY DEF High, Low
    <3>3. QED
      BY <3>1, <3>2 DEF Lit, PointsOf, Line
  <2>3. QED
    BY <1>1, <2>1, <2>2
<1>3. Body \in Words /\ ~Empty(Body) /\ \A cell \in Cells : cell \in Lit(Body)
  <2>1. Body \in Words /\ ~Empty(Body)
    BY DEF Body, Words, Empty
  <2>2. Lit(Body) = Cells
    <3>1. High(0, 0) .. Low(0 + Cols, Cols) - 1 = 0 .. Cols - 1
      BY DEF High, Low
    <3>2. High(0, 0) .. Low(0 + Rows, Rows) - 1 = 0 .. Rows - 1
      BY DEF High, Low
    <3>3. QED
      BY <3>1, <3>2 DEF Lit, PointsOf, Body, Cells
  <2>3. QED
    BY <2>1, <2>2
<1>4. ASSUME NEW cell \in Cells
      PROVE  /\ Cell(cell[1], cell[2]) \in Words /\ ~Empty(Cell(cell[1], cell[2]))
             /\ Lit(Cell(cell[1], cell[2])) = {cell}
  <2>1. Cell(cell[1], cell[2]) \in Words /\ ~Empty(Cell(cell[1], cell[2]))
    BY <1>1 DEF Cell, Words, Empty
  <2>2. Lit(Cell(cell[1], cell[2])) = (cell[1] .. cell[1]) \X (cell[2] .. cell[2])
    <3>1. High(cell[1], 0) .. Low(cell[1] + 1, Cols) - 1 = cell[1] .. cell[1]
      BY <1>1 DEF High, Low
    <3>2. High(cell[2], 0) .. Low(cell[2] + 1, Rows) - 1 = cell[2] .. cell[2]
      BY <1>1 DEF High, Low
    <3>3. QED
      BY <3>1, <3>2 DEF Lit, PointsOf, Cell
  <2>3. cell[1] .. cell[1] = {cell[1]} /\ cell[2] .. cell[2] = {cell[2]}
    BY <1>1
  <2>4. QED
    BY <1>1, <2>1, <2>2, <2>3
<1>5. QED
  BY <1>2, <1>3, <1>4

(* Damage grows by the rectangle that is marked.                           *)
LEMMA DamagedFacts ==
  ASSUME NEW q \in Texts, NEW r \in Words
  PROVE  /\ Damaged(q, r) \in Texts
         /\ Damaged(q, r).text = q.text /\ Damaged(q, r).cx = q.cx
         /\ Damaged(q, r).cy = q.cy /\ Damaged(q, r).command = q.command
         /\ Lit(q.damage) \cup Lit(r) \subseteq Lit(Damaged(q, r).damage)
         /\ ~Empty(r) => ~Empty(Damaged(q, r).damage)
<1>1. q.damage \in Words
  BY DEF Texts
<1> DEFINE new == Extended(q.damage, r)
<1>2. /\ new \in Words /\ Lit(q.damage) \cup Lit(r) \subseteq Lit(new)
      /\ ~Empty(r) => ~Empty(new)
  <2>1. Cols \in Int /\ Rows \in Int
    BY PageSizes
  <2>2. QED
    BY <1>1, <2>1, ExtendedHolds DEF Lit
<1>3. Damaged(q, r) = [q EXCEPT !.damage = new]
  BY DEF Damaged
<1> HIDE DEF new
<1>4. QED
  BY <1>1, <1>2, <1>3 DEF Texts

(* shell_advance_line: the next line, or the first one of an empty page.   *)
LEMMA AdvanceFacts ==
  ASSUME NEW q \in Texts, Clean(q), BlankBelow(q)
  PROVE  /\ AdvanceLine(q) \in Texts /\ Clean(AdvanceLine(q)) /\ BlankFrom(AdvanceLine(q))
         /\ AdvanceLine(q).cx = q.cx /\ AdvanceLine(q).command = q.command
         /\ Marks(q, AdvanceLine(q))
<1>1. CASE q.cy + 1 < Rows
  <2> DEFINE next == [q EXCEPT !.cy = @ + 1]
  <2>1. AdvanceLine(q) = next
    BY <1>1 DEF AdvanceLine
  <2>2. /\ next \in Texts /\ next.text = q.text /\ next.cx = q.cx /\ next.cy = q.cy + 1
        /\ next.command = q.command /\ next.damage = q.damage
    BY <1>1, PageSizes DEF Texts
  <2> HIDE DEF next
  <2>3. BlankFrom(next)
    <3>1. ASSUME NEW cell \in Cells, cell[2] >= next.cy PROVE next.text[cell] = Blank
      <4>1. cell[2] \in Int /\ q.cy \in Int
        BY PageSizes DEF Cells, Texts
      <4>2. cell[2] > q.cy
        BY <2>2, <3>1, <4>1
      <4>3. QED
        BY <2>2, <4>2 DEF BlankBelow
    <3>2. QED
      BY <3>1 DEF BlankFrom
  <2>4. QED
    BY <2>1, <2>2, <2>3 DEF Clean, Marks
<1>2. CASE ~(q.cy + 1 < Rows)
  <2> DEFINE erased == [q EXCEPT !.cy = 0, !.text = Erased(@, Body)]
  <2>1. AdvanceLine(q) = Damaged(erased, Body)
    BY <1>2 DEF AdvanceLine
  <2>2. Erased(q.text, Body) = [cell \in Cells |-> Blank]
    BY LitRects DEF Erased, Lit
  <2>3. /\ erased \in Texts /\ erased.text = [cell \in Cells |-> Blank] /\ erased.cy = 0
        /\ erased.cx = q.cx /\ erased.command = q.command /\ erased.damage = q.damage
    <3>1. [cell \in Cells |-> Blank] \in [Cells -> Glyphs]
      BY DEF Glyphs
    <3>2. 0 \in 0 .. Rows - 1
      BY PageSizes
    <3>3. QED
      BY <2>2, <3>1, <3>2 DEF Texts
  <2> HIDE DEF erased
  <2>4. Body \in Words /\ \A cell \in Cells : cell \in Lit(Body)
    BY LitRects
  <2> DEFINE last == Damaged(erased, Body)
  <2>5. /\ last \in Texts /\ last.text = erased.text /\ last.cx = erased.cx
        /\ last.cy = erased.cy /\ last.command = erased.command
        /\ Lit(erased.damage) \cup Lit(Body) \subseteq Lit(last.damage)
    BY <2>3, <2>4, DamagedFacts
  <2> HIDE DEF last
  <2>6. \A cell \in Cells : last.text[cell] = Blank
    BY <2>3, <2>5
  <2>7. Clean(last)
    BY <2>6, PageSizes DEF Clean
  <2>8. BlankFrom(last)
    BY <2>6 DEF BlankFrom
  <2>9. Marks(q, last)
    BY <2>4, <2>5 DEF Marks
  <2>10. QED
    BY <2>1, <2>3, <2>5, <2>7, <2>8, <2>9 DEF last
<1>3. QED
  BY <1>1, <1>2

(* shell_print_line: the answer is the whole line, and the next is blank.  *)
LEMMA PrintFacts ==
  ASSUME NEW q \in Texts, Clean(q), BlankBelow(q)
  PROVE  /\ PrintLine(q) \in Texts /\ Clean(PrintLine(q)) /\ BlankFrom(PrintLine(q))
         /\ PrintLine(q).cx = q.cx /\ PrintLine(q).command = q.command
         /\ Marks(q, PrintLine(q))
<1> DEFINE filled == [cell \in Cells |-> IF cell[2] = q.cy THEN "answer" ELSE q.text[cell]]
           shown == [q EXCEPT !.text = filled]
           lined == Damaged(shown, Line(q.cy))
<1>1. PrintLine(q) = AdvanceLine(lined)
  BY DEF PrintLine
<1>2. filled \in [Cells -> Glyphs]
  BY DEF Texts, Glyphs
<1>3. /\ shown \in Texts /\ shown.text = filled /\ shown.cx = q.cx /\ shown.cy = q.cy
      /\ shown.command = q.command /\ shown.damage = q.damage
  <2> HIDE DEF filled
  <2>1. QED
    BY <1>2 DEF Texts
<1>4. q.cy \in 0 .. Rows - 1 /\ Line(q.cy) \in Words
  BY LitRects DEF Texts
<1>5. Clean(shown) /\ BlankBelow(shown)
  <2>1. \A cell \in Cells : cell[2] > q.cy => cell[2] # q.cy
    BY PageSizes DEF Texts, Cells
  <2> HIDE DEF shown
  <2>2. QED
    BY <1>3, <2>1, PageSizes DEF Clean, BlankBelow
<1> HIDE DEF shown
<1>6. /\ lined \in Texts /\ lined.text = filled /\ lined.cx = q.cx /\ lined.cy = q.cy
      /\ lined.command = q.command
      /\ Lit(q.damage) \cup Lit(Line(q.cy)) \subseteq Lit(lined.damage)
  BY <1>3, <1>4, DamagedFacts
<1> HIDE DEF lined
<1>7. Clean(lined) /\ BlankBelow(lined)
  BY <1>3, <1>5, <1>6 DEF Clean, BlankBelow
<1>8. Marks(q, lined)
  BY <1>4, <1>6, LitRects DEF Marks
<1>9. /\ AdvanceLine(lined) \in Texts /\ Clean(AdvanceLine(lined))
      /\ BlankFrom(AdvanceLine(lined))
      /\ AdvanceLine(lined).cx = q.cx /\ AdvanceLine(lined).command = q.command
      /\ Marks(lined, AdvanceLine(lined))
  BY <1>6, <1>7, AdvanceFacts
<1>10. Marks(q, AdvanceLine(lined))
  BY <1>8, <1>9 DEF Marks
<1>11. QED
  BY <1>1, <1>9, <1>10

(* A set of numbers that has 0, and the next number of each it has, has    *)
(* them all: no chain of numbers without goes down for ever.               *)
LEMMA AllNumbers ==
  ASSUME NEW T, 0 \in T, \A i \in T : i \in Nat => i + 1 \in T
  PROVE  Nat \subseteq T
<1> SUFFICES ASSUME NEW n \in Nat, n \notin T PROVE FALSE
  OBVIOUS
<1> DEFINE Left == (0 .. n) \ T
           down == [i \in Left |-> i - 1]
<1>1. IsFiniteSet(Left)
  <2>1. IsFiniteSet(0 .. n)
    BY FS_Interval
  <2>2. QED
    BY <2>1, FS_Subset
<1>2. ASSUME NEW i \in Left PROVE i - 1 \in Left
  <2>1. i \in 0 .. n /\ i \notin T /\ i # 0
    OBVIOUS
  <2>2. i - 1 \in 0 .. n /\ i - 1 \in Nat /\ (i - 1) + 1 = i
    BY <2>1
  <2>3. i - 1 \notin T
    BY <2>1, <2>2
  <2>4. QED
    BY <2>2, <2>3
<1>3. down \in Injection(Left, Left)
  <2>1. down \in [Left -> Left]
    BY <1>2
  <2>2. \A i, j \in Left : i - 1 = j - 1 => i = j
    OBVIOUS
  <2>3. QED
    BY <2>1, <2>2 DEF Injection, IsInjective
<1>4. down \in Surjection(Left, Left)
  BY <1>1, <1>3, FS_Injection
<1>5. n \in Left
  OBVIOUS
<1>6. PICK i \in Left : down[i] = n
  BY <1>4, <1>5 DEF Surjection
<1>7. i - 1 = n /\ i \in 0 .. n
  BY <1>6
<1>8. QED
  BY <1>7

(* shell_run_command: what every line it prints keeps, it keeps.           *)
LEMMA RunKeeps ==
  ASSUME NEW Kept, NEW q \in Kept, NEW n \in Nat, \A r \in Kept : PrintLine(r) \in Kept
  PROVE  RunCommand(q, n) \in Kept
<1> DEFINE Printed(k, f) ==
             f = [i \in 0 .. k |-> IF i = 0 THEN q ELSE PrintLine(f[i - 1])]
           Reached == {k \in Nat : (\E f : Printed(k, f))
                                     /\ \A f : Printed(k, f) => f[k] \in Kept}
<1>1. 0 \in Reached
  <2>1. Printed(0, [i \in 0 .. 0 |-> q])
    <3>1. \A i \in 0 .. 0 : i = 0
      OBVIOUS
    <3>2. [i \in 0 .. 0 |-> q] = [i \in 0 .. 0 |->
             IF i = 0 THEN q ELSE PrintLine([j \in 0 .. 0 |-> q][i - 1])]
      BY <3>1
    <3>3. QED
      BY <3>2
  <2>2. ASSUME NEW f, Printed(0, f) PROVE f[0] \in Kept
    <3>1. f[0] = q
      BY <2>2
    <3>2. QED
      BY <3>1
  <2> HIDE DEF Printed
  <2>3. QED
    BY <2>1, <2>2
<1>2. ASSUME NEW k \in Reached, k \in Nat PROVE k + 1 \in Reached
  <2>1. PICK f : Printed(k, f)
    OBVIOUS
  <2> DEFINE g == [i \in 0 .. k + 1 |-> IF i = k + 1 THEN PrintLine(f[k]) ELSE f[i]]
  <2>2. Printed(k + 1, g)
    <3>1. \A i \in 0 .. k : f[i] = IF i = 0 THEN q ELSE PrintLine(f[i - 1])
      BY <2>1
    <3>2. ASSUME NEW i \in 0 .. k + 1
          PROVE  g[i] = IF i = 0 THEN q ELSE PrintLine(g[i - 1])
      <4>1. CASE i = k + 1
        <5>1. i # 0 /\ i - 1 = k /\ k \in 0 .. k + 1 /\ k # k + 1
          BY <1>2, <4>1
        <5>2. g[i] = PrintLine(f[k]) /\ g[k] = f[k]
          BY <4>1, <5>1
        <5>3. QED
          BY <5>1, <5>2
      <4>2. CASE i # k + 1
        <5>1. i \in 0 .. k /\ (i # 0 => i - 1 \in 0 .. k + 1 /\ i - 1 # k + 1)
          BY <1>2, <4>2
        <5>2. g[i] = f[i] /\ (i # 0 => g[i - 1] = f[i - 1])
          BY <4>2, <5>1
        <5>3. QED
          BY <3>1, <5>1, <5>2
      <4>3. QED
        BY <4>1, <4>2
    <3>3. QED
      BY <3>2
  <2>3. ASSUME NEW h, Printed(k + 1, h) PROVE h[k + 1] \in Kept
    <3> DEFINE e == [i \in 0 .. k |-> h[i]]
    <3>1. \A i \in 0 .. k + 1 : h[i] = IF i = 0 THEN q ELSE PrintLine(h[i - 1])
      BY <2>3
    <3>2. Printed(k, e)
      <4>1. \A i \in 0 .. k : i \in 0 .. k + 1 /\ (i # 0 => i - 1 \in 0 .. k)
        BY <1>2
      <4>2. \A i \in 0 .. k : e[i] = IF i = 0 THEN q ELSE PrintLine(e[i - 1])
        BY <3>1, <4>1
      <4>3. QED
        BY <4>2
    <3>3. e[k] = h[k] /\ k + 1 # 0 /\ (k + 1) - 1 = k /\ k + 1 \in 0 .. k + 1
      BY <1>2
    <3>4. h[k] \in Kept
      <4> HIDE DEF Printed, e
      <4> QED
        BY <3>2, <3>3
    <3>5. QED
      BY <3>1, <3>3, <3>4
  <2>4. k + 1 \in Nat
    BY <1>2
  <2> HIDE DEF Printed, g
  <2>5. QED
    BY <2>2, <2>3, <2>4
<1>3. n \in Reached
  <2> HIDE DEF Reached
  <2> QED
    BY <1>1, <1>2, AllNumbers
<1> DEFINE printed[i \in 0 .. n] == IF i = 0 THEN q ELSE PrintLine(printed[i - 1])
<1>4. Printed(n, printed)
  <2>1. \E f : Printed(n, f)
    BY <1>3
  <2>2. printed = CHOOSE f : Printed(n, f)
    BY DEF printed
  <2> HIDE DEF Printed, printed
  <2>3. QED
    BY <2>1, <2>2
<1>5. RunCommand(q, n) = printed[n]
  BY DEF RunCommand
<1> HIDE DEF Printed, printed
<1>6. QED
  BY <1>3, <1>4, <1>5

-----------------------------------------------------------------------------
(* The shell's keys.                                                       *)

(* Ahead of the cursor the page is blank, and left of it is the command.   *)
BlankAhead(q) ==
  \A cell \in Cells :
    cell[2] > q.cy \/ (cell[2] = q.cy /\ cell[1] >= q.cx) => q.text[cell] = Blank

ShowsLine(q) ==
  \A i \in 1 .. Low(Len(q.command), q.cx) :
    q.text[<<q.cx - i, q.cy>>] = q.command[Len(q.command) + 1 - i]

PageInv(q) == q \in Texts /\ PageShowsCommand(q)

(* PageShowsCommand, part by part.                                         *)
LEMMA PageParts ==
  ASSUME NEW q
  PROVE  PageShowsCommand(q) <=> q.cx < Cols /\ ShowsLine(q) /\ Clean(q) /\ BlankAhead(q)
  BY DEF PageShowsCommand, ShowsLine, Clean, BlankAhead

(* Below the cursor's line the page is blank.                              *)
LEMMA BelowIsBlank ==
  ASSUME NEW q, BlankAhead(q) \/ BlankFrom(q), q \in Texts
  PROVE  BlankBelow(q)
<1>1. \A cell \in Cells : cell[2] > q.cy => cell[2] >= q.cy
  BY PageSizes DEF Cells, Texts
<1>2. QED
  BY <1>1 DEF BlankAhead, BlankFrom, BlankBelow

(* What two steps of a key draw is marked if each marks its own.           *)
LEMMA GrowsTrans ==
  ASSUME NEW q, NEW r, NEW s, Marks(q, r), Marks(r, s)
  PROVE  Marks(q, s)
  BY DEF Marks

(* shell_draw_prompt: the prompt is drawn on a blank line.                 *)
LEMMA PromptFacts ==
  ASSUME NEW q \in Texts, Clean(q), BlankFrom(q)
  PROVE  /\ DrawPrompt(q) \in Texts /\ Clean(DrawPrompt(q)) /\ BlankAhead(DrawPrompt(q))
         /\ DrawPrompt(q).cx = PromptX /\ DrawPrompt(q).command = q.command
         /\ Marks(q, DrawPrompt(q)) /\ ~Empty(DrawPrompt(q).damage)
<1> DEFINE corner == <<0, q.cy>>
           drawn == Drawn(q.text, corner, ">")
           shown == [q EXCEPT !.text = drawn, !.cx = PromptX]
           prompt == [x |-> 0, y |-> q.cy, w |-> 2, h |-> 1]
           final == Damaged(shown, prompt)
<1>1. DrawPrompt(q) = final
  <2>1. DrawPrompt(q) = Damaged([q EXCEPT !.text = drawn, !.cx = PromptX], prompt)
    BY DEF DrawPrompt
  <2>2. QED
    BY <2>1
<1>2. corner \in Cells /\ corner[1] = 0 /\ corner[2] = q.cy
  BY PageSizes DEF Cells, Texts
<1>3. q.text \in [Cells -> Glyphs] /\ q.text[corner] = Blank
  <2>1. q.cy \in Int
    BY PageSizes DEF Texts
  <2>2. corner[2] >= q.cy
    BY <1>2, <2>1
  <2>3. QED
    BY <1>2, <2>2 DEF BlankFrom, Texts
<1> HIDE DEF corner
<1>4. /\ drawn \in [Cells -> Glyphs]
      /\ \A cell \in Cells : drawn[cell] = IF cell = corner THEN ">" ELSE q.text[cell]
  BY <1>2, <1>3 DEF Drawn, Glyphs
<1> HIDE DEF drawn
<1>5. /\ shown \in Texts /\ shown.text = drawn /\ shown.cx = PromptX /\ shown.cy = q.cy
      /\ shown.command = q.command /\ shown.damage = q.damage
  BY <1>4, PageSizes DEF Texts
<1> HIDE DEF shown
<1>6. prompt \in Words /\ ~Empty(prompt) /\ corner \in Lit(prompt)
  <2>1. q.cy \in 0 .. Rows - 1 /\ Rows \in Nat /\ Cols \in Nat /\ Cols > 2
    BY PageSizes DEF Texts
  <2>2. prompt \in Words /\ ~Empty(prompt)
    BY <2>1 DEF Words, Empty
  <2>3. 0 \in High(0, 0) .. Low(0 + 2, Cols) - 1
    BY <2>1 DEF High, Low
  <2>4. q.cy \in High(q.cy, 0) .. Low(q.cy + 1, Rows) - 1
    BY <2>1 DEF High, Low
  <2>5. QED
    BY <2>2, <2>3, <2>4 DEF Lit, PointsOf, corner
<1> HIDE DEF prompt
<1>7. /\ final \in Texts /\ final.text = drawn /\ final.cx = PromptX /\ final.cy = q.cy
      /\ final.command = q.command /\ ~Empty(final.damage)
      /\ Lit(q.damage) \cup Lit(prompt) \subseteq Lit(final.damage)
  BY <1>5, <1>6, DamagedFacts
<1> HIDE DEF final
<1>8. Clean(final)
  BY <1>4, <1>7, PageSizes DEF Clean
<1>9. BlankAhead(final)
  <2>1. ASSUME NEW cell \in Cells,
               cell[2] > q.cy \/ (cell[2] = q.cy /\ cell[1] >= PromptX)
        PROVE  drawn[cell] = Blank
    <3>1. cell[1] \in Int /\ cell[2] \in Int /\ q.cy \in Int
      BY PageSizes DEF Cells, Texts
    <3>2. cell # corner /\ cell[2] >= q.cy
      BY <1>2, <2>1, <3>1, PageSizes
    <3>3. QED
      BY <1>4, <3>2 DEF BlankFrom
  <2>2. QED
    BY <1>7, <2>1 DEF BlankAhead
<1>10. Marks(q, final)
  BY <1>4, <1>6, <1>7 DEF Marks
<1>11. QED
  BY <1>1, <1>7, <1>8, <1>9, <1>10

(* The shell starts with its prompt on an empty page.                      *)
LEMMA StartedFacts ==
  /\ PageInv(Started) /\ ~Empty(Started.damage)
  /\ Started.damage \in Words
<1>1. NewPage \in Texts /\ Clean(NewPage) /\ BlankFrom(NewPage) /\ NewPage.command = <<>>
  <2>1. /\ [cell \in Cells |-> Blank] \in [Cells -> Glyphs] /\ 0 \in 0 .. Rows - 1
        /\ NoRect \in Words /\ <<>> \in Seq(Letters)
    BY PageSizes DEF Glyphs, NoRect, Words
  <2>2. QED
    BY <2>1, PageSizes DEF NewPage, Texts, Clean, BlankFrom
<1>2. /\ Started \in Texts /\ Clean(Started) /\ BlankAhead(Started) /\ Started.cx = PromptX
      /\ Started.command = <<>> /\ ~Empty(Started.damage)
  BY <1>1, PromptFacts DEF Started
<1>3. ShowsLine(Started)
  <2>1. 1 .. Low(0, PromptX) = {}
    BY PageSizes DEF Low
  <2>2. QED
    BY <1>2, <2>1 DEF ShowsLine
<1>4. QED
  BY <1>2, <1>3, PageParts, PageSizes DEF PageInv, Texts

(* Enter: below the command come its answers, and a prompt on a blank line.*)
LEMMA EnterFacts ==
  ASSUME NEW q, PageInv(q), NEW n \in Nat
  PROVE  PageInv(Enter(q, n)) /\ Marks(q, Enter(q, n))
<1> DEFINE Printed == {r \in Texts : Clean(r) /\ BlankFrom(r) /\ Marks(q, r)}
           below == AdvanceLine(q)
           run == RunCommand(below, n)
           done == DrawPrompt(run)
<1>1. q \in Texts /\ Clean(q) /\ BlankBelow(q)
  BY PageParts, BelowIsBlank DEF PageInv
<1>2. below \in Printed
  BY <1>1, AdvanceFacts
<1>3. ASSUME NEW r \in Printed PROVE PrintLine(r) \in Printed
  <2>1. r \in Texts /\ Clean(r) /\ BlankFrom(r) /\ Marks(q, r)
    OBVIOUS
  <2>2. BlankBelow(r)
    BY <2>1, BelowIsBlank
  <2>3. /\ PrintLine(r) \in Texts /\ Clean(PrintLine(r)) /\ BlankFrom(PrintLine(r))
        /\ Marks(r, PrintLine(r))
    BY <2>1, <2>2, PrintFacts
  <2>4. Marks(q, PrintLine(r))
    BY <2>1, <2>3, GrowsTrans
  <2>5. QED
    BY <2>3, <2>4
<1>4. run \in Printed
  <2> HIDE DEF Printed, below
  <2> QED
    BY <1>2, <1>3, RunKeeps
<1>5. run \in Texts /\ Clean(run) /\ BlankFrom(run) /\ Marks(q, run)
  BY <1>4
<1> HIDE DEF run
<1>6. /\ done \in Texts /\ Clean(done) /\ BlankAhead(done) /\ done.cx = PromptX
      /\ Marks(run, done)
  BY <1>5, PromptFacts
<1>7. Marks(q, done)
  BY <1>5, <1>6, GrowsTrans
<1>8. Enter(q, n) = [done EXCEPT !.command = <<>>]
  BY DEF Enter, run
<1> DEFINE final == [done EXCEPT !.command = <<>>]
<1> HIDE DEF done
<1>9. /\ final \in Texts /\ final.text = done.text /\ final.cx = PromptX
      /\ final.cy = done.cy /\ final.command = <<>> /\ final.damage = done.damage
  <2>1. <<>> \in Seq(Letters)
    OBVIOUS
  <2>2. QED
    BY <1>6, <2>1 DEF Texts
<1> HIDE DEF final
<1>10. Clean(final) /\ BlankAhead(final) /\ Marks(q, final)
  BY <1>6, <1>7, <1>9 DEF Clean, BlankAhead, Marks
<1>11. ShowsLine(final)
  <2>1. 1 .. Low(0, PromptX) = {}
    BY PageSizes DEF Low
  <2>2. QED
    BY <1>9, <2>1 DEF ShowsLine
<1>12. PageShowsCommand(final)
  BY <1>9, <1>10, <1>11, PageParts, PageSizes
<1>13. QED
  BY <1>8, <1>9, <1>10, <1>12 DEF PageInv, final

(* A character: it stands on a blank cell, and the cursor behind it, on    *)
(* the next line if that was the last column.                              *)
LEMMA TypeFacts ==
  ASSUME NEW q, PageInv(q), NEW letter \in Letters
  PROVE  PageInv(Type(q, letter)) /\ Marks(q, Type(q, letter))
<1>1. CASE Len(q.command) >= MaxCommand
  BY <1>1 DEF Type, Marks
<1>2. CASE ~(Len(q.command) >= MaxCommand)
  <2> DEFINE corner == <<q.cx, q.cy>>
             drawn == Drawn(q.text, corner, letter)
             command == Append(q.command, letter)
             shown == [q EXCEPT !.text = drawn, !.command = command, !.cx = q.cx + 1]
             tile == Cell(q.cx, q.cy)
             wrapped == [AdvanceLine(shown) EXCEPT !.cx = 0]
             final == Damaged(IF shown.cx < Cols THEN shown ELSE wrapped, tile)
  <2>1. Type(q, letter) = final
    BY <1>2 DEF Type
  <2>2. /\ q \in Texts /\ q.cx \in 0 .. Cols - 1 /\ q.cy \in 0 .. Rows - 1
        /\ ShowsLine(q) /\ Clean(q) /\ BlankAhead(q) /\ q.command \in Seq(Letters)
        /\ Len(q.command) \in Nat
    BY PageParts, PageSizes DEF PageInv, Texts
  <2>3. corner \in Cells /\ corner[1] = q.cx /\ corner[2] = q.cy
    BY <2>2 DEF Cells
  <2>4. q.text \in [Cells -> Glyphs] /\ q.text[corner] = Blank
    <3>1. corner[1] >= q.cx
      BY <2>2, <2>3, PageSizes
    <3>2. QED
      BY <2>2, <2>3, <3>1 DEF BlankAhead, Texts
  <2>5. tile \in Words /\ Lit(tile) = {corner}
    BY <2>3, LitRects
  <2> HIDE DEF corner, tile
  <2>6. /\ drawn \in [Cells -> Glyphs]
        /\ \A cell \in Cells : drawn[cell] = IF cell = corner THEN letter ELSE q.text[cell]
    BY <2>3, <2>4 DEF Drawn, Glyphs
  <2>7. /\ command \in Seq(Letters) /\ Len(command) = Len(q.command) + 1
        /\ command[Len(command)] = letter
        /\ \A i \in 1 .. Len(q.command) : command[i] = q.command[i]
    BY <2>2
  <2> HIDE DEF drawn, command
  <2>8. /\ shown \in Texts /\ shown.text = drawn /\ shown.cx = q.cx + 1 /\ shown.cy = q.cy
        /\ shown.command = command /\ shown.damage = q.damage
    <3>1. q.cx + 1 \in Nat
      BY <2>2, PageSizes
    <3>2. QED
      BY <2>2, <2>6, <2>7, <3>1 DEF Texts
  <2> HIDE DEF shown
  <2>9. Clean(shown)
    BY <2>2, <2>6, <2>8, PageSizes DEF Clean
  <2>10. \A cell \in Cells :
           cell[2] > q.cy \/ (cell[2] = q.cy /\ cell[1] >= q.cx + 1) => drawn[cell] = Blank
    <3>1. ASSUME NEW cell \in Cells,
                 cell[2] > q.cy \/ (cell[2] = q.cy /\ cell[1] >= q.cx + 1)
          PROVE  drawn[cell] = Blank
      <4>1. cell[1] \in Int /\ cell[2] \in Int /\ q.cx \in Int /\ q.cy \in Int
        BY <2>2, PageSizes DEF Cells
      <4>2. cell # corner /\ (cell[2] > q.cy \/ (cell[2] = q.cy /\ cell[1] >= q.cx))
        BY <2>3, <3>1, <4>1
      <4>3. QED
        BY <2>2, <2>6, <4>2 DEF BlankAhead
    <3>2. QED
      BY <3>1
  <2>11. BlankAhead(shown)
    BY <2>8, <2>10 DEF BlankAhead
  <2>12. CASE q.cx + 1 < Cols
    <3>1. /\ final \in Texts /\ final.text = drawn /\ final.cx = q.cx + 1
          /\ final.cy = q.cy /\ final.command = command
          /\ Lit(q.damage) \cup Lit(tile) \subseteq Lit(final.damage)
      BY <2>5, <2>8, <2>12, DamagedFacts
    <3> HIDE DEF final
    <3>2. Clean(final) /\ BlankAhead(final)
      BY <2>8, <2>9, <2>11, <3>1 DEF Clean, BlankAhead
    <3>3. ASSUME NEW i \in 1 .. Low(Len(command), q.cx + 1)
          PROVE  drawn[<<q.cx + 1 - i, q.cy>>] = command[Len(command) + 1 - i]
      <4> DEFINE cell == <<q.cx + 1 - i, q.cy>>
      <4>1. i \in Nat /\ i >= 1 /\ i <= Len(q.command) + 1 /\ i <= q.cx + 1
        BY <2>2, <2>7, <3>3 DEF Low
      <4>2. cell \in Cells
        BY <2>2, <4>1, PageSizes DEF Cells
      <4>3. CASE i = 1
        <5>1. cell = corner /\ Len(command) + 1 - i = Len(command)
          BY <2>2, <2>7, <4>3 DEF corner
        <5>2. QED
          BY <2>6, <2>7, <4>2, <5>1
      <4>4. CASE i # 1
        <5>1. /\ i - 1 \in 1 .. Low(Len(q.command), q.cx)
              /\ q.cx - (i - 1) = q.cx + 1 - i
              /\ Len(command) + 1 - i = Len(q.command) + 1 - (i - 1)
              /\ Len(q.command) + 1 - (i - 1) \in 1 .. Len(q.command)
          <6>1. q.cx \in Int /\ Len(q.command) \in Int
            BY <2>2, PageSizes
          <6>2. i - 1 \in 1 .. Low(Len(q.command), q.cx)
            BY <4>1, <4>4, <6>1 DEF Low
          <6>3. q.cx - (i - 1) = q.cx + 1 - i
            BY <4>1, <6>1
          <6>4. Len(command) + 1 - i = Len(q.command) + 1 - (i - 1)
            BY <2>7, <4>1, <6>1
          <6>5. Len(q.command) + 1 - (i - 1) \in 1 .. Len(q.command)
            BY <4>1, <4>4, <6>1
          <6>6. QED
            BY <6>2, <6>3, <6>4, <6>5
        <5>2. q.text[cell] = q.command[Len(q.command) + 1 - (i - 1)]
          BY <2>2, <5>1 DEF ShowsLine
        <5>3. cell # corner
          BY <2>2, <4>1, <4>4 DEF corner
        <5>4. drawn[cell] = q.text[cell]
          BY <2>6, <4>2, <5>3
        <5>5. QED
          BY <2>7, <5>1, <5>2, <5>4
      <4>5. QED
        BY <4>3, <4>4
    <3>4. ShowsLine(final)
      <4>1. ASSUME NEW i \in 1 .. Low(Len(final.command), final.cx)
            PROVE  final.text[<<final.cx - i, final.cy>>]
                     = final.command[Len(final.command) + 1 - i]
        <5>1. Low(Len(final.command), final.cx) = Low(Len(command), q.cx + 1)
          BY <3>1
        <5>2. i \in 1 .. Low(Len(command), q.cx + 1)
          BY <5>1
        <5>3. drawn[<<q.cx + 1 - i, q.cy>>] = command[Len(command) + 1 - i]
          BY <3>3, <5>2
        <5>4. <<final.cx - i, final.cy>> = <<q.cx + 1 - i, q.cy>>
          <6>1. final.cx = q.cx + 1 /\ final.cy = q.cy /\ q.cx \in Int /\ i \in Int
            BY <2>2, <3>1, PageSizes
          <6>2. final.cx - i = q.cx + 1 - i
            BY <6>1
          <6>3. QED
            BY <6>1, <6>2
        <5>5. QED
          BY <3>1, <5>3, <5>4
      <4>2. QED
        BY <4>1 DEF ShowsLine
    <3>5. Marks(q, final)
      BY <2>5, <2>6, <3>1 DEF Marks
    <3>6. QED
      BY <2>1, <2>12, <3>1, <3>2, <3>4, <3>5, PageParts DEF PageInv
  <2>13. CASE ~(q.cx + 1 < Cols)
    <3> DEFINE advanced == AdvanceLine(shown)
    <3>1. BlankBelow(shown)
      BY <2>8, <2>11, BelowIsBlank
    <3>2. /\ advanced \in Texts /\ Clean(advanced) /\ BlankFrom(advanced)
          /\ advanced.command = command /\ Marks(shown, advanced)
      BY <2>8, <2>9, <3>1, AdvanceFacts
    <3>3. final = Damaged(wrapped, tile)
      BY <2>8, <2>13
    <3> HIDE DEF advanced, final
    <3>4. /\ wrapped \in Texts /\ wrapped.text = advanced.text /\ wrapped.cx = 0
          /\ wrapped.cy = advanced.cy /\ wrapped.command = command
          /\ wrapped.damage = advanced.damage
      <4>1. wrapped = [advanced EXCEPT !.cx = 0]
        BY DEF advanced
      <4> HIDE DEF wrapped
      <4>2. QED
        BY <3>2, <4>1 DEF Texts
    <3> HIDE DEF wrapped
    <3>5. /\ final \in Texts /\ final.text = advanced.text /\ final.cx = 0
          /\ final.cy = advanced.cy /\ final.command = command
          /\ Lit(advanced.damage) \cup Lit(tile) \subseteq Lit(final.damage)
      BY <2>5, <3>3, <3>4, DamagedFacts
    <3>6. Clean(final)
      BY <3>2, <3>5 DEF Clean
    <3>7. BlankAhead(final)
      <4>1. \A cell \in Cells : cell[2] > advanced.cy \/ cell[2] = advanced.cy =>
              cell[2] >= advanced.cy
        BY <3>2, PageSizes DEF Cells, Texts
      <4>2. QED
        BY <3>2, <3>5, <4>1 DEF BlankFrom, BlankAhead
    <3>8. ShowsLine(final)
      <4>1. 1 .. Low(Len(command), 0) = {}
        BY <2>2, <2>7 DEF Low
      <4>2. QED
        BY <3>5, <4>1 DEF ShowsLine
    <3>9. Marks(q, final)
      <4>1. ASSUME NEW cell \in Cells,
                   final.text[cell] # q.text[cell] \/ cell \in Lit(q.damage)
            PROVE  cell \in Lit(final.damage)
        <5>1. CASE cell = corner
          BY <2>5, <3>5, <5>1
        <5>2. CASE cell # corner
          BY <2>6, <2>8, <3>2, <3>5, <4>1, <5>2 DEF Marks
        <5>3. QED
          BY <5>1, <5>2
      <4>2. QED
        BY <4>1 DEF Marks
    <3>10. 0 < Cols
      BY PageSizes
    <3>11. QED
      BY <2>1, <3>5, <3>6, <3>7, <3>8, <3>9, <3>10, PageParts DEF PageInv
  <2>14. QED
    BY <2>12, <2>13
<1>3. QED
  BY <1>1, <1>2

(* Backspace: the character it erases is the last one of the command.      *)
LEMMA BackspaceFacts ==
  ASSUME NEW q, PageInv(q)
  PROVE  PageInv(Backspace(q)) /\ Marks(q, Backspace(q))
<1>1. CASE ~MayErase(q)
  BY <1>1 DEF Backspace, Marks
<1>2. CASE MayErase(q)
  <2> DEFINE last == Cell(q.cx - 1, q.cy)
             corner == <<q.cx - 1, q.cy>>
             command == SubSeq(q.command, 1, Len(q.command) - 1)
             erased == Erased(q.text, last)
             shown == [q EXCEPT !.command = command, !.cx = q.cx - 1, !.text = erased]
             final == Damaged(shown, last)
  <2>1. Backspace(q) = final
    BY <1>2 DEF Backspace
  <2>2. /\ q \in Texts /\ q.cx \in 3 .. Cols - 1 /\ q.cy \in 0 .. Rows - 1
        /\ ShowsLine(q) /\ Clean(q) /\ BlankAhead(q) /\ q.command \in Seq(Letters)
        /\ Len(q.command) \in Nat /\ Len(q.command) >= 1
    BY <1>2, PageParts, PageSizes DEF PageInv, Texts, MayErase
  <2>3. corner \in Cells /\ corner[1] = q.cx - 1 /\ corner[2] = q.cy
    BY <2>2, PageSizes DEF Cells
  <2>4. last \in Words /\ Lit(last) = {corner}
    BY <2>3, LitRects
  <2> HIDE DEF corner, last
  <2>5. /\ erased \in [Cells -> Glyphs]
        /\ \A cell \in Cells : erased[cell] = IF cell = corner THEN Blank ELSE q.text[cell]
    BY <2>2, <2>4 DEF Erased, Lit, Texts, Glyphs
  <2>6. /\ command \in Seq(Letters) /\ Len(command) = Len(q.command) - 1
        /\ \A i \in 1 .. Len(command) : command[i] = q.command[i]
    BY <2>2
  <2> HIDE DEF erased, command
  <2>7. /\ shown \in Texts /\ shown.text = erased /\ shown.cx = q.cx - 1 /\ shown.cy = q.cy
        /\ shown.command = command /\ shown.damage = q.damage
    <3>1. q.cx - 1 \in Nat
      BY <2>2, PageSizes
    <3>2. QED
      BY <2>2, <2>5, <2>6, <3>1 DEF Texts
  <2> HIDE DEF shown
  <2>8. /\ final \in Texts /\ final.text = erased /\ final.cx = q.cx - 1 /\ final.cy = q.cy
        /\ final.command = command /\ Lit(q.damage) \cup Lit(last) \subseteq Lit(final.damage)
    BY <2>4, <2>7, DamagedFacts
  <2> HIDE DEF final
  <2>9. Clean(final)
    BY <2>2, <2>5, <2>8, PageSizes DEF Clean
  <2>10. BlankAhead(final)
    <3>1. ASSUME NEW cell \in Cells,
                 cell[2] > q.cy \/ (cell[2] = q.cy /\ cell[1] >= q.cx - 1)
          PROVE  erased[cell] = Blank
      <4>1. /\ cell[1] \in Int /\ cell[2] \in Int /\ q.cx \in Int /\ q.cy \in Int
            /\ cell = <<cell[1], cell[2]>>
        BY <2>2, PageSizes DEF Cells
      <4>2. cell = corner \/ cell[2] > q.cy \/ (cell[2] = q.cy /\ cell[1] >= q.cx)
        BY <3>1, <4>1 DEF corner
      <4>3. QED
        BY <2>2, <2>5, <4>2 DEF BlankAhead
    <3>2. QED
      BY <2>8, <3>1 DEF BlankAhead
  <2>11. ShowsLine(final)
    <3>1. ASSUME NEW i \in 1 .. Low(Len(command), q.cx - 1)
          PROVE  erased[<<q.cx - 1 - i, q.cy>>] = command[Len(command) + 1 - i]
      <4>1. /\ i + 1 \in 1 .. Low(Len(q.command), q.cx)
            /\ q.cx - (i + 1) = q.cx - 1 - i
            /\ Len(command) + 1 - i = Len(q.command) + 1 - (i + 1)
            /\ Len(command) + 1 - i \in 1 .. Len(command)
        <5>1. /\ i \in Nat /\ i >= 1 /\ i <= Len(command) /\ i <= q.cx - 1
              /\ Len(command) \in Int /\ q.cx \in Int
          BY <2>2, <2>6, <3>1, PageSizes DEF Low
        <5>2. Len(q.command) = Len(command) + 1
          BY <2>2, <2>6
        <5>3. i + 1 \in 1 .. Low(Len(q.command), q.cx)
          BY <5>1, <5>2 DEF Low
        <5>4. /\ q.cx - (i + 1) = q.cx - 1 - i
              /\ Len(command) + 1 - i = Len(q.command) + 1 - (i + 1)
              /\ Len(command) + 1 - i \in 1 .. Len(command)
          BY <5>1, <5>2
        <5>5. QED
          BY <5>3, <5>4
      <4>2. q.text[<<q.cx - 1 - i, q.cy>>] = q.command[Len(command) + 1 - i]
        BY <2>2, <4>1 DEF ShowsLine
      <4>3. <<q.cx - 1 - i, q.cy>> \in Cells /\ <<q.cx - 1 - i, q.cy>> # corner
        <5>1. /\ i \in Int /\ i >= 1 /\ i <= q.cx - 1 /\ q.cx \in Int /\ q.cx <= Cols
              /\ q.cy \in 0 .. Rows - 1 /\ Cols \in Int
          BY <2>2, <2>6, <3>1, PageSizes DEF Low
        <5>2. q.cx - 1 - i \in 0 .. Cols - 1 /\ q.cx - 1 - i # q.cx - 1
          BY <5>1
        <5>3. QED
          BY <5>1, <5>2 DEF Cells, corner
      <4>4. QED
        BY <2>5, <2>6, <4>1, <4>2, <4>3
    <3>2. QED
      BY <2>8, <3>1 DEF ShowsLine
  <2>12. Marks(q, final)
    BY <2>4, <2>5, <2>8 DEF Marks
  <2>13. final.cx < Cols
    BY <2>2, <2>8, PageSizes
  <2>14. QED
    BY <2>1, <2>8, <2>9, <2>10, <2>11, <2>12, <2>13, PageParts DEF PageInv
<1>3. QED
  BY <1>1, <1>2

(* Whatever the key, the page stays right, and what has changed is marked. *)
LEMMA KeyFacts ==
  ASSUME NEW key \in Keys, PageInv(page), NEW new \in Pages(key)
  PROVE  PageInv(new) /\ Marks(page, new)
<1>1. CASE key = "enter"
  <2>1. PICK n \in LinesFor(page.command) : new = Enter(page, n)
    BY <1>1 DEF Pages
  <2>2. n \in Nat
    BY TerminalAssumption DEF LinesFor
  <2>3. QED
    BY <2>1, <2>2, EnterFacts
<1>2. CASE key = "backspace"
  <2>1. new = Backspace(page)
    BY <1>2 DEF Pages
  <2>2. QED
    BY <2>1, BackspaceFacts
<1>3. CASE key # "enter" /\ key # "backspace"
  <2>1. key \in Letters /\ new = Type(page, key)
    BY <1>3 DEF Keys, Pages
  <2>2. QED
    BY <2>1, TypeFacts
<1>4. QED
  BY <1>1, <1>2, <1>3

-----------------------------------------------------------------------------
(* The desktop.                                                            *)
LayerNames == {"desktop", "menu", "stats", "taskbar",
               "shell", "dash", "shell behind", "dash behind"}

Types ==
  /\ PageInv(page) /\ page.damage = NoRect
  /\ damage \in Words /\ copied \in Words
  /\ marked \in BOOLEAN /\ dashMarked \in BOOLEAN
  /\ phase \in {"keys", "draw"} /\ ws \in Windows
  /\ full \in BOOLEAN /\ activeFull \in BOOLEAN /\ inactiveFull \in BOOLEAN
  /\ presentAll \in BOOLEAN /\ chrome \subseteq AllChrome
  /\ top \in [Points -> LayerNames]
  /\ unpresented \subseteq Points

(* What a frame is asked to draw, and the marks of the shell.              *)
FrameInv ==
  /\ ~full => chrome = {}
  /\ full => {"stats", "taskbar"} \subseteq chrome
  /\ presentAll => /\ full /\ chrome = AllChrome /\ stale = {}
                   /\ \A p \in Points : top[p] = "desktop"
  /\ phase = "keys" /\ full => presentAll
  /\ phase = "keys" /\ ~full => ~activeFull /\ ~inactiveFull /\ Empty(copied)
  /\ marked => ~Empty(damage) \/ (phase = "keys" /\ presentAll)

(* Nothing is drawn outside its place.  Beyond the content, where no frame *)
(* cleans up, a window that has moved away may still be seen.              *)
PlaceInv ==
  /\ ~full => \A p \in Points \ Beyond : InOrder(p)
  /\ ~presentAll => \A p \in OnMenuBar : top[p] = "menu"
  /\ \A p \in Points :
       \/ p \in OnMenuBar \cup OnTaskbar \cup OnStats \cup OnContent \cup Beyond
       \/ top[p] = "desktop"
       \/ p \in OnBars /\ top[p] = "stats"
  /\ \A p \in Points : \A w, front \in Windows :
       top[p] = Layer[w][front] => p \in OnOuter[w][front]

(* The points of the front window that the copied text is shown at.        *)
Shown(r) ==
  Points \cap {<<ActiveX + cell[1], ActiveY + cell[2]>> : cell \in Lit(r)}

(* What has changed is marked, or this frame draws it.                     *)
Pending(p) ==
  /\ top[p] = "shell" => activeFull \/ p \in Shown(copied) \/ (marked /\ p \in Shown(damage))
  /\ top[p] = "shell behind" => inactiveFull \/ marked
  /\ top[p] = "dash" => activeFull \/ dashMarked

StaleInv ==
  /\ stale \subseteq Points
  /\ \A p \in stale : \E w, front \in Windows : top[p] = Layer[w][front]
  /\ ~full => \A p \in stale \ Beyond : Pending(p)

PresentInv == ~presentAll => unpresented \subseteq OnBars \cup Beyond

IInv == Types /\ FrameInv /\ PlaceInv /\ StaleInv /\ PresentInv

-----------------------------------------------------------------------------
(* The places on the screen.                                               *)
LEMMA Sizes ==
  /\ ScreenW \in Nat /\ ScreenH \in Nat /\ MenuH \in Nat /\ TaskbarH \in Nat
  /\ TitleH \in Nat /\ Border \in Nat /\ GapAbove \in Nat /\ GapBelow \in Nat
  /\ ShiftX \in Nat /\ ShiftY \in Nat
  /\ StatsX \in Nat /\ StatsY \in Nat /\ StatsW \in Nat /\ StatsH \in Nat
  /\ BarsBelow \in Nat /\ TaskbarY \in Nat /\ TaskbarY + TaskbarH = ScreenH
  /\ MenuH <= StatsY /\ StatsY + StatsH <= TaskbarY
  /\ ContentTop \in Nat /\ ContentTop >= MenuH + Border /\ ContentH \in Nat
  /\ ContentH = 0 \/ ContentTop + ContentH <= TaskbarY
  /\ ActiveX \in Nat /\ ActiveY \in Nat /\ ActiveY >= ContentTop + TitleH
<1>1. /\ ScreenW \in Nat /\ ScreenH \in Nat /\ MenuH \in Nat /\ TaskbarH \in Nat
      /\ TitleH \in Nat /\ Border \in Nat /\ GapAbove \in Nat /\ GapBelow \in Nat
      /\ ShiftX \in Nat /\ ShiftY \in Nat /\ StatsX \in Nat /\ StatsY \in Nat
      /\ StatsW \in Nat /\ StatsH \in Nat /\ BarsBelow \in Nat
      /\ Cols <= ScreenW /\ Border <= GapAbove
      /\ MenuH <= StatsY /\ StatsY + StatsH <= TaskbarY
  BY DesktopAssumption
<1>2. TaskbarY \in Nat /\ TaskbarY + TaskbarH = ScreenH
  BY <1>1 DEF TaskbarY
<1>3. /\ ContentTop \in Nat /\ ContentTop >= MenuH + Border /\ ContentH \in Nat
      /\ ContentH = 0 \/ ContentTop + ContentH <= TaskbarY
  BY <1>1, <1>2 DEF ContentTop, ContentH, High
<1>4. ActiveX \in Nat /\ ActiveY \in Nat /\ ActiveY >= ContentTop + TitleH
  BY <1>1, <1>3, PageSizes DEF ActiveX, ActiveY, High
<1>5. QED
  BY <1>1, <1>2, <1>3, <1>4

(* The names of the two windows, in front and behind.                      *)
LEMMA LayerFacts ==
  /\ Layer[0][0] = "shell" /\ Layer[1][1] = "dash"
  /\ Layer[0][1] = "shell behind" /\ Layer[1][0] = "dash behind"
  /\ \A w, front \in Windows :
       Layer[w][front] \in {"shell", "dash", "shell behind", "dash behind"}
  /\ \A w \in Windows : 1 - w \in Windows /\ w # 1 - w
<1>1. /\ Layer[0][0] = "shell" /\ Layer[1][1] = "dash"
      /\ Layer[0][1] = "shell behind" /\ Layer[1][0] = "dash behind"
  <2>1. 0 \in Windows /\ 1 \in Windows /\ 0 + 1 = 1 /\ 1 + 1 = 2 /\ 0 # 1
    BY DEF Windows
  <2>2. /\ <<"shell", "dash">>[1] = "shell" /\ <<"shell", "dash">>[2] = "dash"
        /\ <<"shell behind", "dash behind">>[1] = "shell behind"
        /\ <<"shell behind", "dash behind">>[2] = "dash behind"
    OBVIOUS
  <2>3. QED
    BY <2>1, <2>2 DEF Layer
<1>2. \A w \in Windows : w = 0 \/ w = 1
  BY DEF Windows
<1>3. \A w, front \in Windows :
        Layer[w][front] \in {"shell", "dash", "shell behind", "dash behind"}
  BY <1>1, <1>2
<1>4. \A w \in Windows : 1 - w \in Windows /\ w # 1 - w
  BY <1>2 DEF Windows
<1>5. QED
  BY <1>1, <1>3, <1>4

(* Each of them has a name of its own.                                     *)
LEMMA LayersApart ==
  ASSUME NEW w \in Windows, NEW front \in Windows,
         NEW v \in Windows, NEW other \in Windows,
         Layer[w][front] = Layer[v][other]
  PROVE  w = v /\ front = other
<1>1. /\ Layer[0][0] = "shell" /\ Layer[1][1] = "dash"
      /\ Layer[0][1] = "shell behind" /\ Layer[1][0] = "dash behind"
  BY LayerFacts
<1>2. (w = 0 \/ w = 1) /\ (front = 0 \/ front = 1)
      /\ (v = 0 \/ v = 1) /\ (other = 0 \/ other = 1)
  BY DEF Windows
<1>3. QED
  BY <1>1, <1>2

(* The points of a rectangle, coordinate by coordinate.                    *)
LEMMA OnPoints ==
  ASSUME NEW r, r.x \in Int, r.y \in Int, r.w \in Int, r.h \in Int
  PROVE  /\ On(r) \subseteq Points
         /\ \A p \in Points :
              p \in On(r) <=> /\ r.x <= p[1] /\ p[1] < r.x + r.w
                              /\ r.y <= p[2] /\ p[2] < r.y + r.h
<1>1. /\ \A i \in Int : i \in High(r.x, 0) .. Low(r.x + r.w, ScreenW) - 1 <=>
           i \in 0 .. ScreenW - 1 /\ r.x <= i /\ i < r.x + r.w
      /\ \A i \in Int : i \in High(r.y, 0) .. Low(r.y + r.h, ScreenH) - 1 <=>
           i \in 0 .. ScreenH - 1 /\ r.y <= i /\ i < r.y + r.h
  BY Sizes DEF High, Low
<1>2. /\ High(r.x, 0) .. Low(r.x + r.w, ScreenW) - 1 \subseteq 0 .. ScreenW - 1
      /\ High(r.y, 0) .. Low(r.y + r.h, ScreenH) - 1 \subseteq 0 .. ScreenH - 1
  BY Sizes DEF High, Low
<1>3. ASSUME NEW p \in Points
      PROVE  p = <<p[1], p[2]>> /\ p[1] \in 0 .. ScreenW - 1 /\ p[2] \in 0 .. ScreenH - 1
             /\ p[1] \in Int /\ p[2] \in Int
  BY DEF Points
<1>4. QED
  BY <1>1, <1>2, <1>3 DEF On, PointsOf, Points

(* The menu bar and the taskbar lie above and below the content, and apart *)
(* from the panel.                                                         *)
LEMMA ChromeApart ==
  /\ OnContent \subseteq Points /\ OnMenuBar \subseteq Points /\ OnTaskbar \subseteq Points
  /\ OnStats \subseteq Points /\ OnBars \subseteq Points
  /\ OnMenuBar \cap OnContent = {} /\ OnTaskbar \cap OnContent = {}
  /\ OnMenuBar \cap OnTaskbar = {}
  /\ OnStats \cap OnMenuBar = {} /\ OnStats \cap OnTaskbar = {}
  /\ OnBars \cap OnMenuBar = {}
<1> USE Sizes
<1>1. /\ OnContent \subseteq Points
      /\ \A p \in Points : p \in OnContent => MenuH <= p[2] /\ p[2] < TaskbarY
  <2>1. /\ Content.x \in Int /\ Content.y = ContentTop /\ Content.w \in Int
        /\ Content.h = ContentH
    BY DEF Content, Rect
  <2>2. \A p \in Points : p[2] \in Int
    BY DEF Points
  <2>3. /\ OnContent \subseteq Points
        /\ \A p \in Points : p \in OnContent =>
             ContentTop <= p[2] /\ p[2] < ContentTop + ContentH
    BY <2>1, OnPoints DEF OnContent
  <2>4. QED
    BY <2>2, <2>3
<1>2. /\ OnMenuBar \subseteq Points
      /\ \A p \in Points : p \in OnMenuBar => p[2] < MenuH
  <2>1. /\ MenuBar.x \in Int /\ MenuBar.y = 0 /\ MenuBar.w \in Int /\ MenuBar.h = MenuH
    BY DEF MenuBar, Rect
  <2>2. QED
    BY <2>1, OnPoints DEF OnMenuBar
<1>3. /\ OnTaskbar \subseteq Points
      /\ \A p \in Points : p \in OnTaskbar => p[2] >= TaskbarY
  <2>1. /\ Taskbar.x \in Int /\ Taskbar.y = TaskbarY /\ Taskbar.w \in Int
        /\ Taskbar.h = TaskbarH
    BY DEF Taskbar, Rect
  <2>2. \A p \in Points : p[2] \in Int
    BY DEF Points
  <2>3. QED
    BY <2>1, <2>2, OnPoints DEF OnTaskbar
<1>4. /\ OnStats \subseteq Points
      /\ \A p \in Points : p \in OnStats => MenuH <= p[2] /\ p[2] < TaskbarY
  <2>1. /\ Stats.x \in Int /\ Stats.y = StatsY /\ Stats.w \in Int /\ Stats.h = StatsH
    BY DEF Stats, Rect
  <2>2. \A p \in Points : p[2] \in Int
    BY DEF Points
  <2>3. /\ OnStats \subseteq Points
        /\ \A p \in Points : p \in OnStats => StatsY <= p[2] /\ p[2] < StatsY + StatsH
    BY <2>1, OnPoints DEF OnStats
  <2>4. QED
    BY <2>2, <2>3
<1>5. OnBars \subseteq Points /\ \A p \in Points : p \in OnBars => MenuH <= p[2]
  <2>1. /\ Bars.x \in Int /\ Bars.y = StatsY + StatsH /\ Bars.w \in Int
        /\ Bars.h \in Int
    BY DEF Bars, Rect
  <2>2. \A p \in Points : p[2] \in Int
    BY DEF Points
  <2>3. /\ OnBars \subseteq Points
        /\ \A p \in Points : p \in OnBars => StatsY + StatsH <= p[2]
    BY <2>1, OnPoints DEF OnBars
  <2>4. QED
    BY <2>2, <2>3
<1>6. \A p \in Points : p[2] \in Int
  BY DEF Points
<1>7. QED
  BY <1>1, <1>2, <1>3, <1>4, <1>5, <1>6

(* Both windows lie below the menu bar, in either order, and what is to be *)
(* seen of a surface lies in its window.                                   *)
LEMMA WindowsOnScreen ==
  ASSUME NEW w \in Windows, NEW front \in Windows
  PROVE  /\ Outer[w][front] \in Words
         /\ OnOuter[w][front] = On(Outer[w][front])
         /\ OnOuter[w][front] \subseteq Points
         /\ OnOuter[w][front] \subseteq OnContent \cup OnTaskbar \cup OnStats \cup Beyond
         /\ OnOuter[w][front] \cap OnMenuBar = {}
         /\ CornerX[w][front] \in Int /\ CornerY[w][front] \in Int
         /\ \A cell \in Cells :
              <<CornerX[w][front] + cell[1], CornerY[w][front] + cell[2]>> \in Points =>
              <<CornerX[w][front] + cell[1], CornerY[w][front] + cell[2]>>
                \in OnOuter[w][front]
<1> USE Sizes, PageSizes
<1> DEFINE o == Outer[w][front]
           cx == CornerX[w][front]
           cy == CornerY[w][front]
<1>1. cx \in Nat /\ cy \in Nat /\ cy >= ContentTop + TitleH
  <2>1. High(ActiveX - ShiftX, 0) \in Nat
    BY DEF High
  <2>2. QED
    BY <2>1 DEF CornerX, CornerY
<1>2. /\ o.x = High(cx - Border, 0) /\ o.y = High(cy - (TitleH + Border), 0)
      /\ o.w = Cols + 2 * Border /\ o.h = Rows + TitleH + 2 * Border
      /\ o = Rect(High(cx - Border, 0), High(cy - (TitleH + Border), 0),
                  Cols + 2 * Border, Rows + TitleH + 2 * Border)
  BY DEF Outer, Rect
<1> HIDE DEF cx, cy
<1>3. /\ High(cx - Border, 0) \in Nat /\ High(cx - Border, 0) >= cx - Border
      /\ High(cx - Border, 0) <= cx
      /\ High(cy - (TitleH + Border), 0) \in Nat
      /\ High(cy - (TitleH + Border), 0) >= cy - (TitleH + Border)
      /\ High(cy - (TitleH + Border), 0) <= cy
  BY <1>1 DEF High
<1>4. o \in Words
  BY <1>2, <1>3 DEF Rect, Words
<1>5. OnOuter[w][front] = On(o)
  BY DEF OnOuter
<1> HIDE DEF o
<1>6. o.x \in Int /\ o.y \in Int /\ o.w \in Int /\ o.h \in Int
  BY <1>4 DEF Words
<1>7. /\ On(o) \subseteq Points
      /\ \A p \in Points : p \in On(o) <=> /\ o.x <= p[1] /\ p[1] < o.x + o.w
                                           /\ o.y <= p[2] /\ p[2] < o.y + o.h
  BY <1>6, OnPoints
<1>8. On(o) \cap OnMenuBar = {}
  <2>1. o.y >= MenuH
    BY <1>1, <1>2, <1>3
  <2>2. /\ MenuBar.x \in Int /\ MenuBar.y = 0 /\ MenuBar.w \in Int /\ MenuBar.h = MenuH
    BY DEF MenuBar, Rect
  <2>3. \A p \in Points : p \in OnMenuBar => p[2] < MenuH
    BY <2>2, OnPoints DEF OnMenuBar
  <2>4. \A p \in Points : p[2] \in Int
    BY DEF Points
  <2>5. QED
    BY <1>6, <1>7, <2>1, <2>3, <2>4
<1>9. OnOuter[w][front] \subseteq OnContent \cup OnTaskbar \cup OnStats \cup Beyond
  BY <1>5, <1>7 DEF Beyond
<1>10. ASSUME NEW cell \in Cells, <<cx + cell[1], cy + cell[2]>> \in Points
       PROVE  <<cx + cell[1], cy + cell[2]>> \in On(o)
  <2>1. cell[1] \in 0 .. Cols - 1 /\ cell[2] \in 0 .. Rows - 1
    BY DEF Cells
  <2>2. /\ o.x <= cx + cell[1] /\ cx + cell[1] < o.x + o.w
        /\ o.y <= cy + cell[2] /\ cy + cell[2] < o.y + o.h
    BY <1>1, <1>2, <1>3, <2>1
  <2>3. QED
    BY <1>7, <1>10, <2>2
<1>11. QED
  BY <1>1, <1>4, <1>5, <1>7, <1>8, <1>9, <1>10 DEF o, cx, cy

(* The text of the window in front.                                        *)
LEMMA ShownFacts ==
  ASSUME NEW r \in Words, NEW front \in Windows
  PROVE  Shown(r) \subseteq Points /\ Shown(r) \subseteq OnOuter[front][front]
<1>1. CornerX[front][front] = ActiveX /\ CornerY[front][front] = ActiveY
  BY DEF CornerX, CornerY
<1>2. Lit(r) \subseteq Cells
  <2>1. r.x \in Int /\ r.y \in Int /\ r.w \in Int /\ r.h \in Int
    BY DEF Words
  <2>2. /\ High(r.x, 0) .. Low(r.x + r.w, Cols) - 1 \subseteq 0 .. Cols - 1
        /\ High(r.y, 0) .. Low(r.y + r.h, Rows) - 1 \subseteq 0 .. Rows - 1
    BY <2>1, PageSizes DEF High, Low
  <2>3. QED
    BY <2>2 DEF Lit, PointsOf, Cells
<1>3. QED
  BY <1>1, <1>2, WindowsOnScreen DEF Shown

-----------------------------------------------------------------------------
(* What the tasks do between the frames.                                   *)

(* Nothing damaged is left on a page that is handed over.                  *)
LEMMA HandedOver ==
  ASSUME NEW q, PageInv(q)
  PROVE  PageInv([q EXCEPT !.damage = NoRect])
<1> DEFINE r == [q EXCEPT !.damage = NoRect]
<1>1. NoRect \in Words
  BY DEF NoRect, Words
<1>2. /\ r \in Texts /\ r.text = q.text /\ r.cx = q.cx /\ r.cy = q.cy
      /\ r.command = q.command
  BY <1>1 DEF PageInv, Texts
<1> HIDE DEF r
<1>3. PageShowsCommand(r)
  BY <1>2 DEF PageInv, PageShowsCommand
<1>4. QED
  BY <1>2, <1>3 DEF PageInv, r

(* What a rectangle that has grown shows.                                  *)
LEMMA ShownGrows ==
  ASSUME NEW r \in Words, NEW s \in Words
  PROVE  /\ Extended(r, s) \in Words
         /\ Shown(r) \subseteq Shown(Extended(r, s))
         /\ Shown(s) \subseteq Shown(Extended(r, s))
         /\ ~Empty(r) \/ ~Empty(s) => ~Empty(Extended(r, s))
<1>1. Cols \in Int /\ Rows \in Int
  BY PageSizes
<1>2. /\ Extended(r, s) \in Words
      /\ Lit(r) \subseteq Lit(Extended(r, s)) /\ Lit(s) \subseteq Lit(Extended(r, s))
      /\ ~Empty(r) \/ ~Empty(s) => ~Empty(Extended(r, s))
  BY <1>1, ExtendedHolds DEF Lit
<1>3. QED
  BY <1>2 DEF Shown

(* The points that show cells of a window.                                 *)
LEMMA ShowingFacts ==
  ASSUME Types, NEW w \in Windows, NEW cells, cells \subseteq Cells,
         NEW p \in Showing(w, cells)
  PROVE  /\ p \in Points
         /\ \E front \in Windows, cell \in cells :
              /\ top[p] = Layer[w][front]
              /\ p = <<CornerX[w][front] + cell[1], CornerY[w][front] + cell[2]>>
BY DEF Showing

(* What the shell shows is marked with it, or was marked before.           *)
LEMMA ShellFacts ==
  ASSUME IInv, NEW new, PageInv(new), NEW differs, differs \subseteq Cells,
         \A cell \in differs : cell \in Lit(new.damage),
         ShellShows(new, differs), UNCHANGED <<dashMarked, frameVars, top, unpresented>>
  PROVE  IInv'
<1>1. /\ page' = [new EXCEPT !.damage = NoRect]
      /\ damage' = Extended(damage, new.damage)
      /\ marked' = (marked \/ ~Empty(new.damage))
      /\ stale' = stale \cup Showing(0, differs)
      /\ dashMarked' = dashMarked /\ phase' = phase /\ ws' = ws /\ full' = full
      /\ activeFull' = activeFull /\ inactiveFull' = inactiveFull /\ copied' = copied
      /\ chrome' = chrome /\ presentAll' = presentAll /\ top' = top
      /\ unpresented' = unpresented
  BY DEF ShellShows, frameVars
<1>2. new.damage \in Words /\ damage \in Words
  BY DEF IInv, Types, PageInv, Texts
<1>3. /\ damage' \in Words /\ Shown(damage) \subseteq Shown(damage')
      /\ Shown(new.damage) \subseteq Shown(damage')
      /\ ~Empty(damage) \/ ~Empty(new.damage) => ~Empty(damage')
  BY <1>1, <1>2, ShownGrows
<1>4. marked' \in BOOLEAN /\ (marked => marked') /\ (~Empty(new.damage) => marked')
  BY <1>1 DEF IInv, Types
<1>5. Types'
  <2>1. page.damage' = NoRect
    BY <1>1 DEF PageInv, Texts
  <2>2. PageInv(page')
    BY <1>1, HandedOver
  <2>3. QED
    BY <1>1, <1>3, <1>4, <2>1, <2>2 DEF IInv, Types
<1>6. ASSUME NEW p \in Showing(0, differs)
      PROVE  /\ p \in Points /\ \E w, front \in Windows : top[p] = Layer[w][front]
             /\ top[p] # "desktop" /\ top[p] # "dash" /\ marked'
             /\ top[p] = "shell" => p \in Shown(damage')
  <2>1. 0 \in Windows
    BY DEF Windows
  <2>2. PICK front \in Windows, cell \in differs :
          /\ p \in Points /\ top[p] = Layer[0][front]
          /\ p = <<CornerX[0][front] + cell[1], CornerY[0][front] + cell[2]>>
    BY <1>6, <2>1, ShowingFacts DEF IInv
  <2>3. marked'
    <3>1. cell \in Lit(new.damage)
      OBVIOUS
    <3>2. ~Empty(new.damage)
      BY <1>2, <3>1, EmptyIsDark, PageSizes DEF Lit
    <3>3. QED
      BY <1>4, <3>2
  <2>4. top[p] = "shell" => p \in Shown(damage')
    <3>1. SUFFICES ASSUME top[p] = "shell" PROVE p \in Shown(damage')
      OBVIOUS
    <3>2. front = 0
      <4>1. front = 0 \/ front = 1
        BY DEF Windows
      <4>2. Layer[0][1] = "shell behind"
        BY LayerFacts
      <4>3. QED
        BY <2>2, <3>1, <4>1, <4>2
    <3>3. CornerX[0][0] = ActiveX /\ CornerY[0][0] = ActiveY
      BY <2>1 DEF CornerX, CornerY
    <3>4. p \in Shown(new.damage)
      BY <2>2, <3>2, <3>3 DEF Shown
    <3>5. QED
      BY <1>3, <3>4
  <2>5. top[p] # "desktop" /\ top[p] # "dash"
    <3>1. front = 0 \/ front = 1
      BY DEF Windows
    <3>2. Layer[0][0] = "shell" /\ Layer[0][1] = "shell behind"
      BY LayerFacts
    <3>3. QED
      BY <2>2, <3>1, <3>2
  <2>6. QED
    BY <2>1, <2>2, <2>3, <2>4, <2>5
<1>7. FrameInv'
  <2>1. presentAll => stale' = {}
    BY <1>1, <1>6 DEF IInv, FrameInv
  <2>2. QED
    BY <1>1, <1>3, <1>4, <2>1 DEF IInv, FrameInv, Empty
<1>8. PlaceInv' /\ PresentInv'
  BY <1>1 DEF IInv, PlaceInv, PresentInv, InOrder
<1>9. StaleInv'
  <2>1. \A p \in stale' : p \in stale \/ p \in Showing(0, differs)
    BY <1>1
  <2>2. ASSUME ~full, NEW p \in stale' \ Beyond PROVE Pending(p)'
    <3>1. CASE p \in stale
      <4>1. Pending(p)
        BY <2>2, <3>1 DEF IInv, StaleInv
      <4>2. /\ Shown(damage)' = Shown(damage') /\ Shown(copied)' = Shown(copied)
            /\ top[p]' = top[p] /\ activeFull' = activeFull
            /\ inactiveFull' = inactiveFull /\ dashMarked' = dashMarked
        BY <1>1 DEF Shown
      <4>3. /\ top[p] = "shell" => activeFull \/ p \in Shown(copied)
                                       \/ (marked' /\ p \in Shown(damage'))
            /\ top[p] = "shell behind" => inactiveFull \/ marked'
            /\ top[p] = "dash" => activeFull \/ dashMarked
        BY <1>3, <1>4, <4>1 DEF Pending
      <4>4. /\ top' = top /\ activeFull' = activeFull /\ inactiveFull' = inactiveFull
            /\ dashMarked' = dashMarked /\ copied' = copied
        BY <1>1
      <4>5. (top[p] = "shell" => activeFull \/ p \in Shown(copied)
                                   \/ (marked /\ p \in Shown(damage)))'
        BY <4>2, <4>3, <4>4
      <4>6. (top[p] = "shell behind" => inactiveFull \/ marked)'
        <5>1. top'[p] = "shell behind" => inactiveFull' \/ marked'
          BY <4>3, <4>4, Zenon
        <5>2. QED
          BY <5>1
      <4>7. (top[p] = "dash" => activeFull \/ dashMarked)'
        BY <4>2, <4>3, <4>4
      <4>8. QED
        BY <4>5, <4>6, <4>7 DEF Pending
    <3>2. CASE p \in Showing(0, differs)
      BY <1>1, <1>6, <3>2 DEF Pending, Shown
    <3>3. QED
      BY <2>1, <3>1, <3>2
  <2>3. stale' \subseteq Points /\ \A p \in stale' : \E w, front \in Windows : top[p] = Layer[w][front]
    BY <1>6, <2>1 DEF IInv, StaleInv
  <2>4. QED
    BY <1>1, <2>2, <2>3 DEF StaleInv
<1>10. QED
  BY <1>5, <1>7, <1>8, <1>9 DEF IInv

(* A key of the shell.                                                     *)
LEMMA ShellKeyFacts ==
  ASSUME IInv, NEW key \in Keys, ShellKey(key)
  PROVE  IInv'
<1>1. PICK new \in Pages(key) : ShellShows(new, Changed(new))
  BY DEF ShellKey
<1>2. PageInv(new) /\ Marks(page, new)
  BY <1>1, KeyFacts DEF IInv, Types
<1>3. PICK differs : differs = Changed(new)
  OBVIOUS
<1>4. differs \subseteq Cells /\ \A cell \in differs : cell \in Lit(new.damage)
  BY <1>2, <1>3 DEF Changed, Marks
<1>5. ShellShows(new, differs)
  BY <1>1, <1>3
<1>6. UNCHANGED <<dashMarked, frameVars, top, unpresented>>
  BY DEF ShellKey
<1>7. QED
  BY <1>2, <1>4, <1>5, <1>6, ShellFacts

(* A restart of the shell.                                                 *)
LEMMA ShellRestartFacts ==
  ASSUME IInv, ShellRestarts
  PROVE  IInv'
<1>1. PICK new, differs :
        /\ new = Started
        /\ differs = Changed(Started) \cap PointsOf(Started.damage, Cols, Rows)
  OBVIOUS
<1>2. PageInv(new)
  BY <1>1, StartedFacts
<1>3. differs \subseteq Cells /\ \A cell \in differs : cell \in Lit(new.damage)
  BY <1>1 DEF Changed, Lit
<1>4. ShellShows(new, differs) /\ UNCHANGED <<dashMarked, frameVars, top, unpresented>>
  BY <1>1 DEF ShellRestarts
<1>5. QED
  BY <1>2, <1>3, <1>4, ShellFacts

(* The dashboard draws all of its surface.                                 *)
LEMMA DashboardFacts ==
  ASSUME IInv, DashboardDraws
  PROVE  IInv'
<1>1. /\ page' = page /\ damage' = damage /\ marked' = marked
      /\ dashMarked' = TRUE /\ stale' = stale \cup Showing(1, Cells)
      /\ phase' = phase /\ ws' = ws /\ full' = full
      /\ activeFull' = activeFull /\ inactiveFull' = inactiveFull /\ copied' = copied
      /\ chrome' = chrome /\ presentAll' = presentAll /\ top' = top
      /\ unpresented' = unpresented
  BY DEF DashboardDraws, shellVars, frameVars
<1>2. Types'
  BY <1>1 DEF IInv, Types
<1>3. ASSUME NEW p \in Showing(1, Cells)
      PROVE  /\ p \in Points /\ \E w, front \in Windows : top[p] = Layer[w][front]
             /\ top[p] # "desktop" /\ top[p] # "shell" /\ top[p] # "shell behind"
  <2>1. 1 \in Windows
    BY DEF Windows
  <2>2. PICK front \in Windows : p \in Points /\ top[p] = Layer[1][front]
    BY <1>3, <2>1, ShowingFacts DEF IInv
  <2>3. front = 0 \/ front = 1
    BY DEF Windows
  <2>4. QED
    BY <2>1, <2>2, <2>3, LayerFacts
<1>4. FrameInv'
  <2>1. presentAll => stale' = {}
    BY <1>1, <1>3 DEF IInv, FrameInv
  <2>2. QED
    BY <1>1, <2>1 DEF IInv, FrameInv, Empty
<1>5. PlaceInv' /\ PresentInv'
  BY <1>1 DEF IInv, PlaceInv, PresentInv, InOrder
<1>6. StaleInv'
  <2>1. \A p \in stale' : p \in stale \/ p \in Showing(1, Cells)
    BY <1>1
  <2>2. ASSUME ~full, NEW p \in stale' \ Beyond PROVE Pending(p)'
    <3>1. CASE p \in stale
      <4>1. Pending(p)
        BY <2>2, <3>1 DEF IInv, StaleInv
      <4>2. QED
        BY <1>1, <4>1 DEF Pending, Shown
    <3>2. CASE p \in Showing(1, Cells)
      BY <1>1, <1>3, <3>2 DEF Pending, Shown
    <3>3. QED
      BY <2>1, <3>1, <3>2
  <2>3. stale' \subseteq Points /\ \A p \in stale' : \E w, front \in Windows : top[p] = Layer[w][front]
    BY <1>3, <2>1 DEF IInv, StaleInv
  <2>4. QED
    BY <1>1, <2>2, <2>3 DEF StaleInv
<1>7. QED
  BY <1>2, <1>4, <1>5, <1>6 DEF IInv

(* A point shows a window of the order that the last frame has drawn.      *)
LEMMA FrontFacts ==
  ASSUME IInv, ~full, NEW p \in Points \ Beyond
  PROVE  /\ top[p] = "shell" => ws = 0 /\ p \in OnOuter[0][0]
         /\ top[p] = "shell behind" => ws = 1 /\ p \in OnOuter[0][1]
         /\ top[p] = "dash" => ws = 1 /\ p \in OnOuter[1][1]
<1>1. \A w, front \in Windows :
        top[p] = Layer[w][front] => p \in OnOuter[w][front]
  BY DEF IInv, PlaceInv
<1>2. ws \in Windows /\ (ws = 0 \/ ws = 1) /\ 0 \in Windows /\ 1 \in Windows
      /\ 1 - 0 = 1 /\ 1 - 1 = 0
  BY DEF IInv, Types, Windows
<1>3. top[p] = Layers[ws][p] \/ top[p] = Scene[ws][p] \/ top[p] = "stats"
  BY DEF IInv, PlaceInv, InOrder
<1>4. top[p] \in {"menu", "taskbar", "stats", "desktop",
                  Layer[ws][ws], Layer[1 - ws][ws]}
  <2>1. Scene[ws][p] \in {"desktop", Layer[ws][ws], Layer[1 - ws][ws]}
    BY <1>2 DEF Scene
  <2>2. Layers[ws][p] \in {"menu", "taskbar", "stats", Scene[ws][p]}
    BY <1>2 DEF Layers
  <2>3. QED
    BY <1>3, <2>1, <2>2
<1>5. /\ Layer[0][0] = "shell" /\ Layer[1][1] = "dash"
      /\ Layer[0][1] = "shell behind" /\ Layer[1][0] = "dash behind"
  BY LayerFacts
<1>6. CASE ws = 0
  <2>1. top[p] \in {"menu", "taskbar", "stats", "desktop", "shell", "dash behind"}
    BY <1>2, <1>4, <1>5, <1>6
  <2>2. top[p] # "shell behind" /\ top[p] # "dash"
    BY <2>1
  <2>3. QED
    BY <1>1, <1>2, <1>5, <1>6, <2>2
<1>7. CASE ws = 1
  <2>1. top[p] \in {"menu", "taskbar", "stats", "desktop", "dash", "shell behind"}
    BY <1>2, <1>4, <1>5, <1>7
  <2>2. top[p] # "shell"
    BY <2>1
  <2>3. QED
    BY <1>1, <1>2, <1>5, <1>7, <2>2
<1>8. QED
  BY <1>2, <1>6, <1>7

(* The damage the compositor takes is in what this frame will draw.        *)
LEMMA TakesFacts ==
  ASSUME IInv, NEW w \in Windows, NEW switched \in BOOLEAN, TakesDamage(w, switched)
  PROVE  IInv'
<1>1. /\ phase = "keys" /\ phase' = "draw" /\ ws' = w
      /\ w # ws => switched
      /\ full' = (full \/ switched)
      /\ chrome' = IF switched THEN chrome \cup {"stats", "taskbar"} ELSE chrome
      /\ inactiveFull' = (marked /\ w = 1)
      /\ activeFull' = (((marked \/ dashMarked) /\ w = 1) \/ (marked /\ Empty(damage)))
      /\ copied' = IF marked /\ ~(w = 1) THEN damage ELSE NoRect
      /\ damage' = IF marked THEN NoRect ELSE damage
      /\ marked' = FALSE /\ dashMarked' = FALSE
      /\ page' = page /\ presentAll' = presentAll /\ top' = top /\ stale' = stale
      /\ unpresented' = unpresented
  BY DEF TakesDamage, pictures
<1>2. NoRect \in Words
  BY DEF NoRect, Words
<1>3. Types'
  <2>1. full' \in BOOLEAN /\ inactiveFull' \in BOOLEAN /\ activeFull' \in BOOLEAN
    BY <1>1
  <2>2. chrome' \subseteq AllChrome
    BY <1>1 DEF IInv, Types, AllChrome
  <2>3. copied' \in Words /\ damage' \in Words
    BY <1>1, <1>2 DEF IInv, Types
  <2>4. QED
    BY <1>1, <2>1, <2>2, <2>3 DEF IInv, Types
<1>4. FrameInv'
  <2>1. ~full' => full = FALSE /\ w = ws /\ chrome' = {}
    BY <1>1 DEF IInv, Types, FrameInv
  <2>2. full' => {"stats", "taskbar"} \subseteq chrome'
    BY <1>1 DEF IInv, FrameInv
  <2>3. presentAll => full' /\ chrome' = AllChrome
    BY <1>1 DEF IInv, FrameInv, AllChrome
  <2>4. QED
    BY <1>1, <2>1, <2>2, <2>3 DEF IInv, FrameInv
<1>5. PlaceInv' /\ PresentInv'
  <2>1. ~full' => ~full /\ w = ws
    BY <1>1
  <2>2. \A p : InOrder(p) /\ w = ws => InOrder(p)'
    BY <1>1 DEF InOrder
  <2>3. QED
    BY <1>1, <2>1, <2>2 DEF IInv, PlaceInv, PresentInv
<1>6. StaleInv'
  <2>1. ASSUME ~full', NEW p \in stale \ Beyond PROVE Pending(p)'
    <3>1. ~full /\ w = ws /\ p \in Points \ Beyond
      BY <1>1, <2>1 DEF IInv, StaleInv
    <3>2. /\ Pending(p) /\ ~activeFull /\ ~inactiveFull /\ Empty(copied)
          /\ (marked => ~Empty(damage))
      BY <1>1, <2>1, <3>1 DEF IInv, StaleInv, FrameInv
    <3>3. Shown(copied) = {}
      BY <3>2, EmptyIsDark, PageSizes DEF IInv, Types, Shown, Lit
    <3>4. top[p] = "shell" => copied' = damage /\ p \in Shown(damage)
      <4>1. SUFFICES ASSUME top[p] = "shell" PROVE copied' = damage /\ p \in Shown(damage)
        OBVIOUS
      <4>2. marked /\ p \in Shown(damage)
        BY <3>2, <3>3, <4>1 DEF Pending
      <4>3. w = 0
        BY <3>1, <4>1, FrontFacts
      <4>4. QED
        BY <1>1, <4>2, <4>3
    <3>5. top[p] = "shell behind" => inactiveFull'
      BY <1>1, <3>1, <3>2, FrontFacts DEF Pending
    <3>6. top[p] = "dash" => activeFull'
      BY <1>1, <3>1, <3>2, FrontFacts DEF Pending
    <3>7. Shown(copied)' = Shown(copied')
      BY DEF Shown
    <3>8. QED
      BY <1>1, <3>4, <3>5, <3>6, <3>7 DEF Pending
  <2>2. QED
    BY <1>1, <2>1 DEF IInv, StaleInv
<1>7. QED
  BY <1>3, <1>4, <1>5, <1>6 DEF IInv

(* An idle turn leaves things as they are.                                 *)
LEMMA IdleFacts ==
  ASSUME IInv, Idles
  PROVE  IInv'
<1>1. /\ phase = "draw" /\ phase' = "keys" /\ ~full /\ ~activeFull /\ ~inactiveFull
      /\ Empty(copied) /\ chrome = {}
      /\ page' = page /\ damage' = damage /\ marked' = marked /\ dashMarked' = dashMarked
      /\ ws' = ws /\ full' = full /\ activeFull' = activeFull
      /\ inactiveFull' = inactiveFull /\ copied' = copied /\ chrome' = chrome
      /\ presentAll' = presentAll /\ top' = top /\ stale' = stale
      /\ unpresented' = unpresented
  BY DEF Idles, ContentDirty, shellVars, pictures
<1>2. Types' /\ FrameInv'
  BY <1>1 DEF IInv, Types, FrameInv, Empty
<1>3. PlaceInv' /\ PresentInv'
  BY <1>1 DEF IInv, PlaceInv, PresentInv, InOrder
<1>4. StaleInv'
  BY <1>1 DEF IInv, StaleInv, Pending, Shown
<1>5. QED
  BY <1>2, <1>3, <1>4 DEF IInv

(* A new back buffer, which is to be drawn and presented as a whole.       *)
LEMMA FreshFacts ==
  ASSUME NEW t, t = [p \in Points |-> "desktop"]
  PROVE  /\ t \in [Points -> LayerNames] /\ \A p \in Points : t[p] = "desktop"
         /\ \A p \in Points : \A w, front \in Windows : t[p] # Layer[w][front]
  BY LayerFacts DEF LayerNames

(* A restarted compositor draws everything and has marks to take.          *)
LEMMA RestartFacts ==
  ASSUME IInv, CompositorRestarts
  PROVE  IInv'
<1>1. /\ phase' = "keys" /\ ws' = 0 /\ full' = TRUE /\ activeFull' = FALSE
      /\ inactiveFull' = FALSE /\ copied' = NoRect /\ chrome' = AllChrome
      /\ presentAll' = TRUE /\ marked' = TRUE /\ dashMarked' = TRUE
      /\ top' = [p \in Points |-> "desktop"] /\ stale' = {} /\ unpresented' = Points
      /\ page' = page /\ damage' = damage
  BY DEF CompositorRestarts
<1>2. /\ top' \in [Points -> LayerNames] /\ \A p \in Points : top'[p] = "desktop"
      /\ \A p \in Points : \A w, front \in Windows : top'[p] # Layer[w][front]
  BY <1>1, FreshFacts
<1>3. NoRect \in Words /\ 0 \in Windows /\ {"stats", "taskbar"} \subseteq AllChrome
  BY DEF NoRect, Words, Windows, AllChrome
<1>4. Types'
  BY <1>1, <1>2, <1>3 DEF IInv, Types
<1>5. FrameInv'
  BY <1>1, <1>2, <1>3 DEF FrameInv
<1>6. PlaceInv' /\ StaleInv' /\ PresentInv'
  BY <1>1, <1>2 DEF PlaceInv, StaleInv, PresentInv
<1>7. QED
  BY <1>4, <1>5, <1>6 DEF IInv

(* The compositor starts with everything to be drawn.                      *)
LEMMA InitFacts ==
  Init => IInv
<1> SUFFICES ASSUME Init PROVE IInv
  OBVIOUS
<1>1. /\ top \in [Points -> LayerNames] /\ \A p \in Points : top[p] = "desktop"
      /\ \A p \in Points : \A w, front \in Windows : top[p] # Layer[w][front]
  BY FreshFacts DEF Init
<1>2. NoRect \in Words /\ 0 \in Windows /\ {"stats", "taskbar"} \subseteq AllChrome
  BY DEF NoRect, Words, Windows, AllChrome
<1>3. PageInv(page) /\ page.damage = NoRect
  <2>1. Started \in Texts
    BY StartedFacts DEF PageInv
  <2>2. QED
    BY <2>1, StartedFacts, HandedOver DEF Init, Texts
<1>4. damage \in Words /\ ~Empty(damage)
  BY StartedFacts DEF Init
<1>5. Types
  BY <1>1, <1>2, <1>3, <1>4 DEF Init, Types
<1>6. FrameInv
  BY <1>1, <1>2, <1>4 DEF Init, FrameInv
<1>7. PlaceInv /\ StaleInv /\ PresentInv
  BY <1>1 DEF Init, PlaceInv, StaleInv, PresentInv
<1>8. QED
  BY <1>5, <1>6, <1>7 DEF IInv

-----------------------------------------------------------------------------
(* A frame.                                                                *)

(* Drawing over a picture.                                                 *)
LEMMA Over ==
  ASSUME NEW picture, NEW paint
  PROVE  /\ \A p : p \in DOMAIN (picture ++ paint) <=>
                     p \in DOMAIN picture \/ p \in DOMAIN paint
         /\ \A p \in DOMAIN paint : (picture ++ paint)[p] = paint[p]
         /\ \A p \in DOMAIN picture :
              p \notin DOMAIN paint => (picture ++ paint)[p] = picture[p]
BY DEF ++

(* Drawing one colour, if at all.                                          *)
LEMMA OneColour ==
  ASSUME NEW points, NEW layer, NEW condition \in BOOLEAN
  PROVE  /\ \A p : p \in DOMAIN If(condition, Paint(points, layer)) <=>
                     condition /\ p \in points
         /\ \A p \in points :
              condition => If(condition, Paint(points, layer))[p] = layer
<1>1. CASE condition
  BY <1>1 DEF If, Paint
<1>2. CASE ~condition
  <2>1. If(condition, Paint(points, layer)) = << >>
    BY <1>2 DEF If
  <2>2. DOMAIN << >> = {}
    OBVIOUS
  <2>3. QED
    BY <1>2, <2>1, <2>2
<1>3. QED
  BY <1>1, <1>2

(* The two windows as they lie on the screen while ws is in front.         *)
Front == OnOuter[ws][ws]
Behind == OnOuter[1 - ws][ws]

(* The paint of each is its own layer; the copied text lies on the front   *)
(* one; they meet where rect_intersection finds something.                 *)
LEMMA TwoWindows ==
  ASSUME Types
  PROVE  /\ ws \in Windows /\ 1 - ws \in Windows
         /\ WindowPaint[ws][ws] = Paint(Front, Layer[ws][ws])
         /\ WindowPaint[1 - ws][ws] = Paint(Behind, Layer[1 - ws][ws])
         /\ Front \subseteq Points /\ Behind \subseteq Points
         /\ Front \cap OnMenuBar = {} /\ Behind \cap OnMenuBar = {}
         /\ Front \subseteq OnContent \cup OnTaskbar \cup OnStats \cup Beyond
         /\ Behind \subseteq OnContent \cup OnTaskbar \cup OnStats \cup Beyond
         /\ ~WindowsMeet => Front \cap Behind = {}
         /\ Shown(copied) \subseteq Front
         /\ Empty(copied) => Shown(copied) = {}
         /\ CopiedPaint = Paint(Shown(copied), Layer[ws][ws])
<1>1. ws \in Windows /\ (ws = 0 \/ ws = 1) /\ 1 - ws \in Windows
      /\ 0 \in Windows /\ 1 \in Windows /\ 1 - 0 = 1 /\ 1 - 1 = 0
  BY DEF Types, Windows
<1>2. copied \in Words
  BY DEF Types
<1>3. /\ WindowPaint[ws][ws] = Paint(Front, Layer[ws][ws])
      /\ WindowPaint[1 - ws][ws] = Paint(Behind, Layer[1 - ws][ws])
  BY <1>1 DEF WindowPaint, Front, Behind
<1>4. /\ Front \subseteq Points /\ Behind \subseteq Points
      /\ Front \cap OnMenuBar = {} /\ Behind \cap OnMenuBar = {}
      /\ Front \subseteq OnContent \cup OnTaskbar \cup OnStats \cup Beyond
      /\ Behind \subseteq OnContent \cup OnTaskbar \cup OnStats \cup Beyond
  BY <1>1, WindowsOnScreen DEF Front, Behind
<1>5. ~WindowsMeet => Front \cap Behind = {}
  <2>1. PICK a, b : a = Outer[0][ws] /\ b = Outer[1][ws]
    OBVIOUS
  <2>2. /\ a \in Words /\ b \in Words
        /\ OnOuter[0][ws] = On(a) /\ OnOuter[1][ws] = On(b)
    BY <1>1, <2>1, WindowsOnScreen
  <2>3. /\ a.x \in Int /\ a.y \in Int /\ a.w \in Int /\ a.h \in Int
        /\ b.x \in Int /\ b.y \in Int /\ b.w \in Int /\ b.h \in Int
    BY <2>2 DEF Words
  <2>4. /\ On(a) \subseteq Points /\ On(b) \subseteq Points
        /\ \A p \in Points : p \in On(a) => /\ a.x <= p[1] /\ p[1] < a.x + a.w
                                           /\ a.y <= p[2] /\ p[2] < a.y + a.h
        /\ \A p \in Points : p \in On(b) => /\ b.x <= p[1] /\ p[1] < b.x + b.w
                                           /\ b.y <= p[2] /\ p[2] < b.y + b.h
    BY <2>3, OnPoints
  <2>5. ASSUME NEW p \in Points, p \in On(a), p \in On(b)
        PROVE  /\ High(a.x, b.x) < Low(a.x + a.w, b.x + b.w)
               /\ High(a.y, b.y) < Low(a.y + a.h, b.y + b.h)
    <3>1. p[1] \in Int /\ p[2] \in Int
      BY DEF Points
    <3>2. QED
      BY <2>3, <2>4, <2>5, <3>1 DEF High, Low
  <2>6. ~WindowsMeet => On(a) \cap On(b) = {}
    BY <2>1, <2>4, <2>5 DEF WindowsMeet
  <2>7. Front \cap Behind = On(a) \cap On(b)
    BY <1>1, <2>2 DEF Front, Behind
  <2>8. QED
    BY <2>6, <2>7
<1>6. Shown(copied) \subseteq Front
  BY <1>1, <1>2, ShownFacts DEF Front
<1>7. Empty(copied) => Shown(copied) = {}
  BY <1>2, EmptyIsDark, PageSizes DEF Shown, Lit
<1>8. CopiedPaint = Paint(Shown(copied), Layer[ws][ws])
  BY DEF CopiedPaint, Shown, Lit
<1>9. QED
  BY <1>1, <1>3, <1>4, <1>5, <1>6, <1>7, <1>8

(* What a frame draws of the content is as the windows lie, and it is all  *)
(* that was to be drawn.                                                   *)
LEMMA ContentFacts ==
  ASSUME Types
  PROVE  /\ \A p \in DOMAIN ContentPaint :
              /\ p \in Front \/ p \in Behind \/ (full /\ p \in OnContent)
              /\ p \in Front => ContentPaint[p] = Layer[ws][ws]
              /\ p \in Behind /\ p \notin Front => ContentPaint[p] = Layer[1 - ws][ws]
              /\ p \notin Behind /\ p \notin Front => ContentPaint[p] = "desktop"
         /\ ~full => \A p \in DOMAIN ContentPaint :
              \/ inactiveFull /\ p \in Behind
              \/ (activeFull \/ (inactiveFull /\ WindowsMeet)) /\ p \in Front
              \/ ~activeFull /\ ~Empty(copied) /\ p \in Shown(copied)
         /\ full => OnContent \cup Front \cup Behind \subseteq DOMAIN ContentPaint
         /\ activeFull => Front \subseteq DOMAIN ContentPaint
         /\ inactiveFull => Behind \subseteq DOMAIN ContentPaint
         /\ Shown(copied) \subseteq DOMAIN ContentPaint
<1> DEFINE lf == Layer[ws][ws]
           lb == Layer[1 - ws][ws]
<1>1. /\ ~WindowsMeet => Front \cap Behind = {}
      /\ Shown(copied) \subseteq Front
      /\ Empty(copied) => Shown(copied) = {}
      /\ full \in BOOLEAN /\ activeFull \in BOOLEAN /\ inactiveFull \in BOOLEAN
      /\ Empty(copied) \in BOOLEAN /\ WindowsMeet \in BOOLEAN
  BY TwoWindows DEF Types, Empty, WindowsMeet
<1>2. CASE full
  <2>1. PICK a, b, c : /\ a = Paint(OnContent, "desktop")
                       /\ b = Paint(Behind, lb) /\ c = Paint(Front, lf)
    OBVIOUS
  <2>2. ContentPaint = (a ++ b) ++ c
    BY <1>2, <2>1, TwoWindows DEF ContentPaint, DesktopPaint
  <2>3. PICK ab : ab = a ++ b
    OBVIOUS
  <2>4. /\ DOMAIN a = OnContent /\ DOMAIN b = Behind /\ DOMAIN c = Front
        /\ \A p \in OnContent : a[p] = "desktop"
        /\ \A p \in Behind : b[p] = lb
        /\ \A p \in Front : c[p] = lf
    BY <2>1 DEF Paint
  <2>5. /\ \A p : p \in DOMAIN ab <=> p \in OnContent \/ p \in Behind
        /\ \A p \in Behind : ab[p] = lb
        /\ \A p \in OnContent : p \notin Behind => ab[p] = "desktop"
    BY <2>3, <2>4, Over
  <2>6. /\ \A p : p \in DOMAIN (ab ++ c) <=> p \in DOMAIN ab \/ p \in DOMAIN c
        /\ \A p \in DOMAIN c : (ab ++ c)[p] = c[p]
        /\ \A p \in DOMAIN ab : p \notin DOMAIN c => (ab ++ c)[p] = ab[p]
    BY Over
  <2>7. PICK abc : abc = ab ++ c
    OBVIOUS
  <2>8. /\ \A p : p \in DOMAIN abc <=> p \in OnContent \/ p \in Front \/ p \in Behind
        /\ \A p \in Front : abc[p] = lf
        /\ \A p \in Behind : p \notin Front => abc[p] = lb
        /\ \A p \in OnContent : p \notin Front /\ p \notin Behind => abc[p] = "desktop"
    BY <2>4, <2>5, <2>6, <2>7
  <2>9. ContentPaint = abc
    BY <2>2, <2>3, <2>7
  <2> HIDE DEF lf, lb
  <2>10. QED
    BY <1>1, <1>2, <2>8, <2>9 DEF lf, lb
<1>3. CASE ~full
  <2>1. PICK i, j, k, l :
          /\ i = inactiveFull /\ j = activeFull
          /\ k = (~activeFull /\ ~Empty(copied))
          /\ l = (inactiveFull /\ ~activeFull /\ WindowsMeet)
    OBVIOUS
  <2>2. i \in BOOLEAN /\ j \in BOOLEAN /\ k \in BOOLEAN /\ l \in BOOLEAN
    BY <1>1, <2>1
  <2>3. PICK a, b, c, d :
          /\ a = If(i, Paint(Behind, lb)) /\ b = If(j, Paint(Front, lf))
          /\ c = If(k, Paint(Shown(copied), lf)) /\ d = If(l, Paint(Front, lf))
    OBVIOUS
  <2>4. ContentPaint = ((a ++ b) ++ c) ++ d
    BY <1>3, <2>1, <2>3, TwoWindows DEF ContentPaint
  <2>5. /\ \A p : p \in DOMAIN a <=> i /\ p \in Behind
        /\ \A p \in Behind : i => a[p] = lb
    BY <2>2, <2>3, OneColour
  <2>6. /\ \A p : p \in DOMAIN b <=> j /\ p \in Front
        /\ \A p \in Front : j => b[p] = lf
    BY <2>2, <2>3, OneColour
  <2>7. /\ \A p : p \in DOMAIN c <=> k /\ p \in Shown(copied)
        /\ \A p \in Shown(copied) : k => c[p] = lf
    BY <2>2, <2>3, OneColour
  <2>8. /\ \A p : p \in DOMAIN d <=> l /\ p \in Front
        /\ \A p \in Front : l => d[p] = lf
    BY <2>2, <2>3, OneColour
  <2>9. PICK ab, abc, abcd : ab = a ++ b /\ abc = ab ++ c /\ abcd = abc ++ d
    OBVIOUS
  <2>10. /\ \A p : p \in DOMAIN ab <=> p \in DOMAIN a \/ p \in DOMAIN b
         /\ \A p \in DOMAIN b : ab[p] = b[p]
         /\ \A p \in DOMAIN a : p \notin DOMAIN b => ab[p] = a[p]
    BY <2>9, Over
  <2>11. /\ \A p : p \in DOMAIN abc <=> p \in DOMAIN ab \/ p \in DOMAIN c
         /\ \A p \in DOMAIN c : abc[p] = c[p]
         /\ \A p \in DOMAIN ab : p \notin DOMAIN c => abc[p] = ab[p]
    BY <2>9, Over
  <2>12. /\ \A p : p \in DOMAIN abcd <=> p \in DOMAIN abc \/ p \in DOMAIN d
         /\ \A p \in DOMAIN d : abcd[p] = d[p]
         /\ \A p \in DOMAIN abc : p \notin DOMAIN d => abcd[p] = abc[p]
    BY <2>9, Over
  <2>13. ContentPaint = abcd
    BY <2>4, <2>9
  <2> HIDE DEF lf, lb
  <2>14. /\ i /\ ~j => l \/ Front \cap Behind = {}
         /\ Shown(copied) \subseteq Front
         /\ j \/ k \/ Shown(copied) = {}
    BY <1>1, <2>1
  <2>15. \A p : p \in DOMAIN abcd <=> \/ i /\ p \in Behind
                                      \/ j /\ p \in Front
                                      \/ k /\ p \in Shown(copied)
                                      \/ l /\ p \in Front
    BY <2>5, <2>6, <2>7, <2>8, <2>10, <2>11, <2>12
  <2>16. ASSUME NEW p \in DOMAIN abcd
         PROVE  /\ p \in Front => abcd[p] = lf
                /\ p \notin Front => p \in Behind /\ abcd[p] = lb
    <3>1. CASE p \in DOMAIN d
      BY <2>8, <2>12, <3>1
    <3>2. CASE p \notin DOMAIN d /\ p \in DOMAIN c
      <4>1. abcd[p] = abc[p] /\ abc[p] = c[p]
        BY <2>11, <2>12, <3>2
      <4>2. p \in Shown(copied) /\ k
        BY <2>7, <3>2
      <4>3. c[p] = lf
        BY <2>7, <4>2
      <4>4. p \in Front
        BY <2>14, <4>2
      <4>5. QED
        BY <4>1, <4>3, <4>4
    <3>3. CASE p \notin DOMAIN d /\ p \notin DOMAIN c /\ p \in DOMAIN b
      BY <2>6, <2>10, <2>11, <2>12, <3>3
    <3>4. CASE p \notin DOMAIN d /\ p \notin DOMAIN c /\ p \notin DOMAIN b
      <4>1. p \in DOMAIN a /\ abcd[p] = a[p]
        BY <2>10, <2>11, <2>12, <3>4
      <4>2. i /\ p \in Behind /\ abcd[p] = lb
        BY <2>5, <4>1
      <4>3. p \notin Front
        BY <2>6, <2>8, <2>14, <3>4, <4>2
      <4>4. QED
        BY <4>2, <4>3
    <3>5. QED
      BY <3>1, <3>2, <3>3, <3>4
  <2>17. /\ j => Front \subseteq DOMAIN abcd
         /\ i => Behind \subseteq DOMAIN abcd
         /\ Shown(copied) \subseteq DOMAIN abcd
    BY <2>14, <2>15
  <2>18. \A p \in DOMAIN abcd :
            \/ inactiveFull /\ p \in Behind
            \/ (activeFull \/ (inactiveFull /\ WindowsMeet)) /\ p \in Front
            \/ ~activeFull /\ ~Empty(copied) /\ p \in Shown(copied)
    BY <2>1, <2>15
  <2>19. QED
    BY <1>1, <1>3, <2>1, <2>13, <2>16, <2>17, <2>18 DEF lf, lb
<1>4. QED
  BY <1>2, <1>3

(* The chrome is drawn over the content.                                   *)
LEMMA PictureFacts ==
  ASSUME NEW dirty, NEW drawn, drawn = Picture(dirty)
  PROVE  /\ DOMAIN ContentPaint \subseteq DOMAIN drawn
         /\ "menu" \in dirty => OnMenuBar \subseteq DOMAIN drawn
         /\ "stats" \in dirty => OnStats \subseteq DOMAIN drawn
         /\ "taskbar" \in dirty => OnTaskbar \subseteq DOMAIN drawn
         /\ \A p \in DOMAIN drawn :
              \/ "taskbar" \in dirty /\ p \in OnTaskbar /\ drawn[p] = "taskbar"
              \/ "bars" \in dirty /\ p \in OnBars /\ drawn[p] = "stats"
              \/ "stats" \in dirty /\ p \in OnStats /\ drawn[p] = "stats"
              \/ "menu" \in dirty /\ p \in OnMenuBar /\ drawn[p] = "menu"
              \/ /\ p \in DOMAIN ContentPaint /\ drawn[p] = ContentPaint[p]
                 /\ "stats" \in dirty => p \notin OnStats
<1>1. PICK i, j, k, l :
        /\ i = ("menu" \in dirty) /\ j = ("stats" \in dirty)
        /\ k = ("bars" \in dirty) /\ l = ("taskbar" \in dirty)
  OBVIOUS
<1>2. i \in BOOLEAN /\ j \in BOOLEAN /\ k \in BOOLEAN /\ l \in BOOLEAN
  BY <1>1
<1>3. PICK c, m, s, b, t :
        /\ c = ContentPaint
        /\ m = If(i, Paint(OnMenuBar, "menu")) /\ s = If(j, Paint(OnStats, "stats"))
        /\ b = If(k, Paint(OnBars, "stats")) /\ t = If(l, Paint(OnTaskbar, "taskbar"))
  OBVIOUS
<1>4. PICK cm, cms, cmsb : cm = c ++ m /\ cms = cm ++ s /\ cmsb = cms ++ b
  OBVIOUS
<1>5. drawn = cmsb ++ t
  <2>1. /\ ChromePaint["menu"] = Paint(OnMenuBar, "menu")
        /\ ChromePaint["stats"] = Paint(OnStats, "stats")
        /\ ChromePaint["bars"] = Paint(OnBars, "stats")
        /\ ChromePaint["taskbar"] = Paint(OnTaskbar, "taskbar")
    BY DEF ChromePaint
  <2>2. drawn = (((c ++ m) ++ s) ++ b) ++ t
    BY <1>1, <1>3, <2>1 DEF Picture
  <2>3. QED
    BY <1>4, <2>2
<1>6. /\ \A p : p \in DOMAIN m <=> i /\ p \in OnMenuBar
      /\ \A p \in OnMenuBar : i => m[p] = "menu"
  BY <1>2, <1>3, OneColour
<1>7. /\ \A p : p \in DOMAIN s <=> j /\ p \in OnStats
      /\ \A p \in OnStats : j => s[p] = "stats"
  BY <1>2, <1>3, OneColour
<1>8. /\ \A p : p \in DOMAIN b <=> k /\ p \in OnBars
      /\ \A p \in OnBars : k => b[p] = "stats"
  BY <1>2, <1>3, OneColour
<1>9. /\ \A p : p \in DOMAIN t <=> l /\ p \in OnTaskbar
      /\ \A p \in OnTaskbar : l => t[p] = "taskbar"
  BY <1>2, <1>3, OneColour
<1>10. /\ \A p : p \in DOMAIN cm <=> p \in DOMAIN c \/ p \in DOMAIN m
       /\ \A p \in DOMAIN m : cm[p] = m[p]
       /\ \A p \in DOMAIN c : p \notin DOMAIN m => cm[p] = c[p]
  BY <1>4, Over
<1>11. /\ \A p : p \in DOMAIN cms <=> p \in DOMAIN cm \/ p \in DOMAIN s
       /\ \A p \in DOMAIN s : cms[p] = s[p]
       /\ \A p \in DOMAIN cm : p \notin DOMAIN s => cms[p] = cm[p]
  BY <1>4, Over
<1>12. /\ \A p : p \in DOMAIN cmsb <=> p \in DOMAIN cms \/ p \in DOMAIN b
       /\ \A p \in DOMAIN b : cmsb[p] = b[p]
       /\ \A p \in DOMAIN cms : p \notin DOMAIN b => cmsb[p] = cms[p]
  BY <1>4, Over
<1>13. /\ \A p : p \in DOMAIN drawn <=> p \in DOMAIN cmsb \/ p \in DOMAIN t
       /\ \A p \in DOMAIN t : drawn[p] = t[p]
       /\ \A p \in DOMAIN cmsb : p \notin DOMAIN t => drawn[p] = cmsb[p]
  BY <1>5, Over
<1>14. /\ DOMAIN c \subseteq DOMAIN drawn
       /\ i => OnMenuBar \subseteq DOMAIN drawn
       /\ j => OnStats \subseteq DOMAIN drawn
       /\ l => OnTaskbar \subseteq DOMAIN drawn
  BY <1>6, <1>7, <1>9, <1>10, <1>11, <1>12, <1>13
<1>15. ASSUME NEW p \in DOMAIN drawn
       PROVE  \/ l /\ p \in OnTaskbar /\ drawn[p] = "taskbar"
              \/ k /\ p \in OnBars /\ drawn[p] = "stats"
              \/ j /\ p \in OnStats /\ drawn[p] = "stats"
              \/ i /\ p \in OnMenuBar /\ drawn[p] = "menu"
              \/ p \in DOMAIN c /\ drawn[p] = c[p] /\ p \notin DOMAIN s
  <2>1. CASE p \in DOMAIN t
    BY <1>9, <1>13, <2>1
  <2>2. CASE p \notin DOMAIN t /\ p \in DOMAIN b
    <3>1. drawn[p] = cmsb[p] /\ cmsb[p] = b[p]
      BY <1>12, <1>13, <2>2
    <3>2. QED
      BY <1>8, <2>2, <3>1
  <2>3. CASE p \notin DOMAIN t /\ p \notin DOMAIN b /\ p \in DOMAIN s
    <3>1. drawn[p] = cmsb[p] /\ cmsb[p] = cms[p] /\ cms[p] = s[p]
      BY <1>11, <1>12, <1>13, <2>3
    <3>2. QED
      BY <1>7, <2>3, <3>1
  <2>4. CASE p \notin DOMAIN t /\ p \notin DOMAIN b /\ p \notin DOMAIN s
    <3>1. /\ drawn[p] = cmsb[p] /\ cmsb[p] = cms[p] /\ cms[p] = cm[p]
          /\ p \in DOMAIN c \/ p \in DOMAIN m
      BY <1>10, <1>11, <1>12, <1>13, <2>4
    <3>2. CASE p \in DOMAIN m
      <4>1. cm[p] = m[p] /\ i /\ p \in OnMenuBar /\ m[p] = "menu"
        BY <1>6, <1>10, <3>2
      <4>2. QED
        BY <3>1, <4>1
    <3>3. CASE p \notin DOMAIN m
      <4>1. p \in DOMAIN c /\ cm[p] = c[p]
        BY <1>10, <3>1, <3>3
      <4>2. QED
        BY <2>4, <3>1, <4>1
    <3>4. QED
      BY <3>2, <3>3
  <2>5. QED
    BY <2>1, <2>2, <2>3, <2>4
<1>16. QED
  BY <1>1, <1>3, <1>7, <1>14, <1>15

(* One rectangle after the other is added to what is presented.            *)
Both(r, s) == IF Empty(s) THEN r ELSE Extended(r, s)

(* What was to be presented before still is.                               *)
LEMMA BothHold ==
  ASSUME NEW r \in Words, NEW s \in Words
  PROVE  /\ Both(r, s) \in Words
         /\ On(r) \subseteq On(Both(r, s)) /\ On(s) \subseteq On(Both(r, s))
<1>1. ScreenW \in Int /\ ScreenH \in Int
  BY Sizes
<1>2. CASE Empty(s)
  <2>1. On(s) = {}
    BY <1>1, <1>2, EmptyIsDark DEF On
  <2>2. QED
    BY <1>2, <2>1 DEF Both
<1>3. CASE ~Empty(s)
  BY <1>1, <1>3, ExtendedHolds DEF Both, On
<1>4. QED
  BY <1>2, <1>3

(* What is drawn of the content is presented, but for the windows that a   *)
(* full frame draws out of it.                                             *)
LEMMA ContentIsPresented ==
  ASSUME Types
  PROVE  \A p \in DOMAIN ContentPaint :
           p \in On(ContentPresent) \/ (full /\ p \in Front \cup Behind)
<1>1. CASE full
  <2>1. ContentPresent = Content
    BY <1>1 DEF ContentPresent
  <2>2. On(ContentPresent) = OnContent
    BY <2>1 DEF OnContent
  <2>3. QED
    BY <1>1, <2>2, ContentFacts
<1>2. CASE ~full
  <2>1. PICK behind, front, text :
          /\ behind = IF inactiveFull THEN Outer[1 - ws][ws] ELSE NoRect
          /\ front = IF activeFull \/ (inactiveFull /\ WindowsMeet) THEN Outer[ws][ws]
                     ELSE NoRect
          /\ text = IF activeFull \/ Empty(copied) THEN NoRect
                    ELSE [copied EXCEPT !.x = @ + ActiveX, !.y = @ + ActiveY]
    OBVIOUS
  <2>2. ContentPresent = Both(Both(behind, front), text)
    BY <1>2, <2>1 DEF ContentPresent, Both
  <2>3. /\ NoRect \in Words /\ copied \in Words /\ ws \in Windows /\ 1 - ws \in Windows
        /\ Outer[ws][ws] \in Words /\ Outer[1 - ws][ws] \in Words
        /\ Front = On(Outer[ws][ws]) /\ Behind = On(Outer[1 - ws][ws])
    BY TwoWindows, WindowsOnScreen DEF Types, NoRect, Words, Front, Behind
  <2>4. PICK moved : moved = [copied EXCEPT !.x = @ + ActiveX, !.y = @ + ActiveY]
    OBVIOUS
  <2>5. /\ moved \in Words /\ moved.x = copied.x + ActiveX /\ moved.y = copied.y + ActiveY
        /\ moved.w = copied.w /\ moved.h = copied.h
    <3>1. copied \in [x : Int, y : Int, w : Nat, h : Nat]
      BY <2>3 DEF Words
    <3>2. copied.x + ActiveX \in Int /\ copied.y + ActiveY \in Int
      BY <3>1, Sizes
    <3>3. moved = [x |-> copied.x + ActiveX, y |-> copied.y + ActiveY,
                   w |-> copied.w, h |-> copied.h]
      BY <2>4, <3>1
    <3>4. QED
      BY <3>1, <3>2, <3>3 DEF Words
  <2>6. Shown(copied) \subseteq On(moved)
    <3>1. SUFFICES ASSUME NEW cell \in Lit(copied),
                          <<ActiveX + cell[1], ActiveY + cell[2]>> \in Points
                   PROVE  <<ActiveX + cell[1], ActiveY + cell[2]>> \in On(moved)
      BY TwoWindows, ChromeApart DEF Shown
    <3>2. /\ copied.x \in Int /\ copied.y \in Int /\ copied.w \in Int /\ copied.h \in Int
          /\ moved.x \in Int /\ moved.y \in Int /\ moved.w \in Int /\ moved.h \in Int
      BY <2>3, <2>5 DEF Words
    <3>3. /\ cell[1] \in High(copied.x, 0) .. Low(copied.x + copied.w, Cols) - 1
          /\ cell[2] \in High(copied.y, 0) .. Low(copied.y + copied.h, Rows) - 1
      BY DEF Lit, PointsOf
    <3>4. /\ cell[1] \in Int /\ copied.x <= cell[1] /\ cell[1] < copied.x + copied.w
          /\ cell[2] \in Int /\ copied.y <= cell[2] /\ cell[2] < copied.y + copied.h
      BY <3>2, <3>3, PageSizes DEF High, Low
    <3>5. /\ moved.x <= ActiveX + cell[1] /\ ActiveX + cell[1] < moved.x + moved.w
          /\ moved.y <= ActiveY + cell[2] /\ ActiveY + cell[2] < moved.y + moved.h
      BY <2>5, <3>2, <3>4, Sizes
    <3>6. QED
      BY <3>1, <3>2, <3>5, OnPoints
  <2>7. /\ behind \in Words /\ front \in Words /\ text \in Words
        /\ inactiveFull => Behind = On(behind)
        /\ activeFull \/ (inactiveFull /\ WindowsMeet) => Front = On(front)
        /\ ~activeFull /\ ~Empty(copied) => Shown(copied) \subseteq On(text)
    BY <2>1, <2>3, <2>4, <2>5, <2>6
  <2>8. PICK both : both = Both(behind, front)
    OBVIOUS
  <2>9. both \in Words /\ On(behind) \subseteq On(both) /\ On(front) \subseteq On(both)
    BY <2>7, <2>8, BothHold
  <2>10. /\ On(both) \subseteq On(Both(both, text))
         /\ On(text) \subseteq On(Both(both, text))
    BY <2>7, <2>9, BothHold
  <2>11. ContentPresent = Both(both, text)
    BY <2>2, <2>8
  <2>12. \A p \in DOMAIN ContentPaint :
           \/ inactiveFull /\ p \in Behind
           \/ (activeFull \/ (inactiveFull /\ WindowsMeet)) /\ p \in Front
           \/ ~activeFull /\ ~Empty(copied) /\ p \in Shown(copied)
    BY <1>2, ContentFacts
  <2>13. ASSUME NEW p \in DOMAIN ContentPaint
         PROVE  p \in On(behind) \/ p \in On(front) \/ p \in On(text)
    BY <2>7, <2>12
  <2>14. QED
    BY <2>9, <2>10, <2>11, <2>13
<1>3. QED
  BY <1>1, <1>2

(* Every point that a frame draws, or leaves, is then in order.            *)
LEMMA DrawnInOrder ==
  ASSUME Types, FrameInv, PlaceInv, phase = "draw",
         NEW dirty, chrome \subseteq dirty, NEW drawn, drawn = Picture(dirty),
         NEW p \in Points \ Beyond,
         NEW shows, shows = IF p \in DOMAIN drawn THEN drawn[p] ELSE top[p]
  PROVE  \/ shows = Layers[ws][p]
         \/ p \in OnOuter[0][ws] \cup OnOuter[1][ws] /\ shows = Scene[ws][p]
         \/ p \in OnBars /\ shows = "stats"
<1>1. /\ ws \in Windows /\ 1 - ws \in Windows
      /\ Front = OnOuter[ws][ws] /\ Behind = OnOuter[1 - ws][ws]
      /\ Front \cup Behind = OnOuter[0][ws] \cup OnOuter[1][ws]
  <2>1. ws = 0 \/ ws = 1
    BY DEF Types, Windows
  <2>2. ws \in Windows /\ 1 - ws \in Windows
    BY TwoWindows
  <2>3. 1 - 0 = 1 /\ 1 - 1 = 0
    OBVIOUS
  <2>4. QED
    BY <2>1, <2>2, <2>3 DEF Front, Behind
<1>2. Scene[ws][p] = IF p \in Front THEN Layer[ws][ws]
                     ELSE IF p \in Behind THEN Layer[1 - ws][ws]
                     ELSE "desktop"
  BY <1>1 DEF Scene
<1>3. Layers[ws][p] = IF p \in OnMenuBar THEN "menu"
                      ELSE IF p \in OnTaskbar THEN "taskbar"
                      ELSE IF p \in OnStats THEN "stats"
                      ELSE Scene[ws][p]
  BY <1>1 DEF Layers
<1>4. /\ OnMenuBar \cap OnContent = {} /\ OnTaskbar \cap OnContent = {}
      /\ OnMenuBar \cap OnTaskbar = {}
      /\ OnStats \cap OnMenuBar = {} /\ OnStats \cap OnTaskbar = {}
  BY ChromeApart
<1>5. CASE p \in DOMAIN drawn
  <2>1. \/ p \in OnTaskbar /\ shows = "taskbar"
        \/ p \in OnBars /\ shows = "stats"
        \/ p \in OnStats /\ shows = "stats"
        \/ p \in OnMenuBar /\ shows = "menu"
        \/ /\ p \in DOMAIN ContentPaint /\ shows = ContentPaint[p]
           /\ "stats" \in dirty => p \notin OnStats
    BY <1>5, PictureFacts
  <2>2. CASE p \in OnTaskbar /\ shows = "taskbar"
    BY <1>3, <1>4, <2>2
  <2>3. CASE p \in OnBars /\ shows = "stats"
    BY <2>3
  <2>4. CASE p \in OnStats /\ shows = "stats"
    BY <1>3, <1>4, <2>4
  <2>5. CASE p \in OnMenuBar /\ shows = "menu"
    BY <1>3, <2>5
  <2>6. CASE /\ p \in DOMAIN ContentPaint /\ shows = ContentPaint[p]
             /\ "stats" \in dirty => p \notin OnStats
    <3>1. /\ p \in Front \/ p \in Behind \/ (full /\ p \in OnContent)
          /\ shows = Scene[ws][p]
      BY <1>2, <2>6, ContentFacts
    <3>2. CASE p \in Front \/ p \in Behind
      BY <1>1, <3>1, <3>2
    <3>3. CASE full /\ p \in OnContent
      <4>1. p \notin OnMenuBar /\ p \notin OnTaskbar /\ p \notin OnStats
        BY <1>4, <2>6, <3>3 DEF FrameInv
      <4>2. QED
        BY <1>3, <3>1, <4>1
    <3>4. QED
      BY <3>1, <3>2, <3>3
  <2>7. QED
    BY <2>1, <2>2, <2>3, <2>4, <2>5, <2>6
<1>6. CASE p \notin DOMAIN drawn /\ full
  <2>1. /\ p \notin OnContent /\ p \notin OnStats /\ p \notin OnTaskbar
        /\ p \notin Front /\ p \notin Behind
    <3>1. "stats" \in dirty /\ "taskbar" \in dirty
      BY <1>6 DEF FrameInv
    <3>2. /\ OnStats \subseteq DOMAIN drawn /\ OnTaskbar \subseteq DOMAIN drawn
          /\ DOMAIN ContentPaint \subseteq DOMAIN drawn
      BY <3>1, PictureFacts
    <3>3. OnContent \cup Front \cup Behind \subseteq DOMAIN ContentPaint
      BY <1>6, ContentFacts
    <3>4. QED
      BY <1>6, <3>2, <3>3
  <2>2. CASE p \in OnMenuBar
    <3>1. ~presentAll
      <4>1. SUFFICES ASSUME presentAll PROVE FALSE
        OBVIOUS
      <4>2. "menu" \in dirty
        BY <4>1 DEF FrameInv, AllChrome
      <4>3. OnMenuBar \subseteq DOMAIN drawn
        BY <4>2, PictureFacts
      <4>4. QED
        BY <1>6, <2>2, <4>3
    <3>2. top[p] = "menu"
      BY <2>2, <3>1 DEF PlaceInv
    <3>3. QED
      BY <1>3, <1>6, <2>2, <3>2
  <2>3. CASE p \notin OnMenuBar
    <3>1. top[p] = "desktop" \/ (p \in OnBars /\ top[p] = "stats")
      BY <2>1, <2>3 DEF PlaceInv
    <3>2. Layers[ws][p] = "desktop"
      BY <1>2, <1>3, <2>1, <2>3
    <3>3. QED
      BY <1>6, <3>1, <3>2
  <2>4. QED
    BY <2>2, <2>3
<1>7. CASE p \notin DOMAIN drawn /\ ~full
  <2>1. InOrder(p) /\ shows = top[p]
    BY <1>7 DEF PlaceInv
  <2>2. QED
    BY <2>1 DEF InOrder
<1>8. QED
  BY <1>5, <1>6, <1>7

(* A frame.                                                                *)
LEMMA FrameFacts ==
  ASSUME IInv, NEW numbers \in SUBSET {"menu", "stats", "bars"}, DrawsFrame(numbers)
  PROVE  IInv'
<1>1. PICK dirty, drawn, presented :
        /\ dirty = chrome \cup numbers /\ drawn = Picture(dirty)
        /\ presented = Presented(dirty)
  OBVIOUS
<1>2. /\ phase = "draw" /\ top' = top ++ drawn /\ stale' = stale \ DOMAIN drawn
      /\ unpresented' = (unpresented \cup DOMAIN drawn) \ presented
      /\ phase' = "keys"
      /\ full' = FALSE /\ activeFull' = FALSE /\ inactiveFull' = FALSE
      /\ copied' = NoRect /\ chrome' = {} /\ presentAll' = FALSE
      /\ page' = page /\ damage' = damage /\ marked' = marked
      /\ dashMarked' = dashMarked /\ ws' = ws
  BY <1>1 DEF DrawsFrame, shellVars
<1>3. Types /\ FrameInv /\ PlaceInv /\ StaleInv /\ PresentInv
  BY DEF IInv
<1>4. chrome \subseteq dirty
  BY <1>1
<1>5. /\ \A p \in DOMAIN drawn :
           \/ "taskbar" \in dirty /\ p \in OnTaskbar /\ drawn[p] = "taskbar"
           \/ "bars" \in dirty /\ p \in OnBars /\ drawn[p] = "stats"
           \/ "stats" \in dirty /\ p \in OnStats /\ drawn[p] = "stats"
           \/ "menu" \in dirty /\ p \in OnMenuBar /\ drawn[p] = "menu"
           \/ /\ p \in DOMAIN ContentPaint /\ drawn[p] = ContentPaint[p]
              /\ "stats" \in dirty => p \notin OnStats
      /\ DOMAIN ContentPaint \subseteq DOMAIN drawn
  BY <1>1, PictureFacts
<1>6. \A p \in DOMAIN ContentPaint :
        /\ p \in Front \/ p \in Behind \/ p \in OnContent
        /\ p \in Front => ContentPaint[p] = Layer[ws][ws]
        /\ p \in Behind /\ p \notin Front => ContentPaint[p] = Layer[1 - ws][ws]
        /\ p \notin Behind /\ p \notin Front => ContentPaint[p] = "desktop"
  BY <1>3, ContentFacts
<1>7. /\ OnMenuBar \subseteq Points /\ OnTaskbar \subseteq Points /\ OnStats \subseteq Points
      /\ OnBars \subseteq Points /\ OnContent \subseteq Points
      /\ Front \subseteq Points /\ Behind \subseteq Points
  BY <1>3, ChromeApart, TwoWindows
<1>8. DOMAIN drawn \subseteq Points
  BY <1>5, <1>6, <1>7
<1>9. /\ ws \in Windows /\ 1 - ws \in Windows
      /\ Front = OnOuter[ws][ws] /\ Behind = OnOuter[1 - ws][ws]
  BY <1>3, TwoWindows DEF Front, Behind
<1>10. ASSUME NEW p \in DOMAIN drawn
       PROVE  /\ drawn[p] \in LayerNames
              /\ \A w, front \in Windows :
                   drawn[p] = Layer[w][front] => p \in OnOuter[w][front]
  <2>1. \A w, front \in Windows :
          Layer[w][front] \in {"shell", "dash", "shell behind", "dash behind"}
    BY LayerFacts
  <2>2. CASE drawn[p] \in {"taskbar", "stats", "menu", "desktop"}
    BY <2>1, <2>2 DEF LayerNames
  <2>3. CASE p \in Front /\ drawn[p] = Layer[ws][ws]
    <3>1. PICK v \in Windows, other \in Windows : v = ws /\ other = ws
      BY <1>9
    <3>2. drawn[p] = Layer[v][other] /\ p \in OnOuter[v][other]
      BY <1>9, <2>3, <3>1
    <3>3. drawn[p] \in LayerNames
      BY <2>1, <3>2 DEF LayerNames
    <3>4. ASSUME NEW w \in Windows, NEW front \in Windows,
                 Layer[w][front] = Layer[v][other]
          PROVE  w = v /\ front = other
      BY <3>4, LayersApart
    <3>5. QED
      BY <3>2, <3>3, <3>4
  <2>4. CASE p \in Behind /\ drawn[p] = Layer[1 - ws][ws]
    <3>1. PICK v \in Windows, other \in Windows : v = 1 - ws /\ other = ws
      BY <1>9
    <3>2. drawn[p] = Layer[v][other] /\ p \in OnOuter[v][other]
      BY <1>9, <2>4, <3>1
    <3>3. drawn[p] \in LayerNames
      BY <2>1, <3>2 DEF LayerNames
    <3>4. ASSUME NEW w \in Windows, NEW front \in Windows,
                 Layer[w][front] = Layer[v][other]
          PROVE  w = v /\ front = other
      BY <3>4, LayersApart
    <3>5. QED
      BY <3>2, <3>3, <3>4
  <2>5. QED
    BY <1>5, <1>6, <2>2, <2>3, <2>4
<1>11. DOMAIN top = Points
  BY <1>3 DEF Types
<1>12. PICK new : new = top ++ drawn
  OBVIOUS
<1>13. /\ \A p \in Points : p \in DOMAIN drawn => new[p] = drawn[p]
       /\ \A p \in Points : p \notin DOMAIN drawn => new[p] = top[p]
  BY <1>11, <1>12, Over
<1>14. new \in [Points -> LayerNames]
  <2>1. new = [p \in Points |-> IF p \in DOMAIN drawn THEN drawn[p] ELSE top[p]]
    BY <1>8, <1>11, <1>12 DEF ++
  <2>2. \A p \in Points : top[p] \in LayerNames
    BY <1>3 DEF Types
  <2>3. QED
    BY <1>10, <2>1, <2>2
<1>15. top' = new
  BY <1>2, <1>12
<1>16. NoRect \in Words /\ Empty(NoRect)
  BY DEF NoRect, Words, Empty
<1>17. Types'
  <2>1. unpresented' \subseteq Points
    BY <1>2, <1>3, <1>8 DEF Types
  <2>2. chrome' \subseteq AllChrome
    BY <1>2
  <2>3. QED
    BY <1>2, <1>3, <1>14, <1>15, <1>16, <2>1, <2>2 DEF Types
<1>18. FrameInv'
  <2>1. marked => ~Empty(damage)
    BY <1>2, <1>3 DEF FrameInv
  <2>2. marked' => ~Empty(damage')
    BY <1>2, <2>1
  <2>3. Empty(copied')
    BY <1>2, <1>16
  <2>4. QED
    BY <1>2, <2>2, <2>3 DEF FrameInv, Empty
<1>19. ASSUME NEW p \in Points \ Beyond
       PROVE  \/ new[p] = Layers[ws][p]
              \/ p \in OnOuter[0][ws] \cup OnOuter[1][ws] /\ new[p] = Scene[ws][p]
              \/ p \in OnBars /\ new[p] = "stats"
  <2>1. new[p] = IF p \in DOMAIN drawn THEN drawn[p] ELSE top[p]
    BY <1>13
  <2>2. QED
    BY <1>1, <1>2, <1>3, <1>4, <2>1, DrawnInOrder
<1>20. PlaceInv'
  <2>1. \A p \in Points \ Beyond : InOrder(p)'
    BY <1>2, <1>15, <1>19 DEF InOrder
  <2>2. ASSUME NEW p \in OnMenuBar PROVE new[p] = "menu"
    <3>1. /\ p \in Points /\ p \notin OnTaskbar /\ p \notin OnStats /\ p \notin OnBars
          /\ p \notin OnContent /\ p \notin Front /\ p \notin Behind
      BY <1>3, <1>7, ChromeApart, TwoWindows
    <3>2. CASE p \in DOMAIN drawn
      BY <1>5, <1>6, <1>13, <3>1, <3>2
    <3>3. CASE p \notin DOMAIN drawn
      <4>1. ~presentAll
        <5>1. SUFFICES ASSUME presentAll PROVE FALSE
          OBVIOUS
        <5>2. "menu" \in dirty
          BY <1>3, <1>4, <5>1 DEF FrameInv, AllChrome
        <5>3. OnMenuBar \subseteq DOMAIN drawn
          BY <1>1, <5>2, PictureFacts
        <5>4. QED
          BY <3>3, <5>3
      <4>2. QED
        BY <1>3, <1>13, <3>1, <3>3, <4>1 DEF PlaceInv
    <3>4. QED
      BY <3>2, <3>3
  <2>3. ASSUME NEW p \in Points
        PROVE  \/ p \in OnMenuBar \cup OnTaskbar \cup OnStats \cup OnContent \cup Beyond
               \/ new[p] = "desktop"
               \/ p \in OnBars /\ new[p] = "stats"
    <3>1. CASE p \in DOMAIN drawn
      <4>1. new[p] = drawn[p]
        BY <1>13, <3>1
      <4>2. /\ Front \subseteq OnContent \cup OnTaskbar \cup OnStats \cup Beyond
            /\ Behind \subseteq OnContent \cup OnTaskbar \cup OnStats \cup Beyond
        BY <1>3, TwoWindows
      <4>3. QED
        BY <1>5, <1>6, <3>1, <4>1, <4>2
    <3>2. CASE p \notin DOMAIN drawn
      BY <1>3, <1>13, <3>2 DEF PlaceInv
    <3>3. QED
      BY <3>1, <3>2
  <2>4. ASSUME NEW p \in Points, NEW w \in Windows, NEW front \in Windows,
               new[p] = Layer[w][front]
        PROVE  p \in OnOuter[w][front]
    <3>1. CASE p \in DOMAIN drawn
      BY <1>10, <1>13, <2>4, <3>1
    <3>2. CASE p \notin DOMAIN drawn
      BY <1>3, <1>13, <2>4, <3>2 DEF PlaceInv
    <3>3. QED
      BY <3>1, <3>2
  <2>5. QED
    BY <1>15, <2>1, <2>2, <2>3, <2>4 DEF PlaceInv
<1>21. StaleInv'
  <2>1. \A p \in stale' : p \in stale /\ p \notin DOMAIN drawn /\ p \in Points
                          /\ new[p] = top[p]
    BY <1>2, <1>3, <1>13 DEF StaleInv
  <2>2. \A p \in stale' : \E w, front \in Windows : new[p] = Layer[w][front]
    BY <1>3, <2>1 DEF StaleInv
  <2>3. /\ full => OnContent \cup OnTaskbar \cup OnStats \subseteq DOMAIN drawn
        /\ activeFull => Front \subseteq DOMAIN drawn
        /\ inactiveFull => Behind \subseteq DOMAIN drawn
        /\ Shown(copied) \subseteq DOMAIN drawn
    <3>1. full => "stats" \in dirty /\ "taskbar" \in dirty
      BY <1>3, <1>4 DEF FrameInv
    <3>2. full => OnTaskbar \subseteq DOMAIN drawn /\ OnStats \subseteq DOMAIN drawn
      BY <1>1, <3>1, PictureFacts
    <3>3. QED
      BY <1>3, <1>5, <3>2, ContentFacts
  <2>4. ASSUME NEW p \in stale' \ Beyond
        PROVE  /\ top[p] = "shell" => marked /\ p \in Shown(damage)
               /\ top[p] = "shell behind" => marked
               /\ top[p] = "dash" => dashMarked
    <3>1. PICK w, front \in Windows : top[p] = Layer[w][front]
      BY <1>3, <2>1 DEF StaleInv
    <3>2. p \in OnOuter[w][front]
      BY <1>3, <2>1, <3>1 DEF PlaceInv
    <3>3. p \in OnContent \cup OnTaskbar \cup OnStats
      BY <3>2, WindowsOnScreen
    <3>4. ~full
      BY <2>1, <2>3, <3>3
    <3>5. Pending(p)
      BY <1>3, <2>1, <3>4 DEF StaleInv
    <3>6. 1 - 0 = 1 /\ 1 - 1 = 0
      OBVIOUS
    <3>7. /\ top[p] = "shell" => p \in Front
          /\ top[p] = "shell behind" => p \in Behind
          /\ top[p] = "dash" => p \in Front
      BY <1>9, <2>1, <3>4, <3>6, FrontFacts
    <3>8. QED
      BY <2>1, <2>3, <3>5, <3>7 DEF Pending
  <2>5. ASSUME NEW p \in stale' \ Beyond PROVE Pending(p)'
    <3>1. new[p] = top[p]
      BY <2>1
    <3>2. Shown(damage)' = Shown(damage')
      BY DEF Shown
    <3>3. (top[p] = "shell" => activeFull \/ p \in Shown(copied)
                               \/ (marked /\ p \in Shown(damage)))'
      BY <1>2, <1>15, <2>4, <3>1, <3>2
    <3>4. (top[p] = "shell behind" => inactiveFull \/ marked)'
      BY <1>2, <1>15, <2>4, <3>1
    <3>5. (top[p] = "dash" => activeFull \/ dashMarked)'
      BY <1>2, <1>15, <2>4, <3>1
    <3>6. QED
      BY <3>3, <3>4, <3>5 DEF Pending
  <2>6. QED
    BY <1>15, <2>1, <2>2, <2>5 DEF StaleInv
<1>22. PresentInv'
  <2>1. CASE presentAll
    <3>1. presented = Points
      BY <1>1, <2>1 DEF Presented
    <3>2. QED
      BY <1>2, <1>3, <1>8, <3>1 DEF Types, PresentInv
  <2>2. CASE ~presentAll
    <3>1. presented = (IF "menu" \in dirty THEN OnMenuBar ELSE {})
                      \cup On(ContentPresent)
                      \cup (IF "stats" \in dirty THEN OnStats ELSE {})
                      \cup (IF "taskbar" \in dirty THEN OnTaskbar ELSE {})
      BY <1>1, <2>2 DEF Presented
    <3>2. ASSUME NEW p \in DOMAIN ContentPaint
          PROVE  p \in presented \/ p \in Beyond
      <4>1. p \in On(ContentPresent) \/ (full /\ p \in Front \cup Behind)
        BY <1>3, ContentIsPresented
      <4>2. CASE full /\ p \in Front \cup Behind
        <5>1. p \in OnContent \cup OnTaskbar \cup OnStats \cup Beyond
          BY <1>3, <4>2, TwoWindows
        <5>2. "stats" \in dirty /\ "taskbar" \in dirty
          BY <1>3, <1>4, <4>2 DEF FrameInv
        <5>3. On(ContentPresent) = OnContent
          BY <4>2 DEF ContentPresent, OnContent
        <5>4. QED
          BY <3>1, <5>1, <5>2, <5>3
      <4>3. QED
        BY <3>1, <4>1, <4>2
    <3>3. \A p \in DOMAIN drawn : p \in presented \/ p \in OnBars \cup Beyond
      BY <1>5, <3>1, <3>2
    <3>4. unpresented \subseteq OnBars \cup Beyond
      BY <1>3, <2>2 DEF PresentInv
    <3>5. QED
      BY <1>2, <3>3, <3>4 DEF PresentInv
  <2>3. QED
    BY <2>1, <2>2
<1>23. QED
  BY <1>17, <1>18, <1>20, <1>21, <1>22 DEF IInv

-----------------------------------------------------------------------------
(* No step leaves the invariant.                                           *)
LEMMA NextFacts ==
  IInv /\ [Next]_vars => IInv'
<1> SUFFICES ASSUME IInv, [Next]_vars PROVE IInv'
  OBVIOUS
<1>1. CASE \E key \in Keys : ShellKey(key)
  BY <1>1, ShellKeyFacts
<1>2. CASE ShellRestarts
  BY <1>2, ShellRestartFacts
<1>3. CASE DashboardDraws
  BY <1>3, DashboardFacts
<1>4. CASE \E w \in Windows, switched \in BOOLEAN : TakesDamage(w, switched)
  BY <1>4, TakesFacts
<1>5. CASE Idles
  BY <1>5, IdleFacts
<1>6. CASE \E numbers \in SUBSET ({"menu", "stats", "bars"} \ chrome) :
             DrawsFrame(numbers)
  <2>1. PICK numbers \in SUBSET {"menu", "stats", "bars"} : DrawsFrame(numbers)
    BY <1>6
  <2>2. QED
    BY <2>1, FrameFacts
<1>7. CASE CompositorRestarts
  BY <1>7, RestartFacts
<1>8. CASE UNCHANGED vars
  <2>1. /\ page' = page /\ damage' = damage /\ marked' = marked /\ dashMarked' = dashMarked
        /\ phase' = phase /\ ws' = ws /\ full' = full /\ activeFull' = activeFull
        /\ inactiveFull' = inactiveFull /\ copied' = copied /\ chrome' = chrome
        /\ presentAll' = presentAll /\ top' = top /\ stale' = stale
        /\ unpresented' = unpresented
    BY <1>8 DEF vars, shellVars, frameVars, pictures
  <2>2. Types' /\ FrameInv'
    BY <2>1 DEF IInv, Types, FrameInv, Empty
  <2>3. PlaceInv' /\ PresentInv'
    BY <2>1 DEF IInv, PlaceInv, PresentInv, InOrder
  <2>4. StaleInv'
    BY <2>1 DEF IInv, StaleInv, Pending, Shown
  <2>5. QED
    BY <2>2, <2>3, <2>4 DEF IInv
<1>9. QED
  BY <1>1, <1>2, <1>3, <1>4, <1>5, <1>6, <1>7, <1>8 DEF Next

(* A settled desktop that has kept the invariant is current.               *)
LEMMA CurrentFacts ==
  IInv => ScreenIsCurrent
<1> SUFFICES ASSUME IInv, phase = "keys", ~full
             PROVE  /\ \A p \in Points \ Beyond : InOrder(p)
                    /\ ChangesAreMarked
                    /\ unpresented \subseteq OnBars \cup Beyond
  BY DEF ScreenIsCurrent, Settled
<1>1. \A p \in Points \ Beyond : InOrder(p)
  BY DEF IInv, PlaceInv
<1>2. /\ ~presentAll /\ ~activeFull /\ ~inactiveFull /\ Empty(copied)
  BY DEF IInv, FrameInv
<1>3. unpresented \subseteq OnBars \cup Beyond
  BY <1>2 DEF IInv, PresentInv
<1>4. Shown(copied) = {}
  BY <1>2, EmptyIsDark, PageSizes DEF IInv, Types, Shown, Lit
<1>5. ASSUME NEW p \in stale \ Beyond
      PROVE  /\ top[p] = "shell" =>
                  marked /\ (Empty(damage) \/ <<p[1] - ActiveX, p[2] - ActiveY>>
                                                \in PointsOf(damage, Cols, Rows))
             /\ top[p] = "shell behind" => marked
             /\ top[p] = "dash" => dashMarked
  <2>1. Pending(p)
    BY DEF IInv, StaleInv
  <2>2. /\ top[p] = "shell" => marked /\ p \in Shown(damage)
        /\ top[p] = "shell behind" => marked
        /\ top[p] = "dash" => dashMarked
    BY <1>2, <1>4, <2>1 DEF Pending
  <2>3. ASSUME p \in Shown(damage)
        PROVE  <<p[1] - ActiveX, p[2] - ActiveY>> \in PointsOf(damage, Cols, Rows)
    <3>1. PICK cell \in Lit(damage) : p = <<ActiveX + cell[1], ActiveY + cell[2]>>
      BY <2>3 DEF Shown
    <3>2. cell = <<cell[1], cell[2]>> /\ cell[1] \in Int /\ cell[2] \in Int
      BY DEF Lit, PointsOf
    <3>3. p[1] - ActiveX = cell[1] /\ p[2] - ActiveY = cell[2]
      BY <3>1, <3>2, Sizes
    <3>4. QED
      BY <3>2, <3>3 DEF Lit
  <2>4. QED
    BY <2>2, <2>3
<1>6. QED
  BY <1>1, <1>3, <1>5 DEF ChangesAreMarked

(* Keys, restarts and frames keep the desktop's invariant.                 *)
THEOREM Invariance == Spec => []IInv
  BY InitFacts, NextFacts, PTL DEF Spec

(* After any frame the windows are in order, the screen shows what the     *)
(* back buffer does, and whatever has changed since is marked to be drawn: *)
(* on every screen that holds menu bar, panel and taskbar and is as wide   *)
(* as a surface, also where the windows reach panel and taskbar.  Which of *)
(* them is on top there is not claimed: that is the open issue #65.        *)
THEOREM CurrentScreen == Spec => []ScreenIsCurrent
  BY Invariance, CurrentFacts, PTL

(* The last line of the page always is the end of the command, on pages of *)
(* every size and for commands of every length.                            *)
THEOREM LineShowsCommand == Spec => []LineIsCommand
<1>1. IInv => LineIsCommand
  BY DEF IInv, Types, PageInv, LineIsCommand
<1>2. QED
  BY <1>1, Invariance, PTL

-----------------------------------------------------------------------------
(* The MCP bridge, the built-in that has no window.                        *)

(* The tasks view.  A slot is behind the view once it has its row or was   *)
(* found without a name.                                                   *)
Passed(i) == row # <<>> /\ (i < row[1] \/ (i = row[1] /\ Len(row) = 4))

OwnRow(i) == <<i, named[i], generation[i], named[i]>>

Tables ==
  /\ generation \in [Slots -> Nat]
  /\ named \in [Slots -> Nat]
  /\ \A i \in Slots : named[i] \in {0, generation[i]}

(* Where the bridge is, and that only the view keeps rows.                 *)
Steps ==
  /\ at \in {"drain", "halted", "view", "reply"}
  /\ at \in {"drain", "halted"} => response = "none"
  /\ at = "view" => response = "tasks"
  /\ response # "tasks" => row = <<>> /\ rows = <<>> /\ changed = {}
  /\ at = "reply" /\ response = "tasks" => \A i \in Slots : Passed(i)

(* The row being filled: what it has of a task is the task's own while the *)
(* slot has not changed, and never of a later task than what came before.  *)
RowInv ==
  /\ row \in Seq(Nat) /\ Len(row) \in {0, 2, 3, 4}
  /\ row # <<>> => row[1] \in Slots
  /\ Len(row) \in {2, 3} =>
       /\ row[2] # 0 /\ row[2] <= generation[row[1]]
       /\ row[1] \notin changed => named[row[1]] = row[2]
  /\ Len(row) = 3 =>
       /\ row[2] <= row[3] /\ row[3] <= generation[row[1]]
       /\ row[1] \notin changed => generation[row[1]] = row[3]

(* The rows that are done.                                                 *)
Forward(r) == r[2] <= r[3] /\ (r[4] = 0 \/ r[3] <= r[4])

RowsOf(i) == {r \in Range(rows) : r[1] = i}

RowsInv ==
  /\ rows \in Seq(Seq(Nat))
  /\ \A r \in Range(rows) : r[1] \in Slots /\ Passed(r[1]) /\ Forward(r)
  /\ \A i \in Slots \ changed :
       RowsOf(i) = IF named[i] = 0 \/ ~Passed(i) THEN {} ELSE {OwnRow(i)}

ViewInv == Tables /\ Steps /\ RowInv /\ RowsInv

(* What a row that is appended adds.                                       *)
LEMMA AppendedRow ==
  ASSUME NEW S, NEW s \in Seq(S), NEW e \in S
  PROVE  Range(Append(s, e)) = Range(s) \cup {e}
<1>1. /\ Append(s, e) \in Seq(S) /\ DOMAIN Append(s, e) = 1 .. Len(s) + 1
      /\ DOMAIN s = 1 .. Len(s) /\ Len(s) \in Nat
      /\ \A i \in 1 .. Len(s) : Append(s, e)[i] = s[i]
      /\ Append(s, e)[Len(s) + 1] = e
  BY AppendProperties, LenProperties
<1>2. \A i : i \in 1 .. Len(s) + 1 <=> i \in 1 .. Len(s) \/ i = Len(s) + 1
  BY <1>1
<1>3. QED
  BY <1>1, <1>2 DEF Range

(* A row with the last of its numbers.                                     *)
LEMMA FullRow ==
  ASSUME NEW S, NEW s \in Seq(S), NEW e \in S
  PROVE  Len(s) = 3 => /\ Append(s, e) \in Seq(S) /\ Len(Append(s, e)) = 4
                       /\ Append(s, e) = <<s[1], s[2], s[3], e>>
<1> DEFINE t == Append(s, e)
<1>1. /\ t \in Seq(S) /\ Len(t) = Len(s) + 1
      /\ \A i \in 1 .. Len(s) : t[i] = s[i]
      /\ t[Len(s) + 1] = e
  BY AppendProperties
<1> HIDE DEF t
<1>2. Len(s) = 3 => /\ Len(t) = 4 /\ t[1] = s[1] /\ t[2] = s[2]
                    /\ t[3] = s[3] /\ t[4] = e
  BY <1>1
<1>3. t \in Seq(S) /\ Len(t) = 4 => t = <<t[1], t[2], t[3], t[4]>>
  OBVIOUS
<1>4. QED
  BY <1>1, <1>2, <1>3 DEF t

(* The answer has no rows at first.                                        *)
LEMMA NoRows == Range(<<>>) = {}
  BY DEF Range

(* The bridge starts with nothing to answer and no row.                    *)
LEMMA ViewInit == McpInit => ViewInv
<1> SUFFICES ASSUME McpInit PROVE ViewInv
  OBVIOUS
<1>1. Tables /\ Steps /\ RowInv
  BY DEF McpInit, Tables, Steps, RowInv, Slots
<1>2. RowsInv
  BY NoRows DEF McpInit, RowsInv, RowsOf
<1>3. QED
  BY <1>1, <1>2 DEF ViewInv

(* What the bridge does to its bytes and its answers alone.                *)
LEMMA LineStepKeepsView ==
  ASSUME ViewInv, UNCHANGED <<row, rows, tableVars>>,
         \/ /\ at \in {"drain", "halted"} /\ at' \in {"drain", "halted"}
            /\ response' = "none"
         \/ at = "drain" /\ at' = "reply" /\ response' # "tasks"
         \/ at = "drain" /\ at' = "view" /\ response' = "tasks"
         \/ at' = at /\ response' = response
         \/ /\ at = "view" /\ at' = "reply" /\ response' = response
            /\ Len(row) \in {0, 4} /\ NextId \notin Slots
  PROVE  ViewInv'
<1>1. /\ row' = row /\ rows' = rows /\ generation' = generation /\ named' = named
      /\ changed' = changed
  BY DEF tableVars
<1>2. Tables' /\ RowInv'
  BY <1>1 DEF ViewInv, Tables, RowInv
<1>3. \A i : Passed(i)' = Passed(i) /\ OwnRow(i)' = OwnRow(i) /\ RowsOf(i)' = RowsOf(i)
  BY <1>1 DEF Passed, OwnRow, RowsOf
<1>4. RowsInv'
  BY <1>1, <1>3 DEF ViewInv, RowsInv
<1>5. Steps'
  <2>1. CASE /\ at = "view" /\ at' = "reply" /\ response' = response
             /\ Len(row) \in {0, 4} /\ NextId \notin Slots
    <3>1. ASSUME NEW i \in Slots PROVE Passed(i)
      <4>1. i \in Nat /\ i < MAX_TASKS /\ MAX_TASKS \in Nat
        BY McpAssumption DEF Slots, ViewInv
      <4>2. row # <<>>
        BY <2>1, <4>1 DEF NextId, Slots
      <4>3. row[1] \in Nat /\ row[1] < MAX_TASKS /\ Len(row) = 4
        BY <2>1, <4>1, <4>2, McpAssumption DEF ViewInv, RowInv, Slots
      <4>4. i <= row[1]
        BY <2>1, <4>1, <4>2, <4>3 DEF NextId, Slots
      <4>5. QED
        BY <4>1, <4>2, <4>3, <4>4 DEF Passed
    <3>2. QED
      BY <1>1, <1>3, <2>1, <3>1 DEF ViewInv, Steps
  <2>2. CASE ~(/\ at = "view" /\ at' = "reply" /\ response' = response
               /\ Len(row) \in {0, 4} /\ NextId \notin Slots)
    BY <1>1, <1>3, <2>2 DEF ViewInv, Steps
  <2>3. QED
    BY <2>1, <2>2
<1>6. QED
  BY <1>2, <1>4, <1>5 DEF ViewInv

(* One step of the walk through the slots.                                 *)
LEMMA ReadTaskKeepsView ==
  ASSUME ViewInv, View
  PROVE  ViewInv'
<1>1. /\ at = "view" /\ at' = at /\ response = "tasks" /\ response' = response
      /\ generation' = generation /\ named' = named /\ changed' = changed
  BY DEF View, ViewInv, Steps, tableVars
<1>2. Tables' /\ Steps'
  BY <1>1 DEF ViewInv, Tables, Steps
<1>3. /\ generation \in [Slots -> Nat] /\ named \in [Slots -> Nat]
      /\ \A i \in Slots : named[i] \in {0, generation[i]}
      /\ \A i \in Slots : i \in Nat /\ i < MAX_TASKS
      /\ MAX_TASKS \in Nat
  BY McpAssumption DEF ViewInv, Tables, Slots
<1>4. \A i : OwnRow(i)' = OwnRow(i)
  BY <1>1 DEF OwnRow
<1>5. CASE /\ Len(row) \in {0, 4} /\ NextId \in Slots
           /\ row' = IF named[NextId] = 0 THEN <<NextId, 0, 0, 0>>
                     ELSE <<NextId, named[NextId]>>
           /\ UNCHANGED rows
  <2> DEFINE n == NextId
  <2>1. n \in Slots /\ n \in Nat /\ row'[1] = n /\ row' # <<>>
        /\ (row # <<>> => row[1] \in Nat /\ n = row[1] + 1 /\ Len(row) = 4)
        /\ (row = <<>> => n = 0)
    BY <1>3, <1>5 DEF ViewInv, RowInv, NextId
  <2>2. \A i \in Slots : Passed(i)' <=> Passed(i) \/ (i = n /\ named[n] = 0)
    <3>1. CASE named[n] = 0
      <4>1. Len(row') = 4
        BY <1>5, <3>1
      <4>2. QED
        BY <1>3, <2>1, <3>1, <4>1 DEF Passed
    <3>2. CASE named[n] # 0
      <4>1. Len(row') = 2
        BY <1>5, <3>2
      <4>2. QED
        BY <1>3, <2>1, <3>2, <4>1 DEF Passed
    <3>3. QED
      BY <3>1, <3>2
  <2>3. RowInv'
    <3>1. CASE named[n] = 0
      <4>1. row' = <<n, 0, 0, 0>> /\ row' \in Seq(Nat) /\ Len(row') = 4
        BY <1>5, <2>1, <3>1
      <4>2. QED
        BY <2>1, <4>1 DEF RowInv
    <3>2. CASE named[n] # 0
      <4>1. /\ row' = <<n, named[n]>> /\ row'[2] = named[n]
            /\ row' \in Seq(Nat) /\ Len(row') = 2
        BY <1>3, <1>5, <2>1, <3>2
      <4>2. named[n] <= generation[n]
        BY <1>3, <2>1, <3>2
      <4>3. QED
        BY <1>1, <2>1, <3>2, <4>1, <4>2 DEF RowInv
    <3>3. QED
      BY <3>1, <3>2
  <2>4. RowsInv'
    <3>1. rows' = rows /\ \A i : RowsOf(i)' = RowsOf(i)
      BY <1>5 DEF RowsOf
    <3>2. rows' \in Seq(Seq(Nat))
      BY <3>1 DEF ViewInv, RowsInv
    <3>3. ASSUME NEW r \in Range(rows)
          PROVE  r[1] \in Slots /\ Passed(r[1])' /\ Forward(r)
      <4>1. r[1] \in Slots /\ Passed(r[1]) /\ Forward(r)
        BY DEF ViewInv, RowsInv
      <4>2. QED
        BY <2>2, <4>1
    <3>4. ASSUME NEW i \in Slots \ changed
          PROVE  RowsOf(i) = IF named[i] = 0 \/ ~Passed(i)' THEN {} ELSE {OwnRow(i)}
      <4>1. RowsOf(i) = IF named[i] = 0 \/ ~Passed(i) THEN {} ELSE {OwnRow(i)}
        BY DEF ViewInv, RowsInv
      <4>2. named[i] # 0 => (Passed(i)' <=> Passed(i))
        BY <2>2
      <4>3. QED
        BY <4>1, <4>2
    <3>5. QED
      BY <1>1, <1>4, <3>1, <3>2, <3>3, <3>4 DEF RowsInv
  <2>5. QED
    BY <1>2, <2>3, <2>4 DEF ViewInv
<1>6. CASE Len(row) = 2 /\ row' = Append(row, generation[row[1]]) /\ UNCHANGED rows
  <2>1. row \in Seq(Nat) /\ row # <<>> /\ row[1] \in Slots /\ generation[row[1]] \in Nat
    BY <1>3, <1>6 DEF ViewInv, RowInv
  <2>2. /\ row' \in Seq(Nat) /\ Len(row') = 3 /\ row'[1] = row[1] /\ row'[2] = row[2]
        /\ row'[3] = generation[row[1]] /\ row' # <<>>
    BY <1>6, <2>1, AppendProperties, ElementOfSeq
  <2>3. RowInv'
    BY <1>1, <1>6, <2>1, <2>2 DEF ViewInv, RowInv
  <2>4. \A i : (Passed(i)' <=> Passed(i)) /\ RowsOf(i)' = RowsOf(i)
    BY <1>6, <2>1, <2>2 DEF Passed, RowsOf
  <2>5. RowsInv'
    BY <1>1, <1>4, <1>6, <2>4 DEF ViewInv, RowsInv
  <2>6. QED
    BY <1>2, <2>3, <2>5 DEF ViewInv
<1>7. CASE /\ Len(row) = 3
           /\ row' = Append(row, Peak(row[1])) /\ rows' = Append(rows, row')
  <2> DEFINE n == row[1]
  <2>1. /\ row \in Seq(Nat) /\ row # <<>> /\ n \in Slots
        /\ row[2] # 0 /\ row[2] <= row[3] /\ row[3] <= generation[n]
        /\ n \notin changed => named[n] = row[2] /\ generation[n] = row[3]
    BY <1>7 DEF ViewInv, RowInv
  <2>2. named[n] \in Nat /\ (named[n] = 0 \/ named[n] = generation[n])
    BY <1>3, <2>1
  <2>3. /\ row' \in Seq(Nat) /\ Len(row') = 4 /\ row' # <<>>
        /\ row'[1] = n /\ row'[2] = row[2] /\ row'[3] = row[3] /\ row'[4] = named[n]
        /\ row' = <<n, row[2], row[3], named[n]>>
    <3>1. Len(row) = 3 /\ row' = Append(row, named[n]) /\ row \in Seq(Nat) /\ named[n] \in Nat
      BY <1>7, <2>1, <2>2 DEF Peak
    <3>2. row' \in Seq(Nat) /\ Len(row') = 4 /\ row' = <<n, row[2], row[3], named[n]>>
      BY <3>1, FullRow
    <3>3. QED
      BY <3>2
  <2>4. RowInv'
    BY <2>1, <2>3 DEF RowInv
  <2>5. \A i \in Slots : Passed(i)' <=> Passed(i) \/ i = n
    <3>1. n \in Nat /\ row'[1] = n /\ Len(row') = 4 /\ row' # <<>>
      BY <1>3, <2>1, <2>3
    <3>2. QED
      BY <1>3, <1>7, <2>1, <3>1 DEF Passed
  <2>6. ~Passed(n)
    BY <1>3, <1>7, <2>1 DEF Passed
  <2>7. rows \in Seq(Seq(Nat)) /\ Range(rows') = Range(rows) \cup {row'}
    <3>1. rows \in Seq(Seq(Nat)) /\ rows' = Append(rows, row') /\ row' \in Seq(Nat)
      BY <1>7, <2>3 DEF ViewInv, RowsInv
    <3>2. QED
      BY <3>1, AppendedRow
  <2>8. rows' \in Seq(Seq(Nat))
    BY <1>7, <2>3, <2>7
  <2>9. ASSUME NEW r \in Range(rows')
        PROVE  r[1] \in Slots /\ Passed(r[1])' /\ Forward(r)
    <3>1. CASE r \in Range(rows)
      <4>1. r[1] \in Slots /\ Passed(r[1]) /\ Forward(r)
        BY <3>1 DEF ViewInv, RowsInv
      <4>2. QED
        BY <2>5, <4>1
    <3>2. CASE r = row'
      <4>1. r[1] = n /\ r[2] = row[2] /\ r[3] = row[3] /\ r[4] = named[n]
        BY <2>3, <3>2
      <4>2. Forward(r)
        BY <2>1, <2>2, <4>1 DEF Forward
      <4>3. QED
        BY <2>1, <2>5, <4>1, <4>2
    <3>3. QED
      BY <2>7, <2>9, <3>1, <3>2
  <2>10. ASSUME NEW i \in Slots \ changed
         PROVE  RowsOf(i)' = IF named[i] = 0 \/ ~Passed(i)' THEN {} ELSE {OwnRow(i)}
    <3>1. RowsOf(i) = IF named[i] = 0 \/ ~Passed(i) THEN {} ELSE {OwnRow(i)}
      BY DEF ViewInv, RowsInv
    <3>2. CASE i # n
      <4>1. RowsOf(i)' = RowsOf(i)
        BY <2>3, <2>7, <3>2 DEF RowsOf
      <4>2. Passed(i)' <=> Passed(i)
        BY <2>5, <3>2
      <4>3. QED
        BY <3>1, <4>1, <4>2
    <3>3. CASE i = n
      <4>1. RowsOf(i) = {}
        BY <2>6, <3>1, <3>3
      <4>2. RowsOf(i)' = {row'}
        BY <2>3, <2>7, <3>3, <4>1 DEF RowsOf
      <4>3. row' = OwnRow(i) /\ named[i] # 0
        BY <2>1, <2>3, <3>3 DEF OwnRow
      <4>4. QED
        BY <2>5, <3>3, <4>2, <4>3
    <3>4. QED
      BY <3>2, <3>3
  <2>11. RowsInv'
    BY <1>1, <1>4, <2>8, <2>9, <2>10 DEF RowsInv
  <2>12. QED
    BY <1>2, <2>4, <2>11 DEF ViewInv
<1>8. QED
  BY <1>5, <1>6, <1>7 DEF View, ReadTask

(* Another task starts in a slot or leaves it.                             *)
LEMMA TablesChange ==
  ASSUME ViewInv, NEW i \in Slots, Noted(i), UNCHANGED bridgeVars,
         generation' \in [Slots -> Nat], named' \in [Slots -> Nat],
         named'[i] \in {0, generation'[i]}, generation[i] <= generation'[i],
         \A j \in Slots \ {i} : named'[j] = named[j] /\ generation'[j] = generation[j]
  PROVE  ViewInv'
<1>1. /\ row' = row /\ rows' = rows /\ at' = at /\ response' = response
      /\ changed' = IF response = "tasks" THEN changed \cup {i} ELSE changed
  BY DEF bridgeVars, Noted
<1>2. Tables'
  BY DEF ViewInv, Tables
<1>3. \A j : Passed(j)' = Passed(j) /\ RowsOf(j)' = RowsOf(j)
  BY <1>1 DEF Passed, RowsOf
<1>4. Steps'
  BY <1>1, <1>3 DEF ViewInv, Steps
<1>5. \A j \in Slots :
        generation[j] \in Nat /\ generation'[j] \in Nat /\ generation[j] <= generation'[j]
  BY DEF ViewInv, Tables
<1>6. CASE response # "tasks"
  <2>1. row' = <<>> /\ rows' = <<>>
    BY <1>1, <1>6 DEF ViewInv, Steps
  <2>2. RowInv'
    BY <2>1 DEF RowInv
  <2>3. \A j : ~Passed(j)'
    BY <2>1 DEF Passed
  <2>4. RowsInv'
    BY <2>1, <2>3, NoRows DEF RowsInv, RowsOf
  <2>5. QED
    BY <1>2, <1>4, <2>2, <2>4 DEF ViewInv
<1>7. CASE response = "tasks"
  <2>1. changed' = changed \cup {i}
    BY <1>1, <1>7
  <2>2. \A j \in Slots \ changed' :
          /\ j \notin changed /\ j # i
          /\ named'[j] = named[j] /\ generation'[j] = generation[j]
    BY <2>1
  <2>3. RowInv'
    <3>1. CASE Len(row) \in {2, 3}
      <4>1. /\ row \in Seq(Nat) /\ row # <<>> /\ row[1] \in Slots
            /\ row[2] # 0 /\ row[2] \in Nat /\ row[2] <= generation[row[1]]
            /\ row[1] \notin changed => named[row[1]] = row[2]
        BY <3>1 DEF ViewInv, RowInv
      <4>2. ASSUME Len(row) = 3
            PROVE  /\ row[3] \in Nat /\ row[2] <= row[3] /\ row[3] <= generation[row[1]]
                   /\ row[1] \notin changed => generation[row[1]] = row[3]
        <5>1. 3 \in 1 .. Len(row)
          BY <4>2
        <5>2. row[3] \in Nat
          BY <4>1, <5>1, ElementOfSeq
        <5>3. QED
          BY <4>2, <5>2 DEF ViewInv, RowInv
      <4>3. row[2] <= generation'[row[1]] /\ (Len(row) = 3 => row[3] <= generation'[row[1]])
        BY <1>5, <4>1, <4>2
      <4>4. QED
        BY <1>1, <2>2, <3>1, <4>1, <4>2, <4>3 DEF RowInv
    <3>2. CASE Len(row) \notin {2, 3}
      BY <1>1, <3>2 DEF ViewInv, RowInv
    <3>3. QED
      BY <3>1, <3>2
  <2>4. \A j \in Slots \ changed' : OwnRow(j)' = OwnRow(j)
    BY <2>2 DEF OwnRow
  <2>5. RowsInv'
    BY <1>1, <1>3, <2>2, <2>4 DEF ViewInv, RowsInv
  <2>6. QED
    BY <1>2, <1>4, <2>3, <2>5 DEF ViewInv
<1>8. QED
  BY <1>6, <1>7

(* A task that starts or exits changes only its slot, and is noted.        *)
LEMMA TablesKeepView ==
  ASSUME ViewInv, NEW i \in Slots, Spawn(i) \/ Exit(i)
  PROVE  ViewInv'
<1>1. generation \in [Slots -> Nat] /\ named \in [Slots -> Nat]
      /\ named[i] \in {0, generation[i]}
  BY DEF ViewInv, Tables
<1>2. CASE Spawn(i)
  <2>1. /\ generation' = [generation EXCEPT ![i] = @ + 1]
        /\ named' = [named EXCEPT ![i] = generation'[i]]
        /\ Noted(i) /\ UNCHANGED bridgeVars
    BY <1>2 DEF Spawn
  <2>2. generation' \in [Slots -> Nat] /\ generation'[i] = generation[i] + 1
    BY <1>1, <2>1
  <2>3. named' \in [Slots -> Nat] /\ named'[i] = generation'[i]
    BY <1>1, <2>1, <2>2
  <2>4. \A j \in Slots \ {i} : named'[j] = named[j] /\ generation'[j] = generation[j]
    BY <1>1, <2>1
  <2>5. generation[i] <= generation'[i]
    BY <1>1, <2>2
  <2>6. QED
    BY <2>1, <2>2, <2>3, <2>4, <2>5, TablesChange
<1>3. CASE Exit(i)
  <2>1. generation' = generation /\ named' = [named EXCEPT ![i] = 0]
        /\ Noted(i) /\ UNCHANGED bridgeVars
    BY <1>3 DEF Exit
  <2>2. named' \in [Slots -> Nat] /\ named'[i] = 0
    BY <1>1, <2>1
  <2>3. \A j \in Slots \ {i} : named'[j] = named[j] /\ generation'[j] = generation[j]
    BY <1>1, <2>1
  <2>4. generation[i] <= generation'[i]
    BY <1>1, <2>1
  <2>5. QED
    BY <1>1, <2>1, <2>2, <2>3, <2>4, TablesChange
<1>4. QED
  BY <1>2, <1>3

(* The bridge's own steps outside the view.                                *)
LEMMA ReplyKeepsView ==
  ASSUME ViewInv, Reply
  PROVE  ViewInv'
<1>1. /\ at' = "drain" /\ response' = "none" /\ row' = <<>> /\ rows' = <<>> /\ changed' = {}
      /\ generation' = generation /\ named' = named
  BY DEF Reply
<1>2. Tables' /\ Steps' /\ RowInv'
  BY <1>1 DEF ViewInv, Tables, Steps, RowInv
<1>3. \A j : ~Passed(j)'
  BY <1>1 DEF Passed
<1>4. RowsInv'
  BY <1>1, <1>3, NoRows DEF RowsInv, RowsOf
<1>5. QED
  BY <1>2, <1>4 DEF ViewInv

(* The invariant of the view holds of every step.                          *)
LEMMA ViewNext == ViewInv /\ [McpNext]_mcpVars => ViewInv'
<1> SUFFICES ASSUME ViewInv, [McpNext]_mcpVars PROVE ViewInv'
  OBVIOUS
<1>1. CASE (\E b \in Bytes : Write(b)) \/ Read \/ UNCHANGED mcpVars
  <2>1. UNCHANGED <<row, rows, tableVars>> /\ at' = at /\ response' = response
    BY <1>1 DEF Write, Read, mcpVars, bridgeVars
  <2>2. QED
    BY <2>1, LineStepKeepsView
<1>2. CASE Receive
  <2>1. UNCHANGED <<row, rows, tableVars>> /\ at = "drain" /\ response = "none"
    BY <1>2 DEF Receive, ViewInv, Steps
  <2>2. CASE Head(wire) = "newline"
    BY <1>2, <2>1, <2>2, LineStepKeepsView DEF Receive
  <2>3. CASE Head(wire) # "newline"
    BY <1>2, <2>1, <2>3, LineStepKeepsView DEF Receive
  <2>4. QED
    BY <2>2, <2>3
<1>3. CASE Halt \/ Wake
  <2>1. /\ UNCHANGED <<row, rows, tableVars>>
        /\ at \in {"drain", "halted"} /\ at' \in {"drain", "halted"} /\ response' = response
        /\ response = "none"
    BY <1>3 DEF Halt, Wake, ViewInv, Steps
  <2>2. QED
    BY <2>1, LineStepKeepsView
<1>4. CASE Reply
  BY <1>4, ReplyKeepsView
<1>5. CASE View
  BY <1>5, ReadTaskKeepsView
<1>6. CASE ViewDone
  <2>1. /\ UNCHANGED <<row, rows, tableVars>> /\ at = "view" /\ at' = "reply"
        /\ response' = response /\ Len(row) \in {0, 4} /\ NextId \notin Slots
    BY <1>6 DEF ViewDone
  <2>2. QED
    BY <2>1, LineStepKeepsView
<1>7. CASE \E i \in Slots : Spawn(i) \/ Exit(i)
  BY <1>7, TablesKeepView
<1>8. QED
  BY <1>1, <1>2, <1>3, <1>4, <1>5, <1>6, <1>7 DEF McpNext, Bridge

(* However tasks start and exit while tasks_view goes through the slots,   *)
(* with no lock, its answer has one row for each task that was there all   *)
(* the time, with that task's own name, generation and stack, and no row   *)
(* puts a name beside an older generation than its own.                    *)
THEOREM RowsAreOfTasks == McpSpec => []RowsOfTasks
<1>1. ViewInv => RowsOfTasks
  <2> SUFFICES ASSUME ViewInv, at = "reply", response = "tasks"
               PROVE  /\ \A i \in Slots \ changed :
                           RowsOf(i) = IF named[i] = 0 THEN {} ELSE {OwnRow(i)}
                      /\ \A r \in Range(rows) : Forward(r)
    BY DEF RowsOfTasks, RowsOf, OwnRow, Forward
  <2>1. \A i \in Slots : Passed(i)
    BY DEF ViewInv, Steps
  <2>2. QED
    BY <2>1 DEF ViewInv, RowsInv
<1>2. QED
  BY <1>1, ViewInit, ViewNext, PTL DEF McpSpec

-----------------------------------------------------------------------------
(* The line service.  A set of sequences that has the empty one and, with  *)
(* a sequence, each that is longer by one has them all.                    *)
LEMMA AllSequences ==
  ASSUME NEW S, NEW T, <<>> \in T,
         \A v \in Seq(S) : \A e \in S : v \in T => Append(v, e) \in T
  PROVE  Seq(S) \subseteq T
<1> DEFINE Lengths == {k \in Nat : \A w \in Seq(S) : Len(w) = k => w \in T}
<1>1. 0 \in Lengths
  <2>1. \A w \in Seq(S) : Len(w) = 0 => w = <<>>
    BY EmptySeq
  <2>2. QED
    BY <2>1
<1>2. ASSUME NEW k \in Lengths PROVE k + 1 \in Lengths
  <2>1. k \in Nat /\ \A w \in Seq(S) : Len(w) = k => w \in T
    OBVIOUS
  <2>2. ASSUME NEW w \in Seq(S), Len(w) = k + 1 PROVE w \in T
    <3>1. w # <<>>
      BY <2>1, <2>2, EmptySeq
    <3>2. PICK v \in Seq(S), e \in S : w = Append(v, e)
      BY <3>1, SequenceEmptyOrAppend
    <3>3. Len(w) = Len(v) + 1 /\ Len(v) \in Nat
      BY <3>2, AppendProperties, LenProperties
    <3>4. Len(v) = k
      BY <2>1, <2>2, <3>3
    <3>5. QED
      BY <2>1, <3>2, <3>4
  <2>3. QED
    BY <2>1, <2>2
<1>3. Nat \subseteq Lengths
  <2> HIDE DEF Lengths
  <2> QED
    BY <1>1, <1>2, AllNumbers
<1>4. ASSUME NEW w \in Seq(S) PROVE w \in T
  <2>1. Len(w) \in Lengths
    BY <1>3, LenProperties
  <2>2. QED
    BY <2>1
<1>5. QED
  BY <1>4

Lines == [long : BOOLEAN, text : Seq(Bytes), due : Seq(Responses)]

(* What handle_line may answer.                                            *)
LEMMA HandleType ==
  ASSUME NEW text \in Seq(Bytes)
  PROVE  handle_line(text) \in Responses
  BY DEF handle_line, Responses

(* A byte leaves an open line and responses.                               *)
LEMMA FeedType ==
  ASSUME NEW s \in Lines, NEW b \in Bytes
  PROVE  Feed(s, b) \in Lines
<1>1. s.long \in BOOLEAN /\ s.text \in Seq(Bytes) /\ s.due \in Seq(Responses)
      /\ s = [long |-> s.long, text |-> s.text, due |-> s.due]
  BY DEF Lines
<1>2. handle_line(s.text) \in Responses /\ "request too long" \in Responses
  BY <1>1, HandleType DEF Responses
<1>3. /\ Append(s.due, handle_line(s.text)) \in Seq(Responses)
      /\ Append(s.due, "request too long") \in Seq(Responses)
      /\ Append(s.text, b) \in Seq(Bytes) /\ <<>> \in Seq(Bytes)
  BY <1>1, <1>2, AppendProperties, EmptySeq
<1>4. QED
  BY <1>1, <1>3 DEF Feed, Lines

(* What Fed computes by recursion, byte by byte.                           *)
Chain(s, w, f) ==
  f = [n \in 0 .. Len(w) |-> IF n = 0 THEN s ELSE Feed(f[n - 1], w[n])]

(* A chain goes on with one more byte.                                     *)
LEMMA ChainLonger ==
  ASSUME NEW s, NEW v \in Seq(Bytes), NEW b \in Bytes, NEW f, Chain(s, v, f),
         NEW g, g = [n \in 0 .. Len(v) + 1 |->
                       IF n = Len(v) + 1 THEN Feed(f[Len(v)], b) ELSE f[n]]
  PROVE  Chain(s, Append(v, b), g)
<1> DEFINE w == Append(v, b)
<1>1. /\ Len(v) \in Nat /\ Len(w) = Len(v) + 1
      /\ \A n \in 1 .. Len(v) : w[n] = v[n]
      /\ w[Len(v) + 1] = b
  BY AppendProperties, LenProperties
<1> HIDE DEF w
<1>2. \A n \in 0 .. Len(v) : f[n] = IF n = 0 THEN s ELSE Feed(f[n - 1], v[n])
  BY DEF Chain
<1>3. ASSUME NEW n \in 0 .. Len(v) + 1
      PROVE  g[n] = IF n = 0 THEN s ELSE Feed(g[n - 1], w[n])
  <2>1. CASE n = Len(v) + 1
    <3>1. n # 0 /\ n - 1 = Len(v) /\ Len(v) \in 0 .. Len(v) + 1 /\ Len(v) # Len(v) + 1
      BY <1>1, <2>1
    <3>2. g[n] = Feed(f[Len(v)], b) /\ g[n - 1] = f[Len(v)]
      BY <2>1, <3>1
    <3>3. w[n] = b
      BY <1>1, <2>1
    <3>4. QED
      BY <3>1, <3>2, <3>3
  <2>2. CASE n # Len(v) + 1
    <3>1. n \in 0 .. Len(v) /\ (n # 0 => n \in 1 .. Len(v) /\ n - 1 \in 0 .. Len(v) + 1
                                         /\ n - 1 # Len(v) + 1)
      BY <1>1, <2>2
    <3>2. g[n] = f[n] /\ (n # 0 => g[n - 1] = f[n - 1] /\ w[n] = v[n])
      BY <1>1, <2>2, <3>1
    <3>3. QED
      BY <1>2, <3>1, <3>2
  <2>3. QED
    BY <2>1, <2>2
<1>4. g = [n \in 0 .. Len(v) + 1 |-> IF n = 0 THEN s ELSE Feed(g[n - 1], w[n])]
  BY <1>3
<1>5. QED
  BY <1>1, <1>4 DEF Chain, w

(* The chain of no bytes.                                                  *)
LEMMA ChainEmpty ==
  ASSUME NEW s
  PROVE  Chain(s, <<>>, [n \in 0 .. 0 |-> s])
<1>1. \A n \in 0 .. 0 : n = 0
  OBVIOUS
<1>2. Len(<<>>) = 0
  BY EmptySeq
<1>3. [n \in 0 .. 0 |-> s] =
        [n \in 0 .. 0 |-> IF n = 0 THEN s ELSE Feed([i \in 0 .. 0 |-> s][n - 1], <<>>[n])]
  BY <1>1
<1>4. QED
  BY <1>2, <1>3 DEF Chain

(* Fed has a value: the recursion can be followed through any bytes.       *)
LEMMA ChainExists ==
  ASSUME NEW s, NEW w \in Seq(Bytes)
  PROVE  \E f : Chain(s, w, f)
<1> DEFINE T == {v \in Seq(Bytes) : \E f : Chain(s, v, f)}
<1>1. <<>> \in T
  BY ChainEmpty, EmptySeq
<1>2. ASSUME NEW v \in Seq(Bytes), NEW b \in Bytes, v \in T
      PROVE  Append(v, b) \in T
  <2>1. PICK f : Chain(s, v, f)
    BY <1>2
  <2>2. Append(v, b) \in Seq(Bytes)
    BY AppendProperties
  <2>3. QED
    BY <2>1, <2>2, ChainLonger
<1>3. Seq(Bytes) \subseteq T
  <2> HIDE DEF T
  <2> QED
    BY <1>1, <1>2, AllSequences
<1>4. QED
  BY <1>3

(* And it has one value: the chain of the bytes is determined.             *)
LEMMA ChainUnique ==
  ASSUME NEW s, NEW w \in Seq(Bytes), NEW f, NEW g, Chain(s, w, f), Chain(s, w, g)
  PROVE  f[Len(w)] = g[Len(w)]
<1> DEFINE T == {n \in Nat : n <= Len(w) => f[n] = g[n]}
<1>1. Len(w) \in Nat
  BY LenProperties
<1>2. \A n \in 0 .. Len(w) : /\ f[n] = IF n = 0 THEN s ELSE Feed(f[n - 1], w[n])
                             /\ g[n] = IF n = 0 THEN s ELSE Feed(g[n - 1], w[n])
  BY DEF Chain
<1>3. 0 \in T
  BY <1>1, <1>2
<1>4. ASSUME NEW n \in T PROVE n + 1 \in T
  <2>1. n \in Nat /\ (n <= Len(w) => f[n] = g[n])
    OBVIOUS
  <2>2. ASSUME n + 1 <= Len(w) PROVE f[n + 1] = g[n + 1]
    <3>1. n + 1 \in 0 .. Len(w) /\ n + 1 # 0 /\ (n + 1) - 1 = n /\ n <= Len(w)
      BY <1>1, <2>1, <2>2
    <3>2. f[n + 1] = Feed(f[n], w[n + 1]) /\ g[n + 1] = Feed(g[n], w[n + 1])
      BY <1>2, <3>1
    <3>3. QED
      BY <2>1, <3>1, <3>2
  <2>3. QED
    BY <2>1, <2>2
<1>5. Nat \subseteq T
  <2> HIDE DEF T
  <2> QED
    BY <1>3, <1>4, AllNumbers
<1>6. QED
  BY <1>1, <1>5

(* So Fed is what any chain ends in.                                       *)
LEMMA FedIsChain ==
  ASSUME NEW s, NEW w \in Seq(Bytes), NEW f, Chain(s, w, f)
  PROVE  Fed(s, w) = f[Len(w)]
<1> DEFINE fed[n \in 0 .. Len(w)] == IF n = 0 THEN s ELSE Feed(fed[n - 1], w[n])
<1>1. Chain(s, w, fed)
  BY ChainExists DEF Chain
<1>2. Fed(s, w) = fed[Len(w)]
  BY DEF Fed
<1> HIDE DEF fed
<1>3. QED
  BY <1>1, <1>2, ChainUnique

(* The two equations of Fed.  No byte changes nothing.                     *)
LEMMA FedEmpty ==
  ASSUME NEW s
  PROVE  Fed(s, <<>>) = s
<1>1. Len(<<>>) = 0 /\ <<>> \in Seq(Bytes)
  BY EmptySeq
<1>2. Fed(s, <<>>) = [n \in 0 .. 0 |-> s][0]
  BY <1>1, ChainEmpty, FedIsChain
<1>3. QED
  BY <1>2

(* One more byte is fed last.                                              *)
LEMMA FedAppend ==
  ASSUME NEW s, NEW v \in Seq(Bytes), NEW b \in Bytes
  PROVE  Fed(s, Append(v, b)) = Feed(Fed(s, v), b)
<1>1. PICK f : Chain(s, v, f)
  BY ChainExists
<1> DEFINE g == [n \in 0 .. Len(v) + 1 |->
                   IF n = Len(v) + 1 THEN Feed(f[Len(v)], b) ELSE f[n]]
<1>2. Chain(s, Append(v, b), g)
  BY <1>1, ChainLonger
<1>3. Append(v, b) \in Seq(Bytes) /\ Len(Append(v, b)) = Len(v) + 1 /\ Len(v) \in Nat
  BY AppendProperties, LenProperties
<1>4. g[Len(v) + 1] = Feed(f[Len(v)], b)
  BY <1>3
<1> HIDE DEF g
<1>5. Fed(s, Append(v, b)) = g[Len(v) + 1]
  BY <1>2, <1>3, FedIsChain
<1>6. Fed(s, v) = f[Len(v)]
  BY <1>1, FedIsChain
<1>7. QED
  BY <1>4, <1>5, <1>6

(* Any bytes leave an open line and responses.                             *)
LEMMA FedType ==
  ASSUME NEW s \in Lines, NEW w \in Seq(Bytes)
  PROVE  Fed(s, w) \in Lines
<1> DEFINE T == {v \in Seq(Bytes) : Fed(s, v) \in Lines}
<1>1. <<>> \in T
  BY FedEmpty, EmptySeq
<1>2. ASSUME NEW v \in Seq(Bytes), NEW b \in Bytes, v \in T
      PROVE  Append(v, b) \in T
  BY <1>2, FedAppend, FeedType, AppendProperties
<1>3. Seq(Bytes) \subseteq T
  <2> HIDE DEF T
  <2> QED
    BY <1>1, <1>2, AllSequences
<1>4. QED
  BY <1>3

(* The first byte may be read before the others are looked at.             *)
LEMMA FedFirst ==
  ASSUME NEW s, NEW w \in Seq(Bytes), w # <<>>
  PROVE  Fed(s, w) = Fed(Feed(s, Head(w)), Tail(w))
<1> DEFINE T == {v \in Seq(Bytes) :
                   v # <<>> => Fed(s, v) = Fed(Feed(s, Head(v)), Tail(v))}
<1>1. <<>> \in T
  BY EmptySeq
<1>2. ASSUME NEW v \in Seq(Bytes), NEW b \in Bytes, v \in T
      PROVE  Append(v, b) \in T
  <2>1. /\ Append(v, b) \in Seq(Bytes)
        /\ Head(Append(v, b)) = IF v = <<>> THEN b ELSE Head(v)
        /\ Tail(Append(v, b)) = IF v = <<>> THEN <<>> ELSE Append(Tail(v), b)
        /\ Fed(s, Append(v, b)) = Feed(Fed(s, v), b)
    BY AppendProperties, HeadTailAppend, FedAppend
  <2>2. CASE v = <<>>
    <3>1. Fed(s, v) = s /\ Fed(Feed(s, b), <<>>) = Feed(s, b)
      BY <2>2, FedEmpty
    <3>2. QED
      BY <2>1, <2>2, <3>1
  <2>3. CASE v # <<>>
    <3>1. Tail(v) \in Seq(Bytes) /\ Fed(s, v) = Fed(Feed(s, Head(v)), Tail(v))
      BY <1>2, <2>3, HeadTailProperties
    <3>2. Fed(Feed(s, Head(v)), Append(Tail(v), b)) =
            Feed(Fed(Feed(s, Head(v)), Tail(v)), b)
      BY <3>1, FedAppend
    <3>3. QED
      BY <2>1, <2>3, <3>1, <3>2
  <2>4. QED
    BY <2>2, <2>3
<1>3. Seq(Bytes) \subseteq T
  <2> HIDE DEF T
  <2> QED
    BY <1>1, <1>2, AllSequences
<1>4. QED
  BY <1>3

(* The response to an earlier line stays in front of the others.           *)
Owed(r, s) == [long |-> s.long, text |-> s.text, due |-> <<r>> \o s.due]

(* It stays there when a byte is fed.                                      *)
LEMMA OwedFeed ==
  ASSUME NEW r \in Responses, NEW s \in Lines, NEW b \in Bytes
  PROVE  Feed(Owed(r, s), b) = Owed(r, Feed(s, b))
<1>1. s.long \in BOOLEAN /\ s.text \in Seq(Bytes) /\ s.due \in Seq(Responses)
      /\ s = [long |-> s.long, text |-> s.text, due |-> s.due]
  BY DEF Lines
<1>2. \A e \in Responses : Append(<<r>> \o s.due, e) = <<r>> \o Append(s.due, e)
  BY <1>1
<1>3. handle_line(s.text) \in Responses /\ "request too long" \in Responses
  BY <1>1, HandleType DEF Responses
<1>4. CASE b = "newline"
  BY <1>1, <1>2, <1>3, <1>4 DEF Feed, Owed
<1>5. CASE b # "newline"
  BY <1>1, <1>5 DEF Feed, Owed
<1>6. QED
  BY <1>4, <1>5

(* And when any bytes are.                                                 *)
LEMMA OwedFed ==
  ASSUME NEW r \in Responses, NEW s \in Lines, NEW w \in Seq(Bytes)
  PROVE  Fed(Owed(r, s), w) = Owed(r, Fed(s, w))
<1> DEFINE T == {v \in Seq(Bytes) : Fed(Owed(r, s), v) = Owed(r, Fed(s, v))}
<1>1. <<>> \in T
  BY FedEmpty, EmptySeq
<1>2. ASSUME NEW v \in Seq(Bytes), NEW b \in Bytes, v \in T
      PROVE  Append(v, b) \in T
  <2>1. Fed(s, v) \in Lines
    BY FedType
  <2>2. QED
    BY <1>2, <2>1, FedAppend, OwedFeed, AppendProperties
<1>3. Seq(Bytes) \subseteq T
  <2> HIDE DEF T
  <2> QED
    BY <1>1, <1>2, AllSequences
<1>4. QED
  BY <1>3

-----------------------------------------------------------------------------
(* What the mapping needs of the bridge: a line that is not too long, and  *)
(* a response to send where it sends one.                                  *)
LineInv ==
  /\ wire \in Seq(Bytes)
  /\ line \in Seq(Bytes) /\ Len(line) <= MAX_LINE
  /\ discarding \in BOOLEAN
  /\ response \in Responses
  /\ at \in {"drain", "halted", "view", "reply"}
  /\ at \in {"view", "reply"} => response # "none"

Base == [long |-> discarding, text |-> line,
         due  |-> IF at \in {"view", "reply"} THEN <<response>> ELSE <<>>]

(* The bridge starts with no line, as the service does.                    *)
LEMMA LineInit == McpInit => LineInv /\ Service!Init
<1> SUFFICES ASSUME McpInit PROVE LineInv /\ Service!Init
  OBVIOUS
<1>1. LineInv
  <2>1. <<>> \in Seq(Bytes) /\ Len(<<>>) = 0 /\ MAX_LINE \in Nat
    BY EmptySeq, McpAssumption
  <2>2. "none" \in Responses
    BY DEF Responses
  <2>3. wire \in Seq(Bytes) /\ line \in Seq(Bytes) /\ Len(line) <= MAX_LINE
    BY <2>1 DEF McpInit
  <2>4. QED
    BY <2>2, <2>3 DEF McpInit, LineInv
<1>2. Unanswered = [long |-> FALSE, text |-> <<>>, due |-> <<>>]
  BY FedEmpty DEF McpInit, Unanswered
<1>3. QED
  BY <1>1, <1>2 DEF McpInit, Service!Init, Service!Empty

(* The line never gets longer than MAX_LINE, and a line that ends leaves   *)
(* the bridge to look for bytes, or to send a response.                    *)
LEMMA LineReceive ==
  ASSUME LineInv, Receive
  PROVE  LineInv'
<1>1. /\ at = "drain" /\ wire # <<>> /\ wire' = Tail(wire)
      /\ line \in Seq(Bytes) /\ wire \in Seq(Bytes) /\ Len(line) \in Nat
      /\ Head(wire) \in Bytes /\ Tail(wire) \in Seq(Bytes) /\ <<>> \in Seq(Bytes)
      /\ Len(<<>>) = 0 /\ MAX_LINE \in Nat
  BY HeadTailProperties, LenProperties, EmptySeq, McpAssumption DEF Receive, LineInv
<1>2. CASE Head(wire) = "newline"
  <2>1. LineEnds /\ at' = CASE response' = "none"  -> "drain"
                            [] response' = "tasks" -> "view"
                            [] OTHER               -> "reply"
    BY <1>2 DEF Receive
  <2>2. response' \in Responses /\ line' = <<>> /\ discarding' = FALSE
    BY <1>1, <2>1, HandleType DEF LineEnds, Responses
  <2>3. /\ at' \in {"drain", "view", "reply"}
        /\ at' \in {"view", "reply"} => response' # "none"
    BY <2>1
  <2>4. line' \in Seq(Bytes) /\ Len(line') <= MAX_LINE
    BY <1>1, <2>2
  <2>5. QED
    BY <1>1, <2>2, <2>3, <2>4 DEF LineInv
<1>3. CASE Head(wire) # "newline"
  <2>1. /\ at' = at /\ response' = response
        /\ UNCHANGED <<line, discarding>> \/ Grows(Head(wire))
    BY <1>3 DEF Receive
  <2>2. line' \in Seq(Bytes) /\ Len(line') <= MAX_LINE /\ discarding' \in BOOLEAN
    <3>1. CASE UNCHANGED <<line, discarding>>
      BY <3>1 DEF LineInv
    <3>2. CASE line' = <<>> /\ discarding' = TRUE
      BY <1>1, <3>2
    <3>3. CASE /\ Len(line) < MAX_LINE
               /\ line' = Append(line, Head(wire)) /\ discarding' = discarding
      <4>1. line' \in Seq(Bytes) /\ Len(line') = Len(line) + 1
        BY <1>1, <3>3, AppendProperties
      <4>2. QED
        BY <1>1, <3>3, <4>1 DEF LineInv
    <3>4. CASE Grows(Head(wire))
      <4>1. CASE ~discarding /\ Len(line) < MAX_LINE
        <5>1. ~(Len(line) >= MAX_LINE)
          BY <1>1, <4>1
        <5>2. QED
          BY <3>3, <3>4, <4>1, <5>1 DEF Grows
      <4>2. CASE ~discarding /\ Len(line) >= MAX_LINE
        BY <3>2, <3>4, <4>2 DEF Grows
      <4>3. CASE discarding
        BY <3>1, <3>4, <4>3 DEF Grows
      <4>4. QED
        BY <1>1, <4>1, <4>2, <4>3
    <3>5. QED
      BY <2>1, <3>1, <3>4
  <2>3. QED
    BY <1>1, <2>1, <2>2 DEF LineInv
<1>4. QED
  BY <1>2, <1>3

(* The invariant of the lines holds of every step.                         *)
LEMMA LineNext == LineInv /\ [McpNext]_mcpVars => LineInv'
<1> SUFFICES ASSUME LineInv, [McpNext]_mcpVars PROVE LineInv'
  OBVIOUS
<1>1. CASE \E b \in Bytes : Write(b)
  <2>1. PICK b \in Bytes : Write(b)
    BY <1>1
  <2>2. wire' = Append(wire, b) /\ UNCHANGED <<line, discarding, at, response>>
    BY <2>1 DEF Write, bridgeVars
  <2>3. wire' \in Seq(Bytes)
    BY <2>2, AppendProperties DEF LineInv
  <2>4. QED
    BY <2>2, <2>3 DEF LineInv
<1>2. CASE \/ Read \/ View \/ UNCHANGED mcpVars
           \/ \E i \in Slots : Spawn(i) \/ Exit(i)
  <2>1. UNCHANGED <<wire, line, discarding, at, response>>
    BY <1>2 DEF Read, View, Spawn, Exit, bridgeVars, mcpVars
  <2>2. QED
    BY <2>1 DEF LineInv
<1>3. CASE Receive
  BY <1>3, LineReceive
<1>4. CASE Halt \/ Wake \/ ViewDone
  <2>1. UNCHANGED <<wire, line, discarding, response>>
    BY <1>4 DEF Halt, Wake, ViewDone
  <2>2. at' \in {"drain", "halted", "reply"} /\ (at' = "reply" => at = "view")
    BY <1>4 DEF Halt, Wake, ViewDone
  <2>3. QED
    BY <2>1, <2>2 DEF LineInv
<1>5. CASE Reply
  <2>1. at' = "drain" /\ response' = "none" /\ UNCHANGED <<wire, line, discarding>>
    BY <1>5 DEF Reply
  <2>2. QED
    BY <2>1 DEF LineInv, Responses
<1>6. QED
  BY <1>1, <1>2, <1>3, <1>4, <1>5 DEF McpNext, Bridge

UnansweredInv ==
  Base \in Lines /\ Unanswered \in Lines /\ Unanswered = Fed(Base, wire)

(* What is unanswered is what the bridge has, fed with the FIFO.           *)
LEMMA BaseType == LineInv => UnansweredInv
<1> SUFFICES ASSUME LineInv PROVE UnansweredInv
  OBVIOUS
<1>1. <<>> \in Seq(Responses) /\ <<response>> \in Seq(Responses)
  BY EmptySeq DEF LineInv
<1>2. Base \in Lines
  BY <1>1 DEF LineInv, Base, Lines
<1>3. Unanswered = Fed(Base, wire)
  BY DEF Unanswered, Base
<1>4. QED
  BY <1>2, <1>3, FedType DEF LineInv, UnansweredInv

(* A byte that is written is one that the client has sent.                 *)
LEMMA WriteMaps ==
  ASSUME LineInv, NEW b \in Bytes, Write(b)
  PROVE  Service!Send(b)
<1>1. /\ wire' = Append(wire, b) /\ Base' = Base /\ sent' = sent
      /\ Unanswered' = Fed(Base', wire')
  BY DEF Write, Base, Unanswered, bridgeVars
<1>2. Unanswered' = Feed(Unanswered, b)
  BY <1>1, BaseType, FedAppend DEF LineInv, UnansweredInv
<1>3. Unanswered = [long |-> Unanswered.long, text |-> Unanswered.text,
                        due |-> Unanswered.due]
  BY BaseType DEF Lines, UnansweredInv
<1> DEFINE u == Unanswered
<1>4. CASE b = "newline"
  <2>1. Unanswered' = [long |-> FALSE, text |-> <<>>,
          due  |-> Append(u.due, IF u.long THEN "request too long"
                                 ELSE handle_line(u.text))]
    BY <1>2, <1>4 DEF Feed
  <2>2. /\ Unanswered'.due = Append(u.due, IF u.long THEN "request too long"
                                                ELSE handle_line(u.text))
        /\ Unanswered'.long = FALSE /\ Unanswered'.text = <<>>
    BY <2>1
  <2> HIDE DEF u
  <2>3. QED
    BY <1>1, <1>4, <2>2 DEF Service!Send, Service!Empty, u
<1>5. CASE b # "newline"
  <2>1. Unanswered' = IF u.long \/ b = "return" THEN u
          ELSE IF Len(u.text) = MAX_LINE THEN [u EXCEPT !.long = TRUE, !.text = <<>>]
          ELSE [u EXCEPT !.text = Append(@, b)]
    BY <1>2, <1>5 DEF Feed
  <2>2. QED
    BY <1>1, <1>3, <1>5, <2>1 DEF Service!Send, Service!Grown
<1>6. QED
  BY <1>4, <1>5

(* What an answer, or its absence, does: the first response is no longer   *)
(* due.                                                                    *)
LEMMA AnswerMaps ==
  ASSUME NEW r \in Responses, Unanswered' \in Lines,
         Unanswered = Owed(r, Unanswered'),
         sent' = IF r = "none" THEN sent ELSE Append(sent, r)
  PROVE  Service!Answer
<1> DEFINE v == Unanswered'
<1>1. v.due \in Seq(Responses)
  BY DEF Lines
<1>2. /\ Unanswered.long = v.long /\ Unanswered.text = v.text
      /\ Unanswered.due = <<r>> \o v.due
  BY DEF Owed
<1> HIDE DEF v
<1>3. /\ <<r>> \o v.due # <<>> /\ Head(<<r>> \o v.due) = r
      /\ Tail(<<r>> \o v.due) = v.due
  BY <1>1
<1>4. QED
  BY <1>2, <1>3 DEF Service!Answer, v

(* reply answers the line that has ended.                                  *)
LEMMA ReplyMaps ==
  ASSUME LineInv, Reply
  PROVE  Service!Answer
<1>1. /\ at = "reply" /\ at' = "drain" /\ sent' = Append(sent, response)
      /\ UNCHANGED <<wire, line, discarding>> /\ response # "none" /\ response \in Responses
  BY DEF Reply, LineInv
<1>2. LineInv'
  BY LineNext DEF McpNext, Bridge
<1>3. Base' \in Lines /\ Unanswered' \in Lines /\ Unanswered' = Fed(Base', wire')
  <2>1. UnansweredInv'
    BY <1>2, BaseType, PTL
  <2>2. QED
    BY <2>1 DEF UnansweredInv
<1>4. Base = Owed(response, Base')
  BY <1>1 DEF Base, Owed
<1>5. Unanswered = Owed(response, Unanswered')
  BY <1>1, <1>3, <1>4, BaseType, OwedFed DEF LineInv, UnansweredInv
<1>6. QED
  BY <1>1, <1>3, <1>5, AnswerMaps

(* Reading a byte changes nothing for the client, unless it ends a line    *)
(* that gets no answer.                                                    *)
LEMMA ReceiveMaps ==
  ASSUME LineInv, Receive
  PROVE  Service!Answer \/ UNCHANGED Service!vars
<1> DEFINE b == Head(wire)
<1>1. /\ at = "drain" /\ wire' = Tail(wire) /\ sent' = sent /\ wire \in Seq(Bytes)
      /\ wire # <<>> /\ b \in Bytes
  BY HeadTailProperties DEF Receive, LineInv
<1>2. Base = [long |-> discarding, text |-> line, due |-> <<>>]
  BY <1>1 DEF Base
<1>3. LineInv'
  BY LineReceive
<1>4. Base' \in Lines /\ Unanswered' \in Lines /\ Unanswered' = Fed(Base', wire')
  <2>1. UnansweredInv'
    BY <1>3, BaseType, PTL
  <2>2. QED
    BY <2>1 DEF UnansweredInv
<1>5. Unanswered = Fed(Feed(Base, b), wire')
  BY <1>1, BaseType, FedFirst DEF UnansweredInv
<1>6. CASE b = "newline"
  <2>1. /\ LineEnds
        /\ at' = CASE response' = "none"  -> "drain"
                   [] response' = "tasks" -> "view"
                   [] OTHER               -> "reply"
    BY <1>6 DEF Receive
  <2>2. Feed(Base, b) = [long |-> FALSE, text |-> <<>>, due |-> Append(<<>>, response')]
    BY <1>2, <1>6, <2>1 DEF Feed, LineEnds
  <2>3. Append(<<>>, response') = <<response'>>
    OBVIOUS
  <2>4. CASE response' = "none"
    <3>1. Base' = [long |-> FALSE, text |-> <<>>, due |-> <<>>]
      BY <2>1, <2>4 DEF Base, LineEnds
    <3>2. Feed(Base, b) = Owed("none", Base')
      BY <2>2, <2>3, <2>4, <3>1 DEF Owed
    <3>3. "none" \in Responses /\ wire' \in Seq(Bytes)
      BY <1>3 DEF Responses, LineInv
    <3>4. Unanswered = Owed("none", Unanswered')
      BY <1>4, <1>5, <3>2, <3>3, OwedFed
    <3>5. QED
      BY <1>1, <1>4, <3>3, <3>4, AnswerMaps
  <2>5. CASE response' # "none"
    <3>1. at' \in {"view", "reply"}
      BY <2>1, <2>5
    <3>2. Base' = [long |-> FALSE, text |-> <<>>, due |-> <<response'>>]
      BY <2>1, <3>1 DEF Base, LineEnds
    <3>3. Unanswered' = Unanswered
      BY <1>4, <1>5, <2>2, <2>3, <3>2
    <3>4. QED
      BY <1>1, <3>3 DEF Service!vars
  <2>6. QED
    BY <2>4, <2>5
<1>7. CASE b # "newline"
  <2>1. at' = at
    BY <1>7 DEF Receive
  <2>2. Base' = [long |-> discarding', text |-> line', due |-> <<>>]
    BY <1>1, <2>1 DEF Base
  <2>3. Feed(Base, b) = Base'
    <3>1. CASE b = "return"
      <4>1. UNCHANGED <<line, discarding>>
        BY <3>1 DEF Receive
      <4>2. QED
        BY <1>2, <2>2, <3>1, <4>1 DEF Feed
    <3>2. CASE b # "return"
      <4>1. Grows(b)
        BY <1>7, <3>2 DEF Receive
      <4>2. Len(line) \in Nat /\ MAX_LINE \in Nat /\ Len(line) <= MAX_LINE
            /\ discarding \in BOOLEAN
        BY LenProperties, McpAssumption DEF LineInv
      <4>3. CASE discarding
        BY <1>2, <1>7, <2>2, <3>2, <4>1, <4>3 DEF Feed, Grows
      <4>4. CASE ~discarding /\ Len(line) = MAX_LINE
        <5>1. discarding' = TRUE /\ line' = <<>>
          BY <4>1, <4>2, <4>4 DEF Grows
        <5>2. Feed(Base, b) = [Base EXCEPT !.long = TRUE, !.text = <<>>]
          BY <1>2, <1>7, <3>2, <4>4 DEF Feed
        <5>3. QED
          BY <1>2, <2>2, <5>1, <5>2
      <4>5. CASE ~discarding /\ Len(line) < MAX_LINE
        <5>1. discarding' = discarding /\ line' = Append(line, b)
          BY <4>1, <4>2, <4>5 DEF Grows
        <5>2. Feed(Base, b) = [Base EXCEPT !.text = Append(@, b)]
          BY <1>2, <1>7, <3>2, <4>2, <4>5 DEF Feed
        <5>3. QED
          BY <1>2, <2>2, <5>1, <5>2
      <4>6. QED
        BY <4>2, <4>3, <4>4, <4>5
    <3>3. QED
      BY <3>1, <3>2
  <2>4. Unanswered' = Unanswered
    BY <1>4, <1>5, <2>3
  <2>5. QED
    BY <1>1, <2>4 DEF Service!vars
<1>8. QED
  BY <1>6, <1>7

(* Every step of the bridge, its clients and the other tasks is a step of  *)
(* the service or none.                                                    *)
LEMMA LineMaps == LineInv /\ [McpNext]_mcpVars => [Service!Next]_(Service!vars)
<1> SUFFICES ASSUME LineInv, [McpNext]_mcpVars
             PROVE  Service!Next \/ UNCHANGED Service!vars
  OBVIOUS
<1>1. CASE \E b \in Bytes : Write(b)
  BY <1>1, WriteMaps DEF Service!Next
<1>2. CASE Read
  <2>1. sent # <<>> /\ sent' = Tail(sent) /\ Unanswered' = Unanswered
    BY <1>2 DEF Read, Unanswered, bridgeVars
  <2>2. QED
    BY <2>1 DEF Service!Next, Service!Take
<1>3. CASE Receive
  BY <1>3, ReceiveMaps DEF Service!Next
<1>4. CASE Reply
  BY <1>4, ReplyMaps DEF Service!Next
<1>5. CASE \/ Halt \/ Wake \/ View \/ ViewDone \/ UNCHANGED mcpVars
           \/ \E i \in Slots : Spawn(i) \/ Exit(i)
  <2>1. UNCHANGED <<wire, line, discarding, response, sent>>
    BY <1>5 DEF Halt, Wake, View, ViewDone, Spawn, Exit,
                bridgeVars, mcpVars
  <2>2. at \in {"view", "reply"} <=> at' \in {"view", "reply"}
    BY <1>5 DEF Halt, Wake, View, ViewDone, Spawn, Exit,
                bridgeVars, mcpVars
  <2>3. Unanswered' = Unanswered
    BY <2>1, <2>2 DEF Unanswered
  <2>4. QED
    BY <2>1, <2>3 DEF Service!vars
<1>6. QED
  BY <1>1, <1>2, <1>3, <1>4, <1>5 DEF McpNext, Bridge

(* However the bytes arrive, and whatever is cut off, too long or empty,   *)
(* the bridge implements the line service: one answer to each line that    *)
(* gets one, in the order of the lines.                                    *)
THEOREM LinesAreAnswered == McpSpec => AnswersInOrder
<1>1. McpSpec => []LineInv
  BY LineInit, LineNext, PTL DEF McpSpec
<1>2. QED
  BY <1>1, LineInit, LineMaps, PTL DEF McpSpec, AnswersInOrder, Service!Safety

-----------------------------------------------------------------------------
(* What TypeOK says beyond the invariants of the lines and of the view.    *)
Bounds ==
  /\ Len(wire) <= RxFifo
  /\ line \in Seq(Bytes \ {"newline", "return"})
  /\ sent \in Seq(Responses \ {"none"}) /\ Len(sent) <= TxFifo
  /\ \A i \in Slots : generation[i] <= MaxGeneration
  /\ changed \subseteq Slots

(* A byte that is read leaves a line without ends of lines in it.          *)
LEMMA ReceiveBounds ==
  ASSUME LineInv, Bounds, Receive
  PROVE  Bounds'
<1> DEFINE b == Head(wire)
           Inner == Bytes \ {"newline", "return"}
<1>1. /\ wire' = Tail(wire) /\ sent' = sent /\ generation' = generation
      /\ changed' = changed /\ wire \in Seq(Bytes) /\ b \in Bytes
      /\ Len(Tail(wire)) = Len(wire) - 1 /\ Len(wire) \in Nat /\ RxFifo \in Nat
  BY HeadTailProperties, LenProperties, McpAssumption
  DEF Receive, tableVars, LineInv
<1>2. Len(wire') <= RxFifo
  BY <1>1 DEF Bounds
<1>3. line \in Seq(Inner) /\ <<>> \in Seq(Inner)
  BY EmptySeq DEF Bounds
<1>4. line' \in Seq(Inner)
  <2>1. CASE b = "newline"
    BY <1>3, <2>1 DEF Receive, LineEnds
  <2>2. CASE b = "return"
    BY <1>3, <2>2 DEF Receive
  <2>3. CASE b \notin {"newline", "return"}
    <3>1. b \in Inner /\ Grows(b)
      BY <1>1, <2>3 DEF Receive
    <3>2. line' \in {line, <<>>, Append(line, b)}
      BY <3>1 DEF Grows
    <3>3. Append(line, b) \in Seq(Inner)
      BY <1>3, <3>1, AppendProperties
    <3>4. QED
      BY <1>3, <3>2, <3>3
  <2>4. QED
    BY <2>1, <2>2, <2>3
<1>5. QED
  BY <1>1, <1>2, <1>4 DEF Bounds

(* An answer that is sent is one, and there is room for it.                *)
LEMMA ReplyBounds ==
  ASSUME LineInv, Bounds, Reply
  PROVE  Bounds'
<1>1. /\ wire' = wire /\ line' = line /\ sent' = Append(sent, response)
      /\ generation' = generation /\ changed' = {} /\ Len(sent) < TxFifo
      /\ response \in Responses \ {"none"} /\ TxFifo \in Nat
  BY McpAssumption DEF Reply, LineInv
<1>2. /\ sent' \in Seq(Responses \ {"none"}) /\ Len(sent') = Len(sent) + 1
      /\ Len(sent) \in Nat
  BY <1>1, AppendProperties, LenProperties DEF Bounds
<1>3. Len(sent') <= TxFifo
  BY <1>1, <1>2
<1>4. QED
  BY <1>1, <1>2, <1>3 DEF Bounds

(* A byte is written where there is room for it.                           *)
LEMMA WriteBounds ==
  ASSUME LineInv, Bounds, NEW b \in Bytes, Write(b)
  PROVE  Bounds'
<1>1. /\ wire' = Append(wire, b) /\ Len(wire) < RxFifo /\ line' = line /\ sent' = sent
      /\ generation' = generation /\ changed' = changed
      /\ wire \in Seq(Bytes) /\ RxFifo \in Nat
  BY McpAssumption DEF Write, bridgeVars, tableVars, LineInv
<1>2. Len(wire') = Len(wire) + 1 /\ Len(wire) \in Nat
  BY <1>1, AppendProperties, LenProperties
<1>3. Len(wire') <= RxFifo
  BY <1>1, <1>2
<1>4. QED
  BY <1>1, <1>3 DEF Bounds

(* A client that reads an answer leaves the others.                        *)
LEMMA ReadBounds ==
  ASSUME LineInv, Bounds, Read
  PROVE  Bounds'
<1>1. /\ sent # <<>> /\ sent' = Tail(sent) /\ wire' = wire /\ line' = line
      /\ generation' = generation /\ changed' = changed
      /\ sent \in Seq(Responses \ {"none"}) /\ Len(sent) <= TxFifo /\ TxFifo \in Nat
  BY McpAssumption DEF Read, bridgeVars, tableVars, LineInv, Bounds
<1>2. /\ sent' \in Seq(Responses \ {"none"}) /\ Len(sent') = Len(sent) - 1
      /\ Len(sent) \in Nat
  BY <1>1, HeadTailProperties, LenProperties
<1>3. Len(sent') <= TxFifo
  BY <1>1, <1>2
<1>4. QED
  BY <1>1, <1>2, <1>3 DEF Bounds

(* A slot starts tasks up to the bound.                                    *)
LEMMA TablesBounds ==
  ASSUME ViewInv, Bounds, NEW i \in Slots, Spawn(i) \/ Exit(i)
  PROVE  Bounds'
<1>1. /\ wire' = wire /\ line' = line /\ sent' = sent
      /\ changed' \in {changed, changed \cup {i}}
  BY DEF Spawn, Exit, Noted, bridgeVars
<1>2. generation \in [Slots -> Nat] /\ MaxGeneration \in Nat
  BY McpAssumption DEF ViewInv, Tables
<1>3. \/ generation' = generation
      \/ /\ generation[i] < MaxGeneration
         /\ generation' = [generation EXCEPT ![i] = @ + 1]
  BY DEF Spawn, Exit
<1>4. ASSUME NEW j \in Slots PROVE generation'[j] <= MaxGeneration
  <2>1. generation[j] <= MaxGeneration /\ generation[j] \in Nat /\ generation[i] \in Nat
    BY <1>2 DEF Bounds
  <2>2. \/ generation'[j] = generation[j]
        \/ j = i /\ generation[i] < MaxGeneration /\ generation'[j] = generation[i] + 1
    BY <1>2, <1>3
  <2>3. QED
    BY <1>2, <2>1, <2>2
<1>5. changed' \subseteq Slots
  BY <1>1 DEF Bounds
<1>6. QED
  BY <1>1, <1>4, <1>5 DEF Bounds

(* The bounds hold at first and of every step.                             *)
LEMMA BoundsInit == McpInit => Bounds
<1> SUFFICES ASSUME McpInit PROVE Bounds
  OBVIOUS
<1>1. /\ wire = <<>> /\ line = <<>> /\ sent = <<>> /\ changed = {}
      /\ \A i \in Slots : generation[i] = 0
      /\ RxFifo \in Nat /\ TxFifo \in Nat /\ MaxGeneration \in Nat
  BY McpAssumption DEF McpInit
<1>2. \A S : <<>> \in Seq(S) /\ Len(<<>>) = 0
  BY EmptySeq
<1>3. QED
  BY <1>1, <1>2 DEF Bounds

LEMMA BoundsNext == LineInv /\ ViewInv /\ Bounds /\ [McpNext]_mcpVars => Bounds'
<1> SUFFICES ASSUME LineInv, ViewInv, Bounds, [McpNext]_mcpVars PROVE Bounds'
  OBVIOUS
<1>1. CASE \E b \in Bytes : Write(b)
  BY <1>1, WriteBounds
<1>2. CASE Halt \/ Wake \/ View \/ ViewDone \/ UNCHANGED mcpVars
  <2>1. UNCHANGED <<wire, line, sent, generation, changed>>
    BY <1>2 DEF Halt, Wake, View, ViewDone, bridgeVars, tableVars,
                mcpVars
  <2>2. QED
    BY <2>1 DEF Bounds
<1>3. QED
  BY <1>1, <1>2, ReceiveBounds, ReplyBounds, ReadBounds, TablesBounds DEF McpNext, Bridge

(* Whatever clients send, the line that the bridge collects stays within   *)
(* MAX_LINE and holds no end of a line, the FIFOs within their sizes, and  *)
(* the rows and the tables of the other tasks in their ranges.             *)
THEOREM BridgeTypes == McpSpec => []TypeOK
<1>1. McpSpec => [](LineInv /\ ViewInv /\ Bounds)
  BY LineInit, ViewInit, BoundsInit, LineNext, ViewNext, BoundsNext, PTL DEF McpSpec
<1>2. LineInv /\ ViewInv /\ Bounds => TypeOK
  <2> SUFFICES ASSUME LineInv, ViewInv, Bounds PROVE TypeOK
    OBVIOUS
  <2>1. MaxGeneration \in Nat
    BY McpAssumption DEF LineInv
  <2>2. generation \in [Slots -> 0 .. MaxGeneration]
    BY <2>1 DEF ViewInv, Tables, Bounds
  <2>3. /\ named \in [Slots -> Nat]
        /\ \A i \in Slots : named[i] \in {0, generation[i]}
    BY DEF ViewInv, Tables
  <2>4. row \in Seq(Nat) /\ Len(row) \in {0, 2, 3, 4} /\ rows \in Seq(Seq(Nat))
    BY DEF ViewInv, RowInv, RowsInv
  <2>5. QED
    BY <2>2, <2>3, <2>4 DEF LineInv, Bounds, TypeOK
<1>3. QED
  BY <1>1, <1>2, PTL
=============================================================================
