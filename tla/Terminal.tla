------------------------------ MODULE Terminal ------------------------------
(***************************************************************************)
(* The shell's page and its command line (shell_el1 in                     *)
(* kernel/src/arm_tasks.rs): what a key does to the text on surface 0, to  *)
(* the cursor and to the command buffer, and what it marks as damaged.     *)
(*                                                                         *)
(* The page is counted in characters: column 0 is at x = left, row 0 at    *)
(* y = start_y, Cols is the number of characters before the wrap and Rows  *)
(* the number of lines above max_y.  The head of the window, which is      *)
(* drawn once, is left out, as are colours and the wording of answers.     *)
(***************************************************************************)
EXTENDS Rectangles, Sequences

CONSTANTS
  Cols, Rows,         \* 60 and 20
  MaxCommand,         \* the length of command_buf
  Letters,            \* printable characters
  Answers             \* how many lines a command may print

PromptX == 2
Blank == " "
Smear == "two glyphs over each other"

ASSUME TerminalAssumption ==
  /\ Cols \in Nat /\ Cols > PromptX
  /\ Rows \in Nat /\ Rows >= 2
  /\ MaxCommand \in Nat \ {0}
  /\ Answers \subseteq Nat
  /\ Smear \notin Letters

Cells == (0 .. Cols - 1) \X (0 .. Rows - 1)

Line(row) == [x |-> 0, y |-> row, w |-> Cols, h |-> 1]
Cell(col, row) == [x |-> col, y |-> row, w |-> 1, h |-> 1]
Body == [x |-> 0, y |-> 0, w |-> Cols, h |-> Rows]

(* A glyph is drawn over what is there.                                    *)
Drawn(text, cell, glyph) ==
  [text EXCEPT ![cell] = IF @ = Blank THEN glyph ELSE Smear]

Erased(text, r) ==
  [cell \in Cells |-> IF cell \in PointsOf(r, Cols, Rows) THEN Blank ELSE text[cell]]

Damaged(page, r) == [page EXCEPT !.damage = Extended(@, r)]

(* Mutant: the text of the last round stays.                               *)
AdvanceLine_Keeps(page) ==
  [page EXCEPT !.cy = IF @ + 1 < Rows THEN @ + 1 ELSE 0]

(* shell_advance_line: below the last line, the page starts over, empty.   *)
AdvanceLine(page) ==
  IF page.cy + 1 < Rows THEN [page EXCEPT !.cy = @ + 1]
  ELSE Damaged([page EXCEPT !.cy = 0, !.text = Erased(@, Body)], Body)

(* shell_print_line: an answer takes its whole line.                       *)
PrintLine(page) ==
  LET filled == [cell \in Cells |-> IF cell[2] = page.cy THEN "answer"
                                    ELSE page.text[cell]]
  IN AdvanceLine(Damaged([page EXCEPT !.text = filled], Line(page.cy)))

(* shell_run_command, which prints n lines.                                *)
RunCommand(page, n) ==
  LET printed[i \in 0 .. n] ==
        IF i = 0 THEN page ELSE PrintLine(printed[i - 1])
  IN printed[n]

(* shell_draw_prompt: the cursor stands behind it.                         *)
DrawPrompt(page) ==
  Damaged([page EXCEPT !.text = Drawn(@, <<0, page.cy>>, ">"), !.cx = PromptX],
          [x |-> 0, y |-> page.cy, w |-> 2, h |-> 1])

NewPage ==
  [text |-> [cell \in Cells |-> Blank], cx |-> 0, cy |-> 0,
   command |-> <<>>, damage |-> NoRect]

(* The shell as it starts.                                                 *)
Started == DrawPrompt(NewPage)

(* An empty command, or one of blanks, prints nothing.                     *)
LinesFor(command) == IF command = <<>> THEN {0} ELSE Answers \cup {0}

Enter(page, n) ==
  [DrawPrompt(RunCommand(AdvanceLine(page), n)) EXCEPT !.command = <<>>]

(* Not even in a line that has wrapped does it go left of the prompt.      *)
MayErase(page) == page.command # <<>> /\ page.cx > PromptX

Backspace(page) ==
  IF ~MayErase(page) THEN page
  ELSE LET last == Cell(page.cx - 1, page.cy)
       IN Damaged([page EXCEPT !.command = SubSeq(@, 1, Len(@) - 1),
                               !.cx = @ - 1,
                               !.text = Erased(@, last)], last)

(* A character, and the wrap behind the last column.                       *)
Type(page, letter) ==
  IF Len(page.command) >= MaxCommand THEN page
  ELSE LET at == Cell(page.cx, page.cy)
           shown == [page EXCEPT !.text = Drawn(@, <<page.cx, page.cy>>, letter),
                                 !.command = Append(@, letter),
                                 !.cx = @ + 1]
       IN Damaged(IF shown.cx < Cols THEN shown
                  ELSE [AdvanceLine(shown) EXCEPT !.cx = 0], at)

-----------------------------------------------------------------------------
(* What is on the page left of the cursor is the end of the command, so    *)
(* that backspace takes away the character it erases; nothing is ahead of  *)
(* the cursor, and no glyph was drawn over another.                        *)
PageShowsCommand(page) ==
  LET len == Len(page.command) IN
  /\ page.cx < Cols
  /\ \A i \in 1 .. Low(len, page.cx) :
       page.text[<<page.cx - i, page.cy>>] = page.command[len + 1 - i]
  /\ \A cell \in Cells :
       /\ page.text[cell] # Smear
       /\ cell[2] > page.cy \/ (cell[2] = page.cy /\ cell[1] >= page.cx) =>
            page.text[cell] = Blank
=============================================================================
