------------------------------- MODULE Desktop ------------------------------
(***************************************************************************)
(* The desktop (kernel/src/arm_tasks.rs): the compositor draws the desktop,*)
(* two overlapping windows, a menu bar, a taskbar and a panel of numbers   *)
(* into its back buffer and presents the parts that have changed; the      *)
(* shell and the dashboard draw on the surfaces the windows show and mark  *)
(* what they have drawn.                                                   *)
(*                                                                         *)
(* A point is a character wide and high.  A mark is one step here: the     *)
(* races inside it are the subject of module Surfaces.  Presenting is one  *)
(* step too: how it reaches the screen is the subject of VirtioGpu.        *)
(***************************************************************************)
EXTENDS Terminal

CONSTANTS
  ScreenW, ScreenH,          \* sw and sh
  MenuH, TaskbarH,           \* MENU_H + 1 and TBAR_H
  TitleH, Border,            \* WIN_TITLE_H and WIN_BORDER
  GapAbove, GapBelow,        \* between the menu bar, the content, the taskbar
  ShiftX, ShiftY,            \* from the front window to the one behind: 60, 20
  StatsX, StatsY,            \* the corner of the panel
  StatsW, StatsH,            \* STATS_PANEL_W and STATS_PANEL_H
  BarsBelow                  \* how far the bars hang out below the panel

Points == (0 .. ScreenW - 1) \X (0 .. ScreenH - 1)
On(r) == PointsOf(r, ScreenW, ScreenH)
Rect(x, y, w, h) == [x |-> x, y |-> y, w |-> w, h |-> h]
Screen == Rect(0, 0, ScreenW, ScreenH)

TaskbarY == ScreenH - TaskbarH
ContentTop == MenuH + GapAbove
ContentH == High(TaskbarY - GapBelow - ContentTop, 0)
Content == Rect(0, ContentTop, ScreenW, ContentH)
MenuBar == Rect(0, 0, ScreenW, MenuH)
Taskbar == Rect(0, TaskbarY, ScreenW, TaskbarH)
Stats == Rect(StatsX, StatsY, StatsW, StatsH)

(* draw_stats_histogram: the bars stand on a line below the panel's end.   *)
Bars == Rect(StatsX, StatsY + StatsH, StatsW, BarsBelow)

OnContent == On(Content)
OnMenuBar == On(MenuBar)
OnTaskbar == On(Taskbar)
OnStats == On(Stats)
OnBars == On(Bars)

(* Windows: surface 0 is the shell's, surface 1 the dashboard's.  On a     *)
(* small screen they lie over the panel and the taskbar, and end beyond it.*)
Windows == {0, 1}
ActiveX == (ScreenW - Cols) \div 2
ActiveY == ContentTop + High(ContentH - (Rows + TitleH), 0) \div 2 + TitleH

(* Where the surface of window w is shown while window front is in front.  *)
CornerX == [w \in Windows |-> [front \in Windows |->
  IF w = front THEN ActiveX ELSE IF front = 0 THEN ActiveX + ShiftX
                                 ELSE High(ActiveX - ShiftX, 0)]]
CornerY == [w \in Windows |-> [front \in Windows |->
  IF w = front THEN ActiveY ELSE ActiveY + ShiftY]]

(* outer_rect_for_window, and its points.                                  *)
Outer == [w \in Windows |-> [front \in Windows |->
  Rect(High(CornerX[w][front] - Border, 0),
       High(CornerY[w][front] - (TitleH + Border), 0),
       Cols + 2 * Border, Rows + TitleH + 2 * Border)]]
OnOuter == [w \in Windows |-> [front \in Windows |-> On(Outer[w][front])]]

Layer == [w \in Windows |-> [front \in Windows |->
  IF w = front THEN <<"shell", "dash">>[w + 1]
               ELSE <<"shell behind", "dash behind">>[w + 1]]]

(* What the sizes in the code give on every screen as wide as a surface    *)
(* and high enough for the bars and the panel, such as the smallest mode   *)
(* of a firmware, 640 by 480: nothing is said of the windows but that they *)
(* begin below the menu bar.                                               *)
ASSUME DesktopAssumption ==
  /\ {ScreenW, ScreenH, MenuH, TaskbarH, TitleH, Border, GapAbove, GapBelow,
      ShiftX, ShiftY, StatsX, StatsY, StatsW, StatsH, BarsBelow} \subseteq Nat
  /\ Cols <= ScreenW
  /\ Border <= GapAbove
  /\ MenuH <= StatsY /\ StatsY + StatsH <= TaskbarY

VARIABLES
  page,               \* the shell's: text, cursor, command
  damage, marked,     \* SURFACE_DAMAGE of the shell; is SURFACE_SEQ new?
  dashMarked,         \* is the dashboard's SURFACE_SEQ new?
  (* the compositor's *)
  phase,              \* "keys", or "draw" once it has taken the damage
  ws,                 \* active_ws
  full,               \* full_content_redraw
  activeFull,         \* redraw_active_window_full
  inactiveFull,       \* redraw_inactive_window_full
  copied,             \* active_surface_damage
  chrome,             \* which of menu, stats and taskbar are dirty
  presentAll,         \* full_present_needed
  (* the pictures *)
  top,                \* what the back buffer shows at each point
  stale,              \* points of a window to be drawn again: they have changed
  unpresented         \* points where the screen is not the back buffer

shellVars == <<page, damage, marked>>
frameVars == <<phase, ws, full, activeFull, inactiveFull, copied, chrome,
               presentAll>>
pictures == <<top, stale, unpresented>>
vars == <<shellVars, dashMarked, frameVars, pictures>>

AllChrome == {"menu", "stats", "taskbar"}

Init ==
  /\ page = [Started EXCEPT !.damage = NoRect]
  /\ damage = Started.damage /\ marked = TRUE
  /\ dashMarked = TRUE
  /\ phase = "keys" /\ ws = 0
  /\ full = TRUE /\ activeFull = FALSE /\ inactiveFull = FALSE
  /\ copied = NoRect
  /\ chrome = AllChrome /\ presentAll = TRUE
  /\ top = [p \in Points |-> "desktop"]
  /\ stale = {} /\ unpresented = Points

-----------------------------------------------------------------------------
(* The shell and the dashboard.                                            *)

(* The points that show one of these cells of window w.                    *)
Showing(w, cells) ==
  UNION {{p \in Points \cap {<<CornerX[w][front] + cell[1],
                               CornerY[w][front] + cell[2]>> : cell \in cells} :
            top[p] = Layer[w][front]} : front \in Windows}

Changed(new) == {cell \in Cells : new.text[cell] # page.text[cell]}

(* mark_shell_surface_damage, of what the key has drawn.                   *)
ShellShows(new, changed) ==
  /\ page' = [new EXCEPT !.damage = NoRect]
  /\ damage' = Extended(damage, new.damage)
  /\ marked' = (marked \/ ~Empty(new.damage))
  /\ stale' = stale \cup Showing(0, changed)

(* The shell takes a key from SHELL_KEYS, where the compositor put it when *)
(* the shell was in front, perhaps some time ago.                          *)
Keys == Letters \cup {"enter", "backspace"}

Pages(key) ==
  CASE key = "enter" -> {Enter(page, n) : n \in LinesFor(page.command)}
    [] key = "backspace" -> {Backspace(page)}
    [] OTHER -> {Type(page, key)}

ShellKey(key) ==
  /\ \E new \in Pages(key) : ShellShows(new, Changed(new))
  /\ UNCHANGED <<dashMarked, frameVars, top, unpresented>>

(* A restarted shell clears the page, but marks its prompt only: what it   *)
(* has cleared elsewhere waits for the next frame that draws the window.   *)
ShellRestarts ==
  /\ ShellShows(Started, Changed(Started) \cap PointsOf(Started.damage, Cols, Rows))
  /\ UNCHANGED <<dashMarked, frameVars, top, unpresented>>

DashboardDraws ==
  /\ dashMarked' = TRUE
  /\ stale' = stale \cup Showing(1, Cells)
  /\ UNCHANGED <<shellVars, frameVars, top, unpresented>>

-----------------------------------------------------------------------------
(* The compositor.                                                         *)

(* The keys Tab, 1 and 2 bring window w to the front, or leave it there,   *)
(* perhaps after a turn to the other one; then the compositor takes the    *)
(* damage.                                                                 *)
TakesDamage(w, switched) ==
  LET behind == w = 1 IN
  /\ w # ws => switched
  /\ phase = "keys"
  /\ ws' = w
  /\ full' = (full \/ switched)
  /\ chrome' = IF switched THEN chrome \cup {"stats", "taskbar"} ELSE chrome
  /\ inactiveFull' = (marked /\ behind)
  /\ activeFull' = (((marked \/ dashMarked) /\ behind) \/ (marked /\ Empty(damage)))
  /\ copied' = IF marked /\ ~behind THEN damage ELSE NoRect
  /\ damage' = IF marked THEN NoRect ELSE damage
  /\ marked' = FALSE
  /\ dashMarked' = FALSE
  /\ phase' = "draw"
  /\ UNCHANGED <<page, presentAll, pictures>>

ContentDirty == full \/ activeFull \/ inactiveFull \/ ~Empty(copied)

(* Nothing is dirty: the compositor yields.                                *)
Idles ==
  /\ phase = "draw" /\ ~ContentDirty /\ chrome = {}
  /\ phase' = "keys"
  /\ UNCHANGED <<shellVars, dashMarked, ws, full, activeFull, inactiveFull,
                 copied, chrome, presentAll, pictures>>

(* What is drawn over a picture hides it.                                  *)
picture ++ paint ==
  [p \in DOMAIN picture \cup DOMAIN paint |->
     IF p \in DOMAIN paint THEN paint[p] ELSE picture[p]]
Paint(points, layer) == [p \in points |-> layer]
If(condition, paint) == IF condition THEN paint ELSE << >>

DesktopPaint == Paint(OnContent, "desktop")
WindowPaint == [w \in Windows |-> [front \in Windows |->
                  Paint(OnOuter[w][front], Layer[w][front])]]

(* The damage, cut to the surface and to the screen, at its place.         *)
CopiedPaint ==
  Paint(Points \cap {<<ActiveX + cell[1], ActiveY + cell[2]>> :
           cell \in PointsOf(copied, Cols, Rows)}, Layer[ws][ws])

(* rect_intersection: the windows overlap, be it beyond the screen.        *)
WindowsMeet ==
  LET a == Outer[0][ws]
      b == Outer[1][ws]
  IN /\ High(a.x, b.x) < Low(a.x + a.w, b.x + b.w)
     /\ High(a.y, b.y) < Low(a.y + a.h, b.y + b.h)

(* Mutant: the window in front is not drawn over the one behind.           *)
ContentPaint_Behind ==
  IF full THEN DesktopPaint ++ WindowPaint[1 - ws][ws] ++ WindowPaint[ws][ws]
  ELSE If(inactiveFull, WindowPaint[1 - ws][ws]) ++ If(~Empty(copied), CopiedPaint)

(* What a frame draws of the content.                                      *)
ContentPaint ==
  IF full THEN DesktopPaint ++ WindowPaint[1 - ws][ws] ++ WindowPaint[ws][ws]
  ELSE If(inactiveFull, WindowPaint[1 - ws][ws])
       ++ If(activeFull, WindowPaint[ws][ws])
       ++ If(~activeFull /\ ~Empty(copied), CopiedPaint)
       ++ If(inactiveFull /\ ~activeFull /\ WindowsMeet, WindowPaint[ws][ws])

(* The menu bar, the panel, perhaps with bars, and the taskbar.            *)
ChromePaint == [part \in {"menu", "stats", "bars", "taskbar"} |->
  CASE part = "menu" -> Paint(OnMenuBar, "menu")
    [] part = "stats" -> Paint(OnStats, "stats")
    [] part = "bars" -> Paint(OnBars, "stats")
    [] part = "taskbar" -> Paint(OnTaskbar, "taskbar")]

Picture(dirty) ==
  ContentPaint ++ If("menu" \in dirty, ChromePaint["menu"])
               ++ If("stats" \in dirty, ChromePaint["stats"])
               ++ If("bars" \in dirty, ChromePaint["bars"])
               ++ If("taskbar" \in dirty, ChromePaint["taskbar"])

(* The part of the content that is presented: content_present.             *)
ContentPresent ==
  LET behind == IF inactiveFull THEN Outer[1 - ws][ws] ELSE NoRect
      front == IF activeFull \/ (inactiveFull /\ WindowsMeet) THEN Outer[ws][ws]
               ELSE NoRect
      text == IF activeFull \/ Empty(copied) THEN NoRect
              ELSE [copied EXCEPT !.x = @ + ActiveX, !.y = @ + ActiveY]
      Both(r, s) == IF Empty(s) THEN r ELSE Extended(r, s)
  IN IF full THEN Content ELSE Both(Both(behind, front), text)

Presented(dirty) ==
  IF presentAll THEN Points
  ELSE (IF "menu" \in dirty THEN OnMenuBar ELSE {})
       \cup On(ContentPresent)
       \cup (IF "stats" \in dirty THEN OnStats ELSE {})
       \cup (IF "taskbar" \in dirty THEN OnTaskbar ELSE {})

(* The frame, for which the numbers of menu bar and panel may have changed *)
(* where they are not dirty yet.  The panel has bars if there is a latency *)
(* to show.                                                                *)
DrawsFrame(numbers) ==
  LET dirty == chrome \cup numbers
      drawn == Picture(dirty)
      painted == DOMAIN drawn
  IN
  /\ phase = "draw" /\ (ContentDirty \/ dirty # {})
  /\ "bars" \in numbers => "stats" \in dirty
  /\ top' = top ++ drawn
  /\ stale' = stale \ painted
  /\ unpresented' = (unpresented \cup painted) \ Presented(dirty)
  /\ phase' = "keys"
  /\ full' = FALSE /\ activeFull' = FALSE /\ inactiveFull' = FALSE
  /\ copied' = NoRect
  /\ chrome' = {} /\ presentAll' = FALSE
  /\ UNCHANGED <<shellVars, dashMarked, ws>>

(* A restarted compositor has a new back buffer and draws everything; the  *)
(* numbers of the surfaces are not 0, and so are new to it.                *)
CompositorRestarts ==
  /\ phase' = "keys" /\ ws' = 0
  /\ full' = TRUE /\ activeFull' = FALSE /\ inactiveFull' = FALSE
  /\ copied' = NoRect
  /\ chrome' = AllChrome /\ presentAll' = TRUE
  /\ marked' = TRUE /\ dashMarked' = TRUE
  /\ top' = [p \in Points |-> "desktop"]
  /\ stale' = {} /\ unpresented' = Points
  /\ UNCHANGED <<page, damage>>

-----------------------------------------------------------------------------
Next ==
  \/ \E key \in Keys : ShellKey(key)
  \/ ShellRestarts
  \/ DashboardDraws
  \/ \E w \in Windows, switched \in BOOLEAN : TakesDamage(w, switched)
  \/ Idles
  \/ \E numbers \in SUBSET ({"menu", "stats", "bars"} \ chrome) : DrawsFrame(numbers)
  \/ CompositorRestarts

Spec == Init /\ [][Next]_vars

-----------------------------------------------------------------------------
(* A frame is done and no key has called for another one.                  *)
Settled == phase = "keys" /\ ~full

(* What belongs where while window front is in front: the front window is  *)
(* over the one behind it, and the chrome over both.                       *)
Scene == [front \in Windows |-> [p \in Points |->
  IF p \in OnOuter[front][front] THEN Layer[front][front]
  ELSE IF p \in OnOuter[1 - front][front] THEN Layer[1 - front][front]
  ELSE "desktop"]]
Layers == [front \in Windows |-> [p \in Points |->
  IF p \in OnMenuBar THEN "menu"
  ELSE IF p \in OnTaskbar THEN "taskbar"
  ELSE IF p \in OnStats THEN "stats"
  ELSE Scene[front][p]]]

(* Where windows reach out of the content, but not into the chrome: no     *)
(* frame paints the desktop there again, and not every one presents it.    *)
Beyond ==
  {p \in Points : \E w, front \in Windows : p \in OnOuter[w][front]}
    \ (OnContent \cup OnTaskbar \cup OnStats)

(* A window that is drawn again hides the chrome it reaches, until numbers *)
(* or a switch have the chrome drawn; the bars of the panel stand out of   *)
(* it.  Nothing else is out of order.                                      *)
InOrder(p) ==
  \/ top[p] = Layers[ws][p]
  \/ p \in OnOuter[0][ws] \cup OnOuter[1][ws] /\ top[p] = Scene[ws][p]
  \/ p \in OnBars /\ top[p] = "stats"

(* A point of a window that has changed will be drawn: it is in the damage *)
(* still to be taken.  The dashboard is not kept up to date while it is    *)
(* behind the shell.                                                       *)
ChangesAreMarked ==
  \A p \in stale \ Beyond :
    /\ top[p] = "shell" =>
         marked /\ (Empty(damage) \/ <<p[1] - ActiveX, p[2] - ActiveY>>
                                         \in PointsOf(damage, Cols, Rows))
    /\ top[p] = "shell behind" => marked
    /\ top[p] = "dash" => dashMarked

(* After a frame, the windows are in order, also over the chrome they      *)
(* reach, which they may hide: that is the open issue #65, and the chrome  *)
(* is not claimed to be on top. The screen shows what the back buffer      *)
(* does, and each point of a window is as its task has drawn it or will be *)
(* once damage that is marked has been taken. Below the panel the screen   *)
(* may lag behind: the bars of its histogram stand out of what is          *)
(* presented with it (arm_tasks.rs:709).                                   *)
ScreenIsCurrent ==
  Settled =>
    /\ \A p \in Points \ Beyond : InOrder(p)
    /\ ChangesAreMarked
    /\ unpresented \subseteq OnBars \cup Beyond

(* The shell's line on the page is the end of its command, over any number *)
(* of wraps, of full pages and of refused keys.                            *)
LineIsCommand == PageShowsCommand(page)
=============================================================================
