------------------------------ MODULE Surfaces ------------------------------
(***************************************************************************)
(* Damage of the shell's surface (kernel/src/metrics.rs): the shell marks  *)
(* the rectangles it has drawn, the compositor takes a snapshot of their   *)
(* union, clears it and copies that part of the surface to the screen.     *)
(*                                                                         *)
(* The rectangle and its sequence number are five relaxed atomics.  Both   *)
(* tasks run with IRQs enabled, so a tick may come between any two loads   *)
(* and stores: each of them is a step.                                     *)
(***************************************************************************)
EXTENDS Rectangles, FiniteSets

CONSTANTS
  Width, Height,      \* SURF_W and SURF_H
  Drawn,              \* the rectangles the shell may draw
  MaxMarks            \* a bound of the model: marks the shell makes

Rects == [x : 0 .. Width, y : 0 .. Height, w : 0 .. Width, h : 0 .. Height]

ASSUME SurfacesAssumption ==
  /\ Width \in Nat \ {0} /\ Height \in Nat \ {0}
  /\ \A r \in Drawn : /\ r \in Rects
                      /\ r.w > 0 /\ r.x + r.w <= Width
                      /\ r.h > 0 /\ r.y + r.h <= Height
  /\ MaxMarks \in Nat

VARIABLES
  damage,             \* SURFACE_DAMAGE_X, _Y, _W and _H
  seq,                \* SURFACE_SEQ
  (* the shell's *)
  marking,            \* its next step in mark_surface_damage, or "idle"
  mine,               \* the rectangle it marks
  read,               \* the words of damage it has loaded
  (* the compositor's *)
  frame,              \* its next step in the loop of compositor_el1
  snap,               \* the snapshot: the four words and the number
  taken,              \* last_shell_surface_seq
  active,             \* is the shell's window in front?
  plan,               \* what this frame copies: "none", "rect" or "all"
  (* for the properties *)
  dirty,              \* pixels marked, or being marked, and not yet copied
  overlapped          \* some mark and some clear_surface_damage overlapped

shared == <<damage, seq>>
shellVars == <<marking, mine, read>>
compositorVars == <<frame, snap, taken, active, plan>>
vars == <<shared, shellVars, compositorVars, dirty, overlapped>>

NoSnap == [x |-> 0, y |-> 0, w |-> 0, h |-> 0, seq |-> 0]

Surface == (0 .. Width - 1) \X (0 .. Height - 1)
Pixels(r) == PointsOf(r, Width, Height)

(* The compositor's first frame redraws everything.                        *)
Init ==
  /\ damage = NoRect
  /\ seq = 0
  /\ marking = "idle"
  /\ mine = NoRect
  /\ read = NoRect
  /\ frame = "start"
  /\ snap = NoSnap
  /\ taken = 0
  /\ active = TRUE
  /\ plan = "all"
  /\ dirty = {}
  /\ overlapped = FALSE

-----------------------------------------------------------------------------
(* The shell.                                                              *)

Clearing == frame \in {"x = 0", "y = 0", "w = 0", "h = 0"}

(* The shell has drawn r and calls mark_surface_damage.                    *)
Mark(r) ==
  /\ marking = "idle"
  /\ seq < MaxMarks
  /\ marking' = "read w"
  /\ mine' = r
  /\ read' = NoRect
  /\ dirty' = dirty \cup Pixels(r)
  /\ overlapped' = (overlapped \/ Clearing)
  /\ UNCHANGED <<shared, compositorVars>>

(* merge_surface_damage loads the size, and the position if there is one.  *)
ReadWord(word, from, to) ==
  /\ marking = from
  /\ read' = [read EXCEPT ![word] = damage[word]]
  /\ marking' = to
  /\ UNCHANGED <<shared, mine, compositorVars, dirty, overlapped>>

Reads ==
  \/ ReadWord("w", "read w", "read h")
  \/ ReadWord("h", "read h", IF read.w = 0 \/ damage.h = 0 THEN "x" ELSE "read x")
  \/ ReadWord("x", "read x", "read y")
  \/ ReadWord("y", "read y", "x")

(* What it stores.                                                         *)
Merged == Extended(read, mine)

StoreWord(word, to) ==
  /\ marking = word
  /\ damage' = [damage EXCEPT ![word] = Merged[word]]
  /\ marking' = to
  /\ UNCHANGED <<seq, mine, read, compositorVars, dirty, overlapped>>

Stores ==
  \/ StoreWord("x", "y")
  \/ StoreWord("y", "w")
  \/ StoreWord("w", "h")
  \/ StoreWord("h", "commit")

(* mark_surface_commit.                                                    *)
Commit ==
  /\ marking = "commit"
  /\ seq' = seq + 1
  /\ marking' = "idle"
  /\ mine' = NoRect
  /\ read' = NoRect
  /\ UNCHANGED <<damage, compositorVars, dirty, overlapped>>

-----------------------------------------------------------------------------
(* The compositor.                                                         *)

(* A frame starts.  Its keys may have switched the workspace, there and    *)
(* back again too.                                                         *)
Start(switched, front) ==
  /\ frame = "start"
  /\ active' = IF switched THEN front ELSE active
  /\ plan' = IF switched THEN "all" ELSE plan
  /\ frame' = "seq"
  /\ UNCHANGED <<shared, shellVars, snap, taken, dirty, overlapped>>

(* surface_damage_snapshot: the number, the words, the number again.       *)
SnapWord(word, value, to) ==
  /\ frame = word
  /\ snap' = [snap EXCEPT ![word] = value]
  /\ frame' = to
  /\ UNCHANGED <<shared, shellVars, taken, active, plan, dirty, overlapped>>

Snaps ==
  \/ SnapWord("seq", seq, "x")
  \/ SnapWord("x", damage.x, "y")
  \/ SnapWord("y", damage.y, "w")
  \/ SnapWord("w", damage.w, "h")
  \/ SnapWord("h", damage.h, "again")

Retry ==
  /\ frame = "again"
  /\ seq # snap.seq
  /\ frame' = "seq"
  /\ snap' = NoSnap
  /\ UNCHANGED <<shared, shellVars, taken, active, plan, dirty, overlapped>>

(* What to copy for a new mark: the rectangle if there is one and the      *)
(* shell's window is in front, and the whole window otherwise.             *)
Planned == IF plan = "all" \/ ~active \/ Empty(snap) THEN "all" ELSE "rect"

NewDamage ==
  /\ frame = "again"
  /\ seq = snap.seq
  /\ snap.seq # taken
  /\ plan' = Planned
  /\ taken' = snap.seq
  /\ frame' = "clear"
  /\ UNCHANGED <<shared, shellVars, snap, active, dirty, overlapped>>

NoDamage ==
  /\ frame = "again"
  /\ seq = snap.seq
  /\ snap.seq = taken
  /\ frame' = IF plan = "none" THEN "start" ELSE "copy"
  /\ snap' = NoSnap
  /\ UNCHANGED <<shared, shellVars, taken, active, plan, dirty, overlapped>>

(* Mutant: whatever has been marked since is cleared with the rest.        *)
Current_Always == TRUE

(* clear_surface_damage, unless there is a newer mark.                     *)
Current == seq = snap.seq

ClearBegins ==
  /\ frame = "clear"
  /\ frame' = IF Current THEN "x = 0" ELSE "copy"
  /\ overlapped' = (overlapped \/ (Current /\ marking # "idle"))
  /\ UNCHANGED <<shared, shellVars, snap, taken, active, plan, dirty>>

ClearWord(word, from, to) ==
  /\ frame = from
  /\ damage' = [damage EXCEPT ![word] = 0]
  /\ frame' = to
  /\ UNCHANGED <<seq, shellVars, snap, taken, active, plan, dirty, overlapped>>

Clears ==
  \/ ClearBegins
  \/ ClearWord("x", "x = 0", "y = 0")
  \/ ClearWord("y", "y = 0", "w = 0")
  \/ ClearWord("w", "w = 0", "h = 0")
  \/ ClearWord("h", "h = 0", "copy")

(* The window, or the rectangle, which copy_rect_from cuts to the surface. *)
(* The tick may come between pixels too, but what it changes is another    *)
(* mark's: for each pixel the copy is one step.                            *)
Copied == IF plan = "all" THEN Surface ELSE Pixels(snap)

Copy ==
  /\ frame = "copy"
  /\ dirty' = dirty \ Copied
  /\ frame' = "start"
  /\ plan' = "none"
  /\ snap' = NoSnap
  /\ UNCHANGED <<shared, shellVars, taken, active, overlapped>>

Next ==
  \/ \E r \in Drawn : Mark(r)
  \/ Reads
  \/ Stores
  \/ Commit
  \/ \E switched, front \in BOOLEAN : Start(switched, front)
  \/ Snaps
  \/ Retry
  \/ NewDamage
  \/ NoDamage
  \/ Clears
  \/ Copy

Spec == Init /\ [][Next]_vars

-----------------------------------------------------------------------------
(* A pixel that will be copied without another mark: it is in the mark     *)
(* being made, or in the union it stores; in the marks not yet taken; or   *)
(* in what this frame copies.  Marks not taken that show no rectangle have *)
(* the whole window copied.                                                *)
WillBeCopied(p) ==
  \/ marking # "idle" /\ p \in Pixels(mine)
  \/ marking \in {"x", "y", "w", "h", "commit"} /\ p \in Pixels(Merged)
  \/ seq # taken /\ (Empty(damage) \/ p \in Pixels(damage))
  \/ plan = "all"
  \/ plan = "rect" /\ p \in Pixels(snap)

(* docs/plans/2026-04-02-feat-virtio-gpu-driver-plan.md:13: "The           *)
(* compositor tracks dirty regions and transfers only changed pixels to    *)
(* the host each frame": when the shell has made its mark and the          *)
(* compositor is not at the words either, a changed pixel will be copied.  *)
ChangedPixelsShown ==
  marking = "idle" /\ ~Clearing => \A p \in dirty : WillBeCopied(p)

(* What the code ensures: no damage is lost, at any interleaving of the    *)
(* loads and stores, as long as no mark overlaps the stores of             *)
(* clear_surface_damage.  Marks pile up in the rectangle, and one that     *)
(* comes after the snapshot, or tears it, stays for the next frame.        *)
DamageNotLost == ~overlapped => \A p \in dirty : WillBeCopied(p)
=============================================================================
