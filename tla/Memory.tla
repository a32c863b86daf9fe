------------------------------- MODULE Memory -------------------------------
(***************************************************************************)
(* Physical memory: the frame allocator (kernel/src/frame_alloc.rs), the   *)
(* address spaces that own frames (addrspace.rs), the kernel stacks of     *)
(* context.rs and the TLB.                                                 *)
(*                                                                         *)
(* Allocations and frees run with IRQs masked, one step each, and so do    *)
(* the tick and the exit of a task.  The SPAWN of an ELF image does not:   *)
(* ticks, exits and other allocations come between any two of its frames,  *)
(* and between the frees when it fails.  Which live task runs next is left *)
(* open here; module Scheduler says it.                                    *)
(***************************************************************************)
EXTENDS Integers, FiniteSets

CONSTANTS
  NFrames,            \* MAX_FRAMES
  GroupSize,          \* the frames of one byte of the bitmap
  BootFrames,         \* frames the kernel takes at boot and keeps
  SpaceSizes,         \* how many frames the space of a task may need
  StackPages,         \* the frames of a kernel stack
  BufferPages,        \* the frames of a buffer of the compositor's
  MaxTasks            \* MAX_TASKS

ASSUME MemoryAssumption ==
  /\ NFrames \in Nat /\ GroupSize \in Nat \ {0} /\ NFrames % GroupSize = 0
  /\ BootFrames \in Nat
  /\ SpaceSizes \subseteq Nat \ {0} /\ 2 \in SpaceSizes
  /\ StackPages \in Nat \ {0} /\ BufferPages \in Nat \ {0}
  (* The frames init needs are there at boot.                              *)
  /\ NFrames > BootFrames + 2 + StackPages
  /\ MaxTasks \in Nat /\ MaxTasks >= 2

VARIABLES
  used,               \* the bitmap: frames with their bit set
  freeCount,          \* FREE_COUNT
  hint,               \* NEXT_HINT, a byte of the bitmap
  kept,               \* frames taken by the kernel or a built-in for good
  slot,               \* what each slot is: Free, Reserved, User or Builtin
  space,              \* the frames of the slot's address space
  stack,              \* the base of its kernel stack, or NoFrame
  pending,            \* the bases of the stacks in PENDING_FREES
  current,            \* the slot on the CPU
  sp,                 \* the base of the stack the CPU runs on
  ttbr,               \* the slot whose tables TTBR0 names, 0 for the kernel's
  tlb,                \* <<asid, frame>>: translations the TLB may hold
  build               \* the SPAWN in progress

allocVars == <<used, freeCount, hint>>
cpuVars == <<current, sp, ttbr, tlb>>
vars == <<allocVars, kept, slot, space, stack, pending, cpuVars, build>>

Frames == 0 .. NFrames - 1
NoFrame == 0                        \* frame 0 is never handed out
Groups == NFrames \div GroupSize
Slots == 0 .. MaxTasks - 1
IdleTask == 0
InitTask == 1
Kinds == {"Free", "Reserved", "User", "Builtin"}

Pages(base, n) == base .. base + n - 1
StackAt(base) == IF base = NoFrame THEN {} ELSE Pages(base, StackPages)

-----------------------------------------------------------------------------
(* frame_alloc.rs.                                                         *)

(* How late the search of allocate comes to a frame: byte by byte from the *)
(* hint on, around the end of the bitmap, and bit by bit.                  *)
SearchOrder(f) ==
  ((f \div GroupSize - hint + Groups) % Groups) * GroupSize + (f % GroupSize)

(* Mutant: the hint remembers the frame, not its byte.                     *)
Allocates_HintIsFrame(f) ==
  /\ f \in Frames \ used
  /\ \A g \in Frames \ used : SearchOrder(f) <= SearchOrder(g)
  /\ used' = used \cup {f}
  /\ freeCount' = freeCount - 1
  /\ hint' = f

(* allocate: the first free frame in that order.                           *)
Allocates(f) ==
  /\ f \in Frames \ used
  /\ \A g \in Frames \ used : SearchOrder(f) <= SearchOrder(g)
  /\ used' = used \cup {f}
  /\ freeCount' = freeCount - 1
  /\ hint' = f \div GroupSize

NoneLeft == used = Frames

Fits(base, n) == base > 0 /\ Pages(base, n) \subseteq Frames \ used

(* Mutant: the last frame of the run is not marked.                        *)
AllocatesRun_OneShort(base, n) ==
  /\ Fits(base, n)
  /\ \A b \in Frames : Fits(b, n) => base <= b
  /\ used' = used \cup Pages(base, n - 1)
  /\ freeCount' = freeCount - n
  /\ UNCHANGED hint

(* allocate_contiguous: the lowest run of n free frames above frame 0.     *)
AllocatesRun(base, n) ==
  /\ Fits(base, n)
  /\ \A b \in Frames : Fits(b, n) => base <= b
  /\ used' = used \cup Pages(base, n)
  /\ freeCount' = freeCount - n
  /\ UNCHANGED hint

NoRun(n) == \A b \in Frames : ~Fits(b, n)

(* Mutant: a run that is freed is counted as one frame.                    *)
Deallocates_CountsOne(set, n) ==
  /\ used' = used \ (set \ {0})
  /\ freeCount' = freeCount + 1
  /\ UNCHANGED hint

(* deallocate, of every frame in a set; the count goes up by n whatever    *)
(* the bits were.                                                          *)
Deallocates(set, n) ==
  /\ used' = used \ (set \ {0})
  /\ freeCount' = freeCount + n
  /\ UNCHANGED hint

(* deallocate_contiguous, of the stacks that start at these bases.         *)
StackFrames(bases) == UNION {StackAt(b) : b \in bases}
DeallocatesStacks(bases) ==
  Deallocates(StackFrames(bases), StackPages * Cardinality(bases))

-----------------------------------------------------------------------------
(* While a space is active the TLB may come to hold any of its pages,      *)
(* tagged with the space's ASID, which is its slot.                        *)
Loaded(entries, s) == entries \cup ({s} \X (IF s = IdleTask THEN {} ELSE space[s]))

(* Mutant: the space is dropped without the flush.                         *)
Flush_Never(s) == tlb

(* Drop for AddressSpace starts with a flush of the ASID.                  *)
Flush(s) == {entry \in tlb : entry[1] # s}

(* run: TTBR0 of the next task, and its stack.                             *)
Runs(t, entries) ==
  /\ t \in {IdleTask} \cup {s \in Slots : slot'[s] \in {"User", "Builtin"}}
  /\ current' = t
  /\ sp' = stack[t]
  /\ ttbr' = IF slot'[t] = "User" THEN t ELSE IdleTask
  /\ tlb' = Loaded(entries, ttbr')

(* At boot the kernel takes its frames (heap, surfaces), then init's two   *)
(* tables and pages, then its stack; it starts in task 0, on a stack that  *)
(* is part of its image.                                                   *)
InitSpace == Pages(BootFrames + 1, 2)
InitStack == BootFrames + 3

Init ==
  /\ used = 0 .. BootFrames + 2 + StackPages
  /\ freeCount = NFrames - Cardinality(used)
  /\ hint = (BootFrames + 2) \div GroupSize
  /\ kept = Pages(1, BootFrames)
  /\ slot = [s \in Slots |-> IF s = InitTask THEN "User" ELSE
                             IF s = IdleTask THEN "Builtin" ELSE "Free"]
  /\ space = [s \in Slots |-> IF s = InitTask THEN InitSpace ELSE {}]
  /\ stack = [s \in Slots |-> IF s = InitTask THEN InitStack ELSE NoFrame]
  /\ pending = {}
  /\ current = IdleTask
  /\ sp = NoFrame
  /\ ttbr = IdleTask
  /\ tlb = {}
  /\ build = [step |-> "idle", slot |-> IdleTask]

(* The task on the CPU has not faulted; init is not inside SPAWN.          *)
Alive == slot[current] \in {"User", "Builtin"}
Busy == current = InitTask /\ build.step # "idle"

(* Mutant: the tick frees the stack it runs on.                            *)
InUse_Nothing == {}

(* reap_pending_frees at the tick leaves the stack the tick runs on.       *)
InUse == {sp}

Tick(t) ==
  /\ DeallocatesStacks(pending \ InUse)
  /\ pending' = pending \cap InUse
  /\ UNCHANGED <<kept, slot, space, stack, build>>
  /\ Runs(t, tlb)

(* A syscall that switches.                                                *)
Switch(t) ==
  /\ ~Busy
  /\ slot[current] = "User"
  /\ UNCHANGED <<allocVars, kept, slot, space, stack, pending, build>>
  /\ Runs(t, tlb)

-----------------------------------------------------------------------------
(* Mutant: the tables are freed while TTBR0 still names them.              *)
LeavesSpace_Late ==
  /\ tlb' = Flush(current)
  /\ UNCHANGED ttbr

(* retire_current moves TTBR0 to the kernel's tables, then drops the space. *)
LeavesSpace ==
  /\ tlb' = Flush(current)
  /\ ttbr' = IdleTask

(* The rest of retire_current: the frames of the space are freed at once,  *)
(* the stack, which is still in use, goes on the queue.                    *)
Retire ==
  /\ Alive
  /\ current \notin {IdleTask, InitTask}
  /\ Deallocates(space[current], Cardinality(space[current]))
  /\ pending' = pending \cup {stack[current]}
  /\ slot' = [slot EXCEPT ![current] = "Free"]
  /\ space' = [space EXCEPT ![current] = {}]
  /\ stack' = [stack EXCEPT ![current] = NoFrame]
  /\ UNCHANGED <<kept, build>>

(* EXIT leaves the CPU in the same step, a fault at the next tick.         *)
Exit(t) ==
  /\ slot[current] = "User"
  /\ Retire
  /\ Runs(t, Flush(current))

Fault ==
  /\ Retire
  /\ LeavesSpace
  /\ UNCHANGED <<current, sp>>

-----------------------------------------------------------------------------
(* spawn_el0, in init.  Each step runs only while init is on the CPU.      *)
At(step) ==
  /\ current = InitTask
  /\ build.step = step

SpawnReaps ==
  /\ At("idle")
  /\ DeallocatesStacks(pending)
  /\ pending' = {}
  /\ build' = [build EXCEPT !.step = "claim"]
  /\ UNCHANGED <<kept, slot, space, stack, cpuVars>>

FirstFree(s) ==
  /\ s # IdleTask
  /\ slot[s] = "Free"
  /\ \A u \in Slots \ {IdleTask} : slot[u] = "Free" => s <= u

NoneFree == \A s \in Slots \ {IdleTask} : slot[s] # "Free"

SpawnClaims(s) ==
  /\ At("claim")
  /\ FirstFree(s)
  /\ slot' = [slot EXCEPT ![s] = "Reserved"]
  /\ build' = [step |-> "space", slot |-> s]
  /\ UNCHANGED <<allocVars, kept, space, stack, pending, cpuVars>>

SpawnFindsNoSlot ==
  /\ At("claim")
  /\ NoneFree
  /\ build' = [build EXCEPT !.step = "idle"]
  /\ UNCHANGED <<allocVars, kept, slot, space, stack, pending, cpuVars>>

(* AddressSpace::new and map_new_page: one more table or page.             *)
SpawnMaps(f) ==
  /\ At("space")
  /\ \E n \in SpaceSizes : Cardinality(space[build.slot]) < n
  /\ Allocates(f)
  /\ space' = [space EXCEPT ![build.slot] = @ \cup {f}]
  /\ UNCHANGED <<kept, slot, stack, pending, cpuVars, build>>

SpawnTakesStack(base) ==
  /\ At("space")
  /\ Cardinality(space[build.slot]) \in SpaceSizes
  /\ AllocatesRun(base, StackPages)
  /\ stack' = [stack EXCEPT ![build.slot] = base]
  /\ build' = [build EXCEPT !.step = "install"]
  /\ UNCHANGED <<kept, slot, space, pending, cpuVars>>

SpawnInstalls ==
  /\ At("install")
  /\ slot' = [slot EXCEPT ![build.slot] = "User"]
  /\ build' = [step |-> "idle", slot |-> IdleTask]
  /\ UNCHANGED <<allocVars, kept, space, stack, pending, cpuVars>>

(* No frame, no run for the stack, or a bad image, found once there is a   *)
(* space to load it into.  The space is dropped with IRQs on.              *)
SpawnFails ==
  /\ At("space")
  /\ \/ NoneLeft
     \/ Cardinality(space[build.slot]) \in SpaceSizes /\ NoRun(StackPages)
     \/ space[build.slot] # {}
  /\ tlb' = Flush(build.slot)
  /\ build' = [build EXCEPT !.step = "undo"]
  /\ UNCHANGED <<allocVars, kept, slot, space, stack, pending, current, sp, ttbr>>

SpawnUndoes(f) ==
  /\ At("undo")
  /\ f \in space[build.slot]
  /\ Deallocates({f}, 1)
  /\ space' = [space EXCEPT ![build.slot] = @ \ {f}]
  /\ UNCHANGED <<kept, slot, stack, pending, cpuVars, build>>

(* Mutant: the slot is given back after the first frame.                   *)
Undone_Early == TRUE

Undone == space[build.slot] = {}

SpawnReleases ==
  /\ At("undo")
  /\ Undone
  /\ slot' = [slot EXCEPT ![build.slot] = "Free"]
  /\ space' = [space EXCEPT ![build.slot] = {}]
  /\ build' = [step |-> "idle", slot |-> IdleTask]
  /\ UNCHANGED <<allocVars, kept, stack, pending, cpuVars>>

-----------------------------------------------------------------------------
(* spawn, for a built-in: reap, claim, stack and install with IRQs masked. *)

(* Mutant: the queue is emptied, but its stacks are not freed.             *)
Reaped_Nothing == used

(* The run is looked for in what the reap has left.                        *)
Reaped == used \ StackFrames(pending)

LowestRun(base, n, taken) ==
  /\ base > 0 /\ Pages(base, n) \subseteq Frames \ taken
  /\ \A b \in Frames \ {0} : Pages(b, n) \subseteq Frames \ taken => base <= b

SpawnBuiltin(s, base) ==
  /\ At("idle")
  /\ FirstFree(s)
  /\ LowestRun(base, StackPages, Reaped)
  /\ used' = Reaped \cup Pages(base, StackPages)
  /\ freeCount' = freeCount + StackPages * Cardinality(pending) - StackPages
  /\ pending' = {}
  /\ slot' = [slot EXCEPT ![s] = "Builtin"]
  /\ stack' = [stack EXCEPT ![s] = base]
  /\ UNCHANGED <<hint, kept, space, cpuVars, build>>

SpawnBuiltinFails ==
  /\ At("idle")
  /\ NoneFree \/ \A base \in Frames : ~LowestRun(base, StackPages, Reaped)
  /\ DeallocatesStacks(pending)
  /\ pending' = {}
  /\ UNCHANGED <<kept, slot, space, stack, cpuVars, build>>

(* The compositor's buffers, which outlive it.                             *)
TakesBuffer(base) ==
  /\ slot[current] = "Builtin"
  /\ current # IdleTask
  /\ AllocatesRun(base, BufferPages)
  /\ kept' = kept \cup Pages(base, BufferPages)
  /\ UNCHANGED <<slot, space, stack, pending, cpuVars, build>>

Next ==
  \/ \E t \in Slots : Tick(t)
  \/ \E t \in Slots : Switch(t)
  \/ \E t \in Slots : Exit(t)
  \/ Fault
  \/ SpawnReaps
  \/ \E s \in Slots : SpawnClaims(s)
  \/ SpawnFindsNoSlot
  \/ \E f \in Frames : SpawnMaps(f)
  \/ \E base \in Frames : SpawnTakesStack(base)
  \/ SpawnInstalls
  \/ SpawnFails
  \/ \E f \in Frames : SpawnUndoes(f)
  \/ SpawnReleases
  \/ \E s \in Slots, base \in Frames : SpawnBuiltin(s, base)
  \/ SpawnBuiltinFails
  \/ \E base \in Frames : TakesBuffer(base)

Spec == Init /\ [][Next]_vars

-----------------------------------------------------------------------------
(* The values the sets and tables may hold.                                *)
Shape ==
  /\ used \subseteq Frames
  /\ kept \subseteq Frames
  /\ slot \in [Slots -> Kinds]
  /\ space \in [Slots -> SUBSET Frames]
  /\ stack \in [Slots -> Frames]
  /\ pending \subseteq Frames
  /\ current \in Slots
  /\ sp \in Frames
  /\ ttbr \in Slots
  /\ tlb \subseteq Slots \X Frames
  /\ build \in [step : {"idle", "claim", "space", "install", "undo"}, slot : Slots]

(* The values each variable may hold.                                      *)
TypeOK ==
  /\ Shape
  /\ freeCount \in 0 .. NFrames
  /\ hint \in 0 .. Groups - 1

(* Who may own frames, and which are theirs.                               *)
Owners == {<<"kernel", 0>>} \cup ({"space", "stack"} \X Slots)
            \cup ({"pending"} \X Frames)

Owned(o) ==
  IF o[1] = "kernel" THEN kept
  ELSE IF o[1] = "space" THEN space[o[2]]
  ELSE IF o[1] = "stack" THEN StackAt(stack[o[2]])
  ELSE IF o[2] \in pending THEN StackAt(o[2]) ELSE {}

(* frame_alloc.rs:11-15: "Otherwise two allocations could hand out the     *)
(* same frame": no frame is ever in two spaces or stacks, whatever comes   *)
(* between the steps of a build, of its undoing, and of exits and reaps.   *)
OneOwner ==
  \A o \in Owners : \A p \in Owners \ {o} : Owned(o) \cap Owned(p) = {}

(* A frame is marked used exactly while it has an owner: a failed build    *)
(* leaves nothing behind (context.rs:560-562), no free is lost and none    *)
(* comes twice.                                                            *)
FramesAccounted == used = {0} \cup UNION {Owned(o) : o \in Owners}

(* FREE_COUNT, which nothing ever recomputes, is the number of free        *)
(* frames: no frame is freed that was free already.                        *)
CountExact == freeCount = NFrames - Cardinality(used)

(* The bitmap and its counter agree with the owners, and so with each      *)
(* other, after every step of every build, undoing, exit and reap.         *)
Accounting == FramesAccounted /\ CountExact

(* context.rs:669-673: a slot is only free once its ASID has been flushed, *)
(* so no translation of an old space is ever left for a new one to use.    *)
NoStaleTranslation == \A entry \in tlb : entry[2] \in space[entry[1]]

(* What the CPU stands on is not free for others to take: the tables that  *)
(* TTBR0 names are a live task's, and the stack is that of a live task or  *)
(* still waits to be freed.                                                *)
CpuOnLiveMemory ==
  /\ ttbr # IdleTask => slot[ttbr] = "User" /\ space[ttbr] # {}
  /\ sp # NoFrame => sp = stack[current] \/ sp \in pending

(* context.rs, reap_pending_frees: no handler frees the stack it runs on,  *)
(* which it still needs until it leaves the CPU: not the tick after a      *)
(* fault, not an exit, and not the reaps of a spawn.                       *)
KeepsItsStack == StackAt(sp) \subseteq used'
HandlersKeepTheirStack == [][KeepsItsStack]_vars

(* The strengthening of the invariants above that every step preserves.    *)

(* The slot that a spawn fills is reserved from its claim on, and no other *)
(* is; it has no stack before the last step.                               *)
BuildOwnsItsSlot ==
  /\ \A s \in Slots : slot[s] = "Reserved" <=>
       build.step \in {"space", "install", "undo"} /\ s = build.slot
  /\ build.step \in {"space", "undo"} => stack[build.slot] = NoFrame
  /\ build.step = "install" => stack[build.slot] # NoFrame /\ space[build.slot] # {}

(* What a slot has says what it is.                                        *)
SlotsHoldTheirMemory ==
  /\ slot[IdleTask] = "Builtin" /\ stack[IdleTask] = NoFrame
  /\ slot[InitTask] = "User"
  /\ \A s \in Slots :
       /\ slot[s] = "Free" => space[s] = {} /\ stack[s] = NoFrame
       /\ slot[s] = "User" => space[s] # {}
       /\ slot[s] = "Builtin" => space[s] = {}
       /\ s # IdleTask /\ slot[s] \in {"User", "Builtin"} => stack[s] # NoFrame

(* A task on the CPU is on its own stack and tables; one that has faulted  *)
(* is on the kernel's tables, and its stack is queued.                     *)
CpuFollowsTask ==
  /\ IF Alive THEN sp = stack[current] ELSE sp \in pending /\ slot[current] = "Free"
  /\ ttbr # IdleTask => ttbr = current /\ slot[current] = "User"

(* Only tasks with a space of their own are in the TLB.                    *)
TlbOfTheLiving ==
  \A entry \in tlb : slot[entry[1]] = "User" /\ entry[2] \in space[entry[1]]

(* Frame 0 is nobody's.                                                    *)
NobodyHasFrameZero == \A o \in Owners : NoFrame \notin Owned(o)

(* The inductive invariant: a frame is never in two hands and never lost   *)
(* (OneOwner, FramesAccounted) because the slot of a spawn is reserved     *)
(* from the claim to the last frame of its undoing (context.rs:669-673),   *)
(* because a task on the CPU is on its own stack and tables until          *)
(* retire_current has moved it off them, and because the TLB only holds    *)
(* what a live task has.                                                   *)
IInv ==
  /\ Shape
  /\ OneOwner
  /\ FramesAccounted
  /\ NobodyHasFrameZero
  /\ NoFrame \notin pending
  /\ BuildOwnsItsSlot
  /\ SlotsHoldTheirMemory
  /\ CpuFollowsTask
  /\ TlbOfTheLiving
=============================================================================
