---------------------------- MODULE MemoryProofs ----------------------------
(***************************************************************************)
(* The invariants of physical memory, proved for every number of frames,   *)
(* slots and pages.                                                        *)
(***************************************************************************)
EXTENDS Memory, FiniteSetTheorems, TLAPS

(* Who owns what, as a function of the variables that say it.              *)
Ownership(kp, spc, stk, pnd) ==
  [o \in Owners |->
     IF o[1] = "kernel" THEN kp
     ELSE IF o[1] = "space" THEN spc[o[2]]
     ELSE IF o[1] = "stack" THEN StackAt(stk[o[2]])
     ELSE IF o[2] \in pnd THEN StackAt(o[2]) ELSE {}]

Own == Ownership(kept, space, stack, pending)

(* The ownership is one the bitmap agrees with.                            *)
Sound(own, set) ==
  /\ \A o \in Owners : \A p \in Owners \ {o} : own[o] \cap own[p] = {}
  /\ \A o \in Owners : NoFrame \notin own[o]
  /\ \A f : f \in set <=> f = NoFrame \/ \E o \in Owners : f \in own[o]

-----------------------------------------------------------------------------
(* Frames nobody has go to one owner.                                      *)
LEMMA Taken ==
  ASSUME NEW own, NEW set, Sound(own, set), NEW new, NEW o \in Owners, NEW frames,
         frames \cap set = {},
         \A p \in Owners : new[p] = IF p = o THEN own[o] \cup frames ELSE own[p]
  PROVE  Sound(new, set \cup frames)
<1>1. \A p \in Owners : \A f \in own[p] : f \in set
  BY DEF Sound
<1>2. \A p \in Owners : \A q \in Owners \ {p} : new[p] \cap new[q] = {}
  BY <1>1 DEF Sound
<1>3. \A p \in Owners : NoFrame \notin new[p]
  BY DEF Sound
<1>4. \A f : f \in set \cup frames <=> f = NoFrame \/ \E p \in Owners : f \in new[p]
  BY DEF Sound
<1>5. QED
  BY <1>2, <1>3, <1>4 DEF Sound

(* Every owner gives up some of its frames, and they are freed.            *)
LEMMA Given ==
  ASSUME NEW own, NEW set, Sound(own, set), NEW new,
         \A o \in Owners : new[o] \subseteq own[o],
         NEW left,
         \A f : f \in left <=>
           f \in set /\ \A o \in Owners : f \in own[o] => f \in new[o]
  PROVE  Sound(new, left)
<1>1. \A p \in Owners : \A q \in Owners \ {p} : new[p] \cap new[q] = {}
  BY DEF Sound
<1>2. \A p \in Owners : NoFrame \notin new[p]
  BY DEF Sound
<1>3. \A f : f \in left <=> f = NoFrame \/ \E p \in Owners : f \in new[p]
  BY DEF Sound
<1>4. QED
  BY <1>1, <1>2, <1>3 DEF Sound

(* One owner hands all it has to one that had nothing.                     *)
LEMMA Moved ==
  ASSUME NEW own, NEW set, Sound(own, set), NEW new,
         NEW a \in Owners, NEW b \in Owners, a # b, own[b] = {},
         \A p \in Owners : new[p] = IF p = b THEN own[a]
                                   ELSE IF p = a THEN {} ELSE own[p]
  PROVE  Sound(new, set)
<1>1. \A p \in Owners : \A q \in Owners \ {p} : new[p] \cap new[q] = {}
  BY DEF Sound
<1>2. \A p \in Owners : NoFrame \notin new[p]
  BY DEF Sound
<1>3. \A f : f \in set <=> f = NoFrame \/ \E p \in Owners : f \in new[p]
  BY DEF Sound
<1>4. QED
  BY <1>1, <1>2, <1>3 DEF Sound

-----------------------------------------------------------------------------
(* The owners, and what each has.                                          *)
LEMMA OwnerFacts ==
  /\ <<"kernel", 0>> \in Owners
  /\ \A s \in Slots : <<"space", s>> \in Owners /\ <<"stack", s>> \in Owners
  /\ \A b \in Frames : <<"pending", b>> \in Owners
  /\ \A o \in Owners :
       \/ o = <<"kernel", 0>>
       \/ \E s \in Slots : o = <<"space", s>> \/ o = <<"stack", s>>
       \/ \E b \in Frames : o = <<"pending", b>>
BY DEF Owners

(* The invariants say that the ownership is sound.                         *)
LEMMA SoundMeans ==
  OneOwner /\ FramesAccounted /\ NobodyHasFrameZero <=> Sound(Own, used)
<1>1. \A o \in Owners : Own[o] = Owned(o)
  BY DEF Own, Ownership, Owned
<1>2. FramesAccounted <=>
        \A f : f \in used <=> f = NoFrame \/ \E o \in Owners : f \in Own[o]
  BY <1>1 DEF FramesAccounted, NoFrame
<1>3. QED
  BY <1>1, <1>2 DEF Sound, OneOwner, NobodyHasFrameZero

(* The same of the next state.                                             *)
LEMMA SoundMeansNext ==
  (OneOwner /\ FramesAccounted /\ NobodyHasFrameZero)' <=> Sound(Own', used')
<1>1. \A o \in Owners : Own'[o] = Owned(o)'
  BY DEF Own, Ownership, Owned
<1>2. FramesAccounted' <=>
        \A f : f \in used' <=> f = NoFrame \/ \E o \in Owners : f \in Own'[o]
  BY <1>1 DEF FramesAccounted, NoFrame
<1>3. QED
  BY <1>1, <1>2 DEF Sound, OneOwner, NobodyHasFrameZero

(* How the ownership changes with each of the variables.                   *)
LEMMA SpaceChanges ==
  ASSUME NEW s \in Slots, Shape, NEW frames,
         space' = [space EXCEPT ![s] = frames], UNCHANGED <<kept, stack, pending>>
  PROVE  \A p \in Owners : Own'[p] = IF p = <<"space", s>> THEN frames ELSE Own[p]
<1> SUFFICES ASSUME NEW p \in Owners
             PROVE  Own'[p] = IF p = <<"space", s>> THEN frames ELSE Own[p]
  OBVIOUS
<1>1. space'[s] = frames /\ \A u \in Slots \ {s} : space'[u] = space[u]
  BY DEF Shape
<1>2. Own'[p] = IF p[1] = "kernel" THEN kept
               ELSE IF p[1] = "space" THEN space'[p[2]]
               ELSE IF p[1] = "stack" THEN StackAt(stack[p[2]])
               ELSE IF p[2] \in pending THEN StackAt(p[2]) ELSE {}
  BY DEF Own, Ownership
<1>3. Own[p] = IF p[1] = "kernel" THEN kept
               ELSE IF p[1] = "space" THEN space[p[2]]
               ELSE IF p[1] = "stack" THEN StackAt(stack[p[2]])
               ELSE IF p[2] \in pending THEN StackAt(p[2]) ELSE {}
  BY DEF Own, Ownership
<1>4. QED
  BY <1>1, <1>2, <1>3, OwnerFacts

(* The stack of a slot that had none; the queue may be emptied with it.    *)
LEMMA StackChanges ==
  ASSUME NEW s \in Slots, Shape, NEW base,
         stack' = [stack EXCEPT ![s] = base], UNCHANGED <<kept, space>>
  PROVE  \A p \in Owners :
           Own'[p] = IF p = <<"stack", s>> THEN StackAt(base)
                     ELSE Ownership(kept, space, stack, pending')[p]
<1> DEFINE own == Ownership(kept, space, stack, pending')
<1> SUFFICES ASSUME NEW p \in Owners
             PROVE  Own'[p] = IF p = <<"stack", s>> THEN StackAt(base) ELSE own[p]
  OBVIOUS
<1>1. stack'[s] = base /\ \A u \in Slots \ {s} : stack'[u] = stack[u]
  BY DEF Shape
<1>2. Own'[p] = IF p[1] = "kernel" THEN kept
               ELSE IF p[1] = "space" THEN space[p[2]]
               ELSE IF p[1] = "stack" THEN StackAt(stack'[p[2]])
               ELSE IF p[2] \in pending' THEN StackAt(p[2]) ELSE {}
  BY DEF Own, Ownership
<1>3. own[p] = IF p[1] = "kernel" THEN kept
               ELSE IF p[1] = "space" THEN space[p[2]]
               ELSE IF p[1] = "stack" THEN StackAt(stack[p[2]])
               ELSE IF p[2] \in pending' THEN StackAt(p[2]) ELSE {}
  BY DEF Ownership
<1> HIDE DEF own
<1>4. QED
  BY <1>1, <1>2, <1>3, OwnerFacts

(* A stack queued to be freed is owned by the queue.                       *)
LEMMA PendingChange ==
  ASSUME NEW kp, NEW spc, NEW stk, NEW pnd, NEW base \in Frames, NEW pnd2,
         pnd2 = pnd \cup {base}, NEW p \in Owners
  PROVE  Ownership(kp, spc, stk, pnd2)[p] =
           IF p = <<"pending", base>> THEN StackAt(base)
                                      ELSE Ownership(kp, spc, stk, pnd)[p]
BY OwnerFacts DEF Ownership

(* No queued stack has frame 0.                                            *)
LEMMA PendingHasNoZero ==
  ASSUME NEW kp, NEW spc, NEW stk, NEW pnd, NEW set, pnd \subseteq Frames,
         Sound(Ownership(kp, spc, stk, pnd), set)
  PROVE  0 \notin StackFrames(pnd)
<1> SUFFICES ASSUME 0 \in StackFrames(pnd)
             PROVE  FALSE
  OBVIOUS
<1>1. PICK b \in pnd : 0 \in StackAt(b)
  BY DEF StackFrames
<1>2. <<"pending", b>> \in Owners
  BY OwnerFacts
<1>3. Ownership(kp, spc, stk, pnd)[<<"pending", b>>] = StackAt(b)
  BY <1>2 DEF Ownership
<1>4. QED
  BY <1>1, <1>2, <1>3 DEF Sound, NoFrame

(* The stacks of a set of bases are freed.                                 *)
LEMMA PendingFreed ==
  ASSUME NEW kp, NEW spc, NEW stk, NEW pnd, NEW set, pnd \subseteq Frames,
         Sound(Ownership(kp, spc, stk, pnd), set), NEW freed, freed \subseteq pnd
  PROVE  Sound(Ownership(kp, spc, stk, pnd \ freed), set \ (StackFrames(freed) \ {0}))
<1> DEFINE own == Ownership(kp, spc, stk, pnd)
           new == Ownership(kp, spc, stk, pnd \ freed)
           left == set \ StackFrames(freed)
<1>1. \A f : f \in StackFrames(freed) <=> \E b \in freed : f \in StackAt(b)
  BY DEF StackFrames
<1>2. \A o \in Owners :
        new[o] = IF \E b \in freed : o = <<"pending", b>> THEN {} ELSE own[o]
  BY OwnerFacts DEF Ownership
<1>3. \A b \in freed : own[<<"pending", b>>] = StackAt(b) /\ <<"pending", b>> \in Owners
  <2> SUFFICES ASSUME NEW b \in freed
               PROVE  own[<<"pending", b>>] = StackAt(b) /\ <<"pending", b>> \in Owners
    OBVIOUS
  <2>1. b \in Frames /\ b \in pnd /\ <<"pending", b>> \in Owners
    BY OwnerFacts
  <2>2. QED
    BY <2>1 DEF Ownership
<1> HIDE DEF own, new
<1>4. \A f : f \in left <=>
        f \in set /\ \A o \in Owners : f \in own[o] => f \in new[o]
  <2> SUFFICES ASSUME NEW f, f \in set
               PROVE  f \notin StackFrames(freed)
                        <=> \A o \in Owners : f \in own[o] => f \in new[o]
    OBVIOUS
  <2>1. ASSUME f \in StackFrames(freed)
        PROVE  \E o \in Owners : f \in own[o] /\ f \notin new[o]
    <3>1. PICK b \in freed : f \in StackAt(b)
      BY <1>1, <2>1
    <3>2. QED
      BY <1>2, <1>3, <3>1
  <2>2. ASSUME NEW o \in Owners, f \in own[o], f \notin new[o]
        PROVE  f \in StackFrames(freed)
    BY <1>1, <1>2, <1>3, <2>2
  <2>3. QED
    BY <2>1, <2>2
<1>5. \A o \in Owners : new[o] \subseteq own[o]
  BY <1>2
<1>6. Sound(own, set)
  BY DEF own
<1>7. Sound(new, left)
  BY <1>4, <1>5, <1>6, Given
<1>8. 0 \notin StackFrames(freed)
  <2> SUFFICES ASSUME 0 \in StackFrames(freed)
               PROVE  FALSE
    OBVIOUS
  <2>1. PICK b \in freed : 0 \in StackAt(b)
    BY <1>1
  <2>2. 0 \in own[<<"pending", b>>] /\ <<"pending", b>> \in Owners
    BY <1>3, <2>1
  <2>3. QED
    BY <1>6, <2>2 DEF Sound, NoFrame
<1>9. left = set \ (StackFrames(freed) \ {0})
  BY <1>8
<1>10. QED
  BY <1>7, <1>9 DEF new
-----------------------------------------------------------------------------
(* The idle task and init have slots of their own.                         *)
LEMMA SlotFacts == IdleTask \in Slots /\ InitTask \in Slots /\ IdleTask # InitTask
BY MemoryAssumption DEF Slots, IdleTask, InitTask

(* Frame 0, which nobody is given, stands for none.                        *)
LEMMA FrameFacts == NoFrame \in Frames /\ Frames \subseteq Int
BY MemoryAssumption DEF Frames, NoFrame

(* A kernel stack has frames, the first of which is its base.              *)
LEMMA StackFacts ==
  /\ StackAt(NoFrame) = {}
  /\ \A b \in Frames : b # NoFrame => b \in StackAt(b)
BY MemoryAssumption, FrameFacts DEF StackAt, Pages, Frames, NoFrame

(* What the step that gives the CPU to t leaves, if it leaves t's space    *)
(* and stack alone.                                                        *)
LEMMA AfterRun ==
  ASSUME NEW t \in Slots, NEW entries, Runs(t, entries),
         space \in [Slots -> SUBSET Frames], stack \in [Slots -> Frames],
         space'[t] = space[t], stack'[t] = stack[t],
         SlotsHoldTheirMemory',
         entries \subseteq Slots \X Frames,
         \A entry \in entries :
           slot'[entry[1]] = "User" /\ entry[2] \in space'[entry[1]]
  PROVE  /\ current' \in Slots /\ sp' \in Frames /\ ttbr' \in Slots
         /\ tlb' \subseteq Slots \X Frames
         /\ CpuFollowsTask'
         /\ TlbOfTheLiving'
<1>1. /\ current' = t /\ sp' = stack[t]
      /\ ttbr' = IF slot'[t] = "User" THEN t ELSE IdleTask
      /\ slot'[t] \in {"User", "Builtin"}
  BY SlotFacts DEF Runs, SlotsHoldTheirMemory
<1>2. CpuFollowsTask'
  BY <1>1 DEF CpuFollowsTask, Alive
<1>3. tlb' = entries \cup ({ttbr'} \X (IF ttbr' = IdleTask THEN {} ELSE space[ttbr']))
  BY DEF Runs, Loaded
<1>4. ttbr' # IdleTask => ttbr' = t /\ slot'[t] = "User"
  BY <1>1
<1>5. tlb' \subseteq Slots \X Frames
  BY <1>1, <1>3, SlotFacts
<1>6. TlbOfTheLiving'
  BY <1>3, <1>4 DEF TlbOfTheLiving
<1>7. QED
  BY <1>1, <1>2, <1>5, <1>6, SlotFacts

(* The state of the invariant, put together.                               *)
LEMMA Assembled ==
  ASSUME Shape', Sound(Own', used'), NoFrame \notin pending',
         BuildOwnsItsSlot', SlotsHoldTheirMemory', CpuFollowsTask', TlbOfTheLiving'
  PROVE  IInv'
BY SoundMeansNext DEF IInv

(* The tick frees the stacks that are queued, but the one in use.          *)
LEMMA TickPreserves ==
  ASSUME IInv, NEW t \in Slots, Tick(t)
  PROVE  IInv'
<1>1. /\ UNCHANGED <<kept, slot, space, stack, build>>
      /\ pending' = pending \ (pending \ InUse)
      /\ used' = used \ (StackFrames(pending \ InUse) \ {0})
      /\ Runs(t, tlb)
  BY DEF Tick, DeallocatesStacks, Deallocates
<1>2. Sound(Own', used')
  BY <1>1, SoundMeans, PendingFreed DEF IInv, Own, Shape
<1>3. BuildOwnsItsSlot' /\ SlotsHoldTheirMemory'
  BY <1>1 DEF IInv, BuildOwnsItsSlot, SlotsHoldTheirMemory
<1>4. /\ current' \in Slots /\ sp' \in Frames /\ ttbr' \in Slots
      /\ tlb' \subseteq Slots \X Frames
      /\ CpuFollowsTask' /\ TlbOfTheLiving'
  BY <1>1, <1>3, AfterRun DEF IInv, Shape, TlbOfTheLiving
<1>5. Shape' /\ NoFrame \notin pending'
  BY <1>1, <1>4 DEF IInv, Shape
<1>6. QED
  BY <1>2, <1>3, <1>4, <1>5, Assembled

(* A switch frees nothing and loads another task's space.                  *)
LEMMA SwitchPreserves ==
  ASSUME IInv, NEW t \in Slots, Switch(t)
  PROVE  IInv'
<1>1. /\ UNCHANGED <<used, kept, slot, space, stack, pending, build>>
      /\ Runs(t, tlb)
  BY DEF Switch, allocVars
<1>2. Sound(Own', used')
  BY <1>1, SoundMeans DEF IInv, Own
<1>3. BuildOwnsItsSlot' /\ SlotsHoldTheirMemory'
  BY <1>1 DEF IInv, BuildOwnsItsSlot, SlotsHoldTheirMemory
<1>4. /\ current' \in Slots /\ sp' \in Frames /\ ttbr' \in Slots
      /\ tlb' \subseteq Slots \X Frames
      /\ CpuFollowsTask' /\ TlbOfTheLiving'
  BY <1>1, <1>3, AfterRun DEF IInv, Shape, TlbOfTheLiving
<1>5. Shape' /\ NoFrame \notin pending'
  BY <1>1, <1>4 DEF IInv, Shape
<1>6. QED
  BY <1>2, <1>3, <1>4, <1>5, Assembled

-----------------------------------------------------------------------------
(* The task on the CPU goes: its space is freed, its stack queued.         *)
LEMMA RetireFacts ==
  ASSUME IInv, Retire
  PROVE  /\ Sound(Own', used')
         /\ BuildOwnsItsSlot' /\ SlotsHoldTheirMemory'
         /\ used' \subseteq Frames /\ pending' \subseteq Frames
         /\ NoFrame \notin pending'
         /\ slot' \in [Slots -> Kinds]
         /\ space' \in [Slots -> SUBSET Frames]
         /\ stack' \in [Slots -> Frames]
         /\ kept' = kept /\ build' = build
<1> DEFINE base == stack[current]
           own == Own
           freed == Ownership(kept, space', stack, pending)
<1>1. /\ current \in Slots /\ current # IdleTask /\ current # InitTask
      /\ slot[current] \in {"User", "Builtin"}
      /\ base \in Frames /\ base # NoFrame
  BY DEF Retire, Alive, IInv, Shape, SlotsHoldTheirMemory
<1>2. /\ used' = used \ (space[current] \ {0})
      /\ pending' = pending \cup {base}
      /\ slot' = [slot EXCEPT ![current] = "Free"]
      /\ space' = [space EXCEPT ![current] = {}]
      /\ stack' = [stack EXCEPT ![current] = NoFrame]
      /\ kept' = kept /\ build' = build
  BY DEF Retire, Deallocates
<1>3. Sound(own, used)
  BY SoundMeans DEF IInv
<1>4. /\ <<"space", current>> \in Owners
      /\ <<"stack", current>> \in Owners
      /\ <<"pending", base>> \in Owners
      /\ <<"stack", current>> # <<"pending", base>>
  BY <1>1, OwnerFacts
<1>5. /\ own[<<"space", current>>] = space[current]
      /\ own[<<"stack", current>>] = StackAt(base)
      /\ own[<<"pending", base>>] = IF base \in pending THEN StackAt(base) ELSE {}
  BY <1>4 DEF Own, Ownership
<1>6. \A p \in Owners :
        freed[p] = IF p = <<"space", current>> THEN {} ELSE own[p]
  <2>1. space'[current] = {} /\ \A u \in Slots \ {current} : space'[u] = space[u]
    <3>1. space \in [Slots -> SUBSET Frames] /\ current \in Slots
      BY <1>1 DEF IInv, Shape
    <3>2. QED
      BY <1>2, <3>1
  <2> SUFFICES ASSUME NEW p \in Owners
               PROVE  freed[p] = IF p = <<"space", current>> THEN {} ELSE own[p]
    OBVIOUS
  <2>2. freed[p] = IF p[1] = "kernel" THEN kept
                   ELSE IF p[1] = "space" THEN space'[p[2]]
                   ELSE IF p[1] = "stack" THEN StackAt(stack[p[2]])
                   ELSE IF p[2] \in pending THEN StackAt(p[2]) ELSE {}
    BY <1>2 DEF Ownership
  <2>3. own[p] = IF p[1] = "kernel" THEN kept
                 ELSE IF p[1] = "space" THEN space[p[2]]
                 ELSE IF p[1] = "stack" THEN StackAt(stack[p[2]])
                 ELSE IF p[2] \in pending THEN StackAt(p[2]) ELSE {}
    BY DEF Own, Ownership
  <2> HIDE DEF freed, own
  <2>4. QED
    BY <2>1, <2>2, <2>3, OwnerFacts
<1>7. \A p \in Owners :
        Own'[p] = IF p = <<"pending", base>> THEN StackAt(base)
                  ELSE IF p = <<"stack", current>> THEN {} ELSE freed[p]
  <2>1. \A p \in Owners :
          Own'[p] = IF p = <<"pending", base>> THEN StackAt(base)
                    ELSE Ownership(kept, space', stack', pending)[p]
    BY <1>1, <1>2, PendingChange DEF Own
  <2>2. \A p \in Owners :
          Ownership(kept, space', stack', pending)[p] =
            IF p = <<"stack", current>> THEN {} ELSE freed[p]
    <3>1. /\ StackAt(stack'[current]) = {}
          /\ \A u \in Slots \ {current} : stack'[u] = stack[u]
      BY <1>1, <1>2, StackFacts DEF IInv, Shape
    <3> SUFFICES ASSUME NEW p \in Owners
                 PROVE  Ownership(kept, space', stack', pending)[p] =
                          IF p = <<"stack", current>> THEN {} ELSE freed[p]
      OBVIOUS
    <3>2. Ownership(kept, space', stack', pending)[p] =
            IF p[1] = "kernel" THEN kept
            ELSE IF p[1] = "space" THEN space'[p[2]]
            ELSE IF p[1] = "stack" THEN StackAt(stack'[p[2]])
            ELSE IF p[2] \in pending THEN StackAt(p[2]) ELSE {}
      BY DEF Ownership
    <3>3. freed[p] = IF p[1] = "kernel" THEN kept
                     ELSE IF p[1] = "space" THEN space'[p[2]]
                     ELSE IF p[1] = "stack" THEN StackAt(stack[p[2]])
                     ELSE IF p[2] \in pending THEN StackAt(p[2]) ELSE {}
      BY <1>2 DEF Ownership
    <3> HIDE DEF freed
    <3>4. QED
      BY <3>1, <3>2, <3>3, OwnerFacts
  <2>3. QED
    BY <2>1, <2>2
<1> HIDE DEF own, freed
<1>8. base \notin pending
  BY <1>1, <1>3, <1>4, <1>5, StackFacts DEF Sound
<1>9. Sound(freed, used')
  <2>1. \A o \in Owners : freed[o] \subseteq own[o]
    BY <1>6
  <2>2. \A f : f \in used' <=>
          f \in used /\ \A o \in Owners : f \in own[o] => f \in freed[o]
    BY <1>2, <1>3, <1>4, <1>5, <1>6 DEF Sound, NoFrame
  <2>3. QED
    BY <1>3, <2>1, <2>2, Given
<1>10. Sound(Own', used')
  <2>1. freed[<<"pending", base>>] = {} /\ freed[<<"stack", current>>] = StackAt(base)
    BY <1>4, <1>5, <1>6, <1>8
  <2>2. \A p \in Owners : Own'[p] = IF p = <<"pending", base>>
                                      THEN freed[<<"stack", current>>]
                                    ELSE IF p = <<"stack", current>> THEN {}
                                    ELSE freed[p]
    BY <1>7, <2>1
  <2> DEFINE a == <<"stack", current>>
             b == <<"pending", base>>
  <2>3. /\ a \in Owners /\ b \in Owners /\ a # b /\ freed[b] = {}
        /\ \A p \in Owners : Own'[p] = IF p = b THEN freed[a]
                                       ELSE IF p = a THEN {} ELSE freed[p]
    BY <1>4, <2>1, <2>2
  <2> HIDE DEF a, b
  <2>4. QED
    BY <1>9, <2>3, Moved
<1>11. BuildOwnsItsSlot'
  BY <1>1, <1>2 DEF IInv, Shape, BuildOwnsItsSlot, Kinds
<1>12. SlotsHoldTheirMemory'
  BY <1>1, <1>2, SlotFacts DEF IInv, Shape, SlotsHoldTheirMemory, Kinds
<1>13. QED
  BY <1>1, <1>2, <1>10, <1>11, <1>12, FrameFacts DEF IInv, Shape, Kinds

(* Its ASID's translations go too.                                         *)
LEMMA FlushFacts ==
  ASSUME IInv, Retire
  PROVE  /\ Flush(current) \subseteq Slots \X Frames
         /\ \A entry \in Flush(current) :
              slot'[entry[1]] = "User" /\ entry[2] \in space'[entry[1]]
BY DEF Flush, Retire, IInv, Shape, TlbOfTheLiving

(* EXIT queues the stack, frees the address space and flushes its ASID.    *)
LEMMA ExitPreserves ==
  ASSUME IInv, NEW t \in Slots, Exit(t)
  PROVE  IInv'
<1>1. /\ current \in Slots /\ slot[current] = "User" /\ current # IdleTask
      /\ Retire /\ Runs(t, Flush(current))
  BY DEF Exit, IInv, Shape, Retire
<1>2. t # current
  BY <1>1 DEF Runs, Retire, IInv, Shape
<1>3. space'[t] = space[t] /\ stack'[t] = stack[t]
  BY <1>1, <1>2 DEF Retire, IInv, Shape
<1>4. /\ current' \in Slots /\ sp' \in Frames /\ ttbr' \in Slots
      /\ tlb' \subseteq Slots \X Frames
      /\ CpuFollowsTask' /\ TlbOfTheLiving'
  BY <1>1, <1>3, RetireFacts, FlushFacts, AfterRun DEF IInv, Shape
<1>5. Shape'
  BY <1>1, <1>4, RetireFacts DEF IInv, Shape
<1>6. QED
  BY <1>1, <1>4, <1>5, RetireFacts, Assembled

(* So does a fault, which stays on the dead task's stack until the next    *)
(* tick.                                                                   *)
LEMMA FaultPreserves ==
  ASSUME IInv, Fault
  PROVE  IInv'
<1>1. /\ Retire
      /\ tlb' = Flush(current) /\ ttbr' = IdleTask
      /\ UNCHANGED <<current, sp>>
  BY DEF Fault, LeavesSpace
<1>2. CpuFollowsTask'
  BY <1>1 DEF Retire, CpuFollowsTask, IInv, Shape, Alive
<1>3. TlbOfTheLiving'
  BY <1>1, FlushFacts DEF TlbOfTheLiving
<1>4. Shape'
  BY <1>1, RetireFacts, FlushFacts, SlotFacts DEF IInv, Shape
<1>5. QED
  BY <1>1, <1>2, <1>3, <1>4, RetireFacts, Assembled

-----------------------------------------------------------------------------
(* The slot that a spawn fills is not init's and not slot 0.               *)
LEMMA BuildFacts ==
  ASSUME IInv, build.step \in {"space", "install", "undo"}
  PROVE  /\ build.slot \in Slots
         /\ slot[build.slot] = "Reserved"
         /\ build.slot # InitTask /\ build.slot # IdleTask
BY SlotFacts DEF IInv, Shape, BuildOwnsItsSlot, SlotsHoldTheirMemory

(* The steps of a spawn that move no frames.                               *)
LEMMA SlotStepsPreserve ==
  ASSUME IInv,
         \/ \E s \in Slots : SpawnClaims(s)
         \/ SpawnFindsNoSlot
         \/ SpawnInstalls
         \/ SpawnFails
         \/ SpawnReleases
  PROVE  IInv'
<1> USE SlotFacts, FrameFacts DEF IInv, Shape, Kinds, BuildOwnsItsSlot,
      SlotsHoldTheirMemory, CpuFollowsTask, TlbOfTheLiving, Alive, At
<1>1. ASSUME NEW s \in Slots, SpawnClaims(s)
      PROVE  IInv'
  <2>1. Sound(Own', used')
    BY <1>1, SoundMeans DEF SpawnClaims, allocVars, Own
  <2>2. Shape' /\ NoFrame \notin pending'
    BY <1>1 DEF SpawnClaims, allocVars, cpuVars
  <2>3. BuildOwnsItsSlot' /\ SlotsHoldTheirMemory'
    BY <1>1 DEF SpawnClaims, FirstFree
  <2>4. CpuFollowsTask' /\ TlbOfTheLiving'
    BY <1>1 DEF SpawnClaims, FirstFree, cpuVars
  <2>5. QED
    BY <2>1, <2>2, <2>3, <2>4, Assembled
<1>2. CASE SpawnFindsNoSlot
  <2>1. Sound(Own', used')
    BY <1>2, SoundMeans DEF SpawnFindsNoSlot, allocVars, Own
  <2>2. Shape' /\ NoFrame \notin pending'
    BY <1>2 DEF SpawnFindsNoSlot, allocVars, cpuVars
  <2>3. BuildOwnsItsSlot' /\ SlotsHoldTheirMemory'
    BY <1>2 DEF SpawnFindsNoSlot
  <2>4. CpuFollowsTask' /\ TlbOfTheLiving'
    BY <1>2 DEF SpawnFindsNoSlot, cpuVars
  <2>5. QED
    BY <2>1, <2>2, <2>3, <2>4, Assembled
<1>3. CASE SpawnInstalls
  <2>1. Sound(Own', used')
    BY <1>3, SoundMeans DEF SpawnInstalls, allocVars, Own
  <2>2. Shape' /\ NoFrame \notin pending'
    BY <1>3, BuildFacts DEF SpawnInstalls, allocVars, cpuVars
  <2>3. BuildOwnsItsSlot' /\ SlotsHoldTheirMemory'
    BY <1>3, BuildFacts DEF SpawnInstalls
  <2>4. CpuFollowsTask' /\ TlbOfTheLiving'
    BY <1>3, BuildFacts DEF SpawnInstalls, cpuVars
  <2>5. QED
    BY <2>1, <2>2, <2>3, <2>4, Assembled
<1>4. CASE SpawnFails
  <2>1. Sound(Own', used')
    BY <1>4, SoundMeans DEF SpawnFails, allocVars, Own
  <2>2. Shape' /\ NoFrame \notin pending'
    BY <1>4, BuildFacts DEF SpawnFails, allocVars, Flush
  <2>3. BuildOwnsItsSlot' /\ SlotsHoldTheirMemory'
    BY <1>4, BuildFacts DEF SpawnFails
  <2>4. CpuFollowsTask' /\ TlbOfTheLiving'
    BY <1>4 DEF SpawnFails, Flush
  <2>5. QED
    BY <2>1, <2>2, <2>3, <2>4, Assembled
<1>5. CASE SpawnReleases
  <2>1. /\ UNCHANGED <<used, kept, space, stack, pending, cpuVars>>
        /\ slot' = [slot EXCEPT ![build.slot] = "Free"]
        /\ build' = [step |-> "idle", slot |-> IdleTask]
        /\ current = InitTask /\ build.step = "undo" /\ space[build.slot] = {}
    BY <1>5, BuildFacts DEF SpawnReleases, Undone, allocVars
  <2>2. Sound(Own', used')
    BY <2>1, SoundMeans DEF Own
  <2>3. Shape' /\ NoFrame \notin pending'
    BY <2>1, BuildFacts DEF cpuVars
  <2>4. BuildOwnsItsSlot' /\ SlotsHoldTheirMemory'
    BY <2>1, BuildFacts
  <2>5. CpuFollowsTask' /\ TlbOfTheLiving'
    BY <2>1, BuildFacts DEF cpuVars
  <2>6. QED
    BY <2>2, <2>3, <2>4, <2>5, Assembled
<1>6. QED
  BY <1>1, <1>2, <1>3, <1>4, <1>5

-----------------------------------------------------------------------------
(* The steps of a spawn that free queued stacks and nothing else.          *)
LEMMA ReapStepsPreserve ==
  ASSUME IInv, SpawnReaps \/ SpawnBuiltinFails
  PROVE  IInv'
<1>1. /\ current = InitTask /\ build.step = "idle"
      /\ used' = used \ (StackFrames(pending) \ {0})
      /\ pending' = {}
      /\ UNCHANGED <<kept, slot, space, stack, cpuVars>>
      /\ build' \in {build, [build EXCEPT !.step = "claim"]}
  BY DEF SpawnReaps, SpawnBuiltinFails, DeallocatesStacks, Deallocates, At
<1>2. Sound(Own', used')
  <2>1. pending' = pending \ pending
    BY <1>1
  <2>2. QED
    BY <1>1, <2>1, SoundMeans, PendingFreed DEF IInv, Own, Shape
<1>3. Shape' /\ NoFrame \notin pending'
  BY <1>1 DEF IInv, Shape, cpuVars
<1>4. BuildOwnsItsSlot' /\ SlotsHoldTheirMemory'
  BY <1>1 DEF IInv, Shape, BuildOwnsItsSlot, SlotsHoldTheirMemory
<1>5. CpuFollowsTask' /\ TlbOfTheLiving'
  BY <1>1 DEF IInv, CpuFollowsTask, TlbOfTheLiving, Alive, cpuVars, SlotsHoldTheirMemory
<1>6. QED
  BY <1>2, <1>3, <1>4, <1>5, Assembled

(* One more frame for the space of the slot being filled.                  *)
LEMMA SpawnMapsPreserves ==
  ASSUME IInv, NEW f \in Frames, SpawnMaps(f)
  PROVE  IInv'
<1> DEFINE s == build.slot
           o == <<"space", s>>
<1>1. /\ s \in Slots /\ slot[s] = "Reserved"
      /\ current = InitTask /\ build.step = "space"
      /\ f \in Frames /\ f \notin used
      /\ used' = used \cup {f}
      /\ space' = [space EXCEPT ![s] = @ \cup {f}]
      /\ UNCHANGED <<kept, slot, stack, pending, cpuVars, build>>
  BY BuildFacts DEF SpawnMaps, Allocates, At
<1>2. Sound(Own', used')
  <2>1. o \in Owners /\ Own[o] = space[s]
    BY <1>1, OwnerFacts DEF Own, Ownership
  <2>2. \A p \in Owners : Own'[p] = IF p = o THEN Own[o] \cup {f} ELSE Own[p]
    BY <1>1, <2>1, SpaceChanges DEF IInv
  <2>3. Sound(Own, used) /\ {f} \cap used = {}
    BY <1>1, SoundMeans DEF IInv
  <2> HIDE DEF o
  <2>4. Sound(Own', used \cup {f})
    BY <2>1, <2>2, <2>3, Taken
  <2>5. QED
    BY <1>1, <2>4
<1>3. Shape' /\ NoFrame \notin pending'
  BY <1>1 DEF IInv, Shape, cpuVars
<1>4. BuildOwnsItsSlot' /\ SlotsHoldTheirMemory'
  BY <1>1 DEF IInv, Shape, BuildOwnsItsSlot, SlotsHoldTheirMemory
<1>5. CpuFollowsTask' /\ TlbOfTheLiving'
  BY <1>1 DEF IInv, Shape, CpuFollowsTask, TlbOfTheLiving, Alive, cpuVars
<1>6. QED
  BY <1>2, <1>3, <1>4, <1>5, Assembled

(* A run found by the search is a stack's, and nobody has it.              *)
LEMMA RunFacts ==
  ASSUME NEW base \in Frames, NEW set, base > 0,
         Pages(base, StackPages) \subseteq Frames \ set
  PROVE  /\ base # NoFrame
         /\ StackAt(base) = Pages(base, StackPages)
         /\ StackAt(base) \cap set = {}
         /\ StackAt(base) \subseteq Frames
BY FrameFacts DEF StackAt, NoFrame

(* A spawn takes the frames of a kernel stack.                             *)
LEMMA SpawnTakesStackPreserves ==
  ASSUME IInv, NEW base \in Frames, SpawnTakesStack(base)
  PROVE  IInv'
<1> DEFINE s == build.slot
           o == <<"stack", s>>
<1>1. /\ s \in Slots /\ slot[s] = "Reserved" /\ stack[s] = NoFrame
      /\ s # IdleTask /\ s # InitTask
      /\ current = InitTask /\ build.step = "space"
      /\ base # NoFrame /\ StackAt(base) \cap used = {}
      /\ used' = used \cup StackAt(base) /\ used' \subseteq Frames
      /\ stack' = [stack EXCEPT ![s] = base]
      /\ build' = [build EXCEPT !.step = "install"]
      /\ UNCHANGED <<kept, slot, space, pending, cpuVars>>
  BY BuildFacts, RunFacts
  DEF SpawnTakesStack, AllocatesRun, Fits, At, IInv, Shape, BuildOwnsItsSlot
<1>2. space[s] # {}
  <2>1. Cardinality(space[s]) # 0
    BY MemoryAssumption DEF SpawnTakesStack
  <2>2. QED
    BY <2>1, FS_EmptySet
<1>3. Sound(Own', used')
  <2>1. o \in Owners /\ Own[o] = {}
    BY <1>1, OwnerFacts, StackFacts DEF Own, Ownership
  <2>2. \A p \in Owners : Own'[p] = IF p = o THEN Own[o] \cup StackAt(base) ELSE Own[p]
    <3>1. \A p \in Owners :
            Own'[p] = IF p = o THEN StackAt(base)
                      ELSE Ownership(kept, space, stack, pending')[p]
      BY <1>1, StackChanges DEF IInv
    <3>2. Ownership(kept, space, stack, pending') = Own
      BY <1>1 DEF Own
    <3>3. QED
      BY <2>1, <3>1, <3>2
  <2>3. Sound(Own, used) /\ StackAt(base) \cap used = {}
    BY <1>1, SoundMeans DEF IInv
  <2> HIDE DEF o
  <2>4. Sound(Own', used \cup StackAt(base))
    BY <2>1, <2>2, <2>3, Taken
  <2>5. QED
    BY <1>1, <2>4
<1>4. Shape' /\ NoFrame \notin pending'
  BY <1>1 DEF IInv, Shape, cpuVars
<1>5. BuildOwnsItsSlot' /\ SlotsHoldTheirMemory'
  BY <1>1, <1>2 DEF IInv, Shape, BuildOwnsItsSlot, SlotsHoldTheirMemory
<1>6. CpuFollowsTask' /\ TlbOfTheLiving'
  BY <1>1 DEF IInv, Shape, CpuFollowsTask, TlbOfTheLiving, Alive, cpuVars, SlotsHoldTheirMemory
<1>7. QED
  BY <1>3, <1>4, <1>5, <1>6, Assembled

(* One frame of a space being undone is freed.                             *)
LEMMA SpawnUndoesPreserves ==
  ASSUME IInv, NEW f \in Frames, SpawnUndoes(f)
  PROVE  IInv'
<1> DEFINE s == build.slot
           o == <<"space", s>>
<1>1. /\ s \in Slots /\ slot[s] = "Reserved"
      /\ current = InitTask /\ build.step = "undo"
      /\ f \in space[s]
      /\ used' = used \ ({f} \ {0})
      /\ space' = [space EXCEPT ![s] = @ \ {f}]
      /\ UNCHANGED <<kept, slot, stack, pending, cpuVars, build>>
  BY BuildFacts DEF SpawnUndoes, Deallocates, At
<1>2. Sound(Own', used')
  <2>1. o \in Owners /\ Own[o] = space[s]
    BY <1>1, OwnerFacts DEF Own, Ownership
  <2>2. \A p \in Owners : Own'[p] = IF p = o THEN Own[o] \ {f} ELSE Own[p]
    BY <1>1, <2>1, SpaceChanges DEF IInv
  <2>3. Sound(Own, used)
    BY SoundMeans DEF IInv
  <2> HIDE DEF o
  <2>4. \A p \in Owners : Own'[p] \subseteq Own[p]
    BY <2>2
  <2>5. \A g : g \in used' <=>
          g \in used /\ \A p \in Owners : g \in Own[p] => g \in Own'[p]
    BY <1>1, <2>1, <2>2, <2>3 DEF Sound, NoFrame
  <2>6. QED
    BY <2>3, <2>4, <2>5, Given
<1>3. Shape' /\ NoFrame \notin pending'
  BY <1>1 DEF IInv, Shape, cpuVars
<1>4. BuildOwnsItsSlot' /\ SlotsHoldTheirMemory'
  BY <1>1 DEF IInv, Shape, BuildOwnsItsSlot, SlotsHoldTheirMemory
<1>5. CpuFollowsTask' /\ TlbOfTheLiving'
  BY <1>1 DEF IInv, Shape, CpuFollowsTask, TlbOfTheLiving, Alive, cpuVars
<1>6. QED
  BY <1>2, <1>3, <1>4, <1>5, Assembled

(* A built-in starts: the queued stacks are freed, and one is taken.       *)
LEMMA SpawnBuiltinPreserves ==
  ASSUME IInv, NEW s \in Slots, NEW base \in Frames, SpawnBuiltin(s, base)
  PROVE  IInv'
<1> DEFINE o == <<"stack", s>>
           own == Ownership(kept, space, stack, {})
<1>1. /\ s # IdleTask /\ slot[s] = "Free" /\ stack[s] = NoFrame /\ space[s] = {}
      /\ current = InitTask /\ s # InitTask /\ build.step = "idle"
      /\ base # NoFrame /\ StackAt(base) \cap Reaped = {}
      /\ used' = Reaped \cup StackAt(base) /\ used' \subseteq Frames
      /\ pending' = {}
      /\ slot' = [slot EXCEPT ![s] = "Builtin"]
      /\ stack' = [stack EXCEPT ![s] = base]
      /\ UNCHANGED <<kept, space, cpuVars, build>>
  <2>1. /\ s # IdleTask /\ slot[s] = "Free"
        /\ current = InitTask /\ build.step = "idle"
        /\ base > 0 /\ Pages(base, StackPages) \subseteq Frames \ Reaped
        /\ used' = Reaped \cup Pages(base, StackPages)
        /\ pending' = {}
        /\ slot' = [slot EXCEPT ![s] = "Builtin"]
        /\ stack' = [stack EXCEPT ![s] = base]
        /\ UNCHANGED <<kept, space, cpuVars, build>>
    BY DEF SpawnBuiltin, LowestRun, FirstFree, At
  <2>2. stack[s] = NoFrame /\ space[s] = {} /\ s # InitTask
    BY <2>1 DEF IInv, SlotsHoldTheirMemory
  <2>3. /\ base # NoFrame /\ StackAt(base) = Pages(base, StackPages)
        /\ StackAt(base) \cap Reaped = {} /\ StackAt(base) \subseteq Frames
    BY <2>1, RunFacts
  <2>4. Reaped \subseteq Frames
    BY DEF Reaped, IInv, Shape
  <2>5. QED
    BY <2>1, <2>2, <2>3, <2>4
<1>2. Sound(own, Reaped)
  <2>1. Sound(Own, used)
    BY SoundMeans DEF IInv
  <2>2. {} = pending \ pending
    OBVIOUS
  <2>3. Sound(own, used \ (StackFrames(pending) \ {0}))
    BY <2>1, <2>2, PendingFreed DEF IInv, Own, Shape
  <2>4. 0 \notin StackFrames(pending)
    BY <2>1, PendingHasNoZero DEF IInv, Own, Shape
  <2>5. QED
    BY <2>3, <2>4 DEF Reaped
<1>3. Sound(Own', used')
  <2>1. o \in Owners /\ own[o] = {}
    BY <1>1, OwnerFacts, StackFacts DEF Ownership
  <2>2. \A p \in Owners : Own'[p] = IF p = o THEN own[o] \cup StackAt(base) ELSE own[p]
    <3>1. \A p \in Owners :
            Own'[p] = IF p = o THEN StackAt(base)
                      ELSE Ownership(kept, space, stack, pending')[p]
      BY <1>1, StackChanges DEF IInv
    <3>2. Ownership(kept, space, stack, pending') = own
      BY <1>1
    <3>3. QED
      BY <2>1, <3>1, <3>2
  <2>3. StackAt(base) \cap Reaped = {}
    BY <1>1
  <2> HIDE DEF o, own
  <2>4. Sound(Own', Reaped \cup StackAt(base))
    BY <1>2, <2>1, <2>2, <2>3, Taken
  <2>5. QED
    BY <1>1, <2>4
<1>4. Shape' /\ NoFrame \notin pending'
  BY <1>1 DEF IInv, Shape, cpuVars, Kinds
<1>5. BuildOwnsItsSlot' /\ SlotsHoldTheirMemory'
  BY <1>1 DEF IInv, Shape, BuildOwnsItsSlot, SlotsHoldTheirMemory
<1>6. CpuFollowsTask' /\ TlbOfTheLiving'
  BY <1>1 DEF IInv, Shape, CpuFollowsTask, TlbOfTheLiving, Alive, cpuVars, SlotsHoldTheirMemory
<1>7. QED
  BY <1>3, <1>4, <1>5, <1>6, Assembled

(* The kernel takes a run of frames and keeps it.                          *)
LEMMA TakesBufferPreserves ==
  ASSUME IInv, NEW base \in Frames, TakesBuffer(base)
  PROVE  IInv'
<1> DEFINE o == <<"kernel", 0>>
           run == Pages(base, BufferPages)
<1>1. /\ run \cap used = {} /\ run \subseteq Frames
      /\ used' = used \cup run
      /\ kept' = kept \cup run
      /\ UNCHANGED <<slot, space, stack, pending, cpuVars, build>>
  BY DEF TakesBuffer, AllocatesRun, Fits
<1> HIDE DEF run
<1>2. Sound(Own', used')
  <2>1. o \in Owners /\ Own[o] = kept
    BY OwnerFacts DEF Own, Ownership
  <2>2. \A p \in Owners : Own'[p] = IF p = o THEN Own[o] \cup run ELSE Own[p]
    BY <1>1, <2>1, OwnerFacts DEF Own, Ownership
  <2>3. Sound(Own, used)
    BY SoundMeans DEF IInv
  <2> HIDE DEF o
  <2>4. run \cap used = {}
    BY <1>1
  <2>5. Sound(Own', used \cup run)
    BY <2>1, <2>2, <2>3, <2>4, Taken
  <2>6. QED
    BY <1>1, <2>5
<1>3. Shape' /\ NoFrame \notin pending'
  BY <1>1 DEF IInv, Shape, cpuVars
<1>4. /\ BuildOwnsItsSlot' /\ SlotsHoldTheirMemory'
      /\ CpuFollowsTask' /\ TlbOfTheLiving'
  BY <1>1 DEF IInv, BuildOwnsItsSlot, SlotsHoldTheirMemory, CpuFollowsTask,
              TlbOfTheLiving, Alive, cpuVars
<1>5. QED
  BY <1>2, <1>3, <1>4, Assembled

-----------------------------------------------------------------------------
(* At boot the kernel has the first frames, then come init's.              *)
LEMMA InitEstablishes == Init => IInv
<1> SUFFICES ASSUME Init
             PROVE  IInv
  OBVIOUS
<1> DEFINE top == BootFrames + 2 + StackPages
<1>1. /\ NFrames \in Nat /\ BootFrames \in Nat
      /\ StackPages \in Nat /\ StackPages > 0 /\ top < NFrames
  BY MemoryAssumption
<1>2. /\ used = 0 .. top /\ kept = 1 .. BootFrames /\ pending = {}
      /\ slot = [s \in Slots |-> IF s = InitTask THEN "User" ELSE
                                  IF s = IdleTask THEN "Builtin" ELSE "Free"]
      /\ space = [s \in Slots |-> IF s = InitTask THEN BootFrames + 1 .. BootFrames + 2
                                                    ELSE {}]
      /\ stack = [s \in Slots |-> IF s = InitTask THEN BootFrames + 3 ELSE NoFrame]
      /\ current = IdleTask /\ sp = NoFrame /\ ttbr = IdleTask /\ tlb = {}
      /\ build = [step |-> "idle", slot |-> IdleTask]
  BY <1>1 DEF Init, Pages, InitSpace, InitStack
<1>3. StackAt(BootFrames + 3) = BootFrames + 3 .. top
  BY <1>1 DEF StackAt, Pages, NoFrame
<1>4. Shape
  BY <1>1, <1>2, SlotFacts DEF Shape, Frames, Kinds, NoFrame
<1>5. Sound(Own, used)
  <2>1. \A p \in Owners :
          Own[p] = IF p = <<"kernel", 0>> THEN 1 .. BootFrames
                   ELSE IF p = <<"space", InitTask>> THEN BootFrames + 1 .. BootFrames + 2
                   ELSE IF p = <<"stack", InitTask>> THEN BootFrames + 3 .. top
                   ELSE {}
    <3> SUFFICES ASSUME NEW p \in Owners
                 PROVE  Own[p] =
                   IF p = <<"kernel", 0>> THEN 1 .. BootFrames
                   ELSE IF p = <<"space", InitTask>> THEN BootFrames + 1 .. BootFrames + 2
                   ELSE IF p = <<"stack", InitTask>> THEN BootFrames + 3 .. top
                   ELSE {}
      OBVIOUS
    <3>1. Own[p] = IF p[1] = "kernel" THEN kept
                   ELSE IF p[1] = "space" THEN space[p[2]]
                   ELSE IF p[1] = "stack" THEN StackAt(stack[p[2]])
                   ELSE {}
      BY <1>2 DEF Own, Ownership
    <3> HIDE DEF top
    <3>2. QED
      BY <1>2, <1>3, <3>1, StackFacts, OwnerFacts
  <2>2. /\ <<"kernel", 0>> \in Owners /\ <<"space", InitTask>> \in Owners
        /\ <<"stack", InitTask>> \in Owners
    BY OwnerFacts, SlotFacts
  <2>3. \A o \in Owners : \A p \in Owners \ {o} : Own[o] \cap Own[p] = {}
    BY <1>1, <2>1
  <2>4. \A o \in Owners : NoFrame \notin Own[o]
    BY <1>1, <2>1 DEF NoFrame
  <2>5. \A f : f \in used <=> f = NoFrame \/ \E o \in Owners : f \in Own[o]
    <3>1. \A f : f \in used => \/ f = NoFrame \/ f \in 1 .. BootFrames
                              \/ f \in BootFrames + 1 .. BootFrames + 2
                              \/ f \in BootFrames + 3 .. top
      BY <1>1, <1>2 DEF NoFrame
    <3>2. \A f \in used : f = NoFrame \/ \E o \in Owners : f \in Own[o]
      BY <2>1, <2>2, <3>1
    <3>3. NoFrame \in used
      BY <1>1, <1>2 DEF NoFrame
    <3>4. \A o \in Owners : Own[o] \subseteq used
      BY <1>1, <1>2, <2>1
    <3>5. QED
      BY <3>2, <3>3, <3>4
  <2>6. QED
    BY <2>3, <2>4, <2>5 DEF Sound
<1>6. BuildOwnsItsSlot /\ SlotsHoldTheirMemory
  BY <1>1, <1>2, SlotFacts DEF BuildOwnsItsSlot, SlotsHoldTheirMemory, NoFrame
<1>7. CpuFollowsTask /\ TlbOfTheLiving
  BY <1>2, SlotFacts DEF CpuFollowsTask, Alive, TlbOfTheLiving
<1>8. QED
  BY <1>2, <1>4, <1>5, <1>6, <1>7, SoundMeans DEF IInv

(* No step breaks the invariant.                                           *)
LEMMA NextPreserves == IInv /\ [Next]_vars => IInv'
<1> SUFFICES ASSUME IInv, [Next]_vars
             PROVE  IInv'
  OBVIOUS
<1>1. CASE \E t \in Slots : Tick(t)
  BY <1>1, TickPreserves
<1>2. CASE \E t \in Slots : Switch(t)
  BY <1>2, SwitchPreserves
<1>3. CASE \E t \in Slots : Exit(t)
  BY <1>3, ExitPreserves
<1>4. CASE Fault
  BY <1>4, FaultPreserves
<1>5. CASE SpawnReaps \/ SpawnBuiltinFails
  BY <1>5, ReapStepsPreserve
<1>6. CASE \/ \E s \in Slots : SpawnClaims(s)
           \/ SpawnFindsNoSlot \/ SpawnInstalls \/ SpawnFails \/ SpawnReleases
  BY <1>6, SlotStepsPreserve
<1>7. CASE \E f \in Frames : SpawnMaps(f)
  BY <1>7, SpawnMapsPreserves
<1>8. CASE \E base \in Frames : SpawnTakesStack(base)
  BY <1>8, SpawnTakesStackPreserves
<1>9. CASE \E f \in Frames : SpawnUndoes(f)
  BY <1>9, SpawnUndoesPreserves
<1>10. CASE \E s \in Slots, base \in Frames : SpawnBuiltin(s, base)
  BY <1>10, SpawnBuiltinPreserves
<1>11. CASE \E base \in Frames : TakesBuffer(base)
  BY <1>11, TakesBufferPreserves
<1>12. CASE UNCHANGED vars
  <2>1. Sound(Own', used')
    BY <1>12, SoundMeans DEF vars, allocVars, IInv, Own
  <2>2. Shape' /\ NoFrame \notin pending'
    BY <1>12 DEF vars, allocVars, cpuVars, IInv, Shape
  <2>3. BuildOwnsItsSlot' /\ SlotsHoldTheirMemory'
    BY <1>12 DEF vars, IInv, BuildOwnsItsSlot, SlotsHoldTheirMemory
  <2>4. CpuFollowsTask' /\ TlbOfTheLiving'
    BY <1>12 DEF vars, cpuVars, IInv, CpuFollowsTask, TlbOfTheLiving, Alive
  <2>5. QED
    BY <2>1, <2>2, <2>3, <2>4, Assembled
<1>13. QED
  BY <1>1, <1>2, <1>3, <1>4, <1>5, <1>6, <1>7, <1>8, <1>9, <1>10, <1>11, <1>12 DEF Next

(* The strengthening holds in every reachable state, whatever comes        *)
(* between the steps of a spawn (context.rs, addrspace.rs).                *)
THEOREM Invariance == Spec => []IInv
BY InitEstablishes, NextPreserves, PTL DEF Spec

(* frame_alloc.rs:11-15: no frame is ever in two spaces or stacks.         *)
THEOREM OwnersAreApart == Spec => []OneOwner
<1>1. IInv => OneOwner
  BY DEF IInv
<1>2. QED
  BY <1>1, Invariance, PTL

(* The bitmap marks exactly the frames that somebody owns: a failed spawn  *)
(* (context.rs, spawn_el0) leaks nothing, and nothing in use is freed.     *)
THEOREM AllFramesAccounted == Spec => []FramesAccounted
<1>1. IInv => FramesAccounted
  BY DEF IInv
<1>2. QED
  BY <1>1, Invariance, PTL

(* context.rs:669-673: no translation outlives the space it is of, though  *)
(* its ASID, which is the slot, is given to the next task.                 *)
THEOREM TranslationsAreFresh == Spec => []NoStaleTranslation
<1>1. IInv => NoStaleTranslation
  BY DEF IInv, TlbOfTheLiving, NoStaleTranslation
<1>2. QED
  BY <1>1, Invariance, PTL

(* Neither the tables in TTBR0 nor the stack under the CPU is ever free    *)
(* (retire_current's order, and the reap that leaves the stack in use).    *)
THEOREM CpuIsOnLiveMemory == Spec => []CpuOnLiveMemory
<1>1. IInv => CpuOnLiveMemory
  BY DEF IInv, CpuFollowsTask, SlotsHoldTheirMemory, CpuOnLiveMemory, Shape
<1>2. QED
  BY <1>1, Invariance, PTL

(* The stack under the CPU is still its task's, or queued, after the step. *)
LEMMA StackStays ==
  ASSUME IInv, [Next]_vars, sp # NoFrame
  PROVE  stack'[current] = sp \/ sp \in pending'
<1>1. /\ current \in Slots /\ stack \in [Slots -> Frames]
      /\ slot[InitTask] = "User" /\ slot[IdleTask] = "Builtin"
      /\ IF Alive THEN sp = stack[current] ELSE sp \in pending
  BY DEF IInv, Shape, SlotsHoldTheirMemory, CpuFollowsTask
<1>2. current = InitTask => sp = stack[current]
  BY <1>1 DEF Alive
<1>3. CASE \E t \in Slots : Tick(t)
  BY <1>1, <1>3 DEF Tick, InUse
<1>4. CASE (\E t \in Slots : Exit(t)) \/ Fault
  <2>1. pending' = pending \cup {stack[current]} /\ Alive
    BY <1>4 DEF Exit, Fault, Retire
  <2>2. QED
    BY <1>1, <2>1
<1>5. CASE SpawnReaps \/ SpawnBuiltinFails
  BY <1>2, <1>5 DEF SpawnReaps, SpawnBuiltinFails, At
<1>6. CASE \E base \in Frames : SpawnTakesStack(base)
  <2>1. build.slot # InitTask /\ current = InitTask
    BY <1>6, BuildFacts DEF SpawnTakesStack, At
  <2>2. stack'[current] = stack[current]
    BY <1>1, <1>6, <2>1 DEF SpawnTakesStack
  <2>3. QED
    BY <1>2, <2>1, <2>2
<1>7. CASE \E s \in Slots, base \in Frames : SpawnBuiltin(s, base)
  <2>1. current = InitTask /\ stack'[current] = stack[current]
    BY <1>1, <1>7 DEF SpawnBuiltin, FirstFree, At
  <2>2. QED
    BY <1>2, <2>1
<1>8. CASE /\ UNCHANGED <<stack, pending>>
  BY <1>1, <1>8
<1>9. \/ \E t \in Slots : Tick(t) \/ Exit(t)
      \/ Fault \/ SpawnReaps \/ SpawnBuiltinFails
      \/ \E base \in Frames : SpawnTakesStack(base)
      \/ \E s \in Slots, base \in Frames : SpawnBuiltin(s, base)
      \/ UNCHANGED <<stack, pending>>
  BY DEF Next, vars, Switch, SpawnClaims, SpawnFindsNoSlot, SpawnMaps, SpawnInstalls,
         SpawnFails, SpawnUndoes, SpawnReleases, TakesBuffer
<1>10. QED
  BY <1>3, <1>4, <1>5, <1>6, <1>7, <1>8, <1>9

(* context.rs, reap_pending_frees: no step frees the stack it started on.  *)
THEOREM HandlersKeepTheirStacks == Spec => HandlersKeepTheirStack
<1>1. IInv /\ [Next]_vars => [KeepsItsStack]_vars
  <2> SUFFICES ASSUME IInv, [Next]_vars
               PROVE  StackAt(sp) \subseteq used'
    BY DEF KeepsItsStack
  <2>1. CASE sp = NoFrame
    BY <2>1, StackFacts
  <2>2. CASE sp # NoFrame
    <3>1. IInv'
      BY NextPreserves
    <3>2. Sound(Own', used')
      BY <3>1, SoundMeansNext DEF IInv
    <3>3. /\ current \in Slots /\ sp \in Frames
          /\ stack'[current] = sp \/ sp \in pending'
      BY <2>2, StackStays DEF IInv, Shape
    <3>4. \E o \in Owners : Own'[o] = StackAt(sp)
      <4>1. CASE stack'[current] = sp
        <5>1. <<"stack", current>> \in Owners
          BY <3>3, OwnerFacts
        <5>2. Own'[<<"stack", current>>] = StackAt(sp)
          BY <4>1, <5>1 DEF Own, Ownership
        <5>3. QED
          BY <5>1, <5>2
      <4>2. CASE sp \in pending'
        <5>1. <<"pending", sp>> \in Owners
          BY <3>3, OwnerFacts
        <5>2. Own'[<<"pending", sp>>] = StackAt(sp)
          BY <4>2, <5>1 DEF Own, Ownership
        <5>3. QED
          BY <5>1, <5>2
      <4>3. QED
        BY <3>3, <4>1, <4>2
    <3>5. QED
      BY <3>2, <3>4 DEF Sound
  <2>3. QED
    BY <2>1, <2>2
<1>2. QED
  BY <1>1, Invariance, PTL DEF Spec, HandlersKeepTheirStack

-----------------------------------------------------------------------------
(* The counter of free frames and the hint of the search.                  *)

(* A set of frames has a number of members, and so has a run of pages.     *)
LEMMA FrameCounts ==
  /\ \A set \in SUBSET Frames : IsFiniteSet(set) /\ Cardinality(set) \in Nat
  /\ \A base \in Frames, n \in Nat :
       IsFiniteSet(Pages(base, n)) /\ Cardinality(Pages(base, n)) = n
  /\ Cardinality(Frames) = NFrames
<1>1. IsFiniteSet(Frames) /\ Cardinality(Frames) = NFrames
  <2>1. NFrames \in Nat /\ 0 \in Int /\ NFrames - 1 \in Int
    BY MemoryAssumption
  <2>2. /\ IsFiniteSet(0 .. NFrames - 1)
        /\ Cardinality(0 .. NFrames - 1) =
             IF 0 > NFrames - 1 THEN 0 ELSE NFrames - 1 - 0 + 1
    BY <2>1, FS_Interval
  <2>3. QED
    BY <2>1, <2>2 DEF Frames
<1>2. ASSUME NEW set \in SUBSET Frames
      PROVE  IsFiniteSet(set) /\ Cardinality(set) \in Nat
  BY <1>1, FS_Subset, FS_CardinalityType
<1>3. ASSUME NEW base \in Frames, NEW n \in Nat
      PROVE  IsFiniteSet(Pages(base, n)) /\ Cardinality(Pages(base, n)) = n
  <2>1. base \in Int /\ base + n - 1 \in Int
    BY FrameFacts
  <2>2. /\ IsFiniteSet(base .. base + n - 1)
        /\ Cardinality(base .. base + n - 1) =
             IF base > base + n - 1 THEN 0 ELSE base + n - 1 - base + 1
    BY <2>1, FS_Interval
  <2>3. QED
    BY <2>1, <2>2 DEF Pages
<1>4. QED
  BY <1>1, <1>2, <1>3

(* What a free or an allocation does to the number of frames in use.       *)
LEMMA CountChanges ==
  ASSUME NEW set \in SUBSET Frames, NEW part \in SUBSET Frames
  PROVE  /\ part \subseteq set =>
              Cardinality(set \ part) = Cardinality(set) - Cardinality(part)
         /\ part \cap set = {} =>
              Cardinality(set \cup part) = Cardinality(set) + Cardinality(part)
<1>1. /\ IsFiniteSet(set) /\ Cardinality(set) \in Nat
      /\ IsFiniteSet(part) /\ Cardinality(part) \in Nat
  BY FrameCounts
<1>2. ASSUME part \subseteq set
      PROVE  Cardinality(set \ part) = Cardinality(set) - Cardinality(part)
  <2>1. set \cap part = part
    BY <1>2
  <2>2. QED
    BY <1>1, <2>1, FS_Difference
<1>3. ASSUME part \cap set = {}
      PROVE  Cardinality(set \cup part) = Cardinality(set) + Cardinality(part)
  <2>1. Cardinality(set \cap part) = 0
    BY <1>3, FS_EmptySet
  <2>2. Cardinality(set \cup part) =
          Cardinality(set) + Cardinality(part) - Cardinality(set \cap part)
    BY <1>1, FS_Union
  <2>3. QED
    BY <1>1, <2>1, <2>2
<1>4. QED
  BY <1>2, <1>3

(* Stacks that share no frame have StackPages frames each: the frame that  *)
(* is the i-th of its stack is the i-th of no other.                       *)
LEMMA StacksCount ==
  ASSUME NEW bases \in SUBSET Frames, NoFrame \notin bases,
         \A b, c \in bases : b # c => StackAt(b) \cap StackAt(c) = {}
  PROVE  /\ IsFiniteSet(StackFrames(bases))
         /\ Cardinality(StackFrames(bases)) = StackPages * Cardinality(bases)
<1> DEFINE Depths == 0 .. StackPages - 1
           Frame == [pair \in bases \X Depths |-> pair[1] + pair[2]]
<1>1. StackPages \in Nat /\ StackPages > 0 /\ bases \subseteq Int
  BY MemoryAssumption, FrameFacts
<1>2. IsFiniteSet(Depths) /\ Cardinality(Depths) = StackPages
  <2>1. /\ IsFiniteSet(0 .. StackPages - 1)
        /\ Cardinality(0 .. StackPages - 1) =
             IF 0 > StackPages - 1 THEN 0 ELSE StackPages - 1 - 0 + 1
    BY <1>1, FS_Interval
  <2>2. QED
    BY <1>1, <2>1
<1>3. IsFiniteSet(bases) /\ Cardinality(bases) \in Nat
  BY FrameCounts
<1>4. ASSUME NEW b \in bases
      PROVE  StackAt(b) = {b + i : i \in Depths}
  <2>1. StackAt(b) = b .. b + StackPages - 1
    BY DEF StackAt, Pages
  <2>2. \A f \in b .. b + StackPages - 1 : f - b \in Depths /\ f = b + (f - b)
    BY <1>1
  <2>3. \A i \in Depths : b + i \in b .. b + StackPages - 1
    BY <1>1
  <2>4. QED
    BY <2>1, <2>2, <2>3
<1>5. Frame \in [bases \X Depths -> StackFrames(bases)]
  <2>1. ASSUME NEW pair \in bases \X Depths
        PROVE  pair[1] + pair[2] \in StackFrames(bases)
    <3>1. pair[1] \in bases /\ pair[2] \in Depths
      OBVIOUS
    <3>2. pair[1] + pair[2] \in StackAt(pair[1])
      BY <1>4, <3>1
    <3>3. QED
      BY <3>1, <3>2 DEF StackFrames
  <2>2. QED
    BY <2>1
<1>6. ASSUME NEW p \in bases \X Depths, NEW q \in bases \X Depths,
             Frame[p] = Frame[q]
      PROVE  p = q
  <2>1. /\ p[1] \in bases /\ p[2] \in Depths /\ p = <<p[1], p[2]>>
        /\ q[1] \in bases /\ q[2] \in Depths /\ q = <<q[1], q[2]>>
        /\ p[1] + p[2] = q[1] + q[2]
    BY <1>6
  <2>2. p[1] + p[2] \in StackAt(p[1]) /\ p[1] + p[2] \in StackAt(q[1])
    BY <1>4, <2>1
  <2>3. p[1] = q[1]
    BY <2>1, <2>2
  <2>4. p[2] = q[2]
    <3>1. bases \subseteq Int /\ Depths \subseteq Int
      BY <1>1
    <3> HIDE DEF Depths
    <3>2. p[1] \in Int /\ p[2] \in Int /\ q[2] \in Int
      BY <2>1, <3>1
    <3>3. QED
      BY <2>1, <2>3, <3>2
  <2>5. QED
    BY <2>1, <2>3, <2>4
<1>7. ASSUME NEW f \in StackFrames(bases)
      PROVE  \E p \in bases \X Depths : Frame[p] = f
  <2>1. PICK b \in bases : f \in StackAt(b)
    BY DEF StackFrames
  <2>2. PICK i \in Depths : f = b + i
    BY <1>4, <2>1
  <2>3. <<b, i>> \in bases \X Depths /\ Frame[<<b, i>>] = f
    BY <2>2
  <2>4. QED
    BY <2>3
<1>8. Frame \in Bijection(bases \X Depths, StackFrames(bases))
  <2> HIDE DEF Frame, Depths
  <2>1. Frame \in Injection(bases \X Depths, StackFrames(bases))
    BY <1>5, <1>6 DEF Injection, IsInjective
  <2>2. Frame \in Surjection(bases \X Depths, StackFrames(bases))
    BY <1>5, <1>7 DEF Surjection
  <2>3. QED
    BY <2>1, <2>2 DEF Bijection
<1> HIDE DEF Frame, Depths
<1>9. ExistsBijection(bases \X Depths, StackFrames(bases))
  BY <1>8 DEF ExistsBijection
<1>10. /\ IsFiniteSet(bases \X Depths)
       /\ Cardinality(bases \X Depths) = Cardinality(bases) * StackPages
  BY <1>2, <1>3, FS_Product
<1>11. /\ IsFiniteSet(StackFrames(bases))
       /\ Cardinality(StackFrames(bases)) = Cardinality(bases) * StackPages
  BY <1>9, <1>10, FS_Bijection
<1>12. QED
  BY <1>1, <1>3, <1>11

(* The queued stacks share no frame and are in use, which no reap changes  *)
(* before it frees them.                                                   *)
LEMMA QueuedStacksCount ==
  ASSUME IInv, NEW bases \in SUBSET pending
  PROVE  /\ StackFrames(bases) \subseteq used
         /\ 0 \notin StackFrames(bases)
         /\ bases \subseteq Frames
         /\ Cardinality(StackFrames(bases)) = StackPages * Cardinality(bases)
<1>1. Sound(Own, used) /\ pending \subseteq Frames /\ NoFrame \notin pending
  BY SoundMeans DEF IInv, Shape
<1>2. \A b \in bases : <<"pending", b>> \in Owners
                       /\ Own[<<"pending", b>>] = StackAt(b)
  <2> SUFFICES ASSUME NEW b \in bases
               PROVE  <<"pending", b>> \in Owners
                      /\ Own[<<"pending", b>>] = StackAt(b)
    OBVIOUS
  <2>1. b \in pending /\ <<"pending", b>> \in Owners
    BY <1>1, OwnerFacts
  <2>2. QED
    BY <2>1 DEF Own, Ownership
<1>3. \A b, c \in bases : b # c => StackAt(b) \cap StackAt(c) = {}
  <2> SUFFICES ASSUME NEW b \in bases, NEW c \in bases, b # c
               PROVE  StackAt(b) \cap StackAt(c) = {}
    OBVIOUS
  <2>1. <<"pending", b>> # <<"pending", c>>
    OBVIOUS
  <2>2. QED
    BY <1>1, <1>2, <2>1 DEF Sound
<1>4. ASSUME NEW b \in bases
      PROVE  StackAt(b) \subseteq used /\ 0 \notin StackAt(b)
  <2>1. <<"pending", b>> \in Owners /\ Own[<<"pending", b>>] = StackAt(b)
    BY <1>2
  <2>2. Own[<<"pending", b>>] \subseteq used /\ 0 \notin Own[<<"pending", b>>]
    BY <1>1, <2>1 DEF Sound, NoFrame
  <2>3. QED
    BY <2>1, <2>2
<1>5. StackFrames(bases) \subseteq used /\ 0 \notin StackFrames(bases)
  BY <1>4 DEF StackFrames
<1>6. QED
  BY <1>1, <1>3, <1>5, StacksCount

(* deallocate of frames that are in use keeps the count.                   *)
LEMMA DeallocateCounts ==
  ASSUME IInv, CountExact, NEW set \in SUBSET used, 0 \notin set,
         Deallocates(set, Cardinality(set))
  PROVE  CountExact'
<1>1. used \in SUBSET Frames /\ set \in SUBSET Frames
  BY DEF IInv, Shape
<1>2. used' = used \ set /\ freeCount' = freeCount + Cardinality(set)
  BY DEF Deallocates
<1>3. Cardinality(used \ set) = Cardinality(used) - Cardinality(set)
  BY <1>1, CountChanges
<1>4. Cardinality(used) \in Nat /\ Cardinality(set) \in Nat /\ NFrames \in Nat
  BY <1>1, FrameCounts, MemoryAssumption
<1>5. QED
  BY <1>2, <1>3, <1>4 DEF CountExact

(* An allocation of n frames that were free keeps it.                      *)
LEMMA AllocateCounts ==
  ASSUME IInv, CountExact, NEW frames \in SUBSET Frames, frames \cap used = {},
         used' = used \cup frames, freeCount' = freeCount - Cardinality(frames)
  PROVE  CountExact'
<1>1. used \in SUBSET Frames
  BY DEF IInv, Shape
<1>2. Cardinality(used \cup frames) = Cardinality(used) + Cardinality(frames)
  BY <1>1, CountChanges
<1>3. Cardinality(used) \in Nat /\ Cardinality(frames) \in Nat /\ NFrames \in Nat
  BY <1>1, FrameCounts, MemoryAssumption
<1>4. QED
  BY <1>2, <1>3 DEF CountExact

(* What the steps do to the allocator: they free stacks of the queue, free *)
(* frames of a space, take a frame or a run, do both for a built-in, or    *)
(* leave it alone.                                                         *)
LEMMA AllocatorSteps ==
  ASSUME IInv, [Next]_vars
  PROVE  \/ UNCHANGED allocVars
         \/ \E bases \in SUBSET pending : DeallocatesStacks(bases)
         \/ \E set \in SUBSET used :
              0 \notin set /\ Deallocates(set, Cardinality(set))
         \/ \E f \in Frames : Allocates(f)
         \/ \E base \in Frames : AllocatesRun(base, StackPages)
         \/ \E base \in Frames : AllocatesRun(base, BufferPages)
         \/ \E s \in Slots, base \in Frames : SpawnBuiltin(s, base)
<1>1. \A s \in Slots : space[s] \subseteq used /\ 0 \notin space[s]
  <2> SUFFICES ASSUME NEW s \in Slots
               PROVE  space[s] \subseteq used /\ 0 \notin space[s]
    OBVIOUS
  <2>1. <<"space", s>> \in Owners /\ Own[<<"space", s>>] = space[s]
    BY OwnerFacts DEF Own, Ownership
  <2>2. Sound(Own, used)
    BY SoundMeans DEF IInv
  <2>3. QED
    BY <2>1, <2>2 DEF Sound, NoFrame
<1>2. current \in Slots /\ build.slot \in Slots
  BY DEF IInv, Shape
<1>3. CASE \E t \in Slots : Tick(t)
  BY <1>3 DEF Tick
<1>4. CASE SpawnReaps \/ SpawnBuiltinFails
  BY <1>4 DEF SpawnReaps, SpawnBuiltinFails
<1>5. CASE (\E t \in Slots : Exit(t)) \/ Fault
  <2>1. Deallocates(space[current], Cardinality(space[current]))
    BY <1>5 DEF Exit, Fault, Retire
  <2>2. space[current] \in SUBSET used /\ 0 \notin space[current]
    BY <1>1, <1>2
  <2>3. QED
    BY <2>1, <2>2
<1>6. ASSUME NEW f \in Frames, SpawnUndoes(f)
      PROVE  \E set \in SUBSET used :
               0 \notin set /\ Deallocates(set, Cardinality(set))
  <2>1. {f} \in SUBSET used /\ 0 \notin {f}
    BY <1>1, <1>2, <1>6 DEF SpawnUndoes
  <2>2. Deallocates({f}, Cardinality({f}))
    BY <1>6, FS_Singleton DEF SpawnUndoes
  <2>3. QED
    BY <2>1, <2>2
<1>7. CASE \E f \in Frames : SpawnMaps(f)
  BY <1>7 DEF SpawnMaps
<1>8. CASE \E base \in Frames : SpawnTakesStack(base)
  BY <1>8 DEF SpawnTakesStack
<1>9. CASE \E base \in Frames : TakesBuffer(base)
  BY <1>9 DEF TakesBuffer
<1>10. CASE \/ \E t \in Slots : Switch(t)
            \/ \E s \in Slots : SpawnClaims(s)
            \/ SpawnFindsNoSlot \/ SpawnInstalls \/ SpawnFails \/ SpawnReleases
            \/ UNCHANGED vars
  BY <1>10 DEF Switch, SpawnClaims, SpawnFindsNoSlot, SpawnInstalls, SpawnFails,
               SpawnReleases, vars
<1>11. QED
  BY <1>3, <1>4, <1>5, <1>6, <1>7, <1>8, <1>9, <1>10 DEF Next

(* The stacks that a reap frees are counted as they are freed.             *)
LEMMA ReapCounts ==
  ASSUME IInv, CountExact, NEW bases \in SUBSET pending, DeallocatesStacks(bases)
  PROVE  CountExact'
<1>1. /\ StackFrames(bases) \in SUBSET used /\ 0 \notin StackFrames(bases)
      /\ Cardinality(StackFrames(bases)) = StackPages * Cardinality(bases)
  BY QueuedStacksCount
<1>2. Deallocates(StackFrames(bases), Cardinality(StackFrames(bases)))
  BY <1>1 DEF DeallocatesStacks
<1>3. QED
  BY <1>1, <1>2, DeallocateCounts

(* A built-in is spawned: the reap, and one stack from what it has left.   *)
LEMMA BuiltinCounts ==
  ASSUME IInv, CountExact, NEW s \in Slots, NEW base \in Frames,
         SpawnBuiltin(s, base)
  PROVE  CountExact'
<1> DEFINE freed == StackFrames(pending)
           run == Pages(base, StackPages)
<1>1. /\ freed \in SUBSET used
      /\ Cardinality(freed) = StackPages * Cardinality(pending)
  BY QueuedStacksCount
<1>2. /\ run \in SUBSET Frames /\ run \cap (used \ freed) = {}
      /\ used' = (used \ freed) \cup run
      /\ freeCount' = freeCount + StackPages * Cardinality(pending) - StackPages
  BY DEF SpawnBuiltin, LowestRun, Reaped
<1>3. used \in SUBSET Frames /\ used \ freed \in SUBSET Frames
      /\ freed \in SUBSET Frames
  BY <1>1 DEF IInv, Shape
<1>4. Cardinality(run) = StackPages /\ StackPages \in Nat
  BY FrameCounts, MemoryAssumption
<1> HIDE DEF freed, run
<1>5. Cardinality(used \ freed) = Cardinality(used) - Cardinality(freed)
  BY <1>1, <1>3, CountChanges
<1>6. Cardinality((used \ freed) \cup run) = Cardinality(used \ freed) + Cardinality(run)
  BY <1>2, <1>3, CountChanges
<1>7. Cardinality(used) \in Nat /\ Cardinality(freed) \in Nat /\ NFrames \in Nat
  BY <1>3, FrameCounts, MemoryAssumption
<1>8. freeCount' = freeCount + Cardinality(freed) - StackPages
  BY <1>1, <1>2
<1>9. QED
  BY <1>2, <1>4, <1>5, <1>6, <1>7, <1>8 DEF CountExact

(* No step makes the counter wrong.                                        *)
LEMMA NextCounts ==
  ASSUME IInv, CountExact, [Next]_vars
  PROVE  CountExact'
<1>1. CASE UNCHANGED allocVars
  BY <1>1 DEF allocVars, CountExact
<1>2. CASE \E bases \in SUBSET pending : DeallocatesStacks(bases)
  BY <1>2, ReapCounts
<1>3. CASE \E set \in SUBSET used : 0 \notin set /\ Deallocates(set, Cardinality(set))
  BY <1>3, DeallocateCounts
<1>4. ASSUME NEW f \in Frames, Allocates(f)
      PROVE  CountExact'
  <2>1. {f} \in SUBSET Frames /\ {f} \cap used = {}
    BY <1>4 DEF Allocates
  <2>2. used' = used \cup {f} /\ freeCount' = freeCount - Cardinality({f})
    BY <1>4, FS_Singleton DEF Allocates
  <2>3. QED
    BY <2>1, <2>2, AllocateCounts
<1>5. ASSUME NEW base \in Frames, NEW n \in Nat, AllocatesRun(base, n)
      PROVE  CountExact'
  <2>1. Pages(base, n) \in SUBSET Frames /\ Pages(base, n) \cap used = {}
    BY <1>5 DEF AllocatesRun, Fits
  <2>2. /\ used' = used \cup Pages(base, n)
        /\ freeCount' = freeCount - Cardinality(Pages(base, n))
    BY <1>5, FrameCounts DEF AllocatesRun
  <2>3. QED
    BY <2>1, <2>2, AllocateCounts
<1>6. CASE \E s \in Slots, base \in Frames : SpawnBuiltin(s, base)
  BY <1>6, BuiltinCounts
<1>7. StackPages \in Nat /\ BufferPages \in Nat
  BY MemoryAssumption
<1>8. QED
  BY <1>1, <1>2, <1>3, <1>4, <1>5, <1>6, <1>7, AllocatorSteps

(* FREE_COUNT (frame_alloc.rs), which every allocation and free adjusts    *)
(* and nothing recomputes, is always the number of free frames: every      *)
(* frame that is freed was in use, though whole stacks are freed at once.  *)
THEOREM FreeCountIsExact == Spec => []CountExact
<1>1. Init => CountExact
  BY DEF Init, CountExact
<1>2. IInv /\ CountExact /\ [Next]_vars => CountExact'
  BY NextCounts
<1>3. QED
  BY <1>1, <1>2, Invariance, PTL DEF Spec

(* The bitmap marks what is owned and FREE_COUNT counts the rest, at every *)
(* step: no frame is lost or freed twice, also by a spawn that fails half  *)
(* way, with exits and reaps in between.                                   *)
THEOREM MemoryIsAccounted == Spec => []Accounting
<1>1. FramesAccounted /\ CountExact => Accounting
  BY DEF Accounting
<1>2. QED
  BY <1>1, AllFramesAccounted, FreeCountIsExact, PTL

-----------------------------------------------------------------------------
(* A frame is in one of the bytes of the bitmap.                           *)
LEMMA BytesOfFrames ==
  ASSUME NEW f \in Frames
  PROVE  f \div GroupSize \in 0 .. Groups - 1
<1>1. /\ NFrames \in Nat /\ GroupSize \in Nat /\ GroupSize > 0
      /\ NFrames % GroupSize = 0 /\ f \in Nat /\ f < NFrames
  BY MemoryAssumption DEF Frames
<1>2. PICK q \in Nat : q = f \div GroupSize
  BY <1>1
<1>3. q * GroupSize <= f
  BY <1>1, <1>2
<1>4. Groups \in Nat /\ Groups * GroupSize = NFrames
  BY <1>1 DEF Groups
<1>5. q < Groups
  BY <1>1, <1>3, <1>4
<1>6. QED
  BY <1>2, <1>4, <1>5

(* NEXT_HINT is a byte of the bitmap.                                      *)
HintInBitmap == hint \in 0 .. Groups - 1

(* No step sets the hint to anything else.                                 *)
LEMMA HintsAreBytes ==
  ASSUME IInv, HintInBitmap, [Next]_vars
  PROVE  HintInBitmap'
<1>1. UNCHANGED hint \/ \E f \in Frames : hint' = f \div GroupSize
  BY AllocatorSteps DEF allocVars, DeallocatesStacks, Deallocates, Allocates,
                        AllocatesRun, SpawnBuiltin
<1>2. QED
  BY <1>1, BytesOfFrames DEF HintInBitmap

(* The bitmap, the counter, the tables and the queue hold what they may    *)
(* hold: the counter is never below zero or above the number of frames,    *)
(* and the search starts at a byte of the bitmap.                          *)
THEOREM MemoryTypes == Spec => []TypeOK
<1>1. Init => HintInBitmap
  <2>1. BootFrames + 2 \in Frames
    BY MemoryAssumption DEF Frames
  <2>2. QED
    BY <2>1, BytesOfFrames DEF Init, HintInBitmap
<1>2. IInv /\ HintInBitmap /\ [Next]_vars => HintInBitmap'
  BY HintsAreBytes
<1>3. IInv /\ CountExact /\ HintInBitmap => TypeOK
  <2> SUFFICES ASSUME IInv, CountExact, HintInBitmap
               PROVE  TypeOK
    OBVIOUS
  <2>1. used \in SUBSET Frames /\ Shape
    BY DEF IInv, Shape
  <2>2. Cardinality(used) \in Nat /\ Cardinality(used) <= NFrames
    <3>1. IsFiniteSet(Frames) /\ Cardinality(Frames) = NFrames
      BY FrameCounts
    <3>2. QED
      BY <2>1, <3>1, FS_Subset, FS_CardinalityType
  <2>3. freeCount \in 0 .. NFrames
    BY <2>2, MemoryAssumption DEF CountExact
  <2>4. QED
    BY <2>1, <2>3 DEF TypeOK, HintInBitmap
<1>4. QED
  BY <1>1, <1>2, <1>3, Invariance, FreeCountIsExact, PTL DEF Spec
=============================================================================
