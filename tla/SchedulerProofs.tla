-------------------------- MODULE SchedulerProofs --------------------------
(***************************************************************************)
(* The scheduler's invariants, proved for every number of task slots.      *)
(***************************************************************************)
EXTENDS Scheduler, TLAPS

(* The part of the invariant a handler must have re-established in the     *)
(* table st it passes to switch_away or hand_off.                          *)
Switchable(st) ==
  /\ st \in [Slots -> States]
  /\ \A t \in Slots : st[t] = "Running" => t = current
  /\ st[IdleTask] \in {"Ready", "Running"}

(* Slot 0 and init's slot are slots, and NONE, usize::MAX in the code, is  *)
(* not.                                                                    *)
LEMMA SlotFacts ==
  /\ IdleTask \in Slots /\ InitTask \in Slots
  /\ IdleTask # InitTask
  /\ NONE \notin Slots
BY MaxTasksAssumption DEF Slots, IdleTask, InitTask, NONE

(* switch_away leaves exactly one slot Running, the current one, and it    *)
(* chose a Ready slot for it; every other slot keeps its state, but for    *)
(* the outgoing task, Running before and Ready now.  No hand-off is left.  *)
LEMMA SwitchAwayFacts ==
  ASSUME NEW st, Switchable(st), current \in Slots,
         NEW d \in Slots \cup {NONE}, NEW tg, SwitchAway(st, d, tg)
  PROVE  /\ state' \in [Slots -> States]
         /\ current' \in Slots
         /\ donor' = NONE /\ target' = NONE
         /\ Demote(st)[current'] = "Ready"
         /\ state' = [Demote(st) EXCEPT ![current'] = "Running"]
<1>1. /\ Demote(st) \in [Slots -> States]
      /\ Demote(st)[IdleTask] = "Ready"
  BY SlotFacts DEF Demote, Switchable, States
<1>2. PICK next \in Slots : /\ Successor(Demote(st), d, tg, next)
                            /\ Run(Demote(st), next)
  BY DEF SwitchAway
<1>3. Demote(st)[next] = "Ready"
  BY <1>1, <1>2, SlotFacts DEF Successor, SenderReturns, NextInTurn
<1>4. QED
  BY <1>1, <1>2, <1>3 DEF Run, SwitchAway, ForgetHandOff, States

(* What the invariant asks of the task table, in terms of the table after  *)
(* a switch: the outgoing task and the incoming one are the only slots     *)
(* that changed, and neither is Blocked, Free or Reserved now.             *)
LEMMA AfterSwitch ==
  ASSUME NEW st, Switchable(st), current \in Slots,
         NEW d \in Slots \cup {NONE}, NEW tg, SwitchAway(st, d, tg)
  PROVE  /\ state' \in [Slots -> States]
         /\ current' \in Slots
         /\ donor' = NONE /\ target' = NONE
         /\ OneRunning'
         /\ HandOffPair'
         /\ \A t \in Slots : state'[t] = "Blocked" <=> st[t] = "Blocked"
         /\ \A t \in Slots : state'[t] \in {"Free", "Reserved"} => st[t] = state'[t]
<1>1. /\ state' \in [Slots -> States]
      /\ current' \in Slots
      /\ donor' = NONE /\ target' = NONE
      /\ Demote(st)[current'] = "Ready"
      /\ state' = [Demote(st) EXCEPT ![current'] = "Running"]
  BY SwitchAwayFacts
<1>2. \A t \in Slots : Demote(st)[t] = IF t = current /\ st[t] = "Running"
                                       THEN "Ready" ELSE st[t]
  BY DEF Demote, Switchable
<1>3. \A t \in Slots : state'[t] = IF t = current' THEN "Running"
                                                   ELSE Demote(st)[t]
  BY <1>1, <1>2 DEF Demote, Switchable
<1>4. OneRunning'
  BY <1>1, <1>2, <1>3, SlotFacts DEF OneRunning, Switchable
<1>5. HandOffPair'
  BY <1>1 DEF HandOffPair
<1>6. \A t \in Slots : state'[t] = "Blocked" <=> st[t] = "Blocked"
  BY <1>1, <1>2, <1>3
<1>7. \A t \in Slots : state'[t] \in {"Free", "Reserved"} => st[t] = state'[t]
  BY <1>1, <1>2, <1>3
<1>8. QED
  BY <1>1, <1>4, <1>5, <1>6, <1>7
-----------------------------------------------------------------------------
(* hand_off to a Ready task makes a hand-off pair of the two.              *)
LEMMA AfterHandOff ==
  ASSUME NEW st, Switchable(st), current \in Slots, st[current] = "Running",
         NEW t \in Slots, st[t] = "Ready", HandOff(st, t)
  PROVE  /\ state' \in [Slots -> States]
         /\ current' = t /\ donor' = current /\ target' = t
         /\ OneRunning'
         /\ HandOffPair'
         /\ \A u \in Slots : state'[u] = "Blocked" <=> st[u] = "Blocked"
         /\ \A u \in Slots : state'[u] \in {"Free", "Reserved"} => st[u] = state'[u]
<1>1. /\ donor' = current /\ target' = t /\ current' = t
      /\ state' = [Demote(st) EXCEPT ![t] = "Running"]
  BY DEF HandOff, Run
<1>2. t # current
  OBVIOUS
<1>3. /\ state' \in [Slots -> States]
      /\ \A u \in Slots : state'[u] = IF u = t THEN "Running"
                                       ELSE IF u = current THEN "Ready" ELSE st[u]
  BY <1>1, <1>2 DEF Demote, Switchable, States
<1>4. OneRunning'
  BY <1>1, <1>3, SlotFacts DEF OneRunning, Switchable
<1>5. HandOffPair'
  BY <1>1, <1>2, <1>3, SlotFacts DEF HandOffPair
<1>6. QED
  BY <1>1, <1>3, <1>4, <1>5

(* The state main.rs leaves when it enables IRQs satisfies the invariant.  *)
LEMMA InitEstablishes == Init => IInv
BY SlotFacts DEF Init, IInv, TypeOK, OneRunning, HandOffPair, WaitsAreBlocked,
   EmptySlotsHaveNoSpace, States, Waits

(* A task that can take a step of its own is Running, has no recv in       *)
(* progress, and may switch away.                                          *)
LEMMA CurrentDoesNotWait ==
  ASSUME IInv, Acts
  PROVE  /\ state[current] = "Running" /\ wait[current] = "none"
         /\ current \in Slots /\ current # IdleTask
         /\ Switchable(state)
BY DEF IInv, Acts, WaitsAreBlocked, TypeOK, Waits, OneRunning, Switchable
-----------------------------------------------------------------------------
(* The tick (scheduler_tick_arm) wakes exactly the tasks whose wait it     *)
(* removes, so waits and blocked tasks stay matched.                       *)
LEMMA TickPreserves == IInv /\ Tick => IInv'
<1> SUFFICES ASSUME IInv, Tick
             PROVE  IInv'
  OBVIOUS
<1> DEFINE st == [t \in Slots |-> IF t \in Expired THEN "Ready" ELSE state[t]]
<1> USE SlotFacts
<1>1. /\ SwitchAway(st, NONE, NONE)
      /\ wait' = [t \in Slots |-> IF t \in Expired THEN "none" ELSE wait[t]]
      /\ space' = space /\ halted' = halted
  BY DEF Tick
<1>2. /\ Switchable(st) /\ current \in Slots
      /\ \A t \in Slots : st[t] = IF t \in Expired THEN "Ready" ELSE state[t]
  BY DEF IInv, TypeOK, OneRunning, Switchable, Expired, States
<1> HIDE DEF st
<1>3. /\ state' \in [Slots -> States]
      /\ current' \in Slots
      /\ donor' = NONE /\ target' = NONE
      /\ OneRunning'
      /\ HandOffPair'
      /\ \A t \in Slots : state'[t] = "Blocked" <=> st[t] = "Blocked"
      /\ \A t \in Slots : state'[t] \in {"Free", "Reserved"} => st[t] = state'[t]
  BY <1>1, <1>2, AfterSwitch
<1>4. \A t \in Expired : wait[t] # "none" /\ t \in Slots
  BY DEF Expired
<1>5. TypeOK'
  BY <1>1, <1>3 DEF IInv, TypeOK, Waits
<1>6. WaitsAreBlocked'
  BY <1>1, <1>2, <1>3, <1>4 DEF IInv, WaitsAreBlocked
<1>7. EmptySlotsHaveNoSpace'
  BY <1>1, <1>2, <1>3 DEF IInv, EmptySlotsHaveNoSpace
<1>8. QED
  BY <1>3, <1>5, <1>6, <1>7 DEF IInv

(* YIELD only rotates the table.                                           *)
LEMMA YieldPreserves == IInv /\ Yield => IInv'
<1> SUFFICES ASSUME IInv, Yield
             PROVE  IInv'
  OBVIOUS
<1>1. /\ SwitchAway(state, donor, target)
      /\ space' = space /\ wait' = wait /\ halted' = halted
      /\ Switchable(state) /\ current \in Slots /\ donor \in Slots \cup {NONE}
  BY CurrentDoesNotWait DEF Yield, User, IInv, TypeOK
<1>2. /\ state' \in [Slots -> States]
      /\ current' \in Slots
      /\ donor' = NONE /\ target' = NONE
      /\ OneRunning'
      /\ HandOffPair'
      /\ \A t \in Slots : state'[t] = "Blocked" <=> state[t] = "Blocked"
      /\ \A t \in Slots : state'[t] \in {"Free", "Reserved"} => state[t] = state'[t]
  BY <1>1, AfterSwitch
<1>3. QED
  BY <1>1, <1>2 DEF IInv, TypeOK, WaitsAreBlocked, EmptySlotsHaveNoSpace

(* A RECV that blocks records its wait and its Blocked state together      *)
(* (set_user_wait), before it switches away.                               *)
LEMMA RecvPreserves ==
  ASSUME IInv, NEW deadline \in {"forever", "later"}, RecvBlocks(deadline)
  PROVE  IInv'
<1> DEFINE st == [state EXCEPT ![current] = "Blocked"]
<1>1. /\ SwitchAway(st, donor, target)
      /\ wait' = [wait EXCEPT ![current] = deadline]
      /\ space' = space /\ halted' = halted /\ space[current]
  BY DEF RecvBlocks, User
<1>2. /\ current \in Slots /\ current # IdleTask /\ Switchable(st)
      /\ donor \in Slots \cup {NONE}
      /\ \A t \in Slots : st[t] = IF t = current THEN "Blocked" ELSE state[t]
  BY CurrentDoesNotWait DEF RecvBlocks, User, Switchable, States, IInv, TypeOK
<1> HIDE DEF st
<1>3. /\ state' \in [Slots -> States]
      /\ current' \in Slots
      /\ donor' = NONE /\ target' = NONE
      /\ OneRunning'
      /\ HandOffPair'
      /\ \A t \in Slots : state'[t] = "Blocked" <=> st[t] = "Blocked"
      /\ \A t \in Slots : state'[t] \in {"Free", "Reserved"} => st[t] = state'[t]
  BY <1>1, <1>2, AfterSwitch
<1>4. TypeOK'
  BY <1>1, <1>2, <1>3 DEF IInv, TypeOK, Waits
<1>5. WaitsAreBlocked' /\ EmptySlotsHaveNoSpace'
  BY <1>1, <1>2, <1>3 DEF IInv, WaitsAreBlocked, EmptySlotsHaveNoSpace, TypeOK
<1>6. QED
  BY <1>3, <1>4, <1>5 DEF IInv

(* A SEND that hands off finds its target Ready: it has just completed the *)
(* target's recv, so the target was Blocked and is not the sender.         *)
LEMMA SendPreserves ==
  ASSUME IInv, NEW t \in Slots, SendHandsOff(t)
  PROVE  IInv'
<1> DEFINE st == [state EXCEPT ![t] = "Ready"]
<1>1. /\ HandOff(st, t)
      /\ wait' = [wait EXCEPT ![t] = "none"] /\ wait[t] # "none"
      /\ space' = space /\ halted' = halted
  BY DEF SendHandsOff
<1>2. /\ current \in Slots /\ t # current
      /\ state[current] = "Running" /\ state[t] = "Blocked" /\ space[t]
  BY <1>1, CurrentDoesNotWait DEF SendHandsOff, User, IInv, WaitsAreBlocked
<1>3. /\ Switchable(st) /\ st[current] = "Running" /\ st[t] = "Ready"
      /\ \A u \in Slots : st[u] = IF u = t THEN "Ready" ELSE state[u]
  BY <1>2, CurrentDoesNotWait
     DEF SendHandsOff, User, Switchable, States, IInv, TypeOK
<1> HIDE DEF st
<1>4. /\ state' \in [Slots -> States]
      /\ current' = t /\ donor' = current /\ target' = t
      /\ OneRunning'
      /\ HandOffPair'
      /\ \A u \in Slots : state'[u] = "Blocked" <=> st[u] = "Blocked"
      /\ \A u \in Slots : state'[u] \in {"Free", "Reserved"} => st[u] = state'[u]
  BY <1>1, <1>2, <1>3, AfterHandOff
<1>5. TypeOK'
  BY <1>1, <1>2, <1>4 DEF IInv, TypeOK, Waits
<1>6. WaitsAreBlocked' /\ EmptySlotsHaveNoSpace'
  BY <1>1, <1>2, <1>3, <1>4 DEF IInv, WaitsAreBlocked, EmptySlotsHaveNoSpace, TypeOK
<1>7. QED
  BY <1>1, <1>2, <1>4, <1>5, <1>6 DEF IInv

(* What retire_current leaves for the switch: the slot is Free, has no     *)
(* address space and no wait, and init is Ready if its notice woke it.     *)
LEMMA RetireFacts ==
  ASSUME IInv, NEW notified \in BOOLEAN, Retire(notified)
  PROVE  /\ current \in Slots /\ Switchable(Retired(notified))
         /\ DonorLeft \in Slots \cup {NONE} /\ TargetLeft \in Slots \cup {NONE}
         /\ space' \in [Slots -> BOOLEAN] /\ wait' \in [Slots -> Waits]
         /\ halted' = halted
         /\ \A t \in Slots :
              /\ wait'[t] # "none" <=> Retired(notified)[t] = "Blocked" /\ space'[t]
              /\ Retired(notified)[t] \in {"Free", "Reserved"} => ~space'[t]
         /\ Retired(notified)[current] = "Free"
<1>1. /\ current \in Slots /\ current # IdleTask /\ current # InitTask
      /\ state[current] = "Running" /\ wait[current] = "none"
      /\ Switchable(state)
  BY CurrentDoesNotWait DEF Retire
<1>2. notified => wait[InitTask] # "none" /\ state[InitTask] = "Blocked" /\ space[InitTask]
  BY SlotFacts DEF Retire, IInv, WaitsAreBlocked
<1>3. \A t \in Slots : Retired(notified)[t] =
         IF t = InitTask /\ notified THEN "Ready"
         ELSE IF t = current THEN "Free" ELSE state[t]
  BY <1>1, SlotFacts DEF Retired, IInv, TypeOK
<1>4. Retired(notified) \in [Slots -> States]
  BY <1>1, SlotFacts DEF Retired, IInv, TypeOK, States
<1>5. Switchable(Retired(notified))
  BY <1>1, <1>2, <1>3, <1>4, SlotFacts DEF Switchable
<1>6. /\ space' = [space EXCEPT ![current] = FALSE] /\ halted' = halted
      /\ wait' = [wait EXCEPT ![current] = "none",
                              ![InitTask] = IF notified THEN "none" ELSE @]
  BY DEF Retire
<1>7. \A t \in Slots : /\ space'[t] = (space[t] /\ t # current)
                       /\ wait'[t] = IF t = current \/ (t = InitTask /\ notified)
                                     THEN "none" ELSE wait[t]
  BY <1>1, <1>6, SlotFacts DEF IInv, TypeOK
<1>8. space' \in [Slots -> BOOLEAN] /\ wait' \in [Slots -> Waits]
  BY <1>6 DEF IInv, TypeOK, Waits
<1>9. \A t \in Slots :
         /\ wait'[t] # "none" <=> Retired(notified)[t] = "Blocked" /\ space'[t]
         /\ Retired(notified)[t] \in {"Free", "Reserved"} => ~space'[t]
  BY <1>1, <1>3, <1>7, SlotFacts DEF IInv, WaitsAreBlocked, EmptySlotsHaveNoSpace
<1>10. DonorLeft \in Slots \cup {NONE} /\ TargetLeft \in Slots \cup {NONE}
  BY DEF DonorLeft, TargetLeft, IInv, TypeOK
<1>11. QED
  BY <1>1, <1>3, <1>5, <1>6, <1>8, <1>9, <1>10, SlotFacts

(* EXIT switches away from a table that retire_current left in order.      *)
LEMMA ExitPreserves ==
  ASSUME IInv, NEW notified \in BOOLEAN, Exit(notified)
  PROVE  IInv'
<1>1. /\ SwitchAway(Retired(notified), DonorLeft, TargetLeft)
      /\ Retire(notified)
  BY DEF Exit
<1>2. /\ current \in Slots /\ Switchable(Retired(notified))
      /\ DonorLeft \in Slots \cup {NONE}
      /\ space' \in [Slots -> BOOLEAN] /\ wait' \in [Slots -> Waits]
      /\ halted' = halted
      /\ \A t \in Slots :
           /\ wait'[t] # "none" <=> Retired(notified)[t] = "Blocked" /\ space'[t]
           /\ Retired(notified)[t] \in {"Free", "Reserved"} => ~space'[t]
  BY <1>1, RetireFacts
<1>3. /\ state' \in [Slots -> States]
      /\ current' \in Slots
      /\ donor' = NONE /\ target' = NONE
      /\ OneRunning'
      /\ HandOffPair'
      /\ \A t \in Slots : state'[t] = "Blocked" <=> Retired(notified)[t] = "Blocked"
      /\ \A t \in Slots : state'[t] \in {"Free", "Reserved"}
                            => Retired(notified)[t] = state'[t]
  BY <1>1, <1>2, AfterSwitch
<1>4. QED
  BY <1>2, <1>3 DEF IInv, TypeOK, WaitsAreBlocked, EmptySlotsHaveNoSpace

(* A fault stays on the CPU with its slot Free, and leaves no hand-off:    *)
(* the current task is the target of any there was.                        *)
LEMMA FaultPreserves ==
  ASSUME IInv, NEW notified \in BOOLEAN, Fault(notified)
  PROVE  IInv'
<1>1. /\ Retire(notified) /\ state' = Retired(notified) /\ current' = current
      /\ donor' = DonorLeft /\ target' = TargetLeft
  BY DEF Fault
<1>2. /\ current \in Slots /\ Switchable(Retired(notified))
      /\ DonorLeft \in Slots \cup {NONE} /\ TargetLeft \in Slots \cup {NONE}
      /\ space' \in [Slots -> BOOLEAN] /\ wait' \in [Slots -> Waits]
      /\ halted' = halted
      /\ \A t \in Slots :
           /\ wait'[t] # "none" <=> Retired(notified)[t] = "Blocked" /\ space'[t]
           /\ Retired(notified)[t] \in {"Free", "Reserved"} => ~space'[t]
  BY <1>1, RetireFacts
<1>3. donor' = NONE /\ target' = NONE
  BY <1>1 DEF DonorLeft, TargetLeft, Leaves, IInv, HandOffPair
<1>4. TypeOK' /\ OneRunning' /\ HandOffPair'
  BY <1>1, <1>2, <1>3 DEF IInv, TypeOK, OneRunning, HandOffPair, Switchable
<1>5. WaitsAreBlocked' /\ EmptySlotsHaveNoSpace'
  BY <1>1, <1>2 DEF WaitsAreBlocked, EmptySlotsHaveNoSpace
<1>6. QED
  BY <1>3, <1>4, <1>5 DEF IInv

(* The steps that leave the CPU where it is.                               *)
LEMMA StillRunningPreserves ==
  ASSUME IInv,
         \/ BuiltinRecvBlocks
         \/ \E t \in Slots : ClockPasses(t) \/ Wake(t)
         \/ \E s \in Slots : Claim(s) \/ Install(s) \/ Release(s) \/ SpawnBuiltin(s)
         \/ InitExits
  PROVE  IInv'
<1> USE SlotFacts DEF IInv, TypeOK, OneRunning, HandOffPair, WaitsAreBlocked,
                      EmptySlotsHaveNoSpace, States, Waits
<1>1. CASE BuiltinRecvBlocks
  BY <1>1 DEF BuiltinRecvBlocks, Builtin, Acts
<1>2. ASSUME NEW t \in Slots, ClockPasses(t)
      PROVE  IInv'
  BY <1>2 DEF ClockPasses
<1>3. ASSUME NEW t \in Slots, Wake(t)
      PROVE  IInv'
  BY <1>3 DEF Wake, Acts, Builtin
<1>4. ASSUME NEW s \in Slots, Claim(s)
      PROVE  IInv'
  BY <1>4 DEF Claim, Acts, FirstFree
<1>5. ASSUME NEW s \in Slots, Install(s)
      PROVE  IInv'
  BY <1>5 DEF Install, SpawnEnds
<1>6. ASSUME NEW s \in Slots, Release(s)
      PROVE  IInv'
  BY <1>6 DEF Release, SpawnEnds
<1>7. ASSUME NEW s \in Slots, SpawnBuiltin(s)
      PROVE  IInv'
  BY <1>7 DEF SpawnBuiltin, Acts, FirstFree
<1>8. CASE InitExits
  BY <1>8 DEF InitExits
<1>9. QED
  BY <1>1, <1>2, <1>3, <1>4, <1>5, <1>6, <1>7, <1>8

(* Every step of the scheduler preserves the invariant.                    *)
LEMMA NextPreserves == IInv /\ [Next]_vars => IInv'
<1> SUFFICES ASSUME IInv, [Next]_vars
             PROVE  IInv'
  OBVIOUS
<1>1. CASE Tick
  BY <1>1, TickPreserves
<1>2. CASE Yield
  BY <1>2, YieldPreserves
<1>3. CASE \E deadline \in {"forever", "later"} : RecvBlocks(deadline)
  BY <1>3, RecvPreserves
<1>4. CASE \E t \in Slots : SendHandsOff(t)
  BY <1>4, SendPreserves
<1>5. CASE \E notified \in BOOLEAN : Exit(notified)
  BY <1>5, ExitPreserves
<1>6. CASE \E notified \in BOOLEAN : Fault(notified)
  BY <1>6, FaultPreserves
<1>7. CASE \/ BuiltinRecvBlocks
           \/ \E t \in Slots : ClockPasses(t) \/ Wake(t)
           \/ \E s \in Slots : Claim(s) \/ Install(s) \/ Release(s) \/ SpawnBuiltin(s)
           \/ InitExits
  BY <1>7, StillRunningPreserves
<1>8. CASE UNCHANGED vars
  BY <1>8 DEF vars, IInv, TypeOK, OneRunning, HandOffPair, WaitsAreBlocked,
              EmptySlotsHaveNoSpace
<1>9. QED
  BY <1>1, <1>2, <1>3, <1>4, <1>5, <1>6, <1>7, <1>8 DEF Next, HaltLoop

(* The strengthened invariant holds in every reachable state.              *)
THEOREM Invariance == Spec => []IInv
<1>1. Init => IInv
  BY InitEstablishes
<1>2. IInv /\ [Next]_vars => IInv'
  BY NextPreserves
<1>3. QED
  BY <1>1, <1>2, PTL DEF Spec

(* Every variable keeps to its type, and the hand-off to its pair.         *)
THEOREM TypeCorrect == Spec => []TypeOK
<1>1. IInv => TypeOK
  BY DEF IInv
<1>2. QED
  BY <1>1, Invariance, PTL

(* Only the current slot is Running, and slot 0 can always be run.         *)
THEOREM OneTaskRuns == Spec => []OneRunning
<1>1. IInv => OneRunning
  BY DEF IInv
<1>2. QED
  BY <1>1, Invariance, PTL

(* An outstanding hand-off joins a Ready donor to the running target.      *)
THEOREM HandOffsArePairs == Spec => []HandOffPair
<1>1. IInv => HandOffPair
  BY DEF IInv
<1>2. QED
  BY <1>1, Invariance, PTL

(* A wait is recorded for exactly the blocked EL0 tasks.                   *)
THEOREM WaitsMatchBlocked == Spec => []WaitsAreBlocked
<1>1. IInv => WaitsAreBlocked
  BY DEF IInv
<1>2. QED
  BY <1>1, Invariance, PTL
-----------------------------------------------------------------------------
(* A switch that runs another task runs one that its table has as Ready.   *)
LEMMA SwitchRunsReady ==
  ASSUME NEW st, Switchable(st), current \in Slots,
         NEW d \in Slots \cup {NONE}, NEW tg, SwitchAway(st, d, tg),
         current' # current
  PROVE  current' \in Slots /\ st[current'] = "Ready"
<1>1. Demote(st)[current'] = "Ready" /\ current' \in Slots
  BY SwitchAwayFacts
<1>2. QED
  BY <1>1 DEF Demote, Switchable

(* run() is never given a slot without a live frame: in every step of the  *)
(* code that gives the CPU to another task, that task was Ready, or it was *)
(* Blocked and the same step has woken it.                                 *)
THEOREM LiveFrames == Spec => LiveFramesOnly
<1> DEFINE Live == current' # current => state[current'] \in {"Ready", "Blocked"}
<1>1. ASSUME IInv, [Next]_vars
      PROVE  Live
  <2> SUFFICES ASSUME current' # current
               PROVE  state[current'] \in {"Ready", "Blocked"}
    OBVIOUS
  <2>1. CASE Tick
    <3> DEFINE st == [t \in Slots |-> IF t \in Expired THEN "Ready" ELSE state[t]]
    <3>1. /\ Switchable(st) /\ current \in Slots
          /\ \A t \in Slots : st[t] = IF t \in Expired THEN "Ready" ELSE state[t]
          /\ SwitchAway(st, NONE, NONE)
      BY <1>1, <2>1, SlotFacts
         DEF Tick, IInv, TypeOK, OneRunning, Switchable, Expired, States
    <3> HIDE DEF st
    <3>2. current' \in Slots /\ st[current'] = "Ready"
      BY <3>1, SwitchRunsReady
    <3>3. \A t \in Expired : t \in Slots /\ state[t] = "Blocked"
      BY <1>1 DEF Expired, IInv, WaitsAreBlocked
    <3>4. QED
      BY <3>1, <3>2, <3>3
  <2>2. CASE Yield
    <3>1. /\ SwitchAway(state, donor, target)
          /\ Switchable(state) /\ current \in Slots /\ donor \in Slots \cup {NONE}
      BY <1>1, <2>2, CurrentDoesNotWait DEF Yield, User, IInv, TypeOK
    <3>2. QED
      BY <3>1, SwitchRunsReady
  <2>3. ASSUME NEW deadline \in {"forever", "later"}, RecvBlocks(deadline)
        PROVE  state[current'] \in {"Ready", "Blocked"}
    <3> DEFINE st == [state EXCEPT ![current] = "Blocked"]
    <3>1. /\ SwitchAway(st, donor, target)
          /\ current \in Slots /\ Switchable(st) /\ donor \in Slots \cup {NONE}
          /\ \A t \in Slots : st[t] = IF t = current THEN "Blocked" ELSE state[t]
      BY <1>1, <2>3, CurrentDoesNotWait
         DEF RecvBlocks, User, Switchable, States, IInv, TypeOK
    <3> HIDE DEF st
    <3>2. current' \in Slots /\ st[current'] = "Ready"
      BY <3>1, SwitchRunsReady
    <3>3. QED
      BY <3>1, <3>2
  <2>4. ASSUME NEW t \in Slots, SendHandsOff(t)
        PROVE  state[current'] \in {"Ready", "Blocked"}
    <3> DEFINE st == [state EXCEPT ![t] = "Ready"]
    <3>1. /\ HandOff(st, t) /\ state[t] = "Blocked" /\ st[t] = "Ready"
      BY <1>1, <2>4 DEF SendHandsOff, IInv, TypeOK, WaitsAreBlocked
    <3>2. current' = t
      BY <3>1 DEF HandOff, Run
    <3>3. QED
      BY <3>1, <3>2
  <2>5. ASSUME NEW notified \in BOOLEAN, Exit(notified)
        PROVE  state[current'] \in {"Ready", "Blocked"}
    <3>1. /\ SwitchAway(Retired(notified), DonorLeft, TargetLeft)
          /\ Switchable(Retired(notified)) /\ current \in Slots
          /\ DonorLeft \in Slots \cup {NONE}
      BY <1>1, <2>5, RetireFacts DEF Exit
    <3>2. current' \in Slots /\ Retired(notified)[current'] = "Ready"
      BY <3>1, SwitchRunsReady
    <3>3. notified => state[InitTask] = "Blocked"
      BY <1>1, <2>5, SlotFacts DEF Exit, Retire, IInv, WaitsAreBlocked
    <3>4. \A t \in Slots : Retired(notified)[t] = "Ready" =>
                             state[t] = "Ready" \/ (t = InitTask /\ notified)
      BY <1>1, <3>1, SlotFacts DEF Retired, IInv, TypeOK
    <3>5. QED
      BY <3>2, <3>3, <3>4
  <2>6. QED
    BY <1>1, <2>1, <2>2, <2>3, <2>4, <2>5
       DEF Next, vars, HaltLoop, BuiltinRecvBlocks, ClockPasses, Wake, Fault,
           InitExits, Claim, Install, Release, SpawnBuiltin
<1>2. Spec => [][Live]_vars
  BY <1>1, Invariance, PTL DEF Spec
<1>3. QED
  BY <1>2 DEF LiveFramesOnly
=============================================================================
