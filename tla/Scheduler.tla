----------------------------- MODULE Scheduler -----------------------------
(***************************************************************************)
(* The scheduler on its own: who holds the CPU, who may take it next, and  *)
(* how tasks come, block, wake and go.  IPC appears only as what it does   *)
(* to the task table: a recv blocks its caller, a send wakes a waiter.     *)
(*                                                                         *)
(* A timer IRQ can be taken after any step of any task, so Tick is always  *)
(* enabled until the system halts; a task whose slot is Blocked (an EL1    *)
(* recv, on its way into wfi) or Free (it has just faulted) but which is   *)
(* still on the CPU can do nothing but wait for it.                        *)
(***************************************************************************)
EXTENDS TaskTable

VARIABLES
  space,    \* does the slot's task have an address space (an EL0 task)?
  wait,     \* the recv syscall a task waits in: none, or what its deadline is
  halted    \* init has exited and the kernel loops in wfi with IRQs masked

vars == <<state, current, donor, target, space, wait, halted>>

(* "forever" is a recv without a deadline, "later" and "past" one with a   *)
(* deadline the clock has not reached, or has.                             *)
Waits == {"none", "forever", "later", "past"}

(* At boot the kernel has installed init in slot 1 and enables IRQs while  *)
(* task 0 runs.                                                            *)
Init ==
  /\ state = [t \in Slots |-> CASE t = IdleTask -> "Running"
                                [] t = InitTask -> "Ready"
                                [] OTHER -> "Free"]
  /\ current = IdleTask
  /\ donor = NONE
  /\ target = NONE
  /\ space = [t \in Slots |-> t = InitTask]
  /\ wait = [t \in Slots |-> "none"]
  /\ halted = FALSE

-----------------------------------------------------------------------------
(* init is inside SPAWN, loading an ELF image, while a slot is Reserved.   *)
Spawning == \E s \in Slots : state[s] = "Reserved"

(* The current task may take a step of its own.                            *)
Acts ==
  /\ ~halted
  /\ current # IdleTask
  /\ state[current] = "Running"
  /\ current = InitTask => ~Spawning

User == Acts /\ space[current]
Builtin == Acts /\ ~space[current]

(* Mutant: the loop stops one slot early.                                  *)
Expired_SkipsLastSlot ==
  {t \in Slots \ {IdleTask, MaxTasks - 1} : wait[t] = "past"}

(* expire_waits: every task whose deadline has passed is ready again.      *)
Expired == {t \in Slots \ {IdleTask} : wait[t] = "past"}

(* Mutant: the expired wait is left in the task.                           *)
Tick_KeepsWait ==
  /\ ~halted
  /\ SwitchAway([t \in Slots |-> IF t \in Expired THEN "Ready" ELSE state[t]],
                NONE, NONE)
  /\ UNCHANGED <<wait, space, halted>>

(* scheduler_tick_arm: no hand-off survives a tick.                        *)
Tick ==
  /\ ~halted
  /\ SwitchAway([t \in Slots |-> IF t \in Expired THEN "Ready" ELSE state[t]],
                NONE, NONE)
  /\ wait' = [t \in Slots |-> IF t \in Expired THEN "none" ELSE wait[t]]
  /\ UNCHANGED <<space, halted>>

ClockPasses(t) ==
  /\ ~halted
  /\ wait[t] = "later"
  /\ wait' = [wait EXCEPT ![t] = "past"]
  /\ UNCHANGED <<state, current, donor, target, space, halted>>

Yield ==
  /\ User
  /\ SwitchAway(state, donor, target)
  /\ UNCHANGED <<space, wait, halted>>

(* RECV with nothing waiting: set_user_wait, then switch_away.             *)
RecvBlocks(deadline) ==
  /\ User
  /\ wait' = [wait EXCEPT ![current] = deadline]
  /\ SwitchAway([state EXCEPT ![current] = "Blocked"], donor, target)
  /\ UNCHANGED <<space, halted>>

(* ipc::recv in a built-in: block_current, which leaves the CPU only at    *)
(* the tick.                                                               *)
BuiltinRecvBlocks ==
  /\ Builtin
  /\ state' = [state EXCEPT ![current] = "Blocked"]
  /\ UNCHANGED <<current, donor, target, space, wait, halted>>

(* SEND to a channel on which EL0 task t waits: complete_user_recv, then   *)
(* hand_off.                                                               *)
SendHandsOff(t) ==
  /\ User
  /\ wait[t] # "none"
  /\ wait' = [wait EXCEPT ![t] = "none"]
  /\ HandOff([state EXCEPT ![t] = "Ready"], t)
  /\ UNCHANGED <<space, halted>>

(* A send that wakes t but keeps the CPU: to a built-in (unblock), or by a *)
(* built-in to a waiting EL0 task.                                         *)
Wake(t) ==
  /\ Acts
  /\ \/ state[t] = "Blocked" /\ wait[t] = "none"
     \/ Builtin /\ wait[t] # "none"
  /\ state' = [state EXCEPT ![t] = "Ready"]
  /\ wait' = [wait EXCEPT ![t] = "none"]
  /\ UNCHANGED <<current, donor, target, space, halted>>

-----------------------------------------------------------------------------
(* Mutant: the hand-off is not forgotten.                                  *)
Leaves_Never == FALSE

(* retire_current, for a task other than init: the slot is Free, a hand-   *)
(* off the task had a part in is forgotten, and the notice on init's inbox *)
(* wakes init if init waits there.                                         *)
Leaves == current \in {donor, target}
DonorLeft == IF Leaves THEN NONE ELSE donor
TargetLeft == IF Leaves THEN NONE ELSE target

Retire(notified) ==
  /\ Acts
  /\ current # InitTask
  /\ notified => wait[InitTask] # "none"
  /\ space' = [space EXCEPT ![current] = FALSE]
  /\ wait' = [wait EXCEPT ![current] = "none",
                          ![InitTask] = IF notified THEN "none" ELSE @]
  /\ UNCHANGED halted

Retired(notified) ==
  [state EXCEPT ![current] = "Free",
                ![InitTask] = IF notified THEN "Ready" ELSE @]

(* EXIT: the syscall returns through the scheduler.                        *)
Exit(notified) ==
  /\ User
  /\ Retire(notified)
  /\ SwitchAway(Retired(notified), DonorLeft, TargetLeft)

(* A fault: terminate_current stays on the CPU until the next tick.        *)
Fault(notified) ==
  /\ Retire(notified)
  /\ state' = Retired(notified)
  /\ donor' = DonorLeft
  /\ target' = TargetLeft
  /\ UNCHANGED current

(* init's own exit or fault.                                               *)
InitExits ==
  /\ Acts
  /\ current = InitTask
  /\ halted' = TRUE
  /\ UNCHANGED <<state, current, donor, target, space, wait>>

HaltLoop == halted /\ UNCHANGED vars

-----------------------------------------------------------------------------
(* claim_slot takes the first free slot.                                   *)
FirstFree(s) ==
  /\ s # IdleTask
  /\ state[s] = "Free"
  /\ \A u \in Slots \ {IdleTask} : state[u] = "Free" => s <= u

(* SPAWN of an ELF image: the claim, then (IRQs on, so ticks fall between) *)
(* the install, or the release if the image cannot be loaded.              *)
Claim(s) ==
  /\ Acts
  /\ current = InitTask
  /\ FirstFree(s)
  /\ state' = [state EXCEPT ![s] = "Reserved"]
  /\ UNCHANGED <<current, donor, target, space, wait, halted>>

SpawnEnds(s) ==
  /\ ~halted
  /\ current = InitTask
  /\ state[InitTask] = "Running"
  /\ state[s] = "Reserved"

Install(s) ==
  /\ SpawnEnds(s)
  /\ state' = [state EXCEPT ![s] = "Ready"]
  /\ space' = [space EXCEPT ![s] = TRUE]
  /\ UNCHANGED <<current, donor, target, wait, halted>>

Release(s) ==
  /\ SpawnEnds(s)
  /\ state' = [state EXCEPT ![s] = "Free"]
  /\ UNCHANGED <<current, donor, target, space, wait, halted>>

(* SPAWN of a built-in: no ELF to load, so IRQs stay masked throughout.    *)
SpawnBuiltin(s) ==
  /\ Acts
  /\ current = InitTask
  /\ FirstFree(s)
  /\ state' = [state EXCEPT ![s] = "Ready"]
  /\ UNCHANGED <<current, donor, target, space, wait, halted>>

Next ==
  \/ Tick
  \/ \E t \in Slots : ClockPasses(t)
  \/ Yield
  \/ \E deadline \in {"forever", "later"} : RecvBlocks(deadline)
  \/ BuiltinRecvBlocks
  \/ \E t \in Slots : SendHandsOff(t)
  \/ \E t \in Slots : Wake(t)
  \/ \E notified \in BOOLEAN : Exit(notified)
  \/ \E notified \in BOOLEAN : Fault(notified)
  \/ InitExits
  \/ HaltLoop
  \/ \E s \in Slots : Claim(s)
  \/ \E s \in Slots : Install(s)
  \/ \E s \in Slots : Release(s)
  \/ \E s \in Slots : SpawnBuiltin(s)

(* The timer is the only thing the hardware promises: it fires again after *)
(* every tick (1000 Hz), and the clock moves past every deadline.          *)
Fairness ==
  /\ WF_vars(Tick)
  /\ \A t \in Slots : WF_vars(ClockPasses(t))

Spec == Init /\ [][Next]_vars
FairSpec == Spec /\ Fairness

-----------------------------------------------------------------------------
(* The values each variable may hold.                                      *)
TypeOK ==
  /\ state \in [Slots -> States]
  /\ current \in Slots
  /\ donor \in Slots \cup {NONE}
  /\ target \in Slots \cup {NONE}
  /\ space \in [Slots -> BOOLEAN]
  /\ wait \in [Slots -> Waits]
  /\ halted \in BOOLEAN

(* No slot but the one on the CPU is Running, and slot 0 can always be     *)
(* run: switch_away's unwrap_or(0) never resumes a slot without a frame.   *)
OneRunning ==
  /\ \A t \in Slots : state[t] = "Running" => t = current
  /\ state[IdleTask] \in {"Ready", "Running"}

(* A recorded hand-off is always one the kernel could still return from:   *)
(* its target is the live task on the CPU and its donor, another task, is  *)
(* Ready.  So the checks switch_away makes on the donor never fail.        *)
HandOffPair ==
  /\ donor = NONE <=> target = NONE
  /\ donor # NONE => /\ target = current
                     /\ state[target] = "Running"
                     /\ donor # current
                     /\ state[donor] = "Ready"

(* A blocked EL0 task is always in a recv that a send or the clock can     *)
(* finish, and only a blocked EL0 task is; a wait left behind by a task    *)
(* that runs or has gone would have a later message delivered into it.     *)
WaitsAreBlocked ==
  \A t \in Slots :
    wait[t] # "none" <=> state[t] = "Blocked" /\ space[t]

(* The CPU is only ever given to a task with a live saved frame: one that  *)
(* was Ready, or was Blocked and has been woken in the same step.          *)
LiveFramesOnly ==
  [][current' # current => state[current'] \in {"Ready", "Blocked"}]_vars

(* The strengthening of the invariants above that every step preserves: a  *)
(* slot that is not a task's has no address space, and only an EL0 task is *)
(* ever handed the CPU (so the target of a hand-off cannot block without   *)
(* switching away).                                                        *)
EmptySlotsHaveNoSpace ==
  \A t \in Slots : state[t] \in {"Free", "Reserved"} => ~space[t]

IInv ==
  /\ TypeOK
  /\ OneRunning
  /\ HandOffPair
  /\ donor # NONE => space[target]
  /\ WaitsAreBlocked
  /\ EmptySlotsHaveNoSpace

-----------------------------------------------------------------------------
(* A hand-off, and one made while an earlier hand-off is outstanding.      *)
HandsOff == donor' # NONE /\ donor' = current /\ current' # current
Chains == HandsOff /\ donor # NONE

(* Design document, section 4: "The timer tick still preempts and rotates, *)
(* so fairness holds at tick granularity": a ready task eventually runs.   *)
TickFairness ==
  \A t \in Slots \ {IdleTask} :
    state[t] = "Ready" ~> (state[t] = "Running" \/ halted)

(* What the code does provide: if from some point on no task hands the CPU *)
(* on while it runs on a hand-off itself, every ready task eventually runs.*)
UnchainedFairness == <>[][~Chains]_vars => TickFairness

(* Under the same premise a recv with a deadline returns: the task runs    *)
(* again, or the system halts.                                             *)
TimedRecvReturns ==
  <>[][~Chains]_vars =>
    \A t \in Slots : wait[t] = "later" ~> (state[t] = "Running" \/ halted)
=============================================================================
