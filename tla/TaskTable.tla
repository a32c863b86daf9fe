----------------------------- MODULE TaskTable -----------------------------
(***************************************************************************)
(* The task table of kernel/src/arch/aarch64/context.rs and the three ways *)
(* a CPU changes hands in it: switch_away, hand_off and run.               *)
(*                                                                         *)
(* One CPU runs the whole kernel and every handler that touches the table  *)
(* runs with IRQs masked, so a handler is one step.  The operators below   *)
(* take the table the handler has reached so far (st) and describe the     *)
(* step that ends it.                                                      *)
(***************************************************************************)
EXTENDS Integers

CONSTANT MaxTasks                 \* MAX_TASKS: slots in the table

(* Slot 0 is the boot/idle task and slot 1, the first one claimed, init.   *)
ASSUME MaxTasksAssumption == MaxTasks \in Nat /\ MaxTasks >= 2

VARIABLES
  state,                          \* State of each slot
  current,                        \* CURRENT: the slot the CPU runs
  donor,                          \* DONOR and TARGET: the last direct
  target                          \* hand-off, NONE when there is none

tableVars == <<state, current, donor, target>>

Slots == 0 .. MaxTasks - 1
NONE == MaxTasks                  \* usize::MAX in the code: beyond every slot
IdleTask == 0
InitTask == 1

States == {"Free", "Reserved", "Ready", "Running", "Blocked"}

-----------------------------------------------------------------------------
(* Mutant: the outgoing task is not put back to Ready.                     *)
Demote_Forgets(st) == st

(* The outgoing task keeps the CPU's claim on its frame: it stays Ready    *)
(* unless it blocked or left.                                              *)
Demote(st) == [st EXCEPT ![current] = IF @ = "Running" THEN "Ready" ELSE @]

(* How many slots after the current one t comes, cyclically: 1 .. MaxTasks *)
Distance(t) == IF t > current THEN t - current ELSE t - current + MaxTasks

(* Mutants: the search starts at slot 0 each time, and takes any slot that *)
(* is not blocked.                                                         *)
NextInTurn_FromZero(st, t) ==
  \/ /\ st[t] = "Ready"
     /\ \A u \in Slots : st[u] = "Ready" => t <= u
  \/ /\ t = IdleTask
     /\ \A u \in Slots : st[u] # "Ready"

NextInTurn_NotBlocked(st, t) ==
  /\ st[t] # "Blocked"
  /\ \A u \in Slots : st[u] # "Blocked" => Distance(t) <= Distance(u)

(* The round-robin choice: the first Ready slot after the current one, and *)
(* slot 0 when there is none.                                              *)
NextInTurn(st, t) ==
  \/ /\ st[t] = "Ready"
     /\ \A u \in Slots : st[u] = "Ready" => Distance(t) <= Distance(u)
  \/ /\ t = IdleTask
     /\ \A u \in Slots : st[u] # "Ready"

Run(st, next) ==
  /\ state' = [st EXCEPT ![next] = "Running"]
  /\ current' = next

(* Mutant: a sentinel no other code tests for.                             *)
ForgetHandOff_MinusOne == donor' = -1 /\ target' = -1

ForgetHandOff == donor' = NONE /\ target' = NONE

(* Sender-return: the hand-off from d to tg is outstanding, tg has blocked *)
(* and d is still ready.                                                   *)
SenderReturns(st, d, tg) ==
  /\ tg = current
  /\ st[current] = "Blocked"
  /\ d \in Slots
  /\ st[d] = "Ready"

(* The task switch_away runs next, with the hand-off (d, tg) outstanding.  *)
Successor(st, d, tg, t) ==
  IF SenderReturns(st, d, tg) THEN t = d ELSE NextInTurn(st, t)

SwitchAway(st, d, tg) ==
  /\ ForgetHandOff
  /\ \E next \in Slots :
       /\ Successor(Demote(st), d, tg, next)
       /\ Run(Demote(st), next)

(* hand_off: run t now and remember who gave it the CPU; anything but a    *)
(* Ready target gets an ordinary switch.                                   *)
HandOff(st, t) ==
  IF t \notin Slots \/ st[t] # "Ready"
    THEN SwitchAway(st, donor, target)
    ELSE /\ donor' = current
         /\ target' = t
         /\ Run(Demote(st), t)
=============================================================================
