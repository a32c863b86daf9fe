----------------------------- MODULE Supervisor -----------------------------
(***************************************************************************)
(* init (userbins/init), the services it keeps running, and the kernel's   *)
(* registry of them.  init reads its inbox, which the kernel fills with a  *)
(* notice for every exit and the shell with restart requests, and starts   *)
(* services with SPAWN.  It is preemptible: services exit, and the shell   *)
(* asks, between any two of its steps.                                     *)
(*                                                                         *)
(* The inbox is the mailbox of module Mailbox, which the queue and backlog *)
(* of module Kernel implement: one sequence, with a reserve for notices.   *)
(***************************************************************************)
EXTENDS Integers, Sequences, FiniteSets

CONSTANTS
  NServices,          \* the length of init's TABLE
  NSlots,             \* the task slots init can fill
  Shell,              \* the service that sends restart requests
  Optional,           \* the services whose binary may be absent
  Missing,            \* those whose binary is not there
  FirstDelay,         \* restart_after_ms, 0 for a service not supervised
  RetryCap,           \* RETRY_CAP_MS
  InboxCap, Reserve,  \* CHANNEL_CAP and BACKLOG_CAP
  MaxGeneration       \* a bound of the model: tasks in one slot that exit

Services == 1 .. NServices

ASSUME SupervisorAssumption ==
  /\ NServices \in Nat \ {0}
  /\ NSlots \in Nat
  /\ Shell \in Services
  /\ Optional \subseteq Services
  /\ Missing \subseteq Services
  /\ FirstDelay \in [Services -> Nat]
  /\ RetryCap \in Nat
  /\ InboxCap \in Nat \ {0}
  (* One notice for each service has a place behind a full channel.        *)
  /\ Reserve \in Nat /\ Reserve >= NServices
  /\ MaxGeneration \in Nat \ {0}

VARIABLES
  (* init's own *)
  pc,                 \* "boot", "recv", "request", "sample", "sweep", or
                      \* inside a launch: "load", "record"
  todo,               \* the services this round still has to launch
  launching,          \* the service being launched, and for which round
  task,               \* Runtime.task
  restart,            \* Runtime.restart_at: "none", "later" or "due"
  retry,              \* Runtime.retry_ms
  (* the kernel's *)
  slot,               \* what each slot is: a service's, Free or Reserved
  generation,         \* tasks installed in each slot
  inbox,
  registry            \* the ServiceRecord of each service

initVars == <<pc, todo, launching, task, restart, retry>>
kernelVars == <<slot, generation, inbox, registry>>
vars == <<initVars, kernelVars>>

Slots == 1 .. NSlots
Free == 0
Reserved == -1
TaskRefs == Slots \X (1 .. MaxGeneration)
NoTask == <<0, 0>>
NoLaunch == [service |-> 0, round |-> "none", ref |-> NoTask]

Supervised == {s \in Services : FirstDelay[s] > 0}
Ref(i) == <<i, generation[i]>>
Running(s) == \E i \in Slots : slot[i] = s

(* A request carries, for the properties only, whether the service was     *)
(* down when it was sent, and how often it had been started.               *)
Notice(ref) == [exited |-> ref, service |-> 0, down |-> FALSE, starts |-> 0]
Request(s) == [exited |-> NoTask, service |-> s, down |-> ~Running(s),
               starts |-> registry[s].starts]
IsNotice(m) == m.service = 0

Init ==
  /\ pc = "boot"
  /\ todo = Services
  /\ launching = NoLaunch
  /\ task = [s \in Services |-> NoTask]
  /\ restart = [s \in Services |-> "none"]
  /\ retry = [s \in Services |-> 0]
  /\ slot = [i \in Slots |-> Free]
  /\ generation = [i \in Slots |-> 0]
  /\ inbox = <<>>
  /\ registry = [s \in Services |->
                   [task |-> NoTask, starts |-> 0, exits |-> 0]]

-----------------------------------------------------------------------------
(* The services and the kernel.                                            *)

(* Mutant: the record goes on naming the task.                             *)
Charge_KeepsTask(ref) ==
  [s \in Services |->
     IF registry[s].task = ref
       THEN [registry[s] EXCEPT !.exits = @ + 1]
       ELSE registry[s]]

(* on_exit: the record of that exact task is charged with the exit.        *)
Charge(ref) ==
  [s \in Services |->
     IF registry[s].task = ref
       THEN [registry[s] EXCEPT !.task = NoTask, !.exits = @ + 1]
       ELSE registry[s]]

(* Mutant: a notice has no place kept for it.                              *)
Tell_NoReserve(m) ==
  inbox' = IF Len(inbox) < InboxCap THEN Append(inbox, m) ELSE inbox

(* send_as_kernel.                                                         *)
Tell(m) ==
  inbox' = IF Len(inbox) < InboxCap + Reserve THEN Append(inbox, m) ELSE inbox

(* A service exits or faults (retire_current).                             *)
Exits(i) ==
  /\ slot[i] \in Services
  /\ generation[i] < MaxGeneration
  /\ slot' = [slot EXCEPT ![i] = Free]
  /\ registry' = Charge(Ref(i))
  /\ Tell(Notice(Ref(i)))
  /\ UNCHANGED <<initVars, generation>>

(* Mutants: a request gets in ahead of the notices that wait, or into a    *)
(* full inbox.                                                             *)
Asks_Overtakes(s) ==
  /\ Running(Shell)
  /\ Len(inbox) < InboxCap
  /\ inbox' = <<Request(s)>> \o inbox
  /\ UNCHANGED <<initVars, slot, generation, registry>>

Asks_Anyway(s) ==
  /\ Running(Shell)
  /\ inbox' = Append(inbox, Request(s))
  /\ UNCHANGED <<initVars, slot, generation, registry>>

(* The shell's `restart` command; the shell says so if the inbox is full.  *)
Asks(s) ==
  /\ Running(Shell)
  /\ Len(inbox) < InboxCap
  /\ inbox' = Append(inbox, Request(s))
  /\ UNCHANGED <<initVars, slot, generation, registry>>

(* The clock passes a restart_at.                                          *)
ClockPasses(s) ==
  /\ restart[s] = "later"
  /\ restart' = [restart EXCEPT ![s] = "due"]
  /\ UNCHANGED <<pc, todo, launching, task, retry, kernelVars>>

-----------------------------------------------------------------------------
(* launch.  Each step of a round launches the first service left to do;    *)
(* the SPAWN it makes claims a slot, loads the image with IRQs enabled,    *)
(* and installs the task.  init notes the new task only after that.        *)

(* Where init goes once round r has nothing left to do.                    *)
After(r, left) ==
  IF left # {} THEN r ELSE IF r = "request" THEN "sample" ELSE "recv"

First(s) == s \in todo /\ \A u \in todo : s <= u

LaunchDone ==
  /\ launching' = NoLaunch
  /\ pc' = After(launching.round, todo)

(* A round of due restarts clears each restart_at as it comes to it.       *)
Cleared(s) == [restart EXCEPT ![s] = IF pc = "sweep" THEN "none" ELSE @]

Lower(a, b) == IF a < b THEN a ELSE b
Higher(a, b) == IF a < b THEN b ELSE a

(* How long to wait before the next try: the service's own delay, then     *)
(* twice the last wait, up to RetryCap.                                    *)
NextWait(s) ==
  IF retry[s] = 0 THEN FirstDelay[s]
                  ELSE Higher(Lower(2 * retry[s], RetryCap), FirstDelay[s])

(* Mutant: a failed start is not retried.                                  *)
Failed_Forgotten(s) ==
  /\ task' = [task EXCEPT ![s] = NoTask]
  /\ restart' = Cleared(s)
  /\ UNCHANGED retry

(* The start failed; a supervised service is tried again later.            *)
Failed(s) ==
  /\ task' = [task EXCEPT ![s] = NoTask]
  /\ IF s \in Supervised
       THEN /\ retry' = [retry EXCEPT ![s] = NextWait(s)]
            /\ restart' = [restart EXCEPT ![s] = "later"]
       ELSE /\ restart' = Cleared(s)
            /\ UNCHANGED retry

Claim(s, i) ==
  /\ pc \in {"boot", "request", "sweep"}
  /\ First(s)
  /\ s \notin Missing
  /\ slot[i] = Free
  /\ \A j \in Slots : slot[j] = Free => i <= j
  /\ slot' = [slot EXCEPT ![i] = Reserved]
  /\ todo' = todo \ {s}
  /\ launching' = [service |-> s, round |-> pc, ref |-> NoTask]
  /\ pc' = "load"
  /\ task' = [task EXCEPT ![s] = NoTask]
  /\ restart' = Cleared(s)
  /\ UNCHANGED <<retry, generation, inbox, registry>>

(* No slot is free, or the binary is missing; an optional service without  *)
(* its binary is left alone.                                               *)
Refused(s) ==
  /\ pc \in {"boot", "request", "sweep"}
  /\ First(s)
  /\ s \in Missing \/ \A i \in Slots : slot[i] # Free
  /\ todo' = todo \ {s}
  /\ IF s \in Missing \cap Optional
       THEN /\ task' = [task EXCEPT ![s] = NoTask]
            /\ restart' = Cleared(s)
            /\ UNCHANGED retry
       ELSE Failed(s)
  /\ pc' = After(pc, todo')
  /\ UNCHANGED <<launching, kernelVars>>

(* The image is bad, or memory is short: the slot is given back.           *)
LoadFails(i) ==
  /\ pc = "load"
  /\ slot[i] = Reserved
  /\ slot' = [slot EXCEPT ![i] = Free]
  /\ Failed(launching.service)
  /\ LaunchDone
  /\ UNCHANGED <<todo, generation, inbox, registry>>

(* install, with on_spawn in the same step.                                *)
Install(i) ==
  /\ pc = "load"
  /\ slot[i] = Reserved
  /\ slot' = [slot EXCEPT ![i] = launching.service]
  /\ generation' = [generation EXCEPT ![i] = @ + 1]
  /\ registry' = [registry EXCEPT ![launching.service] =
       [registry[launching.service] EXCEPT !.task = <<i, generation[i] + 1>>,
                                           !.starts = @ + 1]]
  /\ launching' = [launching EXCEPT !.ref = <<i, generation[i] + 1>>]
  /\ pc' = "record"
  /\ UNCHANGED <<todo, task, restart, retry, inbox>>

Record ==
  /\ pc = "record"
  /\ task' = [task EXCEPT ![launching.service] = launching.ref]
  /\ retry' = [retry EXCEPT ![launching.service] = 0]
  /\ LaunchDone
  /\ UNCHANGED <<todo, restart, kernelVars>>

-----------------------------------------------------------------------------
(* The loop.                                                               *)

(* The service whose running instance init believes ref to be.             *)
Owns(s, ref) == task[s] = ref

(* An exit notice; one of a task init does not know is ignored.            *)
HearsExit(m) ==
  /\ task' = [s \in Services |-> IF Owns(s, m.exited) THEN NoTask ELSE task[s]]
  /\ restart' = [s \in Services |->
       IF Owns(s, m.exited) /\ s \in Supervised THEN "later" ELSE restart[s]]
  /\ pc' = "sample"
  /\ UNCHANGED todo

(* Mutant: a request does not cancel the restart already scheduled.        *)
HearsRequest_KeepsSchedule(m) ==
  /\ IF task[m.service] # NoTask
       THEN pc' = "sample" /\ UNCHANGED todo
       ELSE pc' = "request" /\ todo' = {m.service}
  /\ UNCHANGED <<task, restart>>

(* A restart request: ignored if init believes the service to run.         *)
HearsRequest(m) ==
  /\ IF task[m.service] # NoTask
       THEN /\ pc' = "sample"
            /\ UNCHANGED <<todo, restart>>
       ELSE /\ pc' = "request"
            /\ todo' = {m.service}
            /\ restart' = [restart EXCEPT ![m.service] = "none"]
  /\ UNCHANGED task

Receive ==
  /\ pc = "recv"
  /\ inbox # <<>>
  /\ IF IsNotice(Head(inbox)) THEN HearsExit(Head(inbox))
                              ELSE HearsRequest(Head(inbox))
  /\ inbox' = Tail(inbox)
  /\ UNCHANGED <<launching, retry, slot, generation, registry>>

(* Mutant: init waits without a deadline.                                  *)
TimesOut_Never == FALSE

(* The recv's deadline, the earliest restart_at, has passed.               *)
TimesOut ==
  /\ pc = "recv"
  /\ inbox = <<>>
  /\ \E s \in Services : restart[s] = "due"
  /\ pc' = "sample"
  /\ UNCHANGED <<todo, launching, task, restart, retry, kernelVars>>

(* init reads the clock once, and then launches every service that is due. *)
Sample ==
  /\ pc = "sample"
  /\ todo' = {s \in Services : restart[s] = "due"}
  /\ pc' = IF todo' = {} THEN "recv" ELSE "sweep"
  /\ UNCHANGED <<launching, task, restart, retry, kernelVars>>

(* With nothing due and nothing to read, init may sleep for ever.          *)
Sleeps ==
  /\ pc = "recv"
  /\ inbox = <<>>
  /\ \A s \in Services : restart[s] = "none"
  /\ UNCHANGED vars

InitStep ==
  \/ \E s \in Services, i \in Slots : Claim(s, i)
  \/ \E s \in Services : Refused(s)
  \/ \E i \in Slots : LoadFails(i)
  \/ \E i \in Slots : Install(i)
  \/ Record
  \/ Receive
  \/ TimesOut
  \/ Sample

Next ==
  \/ \E i \in Slots : Exits(i)
  \/ \E s \in Services : Asks(s)
  \/ \E s \in Services : ClockPasses(s)
  \/ InitStep
  \/ Sleeps

Spec == Init /\ [][Next]_vars

(* init runs whenever it can: no hand-off chain keeps it off the CPU (see  *)
(* Scheduler), the clock advances, and a service whose start keeps being   *)
(* tried is not refused memory every time.                                 *)
Fairness ==
  /\ WF_vars(InitStep)
  /\ \A s \in Services : WF_vars(ClockPasses(s))
  /\ \A s \in Services :
       SF_vars(launching.service = s /\ \E i \in Slots : Install(i))

FairSpec == Spec /\ Fairness

-----------------------------------------------------------------------------
(* The values each variable may hold.                                      *)
TypeOK ==
  /\ pc \in {"boot", "recv", "request", "sample", "sweep", "load", "record"}
  /\ todo \subseteq Services
  /\ launching \in [service : Services \cup {0},
                    round : {"boot", "request", "sweep", "none"},
                    ref : TaskRefs \cup {NoTask}]
  /\ task \in [Services -> TaskRefs \cup {NoTask}]
  /\ restart \in [Services -> {"none", "later", "due"}]
  /\ retry \in [Services -> Nat]
  /\ \A s \in Services : retry[s] <= Higher(RetryCap, FirstDelay[s])
  /\ slot \in [Slots -> Services \cup {Free, Reserved}]
  /\ generation \in [Slots -> 0 .. MaxGeneration]
  /\ inbox \in Seq([exited : TaskRefs \cup {NoTask}, service : Services \cup {0},
                    down : BOOLEAN, starts : Nat])
  /\ Len(inbox) <= InboxCap + Reserve
  /\ registry \in [Services -> [task : TaskRefs \cup {NoTask}, starts : Nat,
                                exits : Nat]]

Waiting(ref) == \E i \in 1 .. Len(inbox) : inbox[i] = Notice(ref)

(* init never believes in a task that is gone unless the kernel's word of  *)
(* it is on its way (ipc.rs:167 "A kernel notice is never lost to a full   *)
(* queue"), and knows of every task that runs once its launch is over.     *)
InitKnows ==
  /\ \A s \in Services : task[s] # NoTask =>
       \/ slot[task[s][1]] = s /\ generation[task[s][1]] = task[s][2]
       \/ Waiting(task[s])
  /\ \A i \in Slots : slot[i] \in Services =>
       Ref(i) \in {task[slot[i]], launching.ref}

(* ipc.rs:91 "init has at most one instance of each service in flight":    *)
(* exits, scheduled restarts and requests never make it two.               *)
OneInstance ==
  \A i, j \in Slots : slot[i] \in Services /\ slot[i] = slot[j] => i = j

(* launch, "without a retry the service would stay down for good": a       *)
(* supervised service that is down is about to be launched, is scheduled   *)
(* to be, or its exit is still to be heard of.                             *)
NeverForgotten ==
  \A s \in Supervised \ (Missing \cap Optional) :
    \/ Running(s)
    \/ s \in todo
    \/ launching.service = s
    \/ restart[s] # "none"
    \/ task[s] # NoTask /\ Waiting(task[s])

(* The registry, which the shell and MCP read, agrees with the task table. *)
RegistryAgrees ==
  \A s \in Services :
    /\ \A i \in Slots : slot[i] = s => registry[s].task = Ref(i)
    /\ ~Running(s) => registry[s].task = NoTask
    /\ registry[s].starts - registry[s].exits = (IF Running(s) THEN 1 ELSE 0)

(* A request for a service that was down when the shell asked is never     *)
(* turned away as "already running", unless the service has been started   *)
(* since: when init comes to read it, it has heard of the exit.            *)
RequestsOfTheDown ==
  \A i \in 1 .. Len(inbox) :
    LET m == inbox[i] IN
    ~IsNotice(m) /\ m.down /\ registry[m.service].starts = m.starts =>
      \/ task[m.service] = NoTask
      \/ \E j \in 1 .. i - 1 : inbox[j] = Notice(task[m.service])

(* A supervised service that is down comes up again.                       *)
ServicesComeBack ==
  \A s \in Supervised \ Missing : ~Running(s) ~> Running(s)
=============================================================================
