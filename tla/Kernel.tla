------------------------------- MODULE Kernel -------------------------------
(***************************************************************************)
(* The kernel that its tasks see: syscalls of EL0 tasks, the IPC calls of  *)
(* the EL1 built-ins, the timer tick, faults, and init's spawns.  Each     *)
(* action is a whole handler, from its entry to the switch that ends it;   *)
(* only the SPAWN of an ELF image, which runs with IRQs enabled, is split  *)
(* where a tick can come in.  A call that is refused changes nothing and   *)
(* is a stuttering step.                                                   *)
(***************************************************************************)
EXTENDS Rights, FiniteSets

CONSTANTS
  Builtins,           \* the EL1 services that init may start
  GrantLists          \* the grants init may put in a spawn request

ASSUME KernelAssumption ==
  /\ Builtins \subseteq {"mcp", "kbd", "comp", "shell", "dash"}
  /\ GrantLists \subseteq Seq(Grants)

VARIABLES
  program,            \* what the slot's task runs: "none", "elf", a built-in
  generation,         \* GENERATIONS: tasks installed in each slot
  pending,            \* PENDING_FREES: whose kernel stack is still mapped
  spawn,              \* init's SPAWN of an ELF image, in progress
  halted              \* init has exited: wfi with IRQs masked

taskVars == <<program, generation, pending, spawn, halted>>
vars == <<tableVars, ipcVars, rightsVars, taskVars>>

Idle == [step |-> "idle", grants |-> <<>>]

(* The task on the CPU, and its kernel stack.                              *)
Me == <<current, generation[current]>>

(* After main.rs: the boot channels, init in slot 1 with RECV on its inbox *)
(* as handle 0, and IRQs just enabled.                                     *)
Init ==
  /\ state = [t \in Slots |-> IF t = IdleTask THEN "Running"
                             ELSE IF t = InitTask THEN "Ready" ELSE "Free"]
  /\ current = IdleTask
  /\ donor = NONE
  /\ target = NONE
  /\ queue = [c \in Channels |-> <<>>]
  /\ waiter = [c \in Channels |-> NONE]
  /\ backlog = <<>>
  /\ wait = [t \in Slots |-> NoWait]
  /\ result = [t \in Slots |-> Nothing]
  /\ handles = [t \in Slots |->
       IF t = InitTask
         THEN [EmptyTable EXCEPT ![0] = [channel |-> INIT_INBOX, rights |-> {"recv"}]]
         ELSE EmptyTable]
  /\ receiver = [c \in Channels |-> IF c = INIT_INBOX THEN InitTask ELSE NONE]
  /\ home = [c \in Channels |-> NoHome]
  /\ nextId = BootChannels
  /\ program = [t \in Slots |-> IF t = InitTask THEN "elf" ELSE "none"]
  /\ generation = [t \in Slots |-> IF t = InitTask THEN 1 ELSE 0]
  /\ pending = {}
  /\ spawn = Idle
  /\ halted = FALSE

Acts ==
  /\ ~halted
  /\ state[current] = "Running"
  /\ current = InitTask => spawn = Idle

User == Acts /\ program[current] = "elf"
Builtin == Acts /\ program[current] \in Builtins

-----------------------------------------------------------------------------
Expired == {t \in Slots \ {IdleTask} : wait[t].deadline = "past"}

(* Mutant: the test for the stack in use is inverted.                      *)
Reaped_Inverted(inUse) == pending \ {inUse}

(* reap_pending_frees: every stack is freed but the one the caller says it *)
(* runs on, which stays in the queue.                                      *)
Reaped(inUse) == pending \cap {inUse}

(* A spawn says none: its caller is alive.                                 *)
NoStack == <<IdleTask, 0>>

Tick ==
  /\ ~halted
  /\ pending' = Reaped(Me)
  /\ waiter' = Cancelled(Expired, waiter, wait)
  /\ wait' = [t \in Slots |-> IF t \in Expired THEN NoWait ELSE wait[t]]
  /\ result' = [t \in Slots |-> IF t \in Expired THEN TimedOut ELSE result[t]]
  /\ SwitchAway([t \in Slots |-> IF t \in Expired THEN "Ready" ELSE state[t]],
                NONE, NONE)
  /\ UNCHANGED <<queue, backlog, rightsVars, program, generation, spawn, halted>>

ClockPasses(t) ==
  /\ ~halted
  /\ wait[t].deadline = "later"
  /\ wait' = [wait EXCEPT ![t].deadline = "past"]
  /\ UNCHANGED <<tableVars, queue, waiter, backlog, result, rightsVars, taskVars>>

Yield ==
  /\ User
  /\ SwitchAway(state, donor, target)
  /\ UNCHANGED <<ipcVars, rightsVars, taskVars>>

(* SEND.  A message that is taken at once by a waiting task hands it the   *)
(* CPU; any other leaves the sender running.                               *)
SendSyscall(h, m) ==
  /\ User
  /\ Holds(current, h, "send")
  /\ LET c == handles[current][h].channel IN
     /\ Len(queue[c]) < ChannelCap
     /\ Arrive(c, m, waiter, wait)
     /\ IF HasUserWait(c, waiter, wait)
          THEN HandOff(Woken(c, waiter, wait, state), waiter[c])
          ELSE /\ state' = Woken(c, waiter, wait, state)
               /\ UNCHANGED <<current, donor, target>>
  /\ UNCHANGED <<backlog, rightsVars, taskVars>>

(* RECV and TRY_RECV with a message there, and RECV with none.             *)
RecvTakes(h) ==
  /\ User
  /\ Holds(current, h, "recv")
  /\ queue[handles[current][h].channel] # <<>>
  /\ Take(handles[current][h].channel)
  /\ result' = [result EXCEPT ![current] = Head(queue[handles[current][h].channel])]
  /\ UNCHANGED <<tableVars, waiter, wait, rightsVars, taskVars>>

RecvBlocks(h, deadline) ==
  /\ User
  /\ Holds(current, h, "recv")
  /\ LET c == handles[current][h].channel IN
     /\ queue[c] = <<>>
     /\ waiter' = [waiter EXCEPT ![c] = current]
     /\ wait' = [wait EXCEPT ![current] = [channel |-> c, deadline |-> deadline]]
  /\ result' = [result EXCEPT ![current] = Nothing]
  /\ SwitchAway([state EXCEPT ![current] = "Blocked"], donor, target)
  /\ UNCHANGED <<queue, backlog, rightsVars, taskVars>>

-----------------------------------------------------------------------------
(* The built-ins.  The shell blocks on its keys, the compositor polls the  *)
(* keyboard's, and neither refills a channel from the backlog.             *)
Reads == [shell |-> {SHELL_KEYS}, comp |-> {KBD_EVENTS},
          kbd |-> {}, mcp |-> {}, dash |-> {}]
Sends == [kbd |-> {KBD_EVENTS}, comp |-> {SHELL_KEYS}, shell |-> {INIT_INBOX},
          mcp |-> {}, dash |-> {}]

BuiltinTakes(c) ==
  /\ Builtin
  /\ c \in Reads[program[current]]
  /\ queue[c] # <<>>
  /\ queue' = [queue EXCEPT ![c] = Tail(@)]
  /\ result' = [result EXCEPT ![current] = Head(queue[c])]
  /\ UNCHANGED <<tableVars, waiter, backlog, wait, rightsVars, taskVars>>

(* ipc::recv: Blocked at once, but on the CPU until the tick.              *)
BuiltinBlocks(c) ==
  /\ Builtin
  /\ program[current] = "shell"
  /\ c \in Reads["shell"]
  /\ queue[c] = <<>>
  /\ waiter' = [waiter EXCEPT ![c] = current]
  /\ state' = [state EXCEPT ![current] = "Blocked"]
  /\ result' = [result EXCEPT ![current] = Nothing]
  /\ UNCHANGED <<current, donor, target, queue, backlog, wait, rightsVars, taskVars>>

(* Mutant: a built-in hands the CPU to the task it has delivered to.       *)
BuiltinSends_HandsOff(c, m) ==
  /\ Builtin
  /\ c \in Sends[program[current]]
  /\ Len(queue[c]) < ChannelCap
  /\ Arrive(c, m, waiter, wait)
  /\ HandOff(Woken(c, waiter, wait, state), waiter[c])
  /\ UNCHANGED <<backlog, rightsVars, taskVars>>

(* ipc::send, which drops the message if the channel is full and never     *)
(* hands the CPU over.                                                     *)
BuiltinSends(c, m) ==
  /\ Builtin
  /\ c \in Sends[program[current]]
  /\ Len(queue[c]) < ChannelCap
  /\ Arrive(c, m, waiter, wait)
  /\ state' = Woken(c, waiter, wait, state)
  /\ UNCHANGED <<current, donor, target, backlog, rightsVars, taskVars>>

-----------------------------------------------------------------------------
(* retire_current: everything it does but the choice of the next task.     *)
Leaves == current \in {donor, target}
DonorLeft == IF Leaves THEN NONE ELSE donor
TargetLeft == IF Leaves THEN NONE ELSE target

WaitersLeft ==
  [c \in Channels |->
     IF c \in GivenUp(current) /\ waiter[c] = current
       THEN NONE ELSE Cancelled({current}, waiter, wait)[c]]
WaitsLeft == [wait EXCEPT ![current] = NoWait]

Retire ==
  /\ Acts
  /\ current \notin {IdleTask, InitTask}
  /\ SendHome(current)
  /\ pending' = pending \cup {Me}
  /\ program' = [program EXCEPT ![current] = "none"]
  /\ Notify(Me, WaitersLeft, WaitsLeft)
  /\ UNCHANGED <<nextId, generation, spawn, halted>>

Retired ==
  WokenByNotice(WaitersLeft, WaitsLeft, [state EXCEPT ![current] = "Free"])

Exit ==
  /\ User
  /\ Retire
  /\ SwitchAway(Retired, DonorLeft, TargetLeft)

Fault ==
  /\ Retire
  /\ state' = Retired
  /\ donor' = DonorLeft
  /\ target' = TargetLeft
  /\ UNCHANGED current

InitExits ==
  /\ Acts
  /\ current = InitTask
  /\ halted' = TRUE
  /\ UNCHANGED <<tableVars, ipcVars, rightsVars, program, generation, pending, spawn>>

HaltLoop == halted /\ UNCHANGED vars

-----------------------------------------------------------------------------
ChannelCreate(h) ==
  /\ User
  /\ current = InitTask
  /\ Create(h)
  /\ UNCHANGED <<tableVars, ipcVars, taskVars>>

FirstFree(s) ==
  /\ s # IdleTask
  /\ state[s] = "Free"
  /\ \A u \in Slots \ {IdleTask} : state[u] = "Free" => s <= u

NoneFree == \A s \in Slots \ {IdleTask} : state[s] # "Free"

(* SPAWN of an ELF image: the grants resolved with IRQs masked, then, with *)
(* IRQs enabled, the reap, the claim, the build, and the install.          *)
SpawnBegins(grants) ==
  /\ User
  /\ current = InitTask
  /\ Resolves(grants)
  /\ spawn' = [step |-> "reap", grants |-> grants]
  /\ UNCHANGED <<tableVars, ipcVars, rightsVars, program, generation, pending, halted>>

SpawnAt(step) ==
  /\ ~halted
  /\ current = InitTask
  /\ state[InitTask] = "Running"
  /\ spawn.step = step

SpawnReaps ==
  /\ SpawnAt("reap")
  /\ pending' = Reaped(NoStack)
  /\ spawn' = [spawn EXCEPT !.step = "claim"]
  /\ UNCHANGED <<tableVars, ipcVars, rightsVars, program, generation, halted>>

SpawnClaims(s) ==
  /\ SpawnAt("claim")
  /\ FirstFree(s)
  /\ state' = [state EXCEPT ![s] = "Reserved"]
  /\ spawn' = [spawn EXCEPT !.step = "build"]
  /\ UNCHANGED <<current, donor, target, ipcVars, rightsVars, program, generation,
                 pending, halted>>

SpawnFindsNoSlot ==
  /\ SpawnAt("claim")
  /\ NoneFree
  /\ spawn' = Idle
  /\ UNCHANGED <<tableVars, ipcVars, rightsVars, program, generation, pending, halted>>

(* Mutant: the new task is told apart from the old one by its slot alone.  *)
SpawnInstalls_SameGeneration(s) ==
  /\ SpawnAt("build")
  /\ state[s] = "Reserved"
  /\ state' = [state EXCEPT ![s] = "Ready"]
  /\ result' = [result EXCEPT ![s] = Nothing]
  /\ program' = [program EXCEPT ![s] = "elf"]
  /\ Bind(s, ChildTable(spawn.grants), Moves(spawn.grants))
  /\ spawn' = Idle
  /\ UNCHANGED <<current, donor, target, queue, waiter, backlog, wait, nextId, generation, pending, halted>>

SpawnInstalls(s) ==
  /\ SpawnAt("build")
  /\ state[s] = "Reserved"
  /\ generation[s] < MaxGeneration
  /\ state' = [state EXCEPT ![s] = "Ready"]
  /\ result' = [result EXCEPT ![s] = Nothing]
  /\ program' = [program EXCEPT ![s] = "elf"]
  /\ generation' = [generation EXCEPT ![s] = @ + 1]
  /\ Bind(s, ChildTable(spawn.grants), Moves(spawn.grants))
  /\ spawn' = Idle
  /\ UNCHANGED <<current, donor, target, queue, waiter, backlog, wait, nextId, pending, halted>>

(* The image is malformed or memory is short.                              *)
SpawnFails(s) ==
  /\ SpawnAt("build")
  /\ state[s] = "Reserved"
  /\ state' = [state EXCEPT ![s] = "Free"]
  /\ spawn' = Idle
  /\ UNCHANGED <<current, donor, target, ipcVars, rightsVars, program, generation,
                 pending, halted>>

(* SPAWN of a built-in, which init has at most one instance of.  It runs   *)
(* with IRQs masked, and may fail after the reap.                          *)
SpawnBuiltin(s, p) ==
  /\ User
  /\ current = InitTask
  /\ \A t \in Slots : program[t] # p
  /\ FirstFree(s)
  /\ generation[s] < MaxGeneration
  /\ pending' = Reaped(NoStack)
  /\ state' = [state EXCEPT ![s] = "Ready"]
  /\ result' = [result EXCEPT ![s] = Nothing]
  /\ program' = [program EXCEPT ![s] = p]
  /\ generation' = [generation EXCEPT ![s] = @ + 1]
  /\ UNCHANGED <<current, donor, target, queue, waiter, backlog, wait, rightsVars, spawn, halted>>

SpawnBuiltinFails ==
  /\ User
  /\ current = InitTask
  /\ Builtins # {}
  /\ pending' = Reaped(NoStack)
  /\ UNCHANGED <<tableVars, ipcVars, rightsVars, program, generation, spawn, halted>>

Next ==
  \/ Tick
  \/ \E t \in Slots : ClockPasses(t)
  \/ Yield
  \/ \E h \in HandleIds, m \in Payloads : SendSyscall(h, m)
  \/ \E h \in HandleIds : RecvTakes(h)
  \/ \E h \in HandleIds, deadline \in {"forever", "later"} : RecvBlocks(h, deadline)
  \/ \E c \in Channels : BuiltinTakes(c)
  \/ \E c \in Channels : BuiltinBlocks(c)
  \/ \E c \in Channels, m \in Payloads : BuiltinSends(c, m)
  \/ Exit
  \/ Fault
  \/ InitExits
  \/ HaltLoop
  \/ \E h \in HandleIds : ChannelCreate(h)
  \/ \E grants \in GrantLists : SpawnBegins(grants)
  \/ SpawnReaps
  \/ \E s \in Slots : SpawnClaims(s)
  \/ SpawnFindsNoSlot
  \/ \E s \in Slots : SpawnInstalls(s)
  \/ \E s \in Slots : SpawnFails(s)
  \/ \E s \in Slots, p \in Builtins : SpawnBuiltin(s, p)
  \/ SpawnBuiltinFails

Spec == Init /\ [][Next]_vars

-----------------------------------------------------------------------------
Live(t) == state[t] \in {"Ready", "Running", "Blocked"}

(* The values each variable may hold.                                      *)
TypeOK ==
  /\ state \in [Slots -> States]
  /\ current \in Slots
  /\ donor \in Slots \cup {NONE}
  /\ target \in Slots \cup {NONE}
  /\ queue \in [Channels -> Seq(Messages)]
  /\ \A c \in Channels : Len(queue[c]) <= ChannelCap
  /\ waiter \in [Channels -> Slots \cup {NONE}]
  /\ backlog \in Seq(TaskRefs)
  /\ Len(backlog) <= BacklogCap
  /\ wait \in [Slots -> UserWaits \cup {NoWait}]
  /\ result \in [Slots -> Results]
  /\ handles \in [Slots -> HandleTables]
  /\ receiver \in [Channels -> Slots \cup {NONE}]
  /\ home \in [Channels -> Homes]
  /\ nextId \in BootChannels .. MaxChannels
  /\ program \in [Slots -> {"none", "elf"} \cup Builtins]
  /\ generation \in [Slots -> 0 .. MaxGeneration]
  /\ pending \subseteq TaskRefs
  /\ spawn \in [step : {"idle", "reap", "claim", "build"}, grants : Seq(Grants)]
  /\ halted \in BOOLEAN

(* ipc.rs:294 "so we can't miss a wakeup": a task is asleep exactly when   *)
(* one channel, an empty one, will wake it; and an EL0 task's own record   *)
(* of its recv names that channel.                                         *)
NoLostWakeup ==
  /\ \A t \in Slots :
       state[t] = "Blocked" <=> \E c \in Channels : waiter[c] = t
  /\ \A c \in Channels : waiter[c] # NONE =>
       /\ queue[c] = <<>>
       /\ \A d \in Channels \ {c} : waiter[d] # waiter[c]
       /\ program[waiter[c]] = "elf" => wait[waiter[c]].channel = c
  /\ \A t \in Slots :
       wait[t] # NoWait <=> state[t] = "Blocked" /\ program[t] = "elf"

(* Who holds RECV on a channel, by handle.                                 *)
RecvHolders(c) ==
  {th \in Slots \X HandleIds :
     /\ handles[th[1]][th[2]].channel = c
     /\ "recv" \in handles[th[1]][th[2]].rights}

(* Design document, section 1: "Each channel has exactly one receiving     *)
(* process".  From its creation on, through every spawn that moves the     *)
(* right and every exit that sends it home, each of init's channels has    *)
(* one handle with RECV; its holder is the receiver the channel names, and *)
(* nobody else sleeps on the channel.                                      *)
OneReceiver ==
  \A c \in INIT_INBOX .. nextId - 1 :
    /\ \E h \in HandleIds : RecvHolders(c) = {<<receiver[c], h>>}
    /\ waiter[c] \in {NONE, receiver[c]}

(* While RECV is away its home stays open: the channel's home is a handle  *)
(* of init's that still names the channel, without the right.              *)
HomeStaysOpen ==
  \A c \in BootChannels .. nextId - 1 :
    receiver[c] # InitTask =>
      /\ home[c][1] = InitTask
      /\ handles[InitTask][home[c][2]].channel = c
      /\ ~Holds(InitTask, home[c][2], "recv")

(* syscalls.rs:214-217: while the image loads with IRQs on, "nothing else  *)
(* can change what was checked above".                                     *)
SpawnStaysValid == spawn.step # "idle" => Resolves(spawn.grants)

Inbox == queue[INIT_INBOX] \o backlog

(* A notice is of a task that has gone, and is told once: init, which      *)
(* compares slot and generation, never takes a newer task in the slot for  *)
(* the one that exited.                                                    *)
NoticesAreExact ==
  \A i \in 1 .. Len(Inbox) : Inbox[i] \in TaskRefs =>
    /\ ~(Live(Inbox[i][1]) /\ generation[Inbox[i][1]] = Inbox[i][2])
    /\ \A j \in 1 .. i - 1 : Inbox[j] # Inbox[i]

(* context.rs:266 panics if the queue of stacks to free is full.  It needs *)
(* one place less than it has: with the live and reserved slots, the       *)
(* stacks not yet freed are at most one for each slot init can fill, and   *)
(* one more.                                                               *)
Occupied == {s \in Slots \ {IdleTask, InitTask} : state[s] # "Free"}
StacksFit ==
  Cardinality(pending) + Cardinality(Occupied) <= MaxTasks - 1

-----------------------------------------------------------------------------
(* The kernel schedules as module Scheduler says.                          *)
Sched == INSTANCE Scheduler WITH
  space <- [t \in Slots |-> program[t] = "elf"],
  wait <- [t \in Slots |-> wait[t].deadline]

SchedulerSpec == Sched!Spec

(* The kernel passes messages as module Mailbox says.  A blocked task      *)
(* sleeps on the channel it is the waiter of.                              *)
AsleepOn(t) ==
  IF state[t] # "Blocked" THEN NoChannel
  ELSE IF \E c \in Channels : waiter[c] = t
    THEN CHOOSE c \in Channels : waiter[c] = t
    ELSE -1

SleepMode(t) ==
  IF state[t] # "Blocked" THEN "awake"
  ELSE IF program[t] = "elf" THEN "takes" ELSE "looks"

Mail == INSTANCE Mailbox WITH
  Tasks <- Slots, Inbox <- INIT_INBOX, Notices <- TaskRefs,
  Cap <- ChannelCap, Reserve <- BacklogCap, Nowhere <- NoChannel,
  mail <- [c \in Channels |-> IF c = INIT_INBOX THEN Inbox ELSE queue[c]],
  asleep <- [t \in Slots |-> <<AsleepOn(t), SleepMode(t)>>],
  got <- result

MailboxSpec == Mail!Spec
=============================================================================
