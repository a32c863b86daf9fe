# FreshOS kernel: TLA+ models and proofs

FreshOS is a small operating-system kernel in Rust for aarch64. One CPU runs
preemptively scheduled tasks: EL0 processes, each in an address space of its
own, and five EL1 "built-in" services (MCP, keyboard, compositor, shell,
dashboard) inside the kernel. Tasks talk over channels, hold numbered handles
to them with SEND and RECV rights, and are started and restarted by `init`, the
first EL0 process. This directory holds TLA+ models of that system, TLC
configurations that check them on small instances, and TLAPS proofs.

## 1. Inventory

| Component | State | Operations | Talks to |
|---|---|---|---|
| Scheduler (`arch/aarch64/context.rs`) | `TASKS` (state, frame, `UserWait`, name), `CURRENT`, `DONOR`, `TARGET`, `PENDING_FREES`, `GENERATIONS` | tick, yield, block, unblock, hand-off, claim / install / release, reap, retire | everything: called from IPC, syscalls and exceptions |
| Channels (`ipc.rs`) | 32 queues of 16 messages with waiter, receiver and home; the backlog of exit notices; the trace ring | create, send, send_as_kernel, recv, try_recv, complete a user's recv, give a right home | scheduler (block, wake, hand-off), handles |
| Handles (`handles.rs`) | a table of 16 (channel, rights) per task | lookup, insert, add, clear, bind | channels |
| System calls (`syscalls.rs`) | none of its own | SEND, RECV, TRY_RECV, YIELD, EXIT, SPAWN, CHANNEL_CREATE, TIME_NS, LOG | handles, channels, scheduler, ELF loader, registry |
| init (`userbins/init`) | `Runtime` per service: task, restart_at, retry_ms | launch, hear an exit, hear a request, retry | SPAWN, its inbox (channel 2) |
| Registry (`registry.rs`) | `ServiceRecord` per service name | on_spawn, on_exit | written by SPAWN and retire, read by shell and dashboard |
| Frame allocator (`frame_alloc.rs`) | one bit per 4 KiB frame, `NEXT_HINT`, `FREE_COUNT` | allocate, allocate_contiguous, deallocate | address spaces, stacks |
| Address spaces, ELF (`addrspace.rs`, `elf.rs`) | a page-table tree per EL0 task; ASID = slot | new, map, activate, drop, load | frame allocator, TLB |
| Heap (`heap.rs`) | a sorted free list of blocks, `USED_BYTES` | alloc (first fit, split), dealloc (merge) | everything that boxes or grows a vector |
| Surfaces (`metrics.rs`, `arm_tasks.rs`) | per surface a damage rectangle and a sequence number, in relaxed atomics | mark, snapshot, clear | shell and dashboard write, compositor reads |
| Shell (`arm_tasks.rs`) | command line, cursor column | key, backspace, enter | keys from the compositor, requests to init |
| Compositor (`arm_tasks.rs`) | which window is in front, what is dirty, the back buffer | read keys, take damage, draw, present | keyboard, shell, surfaces, virtio-gpu or ramfb |
| MCP (`mcp.rs`, `serial.rs`) | a line of at most 16 KiB, whether the rest of one is being dropped | drain bytes, answer a line, halt; views of tasks, channels, metrics and the trace | serial port, task table, registry |
| virtio-gpu (`arch/aarch64/virtio_gpu.rs`) | descriptor, avail and used rings | send a command, poll | compositor, device |
| Boot, GIC, timer, boards; framebuffer, fonts; `exception.s`; scripting | registers, pixels, font data | | |

### What is hard here

One CPU and masked IRQs make each handler atomic, so the difficulty is in what
happens *between* handlers:

- the timer tick preempts a built-in between any two instructions that run with
  IRQs enabled, and init in the middle of SPAWN, which loads the ELF image with
  IRQs enabled on purpose;
- a task that faults is gone before it leaves the CPU: its slot is Free, its
  stack queued to be freed, while the CPU still runs on that stack;
- a hand-off records a donor that may exit, block or be replaced before the CPU
  is returned to it;
- slots are reused: a notice, a hand-off, a wait or a stack may name a task that
  has been replaced;
- receive rights move to a child with a spawn and go home at its exit, to a
  table that has changed in the meantime;
- init's view of its services lags behind the kernel's by whatever is in its
  inbox, and starting a service may fail at five different points;
- the shell, the dashboard and the compositor share pixels and damage without a
  lock, and what a frame draws, presents and forgets is decided by flags that are
  set in different places;
- the heap is told the size of a block by its caller only, and cuts and merges
  in whatever order blocks come back;
- the serial bridge assembles lines from bytes that arrive while it works, writes
  answers or halts, and lists tasks that come and go while it reads the table;
- the GPU works on the shared page while the driver prepares the next command in
  it, behind caches, barriers and indices that wrap;
- all tables are fixed arrays, some of which panic when full.

The list of these hazards, each at its line, is `hazards` in `PROJECT.json`.

### What makes each component correct

- Scheduler: one task runs; a task that runs has a live saved frame; what is
  recorded of a hand-off is true; every ready task gets its turn.
- Channels: first in, first out; no message lost or delivered twice; no sleeper
  beside a message; a recv with a deadline returns one way or the other.
- Rights: one receiver per channel, the one the channel names; the place a right
  returns to stays open.
- Kernel memory: no stack is freed under the task that runs on it, no frame has
  two owners, a failed spawn leaves nothing behind.
- The display: the windows in order and under the chrome, every change shown or
  still marked, what is drawn is presented, no answer of the device taken for another.
- The shell: the line on the page is the command that enter will run.
- Heap: no byte belongs to two blocks, whatever the order of calls.
- MCP: one answer for each complete line that asks for one, in order.
- init: no service twice, none forgotten, waits bounded, stale notices and
  requests harmless.

## 2. Plan

In this order, the parts that the rest relies on first:

1. `TaskTable`, `Scheduler`: the scheduler alone, safety and liveness. *Done.*
2. `SchedulerProofs`: its invariants for any number of slots. *Done.*
3. `Ipc`, `Rights`, `Kernel`: the whole kernel as tasks see it, composed of the
   task table, the channels and the handle tables. *Done.*
4. `Mailbox`: what message passing promises, implemented by `Kernel`. *Done.*
   `Scheduler` is itself the abstract specification of `Kernel`'s scheduling.
5. `Supervisor`: init, its services and the registry, on top of a mailbox. *Done.*
6. `Memory`: physical frames, address spaces and their TLB entries, kernel
   stacks, the building of a task frame by frame and its undoing, and
   `MemoryProofs`: its invariants and the counter of free frames, for any number
   of frames. *Done.*
7. `Surfaces`: damage between the built-ins that draw and the compositor, at the
   granularity of single atomic loads and stores; `SurfacesProofs`. *Done.*
8. `VirtioGpu`: the driver's ring, its wrapping indices and the cache;
   `VirtioGpuProofs`. *Done.*
9. `Terminal`, `Desktop`: the shell's page and line editing, and the
   compositor's frames over it; `BuiltinProofs`. *Done.*
10. `Heap`, `HeapProofs`: the free list against what is allocated, for any size
    of heap. `Mcp`: line assembly and the view of the tasks, and the
    `LineService` it implements; `BuiltinProofs` has its theorems too. *Done.*
11. `KernelProofs`: every safety property of `Kernel`, and that it implements
    `Scheduler` and `Mailbox`, for all sizes. *Done.*
12. `SupervisorProofs`: every safety property of `Supervisor` for all sizes. *Done.*
13. Next: the page tables and the checks of user pointers; the remaining views
    of MCP.

Runs stay below a few minutes on two workers; bounds are chosen so that slots
are reused, tables fill and queues overflow.

## 3. Modules and how they correspond to the code

`map` in `PROJECT.json` names the lines behind every definition. In general an
action is a whole handler, because handlers run with IRQs masked on one CPU: from
the entry to the switch that ends it. Where the code runs with IRQs on, it is
cut into steps where a tick can come in: a built-in between its calls, SPAWN
between its phases (in `Memory` between its frames), the marks and frames of the
surfaces between single loads and stores.

- **TaskTable** - `TASKS`, `CURRENT`, `DONOR`, `TARGET`, with `switch_away`,
  `hand_off`, `run` and `forget_hand_off` as operators (`SwitchAway`, `HandOff`,
  `Run`, `ForgetHandOff`). The round robin is `NextInTurn`, the return to the
  sender `SenderReturns`. Extended by `Scheduler` and by `Ipc`.
- **Scheduler** - the scheduler alone: each action is a tick, a syscall or a
  fault as far as it touches the table. `wait` is what `UserWait` means to the
  scheduler (none, with or without a deadline), `space` whether the task is EL0.
  Why a task sends or receives is left open, so it is also the abstract
  specification of `Kernel`'s scheduling.
- **Ipc** - `CHANNELS`, the backlog, and EL0 waits and results: `Arrive` is
  `send_from`, `Notify` is `send_as_kernel`, `Take` is `try_dequeue` with its refill.
- **Rights** - handle tables and the receiver and home of each channel:
  `Resolves` and `ChildTable` are the checks of SPAWN, `Bind` the closure that
  `install` runs, `SendHome` what `retire_current` does for each right.
- **Kernel** - composes these: one action per syscall, per IPC call of a
  built-in, tick, fault, and the phases of SPAWN. `pending` names the tasks whose
  kernel stacks are queued to be freed. A refused call is a stuttering step.
- **Mailbox** - what message passing promises: FIFO mailboxes and sleepers. No
  code of its own; `Kernel` is shown to implement it (`MailboxSpec`: the inbox
  is its queue followed by the backlog).
- **Supervisor** - init's loop, step by step (`pc` names the point), its
  `Runtime` per service, its inbox and backlog as one bounded sequence, the slots
  and generations of the services and the registry. A restart's time is
  "none", "later" or "due"; waits are whole units, doubled up to the cap.
- **Memory** - the bitmap as a set, `FREE_COUNT`, `NEXT_HINT`, the frames of
  each space, the kernel stacks and their queue, TTBR0, the stack the CPU is on,
  and the translations the TLB may hold. Which task runs next is left open.
- **Surfaces** - the four words and the number of one surface's damage, and the
  program counters of the shell's mark and the compositor's frame.
- **Rectangles** - union and extension of rectangles and the points they hold,
  shared by the four modules around the display.
- **VirtioGpu** - driver and device. `step` is what the driver does next: write
  the command and its descriptors, put it in the ring, advance the index,
  notify, poll, check. The device, which is not part of the repository, serves
  the ring in order and counts an answer only after writing it. `cached`,
  `behind` and `hidden` are the pixels that memory behind the cache, the host's
  copy and the screen do not show yet. One pixel stands for a cache line.
- **Terminal** - the shell's page as a record (text, cursor, command, damage) and
  what each key does to it, counted in characters. No state of its own.
- **Desktop** - extends `Terminal` with the compositor: `TakesDamage` is its loop
  from the keys to the flags, `DrawsFrame` from there to the present. Between
  them the shell and the dashboard may draw. `top` is what the back buffer shows
  at each point, `stale` where that is an old state of the window, `unpresented`
  where the screen differs from the back buffer. A mark is one step, because
  `Surfaces` is about the races inside it; presenting is one, because of
  `VirtioGpu`.
- **Heap** - the free list as a function from addresses to the sizes of the
  blocks there (0: none), in units of `BLOCK_ALIGN`; `live` is the layout of what
  is held at an address. `FirstFit` and `Cut` are the search and the split,
  `Inserted` the insertion with its two merges.
- **Mcp** - the bridge: the bytes in the UART's receive FIFO, `line` and
  `discarding`, the answers in the transmit FIFO, and the halt between drains.
  Bytes are kinds (a newline, a carriage return, a byte of a request, of a
  notification, of a line that is no JSON, ...), a line is judged by its bytes.
  `View` reads a slot in three steps, and tasks exit and start between them;
  `changed` is a history variable.
- **LineService** - what a client may expect: an answer for each line that wants
  one, in order. `Mcp` is shown to implement its safety (`AnswersInOrder`, proved too)
  and its liveness (`LinesGetAnswers`).
- **SchedulerProofs, KernelProofs, SupervisorProofs, MemoryProofs, HeapProofs,
  VirtioGpuProofs, SurfacesProofs** - theorems about the module
  they are named after; **BuiltinProofs** - about built-in tasks: `Desktop` with
  `Terminal`, and `Mcp`, whose specification is therefore called `McpSpec`. `KernelProofs` has three parts: receive rights, the
  invariant of the whole kernel, and the two refinements.
- **MCKernel, MCSupervisor, MCSurfaces** - the sets of spawn requests, delays and
  rectangles that the runs use.

Operators named `X_Something` next to an `X`, under a comment that starts with
"Mutant", are wrong versions of `X`: each shows that some property
notices the mistake. Nothing uses them.

## 4. Runs, bounds and what they show

| Run | Instance | Shows |
|---|---|---|
| `scheduler` | 5 slots, fair timer | `OneRunning`, `HandOffPair`, `WaitsAreBlocked`, `LiveFramesOnly`, `UnchainedFairness`, `TimedRecvReturns` |
| `scheduler_starve` | the same | `TickFairness` fails (section 7) |
| `kernel` | 4 slots used twice each, compositor and shell, 1 channel of init's own beside the 3 boot channels, capacity 1, backlog 1, 2 handles, services that get RECV and SEND on the channel or SEND alone | one receiver per channel, homes stay open, checks of SPAWN stay true, notices exact, no lost wakeup, stacks fit their queue; `Mailbox` and `Scheduler` are implemented |
| `supervisor` | 4 services, one with no binary, 3 slots, an inbox of 2 and its backlog | init's view, one instance, nothing forgotten, waits under their cap, registry, requests; services come back |
| `memory` | 12 frames in bytes of 4, 4 slots, spaces of 1 or 2 frames, stacks of 2 | one owner, exact accounting, no stale translation, the CPU on live memory, no handler frees its own stack |
| `surfaces` | a surface of 2 by 2, three rectangles, 3 marks | no damage lost while marks and clears do not overlap |
| `surfaces_race` | the same | `ChangedPixelsShown` fails (section 7) |
| `gpu` | a ring of 2, indices modulo 4, a display of 2 by 2 and all its rectangles, any answer loaded early | the whole batch is answered, no lost notification, a rectangle whose flush the device has not refused is shown |
| `gpu_stale` | the same | `AnswersAreFresh` fails (section 7) |
| `desktop` | a page of 4 by 2 characters, commands of 5, a display of 4 by 5 with two windows that reach the panel and the taskbar | windows in order, every change shown or still marked, what is drawn is presented; the line on the page is the command |
| `heap` | 12 units, least block 2, layouts of 1, 2, 3 and 5 | blocks apart and inside the heap, no two free ones touch; `USED_BYTES` is what is held |
| `mcp` | lines of 2, a receive FIFO of 2, one answer in the transmit FIFO, 1 slot used twice | the rows of the tasks view are of one task; every line that wants an answer gets one, in order (`AnswersInOrder`), and none waits for ever (`LinesGetAnswers`) |

Why the bounds suffice. Five slots are the least in which a donor, a target, a
third task that is passed over, and init and the idle task are all different.
Capacities of 1 make every queue both empty and full (init's inbox has 2 in
`supervisor`, so that a request can wait behind a notice); a backlog of 1 or 2 fills
behind it. Two generations reuse a slot while a notice of its last task is
queued. `MaxGeneration` and `MaxMarks` bound counters that the code leaves at 32
and 64 bits: they are guards of the spawn and of the mark only, so they end
behaviours but allow none the code does not have. Twelve frames are few enough
that a spawn meets every kind of shortage: no frame, frames but no run for
a stack, and a run that appears only once a queued stack has been freed. A
surface of 2 by 2 has two corners whose union is more than both, which is what
merging rectangles is about; three marks are one unseen, one torn, one after.
In `heap`
the layouts are one that is rounded up to a node, one of a node's size, one that
leaves less than a node, and one that needs merged blocks; twelve units hold three or four
blocks in any order, with neighbours free on either side, both or neither. In
`mcp` a line of three bytes is already too long, so every drop, and every end of a
drop, is reached; bytes beyond the FIFO wait at the client. The reads of the tasks view race
within one slot, and rows are independent, so one slot is enough. The GPU's indices wrap after four commands, that is in the second frame, and its
ring after two; a flush that is refused after one that was not needs two frames. Four
columns are the least in which backspace can erase on a line that has wrapped (two of
them are the prompt's), and two lines the least in which
a page fills in the middle of an answer. Which letters are typed does not matter: one is
enough to see a character missing, erased or drawn over another.

The code lays windows, panel and taskbar out for any mode the firmware offers
(main.rs:108, arm_tasks.rs:835-844) and checks nothing. On 1280 by 800 they
are apart; on 800 by 600 and 1024 by 768 the windows reach the panel, on
800 by 600 the taskbar too. `DesktopAssumption`
asks only for what holds at all these sizes: a screen as wide as a surface, on which the
panel is between menu bar and taskbar and windows begin below the menu bar. The layout of
`desktop` is the hard one: the window in front covers the panel and its bars, the
window behind is cut off by the screen's edge and reaches the taskbar. There
is no gap above its taskbar: points where windows cross such a gap (`Beyond`: no frame
paints the desktop there) are left to the theorem, which has them.

No run turns deadlock checking off: the idle task can always tick, and a halted
system (init exited) is modelled by the loop it ends in, `HaltLoop`.

## 5. Fairness

- The timer is fair (`WF_vars(Tick)`): it is periodic at 1 kHz and a tick
  is only held off by masked sections, which are finite.
- Time passes (`WF_vars(ClockPasses(_))`): a deadline is a number of
  nanoseconds, and the counter advances.
- Nothing is assumed of tasks: they may loop, never call or fault.
- `supervisor` also assumes that init gets to run (`WF_vars(InitStep)`) -
  which, by the finding below, the scheduler gives it only if hand-offs are
  not chained without end - and that a start which is tried again and again is
  not refused memory or a slot every time (`SF_vars` of the install). Without
  that no code could bring a service back.
- `mcp` assumes that the bridge gets to run and that a timer wakes it from its
  halt (`WF_vars(Bridge)`, `WF_vars(Wake)`; the first with the same
  reservation), and that the client reads its answers (`WF_vars(Read)`), for
  the bridge waits for room in the transmit FIFO. `LinesGetAnswers` needs all three:
  without them no answer could be promised. Nothing is assumed of what or when the client sends.
- `UnchainedFairness` and `TimedRecvReturns` state their premise in the formula:
  from some point on no task hands the CPU on while it runs on a hand-off.

## 6. Proofs

TLAPS proves these for every value of the constants, from the assumptions named
in the modules. The theorems that state a property of a run name it, so what the
run shows on an instance the theorem shows for all of them.

**`SchedulerProofs`** assumes `MaxTasksAssumption`: at least two slots, the idle
task and init. The inductive invariant is `IInv` of `Scheduler`:

- `TypeOK`; `OneRunning`: only the slot on the CPU is Running;
- `HandOffPair`: a recorded hand-off names a Ready donor and the live target on
  the CPU. By itself it is not inductive: when the target blocks, yields or dies,
  what happens to the pair depends on the target being an EL0 task, so `IInv`
  adds that a target has a space;
- `WaitsAreBlocked`: only a blocked EL0 task is in a wait. It needs
  `EmptySlotsHaveNoSpace`, for otherwise a spawn into a slot could find the wait
  of the last task there.

`SwitchAwayFacts`, `AfterSwitch` and `AfterHandOff` say what the operators of
`TaskTable` do to these; then there is one lemma per action, and `Invariance`
puts them together. From it follow `TypeCorrect`, `OneTaskRuns`,
`HandOffsArePairs`, `WaitsMatchBlocked` and, as a property of steps, `LiveFrames`:
the CPU only goes to a task with a live saved frame.

**`KernelProofs`** proves all seven safety properties of `Kernel`
for any number of slots, channels, handles and generations, any capacities and
any set of grants init may ask for. They assume what the modules name: sizes are
positive, there are at least the boot channels and as many as init has handles
(`RightsAssumption`), built-ins are those of main.rs (`KernelAssumption`), and
no task's message can pass for a notice (`PayloadAssumption`, since `send_from`
stamps the sender). Its inductive invariant `IInv` is

- `TableTypes`, `IpcTypes`, `TaskTypes`: the types;
- `RightsInv`: each channel created so far has RECV in exactly one handle, of
  the task it names as receiver (`Unique`); while it is away its home is a handle of init's
  that still names the channel; no handle names a channel that does not
  exist yet; init's inbox never leaves init. One lemma for each of the three
  ways rights move: `CreateKeepsRights`, `BindKeepsRights`, `SendHomeKeepsRights`;
- `SleepInv`: `NoLostWakeup` (as `Asleep`, over values rather than variables,
  because a handler passes several tables on the way), and `Owned`: an EL0 sleeper is the
  channel's receiver, any other is the shell at its keys. Only with `Owned` can it be
  shown that a recv that blocks overwrites no other waiter;
- `Programs`: slots without a task have no handles and no program, and no
  built-in runs twice, so nobody but one shell sleeps at the keys;
- `SpawnStaysValid` itself: while init is in SPAWN, only exits touch its table,
  and they only add rights;
- `OneLoading`: a slot is Reserved only while init's SPAWN loads an image, and only
  one. The scheduler's model lets no other call of init's come between the claim
  of a slot and its install, so the refinement needs it;
- `StackInv`: `StacksFit`, with one place more to spare between the reap and the
  claim of a spawn. Without that part the claim would break `StacksFit`;
- `NoticeInv`: a notice in the inbox or behind it names a task that is `Gone`
  (its generation is not newer than the slot's, and the slot does not live under
  it), and no two notices are the same. `Gone` lasts (`GoneStays`), and all that
  sends, takes and refills do to the inbox is covered by one relation, `Keeps`:
  the notices there now come from different ones before. `NoticeKeeps` is the only other way: an exit,
  which adds the notice of a task that was not gone a step earlier.

`ArriveFacts`, `TakeFacts` and `NotifyFacts` say what a message does to the sleepers, and
`SwitchFacts` and `HandOffFacts` what a switch does; then there is one lemma per
action, and `NextKeeps` puts them together.

The third part of `KernelProofs` shows `Spec => SchedulerSpec`: under the mapping of `Kernel`
every step is one of `Scheduler`'s or leaves its variables alone. One lemma per
action names the scheduler's action; handles, messages and the checks of a spawn
are stutters (`StutterMaps`). The invariant is needed for what `Scheduler` takes as
its guards: who may act, and in what state the task is that a message wakes or
gets the CPU. `KernelRunsLiveTasks` then carries the theorems of `SchedulerProofs`
over to the whole kernel, without proving them again.

It also shows `Spec => MailboxSpec`. What a task sleeps on is a function
of the tables (`Place`), and the mail of a channel its queue, for init's inbox with
the backlog behind it (`Mails`). Two facts carry the proof. A sleeper's channel is
empty and names it as waiter (`SleepInv`), so a message goes to the one who
sleeps or, with nobody asleep, to the end of the mail. And notices wait in the
backlog only while the inbox is full (`BacklogBehindFullInbox`, proved as
`BacklogOnlyBehindFullInbox`): otherwise a later message would get into the inbox
ahead of them, and the two would not be one queue.

**`SupervisorProofs`** proves all safety properties of `Supervisor` from
`SupervisorAssumption`: the reserve behind init's inbox has a place for each service
(`Reserve >= NServices`, as `BACKLOG_CAP` has), whatever the other sizes and delays.
The argument is about what init *will* know: `Known[s]` is `task[s]` or, between the
install and the note of it, the task just started. `IInv` says

- `KnownInv`: whatever runs is known, and what is known runs or has a notice in the
  inbox; no two services share a name;
- `NoticeInv`: each notice is `About` one service, which has not been started
  since; none is told twice; and behind a full channel there are notices only. So
  the notices behind it map one to one into the services that are down, and while
  one runs there are fewer than `Reserve` (`RoomForNotice`). That is why no
  exit is lost, and without it nothing else here would hold;
- `LaunchInv`, `RoundInv`: what is being launched, about to be, or scheduled is
  down as far as init knows. With `KnownInv` that makes a second instance
  impossible;
- `RequestInv`: `RequestsOfTheDown` over `Known`, and that a request never counts more
  starts than the registry does, so that a start makes every older request harmless;
- `GenerationsLeft`, `RegistryAgrees` and `NeverForgotten` as they are.

Each action has its lemma; those that start and end no task share `TasksStay`.

**`HeapProofs`** assumes `HeapAssumption`: a heap of some units, a least block
that fits it, layouts that are positive. `IInv` is `TypeOK` and `HeapSound`, which is inductive as it
stands: blocks lie in the heap, free ones do not touch one another, held ones do
not overlap, and none is in both. `CutFacts` says what a split leaves of a
node, `InsertedFacts` what the two merges make of the returned block and its
neighbours; since these are the nearest nodes on either side, nothing lies between
them, and the rest follows (`AllocSound`, `DeallocSound`). `UsedCountsHeld` is that
`USED_BYTES` is the size of what is held. It is no sum to be proved by induction:
since held blocks do not overlap, that size is the cardinality of the units held, and
a block taken or given back changes this set by the block.

**`MemoryProofs`** assumes `MemoryAssumption`: sizes are positive, and the frames
that boot needs are there. Its argument looks at the ownership as one function,
`Own`, from owners (the kernel, each slot's space, each slot's stack, each queued
stack) to frames, and `Sound` says that these are disjoint, leave frame 0 alone
and, with it, make up the bitmap. Three lemmas without any state say what keeps
an ownership sound: free frames go to one owner (`Taken`), owners give up frames
that are freed (`Given`), one owner hands all it has to one that had nothing
(`Moved`). Every action is one of these or two in a row: an exit is a `Given` (the
space) and a `Moved` (the stack, to the queue); a built-in's start is a `Given`
(the queue) and a `Taken`. `IInv` of `Memory` adds what makes the three apply:

- `BuildOwnsItsSlot`: a slot is Reserved exactly while the spawn fills or undoes
  it, so nobody else touches its space and it has no stack that could be lost;
- `SlotsHoldTheirMemory`: a free slot has nothing, so nothing is lost when it is
  filled; a task has a stack, and an EL0 task a space;
- `CpuFollowsTask`: the CPU is on the stack and the tables of its task or, after
  a fault, on a queued stack and the kernel's tables;
- `TlbOfTheLiving`: what the TLB holds belongs to a task that is installed, never
  to a space being built or undone, which may shrink without a flush.

From `Invariance` follow `OwnersAreApart`, `AllFramesAccounted` (which is half of `Accounting`),
`TranslationsAreFresh` and `CpuIsOnLiveMemory`, and with
`StackStays` (after any step the stack the step ran on is still its task's or
queued) the step property `HandlersKeepTheirStacks`.

`FreeCountIsExact` says that `FREE_COUNT`, which no code ever recomputes, is the
number of free frames (`CountExact`, the other half). Each step changes the bitmap by frames that were
free or used before, so that the count follows; only the reap is harder, since it frees a
set of stacks at once and adds their number times their size (`StacksCount`):
queued stacks are disjoint runs, so the pairs of a stack and a page of it are one
to one with the frames. `MemoryTypes` needs it: a counter that is exact is in its range.

**`VirtioGpuProofs`** assumes `GpuAssumption`: a display of some pixels, a queue
of at least two places, and indices whose range is a multiple of it and more than a batch,
as 2^16 is of the 16 the driver uses. The invariant follows the batch by one number
the model does not have, n, the commands of it the device has served: the index shown
to the device is `Posted` ahead of `last_used_idx`, what the device has seen is n ahead,
and the slots of the ring from `last_used_idx` on lead to the areas in order (`RingInv`).
With `NeighboursApart` (two indices in a row never share a slot, around the wrap
too) a command that is posted overwrites no other. `AnswersInv` says that the
answers to the first n commands, and no others, belong to this batch, `EarlyInv` what
an answer that was loaded early can be (of the first area, which was cleared, no success but
this batch's; of the second, anything), and `PictureInv` how far the
rectangle has come: from the cache to memory, to the host's copy, to the screen.
Early loads are unrestricted in all four theorems. `AnsweredBatch` says that the wait is
right: the device has answered each command, and the first with success. `PresentedRectIsShown`
has the premise that the device has not refused the flush, because a refused flush can pass (section 7).

**`SurfacesProofs`** proves `DamageNotLost` for surfaces and rectangles of any size and
any number of marks (`SurfacesAssumption`: sizes are numbers and no rectangle that is marked is
empty). The invariant says at each of the shell's stores which words of the
damage are new already (`ReadInv`, `StoredInv`), and at each of the compositor's loads
which words of its snapshot are those of the damage, if no mark has been committed
since (`SnapInv`). `Kept` says where each changed pixel is: in the mark, in the union being
stored, in the rectangle of whole marks, or in what this frame copies. It needs that the compositor clears
only what it took (`ClearInv`), which an overlap of mark and clear breaks: that is
why `IInv` claims all this only until there has been one.

**`BuiltinProofs`** proves, about the desktop, `LineShowsCommand` and `CurrentScreen` from
`TerminalAssumption` and `DesktopAssumption`: a page of at least two lines whose columns
exceed the prompt's, and a screen of any size of which section 4 says what little is
asked. Windows may reach the panel and the taskbar and end beyond the screen.

- The page. `PageShowsCommand` is inductive with the types (`PageInv`), because it also
  says that the page is blank from the cursor on: a glyph is never drawn over another. Each key
  keeps it and marks whatever it changes (`Marks`). What `enter` prints is a
  function that is defined by recursion over the number of lines; that every
  answer keeps the page right is an induction, and as the library's theorem cannot be
  instantiated here, it rests on a lemma of its own: a set of numbers that
  has 0 and the successor of each of its members has them all (`AllNumbers`),
  since otherwise going down by one would map the finite set of numbers that are
  missing up to some n one to one into itself, yet never to n.
- The picture. `PlaceInv`: each window's layer is only inside its window, and
  between frames every point is in order (`InOrder`): it shows the layer that belongs there, or
one of the windows over the chrome, or a bar. Only in `Beyond`, outside the content, may a
window that has moved away still be seen. `StaleInv`: a point that is
  out of date shows a window, and the damage, the flags or what the frame has copied will have it
  drawn (`Pending`). `ContentFacts` and `PictureFacts` say what a frame draws, in whatever
  combination of flags, and `ContentIsPresented` that the rectangle it presents
  holds all of that. `FrameInv` relates the flags: a frame that does not draw the
  whole content has no chrome left to draw, and a new back buffer is drawn as a whole.

The proof found one thing wrong in the model, not the code: `Layers` was a CASE whose guards
overlapped, which leaves open what the definition means; it is a chain of IFs now.

About the MCP bridge it proves `RowsAreOfTasks`, `LinesAreAnswered` and `BridgeTypes`, for
any bytes, sizes, number of tasks and of clients. It assumes
`McpAssumption`: the sizes are numbers, and the FIFOs have room for something.

- The rows. `RowsOfTasks` speaks of the moment the answer is ready only. `ViewInv` says what each
  step before has made sure of: of a slot that has not changed, what the row has so
  far is its task's own (`RowInv`); a slot that the view is past (`Passed`) and has not changed
  has its one row, or none without a task (`RowsInv`); no number in a
  row is greater than one read after it, and those of the row being filled are at most the
  generation its slot has now, since generations only grow. A task that exits or starts may come between any two of these steps.
- The answers. `AnswersInOrder` is the refinement of `LineService`, whose open line
  and lines due are what is left when the bytes in the FIFO are fed to the bridge's own line
  (`Unanswered`). `Fed` is a recursive function over these bytes; `FedIsChain` turns it into
  two equations, `FedEmpty` and `FedAppend`, and `FedFirst` says that the first
  byte may as well be fed before the others: this is an induction over sequences
  (`AllSequences`, from `AllNumbers`). So a byte the bridge takes changes nothing
  that a client can see, except that an empty line or a notification loses its place
  (`OwedFed`: what was due before stays in front, and is in nobody's way).
  `Write` is then the service's `Send`, `Read` its `Take`, `Reply` and the end of a
  line without an answer its `Answer`, and everything else stutters (`LineMaps`).
  `LineInv` is what this needs: there is a response wherever one is being made or sent, and
  the line is within `MAX_LINE`, so that the bridge's `>=` and the service's `=`
  find the same lines too long.
- The bounds (`Bounds`: of the FIFOs, of the line, of the tables; with them `TypeOK`) are inductive once `ViewInv` and `LineInv` are known.

Every safety invariant and every property of steps that a passing run checks is stated by a
theorem. Out of the prover's reach, and left to TLC, are liveness and ENABLED:
`UnchainedFairness`, `TimedRecvReturns`, `ServicesComeBack` and `LinesGetAnswers`.

## 7. Findings

- **Fairness at tick granularity** (`scheduler_starve`, `TickFairness`). The design
  document says that the tick still rotates, so fairness holds at tick granularity.
  A task that runs on a hand-off may hand the CPU on, and the
  round robin counts from the slot that runs last, so tasks that hand over to one
  another can bring the tick to the same place every time and pass over a Ready
  task for ever. `UnchainedFairness` is what does hold.
- **Lost damage** (`surfaces_race`, `ChangedPixelsShown`). A tick between two stores
  of `merge_surface_damage`, with an earlier mark not seen yet, lets the
  compositor take a torn rectangle under an unchanged number and clear it; the
  shell then stores the rest over the cleared words. Changed pixels are in
  neither rectangle and are not copied until something else damages them.
  `DamageNotLost` is what does hold: without such an overlap nothing is lost,
  whatever else the two tasks interleave.
- **A stale answer** (`gpu_stale`, `AnswersAreFresh`). The driver's plan says that every command
  checks its response and panics on an error. `post_flush` does not clear its answer area
  as `setup_desc_pair` does, and no barrier keeps the load of an answer
  (virtio_gpu.rs:543) behind the loads of `used.idx` (512): both are volatile, which binds
  the compiler and not the CPU. A CPU that loads early takes the OK of the last flush for
  the answer to one that was refused, and `present_rect` returns with nothing
  shown. `BatchIsAnswered` and `PresentedIsShown` are what does hold: the
  wait itself is right, a refused transfer is always noticed, and what is not refused is shown.

Weaker points, for which there is no run:

- The compositor draws panel and taskbar after the windows, but a frame draws only what is
  dirty: a window that is drawn again and reaches the panel or the taskbar hides it until
  its numbers change or a key switches windows (arm_tasks.rs:1058, 1118). It needs a display
  as small as 800 by 600 (panel and taskbar) or 1024 by 768 (panel); 800 by 600 is the firmware's
  default, and run-arm.sh:92 boots with ramfb only. docs/Where-We-Are.md:96 lists it as #65 ("the
  stats overlay flickers over the dashboard: compositor z-order"), open. The run `desktop` has it:
  in the sixth state of one behaviour a key of the shell has both windows redrawn over the panel. So
  `ScreenIsCurrent` does not claim that the chrome is on top, but what does hold: the windows are in
  order among themselves, nothing else is out of place, and no change is lost.
- An allocation that would leave less than 32 bytes of a free block takes the whole block
  (heap.rs:129), but `dealloc` gets back only what the layout says (152). The 16 bytes between stay
  with nobody: the blocks on either side never touch and never merge, although heap.rs:8 has
  adjacent blocks merged. With everything freed, the heap can consist of blocks of 32 bytes with
  gaps between them, and no larger allocation succeeds. `HeapSound` is what does hold: slack is
  lost, but never given out twice.
- The histogram of the panel starts 156 rows below the panel's top and may be 30
  high (arm_tasks.rs:709); the panel is 184 high, and that is what is presented and
  redrawn. The last two rows of the bars are drawn but not presented, and not
  erased. `ScreenIsCurrent` shows that drawing and presenting differ only there and, on
  small displays, where a window reaches into the gap above the taskbar.
- `present_rect` is given the rectangle of a window as it is laid out. On a display
  narrower than 744 or lower than 560 pixels the window behind ends beyond it, a device may
  refuse the transfer, and the driver panics. `Desktop` cuts what is presented to the display.
- A row of the tasks view may join the name of one task to the generation of the
  next in its slot (mcp.rs:256). `RowsOfTasks` is what holds: rows of slots that stay as they are are exact, and in the others
  the name is never newer than the generation beside it. The trace keeps slots only, so its names may be of a later task.
- `alloc` does not look at the alignment it is asked for: blocks are aligned to
  `BLOCK_ALIGN` (heap.rs:104), which is enough for all that the kernel allocates
  now. Alignments are left out of `Heap`.
- A client that is cut off in the middle of a line leaves its bytes in the
  bridge; the first request of the next client becomes part of that line and is
  answered with an error, or dropped with it.
- The compositor's buffers are never given back (arm_tasks.rs:300), so each restart of it costs
  as many frames again. `Accounting` counts them as owned: it holds over this leak.

## 8. What is only model-checked, and what is not modelled

Only model-checked: the four liveness properties, `UnchainedFairness` and
`TimedRecvReturns` of `Scheduler`, `ServicesComeBack` of `Supervisor` and
`LinesGetAnswers` of `Mcp`.

Left out, and why:

- Register frames, canaries and stack painting: data that no decision depends on
  but a panic on overrun.
- Page-table layout, permissions, `translate` and the copying of user memory:
  pure functions of a table. A syscall's pointer
  arguments are taken as good.
- A kernel panic (a full queue of stacks, no frames for the compositor's buffers,
  a GPU that does not answer) ends the system; that the first cannot happen is
  `StacksFit`.
- Restarts of the compositor and the shell while a mark or a frame is in
  progress: `Surfaces` follows one life of each. `Desktop` restarts both between
  their steps. What a restarted shell clears without marking it waits for the
  next frame that draws its window; `Desktop` models it and claims nothing of it.
- The trace ring, names of tasks and latency samples: they feed displays only.
- Probing, feature negotiation and the bytes of a command of the GPU; what the
  dashboard, the menu bar and the panel show.
- MCP's other views (channels, metrics, trace), which only report, and JSON, of
  which only the kinds of lines are modelled.
- GIC, UART, timer registers, fonts, pixels, boot images and the scripting
  module, which nothing calls: pure I/O or data.
