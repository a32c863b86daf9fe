----------------------------- MODULE VirtioGpu ------------------------------
(***************************************************************************)
(* The virtio-gpu driver (kernel/src/arch/aarch64/virtio_gpu.rs): commands *)
(* go to the device through a ring in shared memory, one at a time while   *)
(* the driver starts and then two at a time, a transfer and a flush, each  *)
(* with an area of its own for the command and for the answer.             *)
(*                                                                         *)
(* The device is not part of the repository: its actions are what the      *)
(* driver relies on.  It serves the ring in order, answers, and only then  *)
(* counts the answer in used.idx.                                          *)
(***************************************************************************)
EXTENDS Rectangles, Sequences

CONSTANTS
  Width, Height,      \* of the display; one pixel stands for a cache line
  QueueSize,          \* QUEUE_SIZE
  IndexSize           \* 2^16, the range of the indices

ASSUME GpuAssumption ==
  /\ Width \in Nat \ {0} /\ Height \in Nat \ {0}
  /\ QueueSize \in Nat /\ QueueSize >= 2
  /\ IndexSize \in Nat \ {0} /\ IndexSize % QueueSize = 0 /\ IndexSize > 2

VARIABLES
  (* the driver's *)
  step,               \* what it does next, or "idle" or "halted"
  started,            \* the commands of init that are done
  batch, at,          \* the commands it sends, and the one it is at
  lastUsed,           \* last_used_idx
  early,              \* answers the CPU has loaded before their turn, or "later"
  (* the page they share *)
  ring, availIdx,     \* avail.ring, as the areas of its descriptors; avail.idx
  usedIdx,            \* used.idx
  command, answer,    \* the areas at CMD_OFFSET and at RESP_OFFSET
  (* the device's *)
  device,             \* "asleep", "awake", or about to count an "answer"
  seen,               \* how far it has served avail.ring
  answered,           \* for the properties: its answers to this batch
  (* pixels that do not show what the CPU last drew there *)
  cached,             \* in the memory behind the CPU's cache
  behind,             \* in the host's copy
  hidden              \* on the screen

driverVars == <<step, started, batch, at, lastUsed, early>>
deviceVars == <<device, seen, usedIdx, answer, answered>>
picture == <<cached, behind, hidden>>
vars == <<driverVars, ring, availIdx, command, deviceVars, picture>>

Pixels == (0 .. Width - 1) \X (0 .. Height - 1)
Rects ==
  {r \in [x : 0 .. Width - 1, y : 0 .. Height - 1, w : 1 .. Width, h : 1 .. Height] :
     r.x + r.w <= Width /\ r.y + r.h <= Height}
Covered(r) == PointsOf(r, Width, Height)
Screen == [x |-> 0, y |-> 0, w |-> Width, h |-> Height]

Areas == {0, 1}
Ops == {"info", "create", "attach", "scanout", "transfer", "flush"}
Command(op, r) == [op |-> op, rect |-> r]

(* The commands of VirtioGpu::init.                                        *)
InitCommands ==
  [i \in 1 .. 6 |->
     Command(<<"info", "create", "attach", "scanout", "transfer", "flush">>[i],
             Screen)]

Next16(i) == (i + 1) % IndexSize
Blank == [a \in Areas |-> "none"]
NotYet == [a \in Areas |-> "later"]

(* A new queue, and a backing the device knows nothing of.                 *)
Init ==
  /\ step = "idle" /\ started = 0
  /\ batch = <<>> /\ at = 1
  /\ lastUsed = 0 /\ availIdx = 0 /\ usedIdx = 0 /\ seen = 0
  /\ ring = [i \in 0 .. QueueSize - 1 |-> 0]
  /\ command = [a \in Areas |-> InitCommands[1]]
  /\ answer = Blank /\ answered = Blank /\ early = NotYet
  /\ device = "asleep"
  /\ cached = Pixels /\ behind = Pixels /\ hidden = Pixels

-----------------------------------------------------------------------------
(* The driver.                                                             *)

Up == started = Len(InitCommands)

Begin(commands) ==
  /\ step = "idle"
  /\ step' = "describe"
  /\ batch' = commands
  /\ at' = 1
  /\ answered' = Blank
  /\ early' = NotYet
  /\ UNCHANGED <<started, lastUsed, ring, availIdx, command,
                 device, seen, usedIdx, answer>>

Starts ==
  /\ ~Up
  /\ Begin(<<InitCommands[started + 1]>>)
  /\ UNCHANGED picture

(* The compositor draws into the backing.                                  *)
Draws(r) ==
  /\ Up
  /\ step = "idle"
  /\ cached' = cached \cup Covered(r)
  /\ behind' = behind \cup Covered(r)
  /\ hidden' = hidden \cup Covered(r)
  /\ UNCHANGED <<driverVars, ring, availIdx, command, deviceVars>>

(* Mutant: the range is as long as the rectangle has pixels.               *)
Cleaned_Packed(r) ==
  LET start == r.y * Width + r.x
  IN {p \in Pixels : p[2] * Width + p[1] \in start .. start + r.w * r.h - 1}

(* clean_cache_range: from the first pixel of r, as long as h whole rows.  *)
Cleaned(r) ==
  LET start == r.y * Width + r.x
  IN {p \in Pixels : p[2] * Width + p[1] \in start .. start + r.h * Width - 1}

Presents(r) ==
  /\ Up
  /\ cached' = cached \ Cleaned(r)
  /\ Begin(<<Command("transfer", r), Command("flush", r)>>)
  /\ UNCHANGED <<behind, hidden>>

(* The command, and the descriptors that lead to it.  The answer of the    *)
(* first area is cleared (setup_desc_pair), that of the second is not      *)
(* (post_flush).                                                           *)
Describes ==
  /\ step = "describe"
  /\ command' = [command EXCEPT ![at - 1] = batch[at]]
  /\ answer' = [answer EXCEPT ![0] = IF at = 1 THEN "none" ELSE @]
  /\ step' = "ring"
  /\ UNCHANGED <<started, batch, at, lastUsed, early, ring, availIdx,
                 device, seen, usedIdx, answered, picture>>

PutsInRing ==
  /\ step = "ring"
  /\ ring' = [ring EXCEPT ![availIdx % QueueSize] = at - 1]
  /\ step' = "index"
  /\ UNCHANGED <<started, batch, at, lastUsed, early, availIdx, command,
                 deviceVars, picture>>

AdvancesIndex ==
  /\ step = "index"
  /\ availIdx' = Next16(availIdx)
  /\ \/ at < Len(batch) /\ at' = at + 1 /\ step' = "describe"
     \/ at = Len(batch) /\ at' = at /\ step' = "notify"
  /\ UNCHANGED <<started, batch, lastUsed, early, ring, command,
                 deviceVars, picture>>

(* Mutant: the store to QUEUE_NOTIFY is forgotten.                         *)
Kicked_Never == device

Kicked == IF device = "asleep" THEN "awake" ELSE device

Notifies ==
  /\ step = "notify"
  /\ device' = Kicked
  /\ step' = "poll"
  /\ UNCHANGED <<started, batch, at, lastUsed, early, ring, availIdx, command,
                 seen, usedIdx, answer, answered, picture>>

Target == (lastUsed + Len(batch)) % IndexSize

(* Mutant: any answer ends the wait.                                       *)
AllUsed_Some == usedIdx # lastUsed

AllUsed == usedIdx = Target

(* poll_used: the wait ends, or has lasted too long and the kernel panics. *)
SeesAnswers ==
  /\ step = "poll"
  /\ AllUsed
  /\ lastUsed' = Target
  /\ at' = 1
  /\ step' = "check"
  /\ UNCHANGED <<started, batch, early, ring, availIdx, command,
                 deviceVars, picture>>

GivesUp ==
  /\ step = "poll"
  /\ ~AllUsed
  /\ step' = "halted"
  /\ UNCHANGED <<started, batch, at, lastUsed, early, ring, availIdx, command,
                 deviceVars, picture>>

(* No barrier keeps the load of an answer, of either area, behind the      *)
(* loads of used.idx.                                                      *)
LoadsEarly(a) ==
  /\ step = "poll"
  /\ a < Len(batch)
  /\ early[a] = "later"
  /\ early' = [early EXCEPT ![a] = answer[a]]
  /\ UNCHANGED <<step, started, batch, at, lastUsed, ring, availIdx, command,
                 deviceVars, picture>>

Loaded(a) == IF early[a] = "later" THEN answer[a] ELSE early[a]

(* A display that does not tell its size is taken to be 800 by 600; any    *)
(* other command must succeed.                                             *)
Passes == batch[at].op = "info" \/ Loaded(at - 1) = "ok"

ChecksAnswer ==
  /\ step = "check"
  /\ Passes
  /\ \/ at < Len(batch) /\ at' = at + 1 /\ UNCHANGED <<step, started>>
     \/ /\ at = Len(batch) /\ at' = at
        /\ step' = "idle"
        /\ started' = IF Up THEN started ELSE started + 1
  /\ UNCHANGED <<batch, lastUsed, early, ring, availIdx, command,
                 deviceVars, picture>>

FindsError ==
  /\ step = "check"
  /\ ~Passes
  /\ step' = "halted"
  /\ UNCHANGED <<started, batch, at, lastUsed, early, ring, availIdx, command,
                 deviceVars, picture>>

(* A fault in the compositor ends it, and init starts it again: it resets  *)
(* the device and makes a new queue, a new backing and a new resource.     *)
Restarts ==
  /\ step # "halted"
  /\ step' = "idle" /\ started' = 0
  /\ batch' = <<>> /\ at' = 1
  /\ lastUsed' = 0 /\ availIdx' = 0 /\ usedIdx' = 0 /\ seen' = 0
  /\ ring' = [i \in 0 .. QueueSize - 1 |-> 0]
  /\ command' = [a \in Areas |-> InitCommands[1]]
  /\ answer' = Blank /\ answered' = Blank /\ early' = NotYet
  /\ device' = "asleep"
  /\ cached' = Pixels /\ behind' = Pixels /\ hidden' = Pixels

-----------------------------------------------------------------------------
(* The device.                                                             *)

(* What a command does to the host's copy and to the screen.               *)
Executes(c) ==
  LET area == Covered(c.rect) IN
  /\ behind' = IF c.op = "transfer" THEN behind \ (area \ cached) ELSE behind
  /\ hidden' = IF c.op = "flush" THEN (hidden \ area) \cup (area \cap behind)
                                 ELSE hidden
  /\ UNCHANGED cached

Serves(outcome) ==
  LET a == ring[seen % QueueSize] IN
  /\ device = "awake"
  /\ seen # availIdx
  /\ seen' = Next16(seen)
  /\ answer' = [answer EXCEPT ![a] = outcome]
  /\ answered' = [answered EXCEPT ![a] = outcome]
  /\ IF outcome = "ok" THEN Executes(command[a]) ELSE UNCHANGED picture
  /\ device' = "answer"
  /\ UNCHANGED <<driverVars, ring, availIdx, command, usedIdx>>

Counts ==
  /\ device = "answer"
  /\ usedIdx' = Next16(usedIdx)
  /\ device' = "awake"
  /\ UNCHANGED <<driverVars, ring, availIdx, command, seen, answer, answered,
                 picture>>

Sleeps ==
  /\ device = "awake"
  /\ seen = availIdx
  /\ device' = "asleep"
  /\ UNCHANGED <<driverVars, ring, availIdx, command, seen, usedIdx, answer,
                 answered, picture>>

-----------------------------------------------------------------------------
Drives ==
  \/ Starts \/ Describes \/ PutsInRing \/ AdvancesIndex \/ Notifies
  \/ SeesAnswers \/ GivesUp \/ ChecksAnswer \/ FindsError
  \/ \E r \in Rects : Draws(r) \/ Presents(r)

Next ==
  \/ Drives
  \/ \E a \in Areas : LoadsEarly(a)
  \/ \E outcome \in {"ok", "error"} : Serves(outcome)
  \/ Counts
  \/ Sleeps
  \/ Restarts
  \/ step = "halted" /\ UNCHANGED vars

Spec == Init /\ [][Next]_vars

-----------------------------------------------------------------------------
(* Once a batch is done, the device has answered each of its commands, and *)
(* with success the one of the cleared area, unless that asks for the size *)
(* of the display.  Only the failure of the flush that follows a transfer  *)
(* may have passed.                                                        *)
BatchIsAnswered ==
  step = "idle" /\ Len(batch) > 0 =>
    /\ \A i \in 1 .. Len(batch) : answered[i - 1] # "none"
    /\ batch[1].op = "info" \/ answered[0] = "ok"

(* What the driver's plan says of it: the driver panics unless every       *)
(* answer to this batch is a success.  It does not hold.  The area of the  *)
(* flush is not cleared, and its last answer may be loaded before used.idx *)
(* is: it passes for the answer to this batch.                             *)
AnswersAreFresh ==
  step = "idle" =>
    \A i \in 1 .. Len(batch) : batch[i].op = "info" \/ answered[i - 1] = "ok"

(* When present_rect returns and the device has not refused the flush, the *)
(* screen shows what was last drawn in the rectangle: the cache has been   *)
(* cleaned far enough, and the transfer came before the flush.             *)
PresentedIsShown ==
  [][step = "check" /\ step' = "idle" /\ Up /\ Up' /\ answered[1] # "error" =>
       hidden \cap Covered(batch[1].rect) = {}]_vars

(* While the driver waits for an answer, the device is not asleep over     *)
(* commands it has not served: the notification cannot be lost.            *)
DeviceIsAwake ==
  step = "poll" /\ seen # availIdx => device # "asleep"
=============================================================================
