-------------------------- MODULE VirtioGpuProofs ---------------------------
(***************************************************************************)
(* The properties of the virtio-gpu driver, proved for a display, a queue  *)
(* and a range of indices of any size, and for a CPU that may load any     *)
(* answer before used.idx.                                                 *)
(***************************************************************************)
EXTENDS VirtioGpu, TLAPS

Indices == 0 .. IndexSize - 1
RingSlots == 0 .. QueueSize - 1
Commands == [op : Ops, rect : Rects]

(* The index i commands after l.                                           *)
Ahead(l, i) == (l + i) % IndexSize

(* The steps from the first word of a batch to the end of the wait for it. *)
Sending == {"describe", "ring", "index", "notify", "poll"}

(* How many commands of the batch the index shows to the device, and how   *)
(* many have their area filled in.                                         *)
Posted ==
  IF step \in {"describe", "ring", "index"} THEN at - 1
  ELSE IF step \in {"notify", "poll"} THEN Len(batch) ELSE 0

Described ==
  IF step = "describe" THEN at - 1
  ELSE IF step \in {"ring", "index"} THEN at
  ELSE IF step \in {"notify", "poll"} THEN Len(batch) ELSE 0

(* The values of the variables.                                            *)
Types ==
  /\ step \in Sending \cup {"idle", "check", "halted"}
  /\ started \in 0 .. 6
  /\ lastUsed \in Indices /\ availIdx \in Indices
  /\ usedIdx \in Indices /\ seen \in Indices
  /\ early \in [Areas -> {"later", "none", "ok", "error"}]
  /\ ring \in [RingSlots -> Areas]
  /\ command \in [Areas -> Commands]
  /\ answer \in [Areas -> {"none", "ok", "error"}]
  /\ answered \in [Areas -> {"none", "ok", "error"}]
  /\ device \in {"asleep", "awake", "answer"}

(* The batch is the next command of init or, when the display is up, the   *)
(* transfer and the flush of one rectangle.                                *)
BatchInv ==
  /\ step = "idle" => Len(batch) \in 0 .. 2
  /\ step # "idle" =>
       /\ at \in 1 .. Len(batch)
       /\ IF Up
          THEN \E r \in Rects : batch = <<Command("transfer", r), Command("flush", r)>>
          ELSE batch = <<InitCommands[started + 1]>>

(* When the device has served n commands of the batch: the indices are     *)
(* that far ahead of last_used_idx, and the i-th slot of the ring from it  *)
(* on leads to the i-th area.                                              *)
RingInv(n) ==
  /\ n \in 0 .. Posted
  /\ availIdx = Ahead(lastUsed, Posted)
  /\ seen = Ahead(lastUsed, n)
  /\ device = "answer" => n > 0
  /\ usedIdx = Ahead(lastUsed, IF device = "answer" THEN n - 1 ELSE n)
  /\ \A i \in 0 .. Posted - 1 : ring[Ahead(lastUsed, i) % QueueSize] = i
  /\ step = "index" => ring[availIdx % QueueSize] = at - 1

(* The area of each command that is posted holds it.                       *)
CommandInv == \A i \in 0 .. Described - 1 : command[i] = batch[i + 1]

(* While the batch is under way, the answers to its first n commands are   *)
(* there and no others; then they are all there.                           *)
AnswersInv(n) ==
  /\ step \in Sending =>
       \A a \in Areas :
         IF a < n THEN answered[a] \in {"ok", "error"} /\ answer[a] = answered[a]
                  ELSE answered[a] = "none"
  /\ step = "check" =>
       /\ \A a \in Areas :
            a < Len(batch) => answer[a] = answered[a] /\ answered[a] # "none"
       /\ at = 2 => batch[1].op = "info" \/ answered[0] = "ok"
  /\ BatchIsAnswered

(* The first area was cleared before its command was posted, so it has     *)
(* nothing to load early but the answer to it.  Nothing is known of what   *)
(* was loaded from the second.                                             *)
EarlyInv ==
  /\ early[0] \in {"later", "none", answered[0]}
  /\ step \in Sending /\ (step = "describe" => at > 1) =>
       answer[0] \in {"none", answered[0]}

(* While a rectangle is presented: it is in memory; once the transfer has  *)
(* succeeded, in the host's copy; and once the flush has, on the screen.   *)
PictureInv ==
  Up /\ step # "idle" =>
    /\ cached \cap Covered(batch[1].rect) = {}
    /\ answered[0] = "ok" => behind \cap Covered(batch[1].rect) = {}
    /\ answered[0] = "ok" /\ answered[1] = "ok" =>
         hidden \cap Covered(batch[1].rect) = {}

(* The inductive invariant.  Nothing more is said of a driver that has     *)
(* panicked, for which the device may do what it likes.                    *)
Inv(n) ==
  /\ BatchInv
  /\ RingInv(n)
  /\ CommandInv
  /\ AnswersInv(n)
  /\ EarlyInv
  /\ PictureInv

IInv == Types /\ (step # "halted" => \E n \in 0 .. 2 : Inv(n))

-----------------------------------------------------------------------------
(* Two indices in a row never share a slot of the ring.                    *)
LEMMA NeighboursApart ==
  ASSUME NEW x \in Nat, NEW Q \in Nat, Q >= 2
  PROVE  (x + 1) % Q # x % Q
<1> DEFINE r == x % Q
<1>1. PICK k \in Int : x = k * Q + r
  <2>1. x = (x \div Q) * Q + r /\ x \div Q \in Int
    OBVIOUS
  <2>2. QED
    BY <2>1
<1>2. r \in 0 .. Q - 1
  OBVIOUS
<1>3. SUFFICES ASSUME (x + 1) % Q = r PROVE FALSE
  OBVIOUS
<1>4. PICK m \in Int : x + 1 = m * Q + r
  <2>1. x + 1 = ((x + 1) \div Q) * Q + ((x + 1) % Q) /\ (x + 1) \div Q \in Int
    OBVIOUS
  <2>2. QED
    BY <2>1, <1>3
<1> HIDE DEF r
<1>5. (m - k) * Q = 1
  BY <1>1, <1>2, <1>4
<1>6. m - k >= 1 \/ m - k <= 0
  BY <1>1, <1>4
<1>7. CASE m - k >= 1
  BY <1>1, <1>4, <1>5, <1>7
<1>8. CASE m - k <= 0
  BY <1>1, <1>4, <1>5, <1>8
<1>9. QED
  BY <1>6, <1>7, <1>8

(* The indices up to two commands ahead are different ones, and the first  *)
(* two of them have slots of their own, also where the indices wrap.       *)
LEMMA AheadFacts ==
  ASSUME NEW l \in Indices
  PROVE  /\ Ahead(l, 0) = l
         /\ \A i \in 0 .. 2 : Ahead(l, i) \in Indices
         /\ \A i \in 0 .. 1 : Next16(Ahead(l, i)) = Ahead(l, i + 1)
         /\ \A i, j \in 0 .. 2 : i # j => Ahead(l, i) # Ahead(l, j)
         /\ \A i \in 0 .. 2 : Ahead(l, i) % QueueSize \in RingSlots
         /\ Ahead(l, 0) % QueueSize # Ahead(l, 1) % QueueSize
<1>1. /\ IndexSize \in Nat /\ IndexSize > 2 /\ IndexSize % QueueSize = 0
      /\ QueueSize \in Nat /\ QueueSize >= 2 /\ l \in Nat /\ l < IndexSize
  BY GpuAssumption DEF Indices
<1>2. \A i \in 0 .. 3 : Ahead(l, i) = IF l + i < IndexSize THEN l + i
                                       ELSE l + i - IndexSize
  BY <1>1 DEF Ahead
<1>3. \A i \in 0 .. 2 : Ahead(l, i) \in Indices
  BY <1>1, <1>2 DEF Indices
<1>4. \A i \in 0 .. 1 : Next16(Ahead(l, i)) = Ahead(l, i + 1)
  <2>1. \A x \in Indices : Next16(x) = IF x + 1 < IndexSize THEN x + 1 ELSE 0
    BY <1>1 DEF Next16, Indices
  <2>2. QED
    BY <1>1, <1>2, <1>3, <2>1
<1>5. \A i, j \in 0 .. 2 : i # j => Ahead(l, i) # Ahead(l, j)
  BY <1>1, <1>2
<1>6. \A i \in 0 .. 2 : Ahead(l, i) % QueueSize \in RingSlots
  BY <1>1, <1>3 DEF Indices, RingSlots
<1>7. Ahead(l, 0) = l
  BY <1>1, <1>2
<1>8. l % QueueSize # Ahead(l, 1) % QueueSize
  <2>1. CASE l + 1 < IndexSize
    <3>1. Ahead(l, 1) = l + 1
      BY <1>1, <1>2, <2>1
    <3>2. QED
      BY <1>1, <3>1, NeighboursApart
  <2>2. CASE ~(l + 1 < IndexSize)
    <3>1. Ahead(l, 1) = 0 /\ IndexSize = l + 1
      BY <1>1, <1>2, <2>2
    <3>2. (l + 1) % QueueSize # l % QueueSize
      BY <1>1, NeighboursApart
    <3>3. 0 % QueueSize = 0
      BY <1>1
    <3>4. QED
      BY <1>1, <3>1, <3>2, <3>3
  <2>3. QED
    BY <2>1, <2>2
<1>9. QED
  BY <1>3, <1>4, <1>5, <1>6, <1>7, <1>8

(* clean_cache_range (virtio_gpu.rs): the range of whole rows that starts  *)
(* at the corner of a rectangle holds all its pixels.                      *)
LEMMA CleanedCovers ==
  ASSUME NEW r \in Rects
  PROVE  Covered(r) \subseteq Cleaned(r)
<1>1. /\ Width \in Nat /\ Width > 0 /\ Height \in Nat
      /\ r.x \in Nat /\ r.y \in Nat /\ r.w \in Nat /\ r.h \in Nat
      /\ r.w > 0 /\ r.h > 0
      /\ r.x + r.w <= Width /\ r.y + r.h <= Height
  BY GpuAssumption DEF Rects
<1> SUFFICES ASSUME NEW p \in Covered(r)
             PROVE  p \in Cleaned(r)
  OBVIOUS
<1>2. p \in (r.x .. r.x + r.w - 1) \X (r.y .. r.y + r.h - 1)
  BY <1>1 DEF Covered, PointsOf, High, Low
<1>3. /\ p[1] \in Int /\ r.x <= p[1] /\ p[1] <= r.x + r.w - 1
      /\ p[2] \in Int /\ r.y <= p[2] /\ p[2] <= r.y + r.h - 1
  BY <1>1, <1>2
<1>4. p \in Pixels
  BY <1>1, <1>2, <1>3 DEF Pixels
<1>5. PICK d \in Nat : p[2] = r.y + d /\ d <= r.h - 1
  <2>1. p[2] - r.y \in Nat /\ p[2] = r.y + (p[2] - r.y) /\ p[2] - r.y <= r.h - 1
    BY <1>1, <1>3
  <2>2. QED
    BY <2>1
<1>6. d * Width \in Nat /\ d * Width <= (r.h - 1) * Width
  BY <1>1, <1>5
<1>7. (r.h - 1) * Width = r.h * Width - Width
  BY <1>1
<1>8. p[2] * Width = r.y * Width + d * Width
  BY <1>1, <1>5
<1>9. /\ r.y * Width \in Nat /\ r.h * Width \in Nat
  BY <1>1
<1>10. p[2] * Width + p[1] \in
         r.y * Width + r.x .. r.y * Width + r.x + r.h * Width - 1
  BY <1>1, <1>3, <1>6, <1>7, <1>8, <1>9
<1>11. QED
  BY <1>4, <1>10 DEF Cleaned

-----------------------------------------------------------------------------
(* VirtioGpu::init sends six commands.                                     *)
LEMMA InitCommandsAre ==
  /\ Len(InitCommands) = 6
  /\ \A k \in 1 .. 6 : InitCommands[k] \in Commands
  /\ Screen \in Rects
<1>1. Screen \in Rects
  BY GpuAssumption DEF Screen, Rects
<1>2. \A k \in 1 .. 6 :
        <<"info", "create", "attach", "scanout", "transfer", "flush">>[k] \in Ops
  BY DEF Ops
<1>3. \A k \in 1 .. 6 : InitCommands[k] \in Commands
  BY <1>1, <1>2 DEF InitCommands, Commands, Command
<1>4. InitCommands \in [1 .. 6 -> Commands] /\ DOMAIN InitCommands = 1 .. 6
  BY <1>3 DEF InitCommands
<1>5. Len(InitCommands) = 6
  BY <1>4
<1>6. QED
  BY <1>1, <1>3, <1>5

(* The display is up when they are all done.                               *)
LEMMA UpMeans == (Up <=> started = 6) /\ (Up' <=> started' = 6)
BY InitCommandsAre DEF Up

(* A batch has one command or two, and what they are.                      *)
LEMMA BatchFacts ==
  ASSUME Types, BatchInv, step # "idle"
  PROVE  /\ Len(batch) \in 1 .. 2 /\ at \in 1 .. Len(batch) /\ at \in {1, 2}
         /\ \A i \in 1 .. Len(batch) : batch[i] \in Commands
         /\ Up => \E r \in Rects :
              /\ batch = <<Command("transfer", r), Command("flush", r)>>
              /\ batch[1] = Command("transfer", r) /\ batch[2] = Command("flush", r)
              /\ batch[1].rect = r /\ Len(batch) = 2
         /\ ~Up => Len(batch) = 1
<1>1. CASE Up
  <2>1. PICK r \in Rects : batch = <<Command("transfer", r), Command("flush", r)>>
    BY <1>1 DEF BatchInv
  <2>2. /\ Len(batch) = 2
        /\ batch[1] = Command("transfer", r) /\ batch[2] = Command("flush", r)
    BY <2>1
  <2>3. /\ Command("transfer", r) \in Commands /\ Command("flush", r) \in Commands
        /\ Command("transfer", r).rect = r
    BY DEF Command, Commands, Ops
  <2>4. at \in 1 .. Len(batch)
    BY DEF BatchInv
  <2>5. at \in {1, 2}
    BY <2>2, <2>4
  <2>6. QED
    BY <1>1, <2>1, <2>2, <2>3, <2>4, <2>5
<1>2. CASE ~Up
  <2>1. batch = <<InitCommands[started + 1]>> /\ at \in 1 .. Len(batch)
    BY <1>2 DEF BatchInv
  <2>2. started + 1 \in 1 .. 6
    BY <1>2, UpMeans DEF Types
  <2>3. InitCommands[started + 1] \in Commands
    BY <2>2, InitCommandsAre
  <2>4. Len(batch) = 1 /\ batch[1] = InitCommands[started + 1]
    BY <2>1
  <2>5. at = 1
    BY <2>1, <2>4
  <2>6. QED
    BY <1>2, <2>1, <2>3, <2>4, <2>5
<1>3. QED
  BY <1>1, <1>2
-----------------------------------------------------------------------------
(* A new queue keeps the invariant: nothing is posted.                     *)
LEMMA InitInv == Init => IInv
<1> SUFFICES ASSUME Init
             PROVE  IInv
  OBVIOUS
<1>1. 0 \in Indices /\ 0 \in RingSlots /\ Ahead(0, 0) = 0
  <2>1. 0 \in Indices /\ 0 \in RingSlots
    BY GpuAssumption DEF Indices, RingSlots
  <2>2. QED
    BY <2>1, AheadFacts
<1>2. InitCommands[1] \in Commands
  BY InitCommandsAre
<1>3. Types
  BY <1>1, <1>2 DEF Init, Types, Sending, Areas, Blank, NotYet, RingSlots
<1>4. Posted = 0 /\ Described = 0 /\ Len(batch) = 0
  BY DEF Init, Posted, Described
<1>5. BatchInv /\ CommandInv
  BY <1>4 DEF Init, BatchInv, CommandInv
<1>6. RingInv(0)
  BY <1>1, <1>4 DEF Init, RingInv
<1>7. AnswersInv(0) /\ EarlyInv /\ PictureInv
  BY <1>4 DEF Init, AnswersInv, BatchIsAnswered, Sending, EarlyInv, PictureInv,
              Blank, NotYet, Areas
<1>8. QED
  BY <1>3, <1>5, <1>6, <1>7 DEF IInv, Inv

(* So does a new driver that starts after a fault.                         *)
LEMMA RestartsKeeps == Restarts => IInv'
<1>1. Restarts => Init'
  BY DEF Restarts, Init, Blank, NotYet
<1>2. QED
  BY <1>1, InitInv, PTL

(* Between batches nothing is posted and the device has caught up.         *)
LEMMA IdleFacts ==
  ASSUME Types, NEW n \in 0 .. 2, RingInv(n), step \in {"idle", "check"}
  PROVE  /\ n = 0 /\ availIdx = lastUsed /\ seen = lastUsed /\ usedIdx = lastUsed
         /\ device # "answer" /\ Ahead(lastUsed, 0) = lastUsed
<1>1. Posted = 0
  BY DEF Posted
<1>2. n = 0 /\ device # "answer"
  BY <1>1 DEF RingInv
<1>3. Ahead(lastUsed, 0) = lastUsed
  BY AheadFacts DEF Types
<1>4. QED
  BY <1>1, <1>2, <1>3 DEF RingInv

(* A batch begins: what the last one left in the ring and the areas does   *)
(* not matter.                                                             *)
LEMMA BeginKeeps ==
  ASSUME Types, NEW n \in 0 .. 2, Inv(n), NEW commands, Begin(commands),
         Len(commands) > 0, Len(commands) \in Nat,
         IF Up THEN \E r \in Rects :
                      /\ commands = <<Command("transfer", r), Command("flush", r)>>
                      /\ cached' \cap Covered(r) = {}
               ELSE commands = <<InitCommands[started + 1]>>
  PROVE  Types' /\ Inv(0)'
<1>1. /\ step = "idle" /\ step' = "describe" /\ batch' = commands /\ at' = 1
      /\ answered' = Blank /\ early' = NotYet
      /\ UNCHANGED <<started, lastUsed, ring, availIdx, command,
                     device, seen, usedIdx, answer>>
  BY DEF Begin
<1>2. Types'
  BY <1>1 DEF Types, Sending, Blank, NotYet, Areas
<1>3. Posted' = 0 /\ Described' = 0 /\ Up' = Up
  BY <1>1 DEF Posted, Described, Up
<1>4. /\ n = 0 /\ availIdx = lastUsed /\ seen = lastUsed /\ usedIdx = lastUsed
      /\ device # "answer" /\ Ahead(lastUsed, 0) = lastUsed
  BY <1>1, IdleFacts DEF Inv
<1>5. RingInv(0)'
  BY <1>1, <1>3, <1>4 DEF RingInv
<1>6. BatchInv'
  BY <1>1, <1>3 DEF BatchInv
<1>7. CommandInv' /\ AnswersInv(0)' /\ EarlyInv'
  BY <1>1, <1>3 DEF CommandInv, AnswersInv, BatchIsAnswered, Sending, EarlyInv,
                    Blank, NotYet, Areas
<1>8. PictureInv'
  <2> SUFFICES ASSUME Up'
               PROVE  cached' \cap Covered(batch'[1].rect) = {}
    BY <1>1 DEF PictureInv, Blank, Areas
  <2>1. PICK r \in Rects :
          /\ commands = <<Command("transfer", r), Command("flush", r)>>
          /\ cached' \cap Covered(r) = {}
    BY <1>3
  <2>2. batch'[1].rect = r
    BY <1>1, <2>1 DEF Command
  <2>3. QED
    BY <2>1, <2>2
<1>9. QED
  BY <1>2, <1>5, <1>6, <1>7, <1>8 DEF Inv

(* The next command of init.                                               *)
LEMMA StartsKeeps ==
  ASSUME Types, NEW n \in 0 .. 2, Inv(n), Starts
  PROVE  Types' /\ Inv(0)'
<1> DEFINE commands == <<InitCommands[started + 1]>>
<1>1. ~Up /\ Begin(commands)
  BY DEF Starts
<1>2. Len(commands) > 0 /\ Len(commands) \in Nat
  OBVIOUS
<1>3. QED
  BY <1>1, <1>2, BeginKeeps

(* present_rect cleans the cache before anything else.                     *)
LEMMA PresentsKeeps ==
  ASSUME Types, NEW n \in 0 .. 2, Inv(n), NEW r \in Rects, Presents(r)
  PROVE  Types' /\ Inv(0)'
<1> DEFINE commands == <<Command("transfer", r), Command("flush", r)>>
<1>1. Up /\ Begin(commands) /\ cached' = cached \ Cleaned(r)
  BY DEF Presents
<1>2. cached' \cap Covered(r) = {}
  BY <1>1, CleanedCovers
<1>3. Len(commands) > 0 /\ Len(commands) \in Nat
  OBVIOUS
<1>4. QED
  BY <1>1, <1>2, <1>3, BeginKeeps

(* The compositor draws between two batches.                               *)
LEMMA DrawsKeeps ==
  ASSUME Types, NEW n \in 0 .. 2, Inv(n), NEW r \in Rects, Draws(r)
  PROVE  Types' /\ Inv(n)'
<1>1. step = "idle" /\ UNCHANGED <<driverVars, ring, availIdx, command, deviceVars>>
  BY DEF Draws
<1>2. Types'
  BY <1>1 DEF Types, driverVars, deviceVars
<1>3. Posted' = Posted /\ Described' = Described
  BY <1>1 DEF Posted, Described, driverVars
<1>4. RingInv(n)' /\ CommandInv'
  BY <1>1, <1>3 DEF Inv, RingInv, CommandInv, driverVars, deviceVars
<1>5. BatchInv' /\ AnswersInv(n)' /\ EarlyInv' /\ PictureInv'
  BY <1>1 DEF Inv, BatchInv, AnswersInv, BatchIsAnswered, EarlyInv, PictureInv,
              driverVars, deviceVars, Up
<1>6. QED
  BY <1>2, <1>4, <1>5 DEF Inv

-----------------------------------------------------------------------------
(* A command and its descriptors are written: the device does not look at  *)
(* them yet, for their area is not posted.                                 *)
LEMMA DescribesKeeps ==
  ASSUME Types, NEW n \in 0 .. 2, Inv(n), Describes
  PROVE  Types' /\ Inv(n)'
<1>1. /\ step = "describe" /\ step' = "ring"
      /\ command' = [command EXCEPT ![at - 1] = batch[at]]
      /\ answer' = [answer EXCEPT ![0] = IF at = 1 THEN "none" ELSE answer[0]]
      /\ UNCHANGED <<started, batch, at, lastUsed, early, ring, availIdx,
                     device, seen, usedIdx, answered, cached, behind, hidden>>
  BY DEF Describes, picture
<1>2. /\ Len(batch) \in 1 .. 2 /\ at \in 1 .. Len(batch)
      /\ \A i \in 1 .. Len(batch) : batch[i] \in Commands
  BY <1>1, BatchFacts DEF Inv
<1>3. at - 1 \in Areas /\ batch[at] \in Commands /\ Areas = {0, 1} /\ at \in Nat
  BY <1>2 DEF Areas
<1>4. /\ command' \in [Areas -> Commands] /\ command'[at - 1] = batch[at]
      /\ \A a \in Areas \ {at - 1} : command'[a] = command[a]
  BY <1>1, <1>3 DEF Types
<1>5. /\ answer' \in [Areas -> {"none", "ok", "error"}]
      /\ answer'[1] = answer[1]
      /\ answer'[0] = IF at = 1 THEN "none" ELSE answer[0]
  BY <1>1, <1>3 DEF Types
<1>6. Types'
  BY <1>1, <1>4, <1>5 DEF Types, Sending
<1>7. Posted = at - 1 /\ Posted' = Posted /\ Described = at - 1 /\ Described' = at
  BY <1>1 DEF Posted, Described
<1>8. BatchInv'
  BY <1>1 DEF Inv, BatchInv, Up
<1>9. RingInv(n)'
  BY <1>1, <1>7 DEF Inv, RingInv
<1>10. CommandInv'
  <2> SUFFICES ASSUME NEW i \in 0 .. at - 1
               PROVE  command'[i] = batch[i + 1]
    BY <1>1, <1>7 DEF CommandInv
  <2>1. CASE i = at - 1
    BY <1>3, <1>4, <2>1
  <2>2. CASE i # at - 1
    <3>1. i \in 0 .. Described - 1 /\ i \in Areas \ {at - 1}
      BY <1>2, <1>3, <1>7, <2>2
    <3>2. QED
      BY <1>4, <3>1 DEF Inv, CommandInv
  <2>3. QED
    BY <2>1, <2>2
<1>11. at = 1 => n = 0
  BY <1>3, <1>7 DEF Inv, RingInv
<1>12. AnswersInv(n)'
  <2> SUFFICES ASSUME NEW a \in Areas
               PROVE  IF a < n
                      THEN answered[a] \in {"ok", "error"} /\ answer'[a] = answered[a]
                      ELSE answered[a] = "none"
    BY <1>1 DEF AnswersInv, BatchIsAnswered, Sending
  <2>1. IF a < n THEN answered[a] \in {"ok", "error"} /\ answer[a] = answered[a]
                 ELSE answered[a] = "none"
    BY <1>1 DEF Inv, AnswersInv, Sending
  <2>2. QED
    BY <1>3, <1>5, <1>11, <2>1
<1>13. EarlyInv'
  <2>1. at # 1 => at > 1
    BY <1>3, <1>2
  <2>2. answer'[0] \in {"none", answered[0]}
    BY <1>1, <1>5, <2>1 DEF Inv, EarlyInv, Sending
  <2>3. QED
    BY <1>1, <2>2 DEF Inv, EarlyInv
<1>14. PictureInv'
  BY <1>1 DEF Inv, PictureInv, Up
<1>15. QED
  BY <1>6, <1>8, <1>9, <1>10, <1>12, <1>13, <1>14 DEF Inv

(* The slot that is written is that of no command the device may still     *)
(* have to serve.                                                          *)
LEMMA PutsInRingKeeps ==
  ASSUME Types, NEW n \in 0 .. 2, Inv(n), PutsInRing
  PROVE  Types' /\ Inv(n)'
<1>1. /\ step = "ring" /\ step' = "index"
      /\ ring' = [ring EXCEPT ![availIdx % QueueSize] = at - 1]
      /\ UNCHANGED <<started, batch, at, lastUsed, early, availIdx, command, answer,
                     device, seen, usedIdx, answered, cached, behind, hidden>>
  BY DEF PutsInRing, picture, deviceVars
<1>2. Len(batch) \in 1 .. 2 /\ at \in 1 .. Len(batch) /\ at \in {1, 2}
  BY <1>1, BatchFacts DEF Inv
<1>3. at - 1 \in Areas /\ at \in {1, 2}
  BY <1>2 DEF Areas
<1>4. Posted = at - 1 /\ Posted' = Posted /\ Described = at /\ Described' = at
  BY <1>1 DEF Posted, Described
<1>5. lastUsed \in Indices /\ availIdx = Ahead(lastUsed, at - 1)
  BY <1>4 DEF Types, Inv, RingInv
<1>6. /\ availIdx % QueueSize \in RingSlots
      /\ \A i \in 0 .. at - 2 :
           /\ Ahead(lastUsed, i) % QueueSize # availIdx % QueueSize
           /\ Ahead(lastUsed, i) % QueueSize \in RingSlots
  <2>1. /\ \A i \in 0 .. 2 : Ahead(lastUsed, i) % QueueSize \in RingSlots
        /\ Ahead(lastUsed, 0) % QueueSize # Ahead(lastUsed, 1) % QueueSize
    BY <1>5, AheadFacts
  <2>2. QED
    BY <1>3, <1>5, <2>1
<1>7. /\ ring' \in [RingSlots -> Areas]
      /\ ring'[availIdx % QueueSize] = at - 1
      /\ \A i \in 0 .. at - 2 : ring'[Ahead(lastUsed, i) % QueueSize]
                                  = ring[Ahead(lastUsed, i) % QueueSize]
  BY <1>1, <1>3, <1>6 DEF Types
<1>8. Types'
  BY <1>1, <1>7 DEF Types, Sending
<1>9. RingInv(n)'
  <2>1. \A i \in 0 .. Posted - 1 : ring'[Ahead(lastUsed, i) % QueueSize] = i
    <3>1. 0 .. Posted - 1 = 0 .. at - 2
      BY <1>3, <1>4
    <3>2. QED
      BY <1>7, <3>1 DEF Inv, RingInv
  <2>2. QED
    BY <1>1, <1>4, <1>7, <2>1 DEF Inv, RingInv
<1>10. BatchInv' /\ PictureInv'
  BY <1>1 DEF Inv, BatchInv, PictureInv, Up
<1>11. CommandInv'
  BY <1>1, <1>4 DEF Inv, CommandInv
<1>12. AnswersInv(n)' /\ EarlyInv'
  BY <1>1 DEF Inv, AnswersInv, BatchIsAnswered, EarlyInv, Sending
<1>13. QED
  BY <1>8, <1>9, <1>10, <1>11, <1>12 DEF Inv

(* The index shows one command more.                                       *)
LEMMA AdvancesIndexKeeps ==
  ASSUME Types, NEW n \in 0 .. 2, Inv(n), AdvancesIndex
  PROVE  Types' /\ Inv(n)'
<1>1. /\ step = "index"
      /\ availIdx' = Next16(availIdx)
      /\ \/ at < Len(batch) /\ at' = at + 1 /\ step' = "describe"
         \/ at = Len(batch) /\ at' = at /\ step' = "notify"
      /\ UNCHANGED <<started, batch, lastUsed, early, ring, command, answer,
                     device, seen, usedIdx, answered, cached, behind, hidden>>
  BY DEF AdvancesIndex, picture, deviceVars
<1>2. Len(batch) \in 1 .. 2 /\ at \in 1 .. Len(batch) /\ at \in {1, 2}
  BY <1>1, BatchFacts DEF Inv
<1>3. at \in {1, 2} /\ at - 1 \in 0 .. 1
  BY <1>2
<1>4. /\ Posted = at - 1 /\ Posted' = at /\ Described = at /\ Described' = at
      /\ at' \in 1 .. Len(batch) /\ step' \in {"describe", "notify"}
  BY <1>1, <1>2 DEF Posted, Described
<1>5. lastUsed \in Indices /\ availIdx = Ahead(lastUsed, at - 1)
  BY <1>4 DEF Types, Inv, RingInv
<1>6. availIdx' = Ahead(lastUsed, at) /\ availIdx' \in Indices
  <2>1. /\ \A i \in 0 .. 1 : Next16(Ahead(lastUsed, i)) = Ahead(lastUsed, i + 1)
        /\ \A i \in 0 .. 2 : Ahead(lastUsed, i) \in Indices
    BY <1>5, AheadFacts
  <2>2. (at - 1) + 1 = at /\ at \in 0 .. 2
    BY <1>3
  <2>3. QED
    BY <1>1, <1>3, <1>5, <2>1, <2>2
<1>7. Types'
  BY <1>1, <1>4, <1>6 DEF Types, Sending
<1>8. RingInv(n)'
  <2>1. \A i \in 0 .. at - 1 : ring[Ahead(lastUsed, i) % QueueSize] = i
    <3> SUFFICES ASSUME NEW i \in 0 .. at - 1
                 PROVE  ring[Ahead(lastUsed, i) % QueueSize] = i
      OBVIOUS
    <3>1. CASE i = at - 1
      BY <1>1, <1>5, <3>1 DEF Inv, RingInv
    <3>2. CASE i # at - 1
      <4>1. i \in 0 .. Posted - 1
        BY <1>3, <1>4, <3>2
      <4>2. QED
        BY <4>1 DEF Inv, RingInv
    <3>3. QED
      BY <3>1, <3>2
  <2>2. n \in 0 .. at
    BY <1>3, <1>4 DEF Inv, RingInv
  <2>3. step' # "index"
    BY <1>4
  <2>4. QED
    BY <1>1, <1>4, <1>6, <2>1, <2>2, <2>3 DEF Inv, RingInv
<1>9. BatchInv' /\ PictureInv'
  BY <1>1, <1>4 DEF Inv, BatchInv, PictureInv, Up
<1>10. CommandInv'
  BY <1>1, <1>4 DEF Inv, CommandInv
<1>11. AnswersInv(n)' /\ EarlyInv'
  BY <1>1, <1>4 DEF Inv, AnswersInv, BatchIsAnswered, EarlyInv, Sending
<1>12. QED
  BY <1>7, <1>8, <1>9, <1>10, <1>11 DEF Inv

(* The notification.                                                       *)
LEMMA NotifiesKeeps ==
  ASSUME Types, NEW n \in 0 .. 2, Inv(n), Notifies
  PROVE  Types' /\ Inv(n)'
<1>1. /\ step = "notify" /\ step' = "poll"
      /\ device' = IF device = "asleep" THEN "awake" ELSE device
      /\ UNCHANGED <<started, batch, at, lastUsed, early, ring, availIdx, command, answer,
                     seen, usedIdx, answered, cached, behind, hidden>>
  BY DEF Notifies, Kicked, picture
<1>2. Types'
  BY <1>1 DEF Types, Sending
<1>3. Posted' = Posted /\ Described' = Described
  BY <1>1 DEF Posted, Described
<1>4. RingInv(n)'
  BY <1>1, <1>3 DEF Inv, RingInv
<1>5. BatchInv' /\ PictureInv'
  BY <1>1 DEF Inv, BatchInv, PictureInv, Up
<1>6. CommandInv'
  BY <1>1, <1>3 DEF Inv, CommandInv
<1>7. AnswersInv(n)' /\ EarlyInv'
  BY <1>1 DEF Inv, AnswersInv, BatchIsAnswered, EarlyInv, Sending
<1>8. QED
  BY <1>2, <1>4, <1>5, <1>6, <1>7 DEF Inv

(* poll_used: used.idx is as far as the batch is long only when the device *)
(* has counted the answer to each of its commands.                         *)
LEMMA SeesAnswersKeeps ==
  ASSUME Types, NEW n \in 0 .. 2, Inv(n), SeesAnswers
  PROVE  Types' /\ Inv(0)'
<1>1. /\ step = "poll" /\ step' = "check" /\ usedIdx = Target
      /\ lastUsed' = Target /\ at' = 1
      /\ UNCHANGED <<started, batch, early, ring, availIdx, command, answer,
                     device, seen, usedIdx, answered, cached, behind, hidden>>
  BY DEF SeesAnswers, AllUsed, picture, deviceVars
<1>2. Len(batch) \in 1 .. 2
  BY <1>1, BatchFacts DEF Inv
<1>3. Target = Ahead(lastUsed, Len(batch)) /\ Posted = Len(batch) /\ Posted' = 0
      /\ Described' = 0
  BY <1>1 DEF Target, Ahead, Posted, Described
<1>4. /\ \A i, j \in 0 .. 2 : i # j => Ahead(lastUsed, i) # Ahead(lastUsed, j)
      /\ \A i \in 0 .. 2 : Ahead(lastUsed, i) \in Indices
  BY AheadFacts DEF Types
<1>5. n \in 0 .. Len(batch) /\ (device = "answer" => n > 0)
      /\ usedIdx = Ahead(lastUsed, IF device = "answer" THEN n - 1 ELSE n)
  BY <1>3 DEF Inv, RingInv
<1>6. n = Len(batch) /\ device # "answer"
  <2>1. (IF device = "answer" THEN n - 1 ELSE n) \in 0 .. 2 /\ Len(batch) \in 0 .. 2
    BY <1>2, <1>5
  <2>2. (IF device = "answer" THEN n - 1 ELSE n) = Len(batch)
    BY <1>1, <1>3, <1>4, <1>5, <2>1
  <2>3. QED
    BY <1>2, <1>5, <2>2
<1>7. /\ lastUsed' \in Indices /\ availIdx = lastUsed' /\ seen = lastUsed'
      /\ usedIdx = lastUsed' /\ Ahead(lastUsed', 0) = lastUsed'
  <2>1. PICK l \in Indices : l = lastUsed'
    BY <1>1, <1>2, <1>3, <1>4
  <2>2. Ahead(l, 0) = l
    BY AheadFacts
  <2>3. availIdx = l /\ seen = l /\ usedIdx = l
    BY <1>1, <1>3, <1>6, <2>1 DEF Inv, RingInv
  <2>4. QED
    BY <2>1, <2>2, <2>3
<1>8. Types'
  BY <1>1, <1>7 DEF Types, Sending
<1>9. RingInv(0)'
  BY <1>1, <1>3, <1>6, <1>7 DEF RingInv
<1>10. BatchInv' /\ PictureInv'
  BY <1>1, <1>2 DEF Inv, BatchInv, PictureInv, Up
<1>11. CommandInv'
  BY <1>3 DEF CommandInv
<1>12. AnswersInv(0)'
  <2>1. \A a \in Areas :
          a < Len(batch) => answer[a] = answered[a] /\ answered[a] # "none"
    BY <1>1, <1>6 DEF Inv, AnswersInv, Sending
  <2>2. QED
    BY <1>1, <2>1 DEF AnswersInv, BatchIsAnswered, Sending
<1>13. EarlyInv'
  BY <1>1 DEF Inv, EarlyInv, Sending
<1>14. QED
  BY <1>8, <1>9, <1>10, <1>11, <1>12, <1>13 DEF Inv

(* The CPU loads an answer too early.                                      *)
LEMMA LoadsEarlyKeeps ==
  ASSUME Types, NEW n \in 0 .. 2, Inv(n), NEW a \in Areas, LoadsEarly(a)
  PROVE  Types' /\ Inv(n)'
<1>1. /\ step = "poll" /\ early' = [early EXCEPT ![a] = answer[a]]
      /\ UNCHANGED <<step, started, batch, at, lastUsed, ring, availIdx, command,
                     device, seen, usedIdx, answer, answered, cached, behind, hidden>>
  BY DEF LoadsEarly, picture, deviceVars
<1>2. /\ early' \in [Areas -> {"later", "none", "ok", "error"}]
      /\ early'[0] \in {early[0], answer[0]}
  BY <1>1 DEF Types, Areas
<1>3. Types'
  BY <1>1, <1>2 DEF Types
<1>4. Posted' = Posted /\ Described' = Described
  BY <1>1 DEF Posted, Described
<1>5. RingInv(n)' /\ BatchInv' /\ PictureInv'
  BY <1>1, <1>4 DEF Inv, RingInv, BatchInv, PictureInv, Up
<1>6. CommandInv' /\ AnswersInv(n)'
  BY <1>1, <1>4 DEF Inv, CommandInv, AnswersInv, BatchIsAnswered, Sending
<1>7. EarlyInv'
  <2>1. answer[0] \in {"none", answered[0]}
    BY <1>1 DEF Inv, EarlyInv, Sending
  <2>2. QED
    BY <1>1, <1>2, <2>1 DEF Inv, EarlyInv
<1>8. QED
  BY <1>3, <1>5, <1>6, <1>7 DEF Inv

(* An answer of the cleared area that passes is the device's to this       *)
(* batch.                                                                  *)
LEMMA PassingAnswer ==
  ASSUME Types, NEW n \in 0 .. 2, Inv(n), step = "check", Passes, at = 1
  PROVE  batch[1].op = "info" \/ answered[0] = "ok"
<1>1. 0 \in Areas /\ 0 < Len(batch)
  BY BatchFacts DEF Inv, Areas
<1>2. answer[0] = answered[0] /\ answered[0] # "none"
  BY <1>1 DEF Inv, AnswersInv
<1>3. early[0] \in {"later", "none", answered[0]}
  BY DEF Inv, EarlyInv
<1>4. at - 1 = 0
  OBVIOUS
<1>5. QED
  BY <1>2, <1>3, <1>4 DEF Passes, Loaded

(* An answer is looked at.                                                 *)
LEMMA ChecksAnswerKeeps ==
  ASSUME Types, NEW n \in 0 .. 2, Inv(n), ChecksAnswer
  PROVE  Types' /\ Inv(n)'
<1>1. /\ step = "check"
      /\ \/ at < Len(batch) /\ at' = at + 1 /\ step' = "check" /\ started' = started
         \/ /\ at = Len(batch) /\ at' = at /\ step' = "idle"
            /\ started' = IF Up THEN started ELSE started + 1
      /\ UNCHANGED <<batch, lastUsed, early, ring, availIdx, command,
                     device, seen, usedIdx, answer, answered, cached, behind, hidden>>
  BY DEF ChecksAnswer, picture, deviceVars
<1>2. Len(batch) \in 1 .. 2 /\ at \in 1 .. Len(batch)
  BY <1>1, BatchFacts DEF Inv
<1>3. at \in {1, 2}
  BY <1>1, BatchFacts DEF Inv
<1>4. batch[1].op = "info" \/ answered[0] = "ok"
  <2>1. CASE at = 1
    BY <1>1, <2>1, PassingAnswer DEF ChecksAnswer
  <2>2. CASE at = 2
    BY <1>1, <2>2 DEF Inv, AnswersInv
  <2>3. QED
    BY <1>3, <2>1, <2>2
<1>5. started' \in 0 .. 6
  BY <1>1, UpMeans DEF Types
<1>6. Types'
  BY <1>1, <1>5 DEF Types, Sending
<1>7. Posted = 0 /\ Posted' = 0 /\ Described' = 0
  BY <1>1 DEF Posted, Described
<1>8. RingInv(n)' /\ CommandInv'
  BY <1>1, <1>7 DEF Inv, RingInv, CommandInv
<1>9. BatchInv'
  BY <1>1, <1>2 DEF Inv, BatchInv, Up
<1>10. AnswersInv(n)'
  <2>1. CASE step' = "check"
    BY <1>1, <1>4, <2>1 DEF Inv, AnswersInv, BatchIsAnswered, Sending
  <2>2. CASE step' = "idle"
    <3> SUFFICES ASSUME NEW i \in 1 .. Len(batch)
                 PROVE  answered[i - 1] # "none"
      BY <1>1, <1>4, <2>2 DEF AnswersInv, BatchIsAnswered, Sending
    <3>1. PICK l \in {1, 2} : l = Len(batch)
      BY <1>2
    <3>2. i \in 1 .. l
      BY <3>1
    <3>3. i - 1 \in Areas /\ i - 1 < l
      BY <3>2 DEF Areas
    <3>4. QED
      BY <1>1, <3>1, <3>3 DEF Inv, AnswersInv
  <2>3. QED
    BY <1>1, <2>1, <2>2
<1>11. EarlyInv'
  BY <1>1 DEF Inv, EarlyInv, Sending
<1>12. PictureInv'
  BY <1>1 DEF Inv, PictureInv, Up
<1>13. QED
  BY <1>6, <1>8, <1>9, <1>10, <1>11, <1>12 DEF Inv

-----------------------------------------------------------------------------
(* The device serves the next command of the batch, whatever its outcome.  *)
LEMMA ServesKeeps ==
  ASSUME Types, NEW n \in 0 .. 2, Inv(n), step # "halted",
         NEW outcome \in {"ok", "error"}, Serves(outcome)
  PROVE  Types' /\ \E m \in 0 .. 2 : Inv(m)'
<1> DEFINE a == ring[seen % QueueSize]
<1>1. /\ device = "awake" /\ device' = "answer" /\ seen # availIdx
      /\ seen' = Next16(seen)
      /\ answer' = [answer EXCEPT ![a] = outcome]
      /\ answered' = [answered EXCEPT ![a] = outcome]
      /\ IF outcome = "ok" THEN Executes(command[a]) ELSE UNCHANGED picture
      /\ UNCHANGED <<step, started, batch, at, lastUsed, early,
                     ring, availIdx, command, usedIdx>>
  BY DEF Serves, driverVars
<1>2. n \in 0 .. Posted /\ seen = Ahead(lastUsed, n) /\ usedIdx = Ahead(lastUsed, n)
      /\ availIdx = Ahead(lastUsed, Posted) /\ lastUsed \in Indices
  BY <1>1 DEF Inv, RingInv, Types
<1>3. n # Posted
  BY <1>1, <1>2
<1>4. step \in Sending
  <2>1. step \notin {"idle", "check"}
    BY <1>2, <1>3 DEF Posted
  <2>2. QED
    BY <2>1 DEF Types
<1>5. /\ Len(batch) \in 1 .. 2 /\ at \in 1 .. Len(batch) /\ at \in {1, 2}
      /\ Up => \E r \in Rects :
           /\ batch[1] = Command("transfer", r) /\ batch[2] = Command("flush", r)
           /\ batch[1].rect = r /\ Len(batch) = 2
      /\ step # "idle"
  BY <1>4, BatchFacts DEF Inv, Sending
<1>6. Posted \in 0 .. 2 /\ Posted <= Described /\ Described \in 0 .. 2
      /\ (step = "describe" => Posted = at - 1)
  BY <1>4, <1>5 DEF Posted, Described, Sending
<1>7. n \in 0 .. 1 /\ n < Posted /\ n \in Areas /\ n \in 0 .. Posted - 1
      /\ n \in 0 .. Described - 1
  BY <1>2, <1>3, <1>6 DEF Areas
<1>8. a = n
  BY <1>2, <1>7 DEF Inv, RingInv
<1> HIDE DEF a
<1>9. /\ answer' \in [Areas -> {"none", "ok", "error"}]
      /\ answered' \in [Areas -> {"none", "ok", "error"}]
      /\ answer'[n] = outcome /\ answered'[n] = outcome
      /\ \A b \in Areas \ {n} : answer'[b] = answer[b] /\ answered'[b] = answered[b]
  BY <1>1, <1>7, <1>8 DEF Types
<1>10. seen' = Ahead(lastUsed, n + 1) /\ seen' \in Indices
  <2>1. /\ \A i \in 0 .. 1 : Next16(Ahead(lastUsed, i)) = Ahead(lastUsed, i + 1)
        /\ \A i \in 0 .. 2 : Ahead(lastUsed, i) \in Indices
    BY <1>2, AheadFacts
  <2>2. n + 1 \in 0 .. 2
    BY <1>7
  <2>3. QED
    BY <1>1, <1>2, <1>7, <2>1, <2>2
<1>11. Types'
  BY <1>1, <1>9, <1>10 DEF Types
<1>12. Posted' = Posted /\ Described' = Described
  BY <1>1 DEF Posted, Described
<1>13. BatchInv' /\ CommandInv'
  BY <1>1, <1>12 DEF Inv, BatchInv, CommandInv, Up
<1>14. RingInv(n + 1)'
  <2>1. n + 1 \in 0 .. Posted /\ n + 1 > 0 /\ (n + 1) - 1 = n
    BY <1>6, <1>7
  <2>2. usedIdx' = Ahead(lastUsed', IF device' = "answer" THEN (n + 1) - 1 ELSE n + 1)
    BY <1>1, <1>2, <2>1
  <2>3. QED
    BY <1>1, <1>2, <1>10, <1>12, <2>1, <2>2 DEF Inv, RingInv
<1>15. AnswersInv(n + 1)'
  <2> SUFFICES ASSUME NEW b \in Areas
               PROVE  IF b < n + 1
                      THEN answered'[b] \in {"ok", "error"} /\ answer'[b] = answered'[b]
                      ELSE answered'[b] = "none"
    BY <1>1, <1>4 DEF AnswersInv, BatchIsAnswered, Sending
  <2>1. IF b < n THEN answered[b] \in {"ok", "error"} /\ answer[b] = answered[b]
                 ELSE answered[b] = "none"
    BY <1>4 DEF Inv, AnswersInv
  <2>2. CASE b = n
    BY <1>7, <1>9, <2>2
  <2>3. CASE b # n
    <3>1. b < n + 1 <=> b < n
      BY <1>7, <2>3 DEF Areas
    <3>2. QED
      BY <1>9, <2>1, <2>3, <3>1
  <2>4. QED
    BY <2>2, <2>3
<1>16. EarlyInv'
  <2>1. step = "describe" => at > 1
    BY <1>5, <1>6, <1>7
  <2>2. /\ answer[0] \in {"none", answered[0]}
        /\ early[0] \in {"later", "none", answered[0]}
    BY <1>4, <2>1 DEF Inv, EarlyInv
  <2>3. CASE n = 0
    <3>1. answered[0] = "none"
      BY <1>4, <2>3 DEF Inv, AnswersInv, Areas
    <3>2. QED
      BY <1>1, <1>9, <2>2, <2>3, <3>1 DEF EarlyInv
  <2>4. CASE n # 0
    <3>1. answer'[0] = answer[0] /\ answered'[0] = answered[0]
      BY <1>9, <2>4 DEF Areas
    <3>2. QED
      BY <1>1, <2>2, <3>1 DEF EarlyInv
  <2>5. QED
    BY <2>3, <2>4
<1>17. PictureInv'
  <2> SUFFICES ASSUME Up
               PROVE  /\ cached' \cap Covered(batch[1].rect) = {}
                      /\ answered'[0] = "ok" => behind' \cap Covered(batch[1].rect) = {}
                      /\ answered'[0] = "ok" /\ answered'[1] = "ok" =>
                           hidden' \cap Covered(batch[1].rect) = {}
    BY <1>1 DEF PictureInv, Up
  <2>1. PICK r \in Rects :
          /\ batch[1] = Command("transfer", r) /\ batch[2] = Command("flush", r)
          /\ batch[1].rect = r /\ Len(batch) = 2
    BY <1>5
  <2> DEFINE area == Covered(r)
  <2>2. /\ cached \cap area = {}
        /\ answered[0] = "ok" => behind \cap area = {}
        /\ answered[0] = "ok" /\ answered[1] = "ok" => hidden \cap area = {}
    BY <1>5, <2>1 DEF Inv, PictureInv
  <2>3. command[a] = batch[n + 1]
    BY <1>7, <1>8 DEF Inv, CommandInv
  <2> SUFFICES /\ cached' \cap area = {}
               /\ answered'[0] = "ok" => behind' \cap area = {}
               /\ answered'[0] = "ok" /\ answered'[1] = "ok" => hidden' \cap area = {}
    BY <2>1
  <2>4. CASE n = 0
    <3>1. answered'[0] = outcome /\ answered'[1] = "none"
      <4>1. answered[1] = "none" /\ 1 \in Areas \ {n}
        BY <1>4, <2>4 DEF Inv, AnswersInv, Areas
      <4>2. QED
        BY <1>9, <2>4, <4>1
    <3>2. CASE outcome = "ok"
      <4>1. command[a] = Command("transfer", r)
        BY <2>1, <2>3, <2>4
      <4>2. behind' = behind \ (area \ cached) /\ cached' = cached
        BY <1>1, <3>2, <4>1 DEF Executes, Command
      <4>3. QED
        BY <2>2, <3>1, <4>2
    <3>3. CASE outcome = "error"
      BY <1>1, <2>2, <3>1, <3>3 DEF picture
    <3>4. QED
      BY <3>2, <3>3
  <2>5. CASE n = 1
    <3>1. answered'[1] = outcome /\ answered'[0] = answered[0]
      BY <1>9, <2>5 DEF Areas
    <3>2. CASE outcome = "ok"
      <4>1. command[a] = Command("flush", r)
        BY <2>1, <2>3, <2>5
      <4>2. /\ hidden' = (hidden \ area) \cup (area \cap behind)
            /\ cached' = cached /\ behind' = behind
        BY <1>1, <3>2, <4>1 DEF Executes, Command
      <4>3. QED
        BY <2>2, <3>1, <4>2
    <3>3. CASE outcome = "error"
      BY <1>1, <2>2, <3>1, <3>3 DEF picture
    <3>4. QED
      BY <3>2, <3>3
  <2>6. QED
    BY <1>7, <2>4, <2>5
<1>18. n + 1 \in 0 .. 2
  BY <1>7
<1>19. QED
  BY <1>11, <1>13, <1>14, <1>15, <1>16, <1>17, <1>18 DEF Inv

(* It counts the answer.                                                   *)
LEMMA CountsKeeps ==
  ASSUME Types, NEW n \in 0 .. 2, Inv(n), Counts
  PROVE  Types' /\ Inv(n)'
<1>1. /\ device = "answer" /\ device' = "awake" /\ usedIdx' = Next16(usedIdx)
      /\ UNCHANGED <<step, started, batch, at, lastUsed, early, ring, availIdx, command,
                     seen, answer, answered, cached, behind, hidden>>
  BY DEF Counts, driverVars, picture
<1>2. n - 1 \in 0 .. 1 /\ usedIdx = Ahead(lastUsed, n - 1) /\ lastUsed \in Indices
  BY <1>1 DEF Inv, RingInv, Types
<1>3. usedIdx' = Ahead(lastUsed, n) /\ usedIdx' \in Indices
  <2>1. /\ \A i \in 0 .. 1 : Next16(Ahead(lastUsed, i)) = Ahead(lastUsed, i + 1)
        /\ \A i \in 0 .. 2 : Ahead(lastUsed, i) \in Indices
    BY <1>2, AheadFacts
  <2>2. (n - 1) + 1 = n
    OBVIOUS
  <2>3. QED
    BY <1>1, <1>2, <2>1, <2>2
<1>4. Types'
  BY <1>1, <1>3 DEF Types
<1>5. Posted' = Posted /\ Described' = Described
  BY <1>1 DEF Posted, Described
<1>6. RingInv(n)'
  BY <1>1, <1>3, <1>5 DEF Inv, RingInv
<1>7. BatchInv' /\ CommandInv' /\ PictureInv'
  BY <1>1, <1>5 DEF Inv, BatchInv, CommandInv, PictureInv, Up
<1>8. AnswersInv(n)' /\ EarlyInv'
  BY <1>1 DEF Inv, AnswersInv, BatchIsAnswered, EarlyInv
<1>9. QED
  BY <1>4, <1>6, <1>7, <1>8 DEF Inv

(* It has nothing more to do.                                              *)
LEMMA SleepsKeeps ==
  ASSUME Types, NEW n \in 0 .. 2, Inv(n), Sleeps
  PROVE  Types' /\ Inv(n)'
<1>1. /\ device = "awake" /\ device' = "asleep"
      /\ UNCHANGED <<step, started, batch, at, lastUsed, early, ring, availIdx, command,
                     seen, usedIdx, answer, answered, cached, behind, hidden>>
  BY DEF Sleeps, driverVars, picture
<1>2. Types'
  BY <1>1 DEF Types
<1>3. Posted' = Posted /\ Described' = Described
  BY <1>1 DEF Posted, Described
<1>4. RingInv(n)'
  BY <1>1, <1>3 DEF Inv, RingInv
<1>5. BatchInv' /\ CommandInv' /\ PictureInv'
  BY <1>1, <1>3 DEF Inv, BatchInv, CommandInv, PictureInv, Up
<1>6. AnswersInv(n)' /\ EarlyInv'
  BY <1>1 DEF Inv, AnswersInv, BatchIsAnswered, EarlyInv
<1>7. QED
  BY <1>2, <1>4, <1>5, <1>6 DEF Inv

-----------------------------------------------------------------------------
(* The kernel has panicked: the driver does nothing more.                  *)
LEMMA HaltedStays ==
  ASSUME Types, step = "halted", [Next]_vars
  PROVE  Types' /\ step' = "halted"
<1>1. CASE \E outcome \in {"ok", "error"} : Serves(outcome)
  <2>1. PICK outcome \in {"ok", "error"} : Serves(outcome)
    BY <1>1
  <2>2. /\ seen' = Next16(seen) /\ device' = "answer"
        /\ answer' = [answer EXCEPT ![ring[seen % QueueSize]] = outcome]
        /\ answered' = [answered EXCEPT ![ring[seen % QueueSize]] = outcome]
        /\ UNCHANGED <<step, started, batch, at, lastUsed, early,
                       ring, availIdx, command, usedIdx>>
    BY <2>1 DEF Serves, driverVars
  <2>3. seen' \in Indices
    BY <2>2, AheadFacts, GpuAssumption DEF Types, Next16, Indices
  <2>4. /\ answer' \in [Areas -> {"none", "ok", "error"}]
        /\ answered' \in [Areas -> {"none", "ok", "error"}]
    BY <2>2 DEF Types
  <2>5. QED
    BY <2>2, <2>3, <2>4 DEF Types
<1>2. CASE Counts
  <2>1. /\ usedIdx' = Next16(usedIdx) /\ device' = "awake"
        /\ UNCHANGED <<step, started, batch, at, lastUsed, early, ring, availIdx, command,
                       seen, answer, answered>>
    BY <1>2 DEF Counts, driverVars
  <2>2. usedIdx' \in Indices
    BY <2>1, GpuAssumption DEF Types, Next16, Indices
  <2>3. QED
    BY <2>1, <2>2 DEF Types
<1>3. CASE Sleeps
  BY <1>3 DEF Sleeps, driverVars, Types
<1>4. CASE UNCHANGED vars
  BY <1>4 DEF vars, driverVars, deviceVars, Types
<1>5. \/ \E outcome \in {"ok", "error"} : Serves(outcome)
      \/ Counts \/ Sleeps \/ UNCHANGED vars
  BY DEF Next, Drives, Starts, Begin, Draws, Presents, Describes, PutsInRing,
         AdvancesIndex, Notifies, SeesAnswers, GivesUp, ChecksAnswer, FindsError,
         LoadsEarly, Restarts
<1>6. QED
  BY <1>1, <1>2, <1>3, <1>4, <1>5

(* The driver panics.                                                      *)
LEMMA PanicsHalt ==
  ASSUME Types, GivesUp \/ FindsError
  PROVE  Types' /\ step' = "halted"
BY DEF GivesUp, FindsError, Types, driverVars, deviceVars, picture

(* Every step keeps the invariant.                                         *)
LEMMA NextKeeps == IInv /\ [Next]_vars => IInv'
<1> SUFFICES ASSUME IInv, [Next]_vars
             PROVE  IInv'
  OBVIOUS
<1>1. CASE step = "halted"
  BY <1>1, HaltedStays DEF IInv
<1>2. CASE step # "halted"
  <2>1. PICK n \in 0 .. 2 : Inv(n)
    BY <1>2 DEF IInv
  <2>2. Types /\ 0 \in 0 .. 2
    BY DEF IInv
  <2>3. CASE Starts \/ \E r \in Rects : Draws(r) \/ Presents(r)
    BY <2>1, <2>2, <2>3, StartsKeeps, DrawsKeeps, PresentsKeeps DEF IInv
  <2>4. CASE Describes \/ PutsInRing \/ AdvancesIndex \/ Notifies
    BY <2>1, <2>2, <2>4, DescribesKeeps, PutsInRingKeeps, AdvancesIndexKeeps,
       NotifiesKeeps DEF IInv
  <2>5. CASE SeesAnswers \/ ChecksAnswer
    BY <2>1, <2>2, <2>5, SeesAnswersKeeps, ChecksAnswerKeeps DEF IInv
  <2>6. CASE GivesUp \/ FindsError
    BY <2>2, <2>6, PanicsHalt DEF IInv
  <2>7. CASE \E a \in Areas : LoadsEarly(a)
    BY <2>1, <2>2, <2>7, LoadsEarlyKeeps DEF IInv
  <2>8. CASE \E outcome \in {"ok", "error"} : Serves(outcome)
    BY <1>2, <2>1, <2>2, <2>8, ServesKeeps DEF IInv
  <2>9. CASE Counts \/ Sleeps
    BY <2>1, <2>2, <2>9, CountsKeeps, SleepsKeeps DEF IInv
  <2>10. CASE Restarts
    BY <2>10, RestartsKeeps
  <2>11. CASE UNCHANGED vars
    <3>1. Types'
      BY <2>2, <2>11 DEF vars, driverVars, deviceVars, Types
    <3>2. Posted' = Posted /\ Described' = Described
      BY <2>11 DEF vars, driverVars, Posted, Described
    <3>3. RingInv(n)' /\ BatchInv' /\ CommandInv' /\ PictureInv'
      BY <2>1, <2>11, <3>2 DEF vars, driverVars, deviceVars, picture, Inv, RingInv,
                               BatchInv, CommandInv, PictureInv, Up
    <3>4. AnswersInv(n)' /\ EarlyInv'
      BY <2>1, <2>11 DEF vars, driverVars, deviceVars, Inv, AnswersInv,
                         BatchIsAnswered, EarlyInv
    <3>5. QED
      BY <3>1, <3>3, <3>4 DEF IInv, Inv
  <2>12. QED
    BY <1>2, <2>3, <2>4, <2>5, <2>6, <2>7, <2>8, <2>9, <2>10, <2>11 DEF Next, Drives
<1>3. QED
  BY <1>1, <1>2

(* The driver and the device agree on how far the batch has come, at every *)
(* value of the indices, which wrap (virtio_gpu.rs).                       *)
THEOREM Invariance == Spec => []IInv
<1>1. Init => IInv
  BY InitInv
<1>2. IInv /\ [Next]_vars => IInv'
  BY NextKeeps
<1>3. QED
  BY <1>1, <1>2, PTL DEF Spec

(* poll_used and the checks after it (virtio_gpu.rs): once a batch is      *)
(* done, the device has answered each of its commands, and the one of the  *)
(* cleared area with success unless it was asked for the size of the       *)
(* display.  Whatever the CPU loads early, only the failure of a flush may *)
(* have passed.                                                            *)
THEOREM AnsweredBatch == Spec => []BatchIsAnswered
<1>1. IInv => BatchIsAnswered
  BY DEF IInv, Inv, AnswersInv, BatchIsAnswered
<1>2. Spec => []IInv
  BY Invariance
<1>3. QED
  BY <1>1, <1>2, PTL

(* present_rect (virtio_gpu.rs): when it returns and the device has not    *)
(* refused the flush, what was last drawn in the rectangle is on the       *)
(* screen.  All of it has been written back from the cache, and the        *)
(* transfer was done before the flush.                                     *)
THEOREM PresentedRectIsShown == Spec => PresentedIsShown
<1>1. IInv /\ [Next]_vars =>
        [step = "check" /\ step' = "idle" /\ Up /\ Up' /\ answered[1] # "error" =>
           hidden \cap Covered(batch[1].rect) = {}]_vars
  <2> SUFFICES ASSUME IInv, [Next]_vars, step = "check", step' = "idle", Up, Up',
                      answered[1] # "error"
               PROVE  hidden \cap Covered(batch[1].rect) = {}
    OBVIOUS
  <2>1. PICK n \in 0 .. 2 : Inv(n)
    BY DEF IInv
  <2>2. ChecksAnswer
    <3>1. ~Restarts
      BY UpMeans DEF Restarts
    <3>2. QED
      BY <3>1 DEF Next, Drives, Starts, Begin, Draws, Presents, Describes, PutsInRing,
                  AdvancesIndex, Notifies, SeesAnswers, GivesUp, FindsError,
                  LoadsEarly, Serves, Counts, Sleeps, vars, driverVars
  <2>3. PICK r \in Rects :
          /\ batch[1] = Command("transfer", r) /\ batch[2] = Command("flush", r)
          /\ batch[1].rect = r /\ Len(batch) = 2
    BY <2>1, BatchFacts DEF IInv, Inv
  <2>4. at = 2
    BY <2>2, <2>3 DEF ChecksAnswer
  <2>5. answered[0] = "ok"
    <3>1. batch[1].op = "info" \/ answered[0] = "ok"
      BY <2>1, <2>4 DEF Inv, AnswersInv
    <3>2. QED
      BY <2>3, <3>1 DEF Command
  <2>6. answered[1] = "ok"
    <3>1. 1 \in Areas /\ 1 < Len(batch)
      BY <2>3 DEF Areas
    <3>2. answered[1] # "none"
      BY <2>1, <3>1 DEF Inv, AnswersInv
    <3>3. QED
      BY <3>1, <3>2 DEF IInv, Types
  <2>7. QED
    BY <2>1, <2>5, <2>6 DEF Inv, PictureInv
<1>2. Spec => []IInv
  BY Invariance
<1>3. QED
  BY <1>1, <1>2, PTL DEF Spec, PresentedIsShown

(* The store to QUEUE_NOTIFY (virtio_gpu.rs): while the driver waits, the  *)
(* device is not asleep over commands that it has not served.  This holds  *)
(* whatever the CPU loads early.                                           *)
THEOREM DeviceStaysAwake == Spec => []DeviceIsAwake
<1>1. Init => DeviceIsAwake
  BY DEF Init, DeviceIsAwake
<1>2. DeviceIsAwake /\ [Next]_vars => DeviceIsAwake'
  <2> SUFFICES ASSUME DeviceIsAwake, [Next]_vars, step' = "poll", seen' # availIdx'
               PROVE  device' # "asleep"
    BY DEF DeviceIsAwake
  <2>1. CASE Notifies
    BY <2>1 DEF Notifies, Kicked
  <2>2. CASE Sleeps
    BY <2>2 DEF Sleeps
  <2>3. CASE Counts \/ \E outcome \in {"ok", "error"} : Serves(outcome)
    BY <2>3 DEF Counts, Serves
  <2>4. CASE UNCHANGED <<step, seen, availIdx, device>>
    BY <2>4 DEF DeviceIsAwake
  <2>5. \/ Notifies \/ Sleeps \/ Counts
        \/ \E outcome \in {"ok", "error"} : Serves(outcome)
        \/ UNCHANGED <<step, seen, availIdx, device>>
    BY DEF Next, Drives, Starts, Begin, Draws, Presents, Describes, PutsInRing,
           AdvancesIndex, SeesAnswers, GivesUp, ChecksAnswer, FindsError,
           LoadsEarly, Restarts, vars, driverVars, deviceVars
  <2>6. QED
    BY <2>1, <2>2, <2>3, <2>4, <2>5
<1>3. QED
  BY <1>1, <1>2, PTL DEF Spec
=============================================================================
