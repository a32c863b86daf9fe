-------------------------------- MODULE Ipc --------------------------------
(***************************************************************************)
(* Channels (kernel/src/ipc.rs): a bounded queue each, the task asleep on  *)
(* it, and the kernel's backlog of exit notices.  The operators say what   *)
(* the functions of ipc.rs do to this state; the syscalls, built-ins and   *)
(* exit path that call them are the actions of module Kernel.              *)
(***************************************************************************)
EXTENDS TaskTable, Sequences

CONSTANTS
  MaxChannels,        \* MAX_CHANNELS
  ChannelCap,         \* CHANNEL_CAP
  BacklogCap,         \* BACKLOG_CAP
  MaxGeneration,      \* a bound of the model: spawns into one slot
  Payloads,           \* what a task can put in a message
  Nothing, TimedOut   \* what a recv comes back with instead of a message

ASSUME IpcAssumption ==
  /\ MaxChannels \in Nat /\ MaxChannels >= 3
  /\ ChannelCap \in Nat \ {0}
  /\ BacklogCap \in Nat
  /\ MaxGeneration \in Nat \ {0}

VARIABLES
  queue,              \* the messages in each channel, oldest first
  waiter,             \* the task blocked in a recv on it, or NONE
  backlog,            \* exit notices waiting for room in init's inbox
  wait,               \* each task's UserWait: an EL0 recv in progress
  result              \* what its last recv came back with

ipcVars == <<queue, waiter, backlog, wait, result>>

Channels == 0 .. MaxChannels - 1
NoChannel == MaxChannels

(* The channels the kernel creates at boot.                                *)
KBD_EVENTS == 0
SHELL_KEYS == 1
INIT_INBOX == 2
BootChannels == 3

(* A task, for as long as the kernel runs: slot and generation.            *)
TaskRefs == Slots \X (0 .. MaxGeneration)

(* A message is a task's own, or a notice of the exit it names.           *)
Messages == Payloads \cup TaskRefs

(* send_from stamps the sender, so no task can pass for the kernel.        *)
ASSUME PayloadAssumption == Payloads \cap TaskRefs = {}

(* What a recv comes back with: nothing while it waits, and a refused one  *)
(* is not counted.                                                         *)
Results == {Nothing, TimedOut} \cup Messages

(* A recv waits for ever, or until a deadline the clock has not reached    *)
(* ("later") or has ("past").                                              *)
Deadlines == {"forever", "later", "past"}
UserWaits == [channel : Channels, deadline : Deadlines]
NoWait == [channel |-> NoChannel, deadline |-> "none"]

-----------------------------------------------------------------------------
(* The operators take the waiters w and the user waits u that the handler  *)
(* has reached so far.                                                     *)

HasUserWait(c, w, u) == w[c] \in Slots /\ u[w[c]] # NoWait

(* send_from, once the channel is found active and not full: a user task   *)
(* waiting in recv takes the oldest message at once; any other waiter is   *)
(* only woken, and finds the message in the channel.                       *)
Arrive(c, m, w, u) ==
  /\ waiter' = [w EXCEPT ![c] = NONE]
  /\ IF HasUserWait(c, w, u)
       THEN /\ queue' = [queue EXCEPT ![c] = Tail(Append(@, m))]
            /\ wait' = [u EXCEPT ![w[c]] = NoWait]
            /\ result' = [result EXCEPT ![w[c]] = Head(Append(queue[c], m))]
       ELSE /\ queue' = [queue EXCEPT ![c] = Append(@, m)]
            /\ wait' = u
            /\ UNCHANGED result

(* The task table after it: complete_user_recv or unblock.                 *)
Woken(c, w, u, st) ==
  IF HasUserWait(c, w, u) \/ (w[c] \in Slots /\ st[w[c]] = "Blocked")
    THEN [st EXCEPT ![w[c]] = "Ready"]
    ELSE st

(* send_as_kernel.  A notice goes behind those already in the backlog, and *)
(* is lost if the backlog is full.                                         *)
MustWait == Len(queue[INIT_INBOX]) >= ChannelCap \/ backlog # <<>>

(* Mutant: the backlog has no end.                                         *)
Notify_Unbounded(m, w, u) ==
  IF MustWait
    THEN /\ backlog' = Append(backlog, m)
         /\ waiter' = w
         /\ wait' = u
         /\ UNCHANGED <<queue, result>>
    ELSE /\ Arrive(INIT_INBOX, m, w, u)
         /\ UNCHANGED backlog

Notify(m, w, u) ==
  IF MustWait
    THEN /\ backlog' = IF Len(backlog) < BacklogCap THEN Append(backlog, m)
                                                    ELSE backlog
         /\ waiter' = w
         /\ wait' = u
         /\ UNCHANGED <<queue, result>>
    ELSE /\ Arrive(INIT_INBOX, m, w, u)
         /\ UNCHANGED backlog

WokenByNotice(w, u, st) ==
  IF MustWait THEN st ELSE Woken(INIT_INBOX, w, u, st)

(* try_dequeue, with a message there: init, reading its inbox, makes room  *)
(* for the oldest notices of the backlog (refill_from_backlog; the caller  *)
(* is the channel's receiver, so nobody waits on it).                      *)
Room(q) == IF Len(backlog) < ChannelCap - Len(q) THEN Len(backlog)
                                                 ELSE ChannelCap - Len(q)

(* Mutant: a read loses what it moves in from the backlog.                 *)
Take_LosesRefill(c) ==
  /\ queue' = [queue EXCEPT ![c] = Tail(@)]
  /\ backlog' = IF c = INIT_INBOX
                  THEN SubSeq(backlog, Room(Tail(queue[c])) + 1, Len(backlog))
                  ELSE backlog

Take(c) ==
  IF c = INIT_INBOX
    THEN /\ queue' = [queue EXCEPT ![c] =
                        Tail(@) \o SubSeq(backlog, 1, Room(Tail(@)))]
         /\ backlog' = SubSeq(backlog, Room(Tail(queue[c])) + 1, Len(backlog))
    ELSE /\ queue' = [queue EXCEPT ![c] = Tail(@)]
         /\ UNCHANGED backlog

(* Mutant: the channel keeps its waiter.                                   *)
Cancelled_Never(T, w, u) == w

(* cancel_waiter, for every task in the set T.                             *)
Cancelled(T, w, u) ==
  [c \in Channels |->
     IF w[c] \in T /\ u[w[c]].channel = c THEN NONE ELSE w[c]]
=============================================================================
