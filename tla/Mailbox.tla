------------------------------ MODULE Mailbox ------------------------------
(***************************************************************************)
(* What the kernel's message passing promises, with no queues, waiters,    *)
(* backlog or scheduler: each channel is a first-in first-out mailbox, a   *)
(* task is awake or asleep on one channel, a mailbox anyone sleeps on is   *)
(* empty, and a message to a sleeper either is taken at once by it or      *)
(* wakes it.  A full mailbox refuses a task's message; the inbox of init   *)
(* has Reserve more places for notices of the kernel.                      *)
(***************************************************************************)
EXTENDS Integers, Sequences

CONSTANTS
  Tasks, Channels, Inbox,
  Payloads, Notices,          \* the messages of tasks, and of the kernel
  Nothing, TimedOut,
  Cap, Reserve,
  Nowhere                     \* no channel

VARIABLES
  mail,                       \* the messages in each channel, oldest first
  asleep,                     \* where and how each task sleeps, or Awake
  got                         \* what each task's last recv came back with

(* A task that sleeps in the kernel's recv takes a message in its sleep;   *)
(* one inside the kernel is woken to look for it.                          *)
Modes == {"takes", "looks"}

vars == <<mail, asleep, got>>

Awake == <<Nowhere, "awake">>

Init ==
  /\ mail = [c \in Channels |-> <<>>]
  /\ asleep = [t \in Tasks |-> Awake]
  /\ got = [t \in Tasks |-> Nothing]

Sleepers(c, mode) == {t \in Tasks : asleep[t] = <<c, mode>>}
Room(c, m) ==
  Len(mail[c]) < IF c = Inbox /\ m \in Notices THEN Cap + Reserve ELSE Cap

(* A message comes to c: kept, with any sleeper woken to look for it; or   *)
(* taken in its sleep by one.  A notice may find even the reserve full.    *)
Keep(c, m) ==
  /\ Room(c, m)
  /\ mail' = [mail EXCEPT ![c] = Append(@, m)]
  /\ UNCHANGED got
  /\ Sleepers(c, "takes") = {}
  /\ asleep' = [t \in Tasks |->
       IF t \in Sleepers(c, "looks") THEN Awake ELSE asleep[t]]

TakeAsleep(c, t, m) ==
  /\ got' = [got EXCEPT ![t] = m]
  /\ asleep[t] = <<c, "takes">>
  /\ mail[c] = <<>>
  /\ asleep' = [asleep EXCEPT ![t] = Awake]
  /\ UNCHANGED mail

TakeOldest(c, t) ==
  /\ mail[c] # <<>>
  /\ got' = [got EXCEPT ![t] = Head(mail[c])]
  /\ asleep[t] = Awake
  /\ mail' = [mail EXCEPT ![c] = Tail(@)]
  /\ UNCHANGED asleep

Sleep(t, c, mode) ==
  /\ asleep[t] = Awake
  /\ mail[c] = <<>>
  /\ got' = [got EXCEPT ![t] = Nothing]
  /\ asleep' = [asleep EXCEPT ![t] = <<c, mode>>]
  /\ UNCHANGED mail

(* Deadlines, which only a recv has, wake any number of sleepers at once.  *)
TimeOut(T) ==
  /\ asleep' = [t \in Tasks |-> IF t \in T THEN Awake ELSE asleep[t]]
  /\ got' = [t \in Tasks |-> IF t \in T THEN TimedOut ELSE got[t]]
  /\ UNCHANGED mail

(* A new task has received nothing.                                        *)
Start(t) ==
  /\ got' = [got EXCEPT ![t] = Nothing]
  /\ asleep[t] = Awake
  /\ UNCHANGED <<mail, asleep>>

Next ==
  \/ \E c \in Channels, m \in Payloads : Keep(c, m)
  \/ \E m \in Notices : Keep(Inbox, m)
  \/ \E c \in Channels, t \in Tasks, m \in Payloads : TakeAsleep(c, t, m)
  \/ \E t \in Tasks, m \in Notices : TakeAsleep(Inbox, t, m)
  \/ \E c \in Channels, t \in Tasks : TakeOldest(c, t)
  \/ \E t \in Tasks, c \in Channels, mode \in Modes : Sleep(t, c, mode)
  \/ \E T \in SUBSET UNION {Sleepers(c, "takes") : c \in Channels} : TimeOut(T)
  \/ \E t \in Tasks : Start(t)

Spec == Init /\ [][Next]_vars
=============================================================================
