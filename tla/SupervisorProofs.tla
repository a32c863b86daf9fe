-------------------------- MODULE SupervisorProofs --------------------------
(***************************************************************************)
(* The safety properties of module Supervisor, for any number of services, *)
(* slots and generations, any delays and any capacity of the inbox whose   *)
(* reserve has a place for each service.                                   *)
(***************************************************************************)
EXTENDS Supervisor, FiniteSetTheorems, SequenceTheorems, TLAPS

Messages == [exited : TaskRefs \cup {NoTask}, service : Services \cup {0},
             down : BOOLEAN, starts : Nat]

Launching == pc \in {"load", "record"}
Round == IF Launching THEN launching.round ELSE pc

-----------------------------------------------------------------------------
(* The inductive invariant.                                                *)

(* The task of s as init will know it once a launch it is in is over.      *)
Known == [s \in Services |->
            IF pc = "record" /\ launching.service = s THEN launching.ref ELSE task[s]]

(* A task that runs can still be counted in its slot's generations.        *)
GenerationsLeft == \A i \in Slots : slot[i] \in Services \/ generation[i] < MaxGeneration

(* A launch is of a service that is down and no longer waits to be started.*)
LaunchInv ==
  /\ ~Launching => launching = NoLaunch
  /\ Launching => /\ launching.service \in Services \ todo
                  /\ launching.round \in {"boot", "request", "sweep"}
                  /\ task[launching.service] = NoTask
                  /\ restart[launching.service] = "none"
  /\ pc = "load" => launching.ref = NoTask
  /\ pc = "record" => launching.ref \in TaskRefs
  /\ \A i \in Slots : slot[i] = Reserved =>
       pc = "load" /\ \A j \in Slots : slot[j] = Reserved => j = i

(* Only what is down, as far as init knows, is to be launched or scheduled.*)
RoundInv ==
  /\ pc \in {"recv", "sample"} => todo = {}
  /\ \A s \in todo : task[s] = NoTask
  /\ \A s \in Services : restart[s] # "none" => task[s] = NoTask
  /\ Round \in {"boot", "request"} => \A s \in todo : restart[s] = "none"

(* init knows whatever runs, and what it knows runs or has a notice.       *)
KnownInv ==
  /\ \A s \in Services, i \in Slots : slot[i] = s => Known[s] = Ref(i)
  /\ \A s \in Services : Known[s] # NoTask =>
       (\E i \in Slots : slot[i] = s) \/ Waiting(Known[s])
  /\ \A s \in Services : Known[s] # NoTask => Known[s][2] <= generation[Known[s][1]]
  /\ \A s, u \in Services : Known[s] # NoTask /\ Known[s] = Known[u] => s = u

(* The service a notice is about: it has not been started since.           *)
About(m, s) == m = Notice(Known[s]) /\ Known[s] # NoTask /\ ~Running(s)

(* Each notice is about one service, told once; behind a full inbox there  *)
(* are only notices.                                                       *)
NoticeInv ==
  /\ \A k \in 1 .. Len(inbox) :
       IsNotice(inbox[k]) => \E s \in Services : About(inbox[k], s)
  /\ \A j, k \in 1 .. Len(inbox) :
       IsNotice(inbox[k]) /\ inbox[j] = inbox[k] => j = k
  /\ \A k \in 1 .. Len(inbox) : k > InboxCap => IsNotice(inbox[k])

(* A request of the past, or the news that made it comes first.            *)
InTime(k) ==
  LET m == inbox[k] IN
  ~IsNotice(m) =>
    /\ m.starts <= registry[m.service].starts
    /\ m.down /\ registry[m.service].starts = m.starts =>
         \/ Known[m.service] = NoTask
         \/ \E j \in 1 .. k - 1 : inbox[j] = Notice(Known[m.service])

RequestInv == \A k \in 1 .. Len(inbox) : InTime(k)

IInv ==
  /\ TypeOK
  /\ GenerationsLeft
  /\ LaunchInv
  /\ RoundInv
  /\ KnownInv
  /\ NoticeInv
  /\ RequestInv
  /\ RegistryAgrees
  /\ NeverForgotten

-----------------------------------------------------------------------------
(* What marks a slot as free or reserved is no service's number, and no    *)
(* task's name is the name of no task.                                     *)
LEMMA Marks ==
  /\ Free \notin Services /\ Reserved \notin Services /\ Free # Reserved
  /\ 0 \notin Services
  /\ NoTask \notin TaskRefs
  /\ Services \subseteq Nat
  /\ IsFiniteSet(Services) /\ Cardinality(Services) = NServices
<1>1. NServices \in Nat \ {0}
  BY SupervisorAssumption
<1>2. IsFiniteSet(Services) /\ Cardinality(Services) = NServices
  BY <1>1, FS_Interval DEF Services
<1>3. QED
  BY <1>1, <1>2 DEF Services, Free, Reserved, NoTask, TaskRefs, Slots

(* init starts with nothing running, nothing heard and all to launch.      *)
LEMMA InitInv == Init => IInv
<1> SUFFICES ASSUME Init PROVE IInv
  OBVIOUS
<1>1. TypeOK
  BY SupervisorAssumption DEF Init, TypeOK, NoLaunch, Free, NoTask, Higher
<1>2. \A s \in Services : ~Running(s) /\ Known[s] = NoTask
  BY Marks DEF Init, Running, Known
<1>3. GenerationsLeft /\ LaunchInv /\ RoundInv
  BY Marks, SupervisorAssumption
  DEF Init, GenerationsLeft, LaunchInv, RoundInv, Launching, Round
<1>4. KnownInv /\ NoticeInv /\ RequestInv
  BY <1>2, Marks DEF Init, KnownInv, NoticeInv, RequestInv, Running
<1>5. RegistryAgrees
  BY <1>2, Marks DEF Init, RegistryAgrees, Running
<1>6. NeverForgotten
  BY DEF Init, NeverForgotten, Supervised
<1>7. QED
  BY <1>1, <1>3, <1>4, <1>5, <1>6 DEF IInv

-----------------------------------------------------------------------------
(* Whatever does not start or end a task, and leaves the inbox alone,      *)
(* keeps what is said of tasks, notices, requests and the registry.        *)
LEMMA TasksStay ==
  ASSUME IInv, UNCHANGED <<inbox, generation, registry>>, Known' = Known,
         \A s \in Services, i \in Slots : slot'[i] = s <=> slot[i] = s
  PROVE  GenerationsLeft' /\ KnownInv' /\ NoticeInv' /\ RequestInv' /\ RegistryAgrees'
<1>1. \A s \in Services : Running(s)' <=> Running(s)
  BY DEF Running
<1>2. \A i \in Slots : Ref(i)' = Ref(i)
  BY DEF Ref
<1>3. GenerationsLeft'
  BY DEF IInv, GenerationsLeft
<1>4. KnownInv'
  <2>1. \A s \in Services : Known[s] # NoTask => Running(s)' \/ Waiting(Known[s])'
    BY <1>1 DEF IInv, KnownInv, Running, Waiting
  <2>2. QED
    BY <1>2, <2>1 DEF IInv, KnownInv, Running, Waiting
<1>5. NoticeInv'
  <2>1. ASSUME NEW k \in 1 .. Len(inbox), IsNotice(inbox[k])
        PROVE  \E s \in Services : About(inbox[k], s)'
    BY <1>1, <2>1 DEF IInv, NoticeInv, About
  <2>2. QED
    BY <2>1 DEF IInv, NoticeInv
<1>6. RequestInv'
  BY DEF IInv, RequestInv, InTime
<1>7. RegistryAgrees'
  BY <1>1, <1>2 DEF IInv, RegistryAgrees
<1>8. QED
  BY <1>3, <1>4, <1>5, <1>6, <1>7

(* What a failed start leaves: the service is down for init, and, if       *)
(* supervised, scheduled.                                                  *)
LEMMA FailedFacts ==
  ASSUME TypeOK, NEW s \in Services, Failed(s)
  PROVE  /\ task' = [task EXCEPT ![s] = NoTask]
         /\ task' \in [Services -> TaskRefs \cup {NoTask}]
         /\ restart' \in [Services -> {"none", "later", "due"}]
         /\ retry' \in [Services -> Nat]
         /\ \A u \in Services : retry'[u] <= Higher(RetryCap, FirstDelay[u])
         /\ \A u \in Services : u # s => restart'[u] = restart[u]
         /\ s \in Supervised => restart'[s] = "later"
         /\ task[s] = NoTask => task' = task
<1>1. /\ task \in [Services -> TaskRefs \cup {NoTask}]
      /\ restart \in [Services -> {"none", "later", "due"}]
      /\ retry \in [Services -> Nat]
      /\ \A u \in Services : retry[u] <= Higher(RetryCap, FirstDelay[u])
  BY DEF TypeOK
<1>2. task' = [task EXCEPT ![s] = NoTask]
  BY DEF Failed
<1>3. NextWait(s) \in Nat /\ NextWait(s) <= Higher(RetryCap, FirstDelay[s])
  BY <1>1, SupervisorAssumption DEF NextWait, Higher, Lower
<1>4. /\ retry' \in [Services -> Nat]
      /\ \A u \in Services : retry'[u] <= Higher(RetryCap, FirstDelay[u])
  BY <1>1, <1>3 DEF Failed
<1>5. /\ restart' \in [Services -> {"none", "later", "due"}]
      /\ \A u \in Services : u # s => restart'[u] = restart[u]
      /\ s \in Supervised => restart'[s] = "later"
  BY <1>1 DEF Failed, Cleared
<1>6. task[s] = NoTask => task' = task
  BY <1>1, <1>2
<1>7. QED
  BY <1>1, <1>2, <1>4, <1>5, <1>6

(* The clock passes a restart_at: only the schedule changes.               *)
LEMMA ClockKeeps ==
  ASSUME IInv, NEW s \in Services, ClockPasses(s)
  PROVE  IInv'
<1>1. TypeOK'
  BY DEF IInv, TypeOK, ClockPasses, kernelVars, Waiting
<1>2. restart' \in [Services -> {"none", "later", "due"}] /\
      \A u \in Services : restart'[u] # "none" <=> restart[u] # "none"
  BY <1>1 DEF IInv, TypeOK, ClockPasses
<1>3. Known' = Known
  BY DEF Known, ClockPasses
<1>4. GenerationsLeft' /\ KnownInv' /\ NoticeInv' /\ RequestInv' /\ RegistryAgrees'
  BY <1>3, TasksStay DEF ClockPasses, kernelVars
<1>5. LaunchInv'
  BY <1>2 DEF IInv, LaunchInv, Launching, ClockPasses, kernelVars
<1>6. RoundInv'
  BY <1>2 DEF IInv, RoundInv, Round, Launching, ClockPasses, TypeOK
<1>7. NeverForgotten'
  BY <1>2 DEF IInv, NeverForgotten, Supervised, Running, Waiting, ClockPasses, kernelVars
<1>8. QED
  BY <1>1, <1>4, <1>5, <1>6, <1>7 DEF IInv

(* SPAWN claims a slot: init is in a launch, and nothing has started yet.  *)
LEMMA ClaimKeeps ==
  ASSUME IInv, NEW s \in Services, NEW i \in Slots, Claim(s, i)
  PROVE  IInv'
<1>1. /\ s \in todo /\ task[s] = NoTask /\ ~Launching
      /\ restart'[s] = "none"
      /\ \A u \in Services : u # s => restart'[u] = restart[u]
      /\ restart' \in [Services -> {"none", "later", "due"}]
  BY DEF IInv, Claim, First, RoundInv, Round, Launching, Cleared, TypeOK
<1>2. task' = task
  BY <1>1 DEF IInv, TypeOK, Claim
<1>3. TypeOK'
  BY <1>1, <1>2 DEF IInv, TypeOK, Claim, Reserved
<1>4. Known' = Known
  BY <1>2 DEF Known, Claim
<1>5. \A u \in Services, j \in Slots : slot'[j] = u <=> slot[j] = u
  BY Marks DEF IInv, TypeOK, Claim
<1>6. GenerationsLeft' /\ KnownInv' /\ NoticeInv' /\ RequestInv' /\ RegistryAgrees'
  BY <1>4, <1>5, TasksStay DEF Claim
<1>7. LaunchInv'
  <2>1. \A j \in Slots : slot'[j] = Reserved => j = i
    BY <1>1, Marks DEF IInv, LaunchInv, Launching, Claim, TypeOK
  <2>2. QED
    BY <1>1, <1>2, <2>1 DEF LaunchInv, Launching, Claim
<1>8. RoundInv'
  BY <1>1, <1>2 DEF IInv, RoundInv, Round, Launching, Claim, TypeOK
<1>9. NeverForgotten'
  <2>1. \A u \in Services : Running(u)' <=> Running(u)
    BY <1>5 DEF Running
  <2>2. QED
    BY <1>1, <1>2, <2>1, Marks
    DEF IInv, NeverForgotten, Supervised, Waiting, Claim, LaunchInv, NoLaunch
<1>10. QED
  BY <1>3, <1>6, <1>7, <1>8, <1>9 DEF IInv

(* A start refused before it claims a slot: a supervised service waits for *)
(* its next try, and one whose binary may be absent is let be.             *)
LEMMA RefusedKeeps ==
  ASSUME IInv, NEW s \in Services, Refused(s)
  PROVE  IInv'
<1>1. /\ s \in todo /\ task[s] = NoTask /\ ~Launching /\ launching = NoLaunch
      /\ pc \in {"boot", "request", "sweep"}
      /\ todo' = todo \ {s} /\ pc' = After(pc, todo')
      /\ UNCHANGED <<launching, kernelVars>>
  BY DEF IInv, Refused, First, RoundInv, LaunchInv, Launching
<1>2. /\ task' = task
      /\ restart' \in [Services -> {"none", "later", "due"}]
      /\ retry' \in [Services -> Nat]
      /\ \A u \in Services : retry'[u] <= Higher(RetryCap, FirstDelay[u])
      /\ \A u \in Services : u # s => restart'[u] = restart[u]
      /\ s \in Supervised \ (Missing \cap Optional) => restart'[s] # "none"
  <2>1. CASE s \in Missing \cap Optional
    <3>1. /\ task' = [task EXCEPT ![s] = NoTask] /\ restart' = Cleared(s) /\ retry' = retry
      BY <2>1 DEF Refused
    <3>2. QED
      BY <1>1, <2>1, <3>1 DEF IInv, TypeOK, Cleared
  <2>2. CASE s \notin Missing \cap Optional
    <3>1. Failed(s)
      BY <2>2 DEF Refused
    <3>2. QED
      BY <1>1, <3>1, FailedFacts DEF IInv
  <2>3. QED
    BY <2>1, <2>2
<1>3. pc' \in {"boot", "request", "sweep", "sample", "recv"} /\
      (pc' \in {"boot", "request", "sweep"} => pc' = pc) /\
      (pc' \in {"sample", "recv"} => todo' = {})
  BY <1>1 DEF After
<1>4. TypeOK'
  <2>1. todo' \subseteq Services
    BY <1>1 DEF IInv, TypeOK
  <2>2. task' \in [Services -> TaskRefs \cup {NoTask}]
    BY <1>2 DEF IInv, TypeOK
  <2>3. QED
    BY <1>1, <1>2, <1>3, <2>1, <2>2 DEF IInv, TypeOK, kernelVars
<1>5. ~Launching'
  BY <1>3 DEF Launching
<1>6. Known' = Known
  BY <1>1, <1>2, <1>3 DEF Known
<1>7. GenerationsLeft' /\ KnownInv' /\ NoticeInv' /\ RequestInv' /\ RegistryAgrees'
  BY <1>1, <1>6, TasksStay DEF kernelVars
<1>8. LaunchInv'
  BY <1>1, <1>3, <1>5 DEF IInv, LaunchInv, Launching, kernelVars
<1>9. RoundInv'
  <2>1. \A u \in Services : restart'[u] # "none" => task'[u] = NoTask
    BY <1>1, <1>2 DEF IInv, RoundInv
  <2>2. Round' \in {"boot", "request"} => Round \in {"boot", "request"}
    BY <1>1, <1>3, <1>5 DEF Round, Launching
  <2>3. \A u \in todo' : u \in todo /\ u \in Services /\ u # s
    BY <1>1 DEF IInv, TypeOK
  <2>4. QED
    BY <1>2, <1>3, <2>1, <2>2, <2>3 DEF IInv, RoundInv
<1>10. NeverForgotten'
  BY <1>1, <1>2 DEF IInv, NeverForgotten, Supervised, Running, Waiting, kernelVars
<1>11. QED
  BY <1>4, <1>7, <1>8, <1>9, <1>10 DEF IInv

(* What the end of a launch leads to: the next of the round, or on.        *)
LEMMA LaunchEnds ==
  ASSUME IInv, Launching, LaunchDone, UNCHANGED todo
  PROVE  /\ launching' = NoLaunch /\ ~Launching'
         /\ pc' \in {"boot", "request", "sweep", "sample", "recv"}
         /\ pc' \in {"sample", "recv"} => todo' = {}
         /\ Round' \in {"boot", "request"} => Round \in {"boot", "request"}
  BY DEF IInv, LaunchInv, LaunchDone, After, Launching, Round

(* The image is bad or memory short: the slot is free again.               *)
LEMMA LoadFailsKeeps ==
  ASSUME IInv, NEW i \in Slots, LoadFails(i)
  PROVE  IInv'
<1> DEFINE s == launching.service
<1>1. /\ pc = "load" /\ Launching /\ s \in Services /\ s \notin todo /\ task[s] = NoTask
      /\ Failed(s) /\ LaunchDone /\ slot' = [slot EXCEPT ![i] = Free]
      /\ UNCHANGED <<todo, generation, inbox, registry>>
      /\ slot[i] = Reserved
  BY DEF IInv, LoadFails, LaunchInv, Launching
<1> HIDE DEF s
<1>2. /\ task' = task
      /\ restart' \in [Services -> {"none", "later", "due"}]
      /\ retry' \in [Services -> Nat]
      /\ \A u \in Services : retry'[u] <= Higher(RetryCap, FirstDelay[u])
      /\ \A u \in Services : u # s => restart'[u] = restart[u]
      /\ s \in Supervised => restart'[s] = "later"
  BY <1>1, FailedFacts DEF IInv
<1>3. /\ launching' = NoLaunch /\ ~Launching'
      /\ pc' \in {"boot", "request", "sweep", "sample", "recv"}
      /\ pc' \in {"sample", "recv"} => todo' = {}
      /\ Round' \in {"boot", "request"} => Round \in {"boot", "request"}
  BY <1>1, LaunchEnds
<1>4. TypeOK'
  <2>1. task' \in [Services -> TaskRefs \cup {NoTask}]
    BY <1>2 DEF IInv, TypeOK
  <2>2. slot' \in [Slots -> Services \cup {Free, Reserved}]
    BY <1>1 DEF IInv, TypeOK
  <2>3. launching' \in [service : Services \cup {0}, round : {"boot", "request", "sweep", "none"},
                        ref : TaskRefs \cup {NoTask}]
    BY <1>3 DEF NoLaunch
  <2>4. QED
    BY <1>1, <1>2, <1>3, <2>1, <2>2, <2>3 DEF IInv, TypeOK
<1>5. Known' = Known
  BY <1>1, <1>2, <1>3 DEF Known
<1>6. \A u \in Services, j \in Slots : slot'[j] = u <=> slot[j] = u
  BY <1>1, Marks DEF IInv, TypeOK
<1>7. GenerationsLeft' /\ KnownInv' /\ NoticeInv' /\ RequestInv' /\ RegistryAgrees'
  BY <1>1, <1>5, <1>6, TasksStay
<1>8. LaunchInv'
  <2>1. \A j \in Slots : slot'[j] # Reserved
    BY <1>1, Marks DEF IInv, LaunchInv, TypeOK
  <2>2. QED
    BY <1>3, <2>1 DEF LaunchInv, Launching
<1>9. RoundInv'
  <2>1. \A u \in Services : restart'[u] # "none" => task'[u] = NoTask
    BY <1>1, <1>2 DEF IInv, RoundInv
  <2>2. \A u \in todo' : u \in todo /\ u \in Services /\ u # s
    BY <1>1 DEF IInv, TypeOK
  <2>3. QED
    BY <1>2, <1>3, <2>1, <2>2 DEF IInv, RoundInv
<1>10. NeverForgotten'
  <2>1. \A u \in Services : Running(u)' <=> Running(u)
    BY <1>6 DEF Running
  <2>2. QED
    BY <1>1, <1>2, <2>1 DEF IInv, NeverForgotten, Supervised, Waiting, s
<1>11. QED
  BY <1>4, <1>7, <1>8, <1>9, <1>10 DEF IInv

(* init notes the task it has started.                                     *)
LEMMA RecordKeeps ==
  ASSUME IInv, Record
  PROVE  IInv'
<1> DEFINE s == launching.service
<1>1. /\ pc = "record" /\ Launching /\ s \in Services /\ s \notin todo
      /\ launching.ref \in TaskRefs /\ restart[s] = "none"
      /\ task' = [task EXCEPT ![s] = launching.ref]
      /\ retry' = [retry EXCEPT ![s] = 0]
      /\ LaunchDone /\ UNCHANGED <<todo, restart, kernelVars>>
  BY DEF IInv, Record, LaunchInv, Launching
<1>2. /\ launching' = NoLaunch /\ ~Launching'
      /\ pc' \in {"boot", "request", "sweep", "sample", "recv"}
      /\ pc' \in {"sample", "recv"} => todo' = {}
      /\ Round' \in {"boot", "request"} => Round \in {"boot", "request"}
  BY <1>1, LaunchEnds
<1>3. Known' = Known
  BY <1>1, <1>2 DEF Known, IInv, TypeOK
<1> HIDE DEF s
<1>4. TypeOK'
  <2>1. task' \in [Services -> TaskRefs \cup {NoTask}]
    BY <1>1 DEF IInv, TypeOK
  <2>2. /\ retry' \in [Services -> Nat]
        /\ \A u \in Services : retry'[u] <= Higher(RetryCap, FirstDelay[u])
    <3>1. \A u \in Services : 0 <= Higher(RetryCap, FirstDelay[u])
      BY SupervisorAssumption DEF Higher
    <3>2. /\ retry \in [Services -> Nat]
          /\ \A u \in Services : retry[u] <= Higher(RetryCap, FirstDelay[u])
      BY DEF IInv, TypeOK
    <3>3. QED
      BY <1>1, <3>1, <3>2
  <2>3. launching' \in [service : Services \cup {0}, round : {"boot", "request", "sweep", "none"},
                        ref : TaskRefs \cup {NoTask}]
    BY <1>2 DEF NoLaunch
  <2>4. QED
    BY <1>1, <1>2, <2>1, <2>2, <2>3 DEF IInv, TypeOK, kernelVars
<1>5. GenerationsLeft' /\ KnownInv' /\ NoticeInv' /\ RequestInv' /\ RegistryAgrees'
  BY <1>1, <1>3, TasksStay DEF kernelVars
<1>6. LaunchInv'
  BY <1>1, <1>2 DEF IInv, LaunchInv, Launching, kernelVars
<1>7. RoundInv'
  <2>1. \A u \in todo' : u \in todo /\ u \in Services /\ u # s
    BY <1>1 DEF IInv, TypeOK
  <2>2. \A u \in Services : u # s => task'[u] = task[u]
    BY <1>1
  <2>3. QED
    BY <1>1, <1>2, <2>1, <2>2 DEF IInv, RoundInv
<1>8. NeverForgotten'
  <2>1. Known[s] = launching.ref /\ task'[s] = launching.ref
    BY <1>1 DEF Known, s, IInv, TypeOK
  <2>2. task'[s] # NoTask
    BY <1>1, <2>1, Marks
  <2>3. Running(s) \/ Waiting(task'[s])
    BY <1>1, <2>1, <2>2 DEF IInv, KnownInv, Running
  <2>4. /\ \A u \in Services : Running(u)' <=> Running(u)
        /\ \A ref : Waiting(ref)' <=> Waiting(ref)
    BY <1>1 DEF Running, Waiting, kernelVars
  <2>5. ASSUME NEW u \in Supervised \ (Missing \cap Optional)
        PROVE  \/ Running(u)'
               \/ u \in todo'
               \/ restart'[u] # "none"
               \/ task'[u] # NoTask /\ (\E k \in 1 .. Len(inbox') : inbox'[k] = Notice(task'[u]))
    <3>1. CASE u = s
      BY <1>1, <2>2, <2>3, <2>4, <3>1 DEF Waiting, kernelVars
    <3>2. CASE u # s
      <4>1. u \in Services /\ task'[u] = task[u] /\ launching.service # u
        BY <1>1, <3>2 DEF Supervised, s
      <4>2. \/ Running(u) \/ u \in todo \/ restart[u] # "none"
            \/ task[u] # NoTask /\ Waiting(task[u])
        BY <4>1 DEF IInv, NeverForgotten
      <4>3. QED
        BY <1>1, <2>4, <4>1, <4>2 DEF Waiting, kernelVars
    <3>3. QED
      BY <3>1, <3>2
  <2>6. QED
    BY <2>5 DEF NeverForgotten, Supervised, Waiting
<1>9. QED
  BY <1>4, <1>5, <1>6, <1>7, <1>8 DEF IInv

(* init wakes for a restart_at and samples the clock.                      *)
LEMMA LoopKeeps ==
  ASSUME IInv, TimesOut \/ Sample \/ UNCHANGED vars
  PROVE  IInv'
<1>1. CASE UNCHANGED vars
  <2>1. Known' = Known
    BY <1>1 DEF Known, vars, initVars
  <2>2. GenerationsLeft' /\ KnownInv' /\ NoticeInv' /\ RequestInv' /\ RegistryAgrees'
    BY <1>1, <2>1, TasksStay DEF vars, initVars, kernelVars
  <2>3. QED
    BY <1>1, <2>2 DEF IInv, TypeOK, LaunchInv, RoundInv, Round, Launching, NeverForgotten,
      Supervised, Running, Waiting, vars, initVars, kernelVars
<1>2. CASE TimesOut \/ Sample
  <2>1. /\ ~Launching /\ ~Launching'
        /\ UNCHANGED <<launching, task, restart, retry, kernelVars>>
        /\ todo = {}
    BY <1>2 DEF IInv, RoundInv, TimesOut, Sample, Launching
  <2>2. Known' = Known
    BY <2>1 DEF Known, Launching
  <2>3. GenerationsLeft' /\ KnownInv' /\ NoticeInv' /\ RequestInv' /\ RegistryAgrees'
    BY <2>1, <2>2, TasksStay DEF kernelVars
  <2>4. TypeOK'
    BY <1>2, <2>1 DEF IInv, TypeOK, TimesOut, Sample, kernelVars
  <2>5. LaunchInv'
    BY <2>1 DEF IInv, LaunchInv, Launching, kernelVars
  <2>6. RoundInv'
    <3>1. CASE TimesOut
      BY <2>1, <3>1 DEF IInv, RoundInv, Round, Launching, TimesOut
    <3>2. CASE Sample
      BY <2>1, <3>2 DEF IInv, RoundInv, Round, Launching, Sample
    <3>3. QED
      BY <1>2, <3>1, <3>2
  <2>7. NeverForgotten'
    BY <2>1 DEF IInv, NeverForgotten, Supervised, Running, Waiting, kernelVars
  <2>8. QED
    BY <2>3, <2>4, <2>5, <2>6, <2>7 DEF IInv
<1>3. QED
  BY <1>1, <1>2

-----------------------------------------------------------------------------
(* What is known of a service is the name of a task or that there is none. *)
LEMMA KnownTyped == IInv => Known \in [Services -> TaskRefs \cup {NoTask}]
  BY DEF IInv, TypeOK, Known, LaunchInv, Launching

(* A slot's task is the only one of its name and of its service.           *)
LEMMA RunnerFacts ==
  ASSUME IInv, NEW i \in Slots, slot[i] \in Services
  PROVE  /\ Known[slot[i]] = Ref(i) /\ Ref(i) \in TaskRefs /\ Ref(i) # NoTask
         /\ \A j \in Slots : slot[j] = slot[i] \/ Ref(j) = Ref(i) => j = i
         /\ \A u \in Services : Known[u] = Ref(i) => u = slot[i]
<1>1. Known[slot[i]] = Ref(i)
  BY DEF IInv, KnownInv
<1>2. Ref(i) # NoTask
  BY DEF Ref, NoTask, Slots
<1>3. Ref(i) \in TaskRefs
  BY <1>1, <1>2, KnownTyped
<1>4. \A j \in Slots : Ref(j) = Ref(i) => j = i
  BY DEF Ref
<1>5. \A j \in Slots : slot[j] = slot[i] => j = i
  BY <1>1, <1>4 DEF IInv, KnownInv
<1>6. \A u \in Services : Known[u] = Ref(i) => u = slot[i]
  BY <1>1, <1>2 DEF IInv, KnownInv
<1>7. QED
  BY <1>1, <1>2, <1>3, <1>4, <1>5, <1>6

(* ipc.rs, "one notice for each": while something runs, the reserve behind *)
(* a full channel has a place for the notice of its exit.                  *)
LEMMA RoomForNotice ==
  ASSUME IInv, NEW i \in Slots, slot[i] \in Services
  PROVE  Len(inbox) < InboxCap + Reserve
<1> SUFFICES ASSUME ~(Len(inbox) < InboxCap + Reserve) PROVE FALSE
  OBVIOUS
<1> DEFINE D == InboxCap + 1 .. InboxCap + Reserve
           Others == Services \ {slot[i]}
           f == [k \in D |-> CHOOSE s \in Services : About(inbox[k], s)]
<1>1. /\ InboxCap \in Nat /\ Reserve \in Nat /\ NServices \in Nat /\ Reserve >= NServices
      /\ Len(inbox) \in Nat
  BY SupervisorAssumption DEF IInv, TypeOK
<1>2. \A k \in D : k \in 1 .. Len(inbox) /\ k > InboxCap
  BY <1>1
<1>3. ASSUME NEW k \in D
      PROVE  f[k] \in Services /\ About(inbox[k], f[k])
  <2>1. \E s \in Services : About(inbox[k], s)
    BY <1>2 DEF IInv, NoticeInv
  <2>2. QED
    BY <2>1
<1>4. \A k \in D : f[k] \in Others
  BY <1>3 DEF About, Running
<1>5. \A j, k \in D : f[j] = f[k] => j = k
  <2> SUFFICES ASSUME NEW j \in D, NEW k \in D, f[j] = f[k] PROVE j = k
    OBVIOUS
  <2>1. inbox[j] = inbox[k]
    BY <1>3 DEF About
  <2>2. IsNotice(inbox[k])
    BY <1>2 DEF IInv, NoticeInv
  <2>3. QED
    BY <1>2, <2>1, <2>2 DEF IInv, NoticeInv
<1>6. f \in Injection(D, Others)
  <2>1. f \in [D -> Others]
    BY <1>4
  <2>2. QED
    BY <1>5, <2>1 DEF Injection, IsInjective
<1>7. Cardinality(D) = Reserve
  BY <1>1, FS_Interval
<1>8. IsFiniteSet(Others) /\ Cardinality(Others) = NServices - 1
  BY Marks, FS_RemoveElement
<1>9. Cardinality(D) <= Cardinality(Others)
  <2> HIDE DEF D, Others, f
  <2> QED
    BY <1>6, <1>8, FS_Injection
<1>10. QED
  BY <1>1, <1>7, <1>8, <1>9

(* A service exits: the notice of it finds a place, and the registry       *)
(* charges the record that names the task.                                 *)
LEMMA ExitsKeeps ==
  ASSUME IInv, NEW i \in Slots, Exits(i), NEW s \in Services, slot[i] = s
  PROVE  IInv'
<1> DEFINE n == Notice(Ref(i))
<1>1. /\ slot[i] = s /\ generation[i] < MaxGeneration
      /\ slot' = [slot EXCEPT ![i] = Free]
      /\ registry' = Charge(Ref(i))
      /\ UNCHANGED <<pc, todo, launching, task, restart, retry, generation>>
  BY DEF Exits, initVars
<1>2. /\ Known[s] = Ref(i) /\ Ref(i) \in TaskRefs /\ Ref(i) # NoTask
      /\ \A j \in Slots : slot[j] = s \/ Ref(j) = Ref(i) => j = i
      /\ \A u \in Services : Known[u] = Ref(i) => u = s
  BY <1>1, RunnerFacts
<1>3. n \in Messages /\ IsNotice(n)
  BY <1>2 DEF Messages, Notice, IsNotice
<1>4. inbox' = Append(inbox, n) /\ inbox \in Seq(Messages)
  BY <1>1, RoomForNotice DEF Exits, Tell, IInv, TypeOK, Messages
<1>5. /\ inbox' \in Seq(Messages) /\ Len(inbox') = Len(inbox) + 1 /\ Len(inbox) \in Nat
      /\ \A k \in 1 .. Len(inbox) : inbox'[k] = inbox[k]
      /\ inbox'[Len(inbox) + 1] = n
  BY <1>3, <1>4, AppendProperties
<1>6. Known' = Known /\ \A j \in Slots : Ref(j)' = Ref(j)
  BY <1>1 DEF Known, Ref
<1>7. /\ \A j \in Slots : slot'[j] = IF j = i THEN Free ELSE slot[j]
      /\ \A u \in Services : Running(u)' <=> Running(u) /\ u # s
      /\ \A ref : Waiting(ref)' <=> Waiting(ref) \/ Notice(ref) = n
  <2>1. \A j \in Slots : slot'[j] = IF j = i THEN Free ELSE slot[j]
    BY <1>1 DEF IInv, TypeOK
  <2>2. \A u \in Services : Running(u)' <=> Running(u) /\ u # s
    BY <1>2, <2>1, Marks DEF Running
  <2>3. ASSUME NEW ref
        PROVE  Waiting(ref)' <=> Waiting(ref) \/ Notice(ref) = n
    <3>1. Waiting(ref)' <=> \E k \in 1 .. Len(inbox') : inbox'[k] = Notice(ref)
      BY DEF Waiting
    <3>2. 1 .. Len(inbox') = (1 .. Len(inbox)) \cup {Len(inbox) + 1}
      BY <1>5
    <3>3. QED
      BY <1>5, <3>1, <3>2 DEF Waiting
  <2>4. QED
    BY <2>1, <2>2, <2>3
<1> HIDE DEF n
<1>8. \A u \in Services :
        registry'[u] = IF u = s THEN [registry[u] EXCEPT !.task = NoTask, !.exits = @ + 1]
                                ELSE registry[u]
  <2>1. \A u \in Services : registry[u].task = Ref(i) <=> u = s
    <3>1. \A u \in Services : ~Running(u) => registry[u].task # Ref(i)
      BY <1>2 DEF IInv, RegistryAgrees
    <3>2. \A u \in Services : Running(u) /\ registry[u].task = Ref(i) => u = s
      BY <1>2 DEF IInv, RegistryAgrees, Running
    <3>3. registry[s].task = Ref(i)
      BY <1>1 DEF IInv, RegistryAgrees
    <3>4. QED
      BY <1>1, <3>1, <3>2, <3>3
  <2>2. QED
    BY <1>1, <2>1 DEF Charge
<1>9. TypeOK'
  <2>1. slot' \in [Slots -> Services \cup {Free, Reserved}]
    BY <1>1 DEF IInv, TypeOK
  <2>2. registry' \in [Services -> [task : TaskRefs \cup {NoTask}, starts : Nat, exits : Nat]]
    <3>1. registry \in [Services -> [task : TaskRefs \cup {NoTask}, starts : Nat, exits : Nat]]
      BY DEF IInv, TypeOK
    <3>2. ASSUME NEW u \in Services
          PROVE  [registry[u] EXCEPT !.task = NoTask, !.exits = @ + 1] \in
                   [task : TaskRefs \cup {NoTask}, starts : Nat, exits : Nat]
      <4>1. registry[u] \in [task : TaskRefs \cup {NoTask}, starts : Nat, exits : Nat]
        BY <3>1
      <4>2. registry[u].exits + 1 \in Nat
        BY <4>1
      <4>3. QED
        BY <4>1, <4>2
    <3>3. QED
      BY <1>1, <3>1, <3>2 DEF Charge
  <2>3. Len(inbox') <= InboxCap + Reserve
    BY <1>1, <1>5, RoomForNotice, SupervisorAssumption
  <2>4. QED
    BY <1>1, <1>5, <2>1, <2>2, <2>3 DEF IInv, TypeOK, Messages
<1>10. GenerationsLeft'
  BY <1>1, <1>7 DEF IInv, GenerationsLeft
<1>11. LaunchInv'
  BY <1>1, <1>7, Marks DEF IInv, LaunchInv, Launching
<1>12. RoundInv'
  BY <1>1 DEF IInv, RoundInv, Round, Launching
<1>13. KnownInv'
  <2>1. \A u \in Services, j \in Slots : slot'[j] = u => Known[u] = Ref(j)
    BY <1>7, Marks DEF IInv, KnownInv
  <2>2. ASSUME NEW u \in Services, Known[u] # NoTask
        PROVE  Running(u)' \/ Waiting(Known[u])'
    <3>1. Running(u) \/ Waiting(Known[u])
      BY <2>2 DEF IInv, KnownInv, Running
    <3>2. u = s => Notice(Known[u]) = n
      BY <1>2 DEF n
    <3>3. QED
      BY <1>6, <1>7, <3>1, <3>2
  <2>3. QED
    BY <1>1, <1>6, <2>1, <2>2 DEF IInv, KnownInv, Running, Waiting
<1>14. NoticeInv'
  <2>1. ASSUME NEW k \in 1 .. Len(inbox'), IsNotice(inbox'[k])
        PROVE  \E u \in Services : About(inbox[k], u)'
    <3>1. CASE k = Len(inbox) + 1
      <4>1. About(inbox[k], s)'
        BY <1>2, <1>5, <1>6, <1>7, <3>1 DEF About, n
      <4>2. QED
        BY <1>1, <4>1
    <3>2. CASE k \in 1 .. Len(inbox)
      <4>1. PICK u \in Services : About(inbox[k], u)
        BY <1>5, <2>1, <3>2 DEF IInv, NoticeInv
      <4>2. About(inbox[k], u)'
        BY <1>5, <1>6, <1>7, <3>2, <4>1 DEF About
      <4>3. QED
        BY <4>2
    <3>3. QED
      BY <1>5, <3>1, <3>2
  <2>2. ASSUME NEW k \in 1 .. Len(inbox)
        PROVE  inbox[k] # n
    <3>1. ASSUME inbox[k] = n PROVE FALSE
      <4>1. PICK u \in Services : About(inbox[k], u)
        BY <1>3, <3>1 DEF IInv, NoticeInv
      <4>2. Known[u] = Ref(i) /\ ~Running(u)
        BY <3>1, <4>1 DEF About, n, Notice
      <4>3. QED
        BY <1>1, <1>2, <4>2 DEF Running
    <3>2. QED
      BY <3>1
  <2>3. \A j, k \in 1 .. Len(inbox') :
          IsNotice(inbox'[k]) /\ inbox'[j] = inbox'[k] => j = k
    BY <1>5, <2>2 DEF IInv, NoticeInv
  <2>4. \A k \in 1 .. Len(inbox') : k > InboxCap => IsNotice(inbox'[k])
    BY <1>3, <1>5 DEF IInv, NoticeInv
  <2>5. QED
    BY <2>1, <2>3, <2>4 DEF NoticeInv
<1>15. RequestInv'
  <2>1. \A u \in Services : registry'[u].starts = registry[u].starts
    <3>1. registry \in [Services -> [task : TaskRefs \cup {NoTask}, starts : Nat, exits : Nat]]
      BY DEF IInv, TypeOK
    <3>2. QED
      BY <1>8, <3>1
  <2>2. ASSUME NEW k \in 1 .. Len(inbox'), ~IsNotice(inbox'[k])
        PROVE  InTime(k)'
    <3>1. k \in 1 .. Len(inbox) /\ inbox'[k] = inbox[k]
      BY <1>3, <1>5, <2>2
    <3>2. inbox[k].service \in Services
      <4>1. inbox[k] \in Messages
        BY <1>4, <3>1
      <4>2. inbox[k].service # 0
        BY <2>2, <3>1 DEF IsNotice
      <4>3. QED
        BY <4>1, <4>2 DEF Messages
    <3>3. \A j \in 1 .. k - 1 : inbox'[j] = inbox[j]
      BY <1>5, <3>1
    <3>4. InTime(k)
      BY <3>1 DEF IInv, RequestInv
    <3>5. QED
      BY <1>6, <2>1, <3>1, <3>2, <3>3, <3>4 DEF InTime
  <2>3. QED
    BY <2>2 DEF RequestInv, InTime
<1>16. RegistryAgrees'
  <2>1. registry \in [Services -> [task : TaskRefs \cup {NoTask}, starts : Nat, exits : Nat]]
    BY DEF IInv, TypeOK
  <2>2. \A u \in Services : u # s => registry'[u] = registry[u] /\ (Running(u)' <=> Running(u))
    BY <1>7, <1>8
  <2>3. /\ ~Running(s)' /\ Running(s)
        /\ registry'[s].task = NoTask /\ registry'[s].starts = registry[s].starts
        /\ registry'[s].exits = registry[s].exits + 1
    <3>1. ~Running(s)' /\ Running(s)
      BY <1>1, <1>7 DEF Running
    <3>2. registry'[s] = [registry[s] EXCEPT !.task = NoTask, !.exits = @ + 1]
      BY <1>8
    <3>3. registry[s] \in [task : TaskRefs \cup {NoTask}, starts : Nat, exits : Nat]
      BY <2>1
    <3>4. QED
      BY <3>1, <3>2, <3>3
  <2>4. registry[s].starts - registry[s].exits = 1
    BY <1>1, <2>3 DEF IInv, RegistryAgrees
  <2>5. \A j \in Slots : slot'[j] # s
    BY <1>1, <2>3 DEF Running
  <2>6. ASSUME NEW u \in Services
        PROVE  /\ \A j \in Slots : slot'[j] = u => registry'[u].task = Ref(j)'
               /\ ~Running(u)' => registry'[u].task = NoTask
               /\ registry'[u].starts - registry'[u].exits = (IF Running(u)' THEN 1 ELSE 0)
    <3>1. CASE u = s
      BY <1>1, <2>1, <2>3, <2>4, <2>5, <3>1
    <3>2. CASE u # s
      BY <1>6, <1>7, <2>2, <3>2, Marks DEF IInv, RegistryAgrees
    <3>3. QED
      BY <3>1, <3>2
  <2>7. QED
    BY <2>6 DEF RegistryAgrees
<1>17. NeverForgotten'
  <2>1. launching.service = s \/ (task[s] # NoTask /\ Waiting(task[s])')
    <3>1. launching.service # s => task[s] = Ref(i)
      BY <1>2 DEF Known
    <3>2. launching.service # s => Notice(task[s]) = n
      BY <3>1 DEF n
    <3>3. \E k \in 1 .. Len(inbox') : inbox'[k] = n
      BY <1>5
    <3>4. launching.service # s => Waiting(task[s])'
      BY <1>1, <3>2, <3>3 DEF Waiting
    <3>5. QED
      BY <1>2, <3>1, <3>4 DEF Waiting
  <2>2. QED
    BY <1>1, <1>7, <2>1 DEF IInv, NeverForgotten, Supervised, Waiting
<1>18. QED
  BY <1>9, <1>10, <1>11, <1>12, <1>13, <1>14, <1>15, <1>16, <1>17 DEF IInv

(* The shell asks for a restart: behind all notices sent so far, so behind *)
(* the one of the service it has seen to be down.                          *)
LEMMA AsksKeeps ==
  ASSUME IInv, NEW s \in Services, Asks(s)
  PROVE  IInv'
<1> DEFINE r == Request(s)
<1>1. /\ Len(inbox) < InboxCap /\ inbox' = Append(inbox, r)
      /\ UNCHANGED <<pc, todo, launching, task, restart, retry, slot, generation, registry>>
  BY DEF Asks, initVars
<1>2. /\ inbox \in Seq(Messages) /\ InboxCap \in Nat /\ Reserve \in Nat
      /\ registry \in [Services -> [task : TaskRefs \cup {NoTask}, starts : Nat, exits : Nat]]
  BY SupervisorAssumption DEF IInv, TypeOK, Messages
<1>3. /\ r \in Messages /\ ~IsNotice(r) /\ r.service = s
      /\ r.down = (~Running(s)) /\ r.starts = registry[s].starts
  <2>1. registry[s].starts \in Nat
    BY <1>2
  <2>2. (~Running(s)) \in BOOLEAN
    OBVIOUS
  <2>3. QED
    BY <2>1, <2>2, Marks DEF Messages, Request, IsNotice
<1> HIDE DEF r
<1>4. /\ inbox' \in Seq(Messages) /\ Len(inbox') = Len(inbox) + 1 /\ Len(inbox) \in Nat
      /\ \A k \in 1 .. Len(inbox) : inbox'[k] = inbox[k]
      /\ inbox'[Len(inbox) + 1] = r
  BY <1>1, <1>2, <1>3, AppendProperties
<1>5. /\ Known' = Known /\ \A j \in Slots : Ref(j)' = Ref(j)
      /\ \A u \in Services : Running(u)' <=> Running(u)
  BY <1>1 DEF Known, Ref, Running
<1>6. ASSUME NEW u \in Services, Waiting(Known[u])
      PROVE  Waiting(Known[u])'
  <2>1. PICK k \in 1 .. Len(inbox) : inbox[k] = Notice(Known[u])
    BY <1>6 DEF Waiting
  <2>2. k \in 1 .. Len(inbox') /\ inbox'[k] = Notice(Known'[u])
    BY <1>4, <1>5, <2>1
  <2>3. QED
    BY <2>2 DEF Waiting
<1>7. TypeOK'
  <2>1. Len(inbox') <= InboxCap + Reserve
    BY <1>1, <1>2, <1>4
  <2>2. QED
    BY <1>1, <1>4, <2>1 DEF IInv, TypeOK, Messages
<1>8. GenerationsLeft' /\ LaunchInv' /\ RoundInv'
  BY <1>1 DEF IInv, GenerationsLeft, LaunchInv, RoundInv, Round, Launching
<1>9. RegistryAgrees'
  BY <1>1, <1>5 DEF IInv, RegistryAgrees
<1>10. KnownInv'
  <2>1. \A u \in Services : Known[u] # NoTask => Running(u)' \/ Waiting(Known[u])'
    BY <1>5, <1>6 DEF IInv, KnownInv, Running
  <2>2. QED
    BY <1>1, <1>5, <2>1 DEF IInv, KnownInv, Running, Waiting
<1>11. NoticeInv'
  <2>1. ASSUME NEW k \in 1 .. Len(inbox'), IsNotice(inbox'[k])
        PROVE  \E u \in Services : About(inbox[k], u)'
    <3>1. k \in 1 .. Len(inbox) /\ inbox'[k] = inbox[k]
      BY <1>3, <1>4, <2>1
    <3>2. PICK u \in Services : About(inbox[k], u)
      BY <2>1, <3>1 DEF IInv, NoticeInv
    <3>3. About(inbox[k], u)'
      BY <1>5, <3>1, <3>2 DEF About
    <3>4. QED
      BY <3>3
  <2>2. \A j, k \in 1 .. Len(inbox') :
          IsNotice(inbox'[k]) /\ inbox'[j] = inbox'[k] => j = k
    BY <1>3, <1>4 DEF IInv, NoticeInv
  <2>3. \A k \in 1 .. Len(inbox') : k > InboxCap => IsNotice(inbox'[k])
    BY <1>1, <1>2, <1>4 DEF IInv, NoticeInv
  <2>4. QED
    BY <2>1, <2>2, <2>3 DEF NoticeInv
<1>12. RequestInv'
  <2>1. ASSUME NEW k \in 1 .. Len(inbox')
        PROVE  InTime(k)'
    <3>1. CASE k \in 1 .. Len(inbox)
      <4>1. InTime(k) /\ inbox'[k] = inbox[k]
        BY <1>4, <3>1 DEF IInv, RequestInv
      <4>2. \A j \in 1 .. k - 1 : inbox'[j] = inbox[j]
        BY <1>4, <3>1
      <4>3. QED
        BY <1>1, <1>5, <4>1, <4>2 DEF InTime
    <3>2. CASE k = Len(inbox) + 1
      <4>1. \/ Running(s) \/ Known[s] = NoTask
            \/ (\E j \in 1 .. k - 1 : inbox'[j] = Notice(Known[s]))
        <5>1. Running(s) \/ Known[s] = NoTask \/ Waiting(Known[s])
          BY DEF IInv, KnownInv, Running
        <5>2. QED
          BY <1>4, <3>2, <5>1 DEF Waiting
      <4>2. registry'[s].starts = registry[s].starts /\ registry[s].starts \in Nat
        BY <1>1, <1>2
      <4>3. inbox'[k] = r
        BY <1>4, <3>2
      <4>4. r.down => ~Running(s)
        BY <1>3
      <4>5. /\ r.starts <= registry'[s].starts
            /\ r.down => \/ Known'[s] = NoTask
                         \/ (\E j \in 1 .. k - 1 : inbox'[j] = Notice(Known'[s]))
        BY <1>3, <1>5, <4>1, <4>2, <4>4
      <4>6. QED
        BY <1>3, <4>3, <4>5 DEF InTime
    <3>3. QED
      BY <1>4, <3>1, <3>2
  <2>2. QED
    BY <2>1 DEF RequestInv, InTime
<1>13. NeverForgotten'
  <2>1. \A u \in Supervised : u \in Services
    BY DEF Supervised
  <2>2. \A u \in Services : task[u] # NoTask => Known[u] = task[u]
    BY DEF IInv, LaunchInv, Launching, Known
  <2>3. ASSUME NEW u \in Services, task[u] # NoTask, Waiting(task[u])
        PROVE  Waiting(task[u])'
    BY <1>1, <1>5, <1>6, <2>2, <2>3 DEF Waiting
  <2>4. QED
    BY <1>1, <1>5, <2>1, <2>3 DEF IInv, NeverForgotten, Supervised
<1>14. QED
  BY <1>7, <1>8, <1>9, <1>10, <1>11, <1>12, <1>13 DEF IInv

(* install: the service runs, under a name that no notice has.             *)
LEMMA InstallKeeps ==
  ASSUME IInv, NEW i \in Slots, Install(i), NEW s \in Services, launching.service = s
  PROVE  IInv'
<1> DEFINE r == <<i, generation[i] + 1>>
<1>1. /\ pc = "load" /\ pc' = "record" /\ slot[i] = Reserved
      /\ slot' = [slot EXCEPT ![i] = s]
      /\ generation' = [generation EXCEPT ![i] = @ + 1]
      /\ registry' = [registry EXCEPT ![s] =
           [registry[s] EXCEPT !.task = r, !.starts = @ + 1]]
      /\ launching' = [launching EXCEPT !.ref = r]
      /\ UNCHANGED <<todo, task, restart, retry, inbox>>
  BY DEF Install
<1>2. /\ slot \in [Slots -> Services \cup {Free, Reserved}]
      /\ generation \in [Slots -> 0 .. MaxGeneration] /\ MaxGeneration \in Nat
      /\ registry \in [Services -> [task : TaskRefs \cup {NoTask}, starts : Nat, exits : Nat]]
      /\ launching \in [service : Services \cup {0},
                        round : {"boot", "request", "sweep", "none"},
                        ref : TaskRefs \cup {NoTask}]
  BY SupervisorAssumption DEF IInv, TypeOK
<1>3. generation[i] < MaxGeneration /\ r \in TaskRefs /\ r # NoTask
  <2>1. generation[i] < MaxGeneration
    BY <1>1, Marks DEF IInv, GenerationsLeft
  <2>2. r \in TaskRefs
    BY <1>2, <2>1 DEF TaskRefs
  <2>3. QED
    BY <2>1, <2>2, Marks
<1>4. /\ task[s] = NoTask /\ Known[s] = NoTask /\ launching.ref = NoTask
      /\ s \notin todo
  BY <1>1 DEF IInv, LaunchInv, Launching, Known
<1>5. ~Running(s)
  BY <1>4, RunnerFacts DEF Running
<1>6. /\ launching'.service = s /\ launching'.ref = r /\ launching'.round = launching.round
      /\ launching' \in [service : Services \cup {0},
                         round : {"boot", "request", "sweep", "none"},
                         ref : TaskRefs \cup {NoTask}]
  BY <1>1, <1>2, <1>3
<1>7. \A u \in Services : Known'[u] = IF u = s THEN r ELSE Known[u]
  BY <1>1, <1>6 DEF Known
<1> HIDE DEF r
<1>8. /\ \A j \in Slots : slot'[j] = IF j = i THEN s ELSE slot[j]
      /\ \A j \in Slots : generation'[j] = IF j = i THEN generation[i] + 1 ELSE generation[j]
      /\ Ref(i)' = r
      /\ \A j \in Slots : j # i => Ref(j)' = Ref(j)
  BY <1>1, <1>2 DEF Ref, r
<1>9. \A u \in Services : Running(u)' <=> Running(u) \/ u = s
  BY <1>1, <1>8, Marks DEF Running
<1>10. /\ \A u \in Services : u # s => registry'[u] = registry[u]
       /\ registry'[s].task = r /\ registry'[s].starts = registry[s].starts + 1
       /\ registry'[s].exits = registry[s].exits
       /\ registry[s].starts \in Nat /\ registry[s].exits \in Nat
  BY <1>1, <1>2
<1>11. TypeOK'
  <2>1. slot' \in [Slots -> Services \cup {Free, Reserved}]
    BY <1>1, <1>2
  <2>2. generation' \in [Slots -> 0 .. MaxGeneration]
    <3>1. generation[i] + 1 \in 0 .. MaxGeneration
      BY <1>2, <1>3
    <3>2. QED
      BY <1>1, <1>2, <3>1
  <2>3. registry' \in [Services -> [task : TaskRefs \cup {NoTask}, starts : Nat, exits : Nat]]
    <3>1. registry[s].starts + 1 \in Nat
      BY <1>10
    <3>2. [registry[s] EXCEPT !.task = r, !.starts = @ + 1] \in
            [task : TaskRefs \cup {NoTask}, starts : Nat, exits : Nat]
      BY <1>2, <1>3, <3>1
    <3>3. QED
      BY <1>1, <1>2, <3>2
  <2>4. QED
    BY <1>1, <1>6, <2>1, <2>2, <2>3 DEF IInv, TypeOK
<1>12. GenerationsLeft'
  BY <1>8 DEF IInv, GenerationsLeft
<1>13. LaunchInv'
  <2>1. \A j \in Slots : slot'[j] # Reserved
    BY <1>1, <1>8, Marks DEF IInv, LaunchInv
  <2>2. QED
    BY <1>1, <1>3, <1>4, <1>6, <2>1 DEF IInv, LaunchInv, Launching
<1>14. RoundInv'
  BY <1>1, <1>6 DEF IInv, RoundInv, Round, Launching
<1>15. KnownInv'
  <2>1. \A u \in Services, j \in Slots : slot'[j] = u => Known'[u] = Ref(j)'
    BY <1>5, <1>7, <1>8 DEF IInv, KnownInv, Running
  <2>2. \A u \in Services : Known'[u] # NoTask => Running(u)' \/ Waiting(Known[u])'
    BY <1>1, <1>7, <1>9 DEF IInv, KnownInv, Running, Waiting
  <2>3. \A u \in Services : Known[u] # NoTask =>
          Known[u][1] \in Slots /\ Known[u][2] \in Nat /\ Known[u][2] <= generation[Known[u][1]]
    <3>1. \A u \in Services : Known[u] \in TaskRefs \cup {NoTask}
      BY KnownTyped
    <3>2. \A ref \in TaskRefs : ref[1] \in Slots /\ ref[2] \in Nat
      BY <1>2 DEF TaskRefs
    <3>3. QED
      BY <3>1, <3>2 DEF IInv, KnownInv
  <2>4. r[1] = i /\ r[2] = generation[i] + 1 /\ generation[i] \in Nat
    BY <1>2 DEF r
  <2>5. \A u \in Services : Known'[u] # NoTask =>
          Known'[u][2] <= generation'[Known'[u][1]]
    BY <1>2, <1>7, <1>8, <2>3, <2>4
  <2>6. \A u \in Services : Known[u] # NoTask => Known[u] # r
    BY <2>3, <2>4
  <2>7. \A u, v \in Services : Known'[u] # NoTask /\ Known'[u] = Known'[v] => u = v
    BY <1>3, <1>7, <2>6 DEF IInv, KnownInv
  <2>8. QED
    BY <2>1, <2>2, <2>5, <2>7 DEF KnownInv, Running
<1>16. NoticeInv'
  <2>1. ASSUME NEW k \in 1 .. Len(inbox), IsNotice(inbox[k])
        PROVE  \E u \in Services : About(inbox[k], u)'
    <3>1. PICK u \in Services : About(inbox[k], u)
      BY <2>1 DEF IInv, NoticeInv
    <3>2. About(inbox[k], u)'
      BY <1>1, <1>4, <1>7, <1>9, <3>1 DEF About
    <3>3. QED
      BY <3>2
  <2>2. QED
    BY <1>1, <2>1 DEF IInv, NoticeInv
<1>17. RequestInv'
  <2>1. ASSUME NEW k \in 1 .. Len(inbox)
        PROVE  InTime(k)'
    <3>1. InTime(k) /\ inbox[k] \in Messages
      <4>1. inbox \in Seq(Messages)
        BY DEF IInv, TypeOK, Messages
      <4>2. QED
        BY <4>1 DEF IInv, RequestInv
    <3>2. CASE inbox[k].service = s
      <4>1. inbox[k].starts \in Nat
        BY <3>1 DEF Messages
      <4>2. QED
        BY <1>1, <1>10, <3>1, <3>2, <4>1 DEF InTime
    <3>3. CASE inbox[k].service # s
      <4>1. ~IsNotice(inbox[k]) => inbox[k].service \in Services
        BY <3>1 DEF Messages, IsNotice
      <4>2. QED
        BY <1>1, <1>7, <1>10, <3>1, <3>3, <4>1 DEF InTime
    <3>4. QED
      BY <3>2, <3>3
  <2>2. QED
    BY <1>1, <2>1 DEF RequestInv, InTime
<1>18. RegistryAgrees'
  <2>1. registry[s].starts - registry[s].exits = 0
    BY <1>5 DEF IInv, RegistryAgrees
  <2>2. ASSUME NEW u \in Services
        PROVE  /\ \A j \in Slots : slot'[j] = u => registry'[u].task = Ref(j)'
               /\ ~Running(u)' => registry'[u].task = NoTask
               /\ registry'[u].starts - registry'[u].exits = (IF Running(u)' THEN 1 ELSE 0)
    <3>1. CASE u = s
      BY <1>5, <1>8, <1>9, <1>10, <2>1, <3>1 DEF Running
    <3>2. CASE u # s
      BY <1>8, <1>9, <1>10, <3>2 DEF IInv, RegistryAgrees
    <3>3. QED
      BY <3>1, <3>2
  <2>3. QED
    BY <2>2 DEF RegistryAgrees
<1>19. NeverForgotten'
  BY <1>1, <1>6, <1>9 DEF IInv, NeverForgotten, Supervised, Waiting
<1>20. QED
  BY <1>11, <1>12, <1>13, <1>14, <1>15, <1>16, <1>17, <1>18, <1>19 DEF IInv

-----------------------------------------------------------------------------
(* What init reads is gone from the inbox, and the rest moves up.          *)
LEMMA ReadFacts ==
  ASSUME IInv, inbox # <<>>, inbox' = Tail(inbox)
  PROVE  /\ Head(inbox) = inbox[1] /\ inbox[1] \in Messages /\ 1 \in 1 .. Len(inbox)
         /\ inbox' \in Seq(Messages) /\ Len(inbox') = Len(inbox) - 1
         /\ Len(inbox) \in Nat /\ Len(inbox') \in Nat
         /\ \A k \in 1 .. Len(inbox') : k + 1 \in 1 .. Len(inbox) /\ inbox'[k] = inbox[k + 1]
         /\ \A k \in 1 .. Len(inbox) : k # 1 =>
              k - 1 \in 1 .. Len(inbox') /\ inbox'[k - 1] = inbox[k]
<1>1. inbox \in Seq(Messages)
  BY DEF IInv, TypeOK, Messages
<1>2. Len(inbox) \in Nat /\ Len(inbox) > 0
  BY <1>1
<1>3. /\ inbox' \in Seq(Messages) /\ Len(inbox') = Len(inbox) - 1
      /\ \A k \in 1 .. Len(inbox') : inbox'[k] = inbox[k + 1]
  BY <1>1, HeadTailProperties
<1>4. Head(inbox) = inbox[1] /\ inbox[1] \in Messages
  BY <1>1, <1>2
<1>5. \A k \in 1 .. Len(inbox') : k + 1 \in 1 .. Len(inbox)
  BY <1>2, <1>3
<1>6. \A k \in 1 .. Len(inbox) : k # 1 =>
        k - 1 \in 1 .. Len(inbox') /\ inbox'[k - 1] = inbox[k]
  BY <1>2, <1>3
<1>7. QED
  BY <1>2, <1>3, <1>4, <1>5, <1>6

(* init hears of an exit: of the very task it knows.                       *)
LEMMA HearsExitKeeps ==
  ASSUME IInv, Receive, IsNotice(Head(inbox))
  PROVE  IInv'
<1>1. /\ pc = "recv" /\ inbox # <<>> /\ inbox' = Tail(inbox) /\ HearsExit(Head(inbox))
      /\ UNCHANGED <<launching, retry, slot, generation, registry>>
  BY DEF Receive
<1>2. /\ Head(inbox) = inbox[1] /\ inbox[1] \in Messages /\ 1 \in 1 .. Len(inbox)
      /\ inbox' \in Seq(Messages) /\ Len(inbox') = Len(inbox) - 1
      /\ Len(inbox) \in Nat /\ Len(inbox') \in Nat
      /\ \A k \in 1 .. Len(inbox') : k + 1 \in 1 .. Len(inbox) /\ inbox'[k] = inbox[k + 1]
      /\ \A k \in 1 .. Len(inbox) : k # 1 =>
           k - 1 \in 1 .. Len(inbox') /\ inbox'[k - 1] = inbox[k]
  BY <1>1, ReadFacts
<1>3. PICK s \in Services : About(inbox[1], s)
  BY <1>2 DEF IInv, NoticeInv
<1>4. /\ Known = task /\ task \in [Services -> TaskRefs \cup {NoTask}]
      /\ restart \in [Services -> {"none", "later", "due"}]
  BY <1>1 DEF Known, IInv, TypeOK
<1>5. /\ inbox[1] = Notice(task[s]) /\ inbox[1].exited = task[s] /\ task[s] # NoTask
      /\ ~Running(s)
  BY <1>3, <1>4 DEF About, Notice
<1>6. /\ pc' = "sample" /\ UNCHANGED todo /\ todo = {}
      /\ \A u \in Services : task'[u] = IF u = s THEN NoTask ELSE task[u]
      /\ task' \in [Services -> TaskRefs \cup {NoTask}]
      /\ restart' \in [Services -> {"none", "later", "due"}]
      /\ \A u \in Services : u # s => restart'[u] = restart[u]
      /\ s \in Supervised => restart'[s] = "later"
  <2>1. \A u \in Services : task[u] = task[s] <=> u = s
    BY <1>4, <1>5 DEF IInv, KnownInv
  <2>2. /\ task' = [u \in Services |-> IF task[u] = task[s] THEN NoTask ELSE task[u]]
        /\ restart' = [u \in Services |->
             IF task[u] = task[s] /\ u \in Supervised THEN "later" ELSE restart[u]]
        /\ pc' = "sample" /\ UNCHANGED todo
    BY <1>1, <1>2, <1>5 DEF HearsExit, Owns
  <2>3. todo = {}
    BY <1>1 DEF IInv, RoundInv
  <2>4. QED
    BY <1>4, <2>1, <2>2, <2>3
<1>7. Known' = task'
  BY <1>6 DEF Known
<1>8. \A u \in Services : (Running(u)' <=> Running(u)) /\ (u # s => Known'[u] = Known[u])
  BY <1>1, <1>4, <1>6, <1>7 DEF Running
<1>9. ASSUME NEW u \in Services, u # s, task[u] # NoTask, Waiting(task[u])
      PROVE  \E k \in 1 .. Len(inbox') : inbox'[k] = Notice(task[u])
  <2>1. PICK k \in 1 .. Len(inbox) : inbox[k] = Notice(task[u])
    BY <1>9 DEF Waiting
  <2>2. k # 1
    <3>1. inbox[k].exited = task[u]
      BY <2>1 DEF Notice
    <3>2. QED
      BY <1>4, <1>5, <1>9, <3>1 DEF IInv, KnownInv
  <2>3. k - 1 \in 1 .. Len(inbox') /\ inbox'[k - 1] = inbox[k]
    BY <1>2, <2>2
  <2>4. QED
    BY <2>1, <2>3
<1>10. TypeOK'
  <2>1. Len(inbox') <= InboxCap + Reserve
    <3>1. Len(inbox) <= InboxCap + Reserve
      BY DEF IInv, TypeOK
    <3>2. InboxCap \in Nat /\ Reserve \in Nat
      BY SupervisorAssumption
    <3>3. QED
      BY <1>2, <3>1, <3>2
  <2>2. QED
    BY <1>1, <1>2, <1>6, <2>1 DEF IInv, TypeOK, Messages
<1>11. GenerationsLeft'
  BY <1>1 DEF IInv, GenerationsLeft
<1>12. LaunchInv'
  BY <1>1, <1>6 DEF IInv, LaunchInv, Launching
<1>13. RoundInv'
  <2>1. \A u \in Services : restart'[u] # "none" => task'[u] = NoTask
    BY <1>6 DEF IInv, RoundInv
  <2>2. QED
    BY <1>6, <2>1 DEF RoundInv
<1>14. KnownInv'
  <2>1. \A u \in Services, j \in Slots : slot'[j] = u => Known'[u] = Ref(j)'
    BY <1>1, <1>5, <1>8 DEF IInv, KnownInv, Running, Ref
  <2>2. ASSUME NEW u \in Services, Known'[u] # NoTask
        PROVE  Running(u)' \/ Waiting(Known[u])'
    <3>1. u # s /\ task[u] # NoTask /\ Known'[u] = task[u]
      BY <1>6, <1>7, <2>2
    <3>2. Running(u) \/ Waiting(task[u])
      BY <1>4, <3>1 DEF IInv, KnownInv, Running
    <3>3. QED
      BY <1>8, <1>9, <3>1, <3>2 DEF Waiting
  <2>3. QED
    BY <1>1, <1>4, <1>6, <1>7, <2>1, <2>2 DEF IInv, KnownInv, Running
<1>15. NoticeInv'
  <2>1. ASSUME NEW k \in 1 .. Len(inbox'), IsNotice(inbox'[k])
        PROVE  \E u \in Services : About(inbox[k], u)'
    <3>1. k + 1 \in 1 .. Len(inbox) /\ inbox'[k] = inbox[k + 1] /\ k + 1 # 1
      BY <1>2
    <3>2. PICK u \in Services : About(inbox[k + 1], u)
      BY <2>1, <3>1 DEF IInv, NoticeInv
    <3>3. u # s
      <4>1. inbox[k + 1] # inbox[1]
        BY <1>2, <2>1, <3>1 DEF IInv, NoticeInv
      <4>2. QED
        BY <1>3, <3>2, <4>1 DEF About
    <3>4. About(inbox[k], u)'
      BY <1>8, <3>1, <3>2, <3>3 DEF About
    <3>5. QED
      BY <3>4
  <2>2. ASSUME NEW j \in 1 .. Len(inbox'), NEW k \in 1 .. Len(inbox'),
               IsNotice(inbox'[k]), inbox'[j] = inbox'[k]
        PROVE  j = k
    <3>1. j + 1 = k + 1
      BY <1>2, <2>2 DEF IInv, NoticeInv
    <3>2. QED
      BY <3>1
  <2>3. \A k \in 1 .. Len(inbox') : k > InboxCap => IsNotice(inbox'[k])
    <3>1. InboxCap \in Nat
      BY SupervisorAssumption
    <3>2. \A k \in 1 .. Len(inbox') : k > InboxCap => k + 1 > InboxCap
      BY <3>1
    <3>3. QED
      BY <1>2, <3>2 DEF IInv, NoticeInv
  <2>4. QED
    BY <2>1, <2>2, <2>3 DEF NoticeInv
<1>16. RequestInv'
  <2>1. ASSUME NEW k \in 1 .. Len(inbox'), ~IsNotice(inbox'[k])
        PROVE  InTime(k)'
    <3> DEFINE m == inbox[k + 1]
    <3>1. k + 1 \in 1 .. Len(inbox) /\ inbox'[k] = m
      BY <1>2
    <3>2. m.service \in Services
      <4>1. inbox \in Seq(Messages)
        BY DEF IInv, TypeOK, Messages
      <4>2. m \in Messages
        BY <3>1, <4>1
      <4>3. QED
        BY <2>1, <3>1, <4>2 DEF Messages, IsNotice
    <3>3. InTime(k + 1)
      BY <3>1 DEF IInv, RequestInv
    <3> HIDE DEF m
    <3>4. ASSUME m.down, registry[m.service].starts = m.starts, Known'[m.service] # NoTask
          PROVE  \E j \in 1 .. k - 1 : inbox'[j] = Notice(Known'[m.service])
      <4>1. m.service # s /\ task[m.service] # NoTask /\ Known'[m.service] = task[m.service]
        BY <1>6, <1>7, <3>2, <3>4
      <4>2. PICK j \in 1 .. k : inbox[j] = Notice(task[m.service])
        BY <1>4, <2>1, <3>1, <3>3, <3>4, <4>1 DEF InTime, m
      <4>3. j # 1
        <5>1. inbox[j].exited = task[m.service]
          BY <4>2 DEF Notice
        <5>2. QED
          BY <1>4, <1>5, <3>2, <4>1, <5>1 DEF IInv, KnownInv
      <4>4. j \in 1 .. Len(inbox) /\ j - 1 \in 1 .. k - 1
        BY <3>1, <4>3
      <4>5. inbox'[j - 1] = Notice(Known'[m.service])
        BY <1>2, <4>1, <4>2, <4>3, <4>4
      <4>6. QED
        BY <4>4, <4>5
    <3>5. m.starts <= registry[m.service].starts
      BY <2>1, <3>1, <3>3 DEF InTime, m
    <3>6. QED
      BY <1>1, <3>1, <3>4, <3>5 DEF InTime
  <2>2. QED
    BY <2>1 DEF RequestInv, InTime
<1>17. RegistryAgrees'
  BY <1>1, <1>8 DEF IInv, RegistryAgrees, Ref
<1>18. NeverForgotten'
  <2>1. ASSUME NEW u \in Supervised \ (Missing \cap Optional)
        PROVE  \/ Running(u)'
               \/ launching'.service = u
               \/ restart'[u] # "none"
               \/ task'[u] # NoTask /\ (\E k \in 1 .. Len(inbox') : inbox'[k] = Notice(task'[u]))
    <3>1. CASE u = s
      BY <1>6, <3>1
    <3>2. CASE u # s
      <4>1. \/ Running(u) \/ launching.service = u \/ restart[u] # "none"
            \/ task[u] # NoTask /\ Waiting(task[u])
        BY <1>6 DEF IInv, NeverForgotten
      <4>2. u \in Services
        BY DEF Supervised
      <4>3. QED
        BY <1>1, <1>6, <1>8, <1>9, <3>2, <4>1, <4>2
    <3>3. QED
      BY <3>1, <3>2
  <2>2. QED
    BY <2>1 DEF NeverForgotten, Supervised, Waiting
<1>19. QED
  BY <1>10, <1>11, <1>12, <1>13, <1>14, <1>15, <1>16, <1>17, <1>18 DEF IInv

(* init hears a request: it turns it away or launches the service.         *)
LEMMA HearsRequestKeeps ==
  ASSUME IInv, Receive, ~IsNotice(Head(inbox))
  PROVE  IInv'
<1>1. /\ pc = "recv" /\ inbox # <<>> /\ inbox' = Tail(inbox) /\ HearsRequest(Head(inbox))
      /\ UNCHANGED <<launching, retry, slot, generation, registry>>
  BY DEF Receive
<1>2. /\ Head(inbox) = inbox[1] /\ inbox[1] \in Messages /\ 1 \in 1 .. Len(inbox)
      /\ inbox' \in Seq(Messages) /\ Len(inbox') = Len(inbox) - 1
      /\ Len(inbox) \in Nat /\ Len(inbox') \in Nat
      /\ \A k \in 1 .. Len(inbox') : k + 1 \in 1 .. Len(inbox) /\ inbox'[k] = inbox[k + 1]
      /\ \A k \in 1 .. Len(inbox) : k # 1 =>
           k - 1 \in 1 .. Len(inbox') /\ inbox'[k - 1] = inbox[k]
  BY <1>1, ReadFacts
<1>3. PICK s \in Services : inbox[1].service = s
  <2>1. inbox[1].service \in Services \cup {0} /\ inbox[1].service # 0
    BY <1>2 DEF Messages, IsNotice
  <2>2. QED
    BY <2>1
<1>4. /\ Known = task /\ todo = {} /\ restart \in [Services -> {"none", "later", "due"}]
  BY <1>1 DEF Known, IInv, TypeOK, RoundInv
<1>5. /\ UNCHANGED task
      /\ \/ pc' = "sample" /\ UNCHANGED <<todo, restart>>
         \/ /\ pc' = "request" /\ task[s] = NoTask /\ todo' = {s}
            /\ restart' = [restart EXCEPT ![s] = "none"]
  BY <1>1, <1>2, <1>3 DEF HearsRequest
<1>6. /\ restart' \in [Services -> {"none", "later", "due"}]
      /\ \A u \in Services : restart'[u] \in {restart[u], "none"}
      /\ \A u \in Services : u \notin todo' => restart'[u] = restart[u]
      /\ \A u \in todo' : u \in Services /\ task'[u] = NoTask /\ restart'[u] = "none"
      /\ pc' \in {"sample", "request"} /\ (pc' = "sample" => todo' = {})
  BY <1>4, <1>5
<1>7. Known' = Known /\ ~Launching /\ ~Launching'
  BY <1>1, <1>4, <1>5 DEF Known, Launching
<1>8. \A u \in Services : Running(u)' <=> Running(u)
  BY <1>1 DEF Running
<1>9. ASSUME NEW ref, Waiting(ref)
      PROVE  \E k \in 1 .. Len(inbox') : inbox'[k] = Notice(ref)
  <2>1. PICK k \in 1 .. Len(inbox) : inbox[k] = Notice(ref)
    BY <1>9 DEF Waiting
  <2>2. k # 1
    BY <1>2, <2>1 DEF Notice, IsNotice
  <2>3. k - 1 \in 1 .. Len(inbox') /\ inbox'[k - 1] = inbox[k]
    BY <1>2, <2>2
  <2>4. QED
    BY <2>1, <2>3
<1>10. TypeOK'
  <2>1. Len(inbox') <= InboxCap + Reserve
    <3>1. Len(inbox) <= InboxCap + Reserve
      BY DEF IInv, TypeOK
    <3>2. InboxCap \in Nat /\ Reserve \in Nat
      BY SupervisorAssumption
    <3>3. QED
      BY <1>2, <3>1, <3>2
  <2>2. todo' \subseteq Services
    BY <1>6
  <2>3. QED
    BY <1>1, <1>2, <1>5, <1>6, <2>1, <2>2 DEF IInv, TypeOK, Messages
<1>11. GenerationsLeft'
  BY <1>1 DEF IInv, GenerationsLeft
<1>12. LaunchInv'
  BY <1>1, <1>6, <1>7 DEF IInv, LaunchInv, Launching
<1>13. RoundInv'
  BY <1>5, <1>6, <1>7 DEF IInv, RoundInv
<1>14. KnownInv'
  <2>1. ASSUME NEW u \in Services, Known[u] # NoTask
        PROVE  Running(u)' \/ Waiting(Known[u])'
    BY <1>7, <1>8, <1>9, <2>1 DEF IInv, KnownInv, Running, Waiting
  <2>2. QED
    BY <1>1, <1>7, <2>1 DEF IInv, KnownInv, Running, Ref
<1>15. NoticeInv'
  <2>1. ASSUME NEW k \in 1 .. Len(inbox'), IsNotice(inbox'[k])
        PROVE  \E u \in Services : About(inbox[k], u)'
    <3>1. k + 1 \in 1 .. Len(inbox) /\ inbox'[k] = inbox[k + 1]
      BY <1>2
    <3>2. PICK u \in Services : About(inbox[k + 1], u)
      BY <2>1, <3>1 DEF IInv, NoticeInv
    <3>3. About(inbox[k], u)'
      BY <1>7, <1>8, <3>1, <3>2 DEF About
    <3>4. QED
      BY <3>3
  <2>2. ASSUME NEW j \in 1 .. Len(inbox'), NEW k \in 1 .. Len(inbox'),
               IsNotice(inbox'[k]), inbox'[j] = inbox'[k]
        PROVE  j = k
    <3>1. j + 1 = k + 1
      BY <1>2, <2>2 DEF IInv, NoticeInv
    <3>2. QED
      BY <3>1
  <2>3. \A k \in 1 .. Len(inbox') : k > InboxCap => IsNotice(inbox'[k])
    <3>1. InboxCap \in Nat
      BY SupervisorAssumption
    <3>2. \A k \in 1 .. Len(inbox') : k > InboxCap => k + 1 > InboxCap
      BY <3>1
    <3>3. QED
      BY <1>2, <3>2 DEF IInv, NoticeInv
  <2>4. QED
    BY <2>1, <2>2, <2>3 DEF NoticeInv
<1>16. RequestInv'
  <2>1. ASSUME NEW k \in 1 .. Len(inbox'), ~IsNotice(inbox'[k])
        PROVE  InTime(k)'
    <3> DEFINE m == inbox[k + 1]
    <3>1. k + 1 \in 1 .. Len(inbox) /\ inbox'[k] = m
      BY <1>2
    <3>2. InTime(k + 1)
      BY <3>1 DEF IInv, RequestInv
    <3> HIDE DEF m
    <3>3. ASSUME m.down, registry[m.service].starts = m.starts, Known[m.service] # NoTask
          PROVE  \E j \in 1 .. k - 1 : inbox'[j] = Notice(Known[m.service])
      <4>1. PICK j \in 1 .. k : inbox[j] = Notice(Known[m.service])
        BY <2>1, <3>1, <3>2, <3>3 DEF InTime, m
      <4>2. j # 1
        BY <1>2, <4>1 DEF Notice, IsNotice
      <4>3. j \in 1 .. Len(inbox) /\ j - 1 \in 1 .. k - 1
        BY <3>1, <4>2
      <4>4. inbox'[j - 1] = Notice(Known[m.service])
        BY <1>2, <4>1, <4>2, <4>3
      <4>5. QED
        BY <4>3, <4>4
    <3>4. m.starts <= registry[m.service].starts
      BY <2>1, <3>1, <3>2 DEF InTime, m
    <3>5. QED
      BY <1>1, <1>7, <3>1, <3>3, <3>4 DEF InTime
  <2>2. QED
    BY <2>1 DEF RequestInv, InTime
<1>17. RegistryAgrees'
  BY <1>1, <1>8 DEF IInv, RegistryAgrees, Ref
<1>18. NeverForgotten'
  <2>1. ASSUME NEW u \in Supervised \ (Missing \cap Optional)
        PROVE  \/ Running(u)'
               \/ u \in todo'
               \/ launching'.service = u
               \/ restart'[u] # "none"
               \/ task'[u] # NoTask /\ (\E k \in 1 .. Len(inbox') : inbox'[k] = Notice(task'[u]))
    <3>1. \/ Running(u) \/ launching.service = u \/ restart[u] # "none"
          \/ task[u] # NoTask /\ Waiting(task[u])
      BY <1>4 DEF IInv, NeverForgotten
    <3>2. u \in Services
      BY DEF Supervised
    <3>3. QED
      BY <1>1, <1>5, <1>6, <1>8, <1>9, <3>1, <3>2
  <2>2. QED
    BY <2>1 DEF NeverForgotten, Supervised, Waiting
<1>19. QED
  BY <1>10, <1>11, <1>12, <1>13, <1>14, <1>15, <1>16, <1>17, <1>18 DEF IInv

-----------------------------------------------------------------------------
(* Every step of init, of the services, of the shell and of the clock      *)
(* keeps the invariant.                                                    *)
LEMMA NextKeeps == IInv /\ [Next]_vars => IInv'
<1> SUFFICES ASSUME IInv, [Next]_vars PROVE IInv'
  OBVIOUS
<1>1. CASE \E i \in Slots : Exits(i)
  <2>1. PICK i \in Slots : Exits(i)
    BY <1>1
  <2>2. slot[i] \in Services
    BY <2>1 DEF Exits
  <2>3. PICK s \in Services : slot[i] = s
    BY <2>2
  <2>4. QED
    BY <2>1, <2>3, ExitsKeeps
<1>2. CASE \E s \in Services : Asks(s)
  BY <1>2, AsksKeeps
<1>3. CASE \E s \in Services : ClockPasses(s)
  BY <1>3, ClockKeeps
<1>4. CASE \E s \in Services, i \in Slots : Claim(s, i)
  BY <1>4, ClaimKeeps
<1>5. CASE \E s \in Services : Refused(s)
  BY <1>5, RefusedKeeps
<1>6. CASE \E i \in Slots : LoadFails(i)
  BY <1>6, LoadFailsKeeps
<1>7. CASE \E i \in Slots : Install(i)
  <2>1. PICK i \in Slots : Install(i)
    BY <1>7
  <2>2. launching.service \in Services
    BY <2>1 DEF Install, IInv, LaunchInv, Launching
  <2>3. PICK s \in Services : launching.service = s
    BY <2>2
  <2>4. QED
    BY <2>1, <2>3, InstallKeeps
<1>8. CASE Record
  BY <1>8, RecordKeeps
<1>9. CASE Receive
  BY <1>9, HearsExitKeeps, HearsRequestKeeps
<1>10. CASE TimesOut \/ Sample \/ Sleeps \/ UNCHANGED vars
  BY <1>10, LoopKeeps DEF Sleeps
<1>11. QED
  BY <1>1, <1>2, <1>3, <1>4, <1>5, <1>6, <1>7, <1>8, <1>9, <1>10 DEF Next, InitStep

(* The induction that the theorems below rest on.                          *)
THEOREM Invariance == Spec => []IInv
<1>1. Init => IInv
  BY InitInv
<1>2. IInv /\ [Next]_vars => IInv'
  BY NextKeeps
<1>3. QED
  BY <1>1, <1>2, PTL DEF Spec

(* init's tables, its inbox and the registry hold what their types allow,  *)
(* waits stay under their cap, and no message overruns the inbox.          *)
THEOREM SupervisorTypes == Spec => []TypeOK
<1>1. IInv => TypeOK
  BY DEF IInv
<1>2. QED
  BY <1>1, Invariance, PTL

(* A task init believes in runs or has a notice on its way, and whatever   *)
(* runs is known to init once its launch is over.                          *)
THEOREM InitIsToldOfExits == Spec => []InitKnows
<1>1. IInv => InitKnows
  <2> SUFFICES ASSUME IInv PROVE InitKnows
    OBVIOUS
  <2>1. ASSUME NEW s \in Services, task[s] # NoTask
        PROVE  \/ slot[task[s][1]] = s /\ generation[task[s][1]] = task[s][2]
               \/ Waiting(task[s])
    <3>1. Known[s] = task[s]
      BY <2>1 DEF IInv, LaunchInv, Launching, Known
    <3>2. CASE Waiting(task[s])
      BY <3>2
    <3>3. CASE \E i \in Slots : slot[i] = s
      <4>1. PICK i \in Slots : slot[i] = s
        BY <3>3
      <4>2. task[s] = Ref(i)
        BY <3>1, <4>1 DEF IInv, KnownInv
      <4>3. QED
        BY <4>1, <4>2 DEF Ref
    <3>4. QED
      BY <2>1, <3>1, <3>2, <3>3 DEF IInv, KnownInv
  <2>2. ASSUME NEW i \in Slots, slot[i] \in Services
        PROVE  Ref(i) \in {task[slot[i]], launching.ref}
    <3>1. Known[slot[i]] = Ref(i)
      BY <2>2 DEF IInv, KnownInv
    <3>2. QED
      BY <2>2, <3>1 DEF Known
  <2>3. QED
    BY <2>1, <2>2 DEF InitKnows
<1>2. QED
  BY <1>1, Invariance, PTL

(* No service ever runs twice, however exits, retries and requests meet.   *)
THEOREM NoServiceTwice == Spec => []OneInstance
<1>1. IInv => OneInstance
  BY RunnerFacts DEF OneInstance
<1>2. QED
  BY <1>1, Invariance, PTL

(* A supervised service that is down is about to be started, or its exit   *)
(* is still to be heard of.                                                *)
THEOREM NoServiceForgotten == Spec => []NeverForgotten
<1>1. IInv => NeverForgotten
  BY DEF IInv
<1>2. QED
  BY <1>1, Invariance, PTL

(* The registry names the task that runs, and its counts of starts and     *)
(* exits differ by the one that runs.                                      *)
THEOREM RegistryIsExact == Spec => []RegistryAgrees
<1>1. IInv => RegistryAgrees
  BY DEF IInv
<1>2. QED
  BY <1>1, Invariance, PTL

(* When init reads a request for a service the shell saw to be down, it    *)
(* knows that too, unless the service has been started since.              *)
THEOREM RequestsComeInTime == Spec => []RequestsOfTheDown
<1>1. IInv => RequestsOfTheDown
  <2> SUFFICES ASSUME IInv, NEW k \in 1 .. Len(inbox),
                      ~IsNotice(inbox[k]), inbox[k].down,
                      registry[inbox[k].service].starts = inbox[k].starts
               PROVE  \/ task[inbox[k].service] = NoTask
                      \/ \E j \in 1 .. k - 1 : inbox[j] = Notice(task[inbox[k].service])
    BY DEF RequestsOfTheDown
  <2>1. inbox[k].service \in Services
    <3>1. inbox \in Seq(Messages)
      BY DEF IInv, TypeOK, Messages
    <3>2. inbox[k] \in Messages
      BY <3>1
    <3>3. QED
      BY <3>2 DEF Messages, IsNotice
  <2>2. InTime(k)
    BY DEF IInv, RequestInv
  <2>3. task[inbox[k].service] # NoTask => Known[inbox[k].service] = task[inbox[k].service]
    BY <2>1 DEF IInv, LaunchInv, Launching, Known
  <2>4. QED
    BY <2>2, <2>3 DEF InTime
<1>2. QED
  BY <1>1, Invariance, PTL
=============================================================================
