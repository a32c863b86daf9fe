---------------------------- MODULE KernelProofs ----------------------------
(***************************************************************************)
(* What holds in the kernel for any number of slots, channels, handles and *)
(* generations, and any capacities.  First where the receive rights are;   *)
(* then one inductive invariant, IInv, with a lemma for each action, and   *)
(* the seven safety properties of module Kernel as its consequences; at    *)
(* the end, that the kernel implements two abstract modules at once:       *)
(* Mailbox, for its messages (whatever the scheduler does, they arrive     *)
(* once and in order, and a sleeper gets its message or is woken to look   *)
(* for it), and Scheduler, for its table of tasks.                         *)
(***************************************************************************)
EXTENDS Kernel, FiniteSetTheorems, SequenceTheorems, TLAPS

-----------------------------------------------------------------------------
(* Receive rights.                                                         *)
IsRecv(t, h, c) ==
  handles[t][h].channel = c /\ "recv" \in handles[t][h].rights

Created == INIT_INBOX .. nextId - 1

RightsTypes ==
  /\ handles \in [Slots -> HandleTables]
  /\ receiver \in [Channels -> Slots \cup {NONE}]
  /\ home \in [Channels -> Homes]
  /\ nextId \in BootChannels .. MaxChannels

(* Just one handle has RECV on c, and its task is the receiver.            *)
Unique(c) ==
  /\ receiver[c] \in Slots
  /\ \E h \in HandleIds : \A t \in Slots, g \in HandleIds :
       IsRecv(t, g, c) <=> t = receiver[c] /\ g = h

RightsInv ==
  /\ RightsTypes
  /\ \A c \in Created : Unique(c)
  /\ HomeStaysOpen
  /\ receiver[INIT_INBOX] = InitTask
  /\ \A t \in Slots, h \in HandleIds :
       handles[t][h].channel \in Created \cup {NoChannel}

(* What the assumptions say of the sizes, and of the slots and channels    *)
(* with a name.                                                            *)
LEMMA Sizes ==
  /\ MaxTasks \in Nat /\ MaxTasks >= 2
  /\ IdleTask \in Slots /\ InitTask \in Slots /\ IdleTask # InitTask
  /\ NONE \notin Slots
  /\ MaxChannels \in Nat /\ MaxChannels >= 3
  /\ INIT_INBOX \in Channels /\ NoChannel \notin Channels
  /\ MaxHandles \in Nat \ {0}
  /\ ChannelCap \in Nat \ {0} /\ BacklogCap \in Nat /\ MaxGeneration \in Nat \ {0}
  BY MaxTasksAssumption, IpcAssumption, RightsAssumption
  DEF Slots, IdleTask, InitTask, NONE, INIT_INBOX, Channels, NoChannel

(* The channels created so far: init's inbox, and those CHANNEL_CREATE     *)
(* made.                                                                   *)
LEMMA CreatedFacts ==
  ASSUME RightsTypes
  PROVE  /\ Created \subseteq Channels
         /\ INIT_INBOX \in Created
         /\ NoChannel \notin Created
         /\ \A c \in Created : c # INIT_INBOX => c \in BootChannels .. nextId - 1
         /\ \A c \in BootChannels .. nextId - 1 : c \in Created /\ c # INIT_INBOX
  BY Sizes DEF RightsTypes, Created, Channels, INIT_INBOX, BootChannels, NoChannel

(* A handle's channel and rights, out of the types of the tables.          *)
LEMMA TableFacts ==
  ASSUME RightsTypes
  PROVE  /\ \A t \in Slots, h \in HandleIds :
              /\ handles[t][h] \in HandleSlots \cup {EmptySlot}
              /\ handles[t][h].rights \in SUBSET {"send", "recv"}
              /\ handles[t][h] = [channel |-> handles[t][h].channel,
                                  rights  |-> handles[t][h].rights]
         /\ \A t \in Slots : handles[t] \in [HandleIds -> HandleSlots \cup {EmptySlot}]
         /\ \A c \in Channels : home[c] = <<home[c][1], home[c][2]>>
                                /\ home[c][2] \in HandleIds
  BY DEF RightsTypes, HandleTables, HandleSlots, EmptySlot, Homes

(* OneReceiver, in the words of the code and in those of the proofs.       *)
LEMMA UniqueIsOneHolder ==
  ASSUME RightsTypes, NEW c \in Created
  PROVE  Unique(c) <=> \E h \in HandleIds : RecvHolders(c) = {<<receiver[c], h>>}
<1>1. \A t \in Slots, g \in HandleIds : <<t, g>> \in RecvHolders(c) <=> IsRecv(t, g, c)
  BY DEF RecvHolders, IsRecv
<1>2. RecvHolders(c) \subseteq Slots \X HandleIds
  BY DEF RecvHolders
<1>3. ASSUME Unique(c)
      PROVE  \E h \in HandleIds : RecvHolders(c) = {<<receiver[c], h>>}
  <2>1. PICK h \in HandleIds : \A t \in Slots, g \in HandleIds :
          IsRecv(t, g, c) <=> t = receiver[c] /\ g = h
    BY <1>3 DEF Unique
  <2>2. RecvHolders(c) = {<<receiver[c], h>>}
    BY <1>1, <1>2, <1>3, <2>1 DEF Unique
  <2>3. QED
    BY <2>2
<1>4. ASSUME NEW h \in HandleIds, RecvHolders(c) = {<<receiver[c], h>>}
      PROVE  Unique(c)
  <2>1. receiver[c] \in Slots
    BY <1>2, <1>4
  <2>2. \A t \in Slots, g \in HandleIds : IsRecv(t, g, c) <=> t = receiver[c] /\ g = h
    BY <1>1, <1>4
  <2>3. QED
    BY <2>1, <2>2 DEF Unique
<1>5. QED
  BY <1>3, <1>4

-----------------------------------------------------------------------------
(* A new channel.                                                          *)
LEMMA CreateKeepsRights ==
  ASSUME RightsInv, NEW h \in HandleIds, Create(h)
  PROVE  RightsInv'
<1> DEFINE new == [channel |-> nextId, rights |-> {"send", "recv"}]
<1>1. /\ RightsTypes /\ HomeStaysOpen /\ receiver[INIT_INBOX] = InitTask
      /\ \A c \in Created : Unique(c)
  BY DEF RightsInv
<1>2. /\ nextId \in Channels /\ nextId + 1 \in BootChannels .. MaxChannels
      /\ nextId \in Nat /\ nextId # INIT_INBOX
      /\ Created' = Created \cup {nextId} /\ nextId \notin Created
      /\ nextId \notin BootChannels .. nextId - 1
      /\ (BootChannels .. nextId - 1)' = (BootChannels .. nextId - 1) \cup {nextId}
  BY <1>1, Sizes DEF RightsTypes, Create, Created, Channels, BootChannels, INIT_INBOX
<1>3. handles' = [handles EXCEPT ![InitTask][h] = new]
  BY DEF Create
<1>4. new \in HandleSlots
  BY <1>2 DEF HandleSlots
<1>5. \A t \in Slots, g \in HandleIds :
        handles'[t][g] = IF t = InitTask /\ g = h THEN new ELSE handles[t][g]
  BY <1>1, <1>3, TableFacts, Sizes DEF RightsTypes
<1>6. RightsTypes'
  <2>1. handles' \in [Slots -> HandleTables]
    BY <1>1, <1>3, <1>4, Sizes DEF RightsTypes, HandleTables
  <2>2. NoHome \in Homes
    BY Sizes DEF NoHome, Homes, HandleIds
  <2>3. QED
    BY <1>1, <1>2, <2>1, <2>2, Sizes DEF RightsTypes, Create
<1>7. handles[InitTask][h].channel = NoChannel
  BY DEF Create, FirstEmpty
<1>8. \A c \in Created :
        /\ receiver'[c] = receiver[c] /\ home'[c] = home[c] /\ c # NoChannel
  BY <1>1, <1>2, CreatedFacts DEF Create, RightsTypes
<1>9. ASSUME NEW c \in Created' PROVE Unique(c)'
  <2>1. CASE c = nextId
    <3>1. receiver'[c] = InitTask
      BY <1>1, <1>2, <2>1 DEF Create, RightsTypes
    <3>2. ASSUME NEW t \in Slots, NEW g \in HandleIds
          PROVE  IsRecv(t, g, c)' <=> t = InitTask /\ g = h
      <4>1. handles[t][g].channel # c
        BY <1>1, <1>2, <2>1, Sizes, CreatedFacts DEF RightsInv
      <4>2. QED
        BY <1>5, <2>1, <4>1 DEF IsRecv
    <3>3. QED
      BY <3>1, <3>2, Sizes DEF Unique
  <2>2. CASE c \in Created
    <3>1. \A t \in Slots, g \in HandleIds : IsRecv(t, g, c)' <=> IsRecv(t, g, c)
      BY <1>2, <1>5, <1>7, <1>8, <2>2 DEF IsRecv
    <3>2. QED
      BY <1>1, <1>8, <2>2, <3>1 DEF Unique
  <2>3. QED
    BY <1>2, <2>1, <2>2
<1>10. HomeStaysOpen'
  <2> SUFFICES ASSUME NEW c \in (BootChannels .. nextId - 1)', receiver'[c] # InitTask
               PROVE  /\ home'[c][1] = InitTask
                      /\ handles'[InitTask][home'[c][2]].channel = c
                      /\ ~Holds(InitTask, home[c][2], "recv")'
    BY DEF HomeStaysOpen
  <2>1. c # nextId
    BY <1>1, <1>2 DEF Create, RightsTypes
  <2>2. c \in BootChannels .. nextId - 1 /\ c \in Created
    BY <1>1, <1>2, <2>1, CreatedFacts
  <2>3. /\ home[c][1] = InitTask /\ handles[InitTask][home[c][2]].channel = c
        /\ ~Holds(InitTask, home[c][2], "recv")
    BY <1>1, <1>8, <2>2 DEF HomeStaysOpen
  <2>4. home[c][2] # h /\ home[c][2] \in HandleIds
    BY <1>1, <1>7, <1>8, <2>2, <2>3, CreatedFacts, TableFacts
  <2>5. handles'[InitTask][home[c][2]] = handles[InitTask][home[c][2]]
    BY <1>5, <2>4, Sizes
  <2>6. QED
    BY <1>8, <2>2, <2>3, <2>5 DEF Holds
<1>11. receiver'[INIT_INBOX] = InitTask
  BY <1>1, <1>8, CreatedFacts
<1>12. \A t \in Slots, g \in HandleIds :
         handles'[t][g].channel \in Created' \cup {NoChannel}
  BY <1>2, <1>5 DEF RightsInv
<1>13. QED
  BY <1>6, <1>9, <1>10, <1>11, <1>12, Sizes DEF RightsInv, NoChannel

(* The rights of a task that has gone are home again.                      *)
LEMMA SendHomeKeepsRights ==
  ASSUME RightsInv, NEW t \in Slots, t # InitTask, SendHome(t), UNCHANGED nextId
  PROVE  /\ RightsInv'
         /\ handles'[t] = EmptyTable
         /\ \A u \in Slots, h \in HandleIds : u # t =>
              /\ handles'[u][h].channel = handles[u][h].channel
              /\ handles[u][h].rights \subseteq handles'[u][h].rights
         /\ \A u \in Slots : u # t /\ handles[u] = EmptyTable => handles'[u] = EmptyTable
         /\ \A c \in Created : receiver[c] # t => receiver'[c] = receiver[c]
<1> DEFINE Back(u, h) == /\ GoesHome(t, handles[u][h].channel)
                         /\ home[handles[u][h].channel] = <<u, h>>
<1>1. /\ RightsTypes /\ HomeStaysOpen /\ receiver[INIT_INBOX] = InitTask
      /\ \A c \in Created : Unique(c)
      /\ Created \subseteq Channels /\ NoChannel \notin Channels
      /\ \A c \in Created : c # NoChannel
  BY CreatedFacts, Sizes DEF RightsInv
<1>2. Created' = Created /\ nextId' = nextId
  BY DEF Created
<1>3. \A h \in HandleIds : handles'[t][h] = EmptySlot
  BY DEF SendHome, EmptyTable
<1>4. \A u \in Slots, h \in HandleIds : u # t =>
        handles'[u][h] = IF Back(u, h)
                         THEN [handles[u][h] EXCEPT !.rights = @ \cup {"recv"}]
                         ELSE handles[u][h]
  BY DEF SendHome
<1>5. \A u \in Slots, h \in HandleIds : u # t =>
        /\ handles'[u][h].channel = handles[u][h].channel
        /\ handles'[u][h].rights = IF Back(u, h) THEN handles[u][h].rights \cup {"recv"}
                                   ELSE handles[u][h].rights
  <2> SUFFICES ASSUME NEW u \in Slots, NEW h \in HandleIds, u # t
               PROVE  /\ handles'[u][h].channel = handles[u][h].channel
                      /\ handles'[u][h].rights =
                           IF Back(u, h) THEN handles[u][h].rights \cup {"recv"}
                           ELSE handles[u][h].rights
    OBVIOUS
  <2>1. handles[u][h] = [channel |-> handles[u][h].channel, rights |-> handles[u][h].rights]
    BY <1>1, TableFacts
  <2> HIDE DEF Back
  <2>2. QED
    BY <1>4, <2>1
<1>6. \A c \in Channels :
        /\ receiver'[c] = IF GoesHome(t, c) THEN home[c][1]
                          ELSE IF c \in GivenUp(t) THEN NONE ELSE receiver[c]
        /\ home'[c] = IF c \in GivenUp(t) THEN NoHome ELSE home[c]
  BY DEF SendHome
<1>7. \A c \in Created : receiver[c] # t => c \notin GivenUp(t) /\ ~GoesHome(t, c)
  BY DEF GivenUp, GoesHome
<1>8. ASSUME NEW c \in Created, receiver[c] = t
      PROVE  /\ c \in GivenUp(t) /\ GoesHome(t, c)
             /\ home[c][1] = InitTask /\ home[c][2] \in HandleIds
             /\ home[c] = <<InitTask, home[c][2]>>
             /\ handles[InitTask][home[c][2]].channel = c
  <2>1. PICK h \in HandleIds : IsRecv(t, h, c)
    BY <1>1, <1>8 DEF Unique
  <2>2. c \in GivenUp(t)
    BY <1>1, <1>8, <2>1 DEF GivenUp, IsRecv
  <2>3. c \in BootChannels .. nextId - 1
    BY <1>1, <1>8, CreatedFacts
  <2>4. home[c][1] = InitTask /\ handles[InitTask][home[c][2]].channel = c
    BY <1>8, <1>1, <2>3 DEF HomeStaysOpen
  <2>5. home[c] = <<InitTask, home[c][2]>> /\ home[c][2] \in HandleIds
    BY <1>1, <2>4, TableFacts
  <2>6. GoesHome(t, c)
    BY <2>2, <2>4, Sizes DEF GoesHome
  <2>7. QED
    BY <2>2, <2>4, <2>5, <2>6
<1>9. \A u \in Slots, h \in HandleIds, c \in Created : u # t =>
        (IsRecv(u, h, c)' <=>
           \/ IsRecv(u, h, c)
           \/ handles[u][h].channel = c /\ GoesHome(t, c) /\ home[c] = <<u, h>>)
  <2> SUFFICES ASSUME NEW u \in Slots, NEW h \in HandleIds, NEW c \in Created, u # t
               PROVE  IsRecv(u, h, c)' <=>
                        \/ IsRecv(u, h, c)
                        \/ handles[u][h].channel = c /\ GoesHome(t, c) /\ home[c] = <<u, h>>
    OBVIOUS
  <2>1. handles'[u][h].channel = handles[u][h].channel
    BY <1>5
  <2>2. "recv" \in handles'[u][h].rights <=> "recv" \in handles[u][h].rights \/ Back(u, h)
    <3>1. handles'[u][h].rights = IF Back(u, h) THEN handles[u][h].rights \cup {"recv"}
                                  ELSE handles[u][h].rights
      BY <1>5
    <3> HIDE DEF Back
    <3>2. QED
      BY <3>1
  <2>3. handles[u][h].channel = c => (Back(u, h) <=> GoesHome(t, c) /\ home[c] = <<u, h>>)
    OBVIOUS
  <2> HIDE DEF Back
  <2>4. QED
    BY <2>1, <2>2, <2>3 DEF IsRecv
<1>10. \A h \in HandleIds, c \in Created : ~IsRecv(t, h, c)'
  BY <1>1, <1>3 DEF IsRecv, EmptySlot
<1>11. ASSUME NEW c \in Created PROVE Unique(c)'
  <2>1. PICK k \in HandleIds : \A u \in Slots, g \in HandleIds :
          IsRecv(u, g, c) <=> u = receiver[c] /\ g = k
    BY <1>1 DEF Unique
  <2>2. CASE receiver[c] = t
    <3>1. receiver'[c] = InitTask
      BY <1>1, <1>6, <1>8, <2>2
    <3>2. \A u \in Slots, g \in HandleIds :
            IsRecv(u, g, c)' <=> u = InitTask /\ g = home[c][2]
      BY <1>8, <1>9, <1>10, <2>1, <2>2, Sizes
    <3>3. QED
      BY <1>8, <2>2, <3>1, <3>2, Sizes DEF Unique
  <2>3. CASE receiver[c] # t
    <3>1. receiver'[c] = receiver[c]
      BY <1>1, <1>6, <1>7, <2>3
    <3>2. \A u \in Slots, g \in HandleIds : IsRecv(u, g, c)' <=> IsRecv(u, g, c)
      BY <1>7, <1>9, <1>10, <2>1, <2>3
    <3>3. QED
      BY <1>1, <2>1, <3>1, <3>2 DEF Unique
  <2>4. QED
    BY <2>2, <2>3
<1>12. HomeStaysOpen'
  <2> SUFFICES ASSUME NEW c \in (BootChannels .. nextId - 1)', receiver'[c] # InitTask
               PROVE  /\ home'[c][1] = InitTask
                      /\ handles'[InitTask][home'[c][2]].channel = c
                      /\ ~Holds(InitTask, home[c][2], "recv")'
    BY DEF HomeStaysOpen
  <2>1. c \in BootChannels .. nextId - 1 /\ c \in Created
    BY <1>1, <1>2, CreatedFacts
  <2>2. receiver[c] # t
    BY <1>1, <1>6, <1>8, <2>1
  <2>3. receiver'[c] = receiver[c] /\ home'[c] = home[c]
    BY <1>1, <1>6, <1>7, <2>1, <2>2
  <2>4. /\ home[c][1] = InitTask /\ handles[InitTask][home[c][2]].channel = c
        /\ ~Holds(InitTask, home[c][2], "recv") /\ home[c][2] \in HandleIds
    BY <1>1, <2>1, <2>3, TableFacts DEF HomeStaysOpen
  <2>5. "recv" \notin handles[InitTask][home[c][2]].rights
    BY <1>1, <2>1, <2>4 DEF Holds
  <2>6. ~Back(InitTask, home[c][2])
    BY <1>7, <2>1, <2>2, <2>4
  <2>7. "recv" \notin handles'[InitTask][home[c][2]].rights
    BY <1>5, <2>4, <2>5, <2>6, Sizes
  <2>8. handles'[InitTask][home[c][2]].channel = c
    BY <1>5, <2>4, Sizes
  <2>9. QED
    BY <2>3, <2>4, <2>7, <2>8 DEF Holds
<1>13. RightsTypes'
  <2>1. ASSUME NEW u \in Slots, NEW h \in HandleIds
        PROVE  handles'[u][h] \in HandleSlots \cup {EmptySlot}
    <3>1. CASE u = t
      BY <1>3, <3>1
    <3>2. CASE u # t /\ ~Back(u, h)
      <4>1. handles'[u][h] = handles[u][h]
        BY <1>4, <3>2
      <4>2. QED
        BY <1>1, <4>1, TableFacts
    <3>3. CASE u # t /\ Back(u, h)
      <4>1. handles[u][h].channel \in Channels
        BY <3>3 DEF GoesHome, GivenUp
      <4>2. handles[u][h] \in HandleSlots
        BY <1>1, <4>1, TableFacts DEF EmptySlot
      <4>3. [handles[u][h] EXCEPT !.rights = @ \cup {"recv"}] \in HandleSlots
        BY <4>2 DEF HandleSlots
      <4>4. QED
        BY <1>4, <3>3, <4>3
    <3>4. QED
      BY <3>1, <3>2, <3>3
  <2>2. handles' \in [Slots -> HandleTables]
    <3>1. \A u \in Slots : handles'[u] = [h \in HandleIds |-> handles'[u][h]]
      BY DEF SendHome, EmptyTable
    <3>2. \A u \in Slots : handles'[u] \in HandleTables
      BY <2>1, <3>1 DEF HandleTables
    <3>3. handles' = [u \in Slots |-> handles'[u]]
      BY DEF SendHome
    <3>4. QED
      BY <3>2, <3>3
  <2>3. NoHome \in Homes
    BY Sizes DEF NoHome, Homes, HandleIds
  <2>4. receiver' \in [Channels -> Slots \cup {NONE}]
    <3>1. \A c \in Channels : receiver'[c] \in Slots \cup {NONE}
      BY <1>1, <1>6 DEF RightsTypes, GoesHome
    <3>2. receiver' = [c \in Channels |-> receiver'[c]]
      BY DEF SendHome
    <3>3. QED
      BY <3>1, <3>2
  <2>5. home' \in [Channels -> Homes]
    BY <1>1, <2>3 DEF RightsTypes, SendHome
  <2>6. QED
    BY <1>1, <1>2, <2>2, <2>4, <2>5 DEF RightsTypes
<1>14. \A u \in Slots, h \in HandleIds :
         handles'[u][h].channel \in Created' \cup {NoChannel}
  <2> SUFFICES ASSUME NEW u \in Slots, NEW h \in HandleIds
               PROVE  handles'[u][h].channel \in Created \cup {NoChannel}
    BY <1>2
  <2>1. CASE u = t
    BY <1>3, <2>1 DEF EmptySlot
  <2>2. CASE u # t
    BY <1>5, <2>2 DEF RightsInv
  <2>3. QED
    BY <2>1, <2>2
<1>15. receiver'[INIT_INBOX] = InitTask
  BY <1>1, <1>6, <1>7, CreatedFacts
<1>16. handles'[t] = EmptyTable
  BY DEF SendHome
<1>17. \A u \in Slots, h \in HandleIds : u # t =>
         handles[u][h].rights \subseteq handles'[u][h].rights
  BY <1>5
<1>18. ASSUME NEW u \in Slots, u # t, handles[u] = EmptyTable
       PROVE  handles'[u] = EmptyTable
  <2>1. \A h \in HandleIds : handles[u][h] = EmptySlot /\ ~Back(u, h)
    BY <1>1, <1>18 DEF EmptyTable, EmptySlot, GoesHome, GivenUp
  <2>2. \A h \in HandleIds : handles'[u][h] = EmptySlot
    BY <1>4, <1>18, <2>1
  <2>3. handles'[u] = [h \in HandleIds |-> handles'[u][h]]
    BY <1>18 DEF SendHome
  <2>4. QED
    BY <2>2, <2>3 DEF EmptyTable
<1>19. \A c \in Created : receiver[c] # t => receiver'[c] = receiver[c]
  BY <1>1, <1>6, <1>7
<1> HIDE DEF Back
<1>20. QED
  BY <1>2, <1>5, <1>11, <1>12, <1>13, <1>14, <1>15, <1>16, <1>17, <1>18, <1>19
  DEF RightsInv

-----------------------------------------------------------------------------
(* A request that resolves names, for each channel whose RECV it moves,    *)
(* one grant, and the handle that has it.                                  *)
Giving(grants) == {i \in 1 .. Len(grants) : "recv" \in grants[i].rights}

(* What resolve has checked of the grants: each names a channel that       *)
(* exists, and where it moves RECV, init is the receiver and has the right *)
(* in that handle alone.                                                   *)
LEMMA GrantFacts ==
  ASSUME RightsInv, NEW grants \in Seq(Grants), Resolves(grants)
  PROVE  /\ Len(grants) \in Nat /\ Len(grants) <= MaxHandles
         /\ Giving(grants) \subseteq 1 .. Len(grants)
         /\ \A i \in 1 .. Len(grants) :
              /\ grants[i].handle \in HandleIds
              /\ grants[i].rights \in SUBSET {"send", "recv"}
              /\ GrantedChannel(grants[i]) \in Created
         /\ \A i \in Giving(grants) :
              /\ GrantedChannel(grants[i]) # INIT_INBOX
              /\ receiver[GrantedChannel(grants[i])] = InitTask
              /\ \A t \in Slots, h \in HandleIds :
                   IsRecv(t, h, GrantedChannel(grants[i])) <=>
                     t = InitTask /\ h = grants[i].handle
         /\ \A i, j \in Giving(grants) :
              GrantedChannel(grants[i]) = GrantedChannel(grants[j]) => i = j
<1>1. /\ Len(grants) \in Nat /\ Len(grants) <= MaxHandles
      /\ \A i \in 1 .. Len(grants) : grants[i] \in Grants
  BY DEF Resolves
<1>2. \A i \in 1 .. Len(grants) :
        /\ grants[i].handle \in HandleIds /\ grants[i].rights \in SUBSET {"send", "recv"}
  BY <1>1 DEF Grants
<1>3. \A i \in 1 .. Len(grants) :
        /\ GrantedChannel(grants[i]) # NoChannel
        /\ grants[i].rights \subseteq handles[InitTask][grants[i].handle].rights
        /\ "recv" \in grants[i].rights =>
             /\ GrantedChannel(grants[i]) # INIT_INBOX
             /\ \A j \in 1 .. i - 1 : "recv" \in grants[j].rights =>
                  GrantedChannel(grants[j]) # GrantedChannel(grants[i])
  BY DEF Resolves
<1>4. \A i \in 1 .. Len(grants) : GrantedChannel(grants[i]) \in Created
  BY <1>2, <1>3, Sizes DEF RightsInv, GrantedChannel
<1>5. ASSUME NEW i \in Giving(grants)
      PROVE  /\ receiver[GrantedChannel(grants[i])] = InitTask
             /\ \A t \in Slots, h \in HandleIds :
                   IsRecv(t, h, GrantedChannel(grants[i])) <=>
                     t = InitTask /\ h = grants[i].handle
  <2>1. i \in 1 .. Len(grants) /\ "recv" \in grants[i].rights
    BY DEF Giving
  <2>2. IsRecv(InitTask, grants[i].handle, GrantedChannel(grants[i]))
    BY <1>3, <2>1 DEF IsRecv, GrantedChannel
  <2>3. Unique(GrantedChannel(grants[i]))
    BY <1>4, <2>1 DEF RightsInv
  <2>4. QED
    BY <1>2, <2>1, <2>2, <2>3, Sizes DEF Unique
<1>6. ASSUME NEW i \in Giving(grants), NEW j \in Giving(grants),
             GrantedChannel(grants[i]) = GrantedChannel(grants[j])
      PROVE  i = j
  <2>1. /\ i \in 1 .. Len(grants) /\ "recv" \in grants[i].rights
        /\ j \in 1 .. Len(grants) /\ "recv" \in grants[j].rights
    BY DEF Giving
  <2>2. ~(i < j)
    <3>1. ASSUME i < j PROVE i \in 1 .. j - 1
      BY <1>1, <2>1, <3>1
    <3>2. QED
      BY <1>3, <1>6, <2>1, <3>1
  <2>3. ~(j < i)
    <3>1. ASSUME j < i PROVE j \in 1 .. i - 1
      BY <1>1, <2>1, <3>1
    <3>2. QED
      BY <1>3, <1>6, <2>1, <3>1
  <2>4. QED
    BY <1>1, <2>1, <2>2, <2>3
<1>7. QED
  BY <1>1, <1>2, <1>3, <1>4, <1>5, <1>6 DEF Giving

(* bind_handles moves RECV: the child's handle takes the place of init's.  *)
LEMMA BindKeepsRights ==
  ASSUME RightsInv, NEW s \in Slots, s # InitTask, handles[s] = EmptyTable,
         NEW grants \in Seq(Grants), Resolves(grants),
         Bind(s, ChildTable(grants), Moves(grants)), UNCHANGED nextId
  PROVE  /\ RightsInv'
         /\ \A u \in Slots \ {s, InitTask} : handles'[u] = handles[u]
         /\ \A c \in Created :
              \/ receiver'[c] = receiver[c]
              \/ receiver[c] = InitTask /\ receiver'[c] = s
<1> DEFINE child == ChildTable(grants)
           moves == Moves(grants)
           moved == {handles[InitTask][h].channel : h \in moves}
           from(c) == CHOOSE h \in moves : handles[InitTask][h].channel = c
<1>1. /\ RightsTypes /\ HomeStaysOpen /\ receiver[INIT_INBOX] = InitTask
      /\ \A c \in Created : Unique(c)
      /\ Created \subseteq Channels /\ NoChannel \notin Channels
      /\ \A c \in Created : c # NoChannel
  BY CreatedFacts, Sizes DEF RightsInv
<1>2. Created' = Created /\ nextId' = nextId
  BY DEF Created
<1>3. moves = {grants[i].handle : i \in Giving(grants)}
  BY DEF Moves, Giving
<1>4. /\ Len(grants) \in Nat /\ Len(grants) <= MaxHandles
      /\ Giving(grants) \subseteq 1 .. Len(grants)
      /\ \A i \in 1 .. Len(grants) :
              /\ grants[i].handle \in HandleIds
              /\ grants[i].rights \in SUBSET {"send", "recv"}
              /\ GrantedChannel(grants[i]) \in Created
      /\ \A i \in Giving(grants) :
              /\ GrantedChannel(grants[i]) # INIT_INBOX
              /\ receiver[GrantedChannel(grants[i])] = InitTask
              /\ \A t \in Slots, h \in HandleIds :
                   IsRecv(t, h, GrantedChannel(grants[i])) <=>
                     t = InitTask /\ h = grants[i].handle
      /\ \A i, j \in Giving(grants) :
              GrantedChannel(grants[i]) = GrantedChannel(grants[j]) => i = j
  BY GrantFacts
<1>5. moved = {GrantedChannel(grants[i]) : i \in Giving(grants)}
  BY <1>3 DEF GrantedChannel
<1>6. /\ \A h \in HandleIds : handles'[s][h] = child[h]
      /\ \A h \in HandleIds : handles'[InitTask][h] =
           [channel |-> handles[InitTask][h].channel,
            rights |-> IF h \in moves THEN handles[InitTask][h].rights \ {"recv"}
                       ELSE handles[InitTask][h].rights]
      /\ \A u \in Slots \ {s, InitTask} : handles'[u] = handles[u]
      /\ \A c \in Channels : receiver'[c] = IF c \in moved THEN s ELSE receiver[c]
      /\ \A c \in Channels : home'[c] = IF c \in moved THEN <<InitTask, from(c)>> ELSE home[c]
  <2>1. /\ handles' = [handles EXCEPT
              ![s] = child,
              ![InitTask] = [h \in HandleIds |->
                 [channel |-> @[h].channel,
                  rights |-> IF h \in moves THEN @[h].rights \ {"recv"} ELSE @[h].rights]]]
        /\ receiver' = [c \in Channels |-> IF c \in moved THEN s ELSE receiver[c]]
        /\ home' = [c \in Channels |->
                      IF c \in moved THEN <<InitTask, from(c)>> ELSE home[c]]
    BY DEF Bind
  <2> HIDE DEF child, moves, moved, from
  <2> DEFINE init == [h \in HandleIds |->
           [channel |-> handles[InitTask][h].channel,
            rights |-> IF h \in moves THEN handles[InitTask][h].rights \ {"recv"}
                       ELSE handles[InitTask][h].rights]]
  <2>2. \A u \in Slots : handles'[u] = IF u = s THEN child
                                       ELSE IF u = InitTask THEN init ELSE handles[u]
    <3>1. handles \in [Slots -> HandleTables]
      BY <1>1 DEF RightsTypes
    <3>2. handles' = [handles EXCEPT ![s] = child, ![InitTask] = init]
      BY <2>1, <3>1, Sizes
    <3> HIDE DEF init
    <3>3. QED
      BY <3>1, <3>2, Sizes
  <2>3. \A h \in HandleIds : init[h] =
           [channel |-> handles[InitTask][h].channel,
            rights |-> IF h \in moves THEN handles[InitTask][h].rights \ {"recv"}
                       ELSE handles[InitTask][h].rights]
    OBVIOUS
  <2> HIDE DEF init
  <2>4. /\ \A c \in Channels : receiver'[c] = IF c \in moved THEN s ELSE receiver[c]
        /\ \A c \in Channels : home'[c] = IF c \in moved THEN <<InitTask, from(c)>> ELSE home[c]
    BY <2>1
  <2>5. QED
    BY <2>2, <2>3, <2>4, Sizes
<1> HIDE DEF moves, moved, from
<1>7. \A h \in HandleIds :
        /\ handles'[InitTask][h].channel = handles[InitTask][h].channel
        /\ handles'[InitTask][h].rights = IF h \in moves
             THEN handles[InitTask][h].rights \ {"recv"} ELSE handles[InitTask][h].rights
  <2> SUFFICES ASSUME NEW h \in HandleIds
               PROVE  /\ handles'[InitTask][h].channel = handles[InitTask][h].channel
                      /\ handles'[InitTask][h].rights = IF h \in moves
                           THEN handles[InitTask][h].rights \ {"recv"}
                           ELSE handles[InitTask][h].rights
    OBVIOUS
  <2>1. handles'[InitTask][h] =
          [channel |-> handles[InitTask][h].channel,
           rights |-> IF h \in moves THEN handles[InitTask][h].rights \ {"recv"}
                      ELSE handles[InitTask][h].rights]
    BY <1>6
  <2>2. QED
    BY <2>1
<1>8. \A h \in HandleIds :
        /\ h < Len(grants) =>
             child[h] = [channel |-> GrantedChannel(grants[h + 1]),
                         rights |-> grants[h + 1].rights]
        /\ ~(h < Len(grants)) => child[h] = EmptySlot
  BY DEF ChildTable, child
<1>9. \A h \in HandleIds : /\ h \in Nat
                           /\ h < Len(grants) => h + 1 \in 1 .. Len(grants)
  BY <1>4, Sizes DEF HandleIds
<1>10. \A i \in Giving(grants) : i - 1 \in HandleIds /\ i - 1 < Len(grants) /\ (i - 1) + 1 = i
  BY <1>4, Sizes DEF HandleIds
<1> HIDE DEF child
<1>11. \A h \in HandleIds, c \in Created :
         IsRecv(s, h, c)' <=> h + 1 \in Giving(grants) /\ GrantedChannel(grants[h + 1]) = c
  <2> SUFFICES ASSUME NEW h \in HandleIds, NEW c \in Created
               PROVE  IsRecv(s, h, c)' <=>
                        h + 1 \in Giving(grants) /\ GrantedChannel(grants[h + 1]) = c
    OBVIOUS
  <2>1. CASE h < Len(grants)
    <3>1. /\ handles'[s][h].channel = GrantedChannel(grants[h + 1])
          /\ handles'[s][h].rights = grants[h + 1].rights
      <4>1. handles'[s][h] = [channel |-> GrantedChannel(grants[h + 1]),
                              rights |-> grants[h + 1].rights]
        BY <1>6, <1>8, <2>1
      <4>2. QED
        BY <4>1
    <3>2. h + 1 \in Giving(grants) <=> "recv" \in grants[h + 1].rights
      BY <1>9, <2>1 DEF Giving
    <3>3. QED
      BY <3>1, <3>2 DEF IsRecv
  <2>2. CASE ~(h < Len(grants))
    <3>1. h + 1 \notin 1 .. Len(grants)
      BY <1>4, <1>9, <2>2
    <3>2. QED
      <4>1. handles'[s][h].channel = NoChannel
        <5>1. handles'[s][h] = EmptySlot
          BY <1>6, <1>8, <2>2
        <5>2. QED
          BY <5>1 DEF EmptySlot
      <4>2. h + 1 \notin Giving(grants)
        BY <1>4, <3>1
      <4>3. QED
        BY <1>1, <4>1, <4>2 DEF IsRecv
  <2>3. QED
    BY <2>1, <2>2
<1>12. \A h \in HandleIds, c \in Created :
         IsRecv(InitTask, h, c)' <=> IsRecv(InitTask, h, c) /\ h \notin moves
  BY <1>7 DEF IsRecv
<1>13. \A u \in Slots \ {s, InitTask}, h \in HandleIds, c \in Created :
         IsRecv(u, h, c)' <=> IsRecv(u, h, c)
  BY <1>6 DEF IsRecv
<1>14. \A h \in HandleIds, c \in Created : ~IsRecv(s, h, c)
  BY <1>1 DEF IsRecv, EmptyTable, EmptySlot
<1>15. ASSUME NEW i \in Giving(grants), NEW c \in Created, c = GrantedChannel(grants[i])
       PROVE  /\ Unique(c)'
              /\ from(c) = grants[i].handle
              /\ grants[i].handle \in moves
  <2> DEFINE k == i - 1
  <2>1. c \in Created /\ c \in Channels /\ c \in moved /\ receiver'[c] = s
    BY <1>1, <1>4, <1>5, <1>6, <1>15
  <2>2. grants[i].handle \in moves /\ handles[InitTask][grants[i].handle].channel = c
    BY <1>3, <1>15 DEF GrantedChannel
  <2>3. ASSUME NEW h \in moves, handles[InitTask][h].channel = c
        PROVE  h = grants[i].handle
    <3>1. PICK j \in Giving(grants) : h = grants[j].handle
      BY <1>3
    <3>2. GrantedChannel(grants[j]) = c
      BY <2>3, <3>1 DEF GrantedChannel
    <3>3. QED
      BY <1>4, <1>15, <3>1, <3>2
  <2>4. from(c) = grants[i].handle
    BY <2>2, <2>3 DEF from
  <2>5. k \in HandleIds
    BY <1>10
  <2>6. \A h \in HandleIds : IsRecv(s, h, c)' <=> h = k
    <3>1. \A h \in HandleIds : h + 1 \in Giving(grants) /\ GrantedChannel(grants[h + 1]) = c => h + 1 = i
      BY <1>4, <1>15
    <3>2. \A h \in HandleIds : h + 1 = i <=> h = k
      BY <1>4, <1>9
    <3>3. i = k + 1
      BY <1>4
    <3>4. QED
      BY <1>11, <1>15, <2>1, <2>5, <3>1, <3>2, <3>3
  <2>7. ASSUME NEW u \in Slots, NEW h \in HandleIds
        PROVE  IsRecv(u, h, c) <=> u = InitTask /\ h = grants[i].handle
    BY <1>4, <1>15
  <2>8. ASSUME NEW u \in Slots, NEW h \in HandleIds
        PROVE  IsRecv(u, h, c)' <=> u = s /\ h = k
    <3>1. CASE u = s
      BY <2>6, <3>1
    <3>2. CASE u = InitTask
      BY <1>12, <2>1, <2>2, <2>7, <3>2
    <3>3. CASE u \in Slots \ {s, InitTask}
      BY <1>13, <2>1, <2>7, <3>3
    <3>4. QED
      BY <3>1, <3>2, <3>3
  <2> HIDE DEF k
  <2>9. receiver'[c] \in Slots /\ \A u \in Slots, h \in HandleIds :
          IsRecv(u, h, c)' <=> u = receiver'[c] /\ h = k
    BY <2>1, <2>8
  <2>10. Unique(c)'
    <3>1. (\A u \in Slots, h \in HandleIds :
             IsRecv(u, h, c) <=> u = receiver[c] /\ h = k)'
      BY <2>9 DEF k
    <3>2. QED
      BY <2>5, <2>9, <3>1 DEF Unique
  <2>11. QED
    BY <2>2, <2>4, <2>10
<1>16. ASSUME NEW c \in Created, c \notin moved PROVE Unique(c)' /\ receiver'[c] = receiver[c]
  <2>1. receiver'[c] = receiver[c]
    BY <1>1, <1>6, <1>16
  <2>2. \A h \in HandleIds : ~IsRecv(s, h, c)'
    BY <1>5, <1>11, <1>16
  <2>3. \A h \in HandleIds : IsRecv(InitTask, h, c) => h \notin moves
    BY <1>16 DEF IsRecv, moved
  <2>4. \A u \in Slots, h \in HandleIds : IsRecv(u, h, c)' <=> IsRecv(u, h, c)
    BY <1>12, <1>13, <1>14, <2>2, <2>3, Sizes
  <2>5. Unique(c)
    BY <1>1
  <2>6. QED
    BY <2>1, <2>4, <2>5 DEF Unique
<1>17. ASSUME NEW c \in Created PROVE Unique(c)'
  <2>1. CASE c \in moved
    <3>1. PICK i \in Giving(grants) : c = GrantedChannel(grants[i])
      BY <1>5, <2>1
    <3>2. QED
      BY <1>15, <3>1
  <2>2. CASE c \notin moved
    BY <1>16, <2>2
  <2>3. QED
    BY <2>1, <2>2
<1>18. receiver'[INIT_INBOX] = InitTask
  BY <1>1, <1>4, <1>5, <1>6, CreatedFacts
<1>19. HomeStaysOpen'
  <2> SUFFICES ASSUME NEW c \in (BootChannels .. nextId - 1)', receiver'[c] # InitTask
               PROVE  /\ home'[c][1] = InitTask
                      /\ handles'[InitTask][home'[c][2]].channel = c
                      /\ ~Holds(InitTask, home[c][2], "recv")'
    BY DEF HomeStaysOpen
  <2>1. c \in BootChannels .. nextId - 1 /\ c \in Created /\ c \in Channels
    BY <1>1, <1>2, CreatedFacts
  <2>2. CASE c \in moved
    <3>1. PICK i \in Giving(grants) : c = GrantedChannel(grants[i])
      BY <1>5, <2>2
    <3>2. home'[c] = <<InitTask, grants[i].handle>>
      BY <1>6, <1>15, <2>1, <2>2, <3>1
    <3>3. grants[i].handle \in moves /\ grants[i].handle \in HandleIds
      BY <1>4, <1>15
    <3>4. handles[InitTask][grants[i].handle].channel = c
      BY <3>1 DEF GrantedChannel
    <3>5. "recv" \notin handles'[InitTask][grants[i].handle].rights
      BY <1>7, <3>3
    <3>6. QED
      <4>1. home'[c][1] = InitTask /\ home'[c][2] = grants[i].handle
        BY <3>2
      <4>2. handles'[InitTask][grants[i].handle].channel = c
        BY <1>7, <3>3, <3>4
      <4>3. QED
        BY <3>5, <4>1, <4>2 DEF Holds
  <2>3. CASE c \notin moved
    <3>1. receiver'[c] = receiver[c] /\ home'[c] = home[c]
      BY <1>6, <2>1, <2>3
    <3>2. /\ home[c][1] = InitTask /\ handles[InitTask][home[c][2]].channel = c
          /\ ~Holds(InitTask, home[c][2], "recv")
      BY <1>1, <2>1, <3>1 DEF HomeStaysOpen
    <3>3. home[c][2] \in HandleIds
      BY <1>1, <2>1, TableFacts
    <3>4. "recv" \notin handles[InitTask][home[c][2]].rights
      BY <1>1, <2>1, <3>2 DEF Holds
    <3>5. /\ handles'[InitTask][home[c][2]].channel = c
          /\ "recv" \notin handles'[InitTask][home[c][2]].rights
      BY <1>7, <3>2, <3>3, <3>4
    <3>6. QED
      BY <3>1, <3>2, <3>5 DEF Holds
  <2>4. QED
    BY <2>2, <2>3
<1>20. \A u \in Slots, h \in HandleIds :
         /\ handles'[u][h] \in HandleSlots \cup {EmptySlot}
         /\ handles'[u][h].channel \in Created' \cup {NoChannel}
  <2> SUFFICES ASSUME NEW u \in Slots, NEW h \in HandleIds
               PROVE  /\ handles'[u][h] \in HandleSlots \cup {EmptySlot}
                      /\ handles'[u][h].channel \in Created \cup {NoChannel}
    BY <1>2
  <2>1. CASE u = s
    <3>1. CASE h < Len(grants)
      <4>1. /\ GrantedChannel(grants[h + 1]) \in Created
            /\ grants[h + 1].rights \in SUBSET {"send", "recv"}
        BY <1>4, <1>9, <3>1
      <4>2. handles'[u][h] = [channel |-> GrantedChannel(grants[h + 1]),
                              rights |-> grants[h + 1].rights]
        BY <1>6, <1>8, <2>1, <3>1
      <4>3. QED
        BY <1>1, <4>1, <4>2 DEF HandleSlots
    <3>2. CASE ~(h < Len(grants))
      <4>1. handles'[u][h] = EmptySlot
        BY <1>6, <1>8, <2>1, <3>2
      <4>2. QED
        BY <4>1 DEF EmptySlot
    <3>3. QED
      BY <3>1, <3>2
  <2>2. CASE u = InitTask
    <3>1. /\ handles[InitTask][h] \in HandleSlots \cup {EmptySlot}
          /\ handles[InitTask][h].channel \in Created \cup {NoChannel}
      BY <1>1, TableFacts, Sizes DEF RightsInv
    <3>2. CASE handles[InitTask][h] \in HandleSlots
      <4>1. /\ handles[InitTask][h].channel \in Channels
            /\ handles[InitTask][h].rights \in SUBSET {"send", "recv"}
        BY <3>2 DEF HandleSlots
      <4>2. [channel |-> handles[InitTask][h].channel,
             rights |-> IF h \in moves THEN handles[InitTask][h].rights \ {"recv"}
                        ELSE handles[InitTask][h].rights] \in HandleSlots
        BY <4>1 DEF HandleSlots
      <4>3. QED
        BY <1>6, <1>7, <2>2, <3>1, <4>2
    <3>3. CASE handles[InitTask][h] = EmptySlot
      <4>1. {} \ {"recv"} = {}
        OBVIOUS
      <4>2. handles'[InitTask][h] = EmptySlot
        BY <1>6, <3>3, <4>1 DEF EmptySlot
      <4>3. QED
        BY <2>2, <3>1, <3>3, <4>2
    <3>4. QED
      BY <3>1, <3>2, <3>3
  <2>3. CASE u # s /\ u # InitTask
    BY <1>1, <1>6, <2>3, TableFacts DEF RightsInv
  <2>4. QED
    BY <2>1, <2>2, <2>3
<1>21. RightsTypes'
  <2>1. handles' \in [Slots -> HandleTables]
    <3>1. child \in HandleTables
      <4>1. \A h \in HandleIds : child[h] \in HandleSlots \cup {EmptySlot}
        BY <1>6, <1>20
      <4>2. QED
        BY <4>1 DEF child, ChildTable, HandleTables
    <3>2. DEFINE init == [h \in HandleIds |->
           [channel |-> handles[InitTask][h].channel,
            rights |-> IF h \in moves THEN handles[InitTask][h].rights \ {"recv"}
                       ELSE handles[InitTask][h].rights]]
    <3>3. init \in HandleTables
      <4>1. \A h \in HandleIds : init[h] \in HandleSlots \cup {EmptySlot}
        BY <1>6, <1>20, Sizes
      <4>2. QED
        BY <4>1 DEF HandleTables
    <3>4. handles' = [handles EXCEPT ![s] = child, ![InitTask] = init]
      BY <1>1, Sizes DEF Bind, RightsTypes, child, moves
    <3> HIDE DEF init
    <3>5. QED
      BY <1>1, <3>1, <3>3, <3>4, Sizes DEF RightsTypes
  <2>2. receiver' \in [Channels -> Slots \cup {NONE}]
    BY <1>1 DEF Bind, RightsTypes
  <2>3. home' \in [Channels -> Homes]
    <3>1. \A c \in moved : <<InitTask, from(c)>> \in Homes
      BY <1>4, <1>5, <1>15, Sizes DEF Homes
    <3>2. home' = [c \in Channels |-> IF c \in moved THEN <<InitTask, from(c)>> ELSE home[c]]
      BY DEF Bind, moved, from, moves
    <3>3. QED
      BY <1>1, <3>1, <3>2 DEF RightsTypes
  <2>4. QED
    BY <1>1, <1>2, <2>1, <2>2, <2>3 DEF RightsTypes
<1>22. \A c \in Created :
         \/ receiver'[c] = receiver[c]
         \/ receiver[c] = InitTask /\ receiver'[c] = s
  BY <1>1, <1>4, <1>5, <1>6
<1>23. QED
  BY <1>2, <1>6, <1>17, <1>18, <1>19, <1>20, <1>21, <1>22 DEF RightsInv

-----------------------------------------------------------------------------
(* A switch changes nobody's state but between Ready and Running.          *)
SameButTurn(st, next) ==
  \A t \in Slots : \A s \in {"Free", "Reserved", "Blocked"} :
    next[t] = s <=> st[t] = s

(* A wake-up claims and frees no slot.                                     *)
SameSlots(st, next) ==
  \A t \in Slots : \A s \in {"Free", "Reserved"} : next[t] = s <=> st[t] = s

Awake(st) == st[IdleTask] \in {"Ready", "Running"}

(* Every choice of pick_next keeps the idle task awake and everybody else  *)
(* asleep, free or reserved as before.                                     *)
LEMMA SwitchFacts ==
  ASSUME NEW st \in [Slots -> States], Awake(st), current \in Slots,
         NEW d, NEW tg, SwitchAway(st, d, tg)
  PROVE  /\ state' \in [Slots -> States] /\ Awake(state')
         /\ SameButTurn(st, state')
         /\ current' \in Slots /\ donor' = NONE /\ target' = NONE
<1>1. PICK next \in Slots : /\ Successor(Demote(st), d, tg, next)
                            /\ Run(Demote(st), next)
  BY DEF SwitchAway
<1>2. /\ Demote(st) \in [Slots -> States]
      /\ \A t \in Slots : Demote(st)[t] =
           IF t = current /\ st[t] = "Running" THEN "Ready" ELSE st[t]
  BY DEF Demote, States
<1>3. Demote(st)[next] = "Ready" \/ next = IdleTask
  BY <1>1 DEF Successor, SenderReturns, NextInTurn
<1> HIDE DEF Demote
<1>4. /\ state' = [Demote(st) EXCEPT ![next] = "Running"]
      /\ current' = next
  BY <1>1 DEF Run
<1>5. \A t \in Slots : state'[t] = IF t = next THEN "Running" ELSE Demote(st)[t]
  BY <1>2, <1>4
<1>6. state' \in [Slots -> States]
  BY <1>2, <1>4 DEF States
<1>7. SameButTurn(st, state') /\ Awake(state')
  BY <1>2, <1>3, <1>5, Sizes DEF SameButTurn, Awake
<1>8. QED
  BY <1>4, <1>6, <1>7 DEF SwitchAway, ForgetHandOff

(* So does a hand-off to the task that was just woken.                     *)
LEMMA HandOffFacts ==
  ASSUME NEW st \in [Slots -> States], Awake(st), current \in Slots,
         NEW t, HandOff(st, t)
  PROVE  /\ state' \in [Slots -> States] /\ Awake(state')
         /\ SameButTurn(st, state')
         /\ current' \in Slots
         /\ donor' \in Slots \cup {NONE} /\ target' \in Slots \cup {NONE}
<1>1. CASE t \notin Slots \/ st[t] # "Ready"
  BY <1>1, SwitchFacts DEF HandOff
<1>2. CASE t \in Slots /\ st[t] = "Ready"
  <2>1. /\ donor' = current /\ target' = t /\ current' = t
        /\ state' = [Demote(st) EXCEPT ![t] = "Running"]
    BY <1>2 DEF HandOff, Run
  <2>2. /\ Demote(st) \in [Slots -> States]
        /\ \A u \in Slots : Demote(st)[u] =
             IF u = current /\ st[u] = "Running" THEN "Ready" ELSE st[u]
    BY DEF Demote, States
  <2> HIDE DEF Demote
  <2>3. \A u \in Slots : state'[u] = IF u = t THEN "Running" ELSE Demote(st)[u]
    BY <2>1, <2>2
  <2>4. state' \in [Slots -> States]
    BY <1>2, <2>1, <2>2 DEF States
  <2>5. SameButTurn(st, state') /\ Awake(state')
    BY <1>2, <2>2, <2>3, Sizes DEF SameButTurn, Awake
  <2>6. QED
    BY <1>2, <2>1, <2>4, <2>5
<1>3. QED
  BY <1>1, <1>2

-----------------------------------------------------------------------------
(* Sleep: NoLostWakeup, for the values a handler has reached so far, and   *)
(* who may sleep on which channel.                                         *)
Asleep(st, w, u, q, p) ==
  /\ \A t \in Slots : st[t] = "Blocked" <=> \E c \in Channels : w[c] = t
  /\ \A c \in Channels : w[c] # NONE =>
       /\ q[c] = <<>>
       /\ \A d \in Channels \ {c} : w[d] # w[c]
       /\ p[w[c]] = "elf" => u[w[c]].channel = c
  /\ \A t \in Slots : u[t] # NoWait <=> st[t] = "Blocked" /\ p[t] = "elf"

Owned(w, p) ==
  \A c \in Channels : w[c] # NONE =>
    IF p[w[c]] = "elf" THEN c \in Created /\ w[c] = receiver[c]
    ELSE c = SHELL_KEYS /\ p[w[c]] = "shell"

(* The messages of new that are notices come from different ones of old.   *)
Keeps(new, old) ==
  \E f \in [1 .. Len(new) -> Int] : \A i \in 1 .. Len(new) : new[i] \in TaskRefs =>
    /\ f[i] \in 1 .. Len(old) /\ new[i] = old[f[i]]
    /\ \A j \in 1 .. Len(new) : new[j] \in TaskRefs /\ f[i] = f[j] => i = j

(* The inbox, with what a step of Arrive, Notify and Take does to it.      *)
LEMMA InboxIs ==
  ASSUME NEW q \in Seq(Messages), NEW b \in Seq(TaskRefs)
  PROVE  /\ Len(q) \in Nat /\ Len(b) \in Nat
         /\ Len(q \o b) = Len(q) + Len(b)
         /\ \A i \in 1 .. Len(q) + Len(b) :
              (q \o b)[i] = IF i <= Len(q) THEN q[i] ELSE b[i - Len(q)]
  OBVIOUS

(* An inbox keeps the notices it has.                                      *)
LEMMA KeepsSame == ASSUME NEW s, Len(s) \in Nat PROVE Keeps(s, s)
<1> DEFINE f == [i \in 1 .. Len(s) |-> i]
<1>1. f \in [1 .. Len(s) -> Int] /\ \A i \in 1 .. Len(s) : f[i] = i
  OBVIOUS
<1> HIDE DEF f
<1>2. QED
  BY <1>1 DEF Keeps

(* A message that is no notice leaves the notices in order.                *)
LEMMA KeepsInserted ==
  ASSUME NEW q \in Seq(Messages), NEW b \in Seq(TaskRefs), NEW m, m \notin TaskRefs
  PROVE  Keeps(Append(q, m) \o b, q \o b)
<1> DEFINE n == Len(q)
           new == Append(q, m) \o b
           old == q \o b
           f == [i \in 1 .. n + 1 + Len(b) |-> IF i <= n THEN i ELSE i - 1]
<1>1. n \in Nat /\ Len(b) \in Nat
  OBVIOUS
<1>2. Len(new) = n + 1 + Len(b) /\ Len(old) = n + Len(b)
  OBVIOUS
<1>3. \A i \in 1 .. n + Len(b) : old[i] = IF i <= n THEN q[i] ELSE b[i - n]
  OBVIOUS
<1>4. \A i \in 1 .. n + 1 + Len(b) :
        new[i] = IF i <= n THEN q[i] ELSE IF i = n + 1 THEN m ELSE b[i - (n + 1)]
  OBVIOUS
<1>5. /\ f \in [1 .. n + 1 + Len(b) -> Int]
      /\ \A i \in 1 .. n + 1 + Len(b) : f[i] = IF i <= n THEN i ELSE i - 1
  BY <1>1
<1> HIDE DEF n, new, old, f
<1>6. ASSUME NEW i \in 1 .. Len(new), new[i] \in TaskRefs
      PROVE  /\ f[i] \in 1 .. Len(old) /\ new[i] = old[f[i]]
             /\ \A j \in 1 .. Len(new) : new[j] \in TaskRefs /\ f[i] = f[j] => i = j
  <2>1. /\ i \in Int /\ 1 <= i /\ i <= n + 1 + Len(b) /\ i # n + 1
    BY <1>1, <1>2, <1>4, <1>6
  <2>2. CASE i <= n
    <3>1. f[i] = i /\ i \in 1 .. Len(old) /\ new[i] = q[i] /\ old[i] = q[i]
      BY <1>1, <1>2, <1>3, <1>4, <1>5, <2>1, <2>2
    <3>2. \A j \in 1 .. Len(new) : new[j] \in TaskRefs /\ f[j] = i => j = i
      BY <1>1, <1>2, <1>4, <1>5, <2>1, <2>2
    <3>3. QED
      BY <3>1, <3>2
  <2>3. CASE ~(i <= n)
    <3>1. /\ f[i] = i - 1 /\ i - 1 \in 1 .. Len(old) /\ ~(i - 1 <= n)
          /\ i - (n + 1) = (i - 1) - n
      BY <1>1, <1>2, <1>5, <2>1, <2>3
    <3>2. new[i] = b[i - (n + 1)] /\ old[i - 1] = b[(i - 1) - n]
      BY <1>1, <1>2, <1>3, <1>4, <2>1, <2>3, <3>1
    <3>3. \A j \in 1 .. Len(new) : new[j] \in TaskRefs /\ f[j] = i - 1 => j = i
      BY <1>1, <1>2, <1>4, <1>5, <2>1, <2>3
    <3>4. QED
      BY <3>1, <3>2, <3>3
  <2>4. QED
    BY <2>2, <2>3
<1>7. f \in [1 .. Len(new) -> Int]
  BY <1>2, <1>5
<1>8. Keeps(new, old)
  BY <1>6, <1>7 DEF Keeps
<1>9. QED
  BY <1>8 DEF new, old

(* A notice taken from the front leaves the rest, one place up.            *)
LEMMA KeepsTail ==
  ASSUME NEW new, NEW old, Len(new) \in Nat, Len(old) = Len(new) + 1,
         \A i \in 1 .. Len(new) : new[i] = old[i + 1]
  PROVE  Keeps(new, old)
<1> DEFINE f == [i \in 1 .. Len(new) |-> i + 1]
<1>1. f \in [1 .. Len(new) -> Int] /\ \A i \in 1 .. Len(new) : f[i] = i + 1
  OBVIOUS
<1> HIDE DEF f
<1>2. \A i \in 1 .. Len(new) : /\ f[i] \in 1 .. Len(old) /\ new[i] = old[f[i]]
                              /\ \A j \in 1 .. Len(new) : f[i] = f[j] => i = j
  BY <1>1
<1>3. QED
  BY <1>1, <1>2 DEF Keeps

(* s without the first of its elements.                                    *)
OneLess(s, old) ==
  /\ Len(s) \in Nat /\ Len(old) = Len(s) + 1
  /\ \A i \in 1 .. Len(s) : s[i] = old[i + 1]

Queues(q) ==
  q \in [Channels -> Seq(Messages)] /\ \A c \in Channels : Len(q[c]) <= ChannelCap

WaiterTables == [Channels -> Slots \cup {NONE}]
WaitTables == [Slots -> UserWaits \cup {NoWait}]

(* A message goes to the task asleep there, or to the end of the queue.    *)
Delivered(c, m) == queue' = queue \/ queue' = [queue EXCEPT ![c] = Append(@, m)]

(* A message that arrives wakes the task asleep on its channel and no      *)
(* other: what is left of the sleepers still sleeps on empty channels.     *)
LEMMA ArriveFacts ==
  ASSUME NEW st \in [Slots -> States], Awake(st), NEW p,
         NEW w \in WaiterTables, NEW u \in WaitTables, Asleep(st, w, u, queue, p),
         Queues(queue), result \in [Slots -> Results],
         NEW c \in Channels, NEW m \in Messages, Len(queue[c]) < ChannelCap,
         Arrive(c, m, w, u)
  PROVE  /\ Woken(c, w, u, st) \in [Slots -> States] /\ Awake(Woken(c, w, u, st))
         /\ SameSlots(st, Woken(c, w, u, st))
         /\ waiter' = [w EXCEPT ![c] = NONE] /\ waiter' \in WaiterTables
         /\ wait' \in WaitTables /\ Queues(queue') /\ result' \in [Slots -> Results]
         /\ Asleep(Woken(c, w, u, st), waiter', wait', queue', p)
         /\ Delivered(c, m)
<1> DEFINE st2 == Woken(c, w, u, st)
<1>1. waiter' = [w EXCEPT ![c] = NONE] /\ waiter' \in WaiterTables
      /\ \A d \in Channels : waiter'[d] = IF d = c THEN NONE ELSE w[d]
  BY DEF Arrive, WaiterTables
<1>2. ASSUME w[c] # NONE
      PROVE  /\ w[c] \in Slots /\ st[w[c]] = "Blocked" /\ w[c] # IdleTask
             /\ queue[c] = <<>> /\ \A d \in Channels \ {c} : w[d] # w[c]
             /\ p[w[c]] = "elf" <=> u[w[c]] # NoWait
             /\ st2 = [st EXCEPT ![w[c]] = "Ready"]
  <2>1. w[c] \in Slots
    BY <1>2 DEF WaiterTables
  <2>2. st[w[c]] = "Blocked" /\ w[c] # IdleTask
    BY <2>1 DEF Asleep, Awake
  <2>3. QED
    BY <1>2, <2>1, <2>2 DEF Asleep, Woken
<1>3. ASSUME w[c] = NONE PROVE st2 = st /\ ~HasUserWait(c, w, u)
  BY <1>3, Sizes DEF Woken, HasUserWait
<1>4. /\ st2 \in [Slots -> States]
      /\ \A t \in Slots : st2[t] = IF w[c] # NONE /\ t = w[c] THEN "Ready" ELSE st[t]
  BY <1>2, <1>3 DEF States
<1>5. Awake(st2) /\ SameSlots(st, st2)
  BY <1>2, <1>4, Sizes DEF Awake, SameSlots
<1>6. /\ Append(queue[c], m) \in Seq(Messages) /\ Len(Append(queue[c], m)) <= ChannelCap
  <2>1. queue[c] \in Seq(Messages) /\ Len(queue[c]) \in Nat
    BY DEF Queues
  <2>2. Append(queue[c], m) \in Seq(Messages) /\ Len(Append(queue[c], m)) = Len(queue[c]) + 1
    BY <2>1
  <2>3. QED
    BY <2>1, <2>2, Sizes
<1>7. CASE HasUserWait(c, w, u)
  <2>1. w[c] \in Slots /\ w[c] # NONE /\ u[w[c]] # NoWait /\ p[w[c]] = "elf"
    BY <1>2, <1>7, Sizes DEF HasUserWait
  <2>2. /\ queue' = [queue EXCEPT ![c] = Tail(Append(@, m))]
        /\ wait' = [u EXCEPT ![w[c]] = NoWait]
        /\ result' = [result EXCEPT ![w[c]] = Head(Append(queue[c], m))]
    BY <1>7 DEF Arrive
  <2>3. queue[c] = <<>> /\ Tail(Append(queue[c], m)) = <<>> /\ Head(Append(queue[c], m)) = m
    BY <1>2, <2>1
  <2>4. queue' = queue
    BY <2>2, <2>3 DEF Queues
  <2>5. /\ wait' \in WaitTables
        /\ \A t \in Slots : wait'[t] = IF t = w[c] THEN NoWait ELSE u[t]
    BY <2>1, <2>2 DEF WaitTables
  <2>6. result' \in [Slots -> Results]
    BY <2>1, <2>2, <2>3 DEF Results
  <2>7. Asleep(st2, waiter', wait', queue', p)
    <3> HIDE DEF st2
    <3>1. \A t \in Slots : st2[t] = "Blocked" <=> \E d \in Channels : waiter'[d] = t
      BY <1>1, <1>2, <1>4, <2>1, Sizes DEF Asleep
    <3>2. \A d \in Channels : waiter'[d] # NONE =>
            /\ queue'[d] = <<>>
            /\ \A e \in Channels \ {d} : waiter'[e] # waiter'[d]
            /\ p[waiter'[d]] = "elf" => wait'[waiter'[d]].channel = d
      <4> SUFFICES ASSUME NEW d \in Channels, waiter'[d] # NONE
                   PROVE  /\ queue'[d] = <<>>
                          /\ \A e \in Channels \ {d} : waiter'[e] # waiter'[d]
                          /\ p[waiter'[d]] = "elf" => wait'[waiter'[d]].channel = d
        OBVIOUS
      <4>1. d # c /\ waiter'[d] = w[d] /\ w[d] # w[c] /\ w[d] \in Slots
        BY <1>1, <1>2, <2>1 DEF WaiterTables
      <4>2. \A e \in Channels \ {d} : waiter'[e] # waiter'[d]
        BY <1>1, <4>1, Sizes DEF Asleep
      <4>3. wait'[w[d]] = u[w[d]]
        BY <2>5, <4>1
      <4>4. QED
        BY <2>4, <4>1, <4>2, <4>3 DEF Asleep
    <3>3. \A t \in Slots : wait'[t] # NoWait <=> st2[t] = "Blocked" /\ p[t] = "elf"
      BY <1>4, <2>1, <2>5 DEF Asleep
    <3>4. QED
      BY <3>1, <3>2, <3>3 DEF Asleep
  <2>8. QED
    BY <1>1, <1>4, <1>5, <2>4, <2>5, <2>6, <2>7 DEF Delivered
<1>8. CASE ~HasUserWait(c, w, u)
  <2>1. /\ queue' = [queue EXCEPT ![c] = Append(@, m)]
        /\ wait' = u /\ result' = result
    BY <1>8 DEF Arrive
  <2>2. w[c] # NONE => u[w[c]] = NoWait /\ p[w[c]] # "elf"
    BY <1>2, <1>8 DEF HasUserWait
  <2>3. Queues(queue') /\ \A d \in Channels : d # c => queue'[d] = queue[d]
    BY <1>6, <2>1 DEF Queues
  <2>4. Asleep(st2, waiter', wait', queue', p)
    <3> HIDE DEF st2
    <3>1. \A t \in Slots : st2[t] = "Blocked" <=> \E d \in Channels : waiter'[d] = t
      BY <1>1, <1>2, <1>4, Sizes DEF Asleep
    <3>2. ASSUME NEW d \in Channels, waiter'[d] # NONE
          PROVE  /\ queue'[d] = <<>>
                 /\ \A e \in Channels \ {d} : waiter'[e] # waiter'[d]
                 /\ p[waiter'[d]] = "elf" => wait'[waiter'[d]].channel = d
      <4>1. d # c /\ waiter'[d] = w[d] /\ w[d] \in Slots
        BY <1>1, <3>2 DEF WaiterTables
      <4>2. \A e \in Channels \ {d} : waiter'[e] # waiter'[d]
        BY <1>1, <3>2, <4>1, Sizes DEF Asleep
      <4>3. QED
        BY <2>1, <2>3, <3>2, <4>1, <4>2 DEF Asleep
    <3>3. \A t \in Slots : wait'[t] # NoWait <=> st2[t] = "Blocked" /\ p[t] = "elf"
      BY <1>2, <1>4, <2>1, <2>2 DEF Asleep
    <3>4. QED
      BY <3>1, <3>2, <3>3 DEF Asleep
  <2>5. QED
    BY <1>1, <1>4, <1>5, <2>1, <2>3, <2>4 DEF Delivered
<1>9. QED
  BY <1>7, <1>8

(* The inbox with its backlog is a sequence, as long as both together.     *)
LEMMA InboxTypes ==
  ASSUME Queues(queue), backlog \in Seq(TaskRefs)
  PROVE  /\ queue[INIT_INBOX] \in Seq(Messages)
         /\ Len(Inbox) \in Nat
         /\ Len(Inbox) = Len(queue[INIT_INBOX]) + Len(backlog)
<1>1. queue[INIT_INBOX] \in Seq(Messages)
  BY Sizes DEF Queues
<1>2. Len(queue[INIT_INBOX] \o backlog) = Len(queue[INIT_INBOX]) + Len(backlog)
  BY <1>1, InboxIs
<1>3. Len(queue[INIT_INBOX]) \in Nat /\ Len(backlog) \in Nat
  BY <1>1, InboxIs
<1>4. QED
  BY <1>1, <1>2, <1>3 DEF Inbox

(* try_recv takes one message and refills from the backlog: the inbox      *)
(* loses its first message and keeps the rest in order.                    *)
LEMMA TakeFacts ==
  ASSUME Queues(queue), backlog \in Seq(TaskRefs), Len(backlog) <= BacklogCap,
         NEW c \in Channels, queue[c] # <<>>, Take(c)
  PROVE  /\ Queues(queue') /\ backlog' \in Seq(TaskRefs) /\ Len(backlog') <= BacklogCap
         /\ \A d \in Channels : d # c => queue'[d] = queue[d]
         /\ Keeps(Inbox', Inbox)
         /\ c # INIT_INBOX => Inbox' = Inbox /\ backlog' = backlog
         /\ c = INIT_INBOX => OneLess(Inbox', Inbox)
         /\ c = INIT_INBOX => backlog' = <<>> \/ Len(queue'[c]) = ChannelCap
<1> DEFINE q == queue[c]
           r == Room(Tail(q))
<1>1. /\ q \in Seq(Messages) /\ Len(q) \in Nat /\ Len(q) <= ChannelCap /\ q # <<>>
      /\ Tail(q) \in Seq(Messages) /\ Len(Tail(q)) \in Nat /\ Len(Tail(q)) < ChannelCap
  BY Sizes DEF Queues
<1>2. CASE c # INIT_INBOX
  <2>1. queue' = [queue EXCEPT ![c] = Tail(q)] /\ backlog' = backlog
    BY <1>2 DEF Take
  <2> HIDE DEF q
  <2>2. Queues(queue') /\ \A d \in Channels : d # c => queue'[d] = queue[d]
    BY <1>1, <2>1, Sizes DEF Queues
  <2>3. Inbox' = Inbox
    BY <1>2, <2>1, <2>2, Sizes DEF Inbox
  <2>4. Len(Inbox) \in Nat
    BY InboxTypes
  <2>5. QED
    BY <1>2, <2>1, <2>2, <2>3, <2>4, KeepsSame
<1>3. CASE c = INIT_INBOX
  <2>1. /\ queue' = [queue EXCEPT ![c] = Tail(q) \o SubSeq(backlog, 1, r)]
        /\ backlog' = SubSeq(backlog, r + 1, Len(backlog))
    BY <1>3 DEF Take
  <2> HIDE DEF q
  <2>0. Len(backlog) \in Nat
    OBVIOUS
  <2>2. r \in Nat /\ r <= Len(backlog) /\ r <= ChannelCap - Len(Tail(q))
    BY <1>1, <2>0, Sizes DEF Room
  <2> HIDE DEF r
  <2>3. \A i \in 1 .. Len(backlog) : backlog[i] \in TaskRefs
    OBVIOUS
  <2>4. /\ SubSeq(backlog, 1, r) \in Seq(TaskRefs) /\ Len(SubSeq(backlog, 1, r)) = r
    BY <2>0, <2>2, <2>3, SubSeqProperties
  <2>5. SubSeq(backlog, 1, r) \in Seq(Messages)
    BY <2>4, SeqMonotonic DEF Messages
  <2>6. /\ Tail(q) \o SubSeq(backlog, 1, r) \in Seq(Messages)
        /\ Len(Tail(q) \o SubSeq(backlog, 1, r)) <= ChannelCap
    BY <1>1, <2>2, <2>4, <2>5, Sizes
  <2>7. /\ backlog' \in Seq(TaskRefs) /\ Len(backlog') = Len(backlog) - r
    BY <2>1, <2>0, <2>2, <2>3, SubSeqProperties
  <2>8. Len(backlog') <= BacklogCap
    BY <2>0, <2>2, <2>7, Sizes
  <2>9. /\ Queues(queue') /\ queue'[c] = Tail(q) \o SubSeq(backlog, 1, r)
        /\ \A d \in Channels : d # c => queue'[d] = queue[d]
    BY <2>1, <2>6 DEF Queues
  <2>10. Keeps(Inbox', Inbox) /\ OneLess(Inbox', Inbox)
    <3>1. Inbox = q \o backlog /\ Inbox' = queue'[c] \o backlog'
      BY <1>3 DEF Inbox, q
    <3>2. /\ \A i \in 1 .. r : SubSeq(backlog, 1, r)[i] = backlog[i]
          /\ \A i \in 1 .. Len(backlog) - r : backlog'[i] = backlog[r + i]
      <4>1. \A i \in 1 .. r : SubSeq(backlog, 1, r)[i] = backlog[1 + i - 1]
        BY <2>0, <2>2, <2>3, SubSeqProperties
      <4>2. \A i \in 1 .. Len(backlog) - (r + 1) + 1 : backlog'[i] = backlog[(r + 1) + i - 1]
        BY <2>0, <2>1, <2>2, <2>3, SubSeqProperties
      <4>3. QED
        BY <2>0, <2>2, <4>1, <4>2
    <3>3. /\ Len(Tail(q)) = Len(q) - 1
          /\ \A i \in 1 .. Len(q) - 1 : Tail(q)[i] = q[i + 1]
      BY <1>1
    <3>4. /\ Len(queue'[c]) = Len(q) - 1 + r
          /\ \A i \in 1 .. Len(q) - 1 + r :
               queue'[c][i] = IF i <= Len(q) - 1 THEN q[i + 1] ELSE backlog[i - (Len(q) - 1)]
      <4>1. Len(queue'[c]) = Len(q) - 1 + r
        BY <1>1, <2>4, <2>5, <2>9, <3>3
      <4>2. \A i \in 1 .. Len(q) - 1 + r : queue'[c][i] =
              IF i <= Len(q) - 1 THEN Tail(q)[i] ELSE SubSeq(backlog, 1, r)[i - (Len(q) - 1)]
        BY <1>1, <2>4, <2>5, <2>9, <3>3
      <4>3. QED
        BY <1>1, <2>2, <3>2, <3>3, <4>1, <4>2
    <3>5. /\ Len(Inbox) = Len(q) + Len(backlog)
          /\ \A i \in 1 .. Len(q) + Len(backlog) :
               Inbox[i] = IF i <= Len(q) THEN q[i] ELSE backlog[i - Len(q)]
      BY <1>1, <3>1, InboxIs
    <3>6. /\ Len(Inbox') = Len(queue'[c]) + Len(backlog')
          /\ \A i \in 1 .. Len(queue'[c]) + Len(backlog') :
               Inbox'[i] = IF i <= Len(queue'[c]) THEN queue'[c][i]
                           ELSE backlog'[i - Len(queue'[c])]
      <4>1. queue'[c] \in Seq(Messages)
        BY <2>6, <2>9
      <4>2. QED
        BY <2>7, <3>1, <4>1, InboxIs
    <3>7. Len(Inbox') \in Nat /\ Len(Inbox) = Len(Inbox') + 1
      BY <1>1, <2>0, <2>2, <2>7, <3>4, <3>5, <3>6
    <3>8. ASSUME NEW i \in 1 .. Len(Inbox') PROVE Inbox'[i] = Inbox[i + 1]
      <4> DEFINE n == Len(q) - 1
      <4>1. n \in Nat /\ Len(q) = n + 1 /\ i \in Nat /\ i >= 1
        BY <1>1, <3>7
      <4> HIDE DEF n
      <4>2. /\ i <= n + Len(backlog)
            /\ Len(queue'[c]) = n + r /\ Len(backlog') = Len(backlog) - r
            /\ i \in 1 .. Len(queue'[c]) + Len(backlog')
            /\ i + 1 \in 1 .. Len(q) + Len(backlog)
        BY <1>1, <2>0, <2>2, <2>7, <3>4, <3>5, <3>6, <4>1
      <4>3. CASE i <= n
        <5>1. Inbox[i + 1] = q[i + 1]
          BY <3>5, <4>1, <4>2, <4>3
        <5>2. i \in 1 .. Len(q) - 1 + r /\ i <= Len(queue'[c]) /\ i <= Len(q) - 1
          BY <2>2, <4>1, <4>2, <4>3
        <5>3. QED
          BY <3>4, <3>6, <4>2, <5>1, <5>2
      <4>4. CASE ~(i <= n) /\ i <= n + r
        <5>1. Inbox[i + 1] = backlog[(i + 1) - (n + 1)]
          BY <3>5, <4>1, <4>2, <4>4
        <5>2. /\ i \in 1 .. Len(q) - 1 + r /\ i <= Len(queue'[c]) /\ ~(i <= Len(q) - 1)
              /\ (i + 1) - (n + 1) = i - (Len(q) - 1)
          BY <2>2, <4>1, <4>2, <4>4
        <5>3. QED
          BY <3>4, <3>6, <4>2, <5>1, <5>2
      <4>5. CASE ~(i <= n + r)
        <5>1. Inbox[i + 1] = backlog[(i + 1) - (n + 1)]
          BY <2>2, <3>5, <4>1, <4>2, <4>5
        <5>2. /\ ~(i <= Len(queue'[c])) /\ i - (n + r) \in 1 .. Len(backlog) - r
              /\ r + (i - (n + r)) = (i + 1) - (n + 1)
          BY <2>0, <2>2, <4>1, <4>2, <4>5
        <5>3. Inbox'[i] = backlog'[i - (n + r)]
          BY <3>6, <4>2, <5>2
        <5>4. backlog'[i - (n + r)] = backlog[r + (i - (n + r))]
          BY <3>2, <5>2
        <5>5. QED
          BY <5>1, <5>2, <5>3, <5>4
      <4>6. QED
        BY <4>3, <4>4, <4>5
    <3>9. QED
      BY <3>7, <3>8, KeepsTail DEF OneLess
  <2>11. backlog' = <<>> \/ Len(queue'[c]) = ChannelCap
    <3>1. CASE r = Len(backlog)
      BY <2>0, <2>7, <3>1
    <3>2. CASE r # Len(backlog)
      <4>1. r = ChannelCap - Len(Tail(q))
        BY <3>2 DEF r, Room
      <4>2. Len(queue'[c]) = Len(Tail(q)) + r
        BY <1>1, <2>4, <2>5, <2>9
      <4>3. QED
        BY <1>1, <4>1, <4>2, Sizes
    <3>3. QED
      BY <3>1, <3>2
  <2>12. QED
    BY <1>3, <2>7, <2>8, <2>9, <2>10, <2>11
<1>4. QED
  BY <1>2, <1>3

(* Where a notice ends up: nowhere, in the backlog or in the inbox.        *)
Told(m) ==
  \/ queue' = queue /\ backlog' \in {backlog, Append(backlog, m)}
  \/ Delivered(INIT_INBOX, m) /\ backlog = <<>> /\ backlog' = backlog

(* notify_exit wakes init if it sleeps on its inbox, and leaves the other  *)
(* sleepers alone.                                                         *)
LEMMA NotifyFacts ==
  ASSUME NEW st \in [Slots -> States], Awake(st), NEW p,
         NEW w \in WaiterTables, NEW u \in WaitTables, Asleep(st, w, u, queue, p),
         Queues(queue), result \in [Slots -> Results],
         backlog \in Seq(TaskRefs), Len(backlog) <= BacklogCap,
         NEW m \in TaskRefs, Notify(m, w, u)
  PROVE  /\ WokenByNotice(w, u, st) \in [Slots -> States]
         /\ Awake(WokenByNotice(w, u, st))
         /\ SameSlots(st, WokenByNotice(w, u, st))
         /\ \A c \in Channels : waiter'[c] \in {w[c], NONE}
         /\ waiter' \in WaiterTables /\ wait' \in WaitTables
         /\ Queues(queue') /\ result' \in [Slots -> Results]
         /\ backlog' \in Seq(TaskRefs) /\ Len(backlog') <= BacklogCap
         /\ Asleep(WokenByNotice(w, u, st), waiter', wait', queue', p)
         /\ Told(m)
<1>1. m \in Messages
  BY DEF Messages
<1>2. CASE MustWait
  <2>1. /\ backlog' = IF Len(backlog) < BacklogCap THEN Append(backlog, m) ELSE backlog
        /\ waiter' = w /\ wait' = u /\ queue' = queue /\ result' = result
        /\ WokenByNotice(w, u, st) = st
    BY <1>2 DEF Notify, WokenByNotice
  <2>2. /\ Append(backlog, m) \in Seq(TaskRefs) /\ Len(Append(backlog, m)) = Len(backlog) + 1
        /\ Len(backlog) \in Nat
    OBVIOUS
  <2>3. backlog' \in Seq(TaskRefs) /\ Len(backlog') <= BacklogCap
    BY <2>1, <2>2, Sizes
  <2>4. QED
    BY <2>1, <2>3 DEF SameSlots, Told
<1>3. CASE ~MustWait
  <2>1. /\ Arrive(INIT_INBOX, m, w, u) /\ backlog' = backlog
        /\ WokenByNotice(w, u, st) = Woken(INIT_INBOX, w, u, st)
        /\ backlog = <<>>
    BY <1>3 DEF Notify, WokenByNotice, MustWait
  <2>2. INIT_INBOX \in Channels /\ Len(queue[INIT_INBOX]) < ChannelCap
    BY <1>3, Sizes DEF MustWait, Queues
  <2>3. /\ waiter' = [w EXCEPT ![INIT_INBOX] = NONE]
        /\ WokenByNotice(w, u, st) \in [Slots -> States]
        /\ Awake(WokenByNotice(w, u, st))
        /\ SameSlots(st, WokenByNotice(w, u, st))
        /\ waiter' \in WaiterTables /\ wait' \in WaitTables
        /\ Queues(queue') /\ result' \in [Slots -> Results]
        /\ Asleep(WokenByNotice(w, u, st), waiter', wait', queue', p)
        /\ Delivered(INIT_INBOX, m)
    <3> DEFINE st2 == Woken(INIT_INBOX, w, u, st)
    <3>1. /\ st2 \in [Slots -> States] /\ Awake(st2)
          /\ SameSlots(st, st2)
          /\ waiter' = [w EXCEPT ![INIT_INBOX] = NONE] /\ waiter' \in WaiterTables
          /\ wait' \in WaitTables /\ Queues(queue') /\ result' \in [Slots -> Results]
          /\ Asleep(st2, waiter', wait', queue', p)
          /\ Delivered(INIT_INBOX, m)
      BY <1>1, <2>1, <2>2, ArriveFacts
    <3> HIDE DEF st2
    <3>2. WokenByNotice(w, u, st) = st2
      BY <2>1 DEF st2
    <3>3. QED
      BY <3>1, <3>2
  <2>4. \A c \in Channels : waiter'[c] \in {w[c], NONE}
    BY <2>3 DEF WaiterTables
  <2>5. QED
    BY <2>1, <2>3, <2>4 DEF Told
<1>4. QED
  BY <1>2, <1>3

(* A switch leaves the sleepers asleep.                                    *)
LEMMA AsleepThroughSwitch ==
  ASSUME NEW st, NEW next, NEW w, NEW u, NEW q, NEW p,
         SameButTurn(st, next), Asleep(st, w, u, q, p)
  PROVE  Asleep(next, w, u, q, p)
  BY DEF SameButTurn, Asleep

-----------------------------------------------------------------------------
(* The inductive invariant.                                                *)
TableTypes ==
  /\ state \in [Slots -> States]
  /\ current \in Slots
  /\ donor \in Slots \cup {NONE}
  /\ target \in Slots \cup {NONE}

IpcTypes ==
  /\ Queues(queue)
  /\ waiter \in WaiterTables
  /\ backlog \in Seq(TaskRefs) /\ Len(backlog) <= BacklogCap
  /\ wait \in WaitTables
  /\ result \in [Slots -> Results]

TaskTypes ==
  /\ program \in [Slots -> {"none", "elf"} \cup Builtins]
  /\ generation \in [Slots -> 0 .. MaxGeneration]
  /\ pending \subseteq TaskRefs
  /\ spawn \in [step : {"idle", "reap", "claim", "build"}, grants : Seq(Grants)]
  /\ halted \in BOOLEAN

(* A slot without a task has no program and no handles; the idle task has  *)
(* no program either, and no built-in runs twice.                          *)
Programs ==
  /\ program[IdleTask] = "none"
  /\ \A t \in Slots : state[t] \in {"Free", "Reserved"} =>
       program[t] = "none" /\ handles[t] = EmptyTable
  /\ \A t, u \in Slots :
       program[t] = program[u] /\ program[t] \notin {"none", "elf"} => t = u

SleepInv ==
  /\ Asleep(state, waiter, wait, queue, program)
  /\ Owned(waiter, program)
  /\ Awake(state)

(* With an image loading, one place more is left; nobody has slot 0.       *)
Load == Cardinality(pending) + Cardinality(Occupied)

StackInv ==
  /\ Load <= MaxTasks - 1
  /\ spawn.step = "claim" => Load <= MaxTasks - 2
  /\ NoStack \notin pending

(* A slot is reserved only for the image that init's SPAWN is loading.     *)
OneLoading ==
  \A s \in Slots : state[s] = "Reserved" =>
    spawn.step = "build" /\ \A t \in Slots : state[t] = "Reserved" => t = s

(* The task a notice names has gone, and its slot may have a newer one.    *)
Gone(n) ==
  n[2] <= generation[n[1]] /\ ~(Live(n[1]) /\ generation[n[1]] = n[2])

NoticeInv ==
  \A i \in 1 .. Len(Inbox) : Inbox[i] \in TaskRefs =>
    Gone(Inbox[i]) /\ \A j \in 1 .. Len(Inbox) : Inbox[j] = Inbox[i] => i = j

StaysGone == \A n \in TaskRefs : Gone(n) => Gone(n)'

IInv ==
  /\ TableTypes
  /\ IpcTypes
  /\ TaskTypes
  /\ RightsInv
  /\ Programs
  /\ SleepInv
  /\ SpawnStaysValid
  /\ StackInv
  /\ OneLoading
  /\ NoticeInv

(* TypeOK, from the invariant.                                             *)
LEMMA TypesOf == IInv => TypeOK
  BY DEF IInv, TypeOK, TableTypes, IpcTypes, TaskTypes, RightsInv, RightsTypes,
         Queues, WaiterTables, WaitTables

(* NoLostWakeup, from the invariant.                                       *)
LEMMA SleepOf == IInv => NoLostWakeup
  BY DEF IInv, SleepInv, Asleep, NoLostWakeup

(* OneReceiver, from the invariant.                                        *)
LEMMA ReceiverOf == IInv => OneReceiver
<1> SUFFICES ASSUME IInv, NEW c \in Created
             PROVE  /\ \E h \in HandleIds : RecvHolders(c) = {<<receiver[c], h>>}
                    /\ waiter[c] \in {NONE, receiver[c]}
  BY DEF OneReceiver, Created
<1>1. Unique(c) /\ RightsTypes
  BY DEF IInv, RightsInv
<1>2. c # SHELL_KEYS /\ c \in Channels
  BY <1>1, CreatedFacts DEF Created, INIT_INBOX, SHELL_KEYS, RightsTypes
<1>3. waiter[c] \in {NONE, receiver[c]}
  BY <1>2 DEF IInv, SleepInv, Owned
<1>4. QED
  BY <1>1, <1>3, UniqueIsOneHolder

(* HomeStaysOpen, from the invariant.                                      *)
LEMMA HomeOf == IInv => HomeStaysOpen
  BY DEF IInv, RightsInv

(* StacksFit, from the invariant.                                          *)
LEMMA StacksOf == IInv => StacksFit
  BY DEF IInv, StackInv, StacksFit, Load

(* NoticesAreExact, from the invariant.                                    *)
LEMMA NoticesOf == IInv => NoticesAreExact
<1> SUFFICES ASSUME IInv, NEW i \in 1 .. Len(Inbox), Inbox[i] \in TaskRefs
             PROVE  /\ ~(Live(Inbox[i][1]) /\ generation[Inbox[i][1]] = Inbox[i][2])
                    /\ \A j \in 1 .. i - 1 : Inbox[j] # Inbox[i]
  BY DEF NoticesAreExact
<1>1. Gone(Inbox[i]) /\ \A j \in 1 .. Len(Inbox) : Inbox[j] = Inbox[i] => i = j
  BY DEF IInv, NoticeInv
<1>2. Len(Inbox) \in Nat
  BY InboxTypes DEF IInv, IpcTypes
<1>3. \A j \in 1 .. i - 1 : j \in 1 .. Len(Inbox) /\ i # j
  BY <1>2
<1>4. QED
  BY <1>1, <1>3 DEF Gone

(* If the notices in the inbox are all from before, they are still exact.  *)
LEMMA NoticesKept ==
  ASSUME NoticeInv, StaysGone, Keeps(Inbox', Inbox)
  PROVE  NoticeInv'
<1>1. PICK f \in [1 .. Len(Inbox') -> Int] :
        \A i \in 1 .. Len(Inbox') : Inbox'[i] \in TaskRefs =>
          /\ f[i] \in 1 .. Len(Inbox) /\ Inbox'[i] = Inbox[f[i]]
          /\ \A j \in 1 .. Len(Inbox') : Inbox'[j] \in TaskRefs /\ f[i] = f[j] => i = j
  BY DEF Keeps
<1>2. ASSUME NEW i \in 1 .. Len(Inbox'), Inbox'[i] \in TaskRefs
      PROVE  Gone(Inbox[f[i]]) /\ \A j \in 1 .. Len(Inbox') : Inbox'[j] = Inbox'[i] => i = j
  <2>1. Gone(Inbox[f[i]])
    BY <1>1, <1>2 DEF NoticeInv
  <2>2. ASSUME NEW j \in 1 .. Len(Inbox'), Inbox'[j] = Inbox'[i]
        PROVE  i = j
    <3>1. /\ f[i] \in 1 .. Len(Inbox) /\ f[j] \in 1 .. Len(Inbox)
          /\ Inbox[f[i]] = Inbox[f[j]] /\ Inbox[f[i]] \in TaskRefs
      BY <1>1, <1>2, <2>2
    <3>2. f[i] = f[j]
      BY <3>1 DEF NoticeInv
    <3>3. QED
      BY <1>1, <1>2, <2>2, <3>2
  <2>3. QED
    BY <2>1, <2>2
<1>3. ASSUME NEW n \in TaskRefs, Gone(n) PROVE Gone(n)'
  BY <1>3 DEF StaysGone
<1>4. \A i \in 1 .. Len(Inbox') : Inbox'[i] \in TaskRefs => Gone(Inbox[i])'
  <2> SUFFICES ASSUME NEW i \in 1 .. Len(Inbox'), Inbox'[i] \in TaskRefs
               PROVE  Gone(Inbox[i])'
    OBVIOUS
  <2>1. PICK n \in TaskRefs : n = Inbox'[i]
    OBVIOUS
  <2>2. Gone(n)
    BY <1>1, <1>2, <2>1 DEF Gone
  <2>3. Gone(n)'
    BY <1>3, <2>2
  <2>4. QED
    BY <2>1, <2>3 DEF Gone, Live
<1>5. QED
  BY <1>2, <1>4 DEF NoticeInv

(* Nobody comes to life again under the same generation.                   *)
LEMMA GoneStays ==
  ASSUME TaskTypes,
         \A t \in Slots :
           \/ generation'[t] = generation[t] /\ (Live(t)' => Live(t))
           \/ generation'[t] = generation[t] + 1
  PROVE  StaysGone
<1> SUFFICES ASSUME NEW n \in TaskRefs, Gone(n) PROVE Gone(n)'
  BY DEF StaysGone
<1>1. /\ n[1] \in Slots /\ n[2] \in Nat /\ generation[n[1]] \in Nat
      /\ n[2] <= generation[n[1]]
  BY Sizes DEF TaskRefs, TaskTypes, Gone
<1>2. CASE generation'[n[1]] = generation[n[1]] /\ (Live(n[1])' => Live(n[1]))
  BY <1>1, <1>2 DEF Gone
<1>3. CASE generation'[n[1]] = generation[n[1]] + 1
  <2>1. n[2] <= generation'[n[1]] /\ generation'[n[1]] # n[2]
    BY <1>1, <1>3
  <2>2. QED
    BY <2>1 DEF Gone
<1>4. QED
  BY <1>1, <1>2, <1>3

(* So they are if the inbox does not change.                               *)
LEMMA NoticesStill ==
  ASSUME IInv, UNCHANGED <<queue, backlog>>, StaysGone
  PROVE  NoticeInv'
<1>1. Inbox' = Inbox
  BY DEF Inbox
<1>2. Len(Inbox) \in Nat
  BY InboxTypes DEF IInv, IpcTypes
<1>3. QED
  BY <1>1, <1>2, KeepsSame, NoticesKept DEF IInv

(* Waking and switching make nobody live and end nobody.                   *)
LEMMA SameLive ==
  ASSUME TableTypes, state' \in [Slots -> States], SameSlots(state, state')
  PROVE  \A t \in Slots : Live(t)' <=> Live(t)
  BY DEF TableTypes, States, SameSlots, Live

(* A message of a task's own comes in.                                     *)
LEMMA MessageKeeps ==
  ASSUME Queues(queue), backlog \in Seq(TaskRefs), UNCHANGED backlog,
         NEW c \in Channels, NEW m \in Payloads, Delivered(c, m)
  PROVE  Keeps(Inbox', Inbox)
<1>1. queue[INIT_INBOX] \in Seq(Messages) /\ Len(Inbox) \in Nat
  BY InboxTypes
<1>2. CASE queue'[INIT_INBOX] = queue[INIT_INBOX]
  <2>1. Inbox' = Inbox
    BY <1>2 DEF Inbox
  <2>2. QED
    BY <1>1, <2>1, KeepsSame
<1>3. CASE queue'[INIT_INBOX] = Append(queue[INIT_INBOX], m)
  <2>1. m \notin TaskRefs
    BY PayloadAssumption
  <2>2. /\ Inbox' = Append(queue[INIT_INBOX], m) \o backlog
        /\ Inbox = queue[INIT_INBOX] \o backlog
    BY <1>3 DEF Inbox
  <2>3. Keeps(Append(queue[INIT_INBOX], m) \o backlog, queue[INIT_INBOX] \o backlog)
    BY <1>1, <2>1, KeepsInserted
  <2>4. QED
    BY <2>2, <2>3
<1>4. QED
  BY <1>2, <1>3, Sizes DEF Delivered, Queues

(* A notice comes in.                                                      *)
LEMMA NoticeKeeps ==
  ASSUME NoticeInv, StaysGone, Queues(queue), backlog \in Seq(TaskRefs),
         NEW m \in TaskRefs, ~Gone(m), Gone(m)', Told(m)
  PROVE  NoticeInv'
<1> DEFINE q == queue[INIT_INBOX]
<1>1. q \in Seq(Messages) /\ Len(Inbox) \in Nat /\ m \in Messages
  BY InboxTypes DEF Messages
<1>2. \/ Inbox' = Inbox
      \/ Inbox' = q \o Append(backlog, m)
      \/ backlog = <<>> /\ Inbox' = Append(q, m) \o backlog
  BY Sizes DEF Told, Delivered, Inbox, Queues
<1>3. CASE Inbox' = Inbox
  BY <1>1, <1>3, KeepsSame, NoticesKept
<1>4. ASSUME Inbox' # Inbox
      PROVE  /\ Len(Inbox') = Len(Inbox) + 1 /\ Inbox'[Len(Inbox) + 1] = m
             /\ \A i \in 1 .. Len(Inbox) : Inbox'[i] = Inbox[i]
  <2>1. Inbox = q \o backlog
    BY DEF Inbox
  <2> HIDE DEF q
  <2>2. CASE Inbox' = q \o Append(backlog, m)
    BY <1>1, <2>1, <2>2
  <2>3. CASE backlog = <<>> /\ Inbox' = Append(q, m) \o backlog
    BY <1>1, <2>1, <2>3
  <2>4. QED
    BY <1>2, <1>4, <2>2, <2>3
<1>5. \A i \in 1 .. Len(Inbox) : Inbox[i] # m
  BY DEF NoticeInv
<1>6. CASE Inbox' # Inbox
  <2>1. ASSUME NEW i \in 1 .. Len(Inbox) + 1, Inbox'[i] \in TaskRefs
        PROVE  /\ (i \in 1 .. Len(Inbox) /\ Gone(Inbox'[i])) \/ Inbox'[i] = m
               /\ \A j \in 1 .. Len(Inbox) + 1 : Inbox'[j] = Inbox'[i] => i = j
    <3>1. CASE i = Len(Inbox) + 1
      <4>1. \A j \in 1 .. Len(Inbox) + 1 : j # i => j \in 1 .. Len(Inbox)
        BY <1>1, <3>1
      <4>2. QED
        BY <1>4, <1>5, <1>6, <3>1, <4>1
    <3>2. CASE i # Len(Inbox) + 1
      <4>1. i \in 1 .. Len(Inbox)
        BY <1>1, <3>2
      <4>2. Inbox'[i] = Inbox[i] /\ Gone(Inbox[i])
        BY <1>4, <1>6, <2>1, <4>1 DEF NoticeInv
      <4>3. ASSUME NEW j \in 1 .. Len(Inbox) + 1, Inbox'[j] = Inbox'[i] PROVE i = j
        <5>1. j \in 1 .. Len(Inbox) \/ j = Len(Inbox) + 1
          BY <1>1
        <5>2. QED
          BY <1>4, <1>5, <1>6, <2>1, <4>1, <4>2, <4>3, <5>1 DEF NoticeInv
      <4>4. QED
        BY <4>1, <4>2, <4>3 DEF Gone
    <3>3. QED
      BY <3>1, <3>2
  <2>2. \A i \in 1 .. Len(Inbox') : Inbox'[i] \in TaskRefs => Gone(Inbox[i])'
    <3> SUFFICES ASSUME NEW i \in 1 .. Len(Inbox'), Inbox'[i] \in TaskRefs
                 PROVE  Gone(Inbox[i])'
      OBVIOUS
    <3>1. PICK n \in TaskRefs : n = Inbox'[i]
      OBVIOUS
    <3>2. Gone(n) \/ n = m
      BY <1>4, <1>6, <2>1, <3>1 DEF Gone
    <3>3. Gone(n)'
      BY <3>2 DEF StaysGone
    <3>4. QED
      BY <3>1, <3>3 DEF Gone, Live
  <2>3. QED
    BY <1>4, <1>6, <2>1, <2>2 DEF NoticeInv
<1>7. QED
  BY <1>3, <1>6

(* Sets of tasks and of slots are finite; init can fill two slots less     *)
(* than there are.                                                         *)
LEMMA Finite ==
  /\ \A P \in SUBSET TaskRefs : IsFiniteSet(P) /\ Cardinality(P) \in Nat
  /\ \A S \in SUBSET (Slots \ {IdleTask, InitTask}) :
       IsFiniteSet(S) /\ Cardinality(S) \in Nat /\ Cardinality(S) <= MaxTasks - 2
<1>1. IsFiniteSet(Slots) /\ Cardinality(Slots) = MaxTasks
  BY Sizes, FS_Interval DEF Slots
<1>2. IsFiniteSet(0 .. MaxGeneration)
  BY Sizes, FS_Interval
<1>3. IsFiniteSet(TaskRefs)
  BY <1>1, <1>2, FS_Product DEF TaskRefs
<1> DEFINE rest == Slots \ {IdleTask}
<1>4. IsFiniteSet(rest) /\ Cardinality(rest) = MaxTasks - 1
  BY <1>1, Sizes, FS_RemoveElement
<1>5. InitTask \in rest /\ rest \ {InitTask} = Slots \ {IdleTask, InitTask}
  BY Sizes
<1> HIDE DEF rest
<1>6. IsFiniteSet(rest \ {InitTask}) /\ Cardinality(rest \ {InitTask}) = MaxTasks - 2
  <2>1. /\ IsFiniteSet(rest \ {InitTask})
        /\ Cardinality(rest \ {InitTask}) = Cardinality(rest) - 1
    BY <1>4, <1>5, FS_RemoveElement
  <2>2. QED
    BY <1>4, <2>1, Sizes
<1>7. ASSUME NEW P \in SUBSET TaskRefs PROVE IsFiniteSet(P) /\ Cardinality(P) \in Nat
  BY <1>3, FS_Subset, FS_CardinalityType
<1>8. ASSUME NEW S \in SUBSET (Slots \ {IdleTask, InitTask})
      PROVE  IsFiniteSet(S) /\ Cardinality(S) \in Nat /\ Cardinality(S) <= MaxTasks - 2
  BY <1>5, <1>6, FS_Subset, FS_CardinalityType
<1>9. QED
  BY <1>7, <1>8

(* One element more makes a set larger by one at most.                     *)
LEMMA AtMostOneMore ==
  ASSUME NEW S, NEW x, IsFiniteSet(S), Cardinality(S) \in Nat
  PROVE  /\ IsFiniteSet(S \cup {x})
         /\ Cardinality(S \cup {x}) \in Int
         /\ Cardinality(S \cup {x}) <= Cardinality(S) + 1
<1>1. /\ IsFiniteSet(S \cup {x})
      /\ Cardinality(S \cup {x}) = IF x \in S THEN Cardinality(S) ELSE Cardinality(S) + 1
  BY FS_AddElement
<1>2. QED
  BY <1>1

(* A step that ends no task and claims no slot needs no more room in       *)
(* PENDING_FREES.                                                          *)
LEMMA StacksShrink ==
  ASSUME StackInv, TaskTypes, pending' \subseteq pending, Occupied' \subseteq Occupied,
         spawn'.step = "claim" => spawn.step = "claim"
  PROVE  StackInv'
<1>1. /\ pending \in SUBSET TaskRefs /\ pending' \in SUBSET TaskRefs
      /\ Occupied \in SUBSET (Slots \ {IdleTask, InitTask})
      /\ Occupied' \in SUBSET (Slots \ {IdleTask, InitTask})
  BY DEF TaskTypes, Occupied
<1>2. /\ IsFiniteSet(pending) /\ IsFiniteSet(Occupied)
      /\ Cardinality(pending) \in Nat /\ Cardinality(pending') \in Nat
      /\ Cardinality(Occupied) \in Nat /\ Cardinality(Occupied') \in Nat
  BY <1>1, Finite
<1>3. Cardinality(pending') <= Cardinality(pending)
  BY <1>2, FS_Subset
<1>4. Cardinality(Occupied') <= Cardinality(Occupied)
  BY <1>2, FS_Subset
<1>5. /\ Load \in Int /\ Load' \in Int /\ Load' <= Load
  BY <1>2, <1>3, <1>4 DEF Load
<1>6. QED
  BY <1>5, Sizes DEF StackInv, NoStack

(* After a reap for a SPAWN.                                               *)
LEMMA StacksReaped ==
  ASSUME StackInv, pending' = Reaped(NoStack)
  PROVE  StackInv'
<1>1. pending' = {}
  BY DEF StackInv, Reaped
<1>2. Cardinality(pending') = 0
  BY <1>1, FS_EmptySet
<1>3. Occupied' \in SUBSET (Slots \ {IdleTask, InitTask})
  BY DEF Occupied
<1>4. Cardinality(Occupied') \in Nat /\ Cardinality(Occupied') <= MaxTasks - 2
  BY <1>3, Finite
<1>5. Load' \in Int /\ Load' <= MaxTasks - 2
  BY <1>2, <1>4, Sizes DEF Load
<1>6. QED
  BY <1>1, <1>5, Sizes DEF StackInv, NoStack

(* Where no handle changes, neither do the receivers.                      *)
LEMMA RightsUnchanged ==
  ASSUME RightsInv, UNCHANGED rightsVars
  PROVE  RightsInv' /\ Created' = Created
<1>1. UNCHANGED <<handles, receiver, home, nextId>>
  BY DEF rightsVars
<1>2. Created' = Created
  BY <1>1 DEF Created
<1>3. \A c \in Created : Unique(c)' <=> Unique(c)
  BY <1>1 DEF Unique, IsRecv
<1>4. RightsTypes' /\ HomeStaysOpen'
  BY <1>1 DEF RightsInv, RightsTypes, HomeStaysOpen, Holds
<1>5. QED
  BY <1>1, <1>2, <1>3, <1>4 DEF RightsInv

(* More rights on init's handles, with the same channels, refuse nothing.  *)
LEMMA ResolvesKept ==
  ASSUME NEW g \in Seq(Grants), Resolves(g),
         \A h \in HandleIds :
           /\ handles'[InitTask][h].channel = handles[InitTask][h].channel
           /\ handles[InitTask][h].rights \subseteq handles'[InitTask][h].rights
  PROVE  Resolves(g)'
<1>1. Len(g) \in Nat /\ \A i \in 1 .. Len(g) : g[i].handle \in HandleIds
  <2>1. \A i \in 1 .. Len(g) : g[i] \in Grants
    OBVIOUS
  <2>2. QED
    BY <2>1 DEF Grants
<1>2. \A i \in 1 .. Len(g) : GrantedChannel(g[i])' = GrantedChannel(g[i])
  BY <1>1 DEF GrantedChannel
<1>3. QED
  BY <1>1, <1>2 DEF Resolves

(* A spawn in progress stays valid if init loses no right.                 *)
LEMMA SpawnKept ==
  ASSUME TaskTypes, SpawnStaysValid, UNCHANGED spawn,
         \A h \in HandleIds :
           /\ handles'[InitTask][h].channel = handles[InitTask][h].channel
           /\ handles[InitTask][h].rights \subseteq handles'[InitTask][h].rights
  PROVE  SpawnStaysValid'
<1>1. spawn.grants \in Seq(Grants)
  BY DEF TaskTypes
<1>2. Resolves(spawn.grants) => Resolves(spawn.grants)'
  <2>1. PICK g \in Seq(Grants) : g = spawn.grants
    BY <1>1
  <2>2. Resolves(g) => Resolves(g)'
    BY ResolvesKept
  <2>3. spawn'.grants = g
    BY <2>1
  <2>4. Resolves(g)' => Resolves(spawn.grants)'
    BY <2>3 DEF Resolves, GrantedChannel
  <2>5. QED
    BY <2>1, <2>2, <2>4
<1>3. QED
  BY <1>2 DEF SpawnStaysValid

(* What is left to show of a step that moves no right and no program.      *)
LEMMA QuietStep ==
  ASSUME IInv, UNCHANGED <<rightsVars, program, generation, spawn>>, TaskTypes',
         \/ UNCHANGED <<queue, backlog>>
         \/ Keeps(Inbox', Inbox),
         TableTypes', IpcTypes', Awake(state'),
         SameSlots(state, state'), pending' \subseteq pending,
         Asleep(state', waiter', wait', queue', program),
         Owned(waiter', program)
  PROVE  IInv'
<1>1. RightsInv' /\ Created' = Created
  BY RightsUnchanged DEF IInv
<1>2. UNCHANGED <<handles, receiver, program>>
  BY DEF rightsVars
<1>3. Programs'
  BY <1>2 DEF IInv, Programs, SameSlots
<1>4. Owned(waiter, program)'
  BY <1>1, <1>2 DEF Owned
<1>5. Asleep(state, waiter, wait, queue, program)'
  BY <1>2 DEF Asleep
<1>6. SleepInv'
  BY <1>4, <1>5 DEF SleepInv
<1>7. SpawnStaysValid'
  BY <1>2, SpawnKept DEF IInv
<1>8. StackInv'
  <2>1. Occupied' = Occupied
    BY DEF Occupied, SameSlots
  <2>2. QED
    BY <2>1, StacksShrink DEF IInv
<1>9. NoticeInv'
  <2>1. \A t \in Slots : Live(t)' <=> Live(t)
    BY SameLive DEF IInv, TableTypes
  <2>2. StaysGone
    BY <2>1, GoneStays DEF IInv
  <2>3. QED
    BY <2>2, NoticesStill, NoticesKept DEF IInv
<1>10. OneLoading'
  BY DEF IInv, OneLoading, SameSlots
<1>11. QED
  BY <1>1, <1>3, <1>6, <1>7, <1>8, <1>9, <1>10 DEF IInv

(* Who still sleeps, sleeps where it did.                                  *)
LEMMA FewerOwners ==
  ASSUME NEW w, NEW p, Owned(w, p), \A c \in Channels : waiter'[c] \in {w[c], NONE}
  PROVE  Owned(waiter', p)
  BY DEF Owned

(* The task on the CPU does not sleep, and each task has its own wait.     *)
LEMMA RunningFacts ==
  ASSUME IInv, Acts
  PROVE  /\ current \in Slots /\ state[current] = "Running"
         /\ \A c \in Channels : waiter[c] # current
         /\ wait[current] = NoWait
  BY DEF IInv, TableTypes, SleepInv, Asleep, Acts

(* A handle of the task on the CPU names a channel that exists, and one    *)
(* with RECV its own.                                                      *)
LEMMA UserFacts ==
  ASSUME IInv, User, NEW h \in HandleIds, NEW right, Holds(current, h, right)
  PROVE  /\ handles[current][h].channel \in Created
         /\ handles[current][h].channel \in Channels
         /\ right = "recv" => receiver[handles[current][h].channel] = current
         /\ current # IdleTask
<1>1. current \in Slots /\ program[current] = "elf" /\ program[IdleTask] = "none"
  BY RunningFacts DEF User, IInv, Programs
<1>2. handles[current][h].channel \in Created
  BY <1>1 DEF IInv, RightsInv, Holds
<1>3. Created \subseteq Channels
  BY CreatedFacts DEF IInv, RightsInv
<1>4. right = "recv" => receiver[handles[current][h].channel] = current
  BY <1>1, <1>2 DEF IInv, RightsInv, Unique, IsRecv, Holds
<1>5. QED
  BY <1>1, <1>2, <1>3, <1>4

(* No recv in progress looks like none.                                    *)
LEMMA NoWaitFacts ==
  /\ NoWait \notin UserWaits /\ NoWait.deadline = "none"
  /\ \A x \in UserWaits : x.channel \in Channels /\ x.deadline \in Deadlines
  BY Sizes DEF NoWait, UserWaits

-----------------------------------------------------------------------------
(* One lemma for each action, or for a few that do the same.               *)
LEMMA TickKeeps == ASSUME IInv, Tick PROVE IInv'
<1> DEFINE st == [t \in Slots |-> IF t \in Expired THEN "Ready" ELSE state[t]]
           w2 == Cancelled(Expired, waiter, wait)
           u2 == [t \in Slots |-> IF t \in Expired THEN NoWait ELSE wait[t]]
<1>1. /\ TableTypes /\ IpcTypes /\ TaskTypes /\ SleepInv
      /\ waiter' = w2 /\ wait' = u2 /\ SwitchAway(st, NONE, NONE)
      /\ UNCHANGED <<queue, backlog, rightsVars, program, generation, spawn, halted>>
      /\ result' = [t \in Slots |-> IF t \in Expired THEN TimedOut ELSE result[t]]
      /\ pending' \subseteq pending
  BY DEF IInv, Tick, Reaped
<1>2. ASSUME NEW t \in Expired
      PROVE  /\ t \in Slots \ {IdleTask} /\ wait[t] # NoWait
             /\ state[t] = "Blocked" /\ program[t] = "elf"
  BY <1>1, NoWaitFacts DEF Expired, SleepInv, Asleep
<1>3. /\ st \in [Slots -> States] /\ u2 \in WaitTables
      /\ \A t \in Slots : /\ st[t] = IF t \in Expired THEN "Ready" ELSE state[t]
                          /\ u2[t] = IF t \in Expired THEN NoWait ELSE wait[t]
  BY <1>1 DEF TableTypes, IpcTypes, WaitTables, States
<1>4. Awake(st)
  BY <1>1, <1>2, <1>3, Sizes DEF SleepInv, Awake
<1>5. w2 \in WaiterTables
      /\ \A c \in Channels : w2[c] = IF waiter[c] \in Expired THEN NONE ELSE waiter[c]
  <2>1. \A c \in Channels : waiter[c] \in Expired => wait[waiter[c]].channel = c
    BY <1>1, <1>2, Sizes DEF SleepInv, Asleep
  <2>2. \A c \in Channels : w2[c] = IF waiter[c] \in Expired THEN NONE ELSE waiter[c]
    BY <2>1 DEF Cancelled
  <2>3. w2 \in WaiterTables
    BY <1>1 DEF Cancelled, IpcTypes, WaiterTables
  <2>4. QED
    BY <2>2, <2>3
<1> HIDE DEF st, w2, u2
<1>6. Asleep(st, w2, u2, queue, program)
  <2>1. \A t \in Slots : st[t] = "Blocked" <=> \E c \in Channels : w2[c] = t
    BY <1>1, <1>2, <1>3, <1>5, Sizes DEF SleepInv, Asleep
  <2>2. ASSUME NEW c \in Channels, w2[c] # NONE
        PROVE  /\ queue[c] = <<>>
               /\ \A d \in Channels \ {c} : w2[d] # w2[c]
               /\ program[w2[c]] = "elf" => u2[w2[c]].channel = c
    <3>1. w2[c] = waiter[c] /\ w2[c] \in Slots /\ w2[c] \notin Expired
      BY <1>1, <1>5, <2>2 DEF IpcTypes, WaiterTables
    <3>2. \A d \in Channels \ {c} : w2[d] # w2[c]
      BY <1>1, <1>5, <2>2, <3>1 DEF SleepInv, Asleep
    <3>3. u2[w2[c]] = wait[waiter[c]]
      BY <1>3, <3>1
    <3>4. QED
      BY <1>1, <2>2, <3>1, <3>2, <3>3 DEF SleepInv, Asleep
  <2>3. \A t \in Slots : u2[t] # NoWait <=> st[t] = "Blocked" /\ program[t] = "elf"
    BY <1>1, <1>3 DEF SleepInv, Asleep
  <2>4. QED
    BY <2>1, <2>2, <2>3 DEF Asleep
<1>7. /\ TableTypes' /\ Awake(state') /\ SameButTurn(st, state')
  BY <1>1, <1>3, <1>4, SwitchFacts DEF TableTypes
<1>8. Asleep(state', waiter', wait', queue', program)
  BY <1>1, <1>6, <1>7, AsleepThroughSwitch
<1>9. SameSlots(state, state')
  BY <1>2, <1>3, <1>7 DEF SameButTurn, SameSlots
<1>10. IpcTypes'
  <2>1. result' \in [Slots -> Results]
    BY <1>1 DEF IpcTypes, Results
  <2>2. QED
    BY <1>1, <1>3, <1>5, <2>1 DEF IpcTypes, Queues
<1>11. TaskTypes'
  BY <1>1 DEF TaskTypes
<1>12. Owned(waiter', program)
  BY <1>1, <1>5, FewerOwners DEF SleepInv
<1>13. QED
  BY <1>1, <1>7, <1>8, <1>9, <1>10, <1>11, <1>12, QuietStep

(* A deadline that passes changes nothing until the next tick.             *)
LEMMA ClockPassesKeeps == ASSUME IInv, NEW t \in Slots, ClockPasses(t) PROVE IInv'
<1>1. /\ TableTypes /\ IpcTypes /\ TaskTypes /\ SleepInv
      /\ UNCHANGED <<tableVars, queue, waiter, backlog, result, rightsVars, taskVars>>
      /\ wait' = [wait EXCEPT ![t].deadline = "past"] /\ wait[t].deadline = "later"
  BY DEF IInv, ClockPasses
<1>2. UNCHANGED <<state, current, donor, target, program, generation, pending, spawn, halted>>
  BY <1>1 DEF tableVars, taskVars
<1>3. wait[t] \in UserWaits
  BY <1>1, NoWaitFacts DEF IpcTypes, WaitTables
<1>4. /\ [wait[t] EXCEPT !.deadline = "past"] \in UserWaits
      /\ [wait[t] EXCEPT !.deadline = "past"].channel = wait[t].channel
  BY <1>3 DEF UserWaits, Deadlines
<1>5. /\ wait' \in WaitTables
      /\ \A u \in Slots : /\ u # t => wait'[u] = wait[u]
                          /\ wait'[t] \in UserWaits
                          /\ wait'[t].channel = wait[t].channel
  BY <1>1, <1>4 DEF IpcTypes, WaitTables
<1>6. \A u \in Slots : /\ wait'[u] # NoWait <=> wait[u] # NoWait
                       /\ wait'[u].channel = wait[u].channel
  BY <1>3, <1>5, NoWaitFacts
<1>7. Asleep(state', waiter', wait', queue', program)
  <2>1. \A c \in Channels : waiter[c] # NONE => waiter[c] \in Slots
    BY <1>1 DEF IpcTypes, WaiterTables
  <2>2. QED
    BY <1>1, <1>2, <1>6, <2>1 DEF SleepInv, Asleep
<1>8. TableTypes' /\ TaskTypes' /\ IpcTypes' /\ Awake(state')
  BY <1>1, <1>2, <1>5 DEF TableTypes, TaskTypes, IpcTypes, Queues, SleepInv, Awake
<1>9. Owned(waiter', program)
  BY <1>1 DEF SleepInv, Owned
<1>10. QED
  BY <1>1, <1>2, <1>7, <1>8, <1>9, QuietStep DEF SameSlots

(* YIELD, whoever runs next.                                               *)
LEMMA YieldKeeps == ASSUME IInv, Yield PROVE IInv'
<1>1. /\ TableTypes /\ IpcTypes /\ TaskTypes /\ SleepInv
      /\ SwitchAway(state, donor, target)
      /\ UNCHANGED <<ipcVars, rightsVars, taskVars>>
  BY DEF IInv, Yield
<1>2. UNCHANGED <<queue, waiter, backlog, wait, result, program, generation, pending, spawn,
                  halted>>
  BY <1>1 DEF ipcVars, taskVars
<1>3. TableTypes' /\ Awake(state') /\ SameButTurn(state, state')
  BY <1>1, SwitchFacts DEF TableTypes, SleepInv
<1>4. Asleep(state', waiter', wait', queue', program)
  BY <1>1, <1>2, <1>3, AsleepThroughSwitch DEF SleepInv
<1>5. IpcTypes' /\ TaskTypes' /\ Owned(waiter', program)
  BY <1>1, <1>2 DEF IpcTypes, TaskTypes, Queues, SleepInv, Owned
<1>6. SameSlots(state, state')
  BY <1>3 DEF SameButTurn, SameSlots
<1>7. QED
  BY <1>1, <1>2, <1>3, <1>4, <1>5, <1>6, QuietStep

(* A message, from a user task or a built-in.                              *)
LEMMA SendSyscallKeeps ==
  ASSUME IInv, NEW h \in HandleIds, NEW m \in Payloads, SendSyscall(h, m)
  PROVE  IInv'
<1> DEFINE c == handles[current][h].channel
           st == Woken(c, waiter, wait, state)
<1>1. /\ TableTypes /\ IpcTypes /\ TaskTypes /\ SleepInv
      /\ c \in Channels /\ m \in Messages
  BY UserFacts DEF IInv, SendSyscall, Messages
<1>2. /\ Arrive(c, m, waiter, wait) /\ Len(queue[c]) < ChannelCap
      /\ UNCHANGED <<backlog, rightsVars, taskVars>>
      /\ \/ HandOff(st, waiter[c])
         \/ state' = st /\ UNCHANGED <<current, donor, target>>
  BY DEF SendSyscall
<1>3. UNCHANGED <<program, generation, pending, spawn, halted>>
  BY <1>2 DEF taskVars
<1> HIDE DEF c
<1>4. /\ st \in [Slots -> States] /\ Awake(st)
      /\ SameSlots(state, st)
      /\ waiter' = [waiter EXCEPT ![c] = NONE] /\ waiter' \in WaiterTables
      /\ wait' \in WaitTables /\ Queues(queue') /\ result' \in [Slots -> Results]
      /\ Asleep(st, waiter', wait', queue', program)
      /\ Delivered(c, m)
  BY <1>1, <1>2, ArriveFacts DEF TableTypes, IpcTypes, SleepInv
<1> HIDE DEF st
<1>5. TableTypes' /\ Awake(state') /\ SameButTurn(st, state')
  <2>1. CASE HandOff(st, waiter[c])
    BY <1>1, <1>4, <2>1, HandOffFacts DEF TableTypes
  <2>2. CASE state' = st /\ UNCHANGED <<current, donor, target>>
    BY <1>1, <1>4, <2>2 DEF TableTypes, SameButTurn
  <2>3. QED
    BY <1>2, <2>1, <2>2
<1>6. Asleep(state', waiter', wait', queue', program)
  BY <1>4, <1>5, AsleepThroughSwitch
<1>7. IpcTypes' /\ TaskTypes'
  BY <1>1, <1>2, <1>3, <1>4 DEF IpcTypes, TaskTypes
<1>8. SameSlots(state, state')
  BY <1>4, <1>5 DEF SameButTurn, SameSlots
<1>9. Owned(waiter', program)
  <2>1. \A d \in Channels : waiter'[d] \in {waiter[d], NONE}
    BY <1>1, <1>4 DEF IpcTypes, WaiterTables
  <2>2. QED
    BY <1>1, <2>1, FewerOwners DEF SleepInv
<1>10. Keeps(Inbox', Inbox)
  BY <1>1, <1>2, <1>4, MessageKeeps DEF IpcTypes
<1>11. QED
  BY <1>2, <1>3, <1>5, <1>6, <1>7, <1>8, <1>9, <1>10, QuietStep

(* ipc::send of a built-in, which keeps the CPU.                           *)
LEMMA BuiltinSendsKeeps ==
  ASSUME IInv, NEW c \in Channels, NEW m \in Payloads, BuiltinSends(c, m)
  PROVE  IInv'
<1> DEFINE st == Woken(c, waiter, wait, state)
<1>1. TableTypes /\ IpcTypes /\ TaskTypes /\ SleepInv /\ m \in Messages
  BY DEF IInv, Messages
<1>2. /\ Arrive(c, m, waiter, wait) /\ Len(queue[c]) < ChannelCap
      /\ UNCHANGED <<backlog, rightsVars, taskVars>>
      /\ state' = st /\ UNCHANGED <<current, donor, target>>
  BY DEF BuiltinSends
<1>3. UNCHANGED <<program, generation, pending, spawn, halted>>
  BY <1>2 DEF taskVars
<1>4. /\ st \in [Slots -> States] /\ Awake(st)
      /\ SameSlots(state, st)
      /\ waiter' = [waiter EXCEPT ![c] = NONE] /\ waiter' \in WaiterTables
      /\ wait' \in WaitTables /\ Queues(queue') /\ result' \in [Slots -> Results]
      /\ Asleep(st, waiter', wait', queue', program)
      /\ Delivered(c, m)
  BY <1>1, <1>2, ArriveFacts DEF TableTypes, IpcTypes, SleepInv
<1> HIDE DEF st
<1>5. TableTypes' /\ Awake(state') /\ IpcTypes' /\ TaskTypes'
  BY <1>1, <1>2, <1>3, <1>4 DEF IpcTypes, TaskTypes, TableTypes
<1>6. Owned(waiter', program)
  <2>1. \A d \in Channels : waiter'[d] \in {waiter[d], NONE}
    BY <1>1, <1>4 DEF IpcTypes, WaiterTables
  <2>2. QED
    BY <1>1, <2>1, FewerOwners DEF SleepInv
<1>7. /\ Asleep(state', waiter', wait', queue', program)
      /\ SameSlots(state, state')
  BY <1>2, <1>4 DEF SameSlots
<1>8. Keeps(Inbox', Inbox)
  BY <1>1, <1>2, <1>4, MessageKeeps DEF IpcTypes
<1>9. QED
  BY <1>2, <1>3, <1>5, <1>6, <1>7, <1>8, QuietStep

(* A message taken from a channel that has one: nobody sleeps there.       *)
LEMMA TakenKeepsSleep ==
  ASSUME IInv, NEW c \in Channels, queue[c] # <<>>,
         \A d \in Channels : d # c => queue'[d] = queue[d]
  PROVE  Asleep(state, waiter, wait, queue', program)
  BY DEF IInv, SleepInv, Asleep

(* RECV or TRY_RECV of a message that is there.                            *)
LEMMA RecvTakesKeeps == ASSUME IInv, NEW h \in HandleIds, RecvTakes(h) PROVE IInv'
<1> DEFINE c == handles[current][h].channel
<1>1. /\ TableTypes /\ IpcTypes /\ TaskTypes /\ SleepInv /\ c \in Channels
      /\ current \in Slots
  BY UserFacts DEF IInv, RecvTakes, TableTypes
<1>2. /\ queue[c] # <<>> /\ Take(c)
      /\ result' = [result EXCEPT ![current] = Head(queue[c])]
      /\ UNCHANGED <<tableVars, waiter, wait, rightsVars, taskVars>>
  BY DEF RecvTakes
<1> HIDE DEF c
<1>3. UNCHANGED <<state, current, donor, target, program, generation, pending, spawn, halted>>
  BY <1>2 DEF tableVars, taskVars
<1>4. /\ Queues(queue') /\ backlog' \in Seq(TaskRefs) /\ Len(backlog') <= BacklogCap
      /\ \A d \in Channels : d # c => queue'[d] = queue[d]
      /\ Keeps(Inbox', Inbox)
  BY <1>1, <1>2, TakeFacts DEF IpcTypes
<1>5. Asleep(state, waiter, wait, queue', program)
  BY <1>1, <1>2, <1>4, TakenKeepsSleep
<1>6. result' \in [Slots -> Results]
  <2>1. queue[c] \in Seq(Messages) /\ result \in [Slots -> Results]
    BY <1>1 DEF IpcTypes, Queues
  <2>2. Head(queue[c]) \in Messages
    BY <1>2, <2>1
  <2>3. QED
    BY <1>1, <1>2, <2>1, <2>2 DEF Results
<1>7. TableTypes' /\ Awake(state') /\ IpcTypes' /\ TaskTypes' /\ Owned(waiter', program)
  BY <1>1, <1>2, <1>3, <1>4, <1>6
  DEF IpcTypes, TaskTypes, TableTypes, SleepInv, Awake, Owned
<1>8. QED
  BY <1>2, <1>3, <1>4, <1>5, <1>7, QuietStep DEF SameSlots

(* A built-in takes a message; none of them reads init's inbox.            *)
LEMMA BuiltinTakesKeeps == ASSUME IInv, NEW c \in Channels, BuiltinTakes(c) PROVE IInv'
<1>1. /\ TableTypes /\ IpcTypes /\ TaskTypes /\ SleepInv /\ current \in Slots
  BY DEF IInv, TableTypes
<1>2. /\ queue[c] # <<>> /\ queue' = [queue EXCEPT ![c] = Tail(@)]
      /\ result' = [result EXCEPT ![current] = Head(queue[c])]
      /\ UNCHANGED <<tableVars, waiter, backlog, wait, rightsVars, taskVars>>
  BY DEF BuiltinTakes
<1>3. UNCHANGED <<state, current, donor, target, program, generation, pending, spawn, halted>>
  BY <1>2 DEF tableVars, taskVars
<1>4. /\ queue[c] \in Seq(Messages) /\ Head(queue[c]) \in Messages
      /\ Tail(queue[c]) \in Seq(Messages) /\ Len(Tail(queue[c])) <= ChannelCap
  <2>1. queue[c] \in Seq(Messages) /\ Len(queue[c]) <= ChannelCap
    BY <1>1 DEF IpcTypes, Queues
  <2>2. /\ Tail(queue[c]) \in Seq(Messages) /\ Head(queue[c]) \in Messages
        /\ Len(Tail(queue[c])) = Len(queue[c]) - 1 /\ Len(queue[c]) \in Nat
    BY <1>2, <2>1
  <2>3. QED
    BY <2>1, <2>2, Sizes
<1>5. Queues(queue') /\ \A d \in Channels : d # c => queue'[d] = queue[d]
  BY <1>1, <1>2, <1>4 DEF Queues, IpcTypes
<1>6. Asleep(state, waiter, wait, queue', program)
  BY <1>2, <1>5, TakenKeepsSleep
<1>7. TableTypes' /\ Awake(state') /\ IpcTypes' /\ TaskTypes' /\ Owned(waiter', program)
  BY <1>1, <1>2, <1>3, <1>4, <1>5
  DEF IpcTypes, TaskTypes, TableTypes, SleepInv, Awake, Owned, Results
<1>8. Keeps(Inbox', Inbox)
  <2>1. c # INIT_INBOX
    <3>1. program[current] \in {"mcp", "kbd", "comp", "shell", "dash"}
      BY KernelAssumption DEF BuiltinTakes, Builtin
    <3>2. Reads[program[current]] \subseteq {SHELL_KEYS, KBD_EVENTS}
      BY <3>1 DEF Reads
    <3>3. QED
      BY <3>2 DEF BuiltinTakes, INIT_INBOX, KBD_EVENTS, SHELL_KEYS
  <2>2. Inbox' = Inbox
    BY <1>2, <1>5, <2>1, Sizes DEF Inbox
  <2>3. Len(Inbox) \in Nat
    BY <1>1, InboxTypes DEF IpcTypes
  <2>4. QED
    BY <2>2, <2>3, KeepsSame
<1>9. QED
  BY <1>2, <1>3, <1>6, <1>7, <1>8, QuietStep DEF SameSlots

(* The task on the CPU goes to sleep on c, where nobody slept.             *)
LEMMA SleepsFacts ==
  ASSUME IInv, Acts, current # IdleTask,
         NEW c \in Channels, queue[c] = <<>>, waiter[c] = NONE,
         waiter' = [waiter EXCEPT ![c] = current], NEW u \in WaitTables,
         \A t \in Slots : t # current => u[t] = wait[t],
         u[current] # NoWait <=> program[current] = "elf",
         program[current] = "elf" => u[current].channel = c
  PROVE  /\ waiter' \in WaiterTables
         /\ [state EXCEPT ![current] = "Blocked"] \in [Slots -> States]
         /\ Awake([state EXCEPT ![current] = "Blocked"])
         /\ Asleep([state EXCEPT ![current] = "Blocked"], waiter', u, queue, program)
<1> DEFINE st == [state EXCEPT ![current] = "Blocked"]
<1>1. /\ current \in Slots /\ state[current] = "Running"
      /\ \A d \in Channels : waiter[d] # current
      /\ TableTypes /\ IpcTypes /\ SleepInv
  BY RunningFacts DEF IInv
<1>2. /\ st \in [Slots -> States] /\ Awake(st)
      /\ \A t \in Slots : st[t] = IF t = current THEN "Blocked" ELSE state[t]
  BY <1>1, Sizes DEF TableTypes, States, SleepInv, Awake
<1> HIDE DEF st
<1>3. /\ waiter' \in WaiterTables
      /\ \A d \in Channels : waiter'[d] = IF d = c THEN current ELSE waiter[d]
  BY <1>1 DEF IpcTypes, WaiterTables
<1>4. \A t \in Slots : st[t] = "Blocked" <=> \E d \in Channels : waiter'[d] = t
  BY <1>1, <1>2, <1>3, Sizes DEF SleepInv, Asleep
<1>5. ASSUME NEW d \in Channels, waiter'[d] # NONE
      PROVE  /\ queue[d] = <<>>
             /\ \A e \in Channels \ {d} : waiter'[e] # waiter'[d]
             /\ program[waiter'[d]] = "elf" => u[waiter'[d]].channel = d
  <2>1. CASE d = c
    BY <1>1, <1>3, <2>1
  <2>2. CASE d # c
    <3>1. waiter'[d] = waiter[d] /\ waiter[d] \in Slots /\ waiter[d] # current
      BY <1>1, <1>3, <1>5, <2>2 DEF IpcTypes, WaiterTables
    <3>2. \A e \in Channels \ {d} : waiter'[e] # waiter'[d]
      BY <1>1, <1>3, <1>5, <3>1 DEF SleepInv, Asleep
    <3>3. QED
      BY <1>1, <1>5, <3>1, <3>2 DEF SleepInv, Asleep
  <2>3. QED
    BY <2>1, <2>2
<1>6. \A t \in Slots : u[t] # NoWait <=> st[t] = "Blocked" /\ program[t] = "elf"
  BY <1>1, <1>2 DEF SleepInv, Asleep
<1>7. Asleep(st, waiter', u, queue, program)
  BY <1>4, <1>5, <1>6 DEF Asleep
<1>8. QED
  BY <1>2, <1>3, <1>7 DEF st

(* RECV on an empty channel: the caller holds RECV, so nobody else sleeps  *)
(* there.                                                                  *)
LEMMA RecvBlocksKeeps ==
  ASSUME IInv, NEW h \in HandleIds, NEW deadline \in {"forever", "later"},
         RecvBlocks(h, deadline)
  PROVE  IInv'
<1> DEFINE c == handles[current][h].channel
           st == [state EXCEPT ![current] = "Blocked"]
<1>1. /\ TableTypes /\ IpcTypes /\ TaskTypes /\ SleepInv
      /\ c \in Channels /\ c \in Created /\ receiver[c] = current /\ current # IdleTask
      /\ Acts /\ program[current] = "elf"
      /\ RightsTypes
  BY UserFacts DEF IInv, RecvBlocks, User, RightsInv
<1>2. /\ queue[c] = <<>>
      /\ waiter' = [waiter EXCEPT ![c] = current]
      /\ wait' = [wait EXCEPT ![current] = [channel |-> c, deadline |-> deadline]]
      /\ result' = [result EXCEPT ![current] = Nothing]
      /\ SwitchAway(st, donor, target)
      /\ UNCHANGED <<queue, backlog, rightsVars, taskVars>>
  BY DEF RecvBlocks
<1> HIDE DEF c
<1>3. /\ current \in Slots /\ state[current] = "Running"
      /\ \A d \in Channels : waiter[d] # current
  BY <1>1, RunningFacts
<1>4. waiter[c] = NONE
  <2>1. c # SHELL_KEYS
    BY <1>1, Sizes DEF Created, INIT_INBOX, SHELL_KEYS, RightsTypes
  <2>2. QED
    BY <1>1, <1>3, <2>1 DEF SleepInv, Owned
<1>5. UNCHANGED <<program, generation, pending, spawn, halted>>
  BY <1>2 DEF taskVars
<1>6. [channel |-> c, deadline |-> deadline] \in UserWaits
  BY <1>1 DEF UserWaits, Deadlines
<1>7. /\ wait' \in WaitTables /\ wait'[current] = [channel |-> c, deadline |-> deadline]
      /\ \A t \in Slots : t # current => wait'[t] = wait[t]
  BY <1>1, <1>2, <1>3, <1>6 DEF IpcTypes, WaitTables
<1>8. wait'[current] # NoWait /\ wait'[current].channel = c
  BY <1>6, <1>7, NoWaitFacts
<1>9. /\ waiter' \in WaiterTables /\ st \in [Slots -> States] /\ Awake(st)
      /\ Asleep(st, waiter', wait', queue, program)
  BY <1>1, <1>2, <1>4, <1>7, <1>8, SleepsFacts
<1>10. \A t \in Slots : st[t] = IF t = current THEN "Blocked" ELSE state[t]
  BY <1>1 DEF TableTypes
<1> HIDE DEF st
<1>11. TableTypes' /\ Awake(state') /\ SameButTurn(st, state')
  BY <1>1, <1>2, <1>9, SwitchFacts DEF TableTypes
<1>12. Asleep(state', waiter', wait', queue', program)
  BY <1>2, <1>9, <1>11, AsleepThroughSwitch
<1>13. IpcTypes' /\ TaskTypes'
  BY <1>1, <1>2, <1>3, <1>5, <1>7, <1>9 DEF IpcTypes, TaskTypes, Queues, Results
<1>14. SameSlots(state, state')
  BY <1>3, <1>10, <1>11 DEF SameButTurn, SameSlots
<1>15. Owned(waiter', program)
  <2>1. \A d \in Channels : waiter'[d] = IF d = c THEN current ELSE waiter[d]
    BY <1>1, <1>2 DEF IpcTypes, WaiterTables
  <2>2. QED
    BY <1>1, <2>1 DEF SleepInv, Owned
<1>16. QED
  BY <1>2, <1>5, <1>11, <1>12, <1>13, <1>14, <1>15, QuietStep

(* The shell waits for keys: there is one shell, so nobody else sleeps     *)
(* there.                                                                  *)
LEMMA BuiltinBlocksKeeps == ASSUME IInv, NEW c \in Channels, BuiltinBlocks(c) PROVE IInv'
<1> DEFINE st == [state EXCEPT ![current] = "Blocked"]
<1>1. /\ TableTypes /\ IpcTypes /\ TaskTypes /\ SleepInv /\ Programs
      /\ Acts /\ program[current] = "shell" /\ current # IdleTask
      /\ RightsTypes
  BY DEF IInv, BuiltinBlocks, Builtin, Programs, RightsInv
<1>2. /\ queue[c] = <<>> /\ c = SHELL_KEYS
      /\ waiter' = [waiter EXCEPT ![c] = current]
      /\ result' = [result EXCEPT ![current] = Nothing]
      /\ state' = st
      /\ UNCHANGED <<current, donor, target, queue, backlog, wait, rightsVars, taskVars>>
  BY DEF BuiltinBlocks, Reads
<1>3. /\ current \in Slots /\ state[current] = "Running" /\ \A d \in Channels : waiter[d] # current
      /\ wait[current] = NoWait
  BY <1>1, RunningFacts
<1>4. waiter[c] = NONE
  <2>1. c \notin Created
    BY <1>1, <1>2, Sizes DEF Created, INIT_INBOX, SHELL_KEYS, RightsTypes
  <2>2. waiter[c] # NONE => program[waiter[c]] = "shell" /\ waiter[c] \in Slots
    BY <1>1, <2>1 DEF SleepInv, Owned, IpcTypes, WaiterTables
  <2>3. QED
    BY <1>1, <1>3, <2>2 DEF Programs
<1>5. UNCHANGED <<program, generation, pending, spawn, halted>>
  BY <1>2 DEF taskVars
<1>6. /\ waiter' \in WaiterTables /\ st \in [Slots -> States] /\ Awake(st)
      /\ Asleep(st, waiter', wait, queue, program)
  BY <1>1, <1>2, <1>3, <1>4, SleepsFacts DEF IpcTypes
<1>7. \A t \in Slots : st[t] = IF t = current THEN "Blocked" ELSE state[t]
  BY <1>1 DEF TableTypes
<1> HIDE DEF st
<1>8. TableTypes' /\ Awake(state') /\ IpcTypes' /\ TaskTypes'
  BY <1>1, <1>2, <1>3, <1>5, <1>6 DEF TableTypes, IpcTypes, TaskTypes, Queues, Results
<1>9. SameSlots(state, state')
  BY <1>2, <1>3, <1>7 DEF SameSlots
<1>10. Owned(waiter', program)
  <2>1. \A d \in Channels : waiter'[d] = IF d = c THEN current ELSE waiter[d]
    BY <1>1, <1>2 DEF IpcTypes, WaiterTables
  <2>2. QED
    BY <1>1, <1>2, <2>1 DEF SleepInv, Owned
<1>11. Asleep(state', waiter', wait', queue', program)
  BY <1>2, <1>6
<1>12. QED
  BY <1>2, <1>5, <1>8, <1>9, <1>10, <1>11, QuietStep

-----------------------------------------------------------------------------
(* The end of a task.                                                      *)
RetiredFacts ==
  /\ Retired \in [Slots -> States] /\ Awake(Retired)
  /\ Retired[current] = "Free"
  /\ \A t \in Slots \ {current} : \A s \in {"Free", "Reserved"} :
       Retired[t] = s <=> state[t] = s
  /\ Asleep(Retired, waiter', wait', queue', program')
  /\ RightsInv' /\ Created' = Created
  /\ handles'[current] = EmptyTable
  /\ \A t \in Slots : handles[t] = EmptyTable => handles'[t] = EmptyTable
  /\ IpcTypes' /\ TaskTypes' /\ Owned(waiter, program)'
  /\ \A t \in Slots : program'[t] = IF t = current THEN "none" ELSE program[t]
  /\ SpawnStaysValid'
  /\ pending' = pending \cup {Me} /\ UNCHANGED <<generation, spawn>>
  /\ Me \in TaskRefs /\ Told(Me)

(* retire_current, before the next task is chosen.                         *)
LEMMA RetireKeeps == ASSUME IInv, Retire PROVE RetiredFacts
<1> DEFINE st == [state EXCEPT ![current] = "Free"]
           w2 == WaitersLeft
           u2 == WaitsLeft
<1>1. /\ TableTypes /\ IpcTypes /\ TaskTypes /\ SleepInv /\ Programs /\ RightsInv
      /\ Acts /\ current \notin {IdleTask, InitTask} /\ SpawnStaysValid
  BY DEF IInv, Retire
<1>2. /\ SendHome(current)
      /\ pending' = pending \cup {Me}
      /\ program' = [program EXCEPT ![current] = "none"]
      /\ Notify(Me, w2, u2)
      /\ UNCHANGED <<nextId, generation, spawn, halted>>
  BY DEF Retire
<1>3. /\ current \in Slots /\ state[current] = "Running"
      /\ \A d \in Channels : waiter[d] # current
      /\ wait[current] = NoWait
  BY <1>1, RunningFacts
<1>4. Me \in TaskRefs
  BY <1>1, <1>3 DEF Me, TaskRefs, TaskTypes
<1>5. w2 \in WaiterTables /\ \A c \in Channels : w2[c] = waiter[c]
  <2>1. \A c \in Channels : w2[c] = waiter[c]
    BY <1>3 DEF WaitersLeft, Cancelled
  <2>2. w2 \in WaiterTables
    BY <1>1, <2>1 DEF WaitersLeft, IpcTypes, WaiterTables
  <2>3. QED
    BY <2>1, <2>2
<1>6. u2 \in WaitTables /\ \A t \in Slots : u2[t] = wait[t]
  BY <1>1, <1>3 DEF WaitsLeft, IpcTypes, WaitTables
<1>7. /\ st \in [Slots -> States] /\ Awake(st)
      /\ \A t \in Slots : st[t] = IF t = current THEN "Free" ELSE state[t]
  BY <1>1, <1>3, Sizes DEF TableTypes, States, SleepInv, Awake
<1>8. \A t \in Slots : program'[t] = IF t = current THEN "none" ELSE program[t]
  BY <1>1, <1>2 DEF TaskTypes
<1> HIDE DEF st, w2, u2
<1>9. Asleep(st, w2, u2, queue, program')
  <2>1. \A t \in Slots : st[t] = "Blocked" <=> \E c \in Channels : w2[c] = t
    BY <1>1, <1>3, <1>5, <1>7 DEF SleepInv, Asleep
  <2>2. \A c \in Channels : w2[c] # NONE =>
          w2[c] \in Slots /\ w2[c] # current /\ program'[w2[c]] = program[w2[c]]
    BY <1>1, <1>3, <1>5, <1>8 DEF IpcTypes, WaiterTables
  <2>3. \A c \in Channels : w2[c] # NONE =>
          /\ queue[c] = <<>>
          /\ \A d \in Channels \ {c} : w2[d] # w2[c]
          /\ program'[w2[c]] = "elf" => u2[w2[c]].channel = c
    BY <1>1, <1>5, <1>6, <2>2 DEF SleepInv, Asleep
  <2>4. \A t \in Slots : u2[t] # NoWait <=> st[t] = "Blocked" /\ program'[t] = "elf"
    BY <1>1, <1>3, <1>6, <1>7, <1>8 DEF SleepInv, Asleep
  <2>5. QED
    BY <2>1, <2>3, <2>4 DEF Asleep
<1>10. Retired = WokenByNotice(w2, u2, st)
  BY DEF Retired, st, w2, u2
<1>11. /\ Retired \in [Slots -> States] /\ Awake(Retired)
       /\ SameSlots(st, Retired)
       /\ \A c \in Channels : waiter'[c] \in {w2[c], NONE}
       /\ waiter' \in WaiterTables /\ wait' \in WaitTables
       /\ Queues(queue') /\ result' \in [Slots -> Results]
       /\ backlog' \in Seq(TaskRefs) /\ Len(backlog') <= BacklogCap
       /\ Asleep(Retired, waiter', wait', queue', program')
       /\ Told(Me)
  <2> DEFINE st2 == WokenByNotice(w2, u2, st)
  <2>1. /\ st2 \in [Slots -> States] /\ Awake(st2)
        /\ SameSlots(st, st2)
        /\ \A c \in Channels : waiter'[c] \in {w2[c], NONE}
        /\ waiter' \in WaiterTables /\ wait' \in WaitTables
        /\ Queues(queue') /\ result' \in [Slots -> Results]
        /\ backlog' \in Seq(TaskRefs) /\ Len(backlog') <= BacklogCap
        /\ Asleep(st2, waiter', wait', queue', program')
        /\ Told(Me)
    <3>1. /\ Queues(queue) /\ result \in [Slots -> Results]
          /\ backlog \in Seq(TaskRefs) /\ Len(backlog) <= BacklogCap
      BY <1>1 DEF IpcTypes
    <3>2. QED
      BY <1>2, <1>4, <1>5, <1>6, <1>7, <1>9, <3>1, NotifyFacts
  <2> HIDE DEF st2
  <2>2. Retired = st2
    BY <1>10 DEF st2
  <2>3. QED
    BY <2>1, <2>2
<1>12. /\ RightsInv' /\ Created' = Created
       /\ handles'[current] = EmptyTable
       /\ \A u \in Slots, h \in HandleIds : u # current =>
              /\ handles'[u][h].channel = handles[u][h].channel
              /\ handles[u][h].rights \subseteq handles'[u][h].rights
       /\ \A u \in Slots : u # current /\ handles[u] = EmptyTable => handles'[u] = EmptyTable
       /\ \A c \in Created : receiver[c] # current => receiver'[c] = receiver[c]
  <2>1. Created' = Created
    BY <1>2 DEF Created
  <2>2. QED
    BY <1>1, <1>2, <1>3, <2>1, SendHomeKeepsRights
<1>13. IpcTypes' /\ TaskTypes'
  <2>1. IpcTypes'
    BY <1>11 DEF IpcTypes
  <2>2. TaskTypes'
    BY <1>1, <1>2, <1>4 DEF TaskTypes
  <2>3. QED
    BY <2>1, <2>2
<1>14. Owned(waiter, program)'
  <2> SUFFICES ASSUME NEW c \in Channels, waiter'[c] # NONE
               PROVE  IF program'[waiter'[c]] = "elf"
                      THEN c \in Created' /\ waiter'[c] = receiver'[c]
                      ELSE c = SHELL_KEYS /\ program'[waiter'[c]] = "shell"
    BY <1>12 DEF Owned
  <2>1. waiter'[c] = waiter[c] /\ waiter[c] \in Slots /\ waiter[c] # current
    BY <1>1, <1>3, <1>5, <1>11 DEF IpcTypes, WaiterTables
  <2>2. program'[waiter[c]] = program[waiter[c]]
    BY <1>8, <2>1
  <2>3. IF program[waiter[c]] = "elf" THEN c \in Created /\ waiter[c] = receiver[c]
        ELSE c = SHELL_KEYS /\ program[waiter[c]] = "shell"
    BY <1>1, <2>1 DEF SleepInv, Owned
  <2>4. QED
    BY <1>12, <2>1, <2>2, <2>3
<1>15. SpawnStaysValid'
  <2>1. \A h \in HandleIds :
          /\ handles'[InitTask][h].channel = handles[InitTask][h].channel
          /\ handles[InitTask][h].rights \subseteq handles'[InitTask][h].rights
    BY <1>1, <1>12, Sizes
  <2>2. QED
    BY <1>1, <1>2, <2>1, SpawnKept
<1>16. /\ Retired[current] = "Free"
       /\ \A t \in Slots \ {current} : \A s \in {"Free", "Reserved"} :
            Retired[t] = s <=> state[t] = s
  BY <1>3, <1>7, <1>11 DEF SameSlots
<1>17. QED
  BY <1>2, <1>4, <1>8, <1>11, <1>12, <1>13, <1>14, <1>15, <1>16 DEF RetiredFacts

(* What is left of the exit, whoever runs next: the slot is free, its      *)
(* stack is queued and init has been told.                                 *)
LEMMA LeaveKeeps ==
  ASSUME IInv, RetiredFacts, current \notin {IdleTask, InitTask},
         state[current] = "Running",
         TableTypes', Awake(state'),
         SameButTurn(Retired, state')
  PROVE  IInv'
<1>1. Asleep(state', waiter', wait', queue', program')
  BY AsleepThroughSwitch DEF RetiredFacts
<1>2. current \in Slots /\ Programs
  BY DEF IInv, TableTypes
<1>3. Programs'
  <2>1. program'[IdleTask] = "none"
    BY <1>2, Sizes DEF RetiredFacts, Programs
  <2>2. ASSUME NEW t \in Slots, state'[t] \in {"Free", "Reserved"}
        PROVE  program'[t] = "none" /\ handles'[t] = EmptyTable
    <3>1. CASE t = current
      BY <3>1 DEF RetiredFacts
    <3>2. CASE t # current
      <4>1. state[t] \in {"Free", "Reserved"}
        BY <2>2, <3>2 DEF RetiredFacts, SameButTurn
      <4>2. QED
        BY <1>2, <3>2, <4>1 DEF RetiredFacts, Programs
    <3>3. QED
      BY <3>1, <3>2
  <2>3. \A t, u \in Slots :
          program'[t] = program'[u] /\ program'[t] \notin {"none", "elf"} => t = u
    BY <1>2 DEF RetiredFacts, Programs
  <2>4. QED
    BY <2>1, <2>2, <2>3 DEF Programs
<1>4. SleepInv'
  <2>1. Asleep(state, waiter, wait, queue, program)' /\ Owned(waiter, program)'
    BY <1>1 DEF RetiredFacts, Asleep
  <2>2. QED
    BY <2>1 DEF SleepInv
<1>5. StackInv'
  <2>1. Occupied' = Occupied \ {current} /\ current \in Occupied
    <3>1. \A t \in Slots : state'[t] = "Free" <=> state[t] = "Free" \/ t = current
      BY DEF RetiredFacts, SameButTurn
    <3>2. QED
      BY <1>2, <3>1 DEF Occupied
  <2>2. /\ pending \in SUBSET TaskRefs
        /\ Occupied \in SUBSET (Slots \ {IdleTask, InitTask})
    BY DEF IInv, TaskTypes, Occupied
  <2>3. /\ IsFiniteSet(pending) /\ IsFiniteSet(Occupied)
        /\ Cardinality(pending) \in Nat /\ Cardinality(Occupied) \in Nat
    BY <2>2, Finite
  <2>4. Cardinality(Occupied \ {current}) = Cardinality(Occupied) - 1
    BY <2>1, <2>3, FS_RemoveElement
  <2>5. /\ Cardinality(pending \cup {Me}) \in Int
        /\ Cardinality(pending \cup {Me}) <= Cardinality(pending) + 1
    BY <2>3, AtMostOneMore
  <2>6. pending' = pending \cup {Me} /\ spawn' = spawn /\ StackInv
    BY DEF RetiredFacts, IInv
  <2>7. Load \in Int /\ Load' \in Int /\ Load' <= Load
    BY <2>1, <2>3, <2>4, <2>5, <2>6 DEF Load
  <2>8. NoStack \notin pending'
    BY <2>6 DEF StackInv, NoStack, Me
  <2>9. NoStack' = NoStack
    BY DEF NoStack
  <2>10. QED
    BY <2>6, <2>7, <2>8, <2>9, Sizes DEF StackInv
<1>6. NoticeInv'
  <2>0. PICK r \in Slots : r = current
    BY <1>2
  <2>1. /\ \A t \in Slots : Live(t)' => Live(t)
        /\ Live(r) /\ ~Live(r)'
    <3>1. \A t \in Slots : state'[t] = "Free" <=> state[t] = "Free" \/ t = current
      BY DEF RetiredFacts, SameButTurn
    <3>2. \A t \in Slots \ {current} : state'[t] = "Reserved" <=> state[t] = "Reserved"
      BY DEF RetiredFacts, SameButTurn
    <3>3. state \in [Slots -> States] /\ state' \in [Slots -> States]
      BY DEF IInv, TableTypes
    <3>4. Live(r) /\ ~Live(r)'
      BY <2>0, <3>1 DEF Live
    <3>5. QED
      BY <1>2, <3>1, <3>2, <3>3, <3>4 DEF Live, States
  <2>2. StaysGone
    BY <2>1, GoneStays DEF IInv, RetiredFacts
  <2>3. PICK m \in TaskRefs : m = Me
    BY DEF RetiredFacts
  <2>4. m[1] = r /\ m[2] = generation[r] /\ generation[r] \in Nat
    BY <1>2, <2>0, <2>3, Sizes DEF Me, IInv, TaskTypes
  <2>5. ~Gone(m)
    BY <2>1, <2>4 DEF Gone
  <2>6. Gone(m)'
    BY <2>1, <2>4 DEF Gone, RetiredFacts
  <2>7. Told(m)
    BY <2>3 DEF RetiredFacts
  <2>8. QED
    BY <2>2, <2>5, <2>6, <2>7, NoticeKeeps DEF IInv, IpcTypes
<1>7. OneLoading'
  <2>1. \A t \in Slots : state'[t] = "Reserved" => state[t] = "Reserved"
    BY <1>2 DEF RetiredFacts, SameButTurn
  <2>2. QED
    BY <2>1 DEF OneLoading, IInv, RetiredFacts
<1>8. QED
  BY <1>3, <1>4, <1>5, <1>6, <1>7 DEF IInv, RetiredFacts

(* EXIT.                                                                   *)
LEMMA ExitKeeps == ASSUME IInv, Exit PROVE IInv'
<1>1. Retire /\ SwitchAway(Retired, DonorLeft, TargetLeft)
      /\ current \notin {IdleTask, InitTask} /\ state[current] = "Running"
  BY DEF Exit, Retire, Acts
<1>2. RetiredFacts
  BY <1>1, RetireKeeps
<1>3. current \in Slots
  BY DEF IInv, TableTypes
<1>4. TableTypes' /\ Awake(state') /\ SameButTurn(Retired, state')
  BY <1>1, <1>2, <1>3, SwitchFacts DEF RetiredFacts, TableTypes
<1>5. QED
  BY <1>1, <1>2, <1>4, LeaveKeeps

(* A fault of an EL0 task, which ends it.                                  *)
LEMMA FaultKeeps == ASSUME IInv, Fault PROVE IInv'
<1>1. Retire /\ current \notin {IdleTask, InitTask} /\ state[current] = "Running"
  BY DEF Fault, Retire, Acts
<1>2. state' = Retired /\ donor' = DonorLeft /\ target' = TargetLeft /\ current' = current
  BY DEF Fault
<1>3. RetiredFacts
  BY <1>1, RetireKeeps
<1>4. TableTypes' /\ Awake(state')
  BY <1>2, <1>3 DEF RetiredFacts, IInv, TableTypes, DonorLeft, TargetLeft
<1>5. SameButTurn(Retired, state')
  BY <1>2 DEF SameButTurn
<1>6. QED
  BY <1>1, <1>3, <1>4, <1>5, LeaveKeeps

-----------------------------------------------------------------------------
(* What init does.                                                         *)
LEMMA ChannelCreateKeeps == ASSUME IInv, NEW h \in HandleIds, ChannelCreate(h) PROVE IInv'
<1>1. /\ TableTypes /\ IpcTypes /\ TaskTypes /\ SleepInv /\ Programs /\ RightsInv
      /\ Create(h) /\ current = InitTask /\ state[current] = "Running" /\ spawn = Idle
      /\ UNCHANGED <<tableVars, ipcVars, taskVars>>
  BY DEF IInv, ChannelCreate, User, Acts
<1>2. UNCHANGED <<state, current, donor, target, queue, waiter, backlog, wait, result,
                  program, generation, pending, spawn, halted>>
  BY <1>1 DEF tableVars, ipcVars, taskVars
<1>3. RightsInv'
  BY <1>1, CreateKeepsRights
<1>4. /\ \A t \in Slots : t # InitTask => handles'[t] = handles[t]
      /\ \A c \in Created : receiver'[c] = receiver[c] /\ c \in Created'
  <2>1. RightsTypes /\ handles' = [handles EXCEPT ![InitTask][h] =
          [channel |-> nextId, rights |-> {"send", "recv"}]]
    BY <1>1 DEF RightsInv, Create
  <2>2. nextId \notin Created /\ Created \subseteq Created' /\ Created \subseteq Channels
    BY <1>1, <2>1, CreatedFacts, Sizes DEF Create, Created, RightsTypes, BootChannels,
       INIT_INBOX
  <2>3. receiver' = [receiver EXCEPT ![nextId] = InitTask]
    BY <1>1 DEF Create
  <2>4. QED
    BY <2>1, <2>2, <2>3 DEF RightsTypes
<1>5. Programs'
  BY <1>1, <1>2, <1>4 DEF Programs
<1>6. SleepInv'
  <2>1. Owned(waiter, program)'
    BY <1>1, <1>2, <1>4 DEF SleepInv, Owned
  <2>2. Asleep(state, waiter, wait, queue, program)' /\ Awake(state)'
    BY <1>1, <1>2 DEF SleepInv, Asleep, Awake
  <2>3. QED
    BY <2>1, <2>2 DEF SleepInv
<1>7. TableTypes' /\ IpcTypes' /\ TaskTypes'
  BY <1>1, <1>2 DEF TableTypes, IpcTypes, TaskTypes, Queues
<1>8. SpawnStaysValid'
  BY <1>1, <1>2 DEF SpawnStaysValid, Idle
<1>9. StackInv'
  BY <1>1, <1>2, StacksShrink DEF IInv, Occupied
<1>10. NoticeInv'
  BY <1>1, <1>2, GoneStays, NoticesStill DEF Live
<1>11. OneLoading'
  BY <1>2 DEF IInv, OneLoading
<1>12. QED
  BY <1>3, <1>5, <1>6, <1>7, <1>8, <1>9, <1>10, <1>11 DEF IInv

(* A step of a SPAWN that has not installed its task yet, or of init's     *)
(* end: slots may be claimed or given back, and nobody falls asleep.       *)
LEMMA SlotStep ==
  ASSUME IInv, UNCHANGED <<current, donor, target, ipcVars, rightsVars, program, generation>>,
         TaskTypes', SpawnStaysValid', StackInv', OneLoading', state' \in [Slots -> States],
         \A t \in Slots : \/ state'[t] = state[t]
                          \/ /\ state[t] \in {"Free", "Reserved"}
                             /\ state'[t] \in {"Free", "Reserved"}
  PROVE  IInv'
<1>1. UNCHANGED <<current, donor, target, queue, waiter, backlog, wait, result, program,
                  handles, receiver>>
  BY DEF ipcVars, rightsVars
<1>2. RightsInv' /\ Created' = Created
  BY RightsUnchanged DEF IInv
<1>3. TableTypes' /\ IpcTypes'
  BY <1>1 DEF IInv, TableTypes, IpcTypes, Queues
<1>4. Programs'
  BY <1>1 DEF IInv, Programs
<1>5. Asleep(state, waiter, wait, queue, program)'
  BY <1>1 DEF IInv, SleepInv, Asleep
<1>6. Awake(state)' /\ Owned(waiter, program)'
  BY <1>1, <1>2, Sizes DEF IInv, SleepInv, Awake, Owned
<1>7. NoticeInv'
  <2>1. \A t \in Slots : Live(t)' => Live(t)
    BY DEF Live
  <2>2. QED
    BY <1>1, <2>1, GoneStays, NoticesStill DEF IInv
<1>8. QED
  BY <1>2, <1>3, <1>4, <1>5, <1>6, <1>7 DEF IInv, SleepInv

(* SPAWN with its grants resolved.                                         *)
LEMMA SpawnBeginsKeeps ==
  ASSUME IInv, NEW grants \in GrantLists, SpawnBegins(grants)
  PROVE  IInv'
<1>1. /\ TaskTypes /\ TableTypes /\ grants \in Seq(Grants) /\ Resolves(grants)
      /\ spawn' = [step |-> "reap", grants |-> grants]
      /\ UNCHANGED <<tableVars, ipcVars, rightsVars, program, generation, pending, halted>>
  BY KernelAssumption DEF IInv, SpawnBegins
<1>2. UNCHANGED <<state, current, donor, target, handles>>
  BY <1>1 DEF tableVars, rightsVars
<1>3. TaskTypes'
  BY <1>1 DEF TaskTypes
<1>4. SpawnStaysValid'
  BY <1>1, <1>2 DEF SpawnStaysValid, Resolves, GrantedChannel
<1>5. StackInv'
  BY <1>1, <1>2, StacksShrink DEF IInv, Occupied
<1>6. OneLoading'
  BY <1>1, <1>2 DEF IInv, OneLoading, SpawnBegins, User, Acts, Idle
<1>7. QED
  BY <1>1, <1>2, <1>3, <1>4, <1>5, <1>6, SlotStep DEF TableTypes

(* SPAWN reaps, which makes room for the exits that may follow.            *)
LEMMA SpawnReapsKeeps == ASSUME IInv, SpawnReaps PROVE IInv'
<1>1. /\ TaskTypes /\ TableTypes /\ SpawnStaysValid /\ spawn.step = "reap"
      /\ pending' = Reaped(NoStack) /\ StackInv /\ spawn' = [spawn EXCEPT !.step = "claim"]
      /\ UNCHANGED <<tableVars, ipcVars, rightsVars, program, generation, halted>>
  BY DEF IInv, SpawnReaps, SpawnAt
<1>2. UNCHANGED <<state, current, donor, target, handles>>
  BY <1>1 DEF tableVars, rightsVars
<1>3. spawn' = [step |-> "claim", grants |-> spawn.grants] /\ spawn.grants \in Seq(Grants)
  BY <1>1 DEF TaskTypes
<1>4. TaskTypes'
  BY <1>1, <1>3 DEF TaskTypes, Reaped
<1>5. SpawnStaysValid'
  BY <1>1, <1>2, <1>3 DEF SpawnStaysValid, Resolves, GrantedChannel
<1>6. StackInv'
  BY <1>1, StacksReaped
<1>7. OneLoading'
  BY <1>1, <1>2 DEF IInv, OneLoading
<1>8. QED
  BY <1>1, <1>2, <1>4, <1>5, <1>6, <1>7, SlotStep DEF TableTypes

(* SPAWN claims a slot; it has reaped, so the exits since then leave the   *)
(* room that one more task may need.                                       *)
LEMMA SpawnClaimsKeeps == ASSUME IInv, NEW s \in Slots, SpawnClaims(s) PROVE IInv'
<1>1. /\ TaskTypes /\ TableTypes /\ SpawnStaysValid /\ spawn.step = "claim"
      /\ state[s] = "Free" /\ state' = [state EXCEPT ![s] = "Reserved"]
      /\ spawn' = [spawn EXCEPT !.step = "build"]
      /\ UNCHANGED <<current, donor, target, ipcVars, rightsVars, program, generation,
                     pending, halted>>
  BY DEF IInv, SpawnClaims, SpawnAt, FirstFree
<1>2. UNCHANGED handles
  BY <1>1 DEF rightsVars
<1>3. spawn' = [step |-> "build", grants |-> spawn.grants] /\ spawn.grants \in Seq(Grants)
  BY <1>1 DEF TaskTypes
<1>4. TaskTypes'
  BY <1>1, <1>3 DEF TaskTypes
<1>5. SpawnStaysValid'
  BY <1>1, <1>2, <1>3 DEF SpawnStaysValid, Resolves, GrantedChannel
<1>6. /\ state' \in [Slots -> States]
      /\ \A t \in Slots : \/ state'[t] = state[t]
                          \/ /\ state[t] \in {"Free", "Reserved"}
                             /\ state'[t] \in {"Free", "Reserved"}
  BY <1>1 DEF TableTypes, States
<1>7. StackInv'
  <2>1. Occupied' \subseteq Occupied \cup {s}
    BY <1>1 DEF Occupied, TableTypes
  <2>2. /\ pending \in SUBSET TaskRefs
        /\ Occupied \in SUBSET (Slots \ {IdleTask, InitTask})
        /\ Occupied' \in SUBSET (Slots \ {IdleTask, InitTask})
    BY <1>1 DEF TaskTypes, Occupied
  <2>3. /\ IsFiniteSet(Occupied) /\ Cardinality(pending) \in Nat
        /\ Cardinality(Occupied) \in Nat /\ Cardinality(Occupied') \in Nat
    BY <2>2, Finite
  <2>4. /\ IsFiniteSet(Occupied \cup {s})
        /\ Cardinality(Occupied \cup {s}) \in Int
        /\ Cardinality(Occupied \cup {s}) <= Cardinality(Occupied) + 1
    BY <2>3, AtMostOneMore
  <2>5. Cardinality(Occupied') <= Cardinality(Occupied \cup {s})
    BY <2>1, <2>4, FS_Subset
  <2>6. Load \in Int /\ Load' \in Int /\ Load' <= Load + 1
    BY <1>1, <2>3, <2>4, <2>5 DEF Load
  <2>7. StackInv /\ Load <= MaxTasks - 2
    BY <1>1 DEF IInv, StackInv
  <2>8. QED
    BY <1>1, <1>3, <2>6, <2>7, Sizes DEF StackInv, NoStack
<1>8. OneLoading'
  <2>1. \A t \in Slots : state[t] # "Reserved"
    BY <1>1 DEF IInv, OneLoading
  <2>2. \A t \in Slots : state'[t] = "Reserved" => t = s
    BY <1>1, <2>1 DEF TableTypes
  <2>3. spawn'.step = "build"
    BY <1>3
  <2>4. QED
    BY <2>2, <2>3 DEF OneLoading
<1>9. QED
  BY <1>1, <1>4, <1>5, <1>6, <1>7, <1>8, SlotStep

(* A SPAWN that finds no slot or fails to load gives everything back.      *)
LEMMA SpawnEndsKeeps ==
  ASSUME IInv, \/ SpawnFindsNoSlot \/ \E s \in Slots : SpawnFails(s)
  PROVE  IInv'
<1>1. /\ TaskTypes /\ TableTypes /\ spawn' = Idle
      /\ UNCHANGED <<current, donor, target, ipcVars, rightsVars, program, generation,
                     pending, halted>>
  BY DEF IInv, SpawnFindsNoSlot, SpawnFails, tableVars
<1>2. /\ state' \in [Slots -> States]
      /\ \A t \in Slots : \/ state'[t] = state[t]
                          \/ /\ state[t] \in {"Free", "Reserved"}
                             /\ state'[t] \in {"Free", "Reserved"}
  <2>1. CASE SpawnFindsNoSlot
    BY <1>1, <2>1 DEF SpawnFindsNoSlot, tableVars, TableTypes
  <2>2. CASE \E s \in Slots : SpawnFails(s)
    BY <1>1, <2>2 DEF SpawnFails, TableTypes, States
  <2>3. QED
    BY <2>1, <2>2
<1>3. TaskTypes' /\ SpawnStaysValid'
  <2>1. Idle \in [step : {"idle", "reap", "claim", "build"}, grants : Seq(Grants)]
    BY DEF Idle
  <2>2. QED
    BY <1>1, <2>1 DEF TaskTypes, SpawnStaysValid, Idle
<1>4. StackInv'
  <2>1. Occupied' \subseteq Occupied
    <3>1. CASE SpawnFindsNoSlot
      BY <3>1 DEF SpawnFindsNoSlot, tableVars, Occupied
    <3>2. CASE \E s \in Slots : SpawnFails(s)
      BY <1>1, <3>2 DEF SpawnFails, TableTypes, Occupied
    <3>3. QED
      BY <3>1, <3>2
  <2>2. QED
    BY <1>1, <2>1, StacksShrink DEF IInv, Idle
<1>5. OneLoading'
  <2>1. CASE SpawnFindsNoSlot
    BY <2>1 DEF IInv, OneLoading, SpawnFindsNoSlot, SpawnAt, tableVars
  <2>2. ASSUME NEW s \in Slots, SpawnFails(s) PROVE OneLoading'
    <3>1. \A t \in Slots : state[t] = "Reserved" => t = s
      BY <2>2 DEF IInv, OneLoading, SpawnFails
    <3>2. \A t \in Slots : state'[t] # "Reserved"
      BY <1>1, <2>2, <3>1 DEF SpawnFails, TableTypes
    <3>3. QED
      BY <3>2 DEF OneLoading
  <2>3. QED
    BY <2>1, <2>2
<1>6. QED
  BY <1>1, <1>2, <1>3, <1>4, <1>5, SlotStep

(* A built-in that cannot be started, and the end of init.                 *)
LEMMA StillKeeps ==
  ASSUME IInv, \/ SpawnBuiltinFails \/ InitExits \/ HaltLoop \/ UNCHANGED vars
  PROVE  IInv'
<1>1. /\ UNCHANGED <<tableVars, ipcVars, rightsVars, program, generation, spawn>>
      /\ pending' \subseteq pending /\ halted' \in BOOLEAN
  BY DEF IInv, TaskTypes, SpawnBuiltinFails, InitExits, HaltLoop, vars, taskVars, Reaped
<1>2. UNCHANGED <<state, current, donor, target, handles>>
  BY <1>1 DEF tableVars, rightsVars
<1>3. TaskTypes'
  BY <1>1 DEF IInv, TaskTypes
<1>4. SpawnStaysValid'
  BY <1>1, <1>2, SpawnKept DEF IInv
<1>5. StackInv'
  BY <1>1, <1>2, StacksShrink DEF IInv, Occupied
<1>6. OneLoading'
  BY <1>1, <1>2 DEF IInv, OneLoading
<1>7. QED
  BY <1>1, <1>2, <1>3, <1>4, <1>5, <1>6, SlotStep DEF IInv, TableTypes

(* A task made ready in a slot that had none.                              *)
LEMMA InstalledFacts ==
  ASSUME IInv, NEW s \in Slots, state[s] \in {"Free", "Reserved"},
         NEW p, p # "none",
         state' = [state EXCEPT ![s] = "Ready"],
         program' = [program EXCEPT ![s] = p],
         UNCHANGED <<queue, waiter, wait>>
  PROVE  /\ state' \in [Slots -> States]
         /\ Asleep(state', waiter', wait', queue', program')
         /\ Awake(state') /\ s # IdleTask
         /\ \A t \in Slots : /\ state'[t] = IF t = s THEN "Ready" ELSE state[t]
                             /\ program'[t] = IF t = s THEN p ELSE program[t]
         /\ \A c \in Channels : waiter[c] # s
<1>1. TableTypes /\ IpcTypes /\ TaskTypes /\ SleepInv
  BY DEF IInv
<1>2. \A t \in Slots : /\ state'[t] = IF t = s THEN "Ready" ELSE state[t]
                       /\ program'[t] = IF t = s THEN p ELSE program[t]
  BY <1>1 DEF TableTypes, TaskTypes
<1>3. state' \in [Slots -> States]
  BY <1>1 DEF TableTypes, States
<1>4. s # IdleTask /\ Awake(state')
  BY <1>1, <1>2, Sizes DEF SleepInv, Awake
<1>5. \A c \in Channels : waiter[c] # s
  BY <1>1 DEF SleepInv, Asleep
<1>6. wait[s] = NoWait
  BY <1>1 DEF SleepInv, Asleep
<1>7. Asleep(state', waiter', wait', queue', program')
  <2>1. \A t \in Slots : state'[t] = "Blocked" <=> \E c \in Channels : waiter[c] = t
    BY <1>1, <1>2 DEF SleepInv, Asleep
  <2>2. \A c \in Channels : waiter[c] # NONE =>
          waiter[c] \in Slots /\ program'[waiter[c]] = program[waiter[c]]
    BY <1>1, <1>2, <1>5 DEF IpcTypes, WaiterTables
  <2>3. \A t \in Slots : wait[t] # NoWait <=> state'[t] = "Blocked" /\ program'[t] = "elf"
    BY <1>1, <1>2, <1>6 DEF SleepInv, Asleep
  <2>4. QED
    BY <1>1, <2>1, <2>2, <2>3 DEF SleepInv, Asleep
<1>8. QED
  BY <1>2, <1>3, <1>4, <1>5, <1>7

(* SPAWN of a built-in, which no IRQ interrupts.                           *)
LEMMA SpawnBuiltinKeeps ==
  ASSUME IInv, NEW s \in Slots, NEW p \in Builtins, SpawnBuiltin(s, p)
  PROVE  IInv'
<1>1. /\ TableTypes /\ IpcTypes /\ TaskTypes /\ SleepInv /\ Programs /\ RightsInv
      /\ \A t \in Slots : program[t] # p
      /\ state[s] = "Free" /\ generation[s] < MaxGeneration
      /\ pending' = Reaped(NoStack) /\ StackInv
      /\ state' = [state EXCEPT ![s] = "Ready"]
      /\ result' = [result EXCEPT ![s] = Nothing]
      /\ program' = [program EXCEPT ![s] = p]
      /\ generation' = [generation EXCEPT ![s] = @ + 1]
      /\ UNCHANGED <<current, donor, target, queue, waiter, backlog, wait, rightsVars, spawn,
                     halted>>
  BY DEF IInv, SpawnBuiltin, FirstFree
<1>2. p \notin {"none", "elf"}
  BY KernelAssumption
<1>3. /\ state' \in [Slots -> States]
      /\ Asleep(state', waiter', wait', queue', program')
      /\ Awake(state') /\ s # IdleTask
      /\ \A t \in Slots : /\ state'[t] = IF t = s THEN "Ready" ELSE state[t]
                          /\ program'[t] = IF t = s THEN p ELSE program[t]
      /\ \A c \in Channels : waiter[c] # s
  BY <1>1, <1>2, InstalledFacts
<1>4. UNCHANGED <<handles, receiver>>
  BY <1>1 DEF rightsVars
<1>5. RightsInv' /\ Created' = Created
  BY <1>1, RightsUnchanged
<1>6. Programs'
  BY <1>1, <1>3, <1>4, Sizes DEF Programs
<1>7. TableTypes' /\ IpcTypes'
  BY <1>1, <1>3 DEF TableTypes, IpcTypes, Queues, Results
<1>8. TaskTypes'
  <2>1. generation' \in [Slots -> 0 .. MaxGeneration]
    BY <1>1, Sizes DEF TaskTypes
  <2>2. QED
    BY <1>1, <2>1 DEF TaskTypes, Reaped
<1>9. Owned(waiter, program)'
  <2> SUFFICES ASSUME NEW c \in Channels, waiter[c] # NONE
               PROVE  IF program'[waiter[c]] = "elf"
                      THEN c \in Created /\ waiter[c] = receiver[c]
                      ELSE c = SHELL_KEYS /\ program'[waiter[c]] = "shell"
    BY <1>1, <1>4, <1>5 DEF Owned
  <2>1. waiter[c] \in Slots /\ program'[waiter[c]] = program[waiter[c]]
    BY <1>1, <1>3 DEF IpcTypes, WaiterTables
  <2>2. QED
    BY <1>1, <2>1 DEF SleepInv, Owned
<1>10. SleepInv'
  BY <1>3, <1>9 DEF SleepInv, Asleep, Awake
<1>11. SpawnStaysValid'
  BY <1>1, <1>4, SpawnKept DEF IInv
<1>12. StackInv'
  BY <1>1, StacksReaped
<1>13. NoticeInv'
  <2>1. \A t \in Slots :
          \/ generation'[t] = generation[t] /\ (Live(t)' => Live(t))
          \/ generation'[t] = generation[t] + 1
    BY <1>1, <1>3 DEF Live, TaskTypes
  <2>2. QED
    BY <1>1, <2>1, GoneStays, NoticesStill
<1>14. OneLoading'
  BY <1>1, <1>3 DEF IInv, OneLoading
<1>15. QED
  BY <1>5, <1>6, <1>7, <1>8, <1>10, <1>11, <1>12, <1>13, <1>14 DEF IInv

(* SPAWN installs the task: a newer generation in its slot, and RECV moves *)
(* from init to it.                                                        *)
LEMMA SpawnInstallsKeeps == ASSUME IInv, NEW s \in Slots, SpawnInstalls(s) PROVE IInv'
<1> DEFINE grants == spawn.grants
<1>1. /\ TableTypes /\ IpcTypes /\ TaskTypes /\ SleepInv /\ Programs /\ RightsInv
      /\ current = InitTask /\ state[InitTask] = "Running" /\ spawn.step = "build"
      /\ state[s] = "Reserved" /\ generation[s] < MaxGeneration
      /\ state' = [state EXCEPT ![s] = "Ready"]
      /\ result' = [result EXCEPT ![s] = Nothing]
      /\ program' = [program EXCEPT ![s] = "elf"]
      /\ generation' = [generation EXCEPT ![s] = @ + 1]
      /\ Bind(s, ChildTable(grants), Moves(grants))
      /\ spawn' = Idle
      /\ UNCHANGED <<current, donor, target, queue, waiter, backlog, wait, nextId, pending,
                     halted>>
  BY DEF IInv, SpawnInstalls, SpawnAt
<1>2. grants \in Seq(Grants) /\ Resolves(grants)
  BY <1>1 DEF TaskTypes, IInv, SpawnStaysValid
<1>3. s # InitTask /\ handles[s] = EmptyTable
  BY <1>1 DEF Programs
<1>4. /\ RightsInv'
      /\ \A u \in Slots \ {s, InitTask} : handles'[u] = handles[u]
      /\ \A c \in Created :
           \/ receiver'[c] = receiver[c]
           \/ receiver[c] = InitTask /\ receiver'[c] = s
  BY <1>1, <1>2, <1>3, BindKeepsRights
<1>5. /\ state' \in [Slots -> States]
      /\ Asleep(state', waiter', wait', queue', program')
      /\ Awake(state') /\ s # IdleTask
      /\ \A t \in Slots : /\ state'[t] = IF t = s THEN "Ready" ELSE state[t]
                          /\ program'[t] = IF t = s THEN "elf" ELSE program[t]
      /\ \A c \in Channels : waiter[c] # s
  BY <1>1, InstalledFacts
<1>6. Created' = Created
  BY <1>1 DEF Created
<1>7. Programs'
  BY <1>1, <1>4, <1>5, Sizes DEF Programs
<1>8. TableTypes' /\ IpcTypes'
  BY <1>1, <1>5 DEF TableTypes, IpcTypes, Queues, Results
<1>9. TaskTypes' /\ SpawnStaysValid'
  <2>1. generation' \in [Slots -> 0 .. MaxGeneration]
    BY <1>1, Sizes DEF TaskTypes
  <2>2. Idle \in [step : {"idle", "reap", "claim", "build"}, grants : Seq(Grants)]
    BY DEF Idle
  <2>3. QED
    BY <1>1, <2>1, <2>2 DEF TaskTypes, SpawnStaysValid, Idle
<1>10. Owned(waiter, program)'
  <2> SUFFICES ASSUME NEW c \in Channels, waiter[c] # NONE
               PROVE  IF program'[waiter[c]] = "elf"
                      THEN c \in Created /\ waiter[c] = receiver'[c]
                      ELSE c = SHELL_KEYS /\ program'[waiter[c]] = "shell"
    BY <1>1, <1>6 DEF Owned
  <2>1. waiter[c] \in Slots /\ program'[waiter[c]] = program[waiter[c]]
    BY <1>1, <1>5 DEF IpcTypes, WaiterTables
  <2>2. waiter[c] # InitTask
    BY <1>1, <2>1 DEF SleepInv, Asleep
  <2>3. IF program[waiter[c]] = "elf"
        THEN c \in Created /\ waiter[c] = receiver[c]
        ELSE c = SHELL_KEYS /\ program[waiter[c]] = "shell"
    BY <1>1 DEF SleepInv, Owned
  <2>4. QED
    BY <1>4, <2>1, <2>2, <2>3
<1>11. SleepInv'
  BY <1>5, <1>10 DEF SleepInv, Asleep, Awake
<1>12. StackInv'
  <2>1. Occupied' = Occupied
    BY <1>1, <1>5 DEF Occupied
  <2>2. QED
    BY <1>1, <2>1, StacksShrink DEF IInv, Idle
<1>13. NoticeInv'
  <2>1. \A t \in Slots :
          \/ generation'[t] = generation[t] /\ (Live(t)' => Live(t))
          \/ generation'[t] = generation[t] + 1
    BY <1>1, <1>5 DEF Live, TaskTypes
  <2>2. QED
    BY <1>1, <2>1, GoneStays, NoticesStill
<1>14. OneLoading'
  BY <1>1, <1>5 DEF IInv, OneLoading
<1>15. QED
  BY <1>4, <1>7, <1>8, <1>9, <1>11, <1>12, <1>13, <1>14 DEF IInv

-----------------------------------------------------------------------------
(* What main.rs leaves behind has all of it.                               *)
LEMMA InitKeeps == Init => IInv
<1> SUFFICES ASSUME Init PROVE IInv
  OBVIOUS
<1>1. /\ \A t \in Slots : /\ wait[t] = NoWait /\ result[t] = Nothing
                          /\ state[t] = IF t = IdleTask THEN "Running"
                                        ELSE IF t = InitTask THEN "Ready" ELSE "Free"
                          /\ program[t] = IF t = InitTask THEN "elf" ELSE "none"
      /\ \A c \in Channels : queue[c] = <<>> /\ waiter[c] = NONE
      /\ backlog = <<>> /\ pending = {} /\ spawn = Idle
  BY DEF Init
<1>2. TableTypes
  BY Sizes DEF Init, TableTypes, States
<1>3. IpcTypes
  <2>1. Queues(queue)
    BY Sizes DEF Init, Queues
  <2>2. waiter \in WaiterTables /\ wait \in WaitTables /\ result \in [Slots -> Results]
    BY DEF Init, WaiterTables, WaitTables, Results
  <2>3. QED
    BY <1>1, <2>1, <2>2, Sizes DEF IpcTypes
<1>4. TaskTypes
  <2>1. Idle \in [step : {"idle", "reap", "claim", "build"}, grants : Seq(Grants)]
    BY DEF Idle
  <2>2. generation \in [Slots -> 0 .. MaxGeneration]
    BY Sizes DEF Init
  <2>3. program \in [Slots -> {"none", "elf"} \cup Builtins] /\ halted \in BOOLEAN
    BY DEF Init
  <2>4. QED
    BY <1>1, <2>1, <2>2, <2>3 DEF TaskTypes
<1>5. RightsInv
  <2> DEFINE table == [EmptyTable EXCEPT ![0] = [channel |-> INIT_INBOX, rights |-> {"recv"}]]
  <2>1. 0 \in HandleIds /\ INIT_INBOX # NoChannel /\ nextId = BootChannels
    BY Sizes DEF HandleIds, Init
  <2>2. /\ table \in HandleTables /\ EmptyTable \in HandleTables
        /\ \A h \in HandleIds :
             /\ EmptyTable[h] = EmptySlot
             /\ table[h] = IF h = 0 THEN [channel |-> INIT_INBOX, rights |-> {"recv"}]
                           ELSE EmptySlot
    BY <2>1, Sizes DEF EmptyTable, HandleTables, HandleSlots
  <2> HIDE DEF table
  <2>3. /\ handles \in [Slots -> HandleTables]
        /\ \A t \in Slots : handles[t] = IF t = InitTask THEN table ELSE EmptyTable
    BY <2>2 DEF Init, table
  <2>4. RightsTypes
    <3>1. NoHome \in Homes
      BY <2>1 DEF NoHome, Homes
    <3>2. nextId \in BootChannels .. MaxChannels
      BY <2>1, Sizes DEF BootChannels
    <3>3. receiver \in [Channels -> Slots \cup {NONE}] /\ home \in [Channels -> Homes]
      BY <3>1, Sizes DEF Init
    <3>4. QED
      BY <2>3, <3>2, <3>3 DEF RightsTypes
  <2>5. Created = {INIT_INBOX} /\ BootChannels .. nextId - 1 = {}
    BY <2>1 DEF Created, INIT_INBOX, BootChannels
  <2>6. receiver[INIT_INBOX] = InitTask
    BY Sizes DEF Init
  <2>7. \A t \in Slots, h \in HandleIds :
          /\ IsRecv(t, h, INIT_INBOX) <=> t = InitTask /\ h = 0
          /\ handles[t][h].channel \in {INIT_INBOX, NoChannel}
    BY <2>1, <2>2, <2>3 DEF IsRecv, EmptySlot
  <2>8. Unique(INIT_INBOX)
    BY <2>1, <2>6, <2>7, Sizes DEF Unique
  <2>9. QED
    BY <2>4, <2>5, <2>6, <2>7, <2>8 DEF RightsInv, HomeStaysOpen
<1>6. Programs
  <2>1. \A t \in Slots : t # InitTask => handles[t] = EmptyTable
    BY DEF Init
  <2>2. QED
    BY <1>1, <2>1, Sizes DEF Programs
<1>7. SleepInv
  BY <1>1, Sizes DEF SleepInv, Asleep, Owned, Awake
<1>8. SpawnStaysValid
  BY <1>1 DEF SpawnStaysValid, Idle
<1>9. StackInv
  <2>1. Occupied = {} /\ pending = {}
    BY <1>1 DEF Occupied
  <2>2. Load = 0
    BY <2>1, FS_EmptySet DEF Load
  <2>3. QED
    BY <1>1, <2>2, Sizes DEF StackInv, Idle
<1>10. NoticeInv
  <2>1. Inbox = <<>> /\ Len(Inbox) = 0
    BY <1>1, Sizes DEF Inbox
  <2>2. QED
    BY <2>1 DEF NoticeInv
<1>11. OneLoading
  BY <1>1 DEF OneLoading
<1>12. QED
  BY <1>2, <1>3, <1>4, <1>5, <1>6, <1>7, <1>8, <1>9, <1>10, <1>11 DEF IInv

(* No handler takes any of it away, wherever it comes in.                  *)
LEMMA NextKeeps == IInv /\ [Next]_vars => IInv'
<1> SUFFICES ASSUME IInv, [Next]_vars PROVE IInv'
  OBVIOUS
<1>1. CASE Tick
  BY <1>1, TickKeeps
<1>2. CASE \E t \in Slots : ClockPasses(t)
  BY <1>2, ClockPassesKeeps
<1>3. CASE Yield
  BY <1>3, YieldKeeps
<1>4. CASE \E h \in HandleIds, m \in Payloads : SendSyscall(h, m)
  BY <1>4, SendSyscallKeeps
<1>5. CASE \E h \in HandleIds : RecvTakes(h)
  BY <1>5, RecvTakesKeeps
<1>6. CASE \E h \in HandleIds, deadline \in {"forever", "later"} : RecvBlocks(h, deadline)
  BY <1>6, RecvBlocksKeeps
<1>7. CASE \E c \in Channels : BuiltinTakes(c)
  BY <1>7, BuiltinTakesKeeps
<1>8. CASE \E c \in Channels : BuiltinBlocks(c)
  BY <1>8, BuiltinBlocksKeeps
<1>9. CASE \E c \in Channels, m \in Payloads : BuiltinSends(c, m)
  BY <1>9, BuiltinSendsKeeps
<1>10. CASE Exit
  BY <1>10, ExitKeeps
<1>11. CASE Fault
  BY <1>11, FaultKeeps
<1>12. CASE InitExits \/ HaltLoop \/ SpawnBuiltinFails \/ UNCHANGED vars
  BY <1>12, StillKeeps
<1>13. CASE \E h \in HandleIds : ChannelCreate(h)
  BY <1>13, ChannelCreateKeeps
<1>14. CASE \E grants \in GrantLists : SpawnBegins(grants)
  BY <1>14, SpawnBeginsKeeps
<1>15. CASE SpawnReaps
  BY <1>15, SpawnReapsKeeps
<1>16. CASE \E s \in Slots : SpawnClaims(s)
  BY <1>16, SpawnClaimsKeeps
<1>17. CASE SpawnFindsNoSlot \/ \E s \in Slots : SpawnFails(s)
  BY <1>17, SpawnEndsKeeps
<1>18. CASE \E s \in Slots : SpawnInstalls(s)
  BY <1>18, SpawnInstallsKeeps
<1>19. CASE \E s \in Slots, p \in Builtins : SpawnBuiltin(s, p)
  BY <1>19, SpawnBuiltinKeeps
<1>20. QED
  BY <1>1, <1>2, <1>3, <1>4, <1>5, <1>6, <1>7, <1>8, <1>9, <1>10, <1>11, <1>12, <1>13,
     <1>14, <1>15, <1>16, <1>17, <1>18, <1>19 DEF Next

(* The invariant holds in every state the kernel reaches.                  *)
LEMMA Inductive == Spec => []IInv
  BY InitKeeps, NextKeeps, PTL DEF Spec

(* The tables of context.rs, ipc.rs and handles.rs hold only the values    *)
(* their types allow, and no queue grows past its capacity.                *)
THEOREM KernelTypes == Spec => []TypeOK
  BY Inductive, TypesOf, PTL

(* Every channel has one receiver, through each spawn that moves the right *)
(* to a child and each exit that sends it home.                            *)
THEOREM EachChannelHasOneReceiver == Spec => []OneReceiver
  BY Inductive, ReceiverOf, PTL

(* set_receiver's home is still there when the child that has the right    *)
(* exits: ChannelCreate, the only way to fill a handle of init's, takes    *)
(* none that names a channel, and init's handles are never closed.         *)
THEOREM RecvCanGoHome == Spec => []HomeStaysOpen
  BY Inductive, HomeOf, PTL

(* What spawn_user has checked of init's grants stays true while it loads  *)
(* the image with IRQs enabled, whatever runs meanwhile.                   *)
THEOREM GrantsStayResolved == Spec => []SpawnStaysValid
<1>1. IInv => SpawnStaysValid
  BY DEF IInv
<1>2. QED
  BY <1>1, Inductive, PTL

(* A task sleeps only on an empty channel whose waiter it is: no send can  *)
(* pass it by, and no two tasks sleep on one channel.                      *)
THEOREM WakeupsAreNotLost == Spec => []NoLostWakeup
  BY Inductive, SleepOf, PTL

(* The kernel tells init of an exit once, and never of a task that lives,  *)
(* though slots are used again and notices wait behind a full inbox.       *)
THEOREM NoticesNameTheGone == Spec => []NoticesAreExact
  BY Inductive, NoticesOf, PTL

(* PENDING_FREES never overflows, so its panic is unreachable.             *)
THEOREM PendingFreesFit == Spec => []StacksFit
  BY Inductive, StacksOf, PTL

-----------------------------------------------------------------------------
(* The abstract state, for the values a handler has reached so far.        *)
SleepsOn(w, t) ==
  IF \E c \in Channels : w[c] = t THEN CHOOSE c \in Channels : w[c] = t ELSE -1

Mode(p, t) == IF p[t] = "elf" THEN "takes" ELSE "looks"

Place(st, w, p, t) ==
  IF st[t] # "Blocked" THEN <<NoChannel, "awake">> ELSE <<SleepsOn(w, t), Mode(p, t)>>

Up == <<NoChannel, "awake">>

Asleeps == [t \in Slots |-> <<AsleepOn(t), SleepMode(t)>>]
Mails == [c \in Channels |-> IF c = INIT_INBOX THEN Inbox ELSE queue[c]]

(* Where a task is, before a step and after it.                            *)
LEMMA AsleepsAre ==
  /\ Asleeps = [t \in Slots |-> Place(state, waiter, program, t)]
  /\ Asleeps' = [t \in Slots |-> Place(state', waiter', program', t)]
  BY DEF Asleeps, Place, Mode, SleepsOn, AsleepOn, SleepMode

(* A blocked task is on the one channel it is the waiter of.               *)
LEMMA PlaceFacts ==
  ASSUME NEW st, NEW w, NEW u, NEW q, NEW p, Asleep(st, w, u, q, p), NEW t \in Slots
  PROVE  /\ st[t] # "Blocked" => Place(st, w, p, t) = Up
         /\ \A c \in Channels : w[c] = t =>
              Place(st, w, p, t) = <<c, Mode(p, t)>>
         /\ \A c \in Channels, mode \in {"takes", "looks"} :
              Place(st, w, p, t) = <<c, mode>> =>
                /\ w[c] = t /\ st[t] = "Blocked"
                /\ mode = Mode(p, t)
<1>1. st[t] # "Blocked" => Place(st, w, p, t) = Up
  BY DEF Place, Up
<1>2. ASSUME NEW c \in Channels, w[c] = t
      PROVE  Place(st, w, p, t) = <<c, Mode(p, t)>>
  <2>1. st[t] = "Blocked"
    BY <1>2 DEF Asleep
  <2>2. t # NONE
    BY Sizes
  <2>3. \A d \in Channels : w[d] = t => d = c
    BY <1>2, <2>2 DEF Asleep
  <2>4. SleepsOn(w, t) = c
    BY <1>2, <2>3 DEF SleepsOn
  <2>5. QED
    BY <2>1, <2>4 DEF Place
<1>3. ASSUME NEW c \in Channels, NEW mode \in {"takes", "looks"},
             Place(st, w, p, t) = <<c, mode>>
      PROVE  /\ w[c] = t /\ st[t] = "Blocked"
             /\ mode = Mode(p, t)
  <2>1. st[t] = "Blocked"
    BY <1>1, <1>3 DEF Up
  <2>2. PICK d \in Channels : w[d] = t
    BY <2>1 DEF Asleep
  <2>3. <<c, mode>> = <<d, Mode(p, t)>>
    BY <1>2, <1>3, <2>2
  <2>4. QED
    BY <2>1, <2>2, <2>3
<1>4. QED
  BY <1>1, <1>2, <1>3

(* The same of the kernel's own state, and of the state after a step.      *)
LEMMA PlacedOn ==
  ASSUME NEW t \in Slots, NEW c \in Channels
  PROVE  /\ IInv /\ waiter[c] = t =>
              Place(state, waiter, program, t) = <<c, Mode(program, t)>>
         /\ IInv' /\ waiter'[c] = t =>
              Place(state', waiter', program', t) = <<c, Mode(program', t)>>
<1>1. IInv => Asleep(state, waiter, wait, queue, program)
  BY DEF IInv, SleepInv
<1>2. IInv' => Asleep(state', waiter', wait', queue', program')
  BY DEF IInv, SleepInv, Asleep
<1>3. QED
  BY <1>1, <1>2, PlaceFacts

(* And the other way round: where a sleeper is, it is the waiter.          *)
LEMMA OnlyPlacedOn ==
  ASSUME IInv, NEW t \in Slots, NEW c \in Channels, NEW mode \in {"takes", "looks"},
         Place(state, waiter, program, t) = <<c, mode>>
  PROVE  waiter[c] = t /\ state[t] = "Blocked" /\ mode = Mode(program, t)
<1>1. Asleep(state, waiter, wait, queue, program)
  BY DEF IInv, SleepInv
<1>2. QED
  BY <1>1, PlaceFacts

(* A step that wakes the tasks of T and puts nobody to sleep.              *)
LEMMA SleepersLeave ==
  ASSUME IInv, IInv', NEW T \in SUBSET Slots,
         \A t \in T : state'[t] # "Blocked",
         \A t \in Slots \ T : state'[t] = "Blocked" <=> state[t] = "Blocked",
         \A t \in Slots \ T : state[t] = "Blocked" => program'[t] = program[t],
         \A c \in Channels : waiter'[c] \in {waiter[c], NONE}
  PROVE  Asleeps' = [t \in Slots |-> IF t \in T THEN Up ELSE Asleeps[t]]
<1>1. /\ Asleep(state, waiter, wait, queue, program)
      /\ Asleep(state', waiter', wait', queue', program')
  BY DEF IInv, SleepInv, Asleep
<1>2. ASSUME NEW t \in Slots
      PROVE  Place(state', waiter', program', t) =
             IF t \in T THEN Up ELSE Place(state, waiter, program, t)
  <2>1. CASE t \in T
    BY <1>1, <2>1, PlaceFacts
  <2>2. CASE t \notin T /\ state[t] # "Blocked"
    BY <1>1, <2>2, PlaceFacts
  <2>3. CASE t \notin T /\ state[t] = "Blocked"
    <3>1. state'[t] = "Blocked" /\ program'[t] = program[t] /\ t # NONE
      BY <2>3, Sizes
    <3>2. PICK c \in Channels : waiter'[c] = t
      BY <1>1, <3>1 DEF Asleep
    <3>3. waiter[c] = t
      BY <3>1, <3>2
    <3>4. /\ Place(state', waiter', program', t) =
             <<c, Mode(program', t)>>
          /\ Place(state, waiter, program, t) =
             <<c, Mode(program, t)>>
      BY <1>1, <3>2, <3>3, PlaceFacts
    <3>5. QED
      BY <2>3, <3>1, <3>4 DEF Mode
  <2>4. QED
    BY <2>1, <2>2, <2>3
<1>3. QED
  BY <1>2, AsleepsAre

(* A step that puts the task on the CPU to sleep.                          *)
LEMMA OneMoreSleeper ==
  ASSUME IInv, IInv', current \in Slots, NEW c \in Channels,
         waiter[c] = NONE, waiter' = [waiter EXCEPT ![c] = current],
         \A t \in Slots \ {current} : state'[t] = "Blocked" <=> state[t] = "Blocked",
         program' = program
  PROVE  Asleeps' = [Asleeps EXCEPT ![current] =
                       <<c, Mode(program, current)>>]
<1>1. /\ Asleep(state, waiter, wait, queue, program)
      /\ Asleep(state', waiter', wait', queue', program')
  BY DEF IInv, SleepInv, Asleep
<1>2. \A d \in Channels : waiter'[d] = IF d = c THEN current ELSE waiter[d]
  BY DEF IInv, IpcTypes, WaiterTables
<1>3. Place(state', waiter', program', current) =
      <<c, Mode(program, current)>>
  <2>1. PICK t \in Slots : t = current
    OBVIOUS
  <2>2. Place(state', waiter', program', t) = <<c, Mode(program', t)>>
    BY <1>2, <2>1, PlacedOn
  <2>3. QED
    BY <2>1, <2>2
<1>4. ASSUME NEW t \in Slots, t # current
      PROVE  Place(state', waiter', program', t) = Place(state, waiter, program, t)
  <2>1. CASE state[t] # "Blocked"
    BY <1>1, <1>4, <2>1, PlaceFacts
  <2>2. CASE state[t] = "Blocked"
    <3>1. PICK d \in Channels : waiter[d] = t
      BY <1>1, <2>2 DEF Asleep
    <3>2. waiter'[d] = t
      BY <1>2, <3>1, Sizes
    <3>3. /\ Place(state', waiter', program', t) =
             <<d, Mode(program', t)>>
          /\ Place(state, waiter, program, t) =
             <<d, Mode(program, t)>>
      BY <3>1, <3>2, PlacedOn
    <3>4. QED
      BY <3>3
  <2>3. QED
    BY <2>1, <2>2
<1>5. QED
  BY <1>3, <1>4, AsleepsAre

-----------------------------------------------------------------------------
(* Notices wait in the backlog only while init's inbox is full.            *)
BacklogBehindFullInbox == backlog # <<>> => Len(queue[INIT_INBOX]) = ChannelCap

(* So a message that finds room finds the backlog empty, and the mailbox   *)
(* is the queue.                                                           *)
LEMMA RoomIsRoom ==
  ASSUME IInv, BacklogBehindFullInbox, NEW c \in Channels, Len(queue[c]) < ChannelCap
  PROVE  /\ Mails[c] = queue[c]
         /\ c = INIT_INBOX => backlog = <<>>
<1>1. queue[c] \in Seq(Messages)
  BY DEF IInv, IpcTypes, Queues
<1>2. c = INIT_INBOX => backlog = <<>>
  BY Sizes DEF BacklogBehindFullInbox
<1>3. queue[c] \o <<>> = queue[c]
  BY <1>1
<1>4. QED
  BY <1>2, <1>3 DEF Mails, Inbox

(* A mailbox somebody sleeps on is empty.                                  *)
LEMMA SleptOnIsEmpty ==
  ASSUME IInv, BacklogBehindFullInbox, NEW c \in Channels, queue[c] = <<>>
  PROVE  Mails[c] = <<>>
<1>1. Len(queue[c]) < ChannelCap
  BY Sizes
<1>2. QED
  BY <1>1, RoomIsRoom

(* The mailboxes after a message is added to the end of one, and after     *)
(* none changed.                                                           *)
LEMMA MailsAppended ==
  ASSUME IInv, BacklogBehindFullInbox, NEW c \in Channels, NEW m \in Messages,
         Len(queue[c]) < ChannelCap, queue' = [queue EXCEPT ![c] = Append(@, m)],
         backlog' = backlog
  PROVE  Mails' = [Mails EXCEPT ![c] = Append(@, m)]
<1>1. /\ queue \in [Channels -> Seq(Messages)]
      /\ \A d \in Channels : queue'[d] = IF d = c THEN Append(queue[c], m) ELSE queue[d]
  BY DEF IInv, IpcTypes, Queues
<1>2. Append(queue[c], m) \in Seq(Messages) /\ INIT_INBOX \in Channels
  BY <1>1, Sizes
<1>3. Append(queue[c], m) \o <<>> = Append(queue[c], m)
  BY <1>2
<1>4. Mails[c] = queue[c] /\ (c = INIT_INBOX => backlog = <<>>)
  BY RoomIsRoom
<1>5. ASSUME NEW d \in Channels
      PROVE  (IF d = INIT_INBOX THEN queue'[INIT_INBOX] \o backlog' ELSE queue'[d]) =
             IF d = c THEN Append(Mails[c], m) ELSE Mails[d]
  BY <1>1, <1>2, <1>3, <1>4 DEF Mails, Inbox
<1>6. Mails' = [d \in Channels |->
                  IF d = INIT_INBOX THEN queue'[INIT_INBOX] \o backlog' ELSE queue'[d]]
  BY DEF Mails, Inbox
<1>7. QED
  BY <1>5, <1>6 DEF Mails

(* The backlog follows the inbox: a notice appended to the backlog is appended *)
(* to the mail of init, inbox and backlog together (watch_exit and drain).      *)
LEMMA AppendInFront ==
  ASSUME NEW S, NEW q \in Seq(S), NEW b \in Seq(S), NEW m \in S
  PROVE  q \o Append(b, m) = Append(q \o b, m)
<1>1. q \o b \in Seq(S) /\ <<m>> \in Seq(S)
  BY ConcatProperties
<1>2. Append(b, m) = b \o <<m>> /\ Append(q \o b, m) = (q \o b) \o <<m>>
  BY <1>1, AppendIsConcat
<1>3. QED
  BY <1>1, <1>2, ConcatAssociative

(* Mail that nothing touches: inbox and backlog as they were leave every *)
(* channel's mail as it was.                                              *)
LEMMA MailsSame == ASSUME UNCHANGED <<queue, backlog>> PROVE Mails' = Mails
  BY DEF Mails, Inbox

(* And after the first message of one is taken: the backlog follows.       *)
LEMMA MailsTaken ==
  ASSUME IInv, NEW c \in Channels, queue[c] # <<>>, Take(c)
  PROVE  /\ Mails[c] # <<>> /\ Head(Mails[c]) = Head(queue[c])
         /\ Mails' = [Mails EXCEPT ![c] = Tail(@)]
<1>1. /\ queue \in [Channels -> Seq(Messages)] /\ Queues(queue)
      /\ backlog \in Seq(TaskRefs) /\ Len(backlog) <= BacklogCap
  BY DEF IInv, IpcTypes, Queues
<1>2. /\ Queues(queue') /\ backlog' \in Seq(TaskRefs)
      /\ \A d \in Channels : d # c => queue'[d] = queue[d]
      /\ c # INIT_INBOX => Inbox' = Inbox /\ backlog' = backlog
      /\ c = INIT_INBOX => OneLess(Inbox', Inbox)
  BY <1>1, TakeFacts
<1>3. CASE c # INIT_INBOX
  <2>1. queue'[c] = Tail(queue[c]) /\ Mails[c] = queue[c]
    BY <1>1, <1>3 DEF Take, Mails
  <2>2. ASSUME NEW d \in Channels
        PROVE  (IF d = INIT_INBOX THEN Inbox' ELSE queue'[d]) =
               IF d = c THEN Tail(Mails[c]) ELSE Mails[d]
    BY <1>2, <1>3, <2>1 DEF Mails
  <2>3. Mails' = [d \in Channels |-> IF d = INIT_INBOX THEN Inbox' ELSE queue'[d]]
    BY DEF Mails
  <2>4. QED
    BY <2>1, <2>2, <2>3 DEF Mails
<1>4. CASE c = INIT_INBOX
  <2>1. queue[c] \in Seq(Messages) /\ Mails[c] = queue[c] \o backlog /\ Inbox = queue[c] \o backlog
    BY <1>1, <1>4 DEF Mails, Inbox
  <2>2. backlog \in Seq(Messages) /\ backlog' \in Seq(Messages)
    BY <1>1, <1>2, SeqMonotonic DEF Messages
  <2>3. queue[c] \o backlog \in Seq(Messages) /\ queue[c] \o backlog # <<>>
        /\ Head(queue[c] \o backlog) = Head(queue[c])
    BY <2>1, <2>2
  <2>4. Inbox' \in Seq(Messages)
    <3>1. queue'[c] \in Seq(Messages)
      BY <1>2 DEF Queues
    <3>2. queue'[c] \o backlog' \in Seq(Messages)
      BY <2>2, <3>1
    <3>3. QED
      BY <1>4, <3>2 DEF Inbox
  <2>5. Inbox' = Tail(Inbox)
    <3> DEFINE s == Inbox'
               o == Inbox
    <3>1. s \in Seq(Messages) /\ o \in Seq(Messages) /\ o # <<>> /\ OneLess(s, o)
      BY <1>2, <1>4, <2>1, <2>3, <2>4
    <3> HIDE DEF s, o
    <3>2. /\ Tail(o) \in Seq(Messages) /\ Len(Tail(o)) = Len(s)
          /\ \A i \in 1 .. Len(s) : Tail(o)[i] = s[i]
      BY <3>1 DEF OneLess
    <3>3. s = Tail(o)
      BY <3>1, <3>2, SeqEqual
    <3>4. QED
      BY <3>3 DEF s, o
  <2>6. ASSUME NEW d \in Channels
        PROVE  (IF d = INIT_INBOX THEN Inbox' ELSE queue'[d]) =
               IF d = c THEN Tail(Mails[c]) ELSE Mails[d]
    BY <1>2, <1>4, <2>1, <2>5 DEF Mails
  <2>7. Mails' = [d \in Channels |-> IF d = INIT_INBOX THEN Inbox' ELSE queue'[d]]
    BY DEF Mails
  <2>8. QED
    BY <2>1, <2>3, <2>6, <2>7 DEF Mails
<1>5. QED
  BY <1>3, <1>4

-----------------------------------------------------------------------------
(* A step no mailbox or sleeper takes part in.                             *)
LEMMA MailStutters ==
  ASSUME Asleeps' = Asleeps, Mails' = Mails, result' = result
  PROVE  UNCHANGED Mail!vars
  BY DEF Mail!vars, Asleeps, Mails

(* It leaves the sleepers as they are, whoever it runs.                    *)
LEMMA SleepersStay ==
  ASSUME IInv, IInv', waiter' = waiter,
         \A t \in Slots : state'[t] = "Blocked" <=> state[t] = "Blocked",
         \A t \in Slots : state[t] = "Blocked" => program'[t] = program[t]
  PROVE  Asleeps' = Asleeps
<1> DEFINE T == {}
<1>1. T \in SUBSET Slots /\ \A t : t \notin T
  OBVIOUS
<1> HIDE DEF T
<1>2. Asleeps' = [t \in Slots |-> IF t \in T THEN Up ELSE Asleeps[t]]
  BY <1>1, SleepersLeave
<1>3. QED
  BY <1>1, <1>2 DEF Asleeps

(* A message comes to c, where there is room: it wakes who sleeps there,   *)
(* and nobody else.                                                        *)
ArrivesAt(c, m) ==
  /\ Len(queue[c]) < ChannelCap
  /\ Arrive(c, m, waiter, wait) /\ backlog' = backlog
  /\ \A t \in Slots : t = waiter[c] => state'[t] # "Blocked"
  /\ \A t \in Slots : t # waiter[c] => (state'[t] = "Blocked" <=> state[t] = "Blocked")
  /\ \A t \in Slots : state[t] = "Blocked" => program'[t] = program[t]

(* A message arrives: a task asleep in the kernel's recv takes it, or it   *)
(* is kept.                                                                *)
LEMMA ArriveMail ==
  ASSUME IInv, IInv', BacklogBehindFullInbox,
         NEW c \in Channels, NEW m \in Messages,
         m \in Payloads \/ (c = INIT_INBOX /\ m \in TaskRefs),
         ArrivesAt(c, m)
  PROVE  Mail!Next
<1> DEFINE T == {t \in Slots : t = waiter[c]}
<1>0. /\ Len(queue[c]) < ChannelCap
      /\ Arrive(c, m, waiter, wait) /\ backlog' = backlog
      /\ \A t \in Slots : t = waiter[c] => state'[t] # "Blocked"
      /\ \A t \in Slots :
           t # waiter[c] => (state'[t] = "Blocked" <=> state[t] = "Blocked")
      /\ \A t \in Slots : state[t] = "Blocked" => program'[t] = program[t]
  BY DEF ArrivesAt
<1>1. /\ waiter \in WaiterTables /\ result \in [Slots -> Results]
      /\ queue \in [Channels -> Seq(Messages)] /\ wait \in WaitTables
      /\ Asleep(state, waiter, wait, queue, program)
  BY DEF IInv, IpcTypes, Queues, SleepInv
<1>2. \A d \in Channels : waiter'[d] \in {waiter[d], NONE}
  BY <1>0, <1>1 DEF Arrive, WaiterTables
<1>3. Asleeps' = [t \in Slots |-> IF t \in T THEN Up ELSE Asleeps[t]]
  <2>1. T \in SUBSET Slots /\ \A t \in Slots : t \in T <=> t = waiter[c]
    OBVIOUS
  <2> HIDE DEF T
  <2>2. QED
    BY <1>0, <1>2, <2>1, SleepersLeave
<1>4. \A t \in Slots : Asleeps[t] = Place(state, waiter, program, t)
  BY AsleepsAre
<1>5. CASE HasUserWait(c, waiter, wait)
  <2>1. PICK t \in Slots : t = waiter[c] /\ wait[t] # NoWait
    BY <1>5 DEF HasUserWait
  <2>2. program[t] = "elf" /\ queue[c] = <<>>
    BY <1>1, <2>1, Sizes DEF Asleep
  <2>3. Asleeps[t] = <<c, "takes">>
    BY <1>4, <2>1, <2>2, PlacedOn DEF Mode
  <2>4. Mails[c] = <<>>
    BY <2>2, SleptOnIsEmpty
  <2>5. /\ queue' = [queue EXCEPT ![c] = Tail(Append(@, m))]
        /\ result' = [result EXCEPT ![t] = Head(Append(queue[c], m))]
    BY <1>0, <1>5, <2>1 DEF Arrive
  <2>6. Tail(Append(queue[c], m)) = queue[c] /\ Head(Append(queue[c], m)) = m
    BY <2>2
  <2>7. result' = [result EXCEPT ![t] = m] /\ queue' = queue
    BY <1>1, <2>5, <2>6
  <2>8. Mails' = Mails
    BY <1>0, <2>7, MailsSame
  <2>9. Asleeps' = [Asleeps EXCEPT ![t] = Up]
    BY <1>3, <2>1 DEF Asleeps
  <2>10. Mail!TakeAsleep(c, t, m)
    BY <2>3, <2>4, <2>7, <2>8, <2>9 DEF Mail!TakeAsleep, Mail!Awake, Asleeps, Mails, Up
  <2>11. QED
    BY <2>10 DEF Mail!Next
<1>6. CASE ~HasUserWait(c, waiter, wait)
  <2>1. queue' = [queue EXCEPT ![c] = Append(@, m)] /\ result' = result
    BY <1>0, <1>6 DEF Arrive
  <2>2. Mails' = [Mails EXCEPT ![c] = Append(@, m)]
    BY <1>0, <2>1, MailsAppended
  <2>3. \A t \in Slots : t = waiter[c] => wait[t] = NoWait
    BY <1>6 DEF HasUserWait
  <2>4. {t \in Slots : Asleeps[t] = <<c, "takes">>} = {}
    <3>1. ASSUME NEW t \in Slots, Asleeps[t] = <<c, "takes">> PROVE FALSE
      <4>1. waiter[c] = t /\ state[t] = "Blocked" /\ "takes" = Mode(program, t)
        <5>1. Place(state, waiter, program, t) = <<c, "takes">>
          BY <1>4, <3>1
        <5>2. QED
          BY <5>1, OnlyPlacedOn
      <4>2. program[t] = "elf"
        BY <4>1 DEF Mode
      <4>3. QED
        BY <1>1, <2>3, <4>1, <4>2 DEF Asleep
    <3>2. QED
      BY <3>1
  <2>5. {t \in Slots : Asleeps[t] = <<c, "looks">>} = T
    <3>1. ASSUME NEW t \in Slots, Asleeps[t] = <<c, "looks">> PROVE t = waiter[c]
      <4>1. Place(state, waiter, program, t) = <<c, "looks">>
        BY <1>4, <3>1
      <4>2. QED
        BY <4>1, OnlyPlacedOn
    <3>2. ASSUME NEW t \in Slots, t = waiter[c] PROVE Asleeps[t] = <<c, "looks">>
      <4>1. state[t] = "Blocked" /\ program[t] # "elf"
        BY <1>1, <2>3, <3>2 DEF Asleep
      <4>2. Place(state, waiter, program, t) = <<c, Mode(program, t)>>
        BY <3>2, PlacedOn
      <4>3. QED
        BY <1>4, <4>1, <4>2 DEF Mode
    <3>3. QED
      BY <3>1, <3>2
  <2>6. Asleeps' = [t \in Slots |-> IF t \in {x \in Slots : Asleeps[x] = <<c, "looks">>}
                                     THEN Up ELSE Asleeps[t]]
    BY <1>3, <2>5
  <2>7. Mails[c] = queue[c] /\ Len(Mails[c]) < ChannelCap /\ Len(Mails[c]) \in Nat
    BY <1>0, <1>1, RoomIsRoom
  <2>8. Len(Mails[c]) < IF c = INIT_INBOX /\ m \in TaskRefs THEN ChannelCap + BacklogCap
                                                            ELSE ChannelCap
    BY <2>7, Sizes
  <2>9. Mail!Keep(c, m)
    BY <2>1, <2>2, <2>4, <2>6, <2>8
    DEF Mail!Keep, Mail!Room, Mail!Sleepers, Mail!Awake, Asleeps, Mails, Up
  <2>10. QED
    BY <2>9 DEF Mail!Next
<1>7. QED
  BY <1>5, <1>6

(* What a wake-up does to who is blocked.                                  *)
LEMMA WokenFacts ==
  ASSUME IInv, NEW c \in Channels,
         NEW st \in [Slots -> States], \A t \in Slots : st[t] = "Blocked" <=> state[t] = "Blocked"
  PROVE  /\ Woken(c, waiter, wait, st) \in [Slots -> States]
         /\ \A t \in Slots :
              /\ t = waiter[c] => Woken(c, waiter, wait, st)[t] # "Blocked"
              /\ t # waiter[c] => Woken(c, waiter, wait, st)[t] = st[t]
<1>1. waiter[c] \in Slots => st[waiter[c]] = "Blocked"
  BY DEF IInv, SleepInv, Asleep
<1>2. CASE waiter[c] \in Slots
  <2>1. Woken(c, waiter, wait, st) = [st EXCEPT ![waiter[c]] = "Ready"]
    BY <1>1, <1>2 DEF Woken
  <2>2. QED
    BY <1>2, <2>1 DEF States
<1>3. CASE waiter[c] \notin Slots
  BY <1>3 DEF Woken, HasUserWait
<1>4. QED
  BY <1>2, <1>3

-----------------------------------------------------------------------------
(* One lemma for each action that moves a message or a sleeper.            *)
LEMMA TickMail == ASSUME IInv, IInv', Tick PROVE Mail!Next
<1> DEFINE st == [t \in Slots |-> IF t \in Expired THEN "Ready" ELSE state[t]]
<1>1. /\ TableTypes /\ IpcTypes /\ SleepInv
      /\ waiter' = Cancelled(Expired, waiter, wait) /\ SwitchAway(st, NONE, NONE)
      /\ UNCHANGED <<queue, backlog, program>>
      /\ result' = [t \in Slots |-> IF t \in Expired THEN TimedOut ELSE result[t]]
  BY DEF IInv, Tick
<1>2. ASSUME NEW t \in Expired
      PROVE  t \in Slots \ {IdleTask} /\ state[t] = "Blocked" /\ program[t] = "elf"
  BY <1>1, NoWaitFacts DEF Expired, SleepInv, Asleep
<1>3. /\ st \in [Slots -> States]
      /\ \A t \in Slots : st[t] = IF t \in Expired THEN "Ready" ELSE state[t]
  BY <1>1 DEF TableTypes, States
<1>4. Awake(st)
  BY <1>1, <1>2, <1>3, Sizes DEF SleepInv, Awake
<1> HIDE DEF st
<1>5. SameButTurn(st, state')
  BY <1>1, <1>3, <1>4, SwitchFacts DEF TableTypes
<1>6. \A t \in Slots : state'[t] = "Blocked" <=> state[t] = "Blocked" /\ t \notin Expired
  BY <1>3, <1>5 DEF SameButTurn
<1>7. \A c \in Channels : waiter'[c] \in {waiter[c], NONE}
  BY <1>1 DEF Cancelled
<1>8. Expired \in SUBSET Slots
  BY <1>2
<1>9. Asleeps' = [t \in Slots |-> IF t \in Expired THEN Up ELSE Asleeps[t]]
  BY <1>1, <1>6, <1>7, <1>8, SleepersLeave
<1>10. ASSUME NEW t \in Expired
       PROVE  \E c \in Channels : t \in Slots /\ Asleeps[t] = <<c, "takes">>
  <2>1. PICK c \in Channels : waiter[c] = t
    BY <1>1, <1>2 DEF SleepInv, Asleep
  <2>2. Place(state, waiter, program, t) = <<c, "takes">>
    BY <1>2, <2>1, PlacedOn DEF Mode
  <2>3. QED
    BY <1>2, <2>2, AsleepsAre
<1>11. Mails' = Mails
  BY <1>1, MailsSame
<1>12. Expired \in SUBSET UNION {Mail!Sleepers(c, "takes") : c \in Channels}
  BY <1>10 DEF Mail!Sleepers, Asleeps
<1>13. PICK T \in SUBSET UNION {Mail!Sleepers(c, "takes") : c \in Channels} : T = Expired
  BY <1>12
<1>14. Mail!TimeOut(T)
  BY <1>1, <1>9, <1>11, <1>13 DEF Mail!TimeOut, Mail!Awake, Asleeps, Mails, Up
<1>15. QED
  BY <1>14 DEF Mail!Next

(* SEND, whoever runs after it.                                            *)
LEMMA SendSyscallMail ==
  ASSUME IInv, IInv', BacklogBehindFullInbox, NEW h \in HandleIds, NEW m \in Payloads,
         SendSyscall(h, m)
  PROVE  Mail!Next
<1>0. PICK c \in Channels : c = handles[current][h].channel
  BY UserFacts DEF SendSyscall
<1> DEFINE st == Woken(c, waiter, wait, state)
<1>1. /\ m \in Messages /\ TableTypes /\ SleepInv /\ IpcTypes
      /\ Arrive(c, m, waiter, wait) /\ Len(queue[c]) < ChannelCap
      /\ backlog' = backlog /\ program' = program
      /\ HandOff(st, waiter[c]) \/ state' = st
  BY <1>0 DEF SendSyscall, IInv, Messages, taskVars
<1>2. /\ st \in [Slots -> States]
      /\ \A t \in Slots : /\ t = waiter[c] => st[t] # "Blocked"
                          /\ t # waiter[c] => st[t] = state[t]
  BY <1>1, WokenFacts DEF TableTypes
<1>3. Awake(st)
  BY <1>1, ArriveFacts DEF TableTypes, IpcTypes, SleepInv
<1> HIDE DEF st
<1>4. SameButTurn(st, state')
  BY <1>1, <1>2, <1>3, HandOffFacts DEF TableTypes, SameButTurn
<1>5. \A t \in Slots : state'[t] = "Blocked" <=> st[t] = "Blocked"
  BY <1>4 DEF SameButTurn
<1>6. ArrivesAt(c, m)
  BY <1>1, <1>2, <1>5 DEF ArrivesAt
<1>7. QED
  BY <1>1, <1>6, ArriveMail

(* A built-in's send.                                                      *)
LEMMA BuiltinSendsMail ==
  ASSUME IInv, IInv', BacklogBehindFullInbox, NEW c \in Channels, NEW m \in Payloads,
         BuiltinSends(c, m)
  PROVE  Mail!Next
<1>1. /\ m \in Messages /\ Arrive(c, m, waiter, wait) /\ Len(queue[c]) < ChannelCap
      /\ backlog' = backlog /\ program' = program
      /\ state' = Woken(c, waiter, wait, state)
  BY DEF BuiltinSends, Messages, taskVars
<1>2. \A t \in Slots : /\ t = waiter[c] => state'[t] # "Blocked"
                       /\ t # waiter[c] => state'[t] = state[t]
  BY <1>1, WokenFacts DEF IInv, TableTypes
<1>3. ArrivesAt(c, m)
  BY <1>1, <1>2 DEF ArrivesAt
<1>4. QED
  BY <1>1, <1>3, ArriveMail

(* Who runs is not asleep.                                                 *)
LEMMA RunnerIsUp == ASSUME IInv, Acts PROVE current \in Slots /\ Asleeps[current] = Up
<1>1. current \in Slots /\ state[current] # "Blocked"
  BY RunningFacts
<1>2. QED
  BY <1>1, AsleepsAre DEF Place, Up

(* RECV or TRY_RECV of a message that is there.                            *)
LEMMA RecvTakesMail ==
  ASSUME IInv, IInv', NEW h \in HandleIds, RecvTakes(h)
  PROVE  Mail!Next
<1>1. PICK c \in Channels : c = handles[current][h].channel
  BY UserFacts DEF RecvTakes
<1>2. /\ queue[c] # <<>> /\ Take(c)
      /\ result' = [result EXCEPT ![current] = Head(queue[c])]
      /\ UNCHANGED <<tableVars, waiter, wait, rightsVars, taskVars>>
  BY <1>1 DEF RecvTakes
<1>3. /\ Mails[c] # <<>> /\ Head(Mails[c]) = Head(queue[c])
      /\ Mails' = [Mails EXCEPT ![c] = Tail(@)]
  BY <1>2, MailsTaken
<1>4. Asleeps' = Asleeps
  BY <1>2, SleepersStay DEF tableVars, taskVars
<1>5. PICK t \in Slots : t = current /\ Asleeps[t] = Up
  BY RunnerIsUp DEF RecvTakes, User
<1>6. Mail!TakeOldest(c, t)
  BY <1>2, <1>3, <1>4, <1>5 DEF Mail!TakeOldest, Mail!Awake, Asleeps, Mails, Up
<1>7. QED
  BY <1>6 DEF Mail!Next

(* A built-in takes a message: the queue is its whole mailbox.             *)
LEMMA BuiltinTakesMail ==
  ASSUME IInv, IInv', NEW c \in Channels, BuiltinTakes(c)
  PROVE  Mail!Next
<1>1. /\ queue[c] # <<>> /\ queue' = [queue EXCEPT ![c] = Tail(@)]
      /\ result' = [result EXCEPT ![current] = Head(queue[c])]
      /\ UNCHANGED <<tableVars, waiter, backlog, wait, rightsVars, taskVars>>
  BY DEF BuiltinTakes
<1>2. c # INIT_INBOX
  <2>1. program[current] \in {"mcp", "kbd", "comp", "shell", "dash"}
    BY KernelAssumption DEF BuiltinTakes, Builtin
  <2>2. Reads[program[current]] \subseteq {SHELL_KEYS, KBD_EVENTS}
    BY <2>1 DEF Reads
  <2>3. QED
    BY <2>2 DEF BuiltinTakes, INIT_INBOX, KBD_EVENTS, SHELL_KEYS
<1>3. Take(c)
  BY <1>1, <1>2 DEF Take
<1>4. /\ Mails[c] # <<>> /\ Head(Mails[c]) = Head(queue[c])
      /\ Mails' = [Mails EXCEPT ![c] = Tail(@)]
  BY <1>1, <1>3, MailsTaken
<1>5. Asleeps' = Asleeps
  BY <1>1, SleepersStay DEF tableVars, taskVars
<1>6. PICK t \in Slots : t = current /\ Asleeps[t] = Up
  BY RunnerIsUp DEF BuiltinTakes, Builtin
<1>7. Mail!TakeOldest(c, t)
  BY <1>1, <1>4, <1>5, <1>6 DEF Mail!TakeOldest, Mail!Awake, Asleeps, Mails, Up
<1>8. QED
  BY <1>7 DEF Mail!Next

(* A step that moves no message and no sleeper.                            *)
LEMMA QuietMail ==
  ASSUME IInv, IInv', UNCHANGED <<queue, backlog, waiter, result>>,
         \A t \in Slots : state'[t] = "Blocked" <=> state[t] = "Blocked",
         \A t \in Slots : state[t] = "Blocked" => program'[t] = program[t]
  PROVE  UNCHANGED Mail!vars
  BY SleepersStay, MailsSame, MailStutters

(* Going to sleep on an empty channel where nobody sleeps.                 *)
LEMMA SleepMail ==
  ASSUME IInv, IInv', BacklogBehindFullInbox, Acts,
         NEW c \in Channels, queue[c] = <<>>, waiter[c] = NONE,
         waiter' = [waiter EXCEPT ![c] = current],
         result' = [result EXCEPT ![current] = Nothing],
         UNCHANGED <<queue, backlog, program>>,
         \A t \in Slots \ {current} : state'[t] = "Blocked" <=> state[t] = "Blocked"
  PROVE  Mail!Next
<1>1. PICK t \in Slots : t = current /\ Asleeps[t] = Up
  BY RunnerIsUp
<1>2. Mode(program, t) \in Mail!Modes
  BY DEF Mode, Mail!Modes
<1>3. PICK mode \in Mail!Modes : mode = Mode(program, t)
  BY <1>2
<1>4. Asleeps' = [Asleeps EXCEPT ![t] = <<c, mode>>]
  <2>1. Asleeps' = [Asleeps EXCEPT ![current] = <<c, Mode(program, current)>>]
    BY <1>1, OneMoreSleeper
  <2>2. QED
    BY <1>1, <1>3, <2>1
<1>5. Mails[c] = <<>>
  BY SleptOnIsEmpty
<1>6. Mails' = Mails /\ result' = [result EXCEPT ![t] = Nothing]
  BY <1>1, MailsSame
<1>7. Mail!Sleep(t, c, mode)
  BY <1>1, <1>4, <1>5, <1>6 DEF Mail!Sleep, Mail!Awake, Asleeps, Mails, Up
<1>8. QED
  BY <1>7 DEF Mail!Next

(* RECV on an empty channel, by its one receiver.                          *)
LEMMA RecvBlocksMail ==
  ASSUME IInv, IInv', BacklogBehindFullInbox, NEW h \in HandleIds,
         NEW deadline \in {"forever", "later"}, RecvBlocks(h, deadline)
  PROVE  Mail!Next
<1> DEFINE st == [state EXCEPT ![current] = "Blocked"]
<1>1. PICK c \in Channels : c = handles[current][h].channel
  BY UserFacts DEF RecvBlocks
<1>2. /\ TableTypes /\ SleepInv /\ c \in Created /\ receiver[c] = current
      /\ current # IdleTask /\ Acts /\ RightsTypes /\ program[current] = "elf"
  BY <1>1, UserFacts DEF IInv, RecvBlocks, User, RightsInv
<1>3. /\ queue[c] = <<>> /\ waiter' = [waiter EXCEPT ![c] = current]
      /\ result' = [result EXCEPT ![current] = Nothing]
      /\ SwitchAway(st, donor, target)
      /\ UNCHANGED <<queue, backlog, program>>
  BY <1>1 DEF RecvBlocks, taskVars
<1>4. waiter[c] = NONE
  <2>1. c # SHELL_KEYS
    BY <1>2, Sizes DEF Created, INIT_INBOX, SHELL_KEYS, RightsTypes
  <2>2. QED
    BY <1>2, <2>1, RunningFacts DEF SleepInv, Owned
<1>5. /\ current \in Slots /\ st \in [Slots -> States] /\ Awake(st)
      /\ \A t \in Slots \ {current} : st[t] = state[t]
  BY <1>2, RunningFacts, Sizes DEF TableTypes, States, SleepInv, Awake
<1> HIDE DEF st
<1>6. SameButTurn(st, state')
  BY <1>3, <1>5, SwitchFacts
<1>7. \A t \in Slots \ {current} : state'[t] = "Blocked" <=> state[t] = "Blocked"
  BY <1>5, <1>6 DEF SameButTurn
<1>8. QED
  BY <1>2, <1>3, <1>4, <1>7, SleepMail

(* The shell, waiting for keys.                                            *)
LEMMA BuiltinBlocksMail ==
  ASSUME IInv, IInv', BacklogBehindFullInbox, NEW c \in Channels, BuiltinBlocks(c)
  PROVE  Mail!Next
<1>1. /\ SleepInv /\ Programs /\ IpcTypes /\ RightsTypes /\ TableTypes
      /\ Acts /\ program[current] = "shell"
  BY DEF IInv, BuiltinBlocks, Builtin, RightsInv
<1>2. /\ queue[c] = <<>> /\ c = SHELL_KEYS
      /\ waiter' = [waiter EXCEPT ![c] = current]
      /\ result' = [result EXCEPT ![current] = Nothing]
      /\ state' = [state EXCEPT ![current] = "Blocked"]
      /\ UNCHANGED <<queue, backlog, program>>
  BY DEF BuiltinBlocks, Reads, taskVars
<1>3. waiter[c] = NONE
  <2>1. c \notin Created
    BY <1>1, <1>2, Sizes DEF Created, INIT_INBOX, SHELL_KEYS, RightsTypes
  <2>2. waiter[c] # NONE => program[waiter[c]] = "shell" /\ waiter[c] \in Slots
    BY <1>1, <2>1 DEF SleepInv, Owned, IpcTypes, WaiterTables
  <2>3. QED
    BY <1>1, <2>2, RunningFacts DEF Programs
<1>4. \A t \in Slots \ {current} : state'[t] = "Blocked" <=> state[t] = "Blocked"
  BY <1>1, <1>2 DEF TableTypes
<1>5. QED
  BY <1>1, <1>2, <1>3, <1>4, SleepMail

-----------------------------------------------------------------------------
(* A notice that finds the inbox full goes to the end of the backlog,      *)
(* which is the end of the mailbox.                                        *)
LEMMA BacklogMail ==
  ASSUME IInv, BacklogBehindFullInbox, MustWait, NEW m \in TaskRefs,
         Len(backlog) < BacklogCap, backlog' = Append(backlog, m),
         queue' = queue, result' = result, Asleeps' = Asleeps
  PROVE  Mail!Keep(INIT_INBOX, m)
<1>1. /\ INIT_INBOX \in Channels
      /\ queue[INIT_INBOX] \in Seq(Messages) /\ Len(queue[INIT_INBOX]) <= ChannelCap
      /\ backlog \in Seq(TaskRefs)
  BY Sizes DEF IInv, IpcTypes, Queues
<1>2. backlog \in Seq(Messages) /\ m \in Messages
  BY <1>1, SeqMonotonic DEF Messages
<1>3. waiter[INIT_INBOX] = NONE
  <2>1. queue[INIT_INBOX] # <<>>
    BY <1>1, Sizes DEF MustWait, BacklogBehindFullInbox
  <2>2. QED
    BY <1>1, <2>1 DEF IInv, SleepInv, Asleep
<1>4. \A mode \in {"takes", "looks"} :
        {t \in Slots : Asleeps[t] = <<INIT_INBOX, mode>>} = {}
  <2>1. ASSUME NEW t \in Slots, NEW mode \in {"takes", "looks"},
               Asleeps[t] = <<INIT_INBOX, mode>>
        PROVE  FALSE
    <3>1. Place(state, waiter, program, t) = <<INIT_INBOX, mode>>
      BY <2>1, AsleepsAre
    <3>2. waiter[INIT_INBOX] = t
      BY <1>1, <3>1, OnlyPlacedOn
    <3>3. QED
      BY <1>3, <3>2, Sizes
  <2>2. QED
    BY <2>1
<1>5. /\ Mails[INIT_INBOX] = queue[INIT_INBOX] \o backlog
      /\ Len(Mails[INIT_INBOX]) = Len(queue[INIT_INBOX]) + Len(backlog)
  BY <1>1, <1>2 DEF Mails, Inbox
<1>6. Len(Mails[INIT_INBOX]) < ChannelCap + BacklogCap
  <2>1. Len(queue[INIT_INBOX]) \in Nat /\ Len(backlog) \in Nat
    BY <1>1
  <2>2. QED
    BY <1>1, <1>5, <2>1, Sizes
<1>7. Mails' = [Mails EXCEPT ![INIT_INBOX] = Append(@, m)]
  <2>1. queue[INIT_INBOX] \o Append(backlog, m) = Append(queue[INIT_INBOX] \o backlog, m)
    <3>1. ASSUME NEW q \in Seq(Messages), NEW b \in Seq(Messages)
          PROVE  q \o Append(b, m) = Append(q \o b, m)
      BY <1>2, AppendInFront
    <3>2. QED
      BY <1>1, <1>2, <3>1
  <2>2. \A d \in Channels :
          (IF d = INIT_INBOX THEN queue[INIT_INBOX] \o Append(backlog, m) ELSE queue[d]) =
          IF d = INIT_INBOX THEN Append(Mails[INIT_INBOX], m) ELSE Mails[d]
    BY <1>5, <2>1 DEF Mails
  <2>3. Mails' = [d \in Channels |->
                    IF d = INIT_INBOX THEN queue[INIT_INBOX] \o Append(backlog, m)
                                      ELSE queue[d]]
    BY DEF Mails, Inbox
  <2>4. QED
    BY <2>2, <2>3 DEF Mails
<1>8. Asleeps = [t \in Slots |-> Asleeps[t]]
  BY DEF Asleeps
<1>9. QED
  BY <1>4, <1>6, <1>7, <1>8
  DEF Mail!Keep, Mail!Room, Mail!Sleepers, Mail!Awake, Asleeps, Mails, Up

(* The end of a task: init gets the notice, or it waits in the backlog, or *)
(* it is lost with the backlog full.                                       *)
LEMMA RetireMail ==
  ASSUME IInv, IInv', BacklogBehindFullInbox, Retire,
         \A t \in Slots : state'[t] = "Blocked" <=> Retired[t] = "Blocked"
  PROVE  Mail!Next \/ UNCHANGED Mail!vars
<1> DEFINE st == [state EXCEPT ![current] = "Free"]
<1>1. /\ current \in Slots /\ state[current] = "Running" /\ TableTypes /\ TaskTypes
      /\ waiter \in WaiterTables /\ wait \in WaitTables
      /\ wait[current] = NoWait /\ \A d \in Channels : waiter[d] # current
  BY RunningFacts DEF IInv, IpcTypes, Retire
<1>2. WaitersLeft = waiter /\ WaitsLeft = wait
  BY <1>1 DEF WaitersLeft, WaitsLeft, Cancelled, WaiterTables, WaitTables
<1>3. Notify(Me, waiter, wait) /\ Retired = WokenByNotice(waiter, wait, st)
  BY <1>2 DEF Retire, Retired
<1>4. PICK m \in TaskRefs : m = Me
  BY <1>1 DEF Me, TaskRefs, TaskTypes
<1>5. \A t \in Slots : state[t] = "Blocked" => program'[t] = program[t]
  BY <1>1 DEF Retire, TaskTypes
<1>6. /\ st \in [Slots -> States]
      /\ \A t \in Slots : st[t] = "Blocked" <=> state[t] = "Blocked"
  BY <1>1 DEF TableTypes, States
<1> HIDE DEF st
<1>7. CASE MustWait
  <2>1. /\ backlog' = IF Len(backlog) < BacklogCap THEN Append(backlog, m) ELSE backlog
        /\ waiter' = waiter /\ queue' = queue /\ result' = result /\ Retired = st
    BY <1>3, <1>4, <1>7 DEF Notify, WokenByNotice
  <2>2. Asleeps' = Asleeps
    BY <1>5, <1>6, <2>1, SleepersStay
  <2>3. CASE Len(backlog) < BacklogCap
    <3>1. Mail!Keep(INIT_INBOX, m)
      BY <1>7, <2>1, <2>2, <2>3, BacklogMail
    <3>2. QED
      BY <3>1 DEF Mail!Next
  <2>4. CASE ~(Len(backlog) < BacklogCap)
    BY <2>1, <2>2, <2>4, MailsSame, MailStutters
  <2>5. QED
    BY <2>3, <2>4
<1>8. CASE ~MustWait
  <2>1. /\ Arrive(INIT_INBOX, m, waiter, wait) /\ backlog' = backlog
        /\ Retired = Woken(INIT_INBOX, waiter, wait, st)
    BY <1>3, <1>4, <1>8 DEF Notify, WokenByNotice
  <2>2. INIT_INBOX \in Channels /\ Len(queue[INIT_INBOX]) < ChannelCap
    BY <1>8, Sizes DEF MustWait, IInv, IpcTypes, Queues
  <2>3. \A t \in Slots : /\ t = waiter[INIT_INBOX] => Retired[t] # "Blocked"
                         /\ t # waiter[INIT_INBOX] => Retired[t] = st[t]
    BY <1>6, <2>1, <2>2, WokenFacts
  <2>4. ArrivesAt(INIT_INBOX, m)
    BY <1>5, <1>6, <2>1, <2>2, <2>3 DEF ArrivesAt
  <2>5. m \in Messages
    BY DEF Messages
  <2>6. QED
    BY <2>2, <2>4, <2>5, ArriveMail
<1>9. QED
  BY <1>7, <1>8

(* EXIT, whoever runs next.                                                *)
LEMMA ExitMail ==
  ASSUME IInv, IInv', BacklogBehindFullInbox, Exit
  PROVE  Mail!Next \/ UNCHANGED Mail!vars
<1>1. Retire /\ SwitchAway(Retired, DonorLeft, TargetLeft)
  BY DEF Exit
<1>2. Retired \in [Slots -> States] /\ Awake(Retired)
  BY <1>1, RetireKeeps DEF RetiredFacts
<1>3. SameButTurn(Retired, state')
  BY <1>1, <1>2, SwitchFacts DEF IInv, TableTypes
<1>4. \A t \in Slots : state'[t] = "Blocked" <=> Retired[t] = "Blocked"
  BY <1>3 DEF SameButTurn
<1>5. QED
  BY <1>1, <1>4, RetireMail

(* A fault.                                                                *)
LEMMA FaultMail ==
  ASSUME IInv, IInv', BacklogBehindFullInbox, Fault
  PROVE  Mail!Next \/ UNCHANGED Mail!vars
<1>1. Retire /\ state' = Retired
  BY DEF Fault
<1>2. QED
  BY <1>1, RetireMail

-----------------------------------------------------------------------------
(* A new task has received nothing and waits for nothing.                  *)
LEMMA StartMail ==
  ASSUME IInv, IInv', NEW s \in Slots, state[s] # "Blocked",
         state' = [state EXCEPT ![s] = "Ready"],
         result' = [result EXCEPT ![s] = Nothing],
         UNCHANGED <<queue, backlog, waiter>>,
         NEW p, program' = [program EXCEPT ![s] = p]
  PROVE  Mail!Next
<1>1. /\ \A t \in Slots : state'[t] = "Blocked" <=> state[t] = "Blocked"
      /\ \A t \in Slots : state[t] = "Blocked" => program'[t] = program[t]
  BY DEF IInv, TableTypes, TaskTypes
<1>2. Asleeps' = Asleeps
  BY <1>1, SleepersStay
<1>3. Asleeps[s] = Up
  BY AsleepsAre DEF Place, Up
<1>4. Mails' = Mails
  BY MailsSame
<1>5. Mail!Start(s)
  BY <1>2, <1>3, <1>4 DEF Mail!Start, Mail!Awake, Asleeps, Mails, Up
<1>6. QED
  BY <1>5 DEF Mail!Next

(* The install of an ELF image and the start of a built-in are such.       *)
LEMMA SpawnMail ==
  ASSUME IInv, IInv', NEW s \in Slots,
         SpawnInstalls(s) \/ (\E p \in Builtins : SpawnBuiltin(s, p))
  PROVE  Mail!Next
<1>1. CASE SpawnInstalls(s)
  <2>1. /\ state[s] = "Reserved" /\ state' = [state EXCEPT ![s] = "Ready"]
        /\ result' = [result EXCEPT ![s] = Nothing]
        /\ program' = [program EXCEPT ![s] = "elf"]
        /\ UNCHANGED <<queue, backlog, waiter>>
    BY <1>1 DEF SpawnInstalls
  <2>2. QED
    BY <2>1, StartMail
<1>2. CASE \E p \in Builtins : SpawnBuiltin(s, p)
  <2>1. PICK p \in Builtins : SpawnBuiltin(s, p)
    BY <1>2
  <2>2. /\ state[s] = "Free" /\ state' = [state EXCEPT ![s] = "Ready"]
        /\ result' = [result EXCEPT ![s] = Nothing]
        /\ program' = [program EXCEPT ![s] = p]
        /\ UNCHANGED <<queue, backlog, waiter>>
    BY <2>1 DEF SpawnBuiltin, FirstFree
  <2>3. QED
    BY <2>2, StartMail
<1>3. QED
  BY <1>1, <1>2

(* The actions that move neither messages nor sleepers.                    *)
LEMMA OthersMail ==
  ASSUME IInv, IInv',
         \/ \E t \in Slots : ClockPasses(t)
         \/ Yield \/ InitExits \/ HaltLoop
         \/ \E h \in HandleIds : ChannelCreate(h)
         \/ \E grants \in GrantLists : SpawnBegins(grants)
         \/ SpawnReaps \/ SpawnFindsNoSlot \/ SpawnBuiltinFails
         \/ \E s \in Slots : SpawnClaims(s) \/ SpawnFails(s)
         \/ UNCHANGED vars
  PROVE  UNCHANGED Mail!vars
<1>1. UNCHANGED <<queue, backlog, waiter, result, program>>
  BY DEF ClockPasses, Yield, InitExits, HaltLoop, ChannelCreate, SpawnBegins, SpawnReaps,
         SpawnFindsNoSlot, SpawnBuiltinFails, SpawnClaims, SpawnFails, vars, ipcVars,
         taskVars
<1>2. CASE Yield
  <2>1. SameButTurn(state, state')
    BY <1>2, SwitchFacts DEF Yield, IInv, TableTypes, SleepInv
  <2>2. \A t \in Slots : state'[t] = "Blocked" <=> state[t] = "Blocked"
    BY <2>1 DEF SameButTurn
  <2>3. QED
    BY <1>1, <2>2, QuietMail
<1>3. CASE \E s \in Slots : SpawnClaims(s) \/ SpawnFails(s)
  <2>1. \A t \in Slots : state'[t] = "Blocked" <=> state[t] = "Blocked"
    BY <1>3 DEF SpawnClaims, FirstFree, SpawnFails, IInv, TableTypes
  <2>2. QED
    BY <1>1, <2>1, QuietMail
<1>4. CASE state' = state
  BY <1>1, <1>4, QuietMail
<1>5. QED
  BY <1>2, <1>3, <1>4 DEF ClockPasses, InitExits, HaltLoop, ChannelCreate, SpawnBegins,
     SpawnReaps, SpawnFindsNoSlot, SpawnBuiltinFails, vars, tableVars

-----------------------------------------------------------------------------
(* A message finds room only with the backlog empty, a read of the inbox   *)
(* refills it, and a notice waits only behind a full inbox.                *)
LEMMA BacklogKept ==
  ASSUME IInv, BacklogBehindFullInbox, [Next]_vars
  PROVE  BacklogBehindFullInbox'
<1>1. ASSUME NEW c \in Channels, NEW m, Len(queue[c]) < ChannelCap,
             Arrive(c, m, waiter, wait), backlog' = backlog
      PROVE  BacklogBehindFullInbox'
  <2>1. c = INIT_INBOX => backlog = <<>>
    BY <1>1, RoomIsRoom
  <2>2. c # INIT_INBOX => queue'[INIT_INBOX] = queue[INIT_INBOX]
    BY <1>1, Sizes DEF Arrive, IInv, IpcTypes, Queues
  <2>3. QED
    BY <1>1, <2>1, <2>2 DEF BacklogBehindFullInbox
<1>2. ASSUME Retire PROVE BacklogBehindFullInbox'
  <2>1. /\ waiter \in WaiterTables /\ wait \in WaitTables /\ current \in Slots
        /\ wait[current] = NoWait /\ \A d \in Channels : waiter[d] # current
    BY <1>2, RunningFacts DEF IInv, IpcTypes, Retire
  <2>2. WaitersLeft = waiter /\ WaitsLeft = wait
    BY <2>1 DEF WaitersLeft, WaitsLeft, Cancelled, WaiterTables, WaitTables
  <2>3. Notify(Me, waiter, wait)
    BY <1>2, <2>2 DEF Retire
  <2>4. queue[INIT_INBOX] \in Seq(Messages) /\ Len(queue[INIT_INBOX]) <= ChannelCap
    BY Sizes DEF IInv, IpcTypes, Queues
  <2>5. CASE MustWait
    <3>1. Len(queue[INIT_INBOX]) = ChannelCap
      BY <2>4, <2>5, Sizes DEF MustWait, BacklogBehindFullInbox
    <3>2. queue' = queue
      BY <2>3, <2>5 DEF Notify
    <3>3. QED
      BY <3>1, <3>2 DEF BacklogBehindFullInbox
  <2>6. CASE ~MustWait
    BY <2>3, <2>6 DEF Notify, MustWait, BacklogBehindFullInbox
  <2>7. QED
    BY <2>5, <2>6
<1>3. ASSUME UNCHANGED <<queue, backlog>> PROVE BacklogBehindFullInbox'
  BY <1>3 DEF BacklogBehindFullInbox
<1>4. CASE \E h \in HandleIds, m \in Payloads : SendSyscall(h, m)
  <2>1. PICK h \in HandleIds, m \in Payloads : SendSyscall(h, m)
    BY <1>4
  <2>2. PICK c \in Channels : c = handles[current][h].channel
    BY <2>1, UserFacts DEF SendSyscall
  <2>3. Len(queue[c]) < ChannelCap /\ Arrive(c, m, waiter, wait) /\ backlog' = backlog
    BY <2>1, <2>2 DEF SendSyscall
  <2>4. QED
    BY <1>1, <2>3
<1>5. CASE \E c \in Channels, m \in Payloads : BuiltinSends(c, m)
  BY <1>1, <1>5 DEF BuiltinSends
<1>6. CASE \E h \in HandleIds : RecvTakes(h)
  <2>1. PICK h \in HandleIds : RecvTakes(h)
    BY <1>6
  <2>2. PICK c \in Channels : c = handles[current][h].channel
    BY <2>1, UserFacts DEF RecvTakes
  <2>3. queue[c] # <<>> /\ Take(c)
    BY <2>1, <2>2 DEF RecvTakes
  <2>4. /\ c # INIT_INBOX => queue'[INIT_INBOX] = queue[INIT_INBOX] /\ backlog' = backlog
        /\ c = INIT_INBOX => backlog' = <<>> \/ Len(queue'[c]) = ChannelCap
    BY <2>3, TakeFacts, Sizes DEF IInv, IpcTypes
  <2>5. QED
    BY <2>4 DEF BacklogBehindFullInbox
<1>7. CASE \E c \in Channels : BuiltinTakes(c)
  <2>1. PICK c \in Channels : BuiltinTakes(c)
    BY <1>7
  <2>2. c # INIT_INBOX
    <3>1. program[current] \in {"mcp", "kbd", "comp", "shell", "dash"}
      BY <2>1, KernelAssumption DEF BuiltinTakes, Builtin
    <3>2. Reads[program[current]] \subseteq {SHELL_KEYS, KBD_EVENTS}
      BY <3>1 DEF Reads
    <3>3. QED
      BY <2>1, <3>2 DEF BuiltinTakes, INIT_INBOX, KBD_EVENTS, SHELL_KEYS
  <2>3. queue'[INIT_INBOX] = queue[INIT_INBOX] /\ backlog' = backlog
    BY <2>1, <2>2, Sizes DEF BuiltinTakes, IInv, IpcTypes, Queues
  <2>4. QED
    BY <2>3 DEF BacklogBehindFullInbox
<1>8. CASE Exit \/ Fault
  BY <1>2, <1>8 DEF Exit, Fault
<1>9. QED
  BY <1>3, <1>4, <1>5, <1>6, <1>7, <1>8
  DEF Next, vars, Tick, ClockPasses, Yield, RecvBlocks, BuiltinBlocks, InitExits, HaltLoop,
      ChannelCreate, SpawnBegins, SpawnReaps, SpawnClaims, SpawnFindsNoSlot,
      SpawnInstalls, SpawnFails, SpawnBuiltin, SpawnBuiltinFails, ipcVars

-----------------------------------------------------------------------------
(* At boot every mailbox is empty and nobody sleeps.                       *)
LEMMA InitMail == Init => Mail!Init /\ BacklogBehindFullInbox
<1> SUFFICES ASSUME Init PROVE Mail!Init /\ BacklogBehindFullInbox
  OBVIOUS
<1>1. /\ queue = [c \in Channels |-> <<>>] /\ backlog = <<>>
      /\ result = [t \in Slots |-> Nothing]
      /\ \A t \in Slots : state[t] # "Blocked"
  BY DEF Init
<1>2. Mails = [c \in Channels |-> <<>>]
  <2>1. \A c \in Channels : (IF c = INIT_INBOX THEN queue[INIT_INBOX] \o backlog
                                             ELSE queue[c]) = <<>>
    <3>1. <<>> \o <<>> = <<>>
      OBVIOUS
    <3>2. QED
      BY <1>1, <3>1
  <2>2. QED
    BY <2>1 DEF Mails, Inbox
<1>3. Asleeps = [t \in Slots |-> Up]
  BY <1>1, AsleepsAre DEF Place, Up
<1>4. QED
  BY <1>1, <1>2, <1>3 DEF Mail!Init, Mail!Awake, Asleeps, Mails, Up, BacklogBehindFullInbox

(* Every step of the kernel is a step of the mailboxes, or none.           *)
LEMMA NextMail ==
  IInv /\ IInv' /\ BacklogBehindFullInbox /\ [Next]_vars => [Mail!Next]_(Mail!vars)
<1> SUFFICES ASSUME IInv, IInv', BacklogBehindFullInbox, [Next]_vars
             PROVE  Mail!Next \/ UNCHANGED Mail!vars
  OBVIOUS
<1>1. CASE Tick
  BY <1>1, TickMail
<1>2. CASE \E h \in HandleIds, m \in Payloads : SendSyscall(h, m)
  BY <1>2, SendSyscallMail
<1>3. CASE \E h \in HandleIds : RecvTakes(h)
  BY <1>3, RecvTakesMail
<1>4. CASE \E h \in HandleIds, deadline \in {"forever", "later"} : RecvBlocks(h, deadline)
  BY <1>4, RecvBlocksMail
<1>5. CASE \E c \in Channels : BuiltinTakes(c)
  BY <1>5, BuiltinTakesMail
<1>6. CASE \E c \in Channels : BuiltinBlocks(c)
  BY <1>6, BuiltinBlocksMail
<1>7. CASE \E c \in Channels, m \in Payloads : BuiltinSends(c, m)
  BY <1>7, BuiltinSendsMail
<1>8. CASE Exit
  BY <1>8, ExitMail
<1>9. CASE Fault
  BY <1>9, FaultMail
<1>10. CASE \E s \in Slots : SpawnInstalls(s) \/ (\E p \in Builtins : SpawnBuiltin(s, p))
  BY <1>10, SpawnMail
<1>11. CASE \/ \E t \in Slots : ClockPasses(t)
            \/ Yield \/ InitExits \/ HaltLoop
            \/ \E h \in HandleIds : ChannelCreate(h)
            \/ \E grants \in GrantLists : SpawnBegins(grants)
            \/ SpawnReaps \/ SpawnFindsNoSlot \/ SpawnBuiltinFails
            \/ \E s \in Slots : SpawnClaims(s) \/ SpawnFails(s)
            \/ UNCHANGED vars
  BY <1>11, OthersMail
<1>12. QED
  BY <1>1, <1>2, <1>3, <1>4, <1>5, <1>6, <1>7, <1>8, <1>9, <1>10, <1>11 DEF Next

(* Exit notices never wait while init's inbox has room for them.           *)
THEOREM BacklogOnlyBehindFullInbox == Spec => []BacklogBehindFullInbox
<1>1. Init => BacklogBehindFullInbox
  BY InitMail
<1>2. IInv /\ BacklogBehindFullInbox /\ [Next]_vars => BacklogBehindFullInbox'
  BY BacklogKept
<1>3. Spec => []IInv
  BY Inductive
<1>4. QED
  BY <1>1, <1>2, <1>3, PTL DEF Spec

(* The kernel passes messages as module Mailbox says: through every switch,*)
(* timeout, spawn and exit, each channel with its backlog is one first-in  *)
(* first-out mailbox, and whoever sleeps on it gets the next message.      *)
THEOREM KernelPassesMessages == Spec => MailboxSpec
<1>1. Init => Mail!Init
  BY InitMail
<1>2. IInv /\ IInv' /\ BacklogBehindFullInbox /\ [Next]_vars => [Mail!Next]_(Mail!vars)
  BY NextMail
<1>3. Spec => []IInv
  BY Inductive
<1>4. Spec => []BacklogBehindFullInbox
  BY BacklogOnlyBehindFullInbox
<1>5. QED
  BY <1>1, <1>2, <1>3, <1>4, PTL DEF Spec, MailboxSpec, Mail!Spec

-----------------------------------------------------------------------------
(* The switch of both modules is the same.                                 *)
LEMMA SwitchMaps ==
  ASSUME NEW st, NEW d, NEW tg, SwitchAway(st, d, tg)
  PROVE  Sched!SwitchAway(st, d, tg)
  BY DEF SwitchAway, ForgetHandOff, Successor, SenderReturns, NextInTurn, Demote, Run,
         Distance, Slots, NONE, IdleTask,
         Sched!SwitchAway, Sched!ForgetHandOff, Sched!Successor, Sched!SenderReturns,
         Sched!NextInTurn, Sched!Demote, Sched!Run, Sched!Distance, Sched!Slots,
         Sched!NONE, Sched!IdleTask

(* The hand-off too.                                                       *)
LEMMA HandOffMaps ==
  ASSUME NEW st, NEW t, HandOff(st, t)
  PROVE  Sched!HandOff(st, t)
<1>1. Slots = Sched!Slots
  BY DEF Slots, Sched!Slots
<1>2. CASE t \notin Slots \/ st[t] # "Ready"
  BY <1>1, <1>2, SwitchMaps DEF HandOff, Sched!HandOff
<1>3. CASE t \in Slots /\ st[t] = "Ready"
  BY <1>1, <1>3 DEF HandOff, Sched!HandOff, Demote, Run, Sched!Demote, Sched!Run
<1>4. QED
  BY <1>2, <1>3

(* Who may act, as a user task or a built-in, may do so in the scheduler:  *)
(* init is not loading an image then, so no slot is reserved.              *)
LEMMA ActsMaps ==
  ASSUME IInv, Acts, current # IdleTask
  PROVE  /\ Sched!Acts
         /\ program[current] = "elf" => Sched!User
         /\ program[current] # "elf" => Sched!Builtin
<1>1. current \in Slots /\ Slots = Sched!Slots
  BY DEF IInv, TableTypes, Slots, Sched!Slots
<1>2. current = InitTask => ~Sched!Spawning
  BY <1>1 DEF IInv, OneLoading, Acts, Idle, Sched!Spawning
<1>3. Sched!Acts
  BY <1>2 DEF Acts, Sched!Acts, IdleTask, InitTask, Sched!IdleTask, Sched!InitTask
<1>4. QED
  BY <1>1, <1>3 DEF Sched!User, Sched!Builtin

(* Slot 0, the idle task, runs no program, so whoever runs one may act.    *)
LEMMA CallerMaps ==
  ASSUME IInv, User \/ Builtin
  PROVE  /\ current \in Slots /\ current # IdleTask /\ Sched!Acts
         /\ User => Sched!User
         /\ Builtin => Sched!Builtin
<1>1. program[current] # "none" /\ Acts /\ "elf" \notin Builtins
  BY KernelAssumption DEF User, Builtin
<1>2. current # IdleTask
  BY <1>1 DEF IInv, Programs
<1>3. QED
  BY <1>1, <1>2, ActsMaps DEF User, Builtin, IInv, TableTypes

(* What the scheduler does not see: messages, handles and the spawn itself.*)
LEMMA StutterMaps ==
  ASSUME UNCHANGED <<state, current, donor, target, program, wait, halted>>
  PROVE  UNCHANGED Sched!vars
  BY DEF Sched!vars

(* The tick wakes the same tasks.                                          *)
LEMMA TickMaps == ASSUME IInv, Tick PROVE Sched!Tick
<1>1. /\ Slots = Sched!Slots /\ NONE = Sched!NONE
      /\ wait \in WaitTables
  BY DEF Slots, NONE, Sched!Slots, Sched!NONE, IInv, IpcTypes
<1>2. Expired = Sched!Expired
  BY DEF Expired, Sched!Expired, Slots, Sched!Slots, IdleTask, Sched!IdleTask
<1>3. Sched!SwitchAway([t \in Slots |-> IF t \in Expired THEN "Ready" ELSE state[t]],
                       NONE, NONE)
  BY SwitchMaps DEF Tick
<1>4. /\ ~halted /\ UNCHANGED <<program, halted>>
      /\ wait' = [t \in Slots |-> IF t \in Expired THEN NoWait ELSE wait[t]]
  BY DEF Tick
<1>5. [t \in Slots |-> wait'[t].deadline] =
      [t \in Slots |-> IF t \in Expired THEN "none" ELSE wait[t].deadline]
  BY <1>4 DEF NoWait
<1>6. QED
  BY <1>1, <1>2, <1>3, <1>4, <1>5 DEF Sched!Tick

(* So does the clock.                                                      *)
LEMMA ClockPassesMaps ==
  ASSUME IInv, NEW t \in Slots, ClockPasses(t)
  PROVE  \E u \in Sched!Slots : Sched!ClockPasses(u)
<1>1. /\ ~halted /\ wait[t].deadline = "later" /\ wait \in WaitTables
      /\ wait' = [wait EXCEPT ![t].deadline = "past"]
      /\ UNCHANGED <<state, current, donor, target, program, halted>>
  BY DEF ClockPasses, tableVars, taskVars, IInv, IpcTypes
<1>2. \A u \in Slots : wait'[u].deadline = IF u = t THEN "past" ELSE wait[u].deadline
  BY <1>1 DEF WaitTables, UserWaits, NoWait
<1>3. [u \in Slots |-> wait'[u].deadline] =
      [[u \in Slots |-> wait[u].deadline] EXCEPT ![t] = "past"]
  BY <1>2
<1>4. Sched!ClockPasses(t)
  BY <1>1, <1>3 DEF Sched!ClockPasses
<1>5. QED
  BY <1>4 DEF Slots, Sched!Slots

(* YIELD is the scheduler's.                                               *)
LEMMA YieldMaps == ASSUME IInv, Yield PROVE Sched!Yield
<1>1. /\ Sched!User /\ Sched!SwitchAway(state, donor, target)
      /\ UNCHANGED <<program, wait, halted>>
  BY CallerMaps, SwitchMaps DEF Yield, ipcVars, taskVars
<1>2. QED
  BY <1>1 DEF Sched!Yield

(* The deadline in one task's recv changes, and no other.                  *)
LEMMA DeadlineOf ==
  ASSUME wait \in WaitTables, NEW t \in Slots, NEW x, wait' = [wait EXCEPT ![t] = x]
  PROVE  [u \in Slots |-> wait'[u].deadline] =
         [[u \in Slots |-> wait[u].deadline] EXCEPT ![t] = x.deadline]
  BY DEF WaitTables

(* RECV that waits is the scheduler's, with the deadline it has.           *)
LEMMA RecvBlocksMaps ==
  ASSUME IInv, NEW h \in HandleIds, NEW deadline \in {"forever", "later"},
         RecvBlocks(h, deadline)
  PROVE  Sched!RecvBlocks(deadline)
<1>1. /\ Sched!User /\ current \in Slots
      /\ Sched!SwitchAway([state EXCEPT ![current] = "Blocked"], donor, target)
      /\ UNCHANGED <<program, halted>>
  BY CallerMaps, SwitchMaps DEF RecvBlocks, taskVars
<1>2. wait \in WaitTables
  BY DEF IInv, IpcTypes
<1>3. PICK x : wait' = [wait EXCEPT ![current] = x] /\ x.deadline = deadline
  <2>1. PICK c : wait' = [wait EXCEPT ![current] = [channel |-> c, deadline |-> deadline]]
    BY DEF RecvBlocks
  <2>2. [channel |-> c, deadline |-> deadline].deadline = deadline
    OBVIOUS
  <2>3. QED
    BY <2>1, <2>2
<1>4. [u \in Slots |-> wait'[u].deadline] =
      [[u \in Slots |-> wait[u].deadline] EXCEPT ![current] = deadline]
  <2>1. [u \in Slots |-> wait'[u].deadline] =
        [[u \in Slots |-> wait[u].deadline] EXCEPT ![current] = x.deadline]
    BY <1>1, <1>2, <1>3 DEF WaitTables
  <2>2. QED
    BY <1>3, <2>1
<1>5. QED
  BY <1>1, <1>4 DEF Sched!RecvBlocks

(* So is the recv of a built-in.                                           *)
LEMMA BuiltinBlocksMaps ==
  ASSUME IInv, NEW c \in Channels, BuiltinBlocks(c)
  PROVE  Sched!BuiltinRecvBlocks
<1>1. /\ Sched!Builtin /\ state' = [state EXCEPT ![current] = "Blocked"]
      /\ UNCHANGED <<current, donor, target, program, wait, halted>>
  BY CallerMaps DEF BuiltinBlocks, taskVars
<1>2. QED
  BY <1>1 DEF Sched!BuiltinRecvBlocks

-----------------------------------------------------------------------------
(* What a message does to the waits and the table: it ends the recv of an  *)
(* EL0 task, or wakes a built-in, or nobody.                               *)
LEMMA ArriveMaps ==
  ASSUME IInv, NEW c \in Channels, NEW m, Arrive(c, m, waiter, wait)
  PROVE  \/ /\ HasUserWait(c, waiter, wait) /\ waiter[c] \in Slots
            /\ wait[waiter[c]].deadline # "none"
            /\ Woken(c, waiter, wait, state) = [state EXCEPT ![waiter[c]] = "Ready"]
            /\ [u \in Slots |-> wait'[u].deadline] =
               [[u \in Slots |-> wait[u].deadline] EXCEPT ![waiter[c]] = "none"]
         \/ /\ ~HasUserWait(c, waiter, wait) /\ waiter[c] \in Slots
            /\ state[waiter[c]] = "Blocked" /\ wait[waiter[c]].deadline = "none"
            /\ Woken(c, waiter, wait, state) = [state EXCEPT ![waiter[c]] = "Ready"]
            /\ wait' = wait
         \/ /\ ~HasUserWait(c, waiter, wait)
            /\ Woken(c, waiter, wait, state) = state
            /\ wait' = wait
<1>1. wait \in WaitTables
  BY DEF IInv, IpcTypes
<1>2. CASE HasUserWait(c, waiter, wait)
  <2>1. /\ waiter[c] \in Slots /\ wait[waiter[c]] \in UserWaits
        /\ wait' = [wait EXCEPT ![waiter[c]] = NoWait]
    BY <1>1, <1>2 DEF Arrive, HasUserWait, WaitTables
  <2>2. wait[waiter[c]].deadline # "none"
    BY <2>1 DEF UserWaits, Deadlines
  <2>3. [u \in Slots |-> wait'[u].deadline] =
        [[u \in Slots |-> wait[u].deadline] EXCEPT ![waiter[c]] = "none"]
    BY <1>1, <2>1, DeadlineOf, NoWaitFacts
  <2>4. QED
    BY <1>2, <2>1, <2>2, <2>3 DEF Woken
<1>3. CASE ~HasUserWait(c, waiter, wait)
  <2>1. wait' = wait /\ (waiter[c] \in Slots => wait[waiter[c]] = NoWait)
    BY <1>3 DEF Arrive, HasUserWait
  <2>2. QED
    BY <1>3, <2>1, NoWaitFacts DEF Woken
<1>4. QED
  BY <1>2, <1>3

(* A wake-up that keeps the CPU is the scheduler's Wake, or no step of it. *)
LEMMA WakeMaps ==
  ASSUME IInv, NEW c \in Channels, NEW m, Arrive(c, m, waiter, wait),
         Sched!Acts, HasUserWait(c, waiter, wait) => Sched!Builtin,
         state' = Woken(c, waiter, wait, state),
         UNCHANGED <<current, donor, target, program, halted>>
  PROVE  (\E t \in Sched!Slots : Sched!Wake(t)) \/ UNCHANGED Sched!vars
<1>1. Slots = Sched!Slots /\ state \in [Slots -> States] /\ wait \in WaitTables
  BY DEF Slots, Sched!Slots, IInv, TableTypes, IpcTypes
<1>2. CASE /\ HasUserWait(c, waiter, wait) /\ waiter[c] \in Slots
           /\ wait[waiter[c]].deadline # "none"
           /\ Woken(c, waiter, wait, state) = [state EXCEPT ![waiter[c]] = "Ready"]
           /\ [u \in Slots |-> wait'[u].deadline] =
              [[u \in Slots |-> wait[u].deadline] EXCEPT ![waiter[c]] = "none"]
  <2>1. PICK t \in Slots : t = waiter[c]
    BY <1>2
  <2>2. Sched!Wake(t)
    BY <1>2, <2>1 DEF Sched!Wake
  <2>3. QED
    BY <1>1, <2>2
<1>3. CASE /\ ~HasUserWait(c, waiter, wait) /\ waiter[c] \in Slots
           /\ state[waiter[c]] = "Blocked" /\ wait[waiter[c]].deadline = "none"
           /\ Woken(c, waiter, wait, state) = [state EXCEPT ![waiter[c]] = "Ready"]
           /\ wait' = wait
  <2>1. [u \in Slots |-> wait'[u].deadline] =
        [[u \in Slots |-> wait[u].deadline] EXCEPT ![waiter[c]] = "none"]
    BY <1>3
  <2>2. PICK t \in Slots : t = waiter[c]
    BY <1>3
  <2>3. Sched!Wake(t)
    BY <1>3, <2>1, <2>2 DEF Sched!Wake
  <2>4. QED
    BY <1>1, <2>3
<1>4. CASE Woken(c, waiter, wait, state) = state /\ wait' = wait
  BY <1>4, StutterMaps
<1>5. QED
  BY <1>2, <1>3, <1>4, ArriveMaps

(* SEND hands the CPU to the task it delivers to, or wakes, or does        *)
(* nothing the scheduler sees.                                             *)
LEMMA SendSyscallMaps ==
  ASSUME IInv, NEW h \in HandleIds, NEW m \in Payloads, SendSyscall(h, m)
  PROVE  \/ \E t \in Sched!Slots : Sched!SendHandsOff(t)
         \/ \E t \in Sched!Slots : Sched!Wake(t)
         \/ UNCHANGED Sched!vars
<1> DEFINE c == handles[current][h].channel
<1>1. /\ c \in Channels /\ Sched!User /\ Sched!Acts /\ Slots = Sched!Slots
      /\ Arrive(c, m, waiter, wait)
      /\ UNCHANGED <<program, halted>>
      /\ IF HasUserWait(c, waiter, wait)
           THEN HandOff(Woken(c, waiter, wait, state), waiter[c])
           ELSE /\ state' = Woken(c, waiter, wait, state)
                /\ UNCHANGED <<current, donor, target>>
  BY UserFacts, CallerMaps DEF SendSyscall, taskVars, Slots, Sched!Slots
<1> HIDE DEF c
<1>2. CASE HasUserWait(c, waiter, wait)
  <2>1. /\ waiter[c] \in Slots /\ wait[waiter[c]].deadline # "none"
        /\ Woken(c, waiter, wait, state) = [state EXCEPT ![waiter[c]] = "Ready"]
        /\ [u \in Slots |-> wait'[u].deadline] =
           [[u \in Slots |-> wait[u].deadline] EXCEPT ![waiter[c]] = "none"]
    BY <1>1, <1>2, ArriveMaps
  <2>2. PICK t \in Slots : t = waiter[c]
    BY <2>1
  <2>3. HandOff([state EXCEPT ![t] = "Ready"], t)
    <3>1. HandOff(Woken(c, waiter, wait, state), waiter[c])
      BY <1>1, <1>2
    <3>2. QED
      BY <2>1, <2>2, <3>1 DEF HandOff, SwitchAway, ForgetHandOff, Run
  <2>4. Sched!HandOff([state EXCEPT ![t] = "Ready"], t)
    BY <2>3, HandOffMaps
  <2>5. Sched!SendHandsOff(t)
    BY <1>1, <2>1, <2>2, <2>4 DEF Sched!SendHandsOff
  <2>6. QED
    BY <1>1, <2>5
<1>3. CASE ~HasUserWait(c, waiter, wait)
  BY <1>1, <1>3, WakeMaps
<1>4. QED
  BY <1>2, <1>3

(* A built-in's send wakes, and keeps the CPU.                             *)
LEMMA BuiltinSendsMaps ==
  ASSUME IInv, NEW c \in Channels, NEW m \in Payloads, BuiltinSends(c, m)
  PROVE  (\E t \in Sched!Slots : Sched!Wake(t)) \/ UNCHANGED Sched!vars
<1>1. /\ Sched!Builtin /\ Sched!Acts /\ Arrive(c, m, waiter, wait)
      /\ state' = Woken(c, waiter, wait, state)
      /\ UNCHANGED <<current, donor, target, program, halted>>
  BY CallerMaps DEF BuiltinSends, taskVars
<1>2. QED
  BY <1>1, WakeMaps

-----------------------------------------------------------------------------
(* A task that ends: a notice that wakes init ends init's recv, the only   *)
(* wait anyone can have on its inbox.                                      *)
LEMMA RetireMaps ==
  ASSUME IInv, Retire
  PROVE  \E notified \in BOOLEAN :
           Sched!Retire(notified) /\ Retired = Sched!Retired(notified)
<1>1. /\ Acts /\ current \in Slots \ {IdleTask, InitTask} /\ state \in [Slots -> States]
      /\ wait \in WaitTables /\ SleepInv /\ RightsInv /\ Slots = Sched!Slots
      /\ wait[current] = NoWait /\ \A d \in Channels : waiter[d] # current
      /\ waiter \in WaiterTables
  BY RunningFacts DEF IInv, Retire, TableTypes, IpcTypes, Slots, Sched!Slots
<1>2. /\ Sched!Acts /\ current # Sched!InitTask /\ InitTask = Sched!InitTask
      /\ InitTask \in Slots
  BY <1>1, ActsMaps, Sizes DEF InitTask, Sched!InitTask
<1>3. WaitersLeft = waiter /\ WaitsLeft = wait
  BY <1>1 DEF WaitersLeft, WaitsLeft, Cancelled, WaiterTables, WaitTables
<1>4. /\ program' = [program EXCEPT ![current] = "none"]
      /\ Notify(Me, waiter, wait) /\ halted' = halted
  BY <1>3 DEF Retire
<1>5. Retired = WokenByNotice(waiter, wait, [state EXCEPT ![current] = "Free"])
  BY <1>3 DEF Retired
<1>6. waiter[INIT_INBOX] # NONE =>
        waiter[INIT_INBOX] = InitTask /\ wait[InitTask] # NoWait
  <2>1. SUFFICES ASSUME waiter[INIT_INBOX] # NONE
                 PROVE  waiter[INIT_INBOX] = InitTask /\ wait[InitTask] # NoWait
    OBVIOUS
  <2>2. program[waiter[INIT_INBOX]] = "elf" /\ waiter[INIT_INBOX] = InitTask
    BY <1>1, <2>1, Sizes DEF SleepInv, Owned, RightsInv, INIT_INBOX, SHELL_KEYS
  <2>3. state[InitTask] = "Blocked" /\ program[InitTask] = "elf"
    BY <1>1, <1>2, <2>2, Sizes DEF SleepInv, Asleep
  <2>4. QED
    BY <1>1, <1>2, <2>2, <2>3 DEF SleepInv, Asleep
<1>7. [u \in Slots |-> program'[u] = "elf"] =
      [[u \in Slots |-> program[u] = "elf"] EXCEPT ![current] = FALSE]
  BY <1>1, <1>4 DEF IInv, TaskTypes
<1>8. CASE ~MustWait /\ HasUserWait(INIT_INBOX, waiter, wait)
  <2>1. waiter[INIT_INBOX] = InitTask /\ wait[InitTask] \in UserWaits
    BY <1>1, <1>2, <1>6, <1>8, Sizes DEF HasUserWait, WaitTables
  <2>2. /\ wait' = [wait EXCEPT ![InitTask] = NoWait]
        /\ Retired = [[state EXCEPT ![current] = "Free"] EXCEPT ![InitTask] = "Ready"]
    BY <1>4, <1>5, <1>8, <2>1 DEF Notify, Arrive, WokenByNotice, Woken
  <2>3. wait[InitTask].deadline # "none"
    BY <2>1 DEF UserWaits, Deadlines
  <2>4. [u \in Slots |-> wait'[u].deadline] =
        [[u \in Slots |-> wait[u].deadline] EXCEPT ![current] = "none",
                                                   ![InitTask] = "none"]
    BY <1>1, <1>2, <2>2, NoWaitFacts DEF WaitTables
  <2>5. Sched!Retire(TRUE)
    BY <1>1, <1>2, <1>4, <1>7, <2>3, <2>4 DEF Sched!Retire
  <2>6. Retired = Sched!Retired(TRUE)
    BY <1>1, <1>2, <2>2 DEF Sched!Retired
  <2>7. QED
    BY <2>5, <2>6
<1>9. CASE MustWait \/ ~HasUserWait(INIT_INBOX, waiter, wait)
  <2>1. /\ wait' = wait
        /\ Retired = [state EXCEPT ![current] = "Free"]
    <3>1. CASE MustWait
      BY <1>4, <1>5, <3>1 DEF Notify, WokenByNotice
    <3>2. CASE ~MustWait
      <4>1. waiter[INIT_INBOX] \notin Slots
        BY <1>1, <1>2, <1>6, <1>9, <3>2, Sizes DEF HasUserWait, WaiterTables
      <4>2. QED
        BY <1>4, <1>5, <1>9, <3>2, <4>1 DEF Notify, Arrive, WokenByNotice, Woken
    <3>3. QED
      BY <3>1, <3>2
  <2>2. [u \in Slots |-> wait'[u].deadline] =
        [[u \in Slots |-> wait[u].deadline] EXCEPT
           ![current] = "none", ![InitTask] = wait[InitTask].deadline]
    BY <1>1, <1>2, <2>1, NoWaitFacts DEF WaitTables
  <2>3. Sched!Retire(FALSE)
    BY <1>1, <1>2, <1>4, <1>7, <2>2 DEF Sched!Retire
  <2>4. Retired = Sched!Retired(FALSE)
    BY <1>1, <1>2, <2>1 DEF Sched!Retired
  <2>5. QED
    BY <2>3, <2>4
<1>10. QED
  BY <1>8, <1>9

(* EXIT leaves through the scheduler, with the hand-off it had no part in. *)
LEMMA ExitMaps ==
  ASSUME IInv, Exit
  PROVE  \E notified \in BOOLEAN : Sched!Exit(notified)
<1>1. PICK notified \in BOOLEAN :
        Sched!Retire(notified) /\ Retired = Sched!Retired(notified)
  BY RetireMaps DEF Exit
<1>2. Sched!User /\ Sched!SwitchAway(Retired, DonorLeft, TargetLeft)
  BY CallerMaps, SwitchMaps DEF Exit
<1>3. DonorLeft = Sched!DonorLeft /\ TargetLeft = Sched!TargetLeft
  BY DEF DonorLeft, TargetLeft, Leaves, NONE, Sched!DonorLeft, Sched!TargetLeft,
         Sched!Leaves, Sched!NONE
<1>4. QED
  BY <1>1, <1>2, <1>3 DEF Sched!Exit

(* A fault stays on the CPU.                                               *)
LEMMA FaultMaps ==
  ASSUME IInv, Fault
  PROVE  \E notified \in BOOLEAN : Sched!Fault(notified)
<1>1. PICK notified \in BOOLEAN :
        Sched!Retire(notified) /\ Retired = Sched!Retired(notified)
  BY RetireMaps DEF Fault
<1>2. DonorLeft = Sched!DonorLeft /\ TargetLeft = Sched!TargetLeft
  BY DEF DonorLeft, TargetLeft, Leaves, NONE, Sched!DonorLeft, Sched!TargetLeft,
         Sched!Leaves, Sched!NONE
<1>3. QED
  BY <1>1, <1>2 DEF Fault, Sched!Fault

(* init's exit, and the loop after it.                                     *)
LEMMA InitExitsMaps == ASSUME IInv, InitExits PROVE Sched!InitExits
<1>1. Sched!Acts /\ current = Sched!InitTask
  BY ActsMaps, Sizes DEF InitExits, InitTask, Sched!InitTask
<1>2. QED
  BY <1>1 DEF InitExits, Sched!InitExits, tableVars, ipcVars

(* The wfi loop init_exit ends in is the same in both models.               *)
LEMMA HaltLoopMaps == ASSUME HaltLoop PROVE Sched!HaltLoop
  BY DEF HaltLoop, vars, tableVars, ipcVars, taskVars, Sched!HaltLoop, Sched!vars

-----------------------------------------------------------------------------
(* The first free slot is the scheduler's, and is no task's.               *)
LEMMA FirstFreeMaps ==
  ASSUME IInv, NEW s \in Slots, FirstFree(s)
  PROVE  Sched!FirstFree(s) /\ program[s] = "none"
  BY DEF IInv, Programs, FirstFree, Sched!FirstFree, Slots, Sched!Slots,
         IdleTask, Sched!IdleTask

(* SPAWN claims a slot.                                                    *)
LEMMA SpawnClaimsMaps ==
  ASSUME IInv, NEW s \in Slots, SpawnClaims(s)
  PROVE  \E u \in Sched!Slots : Sched!Claim(u)
<1>1. /\ ~halted /\ current = InitTask /\ state[InitTask] = "Running"
      /\ spawn.step = "claim" /\ FirstFree(s)
      /\ state' = [state EXCEPT ![s] = "Reserved"]
      /\ UNCHANGED <<current, donor, target, program, wait, halted>>
  BY DEF SpawnClaims, SpawnAt, ipcVars
<1>2. ~Sched!Spawning
  BY <1>1 DEF IInv, OneLoading, Sched!Spawning, Slots, Sched!Slots
<1>3. Sched!Acts /\ current = Sched!InitTask
  BY <1>1, <1>2, Sizes DEF Sched!Acts, IdleTask, InitTask, Sched!IdleTask, Sched!InitTask
<1>4. Sched!Claim(s)
  BY <1>1, <1>3, FirstFreeMaps DEF Sched!Claim
<1>5. QED
  BY <1>4 DEF Slots, Sched!Slots

(* It installs the task there.                                             *)
LEMMA SpawnInstallsMaps ==
  ASSUME IInv, NEW s \in Slots, SpawnInstalls(s)
  PROVE  \E u \in Sched!Slots : Sched!Install(u)
<1>1. /\ SpawnAt("build") /\ state[s] = "Reserved"
      /\ state' = [state EXCEPT ![s] = "Ready"]
      /\ program' = [program EXCEPT ![s] = "elf"]
      /\ UNCHANGED <<current, donor, target, wait, halted>>
  BY DEF SpawnInstalls
<1>2. Sched!SpawnEnds(s)
  BY <1>1 DEF SpawnAt, InitTask, Sched!SpawnEnds, Sched!InitTask
<1>3. [u \in Slots |-> program'[u] = "elf"] =
      [[u \in Slots |-> program[u] = "elf"] EXCEPT ![s] = TRUE]
  BY <1>1 DEF IInv, TaskTypes
<1>4. Sched!Install(s)
  BY <1>1, <1>2, <1>3 DEF Sched!Install
<1>5. QED
  BY <1>4 DEF Slots, Sched!Slots

(* Or it gives the slot back.                                              *)
LEMMA SpawnFailsMaps ==
  ASSUME IInv, NEW s \in Slots, SpawnFails(s)
  PROVE  \E u \in Sched!Slots : Sched!Release(u)
<1>1. /\ SpawnAt("build") /\ state[s] = "Reserved"
      /\ state' = [state EXCEPT ![s] = "Free"]
      /\ UNCHANGED <<current, donor, target, program, wait, halted>>
  BY DEF SpawnFails, ipcVars
<1>2. Sched!SpawnEnds(s)
  BY <1>1 DEF SpawnAt, InitTask, Sched!SpawnEnds, Sched!InitTask
<1>3. Sched!Release(s)
  BY <1>1, <1>2 DEF Sched!Release
<1>4. QED
  BY <1>3 DEF Slots, Sched!Slots

(* A built-in starts without an address space.                             *)
LEMMA SpawnBuiltinMaps ==
  ASSUME IInv, NEW s \in Slots, NEW p \in Builtins, SpawnBuiltin(s, p)
  PROVE  \E u \in Sched!Slots : Sched!SpawnBuiltin(u)
<1>1. /\ User /\ current = InitTask /\ FirstFree(s)
      /\ state' = [state EXCEPT ![s] = "Ready"]
      /\ program' = [program EXCEPT ![s] = p]
      /\ UNCHANGED <<current, donor, target, wait, halted>>
  BY DEF SpawnBuiltin
<1>2. p # "elf" /\ program[s] # "elf" /\ Sched!FirstFree(s)
  BY <1>1, FirstFreeMaps, KernelAssumption
<1>3. [u \in Slots |-> program'[u] = "elf"] = [u \in Slots |-> program[u] = "elf"]
  BY <1>1, <1>2 DEF IInv, TaskTypes
<1>4. Sched!SpawnBuiltin(s)
  BY <1>1, <1>2, <1>3, CallerMaps DEF Sched!SpawnBuiltin, InitTask, Sched!InitTask
<1>5. QED
  BY <1>4 DEF Slots, Sched!Slots

(* Every other action leaves the table and the waits alone.                *)
LEMMA OthersMap ==
  ASSUME \/ \E h \in HandleIds : RecvTakes(h)
         \/ \E c \in Channels : BuiltinTakes(c)
         \/ \E h \in HandleIds : ChannelCreate(h)
         \/ \E grants \in GrantLists : SpawnBegins(grants)
         \/ SpawnReaps \/ SpawnFindsNoSlot \/ SpawnBuiltinFails
         \/ UNCHANGED vars
  PROVE  UNCHANGED Sched!vars
<1>1. UNCHANGED <<state, current, donor, target, program, wait, halted>>
  BY DEF RecvTakes, BuiltinTakes, ChannelCreate, SpawnBegins, SpawnReaps,
         SpawnFindsNoSlot, SpawnBuiltinFails, vars, tableVars, ipcVars, taskVars
<1>2. QED
  BY <1>1, StutterMaps

-----------------------------------------------------------------------------
(* The kernel boots into the scheduler's initial state.                    *)
LEMMA InitMaps == Init => Sched!Init
<1> SUFFICES ASSUME Init PROVE Sched!Init
  OBVIOUS
<1>1. /\ state = [t \in Slots |-> IF t = IdleTask THEN "Running"
                                 ELSE IF t = InitTask THEN "Ready" ELSE "Free"]
      /\ current = IdleTask /\ donor = NONE /\ target = NONE /\ halted = FALSE
      /\ wait = [t \in Slots |-> NoWait]
      /\ program = [t \in Slots |-> IF t = InitTask THEN "elf" ELSE "none"]
  BY DEF Init
<1>2. [t \in Slots |-> wait[t].deadline] = [t \in Slots |-> "none"]
  BY <1>1, NoWaitFacts
<1>3. [t \in Slots |-> program[t] = "elf"] = [t \in Slots |-> t = InitTask]
  BY <1>1
<1>4. QED
  BY <1>1, <1>2, <1>3 DEF Sched!Init, Slots, Sched!Slots, IdleTask, Sched!IdleTask,
     InitTask, Sched!InitTask, NONE, Sched!NONE

(* Every step of the kernel is a step of the scheduler, or none.           *)
LEMMA NextMaps == IInv /\ [Next]_vars => [Sched!Next]_(Sched!vars)
<1> SUFFICES ASSUME IInv, [Next]_vars PROVE Sched!Next \/ UNCHANGED Sched!vars
  OBVIOUS
<1>1. CASE Tick
  BY <1>1, TickMaps DEF Sched!Next
<1>2. CASE \E t \in Slots : ClockPasses(t)
  BY <1>2, ClockPassesMaps DEF Sched!Next
<1>3. CASE Yield
  BY <1>3, YieldMaps DEF Sched!Next
<1>4. CASE \E h \in HandleIds, m \in Payloads : SendSyscall(h, m)
  BY <1>4, SendSyscallMaps DEF Sched!Next
<1>5. CASE \E h \in HandleIds, deadline \in {"forever", "later"} : RecvBlocks(h, deadline)
  BY <1>5, RecvBlocksMaps DEF Sched!Next
<1>6. CASE \E c \in Channels : BuiltinBlocks(c)
  BY <1>6, BuiltinBlocksMaps DEF Sched!Next
<1>7. CASE \E c \in Channels, m \in Payloads : BuiltinSends(c, m)
  BY <1>7, BuiltinSendsMaps DEF Sched!Next
<1>8. CASE Exit
  BY <1>8, ExitMaps DEF Sched!Next
<1>9. CASE Fault
  BY <1>9, FaultMaps DEF Sched!Next
<1>10. CASE InitExits
  BY <1>10, InitExitsMaps DEF Sched!Next
<1>11. CASE HaltLoop
  BY <1>11, HaltLoopMaps DEF Sched!Next
<1>12. CASE \E s \in Slots : SpawnClaims(s)
  BY <1>12, SpawnClaimsMaps DEF Sched!Next
<1>13. CASE \E s \in Slots : SpawnInstalls(s)
  BY <1>13, SpawnInstallsMaps DEF Sched!Next
<1>14. CASE \E s \in Slots : SpawnFails(s)
  BY <1>14, SpawnFailsMaps DEF Sched!Next
<1>15. CASE \E s \in Slots, p \in Builtins : SpawnBuiltin(s, p)
  BY <1>15, SpawnBuiltinMaps DEF Sched!Next
<1>16. CASE \/ \E h \in HandleIds : RecvTakes(h)
            \/ \E c \in Channels : BuiltinTakes(c)
            \/ \E h \in HandleIds : ChannelCreate(h)
            \/ \E grants \in GrantLists : SpawnBegins(grants)
            \/ SpawnReaps \/ SpawnFindsNoSlot \/ SpawnBuiltinFails
            \/ UNCHANGED vars
  BY <1>16, OthersMap
<1>17. QED
  BY <1>1, <1>2, <1>3, <1>4, <1>5, <1>6, <1>7, <1>8, <1>9, <1>10, <1>11, <1>12, <1>13,
     <1>14, <1>15, <1>16 DEF Next

(* The kernel schedules as module Scheduler says, so what is proved of the *)
(* scheduler, that only one task runs, that a recorded hand-off can always *)
(* be returned from, that only live frames are resumed, holds in it.       *)
THEOREM KernelSchedules == Spec => SchedulerSpec
<1>1. Init => Sched!Init
  BY InitMaps
<1>2. IInv /\ [Next]_vars => [Sched!Next]_(Sched!vars)
  BY NextMaps
<1>3. Spec => []IInv
  BY Inductive
<1>4. QED
  BY <1>1, <1>2, <1>3, PTL DEF Spec, SchedulerSpec, Sched!Spec

-----------------------------------------------------------------------------
(* The scheduler's own theorems, for the table the kernel keeps.           *)
Proved == INSTANCE SchedulerProofs WITH
  space <- [t \in Slots |-> program[t] = "elf"],
  wait <- [t \in Slots |-> wait[t].deadline]

(* The two instances are of one module: the scheduler the kernel is shown  *)
(* to implement is the one those theorems are about.                       *)
LEMMA OneInit == Sched!Init => Proved!Init
  BY DEF Sched!Init, Proved!Init, Sched!Slots, Proved!Slots, Sched!IdleTask,
     Proved!IdleTask, Sched!InitTask, Proved!InitTask, Sched!NONE, Proved!NONE

(* So are their steps.                                                     *)
LEMMA OneNext == [Sched!Next]_(Sched!vars) => [Proved!Next]_(Proved!vars)
<1>1. Sched!Next => Proved!Next
  BY DEF Sched!Slots, Proved!Slots, Sched!NONE, Proved!NONE, Sched!IdleTask,
     Proved!IdleTask, Sched!InitTask, Proved!InitTask, Sched!Demote,
     Proved!Demote, Sched!Distance, Proved!Distance, Sched!NextInTurn,
     Proved!NextInTurn, Sched!Run, Proved!Run, Sched!ForgetHandOff,
     Proved!ForgetHandOff, Sched!SenderReturns, Proved!SenderReturns,
     Sched!Successor, Proved!Successor, Sched!SwitchAway, Proved!SwitchAway,
     Sched!HandOff, Proved!HandOff, Sched!vars, Proved!vars, Sched!Spawning,
     Proved!Spawning, Sched!Acts, Proved!Acts, Sched!User, Proved!User,
     Sched!Builtin, Proved!Builtin, Sched!Expired, Proved!Expired, Sched!Tick,
     Proved!Tick, Sched!ClockPasses, Proved!ClockPasses, Sched!Yield,
     Proved!Yield, Sched!RecvBlocks, Proved!RecvBlocks, Sched!BuiltinRecvBlocks,
     Proved!BuiltinRecvBlocks, Sched!SendHandsOff, Proved!SendHandsOff,
     Sched!Wake, Proved!Wake, Sched!Leaves, Proved!Leaves, Sched!DonorLeft,
     Proved!DonorLeft, Sched!TargetLeft, Proved!TargetLeft, Sched!Retire,
     Proved!Retire, Sched!Retired, Proved!Retired, Sched!Exit, Proved!Exit,
     Sched!Fault, Proved!Fault, Sched!InitExits, Proved!InitExits,
     Sched!HaltLoop, Proved!HaltLoop, Sched!FirstFree, Proved!FirstFree,
     Sched!Claim, Proved!Claim, Sched!SpawnEnds, Proved!SpawnEnds, Sched!Install,
     Proved!Install, Sched!Release, Proved!Release, Sched!SpawnBuiltin,
     Proved!SpawnBuiltin, Sched!Next, Proved!Next
<1>2. UNCHANGED Sched!vars => UNCHANGED Proved!vars
  BY DEF Sched!vars, Proved!vars
<1>3. QED
  BY <1>1, <1>2

(* What the scheduler guarantees, the whole kernel does, whatever its      *)
(* tasks send, spawn or crash: no task but the one on the CPU is Running   *)
(* and the idle task can be resumed; a recorded hand-off, which nothing    *)
(* but the next switch looks at, is always one to return from; a wait is   *)
(* that of a blocked EL0 task; and run() is never given a dead frame.      *)
THEOREM KernelRunsLiveTasks ==
  Spec => /\ []Proved!OneRunning
          /\ []Proved!HandOffPair
          /\ []Proved!WaitsAreBlocked
          /\ Proved!LiveFramesOnly
<1>1. Spec => Sched!Spec
  BY KernelSchedules DEF SchedulerSpec
<1>2. Sched!Spec => Proved!Spec
  BY OneInit, OneNext, PTL DEF Sched!Spec, Proved!Spec
<1>3. Proved!Spec => []Proved!OneRunning
  BY Proved!OneTaskRuns, MaxTasksAssumption DEF Proved!MaxTasksAssumption
<1>4. Proved!Spec => []Proved!HandOffPair
  BY Proved!HandOffsArePairs, MaxTasksAssumption DEF Proved!MaxTasksAssumption
<1>5. Proved!Spec => []Proved!WaitsAreBlocked
  BY Proved!WaitsMatchBlocked, MaxTasksAssumption DEF Proved!MaxTasksAssumption
<1>6. Proved!Spec => Proved!LiveFramesOnly
  BY Proved!LiveFrames, MaxTasksAssumption DEF Proved!MaxTasksAssumption
<1>7. QED
  BY <1>1, <1>2, <1>3, <1>4, <1>5, <1>6
=============================================================================
