------------------------------- MODULE Rights -------------------------------
(***************************************************************************)
(* Handle tables (kernel/src/handles.rs) and where the receive right of    *)
(* each channel is (the receiver and recv_home fields of ipc.rs).  A       *)
(* handle is an index into its task's table; a slot there names a channel  *)
(* and the rights the task has on it.                                      *)
(***************************************************************************)
EXTENDS Ipc

CONSTANT MaxHandles                 \* MAX_HANDLES

ASSUME RightsAssumption ==
  /\ MaxHandles \in Nat \ {0}
  (* init can fill its table before the channels run out.                  *)
  /\ MaxChannels >= BootChannels + MaxHandles - 1

VARIABLES
  handles,                          \* each task's handle table
  receiver,                         \* the task holding RECV, or NONE
  home,                             \* the task and handle RECV returns to
  nextId                            \* NEXT_ID: channels created so far

rightsVars == <<handles, receiver, home, nextId>>

HandleIds == 0 .. MaxHandles - 1
HandleSlots == [channel : Channels, rights : SUBSET {"send", "recv"}]
EmptySlot == [channel |-> NoChannel, rights |-> {}]
EmptyTable == [h \in HandleIds |-> EmptySlot]
HandleTables == [HandleIds -> HandleSlots \cup {EmptySlot}]

Homes == (Slots \cup {NONE}) \X HandleIds
NoHome == <<NONE, 0>>

(* lookup: the caller's handle h names a channel and carries the right.    *)
Holds(t, h, right) ==
  handles[t][h].channel # NoChannel /\ right \in handles[t][h].rights

FirstEmpty(table, h) ==
  /\ table[h].channel = NoChannel
  /\ \A g \in HandleIds : table[g].channel = NoChannel => h <= g

-----------------------------------------------------------------------------
(* A spawn request's grants, each a handle of init's and the rights to     *)
(* give.  They are resolved against init's table before anything changes.  *)
Grants == [handle : HandleIds, rights : SUBSET {"send", "recv"}]

GrantedChannel(g) == handles[InitTask][g.handle].channel

Resolves(grants) ==
  /\ Len(grants) <= MaxHandles
  /\ \A i \in 1 .. Len(grants) :
       LET g == grants[i] IN
       /\ GrantedChannel(g) # NoChannel
       /\ g.rights \subseteq handles[InitTask][g.handle].rights
       /\ "recv" \in g.rights =>
            /\ GrantedChannel(g) # INIT_INBOX
            /\ \A j \in 1 .. i - 1 : "recv" \in grants[j].rights
                 => GrantedChannel(grants[j]) # GrantedChannel(g)

(* The child's table, one slot per grant in order.                         *)
ChildTable(grants) ==
  [h \in HandleIds |->
     IF h < Len(grants)
       THEN [channel |-> GrantedChannel(grants[h + 1]),
             rights |-> grants[h + 1].rights]
       ELSE EmptySlot]

(* init's handles whose RECV the request moves.                            *)
Moves(grants) ==
  {grants[i].handle : i \in {j \in 1 .. Len(grants) : "recv" \in grants[j].rights}}

(* Mutants: init keeps RECV, or loses the handle with it.                  *)
Bind_KeepsRight(s, child, moves) ==
  LET moved == {handles[InitTask][h].channel : h \in moves}
      from(c) == CHOOSE h \in moves : handles[InitTask][h].channel = c
  IN
  /\ handles' = [handles EXCEPT ![s] = child]
  /\ receiver' = [c \in Channels |-> IF c \in moved THEN s ELSE receiver[c]]
  /\ home' = [c \in Channels |-> IF c \in moved THEN <<InitTask, from(c)>> ELSE home[c]]

Bind_ClosesHandle(s, child, moves) ==
  LET moved == {handles[InitTask][h].channel : h \in moves}
      from(c) == CHOOSE h \in moves : handles[InitTask][h].channel = c
  IN
  /\ handles' = [handles EXCEPT
       ![s] = child,
       ![InitTask] = [h \in HandleIds |-> IF h \in moves THEN EmptySlot ELSE @[h]]]
  /\ receiver' = [c \in Channels |-> IF c \in moved THEN s ELSE receiver[c]]
  /\ home' = [c \in Channels |-> IF c \in moved THEN <<InitTask, from(c)>> ELSE home[c]]

(* bind: the receive rights move to task s, which starts with this table.  *)
Bind(s, child, moves) ==
  LET moved == {handles[InitTask][h].channel : h \in moves}
      from(c) == CHOOSE h \in moves : handles[InitTask][h].channel = c
  IN
  /\ handles' = [handles EXCEPT
       ![s] = child,
       ![InitTask] = [h \in HandleIds |->
          [channel |-> @[h].channel,
           rights |-> IF h \in moves THEN @[h].rights \ {"recv"} ELSE @[h].rights]]]
  /\ receiver' = [c \in Channels |-> IF c \in moved THEN s ELSE receiver[c]]
  /\ home' = [c \in Channels |-> IF c \in moved THEN <<InitTask, from(c)>> ELSE home[c]]

-----------------------------------------------------------------------------
(* retire_current: each RECV the task t holds goes back to the handle it   *)
(* came from, if that handle still names the channel.  Otherwise the       *)
(* channel is left without a receiver.                                     *)
GivenUp(t) ==
  {c \in Channels : /\ receiver[c] = t
                    /\ \E h \in HandleIds : /\ handles[t][h].channel = c
                                            /\ "recv" \in handles[t][h].rights}

GoesHome(t, c) ==
  /\ c \in GivenUp(t)
  /\ home[c][1] \in Slots \ {t}
  /\ handles[home[c][1]][home[c][2]].channel = c

(* Mutant: the returning right replaces those left on the handle.          *)
SendHome_Replaces(t) ==
  /\ handles' = [u \in Slots |->
       IF u = t THEN EmptyTable
       ELSE [h \in HandleIds |->
         IF GoesHome(t, handles[u][h].channel) /\ home[handles[u][h].channel] = <<u, h>>
           THEN [handles[u][h] EXCEPT !.rights = {"recv"}]
           ELSE handles[u][h]]]
  /\ receiver' = [c \in Channels |->
       IF GoesHome(t, c) THEN home[c][1]
       ELSE IF c \in GivenUp(t) THEN NONE ELSE receiver[c]]
  /\ home' = [c \in Channels |-> IF c \in GivenUp(t) THEN NoHome ELSE home[c]]

SendHome(t) ==
  /\ handles' = [u \in Slots |->
       IF u = t THEN EmptyTable
       ELSE [h \in HandleIds |->
         IF GoesHome(t, handles[u][h].channel) /\ home[handles[u][h].channel] = <<u, h>>
           THEN [handles[u][h] EXCEPT !.rights = @ \cup {"recv"}]
           ELSE handles[u][h]]]
  /\ receiver' = [c \in Channels |->
       IF GoesHome(t, c) THEN home[c][1]
       ELSE IF c \in GivenUp(t) THEN NONE ELSE receiver[c]]
  /\ home' = [c \in Channels |-> IF c \in GivenUp(t) THEN NoHome ELSE home[c]]

(* channel_create: a handle with both rights in init's first empty slot.   *)
Create(h) ==
  /\ FirstEmpty(handles[InitTask], h)
  /\ nextId < MaxChannels
  /\ handles' = [handles EXCEPT
       ![InitTask][h] = [channel |-> nextId, rights |-> {"send", "recv"}]]
  /\ receiver' = [receiver EXCEPT ![nextId] = InitTask]
  /\ home' = [home EXCEPT ![nextId] = NoHome]
  /\ nextId' = nextId + 1
=============================================================================
