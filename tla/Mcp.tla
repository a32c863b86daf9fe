-------------------------------- MODULE Mcp --------------------------------
(***************************************************************************)
(* The MCP bridge (kernel/src/mcp.rs): a built-in task that reads requests *)
(* from the second UART, a line each, and answers them on it.              *)
(*                                                                         *)
(* A message is one byte here, and so are a piece of text that is not JSON *)
(* ("junk": half of a message that a client was cut off in is one) and a   *)
(* space.  A client that hangs up and the next one are one stream of bytes *)
(* to the bridge.  Of the views the one of the tasks is modelled: it reads *)
(* the table of tasks in three places per task, with IRQs on in between.   *)
(***************************************************************************)
EXTENDS Integers, Sequences, Functions

CONSTANTS
  Bytes,              \* what clients send
  MAX_LINE,
  RxFifo,             \* bytes the UART keeps; the sender waits when it is full
  TxFifo,             \* answers it keeps; the bridge waits when it is full
  MAX_TASKS,
  MaxGeneration       \* bound on the tasks started in a slot

ASSUME McpAssumption ==
  /\ MAX_LINE \in Nat /\ RxFifo \in Nat \ {0} /\ TxFifo \in Nat \ {0}
  /\ MAX_TASKS \in Nat /\ MaxGeneration \in Nat

Slots == 0 .. MAX_TASKS - 1

Requests == {"ping", "tasks"}

VARIABLES
  wire,               \* the receive FIFO
  line, discarding,   \* locals of bridge_el1
  at,                 \* where bridge_el1 is
  response,           \* what it is about to send
  row, rows,          \* tasks_view: the task it is at, those it has done
  sent,               \* the transmit FIFO
  generation,         \* GENERATIONS
  named,              \* registry::task_names: which of a slot's tasks the
                      \* name belongs to, 0 when there is none
  changed             \* history: slots that changed while tasks_view ran

bridgeVars == <<line, discarding, at, response, row, rows>>
tableVars == <<generation, named, changed>>
mcpVars == <<wire, bridgeVars, sent, tableVars>>

McpInit ==
  /\ wire = <<>> /\ line = <<>> /\ discarding = FALSE
  /\ at = "drain" /\ response = "none"
  /\ row = <<>> /\ rows = <<>> /\ sent = <<>>
  /\ generation = [i \in Slots |-> 0]
  /\ named = [i \in Slots |-> 0]
  /\ changed = {}

-----------------------------------------------------------------------------
(* Clients.                                                                *)
Write(b) ==
  /\ Len(wire) < RxFifo
  /\ wire' = Append(wire, b)
  /\ UNCHANGED <<bridgeVars, sent, tableVars>>

Read ==
  /\ sent # <<>>
  /\ sent' = Tail(sent)
  /\ UNCHANGED <<wire, bridgeVars, tableVars>>

-----------------------------------------------------------------------------
(* handle_line, with dispatch: what is sent back for a line.               *)
handle_line(text) ==
  LET words == SelectSeq(text, LAMBDA b : b # "space") IN
  IF words = <<>> \/ words = <<"notification">> THEN "none"
  ELSE IF Len(words) > 1 \/ words[1] = "junk" THEN "parse error"
  ELSE IF words[1] \in Requests THEN words[1]
  ELSE "method not found"

(* Mutant: the end of a line that was too long is read as a line.          *)
LineEnds_Stale ==
  /\ response' = handle_line(line)
  /\ discarding' = FALSE
  /\ line' = <<>>

LineEnds ==
  /\ response' = IF discarding THEN "request too long" ELSE handle_line(line)
  /\ discarding' = FALSE
  /\ line' = <<>>

(* Mutant: one byte more than MAX_LINE is kept.                            *)
Grows_OneMore(b) ==
  IF discarding THEN UNCHANGED <<line, discarding>>
  ELSE IF Len(line) > MAX_LINE
       THEN discarding' = TRUE /\ line' = <<>>
       ELSE line' = Append(line, b) /\ UNCHANGED discarding

Grows(b) ==
  IF discarding THEN UNCHANGED <<line, discarding>>
  ELSE IF Len(line) >= MAX_LINE
       THEN discarding' = TRUE /\ line' = <<>>
       ELSE line' = Append(line, b) /\ UNCHANGED discarding

(* pl011_try_read finds a byte.                                            *)
Receive ==
  /\ at = "drain" /\ wire # <<>>
  /\ wire' = Tail(wire)
  /\ CASE Head(wire) = "newline" ->
            /\ LineEnds
            /\ at' = CASE response' = "none"  -> "drain"
                       [] response' = "tasks" -> "view"
                       [] OTHER               -> "reply"
       [] Head(wire) = "return" -> UNCHANGED <<line, discarding, at, response>>
       [] OTHER -> Grows(Head(wire)) /\ UNCHANGED <<at, response>>
  /\ UNCHANGED <<row, rows, sent, tableVars>>

(* It finds none: the bridge lets interrupts in and waits for one.         *)
Halt ==
  /\ at = "drain" /\ wire = <<>>
  /\ at' = "halted"
  /\ UNCHANGED <<wire, line, discarding, response, row, rows, sent, tableVars>>

(* The timer, or any other interrupt; the UART raises none.                *)
Wake ==
  /\ at = "halted"
  /\ at' = "drain"
  /\ UNCHANGED <<wire, line, discarding, response, row, rows, sent, tableVars>>

(* Mutant: one place of the FIFO is left empty.                            *)
Reply_LeavesOne ==
  /\ at = "reply" /\ Len(sent) + 1 < TxFifo
  /\ sent' = Append(sent, response)
  /\ at' = "drain" /\ response' = "none"
  /\ row' = <<>> /\ rows' = <<>> /\ changed' = {}
  /\ UNCHANGED <<wire, line, discarding, generation, named>>

(* reply: the bridge spins while the transmit FIFO is full.                *)
Reply ==
  /\ at = "reply" /\ Len(sent) < TxFifo
  /\ sent' = Append(sent, response)
  /\ at' = "drain" /\ response' = "none"
  /\ row' = <<>> /\ rows' = <<>> /\ changed' = {}
  /\ UNCHANGED <<wire, line, discarding, generation, named>>

-----------------------------------------------------------------------------
(* tasks_view.  row is <<id>>, with the name and the generation as they    *)
(* are read; rows has the stack's depth too, as the task it belongs to.    *)
NextId == IF row = <<>> THEN 0 ELSE row[1] + 1

Peak(i) == named[i]

(* Mutant: the generation is read before the name.                         *)
ReadTask_Swapped ==
  \/ /\ Len(row) \in {0, 4}
     /\ NextId \in Slots
     /\ row' = <<NextId, 0, generation[NextId]>>
     /\ UNCHANGED rows
  \/ /\ Len(row) = 3
     /\ row' = IF named[row[1]] = 0 THEN <<row[1], 0, 0, 0>>
               ELSE <<row[1], named[row[1]], row[3], Peak(row[1])>>
     /\ rows' = IF named[row[1]] = 0 THEN rows ELSE Append(rows, row')

ReadTask ==
  \/ /\ Len(row) \in {0, 4}
     /\ NextId \in Slots
     /\ row' = IF named[NextId] = 0 THEN <<NextId, 0, 0, 0>>
               ELSE <<NextId, named[NextId]>>
     /\ UNCHANGED rows
  \/ /\ Len(row) = 2
     /\ row' = Append(row, generation[row[1]])
     /\ UNCHANGED rows
  \/ /\ Len(row) = 3
     /\ row' = Append(row, Peak(row[1]))
     /\ rows' = Append(rows, row')

View ==
  /\ at = "view"
  /\ ReadTask
  /\ UNCHANGED <<wire, line, discarding, at, response, sent, tableVars>>

ViewDone ==
  /\ at = "view" /\ Len(row) \in {0, 4}
  /\ NextId \notin Slots
  /\ at' = "reply"
  /\ UNCHANGED <<wire, line, discarding, response, row, rows, sent, tableVars>>

-----------------------------------------------------------------------------
(* The other tasks: a slot gets a task and its name, and loses both.       *)
Noted(i) == changed' = IF response = "tasks" THEN changed \cup {i} ELSE changed

Spawn(i) ==
  /\ named[i] = 0 /\ generation[i] < MaxGeneration
  /\ generation' = [generation EXCEPT ![i] = @ + 1]
  /\ named' = [named EXCEPT ![i] = generation'[i]]
  /\ Noted(i)
  /\ UNCHANGED <<wire, bridgeVars, sent>>

Exit(i) ==
  /\ named[i] # 0
  /\ named' = [named EXCEPT ![i] = 0]
  /\ Noted(i)
  /\ UNCHANGED <<wire, bridgeVars, sent, generation>>

Bridge == Receive \/ Halt \/ Reply \/ View \/ ViewDone

McpNext ==
  \/ \E b \in Bytes : Write(b)
  \/ Read \/ Bridge \/ Wake
  \/ \E i \in Slots : Spawn(i) \/ Exit(i)

(* The bridge gets turns from the scheduler, the timer keeps ticking, and  *)
(* clients read what they are sent.                                        *)
Fairness == WF_mcpVars(Bridge) /\ WF_mcpVars(Wake) /\ WF_mcpVars(Read)

McpSpec == McpInit /\ [][McpNext]_mcpVars /\ Fairness

-----------------------------------------------------------------------------
(* What a byte adds to what the clients have sent: an open line, and the   *)
(* responses that are due to the lines that have ended.                    *)
Feed(s, b) ==
  IF b = "newline"
  THEN [long |-> FALSE, text |-> <<>>,
        due  |-> Append(s.due, IF s.long THEN "request too long" ELSE handle_line(s.text))]
  ELSE IF s.long \/ b = "return" THEN s
  ELSE IF Len(s.text) = MAX_LINE THEN [s EXCEPT !.long = TRUE, !.text = <<>>]
  ELSE [s EXCEPT !.text = Append(@, b)]

Fed(s, bytes) ==
  LET fed[n \in 0 .. Len(bytes)] == IF n = 0 THEN s ELSE Feed(fed[n - 1], bytes[n])
  IN  fed[Len(bytes)]

(* What the clients have sent and the bridge has not answered: the line it *)
(* is answering, the one it is reading, and those in the FIFO.             *)
Unanswered ==
  Fed([long |-> discarding, text |-> line,
       due  |-> IF at \in {"view", "reply"} THEN <<response>> ELSE <<>>],
      wire)

Service == INSTANCE LineService WITH
  Newline <- "newline", Return <- "return", MaxLine <- MAX_LINE,
  TooLong <- "request too long", NoAnswer <- "none", Response <- handle_line,
  open <- [long |-> Unanswered.long, text |-> Unanswered.text],
  due <- Unanswered.due, answers <- sent

(* mcp.rs:24 "Longer lines are discarded whole", :105 "Returns the         *)
(* response, or None for notifications": however the bytes arrive, every   *)
(* line that is a request gets one answer, in the order of the lines; the  *)
(* line after one that was too long, or that a client was cut off in, is   *)
(* read as what it is.                                                     *)
AnswersInOrder == Service!Safety

(* And no line that has ended waits for its answer for ever: not in the    *)
(* FIFO while the bridge is halted, nor for room while it spins in reply.  *)
LinesGetAnswers == Service!Liveness

Responses ==
  Requests \cup {"none", "parse error", "method not found", "request too long"}

(* The values each variable may hold; mcp.rs:24 bounds the line, whatever  *)
(* is sent.                                                                *)
TypeOK ==
  /\ wire \in Seq(Bytes) /\ Len(wire) <= RxFifo
  /\ line \in Seq(Bytes \ {"newline", "return"}) /\ Len(line) <= MAX_LINE
  /\ discarding \in BOOLEAN
  /\ at \in {"drain", "halted", "view", "reply"}
  /\ response \in Responses
  /\ row \in Seq(Nat) /\ Len(row) \in {0, 2, 3, 4}
  /\ rows \in Seq(Seq(Nat))
  /\ sent \in Seq(Responses \ {"none"}) /\ Len(sent) <= TxFifo
  /\ generation \in [Slots -> 0 .. MaxGeneration]
  /\ named \in [Slots -> Nat] /\ \A i \in Slots : named[i] \in {0, generation[i]}
  /\ changed \subseteq Slots

(* The "tasks" view (mcp.rs:256): a task that was there before the request *)
(* and is there when it is answered has its row, with its own name,        *)
(* generation and stack; a slot that was free throughout has none; and a   *)
(* row that mixes tasks of a slot that changed in between goes forward in  *)
(* time, so the name is never newer than the generation beside it.         *)
RowsOfTasks ==
  at = "reply" /\ response = "tasks" =>
    /\ \A i \in Slots \ changed :
         {r \in Range(rows) : r[1] = i} =
           IF named[i] = 0 THEN {} ELSE {<<i, named[i], generation[i], named[i]>>}
    /\ \A r \in Range(rows) : r[2] <= r[3] /\ (r[4] = 0 \/ r[3] <= r[4])
=============================================================================
