---------------------------- MODULE LineService ----------------------------
(***************************************************************************)
(* What a client of a line-oriented service may rely on: every line it     *)
(* ends is answered, or is of a kind that gets no answer, and the answers  *)
(* come once each and in the order of the lines.  A line of more than      *)
(* MaxLine bytes is answered as one that is too long, whatever it says.    *)
(***************************************************************************)
EXTENDS Naturals, Sequences

CONSTANTS
  Bytes,              \* what the client sends, Newline and Return among it
  Newline, Return,
  MaxLine,
  TooLong, NoAnswer,
  Response(_)         \* of a line of at most MaxLine bytes

VARIABLES
  open,               \* the line that the client has not ended yet
  due,                \* the responses to the lines it has ended
  answers             \* what it has been sent and has not read

vars == <<open, due, answers>>

Empty == [long |-> FALSE, text |-> <<>>]

Init ==
  /\ open = Empty
  /\ due = <<>>
  /\ answers = <<>>

(* A line with one more byte, which is not a newline.                      *)
Grown(l, b) ==
  IF b = Return \/ l.long THEN l
  ELSE IF Len(l.text) = MaxLine THEN [long |-> TRUE, text |-> <<>>]
  ELSE [l EXCEPT !.text = Append(@, b)]

Send(b) ==
  /\ IF b = Newline
     THEN /\ due' = Append(due, IF open.long THEN TooLong ELSE Response(open.text))
          /\ open' = Empty
     ELSE /\ open' = Grown(open, b)
          /\ UNCHANGED due
  /\ UNCHANGED answers

Answer ==
  /\ due # <<>>
  /\ due' = Tail(due)
  /\ answers' = IF Head(due) = NoAnswer THEN answers ELSE Append(answers, Head(due))
  /\ UNCHANGED open

Take ==
  /\ answers # <<>>
  /\ answers' = Tail(answers)
  /\ UNCHANGED <<open, due>>

Next == (\E b \in Bytes : Send(b)) \/ Answer \/ Take

Safety == Init /\ [][Next]_vars

Liveness == WF_vars(Answer)

Spec == Safety /\ Liveness
=============================================================================
