-------------------------------- MODULE Heap --------------------------------
(***************************************************************************)
(* The kernel heap (kernel/src/heap.rs): a list of free blocks in address  *)
(* order, first fit, neighbours merged when a block comes back.            *)
(*                                                                         *)
(* Sizes and addresses are counted in units of BLOCK_ALIGN (16 bytes),     *)
(* from the base of the heap.  free[a] is the size of the list's node at   *)
(* a, 0 where there is none: the code inserts by address, so the order of  *)
(* the list is that of the addresses.  live[a] is the size that the layout *)
(* of the block handed out at a asks for, which is all that anybody keeps  *)
(* of it.  Every operation runs with IRQs masked and is one step.          *)
(***************************************************************************)
EXTENDS Integers, FiniteSets

CONSTANTS
  HeapSize,           \* HEAP_SIZE
  MinBlock,           \* MIN_BLOCK
  Layouts             \* the sizes that callers ask for

ASSUME HeapAssumption ==
  /\ MinBlock \in Nat \ {0}
  /\ HeapSize \in Nat /\ HeapSize >= MinBlock
  /\ Layouts \subseteq Nat \ {0}

VARIABLES free, live, used

vars == <<free, live, used>>

Units == 0 .. HeapSize - 1
Null == HeapSize                    \* beyond every address

Init ==
  /\ free = [a \in Units |-> IF a = 0 THEN HeapSize ELSE 0]
  /\ live = [a \in Units |-> 0]
  /\ used = 0

(* align_up(layout.size().max(MIN_BLOCK), BLOCK_ALIGN).                    *)
Rounded(n) == IF n < MinBlock THEN MinBlock ELSE n

-----------------------------------------------------------------------------
FirstFit(a, n) ==
  /\ free[a] >= n
  /\ \A b \in Units : free[b] >= n => a <= b

(* The list after n units are taken from the front of the block at a: the  *)
(* rest stays in it if it is large enough for a node.                      *)
Cut(a, n) ==
  [b \in Units |-> IF b = a THEN 0
                   ELSE IF b = a + n /\ free[a] - n >= MinBlock THEN free[a] - n
                   ELSE free[b]]

(* Mutant: the counter goes up by what was asked for.                      *)
Alloc_CountsAsked(n) ==
  \E a \in Units :
    /\ FirstFit(a, Rounded(n))
    /\ free' = Cut(a, Rounded(n))
    /\ live' = [live EXCEPT ![a] = n]
    /\ used' = used + n

Alloc(n) ==
  \E a \in Units :
    /\ FirstFit(a, Rounded(n))
    /\ free' = Cut(a, Rounded(n))
    /\ live' = [live EXCEPT ![a] = n]
    /\ used' = used + Rounded(n)

(* alloc returns null.                                                     *)
AllocFails(n) ==
  /\ \A a \in Units : free[a] < Rounded(n)
  /\ UNCHANGED vars

-----------------------------------------------------------------------------
(* Where the walk along the list stops for a block that comes back at a:   *)
(* the last node before a and the first one from it on.                    *)
PrevNode(a, p) ==
  \/ /\ p \in Units /\ p < a /\ free[p] > 0
     /\ \A b \in p + 1 .. a - 1 : free[b] = 0
  \/ /\ p = Null
     /\ \A b \in 0 .. a - 1 : free[b] = 0

NextNode(a, c) ==
  \/ /\ c \in Units /\ c >= a /\ free[c] > 0
     /\ \A b \in a .. c - 1 : free[b] = 0
  \/ /\ c = Null
     /\ \A b \in a .. HeapSize - 1 : free[b] = 0

(* Mutant: the block before is not looked at.                              *)
MergesPrev_Never(a, p) == FALSE

MergesNext(a, n, c) == c # Null /\ a + n = c
MergesPrev(a, p) == p # Null /\ p + free[p] = a

(* The list with the n units at a put between p and c, merged with each    *)
(* of them that it touches.                                                *)
Inserted(a, n, p, c) ==
  LET size == IF MergesNext(a, n, c) THEN n + free[c] ELSE n IN
  [b \in Units |->
     IF b = p /\ MergesPrev(a, p) THEN free[p] + size
     ELSE IF b = a THEN IF MergesPrev(a, p) THEN 0 ELSE size
     ELSE IF b = c /\ MergesNext(a, n, c) THEN 0
     ELSE free[b]]

(* The size is computed from the layout again; the node does not know it.  *)
Returned(a) == Rounded(live[a])

Dealloc(a) ==
  /\ live[a] > 0
  /\ \E p, c \in Units \cup {Null} :
       /\ PrevNode(a, p)
       /\ NextNode(a, c)
       /\ free' = Inserted(a, Returned(a), p, c)
  /\ live' = [live EXCEPT ![a] = 0]
  /\ used' = IF used >= Returned(a) THEN used - Returned(a) ELSE 0

Next ==
  \/ \E n \in Layouts : Alloc(n)
  \/ \E n \in Layouts : AllocFails(n)
  \/ \E a \in Units : Dealloc(a)

Spec == Init /\ [][Next]_vars

-----------------------------------------------------------------------------
Node(a) == free[a] > 0
Held(a) == live[a] > 0

TypeOK ==
  /\ free \in [Units -> 0 .. HeapSize]
  /\ live \in [Units -> Nat]
  /\ used \in Nat

BlocksInside ==
  \A a \in Units :
    /\ a + free[a] <= HeapSize
    /\ Held(a) => a + Rounded(live[a]) <= HeapSize

(* A node is written into the block it describes.                          *)
NodesFit == \A a \in Units : Node(a) => free[a] >= MinBlock

(* heap.rs:8 "adjacent blocks are merged": the blocks of the list neither  *)
(* overlap nor touch.                                                      *)
NodesMerged ==
  \A a, b \in Units : Node(a) /\ Node(b) /\ a < b => a + free[a] < b

HeldApart ==
  \A a, b \in Units :
    Held(a) /\ Held(b) /\ a < b => a + Rounded(live[a]) <= b

NodesOutsideHeld ==
  \A a, b \in Units :
    Node(a) /\ Held(b) => \/ a + free[a] <= b
                          \/ b + Rounded(live[b]) <= a

(* After any mix of allocations and frees of any sizes in any order, no    *)
(* two callers have the same memory, none has memory that the list's nodes *)
(* are written to or that will be handed out again, and the list is as     *)
(* short as it can be.                                                     *)
HeapSound ==
  BlocksInside /\ NodesFit /\ NodesMerged /\ HeldApart /\ NodesOutsideHeld

(* heap.rs:86 "How many bytes are currently allocated": the counter is the *)
(* size of the blocks that are held, so the saturating subtraction never   *)
(* saturates.                                                              *)
HeldUnits ==
  {u \in Units : \E a \in Units : Held(a) /\ a <= u /\ u < a + Rounded(live[a])}

UsedIsHeld == used = Cardinality(HeldUnits)
=============================================================================
