----------------------------- MODULE HeapProofs -----------------------------
(***************************************************************************)
(* HeapSound and UsedIsHeld of module Heap, for a heap of any size, any    *)
(* least block and any layouts.                                            *)
(***************************************************************************)
EXTENDS Heap, FiniteSetTheorems, TLAPS

USE DEF Units, Null

(* The inductive invariant.                                                *)
IInv == TypeOK /\ HeapSound

(* block_layout rounds a request up to a whole number of units, and to a   *)
(* node at least.                                                          *)
LEMMA RoundedUp ==
  ASSUME NEW n \in Nat
  PROVE  Rounded(n) \in Nat /\ Rounded(n) >= MinBlock /\ Rounded(n) > 0
  BY HeapAssumption DEF Rounded

(* init: one free block of the whole heap.                                 *)
THEOREM InitInv == Init => IInv
  BY HeapAssumption
  DEF Init, IInv, TypeOK, HeapSound, BlocksInside, NodesFit, NodesMerged,
      HeldApart, NodesOutsideHeld, Node, Held

-----------------------------------------------------------------------------
(* What alloc does to the list: the node at a is gone, and what is left of *)
(* it, if it is a node, ends where the old one did.                        *)
LEMMA CutFacts ==
  ASSUME TypeOK, HeapSound, NEW a \in Units, NEW n \in Nat, n >= MinBlock,
         free[a] >= n, free' = Cut(a, n)
  PROVE  /\ free' \in [Units -> 0 .. HeapSize]
         /\ Node(a) /\ a + free[a] <= HeapSize
         /\ \A b \in Units : Node(b)' =>
              \/ b # a /\ Node(b) /\ free'[b] = free[b]
              \/ b = a + n /\ b + free'[b] = a + free[a] /\ free'[b] >= MinBlock
<1>1. free[a] \in 0 .. HeapSize /\ Node(a) /\ a + free[a] <= HeapSize
  BY HeapAssumption DEF TypeOK, HeapSound, BlocksInside, Node
<1>2. ASSUME NEW b \in Units
      PROVE  free'[b] = IF b = a THEN 0
                        ELSE IF b = a + n /\ free[a] - n >= MinBlock THEN free[a] - n
                        ELSE free[b]
  BY DEF Cut
<1>3. free' \in [Units -> 0 .. HeapSize]
  <2>1. ASSUME NEW b \in Units PROVE free'[b] \in 0 .. HeapSize
    <3>1. free[b] \in 0 .. HeapSize
      BY DEF TypeOK
    <3>2. free[a] - n \in 0 .. HeapSize
      BY <1>1, HeapAssumption
    <3>3. 0 \in 0 .. HeapSize
      BY HeapAssumption
    <3>4. QED
      BY <1>2, <3>1, <3>2, <3>3
  <2>2. free' = [b \in Units |-> free'[b]]
    BY DEF Cut
  <2>3. QED
    BY <2>1, <2>2
<1>4. ASSUME NEW b \in Units, Node(b)'
      PROVE  \/ b # a /\ Node(b) /\ free'[b] = free[b]
             \/ b = a + n /\ b + free'[b] = a + free[a] /\ free'[b] >= MinBlock
  <2>1. b # a
    BY <1>2, <1>4 DEF Node
  <2>2. CASE b = a + n /\ free[a] - n >= MinBlock
    BY <1>1, <1>2, <2>1, <2>2, HeapAssumption
  <2>3. CASE ~(b = a + n /\ free[a] - n >= MinBlock)
    <3>1. free'[b] = free[b]
      BY <1>2, <2>1, <2>3
    <3>2. QED
      BY <1>4, <2>1, <3>1 DEF Node
  <2>4. QED
    BY <2>2, <2>3
<1>5. QED
  BY <1>1, <1>3, <1>4

(* alloc cuts the block it gives out of a free one, or takes it whole.     *)
LEMMA AllocSound ==
  ASSUME IInv, NEW n \in Layouts, Alloc(n)
  PROVE  IInv'
<1> DEFINE size == Rounded(n)
<1>1. n \in Nat /\ n > 0 /\ size \in Nat /\ size >= MinBlock /\ size > 0
  BY HeapAssumption, RoundedUp
<1>2. PICK a \in Units : /\ FirstFit(a, size)
                         /\ free' = Cut(a, size)
                         /\ live' = [live EXCEPT ![a] = n]
                         /\ used' = used + size
  BY DEF Alloc
<1> HIDE DEF size
<1>3. /\ TypeOK /\ HeapSound
      /\ BlocksInside /\ NodesFit /\ NodesMerged /\ HeldApart /\ NodesOutsideHeld
  BY DEF IInv, HeapSound
<1>4. /\ free' \in [Units -> 0 .. HeapSize]
      /\ Node(a) /\ a + free[a] <= HeapSize
      /\ \A b \in Units : Node(b)' =>
           \/ b # a /\ Node(b) /\ free'[b] = free[b]
           \/ b = a + size /\ b + free'[b] = a + free[a] /\ free'[b] >= MinBlock
  BY <1>1, <1>2, <1>3, CutFacts DEF FirstFit
<1>5. TypeOK'
  BY <1>1, <1>2, <1>3, <1>4 DEF TypeOK
<1>6. \A b \in Units : free[b] \in Nat /\ free'[b] \in Nat /\ live[b] \in Nat
                       /\ Rounded(live[b]) \in Nat
  <2>1. 0 .. HeapSize \subseteq Nat
    BY HeapAssumption
  <2>2. QED
    BY <1>3, <1>5, <2>1, RoundedUp DEF TypeOK
<1>7. ASSUME NEW b \in Units, Held(b)'
      PROVE  \/ b = a /\ Rounded(live'[b]) = size
             \/ b # a /\ Held(b) /\ live'[b] = live[b]
  BY <1>2, <1>3, <1>7 DEF size, Held, TypeOK
<1>8. free[a] >= size
  BY <1>2 DEF FirstFit
<1>9. BlocksInside'
  <2> SUFFICES ASSUME NEW b \in Units
               PROVE  /\ b + free'[b] <= HeapSize
                      /\ Held(b)' => b + Rounded(live'[b]) <= HeapSize
    BY DEF BlocksInside
  <2>1. b + free'[b] <= HeapSize
    <3>1. CASE Node(b)'
      <4>1. b + free[b] <= HeapSize
        BY <1>3 DEF BlocksInside
      <4>2. QED
        BY <1>4, <1>6, <3>1, <4>1
    <3>2. CASE ~Node(b)'
      <4>1. free'[b] = 0
        BY <1>6, <3>2 DEF Node
      <4>2. QED
        BY <4>1, HeapAssumption
    <3>3. QED
      BY <3>1, <3>2
  <2>2. ASSUME Held(b)' PROVE b + Rounded(live'[b]) <= HeapSize
    <3>1. CASE b = a /\ Rounded(live'[b]) = size
      BY <1>1, <1>4, <1>6, <1>8, <3>1, HeapAssumption
    <3>2. CASE b # a /\ Held(b) /\ live'[b] = live[b]
      BY <1>3, <3>2 DEF BlocksInside
    <3>3. QED
      BY <1>7, <2>2, <3>1, <3>2
  <2>3. QED
    BY <2>1, <2>2
<1>10. NodesFit'
  BY <1>3, <1>4 DEF NodesFit
<1>11. NodesMerged'
  <2> SUFFICES ASSUME NEW b \in Units, NEW c \in Units, Node(b)', Node(c)', b < c
               PROVE  b + free'[b] < c
    BY DEF NodesMerged
  <2>1. /\ b # a /\ Node(b) => (b < a /\ b + free[b] < a) \/ a + free[a] < b
        /\ c # a /\ Node(c) => c < a \/ a + free[a] < c
    BY <1>3, <1>4, <1>6, HeapAssumption DEF NodesMerged
  <2>2. Node(b) /\ Node(c) => b + free[b] < c
    BY <1>3 DEF NodesMerged
  <2>3. \/ b # a /\ Node(b) /\ free'[b] = free[b]
        \/ b = a + size /\ b + free'[b] = a + free[a]
    BY <1>4
  <2>4. \/ c # a /\ Node(c) /\ free'[c] = free[c]
        \/ c = a + size /\ c + free'[c] = a + free[a]
    BY <1>4
  <2>5. /\ a \in Nat /\ b \in Nat /\ c \in Nat /\ size \in Nat /\ size > 0
        /\ free[a] \in Nat /\ free[b] \in Nat /\ free'[b] \in Nat /\ free[c] \in Nat
        /\ free[a] >= size /\ b < c
    BY <1>1, <1>6, <1>8, HeapAssumption
  <2>6. CASE b # a /\ Node(b) /\ free'[b] = free[b]
    BY <2>1, <2>2, <2>4, <2>5, <2>6
  <2>7. CASE b = a + size /\ b + free'[b] = a + free[a]
    BY <2>1, <2>4, <2>5, <2>7
  <2>8. QED
    BY <2>3, <2>6, <2>7
<1>12. HeldApart'
  <2> SUFFICES ASSUME NEW b \in Units, NEW c \in Units, Held(b)', Held(c)', b < c
               PROVE  b + Rounded(live'[b]) <= c
    BY DEF HeldApart
  <2>1. CASE b # a /\ c # a
    BY <1>3, <1>7, <2>1 DEF HeldApart
  <2>2. CASE b = a
    <3>1. a + free[a] <= c \/ c + Rounded(live[c]) <= a
      BY <1>3, <1>4, <1>7, <2>2 DEF NodesOutsideHeld
    <3>2. QED
      BY <1>1, <1>6, <1>7, <1>8, <2>2, <3>1, HeapAssumption
  <2>3. CASE c = a
    <3>1. a + free[a] <= b \/ b + Rounded(live[b]) <= a
      BY <1>3, <1>4, <1>7, <2>3 DEF NodesOutsideHeld
    <3>2. QED
      BY <1>1, <1>4, <1>6, <1>7, <1>8, <2>3, <3>1, HeapAssumption
  <2>4. QED
    BY <2>1, <2>2, <2>3
<1>13. NodesOutsideHeld'
  <2> SUFFICES ASSUME NEW b \in Units, NEW c \in Units, Node(b)', Held(c)'
               PROVE  b + free'[b] <= c \/ c + Rounded(live'[c]) <= b
    BY DEF NodesOutsideHeld
  <2>1. Node(b) /\ Held(c) => b + free[b] <= c \/ c + Rounded(live[c]) <= b
    BY <1>3 DEF NodesOutsideHeld
  <2>2. Held(c) => a + free[a] <= c \/ c + Rounded(live[c]) <= a
    BY <1>3, <1>4 DEF NodesOutsideHeld
  <2>3. b # a /\ Node(b) => b + free[b] < a \/ a + free[a] < b
    BY <1>3, <1>4, HeapAssumption DEF NodesMerged
  <2>4. \/ b # a /\ Node(b) /\ free'[b] = free[b]
        \/ b = a + size /\ b + free'[b] = a + free[a]
    BY <1>4
  <2>5. \/ c = a /\ Rounded(live'[c]) = size
        \/ c # a /\ Held(c) /\ live'[c] = live[c]
    BY <1>7
  <2>6. /\ a \in Nat /\ b \in Nat /\ c \in Nat /\ size \in Nat /\ size > 0
        /\ free[a] \in Nat /\ free[b] \in Nat /\ free'[b] \in Nat
        /\ Rounded(live[c]) \in Nat /\ free[a] >= size
    BY <1>1, <1>6, <1>8, HeapAssumption
  <2>7. CASE c = a /\ Rounded(live'[c]) = size
    BY <2>3, <2>4, <2>6, <2>7
  <2>8. CASE c # a /\ Held(c) /\ live'[c] = live[c]
    BY <2>1, <2>2, <2>4, <2>6, <2>8
  <2>9. QED
    BY <2>5, <2>7, <2>8
<1>14. QED
  BY <1>5, <1>9, <1>10, <1>11, <1>12, <1>13 DEF IInv, HeapSound

-----------------------------------------------------------------------------
(* What dealloc does to the list: there is one block from start to end,    *)
(* the returned one and the neighbours it touched, and the nodes that stay *)
(* end before it or begin behind it.                                       *)
LEMMA InsertedFacts ==
  ASSUME TypeOK, HeapSound, NEW a \in Units, Held(a),
         NEW p \in Units \cup {Null}, NEW c \in Units \cup {Null},
         PrevNode(a, p), NextNode(a, c), free' = Inserted(a, Returned(a), p, c)
  PROVE  /\ free' \in [Units -> 0 .. HeapSize]
         /\ \E start \in Units, end \in 0 .. HeapSize :
              /\ end >= start + MinBlock
              /\ \A b \in Units : Held(b) /\ b # a =>
                   end <= b \/ b + Rounded(live[b]) <= start
              /\ \A b \in Units : Node(b)' =>
                   \/ b = start /\ free'[b] = end - start
                   \/ /\ Node(b) /\ free'[b] = free[b]
                      /\ b + free[b] < start \/ end < b
<1> DEFINE n     == Returned(a)
           start == IF MergesPrev(a, p) THEN p ELSE a
           end   == IF MergesNext(a, n, c) THEN a + n + free[c] ELSE a + n
<1>1. /\ HeapSize \in Nat /\ MinBlock \in Nat /\ MinBlock > 0 /\ a \in Nat
      /\ 0 .. HeapSize \subseteq Nat
      /\ \A b \in Units : /\ b \in Nat /\ b < HeapSize
                          /\ free[b] \in Nat /\ live[b] \in Nat
                          /\ Rounded(live[b]) \in Nat
                          /\ Rounded(live[b]) >= MinBlock
  <2>1. /\ HeapSize \in Nat /\ MinBlock \in Nat /\ MinBlock > 0 /\ a \in Nat
        /\ 0 .. HeapSize \subseteq Nat
    BY HeapAssumption
  <2>2. \A b \in Units : b \in Nat /\ b < HeapSize
    BY <2>1
  <2>3. \A b \in Units : free[b] \in Nat /\ live[b] \in Nat
    BY <2>1 DEF TypeOK
  <2>4. QED
    BY <2>1, <2>2, <2>3, RoundedUp
<1>2. n \in Nat /\ n >= MinBlock /\ n > 0 /\ a + n <= HeapSize
  BY <1>1 DEF Returned, HeapSound, BlocksInside
<1>3. \A b \in Units : Node(b) => b + free[b] <= a \/ a + n <= b
  BY DEF Returned, HeapSound, NodesOutsideHeld
<1>4. \A b \in Units : Held(b) /\ b # a =>
        a + n <= b \/ b + Rounded(live[b]) <= a
  BY <1>1, <1>2 DEF Returned, HeapSound, HeldApart
<1>5. \A b, d \in Units : Node(b) /\ Node(d) /\ b < d => b + free[b] < d
  BY DEF HeapSound, NodesMerged
<1>6. ~Node(a)
  BY <1>1, <1>2, <1>3 DEF Node
<1>7. p # Null => /\ p \in Units /\ p \in Nat /\ p < a /\ Node(p)
                  /\ free[p] \in Nat /\ p + free[p] <= a
  BY <1>1, <1>2, <1>3 DEF PrevNode, Node
<1>8. c # Null => /\ c \in Units /\ c \in Nat /\ c > a /\ Node(c) /\ free[c] \in Nat
                  /\ a + n <= c /\ c + free[c] <= HeapSize
  BY <1>1, <1>2, <1>3, <1>6 DEF NextNode, Node, HeapSound, BlocksInside
<1>9. \A b \in Units : Node(b) /\ b < a => p # Null /\ b <= p
  BY <1>1, <1>7 DEF PrevNode, Node
<1>10. \A b \in Units : Node(b) /\ b > a => c # Null /\ c <= b
  BY <1>1, <1>8 DEF NextNode, Node
<1>11. /\ start \in Units /\ start \in Nat /\ start <= a
       /\ end \in 0 .. HeapSize /\ end \in Nat /\ end >= a + n
  BY <1>1, <1>2, <1>7, <1>8 DEF MergesPrev, MergesNext
<1>12. ASSUME NEW b \in Units
       PROVE  free'[b] =
                IF b = p /\ MergesPrev(a, p)
                THEN free[p] + (IF MergesNext(a, n, c) THEN n + free[c] ELSE n)
                ELSE IF b = a
                THEN IF MergesPrev(a, p) THEN 0
                     ELSE IF MergesNext(a, n, c) THEN n + free[c] ELSE n
                ELSE IF b = c /\ MergesNext(a, n, c) THEN 0
                ELSE free[b]
  BY DEF Inserted
<1>13. free'[start] = end - start
  <2>1. CASE MergesPrev(a, p)
    BY <1>1, <1>2, <1>7, <1>8, <1>12, <2>1 DEF MergesPrev, MergesNext
  <2>2. CASE ~MergesPrev(a, p)
    BY <1>1, <1>2, <1>8, <1>12, <2>2 DEF MergesNext
  <2>3. QED
    BY <2>1, <2>2
<1>14. ASSUME NEW b \in Units, b # start
       PROVE  \/ free'[b] = 0
              \/ /\ free'[b] = free[b] /\ b # a
                 /\ b # c \/ ~MergesNext(a, n, c)
  BY <1>12, <1>14
<1> HIDE DEF n
<1>15. ASSUME NEW b \in Units, b # start, Node(b)'
       PROVE  Node(b) /\ free'[b] = free[b] /\ (b + free[b] < start \/ end < b)
  <2>1. Node(b) /\ free'[b] = free[b] /\ b # a /\ (b # c \/ ~MergesNext(a, n, c))
    BY <1>14, <1>15 DEF Node
  <2>2. b \in Nat /\ free[b] \in Nat
    BY <1>1
  <2>3. CASE b < a
    <3>1. p # Null /\ b <= p
      BY <1>9, <2>1, <2>3
    <3>2. CASE b = p
      BY <1>7, <1>15, <2>1, <3>1, <3>2 DEF MergesPrev
    <3>3. CASE b < p
      BY <1>1, <1>5, <1>7, <2>1, <2>2, <3>1, <3>3
    <3>4. QED
      BY <1>7, <2>2, <3>1, <3>2, <3>3
  <2>4. CASE b > a
    <3>1. c # Null /\ c <= b
      BY <1>10, <2>1, <2>4
    <3>2. CASE MergesNext(a, n, c)
      <4>1. c < b
        BY <1>8, <2>1, <2>2, <3>1, <3>2
      <4>2. c + free[c] < b
        BY <1>5, <1>8, <2>1, <3>1, <4>1
      <4>3. QED
        BY <1>2, <1>8, <2>1, <2>2, <3>1, <3>2, <4>2 DEF MergesNext
    <3>3. CASE ~MergesNext(a, n, c)
      BY <1>1, <1>2, <1>8, <2>1, <2>2, <3>1, <3>3 DEF MergesNext
    <3>4. QED
      BY <3>2, <3>3
  <2>5. QED
    BY <1>1, <2>1, <2>2, <2>3, <2>4
<1>16. \A b \in Units : Held(b) /\ b # a => end <= b \/ b + Rounded(live[b]) <= start
  <2> SUFFICES ASSUME NEW b \in Units, Held(b), b # a
               PROVE  end <= b \/ b + Rounded(live[b]) <= start
    OBVIOUS
  <2>1. a + n <= b \/ b + Rounded(live[b]) <= a
    BY <1>4
  <2>2. p # Null => p + free[p] <= b \/ b + Rounded(live[b]) <= p
    BY <1>7 DEF HeapSound, NodesOutsideHeld
  <2>3. c # Null => c + free[c] <= b \/ b + Rounded(live[b]) <= c
    BY <1>8 DEF HeapSound, NodesOutsideHeld
  <2>4. /\ b \in Nat /\ Rounded(live[b]) \in Nat /\ Rounded(live[b]) > 0
    BY <1>1
  <2>5. CASE a + n <= b
    <3>1. CASE MergesNext(a, n, c)
      BY <1>2, <1>8, <2>3, <2>4, <2>5, <3>1 DEF MergesNext
    <3>2. CASE ~MergesNext(a, n, c)
      BY <2>5, <3>2
    <3>3. QED
      BY <3>1, <3>2
  <2>6. CASE b + Rounded(live[b]) <= a
    <3>1. CASE MergesPrev(a, p)
      BY <1>1, <1>7, <2>2, <2>4, <2>6, <3>1 DEF MergesPrev
    <3>2. CASE ~MergesPrev(a, p)
      BY <2>6, <3>2
    <3>3. QED
      BY <3>1, <3>2
  <2>7. QED
    BY <2>1, <2>5, <2>6
<1> HIDE DEF start, end
<1>17. free' \in [Units -> 0 .. HeapSize]
  <2>1. ASSUME NEW b \in Units PROVE free'[b] \in 0 .. HeapSize
    <3>1. CASE b = start
      <4>1. free'[b] = end - start
        BY <1>13, <3>1
      <4>2. /\ start \in Nat /\ end \in Nat /\ a \in Nat /\ n \in Nat
            /\ start <= a /\ end >= a + n /\ end <= HeapSize /\ HeapSize \in Nat
        BY <1>1, <1>2, <1>11
      <4>3. end - start \in 0 .. HeapSize
        BY <4>2
      <4>4. QED
        BY <4>1, <4>3
    <3>2. CASE b # start
      <4>1. free[b] \in 0 .. HeapSize
        BY DEF TypeOK
      <4>2. 0 \in 0 .. HeapSize
        BY <1>1
      <4>3. free'[b] = 0 \/ free'[b] = free[b]
        BY <1>14, <3>2
      <4>4. QED
        BY <4>1, <4>2, <4>3
    <3>3. QED
      BY <3>1, <3>2
  <2>2. free' = [b \in Units |-> free'[b]]
    BY DEF Inserted
  <2>3. QED
    BY <2>1, <2>2
<1>18. end >= start + MinBlock
  BY <1>1, <1>2, <1>11
<1>19. QED
  BY <1>11, <1>13, <1>15, <1>16, <1>17, <1>18

(* dealloc inserts the block where it belongs and merges it with its       *)
(* neighbours.                                                             *)
LEMMA DeallocSound ==
  ASSUME IInv, NEW a \in Units, Dealloc(a)
  PROVE  IInv'
<1>1. /\ TypeOK /\ HeapSound /\ Held(a)
      /\ BlocksInside /\ NodesFit /\ NodesMerged /\ HeldApart /\ NodesOutsideHeld
  BY DEF IInv, HeapSound, Dealloc, Held, TypeOK
<1>2. PICK p \in Units \cup {Null}, c \in Units \cup {Null} :
        PrevNode(a, p) /\ NextNode(a, c) /\ free' = Inserted(a, Returned(a), p, c)
  BY DEF Dealloc
<1>3. /\ free' \in [Units -> 0 .. HeapSize]
      /\ \E start \in Units, end \in 0 .. HeapSize :
           /\ end >= start + MinBlock
           /\ \A b \in Units : Held(b) /\ b # a =>
                end <= b \/ b + Rounded(live[b]) <= start
           /\ \A b \in Units : Node(b)' =>
                \/ b = start /\ free'[b] = end - start
                \/ /\ Node(b) /\ free'[b] = free[b]
                   /\ b + free[b] < start \/ end < b
  BY <1>1, <1>2, InsertedFacts
<1>4. PICK start \in Units, end \in 0 .. HeapSize :
           /\ end >= start + MinBlock
           /\ \A b \in Units : Held(b) /\ b # a =>
                end <= b \/ b + Rounded(live[b]) <= start
           /\ \A b \in Units : Node(b)' =>
                \/ b = start /\ free'[b] = end - start
                \/ /\ Node(b) /\ free'[b] = free[b]
                   /\ b + free[b] < start \/ end < b
  BY <1>3
<1>5. TypeOK'
  <2>1. live' \in [Units -> Nat] /\ Returned(a) \in Nat
    BY <1>1, RoundedUp DEF Dealloc, TypeOK, Returned
  <2>2. used' \in Nat
    BY <1>1, <2>1 DEF Dealloc, TypeOK
  <2>3. QED
    BY <1>3, <2>1, <2>2 DEF TypeOK
<1>6. /\ HeapSize \in Nat /\ MinBlock \in Nat /\ MinBlock > 0
      /\ start \in Nat /\ end \in Nat /\ end <= HeapSize
  BY <1>4, HeapAssumption
<1>7. \A b \in Units : b \in Nat /\ free[b] \in Nat /\ free'[b] \in Nat
  <2>1. 0 .. HeapSize \subseteq Nat
    BY HeapAssumption
  <2>2. QED
    BY <1>1, <1>5, <2>1, HeapAssumption DEF TypeOK
<1>8. \A b \in Units : Held(b)' => b # a /\ Held(b) /\ live'[b] = live[b]
  BY <1>1 DEF Dealloc, Held, TypeOK
<1>9. BlocksInside'
  <2> SUFFICES ASSUME NEW b \in Units
               PROVE  /\ b + free'[b] <= HeapSize
                      /\ Held(b)' => b + Rounded(live'[b]) <= HeapSize
    BY DEF BlocksInside
  <2>1. b + free[b] <= HeapSize
    BY <1>1 DEF BlocksInside
  <2>2. b \in Nat /\ free[b] \in Nat /\ free'[b] \in Nat
    BY <1>7
  <2>3. b + free'[b] <= HeapSize
    <3>1. CASE Node(b)'
      BY <1>4, <1>6, <2>1, <2>2, <3>1
    <3>2. CASE ~Node(b)'
      BY <1>6, <2>1, <2>2, <3>2 DEF Node
    <3>3. QED
      BY <3>1, <3>2
  <2>4. Held(b)' => b + Rounded(live'[b]) <= HeapSize
    BY <1>1, <1>8 DEF BlocksInside
  <2>5. QED
    BY <2>3, <2>4
<1>10. NodesFit'
  <2> SUFFICES ASSUME NEW b \in Units, Node(b)'
               PROVE  free'[b] >= MinBlock
    BY DEF NodesFit
  <2>1. Node(b) => free[b] >= MinBlock
    BY <1>1 DEF NodesFit
  <2>2. QED
    BY <1>4, <1>6, <2>1
<1>11. NodesMerged'
  <2> SUFFICES ASSUME NEW b \in Units, NEW d \in Units, Node(b)', Node(d)', b < d
               PROVE  b + free'[b] < d
    BY DEF NodesMerged
  <2>1. Node(b) /\ Node(d) => b + free[b] < d
    BY <1>1 DEF NodesMerged
  <2>2. \/ b = start /\ free'[b] = end - start
        \/ Node(b) /\ free'[b] = free[b] /\ (b + free[b] < start \/ end < b)
    BY <1>4
  <2>3. \/ d = start /\ free'[d] = end - start
        \/ Node(d) /\ free'[d] = free[d] /\ (d + free[d] < start \/ end < d)
    BY <1>4
  <2>4. end >= start + MinBlock /\ b \in Nat /\ d \in Nat /\ free[b] \in Nat /\ free[d] \in Nat
    BY <1>4, <1>7
  <2>5. QED
    BY <1>6, <2>1, <2>2, <2>3, <2>4
<1>12. HeldApart'
  BY <1>1, <1>8 DEF HeldApart
<1>13. NodesOutsideHeld'
  <2> SUFFICES ASSUME NEW b \in Units, NEW d \in Units, Node(b)', Held(d)'
               PROVE  b + free'[b] <= d \/ d + Rounded(live'[d]) <= b
    BY DEF NodesOutsideHeld
  <2>1. Held(d) /\ d # a /\ live'[d] = live[d]
    BY <1>8
  <2>2. Node(b) => b + free[b] <= d \/ d + Rounded(live[d]) <= b
    BY <1>1, <2>1 DEF NodesOutsideHeld
  <2>3. end <= d \/ d + Rounded(live[d]) <= start
    BY <1>4, <2>1
  <2>4. CASE b = start /\ free'[b] = end - start
    BY <1>6, <2>1, <2>3, <2>4
  <2>5. CASE Node(b) /\ free'[b] = free[b]
    BY <2>1, <2>2, <2>5
  <2>6. QED
    BY <1>4, <2>4, <2>5
<1>14. QED
  BY <1>5, <1>9, <1>10, <1>11, <1>12, <1>13 DEF IInv, HeapSound

-----------------------------------------------------------------------------
(* alloc and dealloc keep the invariant, and so does an alloc that fails.  *)
THEOREM Invariance == Spec => []IInv
<1>1. Init => IInv
  BY InitInv
<1>2. IInv /\ [Next]_vars => IInv'
  <2> SUFFICES ASSUME IInv, [Next]_vars
               PROVE  IInv'
    OBVIOUS
  <2>1. CASE \E n \in Layouts : Alloc(n)
    BY <2>1, AllocSound
  <2>2. CASE \E a \in Units : Dealloc(a)
    BY <2>2, DeallocSound
  <2>3. CASE UNCHANGED vars
    BY <2>3 DEF vars, IInv, TypeOK, HeapSound, BlocksInside, NodesFit,
                NodesMerged, HeldApart, NodesOutsideHeld, Node, Held
  <2>4. QED
    BY <2>1, <2>2, <2>3 DEF Next, AllocFails
<1>3. QED
  BY <1>1, <1>2, PTL DEF Spec

(* After any mix of allocations and frees, no two callers of the kernel    *)
(* heap have the same memory, none has memory that the list's nodes are    *)
(* written to or that will be handed out again, and the list's blocks lie  *)
(* in the heap, hold a node each and do not touch (heap.rs:94-196).        *)
THEOREM HeapIsSound == Spec => []HeapSound
<1>1. IInv => HeapSound
  BY DEF IInv
<1>2. QED
  BY <1>1, Invariance, PTL

-----------------------------------------------------------------------------
(* The units of a block of n units at a.                                   *)
Block(a, n) == a .. a + n - 1

(* A set of units of the heap has a number of members, and a block that    *)
(* none of them is in has n more.                                          *)
LEMMA BlockCounts ==
  ASSUME NEW S \in SUBSET Units, NEW a \in Nat, NEW n \in Nat, n > 0
  PROVE  /\ IsFiniteSet(S) /\ Cardinality(S) \in Nat
         /\ S \cap Block(a, n) = {} =>
              Cardinality(S \cup Block(a, n)) = Cardinality(S) + n
<1>1. IsFiniteSet(S) /\ Cardinality(S) \in Nat
  <2>1. IsFiniteSet(Units)
    BY HeapAssumption, FS_Interval
  <2>2. QED
    BY <2>1, FS_Subset, FS_CardinalityType
<1>2. IsFiniteSet(Block(a, n)) /\ Cardinality(Block(a, n)) = n
  <2>1. /\ IsFiniteSet(a .. a + n - 1)
        /\ Cardinality(a .. a + n - 1) =
             IF a > a + n - 1 THEN 0 ELSE a + n - 1 - a + 1
    BY FS_Interval
  <2>2. QED
    BY <2>1 DEF Block
<1>3. ASSUME S \cap Block(a, n) = {}
      PROVE  Cardinality(S \cup Block(a, n)) = Cardinality(S) + n
  <2>1. Cardinality(S \cup Block(a, n)) =
          Cardinality(S) + Cardinality(Block(a, n)) - Cardinality(S \cap Block(a, n))
    BY <1>1, <1>2, FS_Union
  <2>2. Cardinality(S \cap Block(a, n)) = 0
    BY <1>3, FS_EmptySet
  <2>3. QED
    BY <1>1, <1>2, <2>1, <2>2
<1>4. QED
  BY <1>1, <1>3

(* Addresses, layouts and the sizes they are rounded up to are numbers.    *)
LEMMA BlockSizes ==
  ASSUME TypeOK
  PROVE  \A b \in Units : b \in Nat /\ live[b] \in Nat
                         /\ Rounded(live[b]) \in Nat /\ Rounded(live[b]) > 0
<1>1. \A b \in Units : b \in Nat /\ live[b] \in Nat
  BY HeapAssumption DEF TypeOK
<1>2. QED
  BY <1>1, RoundedUp

(* The units of a block that is held are held, and those of no other.      *)
LEMMA HeldBlocks ==
  ASSUME IInv, NEW a \in Units, Held(a)
  PROVE  /\ live[a] \in Nat
         /\ Rounded(live[a]) \in Nat /\ Rounded(live[a]) > 0
         /\ Block(a, Rounded(live[a])) \subseteq HeldUnits
         /\ \A b \in Units : Held(b) /\ b # a =>
              Block(b, Rounded(live[b])) \cap Block(a, Rounded(live[a])) = {}
<1>1. \A b \in Units : b \in Nat /\ live[b] \in Nat /\ Rounded(live[b]) \in Nat
                       /\ Rounded(live[b]) > 0
  BY BlockSizes DEF IInv
<1>2. a + Rounded(live[a]) <= HeapSize
  BY DEF IInv, HeapSound, BlocksInside
<1>3. Block(a, Rounded(live[a])) \subseteq HeldUnits
  <2> SUFFICES ASSUME NEW u \in Block(a, Rounded(live[a]))
               PROVE  u \in HeldUnits
    OBVIOUS
  <2>1. u \in Int /\ a <= u /\ u < a + Rounded(live[a])
    BY <1>1 DEF Block
  <2>2. u \in Units
    BY <1>1, <1>2, <2>1, HeapAssumption
  <2>3. QED
    BY <2>1, <2>2 DEF HeldUnits
<1>4. ASSUME NEW b \in Units, Held(b), b # a
      PROVE  Block(b, Rounded(live[b])) \cap Block(a, Rounded(live[a])) = {}
  <2>1. b + Rounded(live[b]) <= a \/ a + Rounded(live[a]) <= b
    <3>1. CASE b < a
      BY <1>4, <3>1 DEF IInv, HeapSound, HeldApart
    <3>2. CASE a < b
      BY <1>4, <3>2 DEF IInv, HeapSound, HeldApart
    <3>3. QED
      BY <1>1, <1>4, <3>1, <3>2
  <2>2. QED
    BY <1>1, <2>1 DEF Block
<1>5. QED
  BY <1>1, <1>3, <1>4

(* alloc: the counter goes up by the units of the block it gives out,      *)
(* which nobody held.                                                      *)
LEMMA AllocCounts ==
  ASSUME IInv, UsedIsHeld, NEW n \in Layouts, Alloc(n)
  PROVE  UsedIsHeld'
<1>1. n \in Nat /\ n > 0 /\ Rounded(n) \in Nat /\ Rounded(n) > 0
      /\ Rounded(n) >= MinBlock
  BY HeapAssumption, RoundedUp
<1>2. PICK a \in Units : /\ FirstFit(a, Rounded(n))
                         /\ live' = [live EXCEPT ![a] = n]
                         /\ used' = used + Rounded(n)
  BY DEF Alloc
<1>3. /\ \A b \in Units : b \in Nat /\ live[b] \in Nat /\ free[b] \in Nat
      /\ a + free[a] <= HeapSize /\ free[a] >= Rounded(n) /\ Node(a)
  <2>1. 0 .. HeapSize \subseteq Nat
    BY HeapAssumption
  <2>2. \A b \in Units : b \in Nat /\ live[b] \in Nat /\ free[b] \in Nat
    BY <2>1, HeapAssumption DEF IInv, TypeOK
  <2>3. QED
    BY <1>1, <1>2, <2>2 DEF FirstFit, Node, IInv, HeapSound, BlocksInside
<1>4. \A b \in Units : Held(b) =>
        Rounded(live[b]) \in Nat /\ Rounded(live[b]) > 0
        /\ (a + free[a] <= b \/ b + Rounded(live[b]) <= a)
  BY <1>3, RoundedUp DEF IInv, HeapSound, NodesOutsideHeld
<1>5. ~Held(a)
  BY <1>1, <1>3, <1>4
<1>6. HeldUnits \cap Block(a, Rounded(n)) = {}
  <2> SUFFICES ASSUME NEW u \in HeldUnits, u \in Block(a, Rounded(n))
               PROVE  FALSE
    OBVIOUS
  <2>1. PICK b \in Units : Held(b) /\ b <= u /\ u < b + Rounded(live[b])
    BY DEF HeldUnits
  <2>2. u \in Int /\ a <= u /\ u < a + Rounded(n)
    BY <1>1, <1>3 DEF Block
  <2>3. QED
    BY <1>1, <1>3, <1>4, <2>1, <2>2
<1>7. \A b \in Units : /\ live'[b] = IF b = a THEN n ELSE live[b]
                       /\ Held(b)' <=> b = a \/ Held(b)
  BY <1>1, <1>2 DEF IInv, TypeOK, Held
<1>8. HeldUnits' = HeldUnits \cup Block(a, Rounded(n))
  <2>1. ASSUME NEW u \in HeldUnits'
        PROVE  u \in HeldUnits \cup Block(a, Rounded(n))
    <3>1. PICK b \in Units : Held(b)' /\ b <= u /\ u < b + Rounded(live'[b])
      BY DEF HeldUnits
    <3>2. u \in Units /\ u \in Int
      BY HeapAssumption DEF HeldUnits
    <3>3. CASE b = a
      BY <1>1, <1>3, <1>7, <3>1, <3>2, <3>3 DEF Block
    <3>4. CASE b # a
      BY <1>7, <3>1, <3>2, <3>4 DEF HeldUnits
    <3>5. QED
      BY <3>3, <3>4
  <2>2. ASSUME NEW u \in HeldUnits
        PROVE  u \in HeldUnits'
    <3>1. PICK b \in Units : Held(b) /\ b <= u /\ u < b + Rounded(live[b])
      BY DEF HeldUnits
    <3>2. u \in Units /\ Held(b)' /\ live'[b] = live[b]
      BY <1>5, <1>7, <3>1 DEF HeldUnits
    <3>3. QED
      BY <3>1, <3>2 DEF HeldUnits
  <2>3. ASSUME NEW u \in Block(a, Rounded(n))
        PROVE  u \in HeldUnits'
    <3>1. u \in Int /\ a <= u /\ u < a + Rounded(n)
      BY <1>1, <1>3 DEF Block
    <3>2. u \in Units
      BY <1>1, <1>3, <3>1, HeapAssumption
    <3>3. Held(a)' /\ live'[a] = n
      BY <1>7
    <3>4. QED
      BY <3>1, <3>2, <3>3 DEF HeldUnits
  <2>4. QED
    BY <2>1, <2>2, <2>3
<1>9. Cardinality(HeldUnits \cup Block(a, Rounded(n))) =
        Cardinality(HeldUnits) + Rounded(n)
  <2>1. HeldUnits \in SUBSET Units
    BY DEF HeldUnits
  <2>2. QED
    BY <1>1, <1>3, <1>6, <2>1, BlockCounts
<1>10. QED
  BY <1>2, <1>8, <1>9 DEF UsedIsHeld

(* dealloc: the counter goes down by the units that come back, and has at  *)
(* least as many.                                                          *)
LEMMA DeallocCounts ==
  ASSUME IInv, UsedIsHeld, NEW a \in Units, Dealloc(a)
  PROVE  UsedIsHeld'
<1> DEFINE n == Rounded(live[a])
           Rest == HeldUnits \ Block(a, n)
<1>1. /\ Held(a) /\ live' = [live EXCEPT ![a] = 0]
      /\ used' = IF used >= n THEN used - n ELSE 0
  BY DEF Dealloc, Held, Returned
<1>2. /\ live[a] \in Nat /\ n \in Nat /\ n > 0 /\ a \in Nat
      /\ Block(a, n) \subseteq HeldUnits
      /\ \A b \in Units : Held(b) /\ b # a =>
           Block(b, Rounded(live[b])) \cap Block(a, n) = {}
  BY <1>1, HeldBlocks, HeapAssumption
<1>3. \A b \in Units : /\ live'[b] = IF b = a THEN 0 ELSE live[b]
                       /\ Held(b)' <=> b # a /\ Held(b)
                       /\ b \in Nat /\ live[b] \in Nat /\ Rounded(live[b]) \in Nat
  <2>1. \A b \in Units : b \in Nat /\ live[b] \in Nat /\ Rounded(live[b]) \in Nat
    BY BlockSizes DEF IInv
  <2>2. QED
    BY <1>1, <2>1 DEF IInv, TypeOK, Held
<1> HIDE DEF n
<1>4. HeldUnits' = Rest
  <2>1. ASSUME NEW u \in HeldUnits'
        PROVE  u \in Rest
    <3>1. PICK b \in Units : Held(b)' /\ b <= u /\ u < b + Rounded(live'[b])
      BY DEF HeldUnits
    <3>2. b # a /\ Held(b) /\ live'[b] = live[b]
      BY <1>3, <3>1
    <3>3. u \in HeldUnits /\ u \in Int
      BY <3>1, <3>2, HeapAssumption DEF HeldUnits
    <3>4. u \in Block(b, Rounded(live[b]))
      BY <1>3, <3>1, <3>2, <3>3 DEF Block
    <3>5. QED
      BY <1>2, <3>2, <3>3, <3>4
  <2>2. ASSUME NEW u \in Rest
        PROVE  u \in HeldUnits'
    <3>1. PICK b \in Units : Held(b) /\ b <= u /\ u < b + Rounded(live[b])
      BY DEF HeldUnits
    <3>2. u \in Units /\ u \in Int
      BY HeapAssumption DEF HeldUnits
    <3>3. u \in Block(b, Rounded(live[b]))
      BY <1>3, <3>1, <3>2 DEF Block
    <3>4. b # a
      BY <3>3 DEF n
    <3>5. Held(b)' /\ live'[b] = live[b]
      BY <1>3, <3>1, <3>4
    <3>6. QED
      BY <3>1, <3>2, <3>5 DEF HeldUnits
  <2>3. QED
    BY <2>1, <2>2
<1>5. Rest \in SUBSET Units /\ Rest \cap Block(a, n) = {}
      /\ Rest \cup Block(a, n) = HeldUnits
  BY <1>2 DEF HeldUnits
<1>6. Cardinality(Rest) \in Nat /\ Cardinality(HeldUnits) = Cardinality(Rest) + n
  <2> HIDE DEF Rest
  <2>1. /\ Cardinality(Rest) \in Nat
        /\ Cardinality(Rest \cup Block(a, n)) = Cardinality(Rest) + n
    BY <1>2, <1>5, BlockCounts
  <2>2. QED
    BY <1>5, <2>1
<1>7. used = Cardinality(HeldUnits)
  BY DEF UsedIsHeld
<1>8. used' = Cardinality(Rest)
  BY <1>1, <1>2, <1>6, <1>7
<1>9. QED
  BY <1>4, <1>8 DEF UsedIsHeld

(* heap.rs:86 "How many bytes are currently allocated": the counter that   *)
(* alloc and dealloc keep is the size of the blocks that are held, after   *)
(* any mix of them, and dealloc's saturating subtraction never saturates.  *)
THEOREM UsedCountsHeld == Spec => []UsedIsHeld
<1>1. Init => UsedIsHeld
  <2> SUFFICES ASSUME Init
               PROVE  UsedIsHeld
    OBVIOUS
  <2>1. HeldUnits = {}
    BY HeapAssumption DEF Init, HeldUnits, Held
  <2>2. QED
    BY <2>1, FS_EmptySet DEF Init, UsedIsHeld
<1>2. IInv /\ UsedIsHeld /\ [Next]_vars => UsedIsHeld'
  <2> SUFFICES ASSUME IInv, UsedIsHeld, [Next]_vars
               PROVE  UsedIsHeld'
    OBVIOUS
  <2>1. CASE \E n \in Layouts : Alloc(n)
    BY <2>1, AllocCounts
  <2>2. CASE \E a \in Units : Dealloc(a)
    BY <2>2, DeallocCounts
  <2>3. CASE UNCHANGED vars
    BY <2>3 DEF vars, UsedIsHeld, HeldUnits, Held
  <2>4. QED
    BY <2>1, <2>2, <2>3 DEF Next, AllocFails
<1>3. Spec => []IInv
  BY Invariance
<1>4. QED
  BY <1>1, <1>2, <1>3, PTL DEF Spec
=============================================================================
