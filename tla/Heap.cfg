\* A heap of twelve units, in which six blocks of the least size fit, and
\* layouts below, at and above the least block.
SPECIFICATION Spec
CONSTANTS
  HeapSize = 12
  MinBlock = 2
  Layouts = {1, 2, 3, 5}
INVARIANTS HeapSound UsedIsHeld
