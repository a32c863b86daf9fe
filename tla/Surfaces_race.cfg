SPECIFICATION Spec
CONSTANTS
  Width = 2
  Height = 2
  Drawn <- MCDrawn
  MaxMarks = 3
INVARIANTS ChangedPixelsShown
