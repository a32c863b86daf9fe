SPECIFICATION Spec
CONSTANTS
  Cols = 4
  Rows = 2
  MaxCommand = 5
  Letters = {"a"}
  Answers = {1}
  ScreenW = 4
  ScreenH = 5
  MenuH = 1
  TaskbarH = 1
  TitleH = 1
  Border = 0
  GapAbove = 0
  GapBelow = 0
  ShiftX = 1
  ShiftY = 1
  StatsX = 3
  StatsY = 1
  StatsW = 1
  StatsH = 1
  BarsBelow = 1
INVARIANTS ScreenIsCurrent LineIsCommand
