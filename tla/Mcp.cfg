SPECIFICATION McpSpec
CONSTANTS
  Bytes = {"ping", "tasks", "other", "notification", "junk", "space", "return", "newline"}
  MAX_LINE = 2
  RxFifo = 2
  TxFifo = 1
  MAX_TASKS = 1
  MaxGeneration = 2
INVARIANT RowsOfTasks
PROPERTIES AnswersInOrder LinesGetAnswers
