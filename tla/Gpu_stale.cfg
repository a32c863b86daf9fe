SPECIFICATION Spec
CONSTANTS
  Width = 2
  Height = 2
  QueueSize = 2
  IndexSize = 4
INVARIANT AnswersAreFresh
