SPECIFICATION Spec
CONSTANTS
  NFrames = 12
  GroupSize = 4
  BootFrames = 1
  SpaceSizes = {1, 2}
  StackPages = 2
  BufferPages = 1
  MaxTasks = 4
INVARIANTS TypeOK OneOwner Accounting NoStaleTranslation CpuOnLiveMemory
PROPERTIES HandlersKeepTheirStack
