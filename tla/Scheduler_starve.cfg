CONSTANT MaxTasks = 5
SPECIFICATION FairSpec
PROPERTIES TickFairness
