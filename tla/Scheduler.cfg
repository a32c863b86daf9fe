\* The whole scheduler, spawns and exits included, on five slots, with a
\* timer that keeps ticking.
CONSTANT MaxTasks = 5
SPECIFICATION FairSpec
INVARIANTS TypeOK OneRunning HandOffPair WaitsAreBlocked
PROPERTIES LiveFramesOnly UnchainedFairness TimedRecvReturns
