SPECIFICATION FairSpec
CONSTANTS
    Workers = {w1}
    Root = r
    NoThread = NoThread
    AnyThread = AnyThread
    Fibers = {f1, f2}
    NoFiber = NoFiber
    MaxTasks = 2
    MaxYields = 1
    MaxWaits = 2
    FiberThrows = TRUE
    CbThrows = TRUE
    PinnedSpawn = TRUE
    Resubmit = TRUE
INVARIANTS ActiveExact OneOwner FiberAsserts WorkDoneAtStop
PROPERTY StopReturns
