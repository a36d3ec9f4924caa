SPECIFICATION Spec
CONSTANTS
    Workers = {w1, w2}
    Root = NoThread
    NoThread = NoThread
    AnyThread = AnyThread
    Fibers = {f1}
    NoFiber = NoFiber
    MaxTasks = 1
    MaxYields = 2
    MaxWaits = 2
    FiberThrows = FALSE
    CbThrows = FALSE
    PinnedSpawn = FALSE
    Resubmit = FALSE
SYMMETRY Symmetry
INVARIANT AssertSwapIn
