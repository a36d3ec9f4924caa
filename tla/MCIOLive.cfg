SPECIFICATION FairSpec
CONSTANTS
    Threads = {t1, t2}
    MaxTasks = 2
    MaxTimers = 1
    MaxWaits = 1
    MaxYields = 1
INVARIANTS CountsExact DrainedAtStop
PROPERTIES WorkRuns StopReturns
