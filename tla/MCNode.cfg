SPECIFICATION Spec
CONSTANTS
    MaxFd = 3
    Addrs <- TwoAddrs
    MaxClients = 2
    MaxRounds = 2
    MaxStops = 1
    MaxCrashes = 1
    MaxRivals = 1
INVARIANTS FdExact ServeExact
PROPERTY Progress
CHECK_DEADLOCK FALSE
