SPECIFICATION FairSpec
CONSTANTS
    Threads = {t1, t2}
    Fds = {4, 6}
    Watched <- ReadersAndWriter
    Waiters = {p, q}
    Nobody = Nobody
    Hups = {}
    InitSize = 4
    MaxGen = 1
INVARIANTS PendingExact WaiterOnce Reachable
PROPERTY EventDelivered
