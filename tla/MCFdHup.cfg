SPECIFICATION Spec
CONSTANTS
    Threads = {t1}
    Fds = {4}
    Watched <- Reader
    Waiters = {p, q}
    Nobody = Nobody
    Hups = {4}
    InitSize = 8
    MaxGen = 0
SYMMETRY Symmetry
INVARIANT AssertTrigger
