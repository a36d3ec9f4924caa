SPECIFICATION Spec
CONSTANTS
    Timers = {a, b}
    Threads = {t1, t2}
    Periods = {1, 2}
    Hour = 2
    MaxTimeout = 2
    IntMod = 16
    MaxTime = 3
    MaxJumps = 0
    MaxCallers = 1
SYMMETRY Symmetry
INVARIANTS TypeOK ActiveIffQueued OneShotOnce FrontWatched
PROPERTY NeverEarly
