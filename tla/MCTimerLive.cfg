SPECIFICATION FairSpec
CONSTANTS
    Timers = {a}
    Threads = {t1}
    Periods = {1, 3}
    Hour = 2
    MaxTimeout = 2
    IntMod = 16
    MaxTime = 4
    MaxJumps = 1
    MaxCallers = 1

PROPERTY TimerFires
