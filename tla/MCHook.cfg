SPECIFICATION FairSpec
CONSTANTS
    Kind <- IoThenConnectThenIo
    MayFail = TRUE
    EarlyExpiry = TRUE
    MaxCalls = 3
    MaxTimers = 2
INVARIANTS NoStrayWake OwnTimeout ConnectSound
PROPERTY WaitEnds
