CONSTANTS
    NumNodes = 2
    MaxFaults = 2
SPECIFICATION FairSpec
INVARIANTS
    TypeOK
    EachNodeOnce
    EndsNeedFault
    RunningIsConnected
PROPERTIES
    AllRun
CHECK_DEADLOCK FALSE
