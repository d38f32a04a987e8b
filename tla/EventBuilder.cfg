CONSTANTS
    NumNodes = 2
    Credits = 1
    MaxCycles = 3
    Header <- HeadersWhole
SPECIFICATION FairSpec
INVARIANTS
    TypeOK
    CreditsKept
    NoFailure
    FragmentsAligned
    NoReuseInFlight
    ReceiveBuffersKept
PROPERTIES
    ImplementsStore
    ImplementsEventBuilding
    EveryEventBuilt
