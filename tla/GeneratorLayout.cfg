CONSTANTS
    MaxFragmentSize = 24
    BulkedEvents = 4
    Credits = 1
    Mean = 20
    StdDev = 4
SPECIFICATION Spec
INVARIANTS
    TypeOK
    NoAssertFails
    EventsFollow
    HeadersFit
CHECK_DEADLOCK FALSE
