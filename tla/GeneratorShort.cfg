CONSTANTS
    MaxFragmentSize = 96
    BulkedEvents = 2
    Credits = 1
    Mean = 40
    StdDev = 10
SPECIFICATION Spec
INVARIANTS
    FragmentsBeginWithTheirId
CHECK_DEADLOCK FALSE
