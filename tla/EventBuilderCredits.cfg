CONSTANTS
    NumNodes = 2
    Credits = 2
    MaxCycles = 2
    Header <- HeadersBroken
SPECIFICATION Spec
INVARIANTS
    EndsOnlyByHeader
PROPERTIES
    CheckedBuilds
CHECK_DEADLOCK FALSE
