CONSTANTS
    NumNodes = 3
    Credits = 1
    MaxCycles = 2
    Header <- HeadersWhole
SPECIFICATION Spec
INVARIANTS
    CapacityWall
