CONSTANTS
    NumNodes = 3
    Credits = 1
    MaxCycles = 1
    Header <- HeadersWhole
SPECIFICATION FairSpec
PROPERTIES
    EveryNodeBuilds
