CONSTANTS
    NumNodes = 2
    MaxFaults = 1
SPECIFICATION Spec
INVARIANT
    NeverAlreadyPresent
CHECK_DEADLOCK FALSE
