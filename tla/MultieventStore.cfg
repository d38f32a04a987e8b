CONSTANTS
    Capacity = 6
SPECIFICATION Spec
INVARIANTS
    TypeOK
    HeldInRingOrder
