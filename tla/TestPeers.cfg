CONSTANT
    Credits = 2
SPECIFICATION FairSpec
INVARIANTS
    ChunksConserved
    ThrowsOnlyAlone
PROPERTIES
    NeitherStarves
    SendsCompleteOrEnds
CHECK_DEADLOCK FALSE
