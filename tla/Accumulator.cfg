CONSTANTS
    BulkedEvents = 2
    Credits = 2
    MetaOffset <- MCMetaOffset
    MetaLength <- MCMetaLength
    DataSize <- MCDataSize
SPECIFICATION FairSpec
INVARIANTS
    TypeOK
    NoAssertFails
    EventsAccountedFor
    LentMemoryDisjoint
PROPERTIES
    ImplementsStore
    EverySlotReused
