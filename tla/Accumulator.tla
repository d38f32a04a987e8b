---------------------------- MODULE Accumulator -----------------------------
(***************************************************************************)
(* ru/accumulator.cpp with everything it calls: the Controller             *)
(* (ru/controller.cpp), the Generator after its construction               *)
(* (generator/generator.cpp) and the metadata ring they share.             *)
(*                                                                         *)
(* Three cursors walk the ring of event metadata.  The Generator's Buffer  *)
(* has the write position (events produced) and the read position (events  *)
(* whose memory is free again), the Controller and the Accumulator keep    *)
(* their own.  The readout unit is the caller: it asks for multievents and *)
(* gives them back by address.  All of it runs in the readout unit's       *)
(* thread.                                                                 *)
(***************************************************************************)
EXTENDS StoreOps, RangeOps, CircularBuffer

CONSTANTS
    BulkedEvents,   \* GENERAL.BULKED_EVENTS, m_events_in_multievent
    Credits,        \* GENERAL.CREDITS
    MetaOffset,     \* EventMetaData::offset of each slot of the metadata ring
    MetaLength,     \* EventMetaData::length of each slot
    DataSize        \* bytes of the data buffer

\* main.cpp:183: room for 2 * credits + 1 multievents.
Multievents == 2 * Credits + 1
MetaSize == BulkedEvents * Multievents
MetaSlots == 0 .. MetaSize - 1

ASSUME SizesAssumption ==
    /\ BulkedEvents \in Nat \ {0}
    /\ Credits \in Nat \ {0}
    /\ DataSize \in Nat

\* The layout the constructor of the Generator leaves behind: the events
\* follow each other in the data buffer, and each one has its header.
ASSUME LayoutAssumption ==
    /\ MetaOffset \in [MetaSlots -> Nat]
    /\ MetaLength \in [MetaSlots -> Nat \ {0}]
    /\ \A a, b \in MetaSlots : a < b => MetaOffset[a] + MetaLength[a] <= MetaOffset[b]
    /\ \A a \in MetaSlots : MetaOffset[a] + MetaLength[a] <= DataSize

VARIABLES
    metadataBuffer,     \* Generator::m_metadata_buffer
    controllerCurrent,  \* Controller::m_current_metadata
    currentMetadata,    \* Accumulator::m_current_metadata
    generatedEvents,    \* Accumulator::m_generated_events
    iovMultievents,     \* Accumulator::m_iov_multievents; len is the iov_len
                        \* the readout unit was given along with the address
    releaseMetadata,    \* Accumulator::m_release_metadata
    aborted             \* an assert failed

vars == <<metadataBuffer, controllerCurrent, currentMetadata, generatedEvents,
          iovMultievents, releaseMetadata, aborted>>

Init ==
    /\ metadataBuffer = EmptyBuffer
    /\ controllerCurrent = 0
    /\ currentMetadata = 0
    /\ generatedEvents = 0
    /\ iovMultievents = <<>>
    /\ releaseMetadata = 0
    /\ aborted = FALSE
-----------------------------------------------------------------------------
\* Mutant: the ring may be filled completely.
EventsThatFitAll(n) ==
    LET room == available(metadataBuffer, MetaSize)
    IN  IF n <= room THEN n ELSE room

\* Generator::generateEvents: how many of the n events that are due fit.
EventsThatFit(n) ==
    LET room == available(metadataBuffer, MetaSize) - 1
    IN  IF n <= room THEN n ELSE room

\* Its two reservations, the second of one event, and their asserts.
Generated(g) ==
    IF g = 0
      THEN metadataBuffer
      ELSE reserve(reserve(metadataBuffer, g - 1, MetaSize), 1, MetaSize)
GenerateAsserts(g) ==
    g # 0 => /\ CanReserve(metadataBuffer, g - 1, MetaSize)
             /\ CanReserve(reserve(metadataBuffer, g - 1, MetaSize), 1, MetaSize)

\* Controller::read when n events are due by the clock: called only if the
\* events at hand do not make a multievent.
Read(n) ==
    LET g    == IF generatedEvents < BulkedEvents THEN EventsThatFit(n) ELSE 0
        meta == [begin |-> controllerCurrent,
                 end   |-> advance_in_range(controllerCurrent, g, MetaSize)]
    IN  [buffer  |-> Generated(g),
         current |-> meta.end,
         events  |-> generatedEvents + distance_in_range(meta, MetaSize),
         ok      |-> /\ GenerateAsserts(g)
                     /\ CanAdvance(controllerCurrent, MetaSize)
                     /\ ValidSubrange(meta, MetaSize)]

\* The metadata of the multievent that starts at slot `first'.
MultieventMetadata(first) ==
    [begin |-> first, end |-> advance_in_range(first, BulkedEvents, MetaSize)]

\* checkDataWrap: some event of the multievent lies before its first one.
checkDataWrap(sub) ==
    LET lower == {p \in MetaSlots : MetaOffset[p] < MetaOffset[sub.begin]}
    IN  find_in_range(sub, MetaSize, lower) # sub.end

\* Mutant: the last event is taken one too far.
MultieventIovTooFar(sub) ==
    [base |-> MetaOffset[sub.begin],
     len  |-> MetaOffset[sub.end] + MetaLength[sub.end] - MetaOffset[sub.begin]]

\* The iovec of a multievent: from its first event to the end of its last.
MultieventIov(sub) ==
    LET last == advance_in_range(sub.end, -1, MetaSize)
    IN  [base |-> MetaOffset[sub.begin],
         len  |-> MetaOffset[last] + MetaLength[last] - MetaOffset[sub.begin]]

\* m_iov_multievents.emplace_back(iov_base, false)
Lent(iov) == [base |-> iov.base, len |-> iov.len, done |-> FALSE]

\* get_multievent, n events being due; TRUE is returned.
GetMultievent(n) ==
    LET read == Read(n)
        meta == MultieventMetadata(currentMetadata)
    IN  /\ ~aborted
        /\ read.events >= BulkedEvents
        /\ metadataBuffer' = read.buffer
        /\ controllerCurrent' = read.current
        /\ generatedEvents' = read.events - BulkedEvents
        /\ currentMetadata' = meta.end
        /\ iovMultievents' = Append(iovMultievents, Lent(MultieventIov(meta)))
        /\ aborted' = ~(/\ read.ok
                        /\ CanAdvance(currentMetadata, MetaSize)
                        /\ ~checkDataWrap(meta))
        /\ UNCHANGED releaseMetadata

\* get_multievent, n events being due; FALSE is returned.
NoMultievent(n) ==
    LET read == Read(n)
    IN  /\ ~aborted
        /\ read.events < BulkedEvents
        /\ metadataBuffer' = read.buffer
        /\ controllerCurrent' = read.current
        /\ generatedEvents' = read.events
        /\ aborted' = ~read.ok
        /\ UNCHANGED <<currentMetadata, iovMultievents, releaseMetadata>>

\* Mutant: the last event is not released.
ReleaseEventsButLast(n) ==
    IF n = 0 THEN metadataBuffer ELSE release(metadataBuffer, n - 1, MetaSize)

\* Generator::releaseEvents: all but one event, then that one.
ReleaseEvents(n) ==
    IF n = 0
      THEN metadataBuffer
      ELSE release(release(metadataBuffer, n - 1, MetaSize), 1, MetaSize)
ReleaseAsserts(n) ==
    /\ CanRelease(metadataBuffer, n, MetaSize)
    /\ n # 0 => CanRelease(release(metadataBuffer, n - 1, MetaSize), 1, MetaSize)

\* release_multievents with the addresses of the sends that completed, and
\* releaseContiguousMemory at its end.
ReleaseMultievents(bases) ==
    LET marked == Mark(iovMultievents, bases)
        count  == ReleasableCount(marked)
        meta   == [begin |-> releaseMetadata,
                   end   |-> advance_in_range(releaseMetadata, BulkedEvents * count, MetaSize)]
        events == distance_in_range(meta, MetaSize)
    IN  /\ ~aborted
        /\ bases # {}
        /\ iovMultievents' = DropReleased(marked)
        /\ IF count = 0
             THEN UNCHANGED <<metadataBuffer, releaseMetadata>>
             ELSE metadataBuffer' = ReleaseEvents(events) /\ releaseMetadata' = meta.end
        /\ aborted' = ~(/\ CanMark(iovMultievents, bases)
                        /\ count # 0 => /\ CanAdvance(releaseMetadata, MetaSize)
                                        /\ ValidSubrange(meta, MetaSize)
                                        /\ ReleaseAsserts(events))
        /\ UNCHANGED <<controllerCurrent, currentMetadata, generatedEvents>>

\* More events than the ring has slots are generated no differently.
Next ==
    \/ \E n \in 0 .. MetaSize : GetMultievent(n)
    \/ \E n \in 0 .. MetaSize : NoMultievent(n)
    \/ \E bases \in SUBSET Pending(iovMultievents) : ReleaseMultievents(bases)

Spec == Init /\ [][Next]_vars

\* The readout unit keeps asking, the clock keeps running, and every
\* multievent that was sent completes.
FairSpec ==
    /\ Spec
    /\ WF_vars(GetMultievent(MetaSize))
    /\ WF_vars(iovMultievents # <<>> /\ ReleaseMultievents({iovMultievents[1].base}))
-----------------------------------------------------------------------------
TypeOK ==
    /\ metadataBuffer \in BufferStates(MetaSize)
    /\ controllerCurrent \in MetaSlots
    /\ currentMetadata \in MetaSlots
    /\ generatedEvents \in 0 .. MetaSize
    /\ iovMultievents \in Seq([base : Nat, len : Nat, done : BOOLEAN])
    /\ releaseMetadata \in MetaSlots
    /\ aborted \in BOOLEAN

\* No sequence of legal calls makes an assert of the chain fail: the data of a
\* multievent never wraps (accumulator.cpp:56-57), what is given back is found
\* and was not given back before (119-120), and the ring never overflows or
\* underflows (utility.h:84, 88).
NoAssertFails == ~aborted

\* Every event the generator counts as in use is either waiting for its
\* multievent or in a multievent that is lent: none is leaked by a cursor that
\* laps another (a full circle is distance 0 for distance_in_range), none is
\* counted twice.
EventsAccountedFor ==
    ready(metadataBuffer, MetaSize) = generatedEvents + BulkedEvents * Len(iovMultievents)

\* The memory of the multievents that are lent lies in the data buffer and no
\* byte of it is lent twice, so a send in progress is never overwritten by the
\* next event (the reason for the deque, accumulator.cpp:87-124).
LentMemoryDisjoint ==
    \A p, q \in DOMAIN iovMultievents :
      LET a == iovMultievents[p]
          b == iovMultievents[q]
      IN  /\ a.len > 0 /\ a.base + a.len <= DataSize
          /\ p # q => a.base + a.len <= b.base \/ b.base + b.len <= a.base

\* The slot of a multievent is the index of its first event's slot, in
\* multievents: what the abstract store counts in.
SlotAt(offset) ==
    (CHOOSE p \in MetaSlots : MetaOffset[p] = offset) \div BulkedEvents

HeldSlots ==
    [p \in DOMAIN iovMultievents |->
       [base |-> SlotAt(iovMultievents[p].base), done |-> iovMultievents[p].done]]

Store == INSTANCE MultieventStore
           WITH Capacity <- 2 * Credits,
                held     <- HeldSlots,
                nextSlot <- currentMetadata \div BulkedEvents

\* Cursors, ring and deque together are the abstract store of 2 * Credits + 1
\* slots, of which 2 * Credits can be lent at once.
ImplementsStore == Store!Spec

\* Whatever order multievents are given back in, the ring keeps turning: the
\* memory of every slot is lent again and again.
EverySlotReused ==
    \A s \in 0 .. Multievents - 1 : []<>(\E p \in DOMAIN HeldSlots : HeldSlots[p].base = s)
=============================================================================
