--------------------------- MODULE GeneratorLayout --------------------------
(***************************************************************************)
(* The constructor of the Generator (generator/generator.cpp), which lays  *)
(* the events out in the data buffer once and for all: what it leaves      *)
(* behind is what the Accumulator assumes of MetaOffset and MetaLength.    *)
(* One step per iteration of its loop.  All sizes are bytes.               *)
(***************************************************************************)
EXTENDS CircularBuffer, Sequences

CONSTANTS
    MaxFragmentSize,  \* GENERAL.MAX_FRAGMENT_SIZE
    BulkedEvents,     \* GENERAL.BULKED_EVENTS
    Credits,          \* GENERAL.CREDITS
    Mean,             \* GENERATOR.MEAN
    StdDev            \* GENERATOR.STD_DEV

HeaderSize == 24   \* sizeof(EventHeader)
DataPadding == 32  \* data_padding

MetaSize == BulkedEvents * (2 * Credits + 1)
DataSize == MaxFragmentSize * MetaSize

\* What main.cpp checks, and the assert on the size of the data buffer.
ASSUME LayoutConfigAssumption ==
    /\ MaxFragmentSize \in Nat \ {0} /\ MaxFragmentSize % HeaderSize = 0
    /\ BulkedEvents \in Nat \ {0}
    /\ Credits \in Nat \ {0}
    /\ Mean \in Nat \ {0}
    /\ StdDev \in Nat
    /\ DataSize % DataPadding = 0

\* m_max and m_min of the LengthGenerator: no maximum stands for the mean and
\* five standard deviations, and no deviation for the mean alone.
MaxLength ==
    LET max == MaxFragmentSize - HeaderSize
    IN  IF max # 0 THEN max ELSE Mean + 5 * StdDev
MinLength == IF StdDev # 0 THEN 0 ELSE Mean

\* The values generate() returns.  The normal distribution has every value,
\* a negative one becomes some unsigned one, and all are clamped.
Lengths == IF StdDev = 0 THEN {Mean} ELSE MinLength .. MaxLength

ASSUME LengthAssumption == MinLength <= Mean /\ Mean <= MaxLength

VARIABLES
    metadata,        \* the EventMetaData written so far, in slot order
    metadataBuffer,  \* m_metadata_buffer
    dataBuffer,      \* data_buffer
    offset,
    metadataAvail,   \* metadata_avail, the condition of the loop
    aborted          \* an assert failed

layoutVars == <<metadata, metadataBuffer, dataBuffer, offset, metadataAvail, aborted>>

Init ==
    /\ metadata = <<>>
    /\ metadataBuffer = EmptyBuffer
    /\ dataBuffer = EmptyBuffer
    /\ offset = 0
    /\ metadataAvail = TRUE
    /\ aborted = FALSE

\* Mutant: one padding is taken off, whatever the size.
RoundedDownOnce(size) == size - DataPadding

\* The size of an event before it is checked against what is left.
RoundedDown(size) == size - (size % DataPadding)

\* Mutant: the headers of the events that follow are not counted.
EventSizeGreedy(length) ==
    LET size == RoundedDown(HeaderSize + length)
    IN  IF available(dataBuffer, DataSize) < size THEN HeaderSize ELSE size

\* The size of an event: a mere header if the events that follow would not
\* have room for theirs.
EventSize(length) ==
    LET size     == RoundedDown(HeaderSize + length)
        reserved == (available(metadataBuffer, MetaSize) - 1) * HeaderSize
    IN  IF available(dataBuffer, DataSize) < size + reserved THEN HeaderSize ELSE size

\* One iteration.  The last slot is written but not reserved: a Buffer can not
\* be completely filled.
SetEvent(length) ==
    LET size == EventSize(length)
        last == available(metadataBuffer, MetaSize) = 1
    IN  /\ metadataAvail /\ ~aborted
        /\ metadata' = Append(metadata,
                         [id |-> Len(metadata), length |-> size, offset |-> offset])
        /\ metadataAvail' = ~last
        /\ offset' = (offset + size) % DataSize
        /\ IF last
             THEN UNCHANGED <<metadataBuffer, dataBuffer, aborted>>
             ELSE /\ metadataBuffer' = reserve(metadataBuffer, 1, MetaSize)
                  /\ dataBuffer' = reserve(dataBuffer, size, DataSize)
                  /\ aborted' = ~(/\ CanReserve(metadataBuffer, 1, MetaSize)
                                  /\ CanReserve(dataBuffer, size, DataSize))

\* After the loop everything is free again.
Finish ==
    /\ ~metadataAvail /\ ~aborted
    /\ metadataBuffer' = release(metadataBuffer, ready(metadataBuffer, MetaSize), MetaSize)
    /\ dataBuffer' = release(dataBuffer, ready(dataBuffer, DataSize), DataSize)
    /\ aborted' = (\/ ready(metadataBuffer', MetaSize) # 0
                   \/ ready(dataBuffer', DataSize) # 0)
    /\ UNCHANGED <<metadata, offset, metadataAvail>>

Next == (\E length \in Lengths : SetEvent(length)) \/ Finish

Spec == Init /\ [][Next]_layoutVars
-----------------------------------------------------------------------------
TypeOK ==
    /\ metadata \in Seq([id : Nat, length : Nat, offset : 0 .. DataSize - 1])
    /\ metadataBuffer \in BufferStates(MetaSize)
    /\ dataBuffer \in BufferStates(DataSize)
    /\ offset \in 0 .. DataSize - 1
    /\ metadataAvail \in BOOLEAN
    /\ aborted \in BOOLEAN

\* The layout fits whatever lengths are drawn: no reservation overflows
\* (utility.h:88, with the strict comparison), and in the end all the memory
\* is free (generator.cpp:76).
NoAssertFails == ~aborted

\* The events follow each other in the data buffer without a gap and without
\* wrapping around: a multievent is one piece of memory, as accumulator.cpp:71
\* takes it to be.
EventsFollow ==
    \A p \in DOMAIN metadata :
      /\ metadata[p].offset + metadata[p].length <= DataSize
      /\ p > 1 => metadata[p].offset = metadata[p - 1].offset + metadata[p - 1].length

\* Every header is written inside the data buffer, where an EventHeader may be
\* (the assert of pointer_cast, pointer_cast.h:22), and inside its own event
\* (generator.cpp:54-58): rounding down and falling back to a mere header never
\* leave less than a header.  Only an event that is rounded down to nothing has
\* none, and only if payloads that short can be drawn.
HeadersFit ==
    \A p \in DOMAIN metadata :
      /\ metadata[p].offset + HeaderSize <= DataSize
      /\ metadata[p].offset % 8 = 0
      /\ \/ metadata[p].length >= HeaderSize
         \/ metadata[p].length = 0 /\ MinLength < DataPadding - HeaderSize

\* The data of a multievent begins with the header of its first event, whose
\* id is what the builder unit goes by (builder_unit.cpp:46-58): no later event
\* is written over it.
FragmentsBeginWithTheirId ==
    \A p, q \in DOMAIN metadata :
      (p - 1) % BulkedEvents = 0 /\ p < q => metadata[p].offset # metadata[q].offset
=============================================================================
