------------------------ MODULE GeneratorLayoutProofs -----------------------
(***************************************************************************)
(* The layout of the Generator, for every configuration and whatever       *)
(* lengths are drawn.                                                      *)
(***************************************************************************)
EXTENDS GeneratorLayout, DataLemmas

EventMetaData == [id : Nat, length : Nat, offset : 0 .. DataSize - 1]

\* What follows is laid out from `offset' on, and there is room for the
\* headers of all the slots that are not written yet.
RoomForHeaders ==
    /\ ready(metadataBuffer, MetaSize) = Len(metadata)
    /\ ready(dataBuffer, DataSize) = offset
    /\ offset + (MetaSize - Len(metadata)) * HeaderSize <= DataSize
    /\ offset % 8 = 0
    /\ metadata = <<>> => offset = 0
    /\ metadata # <<>> =>
         metadata[Len(metadata)].offset + metadata[Len(metadata)].length = offset

\* An event lies behind all the earlier ones, not only behind the last.
OffsetsGrow ==
    \A p, q \in DOMAIN metadata :
      p < q => metadata[p].offset + metadata[p].length <= metadata[q].offset

LayoutInv ==
    /\ TypeOK
    /\ NoAssertFails
    /\ EventsFollow
    /\ HeadersFit
    /\ OffsetsGrow
    /\ metadataAvail => RoomForHeaders

LEMMA PositiveProduct ==
  ASSUME NEW a \in Nat \ {0}, NEW b \in Nat \ {0}
  PROVE  a * b \in Nat \ {0}
OBVIOUS

LEMMA ProductMonotone ==
  ASSUME NEW a \in Nat, NEW b \in Nat, NEW c \in Nat, a <= b
  PROVE  c * a <= b * c
<1>1. PICK d \in Nat : b = a + d
  <2>1. b - a \in Nat /\ b = a + (b - a)
    OBVIOUS
  <2> QED BY <2>1
<1>2. b * c = c * a + d * c /\ d * c \in Nat /\ c * a \in Nat
  BY <1>1
<1> QED BY <1>2

\* main.cpp:164 and 183-184: a fragment is at least a header, so the data
\* buffer has room for a header per slot.
LEMMA SizeFacts ==
  /\ MetaSize \in Nat \ {0} /\ DataSize \in Nat \ {0}
  /\ MetaSize * HeaderSize <= DataSize
<1>1. 2 * Credits + 1 \in Nat \ {0}
  BY LayoutConfigAssumption
<1>2. MetaSize \in Nat \ {0}
  BY <1>1, LayoutConfigAssumption, PositiveProduct DEF MetaSize
<1>3. DataSize \in Nat \ {0}
  BY <1>2, LayoutConfigAssumption, PositiveProduct DEF DataSize
<1>4. HeaderSize <= MaxFragmentSize
  BY LayoutConfigAssumption DEF HeaderSize
<1>5. HeaderSize \in Nat /\ MaxFragmentSize \in Nat /\ MetaSize \in Nat
  BY <1>2, LayoutConfigAssumption DEF HeaderSize
<1>6. MetaSize * HeaderSize <= MaxFragmentSize * MetaSize
  BY <1>4, <1>5, ProductMonotone
<1> QED BY <1>2, <1>3, <1>6 DEF DataSize

\* Rounding down leaves nothing of less than a padding, and of more at least a
\* header.
LEMMA RoundedDownType ==
  ASSUME NEW size \in Nat
  PROVE  /\ RoundedDown(size) \in Nat
         /\ \/ RoundedDown(size) >= HeaderSize
            \/ RoundedDown(size) = 0 /\ size < DataPadding
         /\ RoundedDown(size) % 8 = 0
BY DEF RoundedDown, DataPadding, HeaderSize

LEMMA LengthsType ==
  ASSUME NEW length \in Lengths
  PROVE  length \in Nat /\ MinLength \in Nat /\ MinLength <= length
BY LayoutConfigAssumption DEF Lengths, MinLength, MaxLength, HeaderSize

LEMMA InitLayoutInv == Init => LayoutInv
<1> SUFFICES ASSUME Init PROVE LayoutInv
  OBVIOUS
<1>1. EmptyBuffer \in BufferStates(MetaSize) /\ EmptyBuffer \in BufferStates(DataSize)
  BY SizeFacts DEF EmptyBuffer, BufferStates
<1>2. ready(EmptyBuffer, MetaSize) = 0 /\ ready(EmptyBuffer, DataSize) = 0
  BY <1>1, SizeFacts, ReadySlots DEF EmptyBuffer
<1>3. TypeOK
  <2>1. 0 \in 0 .. DataSize - 1 /\ <<>> \in Seq(EventMetaData)
    BY SizeFacts
  <2> QED BY <1>1, <2>1 DEF Init, TypeOK, EventMetaData
<1>5. NoAssertFails /\ EventsFollow /\ HeadersFit /\ OffsetsGrow
  BY DEF Init, NoAssertFails, EventsFollow, HeadersFit, OffsetsGrow
<1>4. RoomForHeaders
  BY <1>2, SizeFacts DEF Init, RoomForHeaders, HeaderSize
<1> QED BY <1>3, <1>4, <1>5 DEF LayoutInv

LEMMA SetEventLayoutInv ==
  ASSUME LayoutInv, NEW length \in Lengths, SetEvent(length)
  PROVE  LayoutInv'
<1> DEFINE size == EventSize(length)
           n == Len(metadata)
           room == available(metadataBuffer, MetaSize)
           event == [id |-> n, length |-> size, offset |-> offset]
<1>1. /\ TypeOK /\ EventsFollow /\ HeadersFit /\ OffsetsGrow /\ RoomForHeaders
      /\ ~aborted /\ metadataAvail
  BY DEF LayoutInv, NoAssertFails, SetEvent
<1>2. /\ metadata \in Seq(EventMetaData) /\ n \in Nat
      /\ offset \in 0 .. DataSize - 1
      /\ metadataBuffer \in BufferStates(MetaSize) /\ dataBuffer \in BufferStates(DataSize)
      /\ MetaSize \in Nat \ {0} /\ DataSize \in Nat \ {0}
  BY <1>1, SizeFacts DEF TypeOK, EventMetaData
<1>3. /\ room = MetaSize - n /\ room \in 1 .. MetaSize
      /\ available(dataBuffer, DataSize) = DataSize - offset
  BY <1>1, <1>2, ReadySlots DEF RoomForHeaders
<1>4. /\ size \in Nat
      /\ size >= HeaderSize \/ (size = 0 /\ MinLength < DataPadding - HeaderSize)
      /\ size % 8 = 0
      /\ offset + size + (room - 1) * HeaderSize <= DataSize
  <2> DEFINE rounded == RoundedDown(HeaderSize + length)
  <2>1. HeaderSize + length \in Nat /\ MinLength \in Nat /\ MinLength <= length
    BY LengthsType DEF HeaderSize
  <2>2. /\ rounded \in Nat /\ rounded % 8 = 0
        /\ rounded >= HeaderSize \/ (rounded = 0 /\ HeaderSize + length < DataPadding)
    BY <2>1, RoundedDownType
  <2>5. HeaderSize + length < DataPadding => MinLength < DataPadding - HeaderSize
    BY <2>1, LengthsType DEF HeaderSize, DataPadding
  <2>3. offset + room * HeaderSize <= DataSize
    BY <1>1, <1>3 DEF RoomForHeaders
  <2>4. size = IF DataSize - offset < rounded + (room - 1) * HeaderSize
                 THEN HeaderSize ELSE rounded
    BY <1>3 DEF EventSize
  <2> HIDE DEF rounded, size, room
  <2> QED BY <1>2, <1>3, <2>1, <2>2, <2>3, <2>4, <2>5 DEF HeaderSize, DataPadding
<1>5. /\ metadata' = Append(metadata, event)
      /\ metadataAvail' = (room # 1)
      /\ offset' = (offset + size) % DataSize
      /\ room = 1 => UNCHANGED <<metadataBuffer, dataBuffer, aborted>>
      /\ room # 1 => /\ metadataBuffer' = reserve(metadataBuffer, 1, MetaSize)
                     /\ dataBuffer' = reserve(dataBuffer, size, DataSize)
                     /\ aborted' = ~(/\ CanReserve(metadataBuffer, 1, MetaSize)
                                     /\ CanReserve(dataBuffer, size, DataSize))
  BY DEF SetEvent
<1> HIDE DEF size, room
<1>6. /\ offset + HeaderSize <= DataSize
      /\ offset + size <= DataSize
      /\ room # 1 => offset + size + HeaderSize <= DataSize
  <2>1. offset + (MetaSize - n) * HeaderSize <= DataSize
    BY <1>1 DEF RoomForHeaders
  <2>2. offset + room * 24 <= DataSize
    BY <1>3, <2>1 DEF HeaderSize
  <2>3. offset + size + (room - 1) * 24 <= DataSize
    BY <1>4 DEF HeaderSize
  <2>4. room \in Nat \ {0} /\ offset \in Nat /\ DataSize \in Nat /\ size \in Nat
    BY <1>2, <1>3, <1>4
  <2> QED BY <2>2, <2>3, <2>4 DEF HeaderSize
<1>7. event \in EventMetaData
  BY <1>2, <1>4 DEF EventMetaData
<1>8. /\ metadata' \in Seq(EventMetaData)
      /\ Len(metadata') = n + 1
      /\ \A p \in 1 .. n + 1 : metadata'[p] = IF p <= n THEN metadata[p] ELSE event
  <2> HIDE DEF event
  <2> QED BY <1>2, <1>5, <1>7
<1>9. offset' \in 0 .. DataSize - 1
  <2>1. PICK a \in Nat : a = offset + size
    BY <1>2, <1>4
  <2>2. a % DataSize \in 0 .. DataSize - 1
    BY <1>2, <2>1, RingRange
  <2> QED BY <1>5, <2>1, <2>2
<1>10. room # 1 => /\ CanReserve(metadataBuffer, 1, MetaSize)
                   /\ CanReserve(dataBuffer, size, DataSize)
                   /\ offset' = offset + size
  <2> SUFFICES ASSUME room # 1
               PROVE  /\ CanReserve(metadataBuffer, 1, MetaSize)
                      /\ CanReserve(dataBuffer, size, DataSize)
                      /\ offset' = offset + size
    OBVIOUS
  <2>1. room > 1 /\ DataSize - offset > size
    BY <1>2, <1>3, <1>4, <1>6 DEF HeaderSize
  <2>2. (offset + size) % DataSize = offset + size
    BY <1>2, <1>4, <2>1
  <2> QED BY <1>3, <1>5, <2>1, <2>2 DEF CanReserve, room
<1>11. /\ metadataBuffer' \in BufferStates(MetaSize) /\ dataBuffer' \in BufferStates(DataSize)
       /\ room # 1 => /\ ready(metadataBuffer', MetaSize) = n + 1
                      /\ ready(dataBuffer', DataSize) = offset'
  <2>1. CASE room = 1
    BY <1>2, <1>5, <2>1
  <2>2. CASE room # 1
    <3>1. ready(metadataBuffer, MetaSize) = n /\ ready(dataBuffer, DataSize) = offset
      BY <1>1 DEF RoomForHeaders
    <3>2. /\ metadataBuffer' \in BufferStates(MetaSize)
          /\ ready(metadataBuffer', MetaSize) = n + 1
      <4>1. CanReserve(metadataBuffer, 1, MetaSize)
        BY <1>10, <2>2
      <4>2. /\ reserve(metadataBuffer, 1, MetaSize) \in BufferStates(MetaSize)
            /\ ready(reserve(metadataBuffer, 1, MetaSize), MetaSize)
                 = ready(metadataBuffer, MetaSize) + 1
        BY <1>2, <4>1, ReserveSlots
      <4> QED BY <1>5, <2>2, <3>1, <4>2
    <3>3. /\ dataBuffer' \in BufferStates(DataSize)
          /\ ready(dataBuffer', DataSize) = offset + size
      <4>1. CanReserve(dataBuffer, size, DataSize) /\ size \in Nat
        BY <1>4, <1>10, <2>2
      <4>2. /\ reserve(dataBuffer, size, DataSize) \in BufferStates(DataSize)
            /\ ready(reserve(dataBuffer, size, DataSize), DataSize)
                 = ready(dataBuffer, DataSize) + size
        BY <1>2, <4>1, ReserveSlots
      <4> QED BY <1>5, <2>2, <3>1, <4>2
    <3> QED BY <1>10, <2>2, <3>2, <3>3
  <2> QED BY <2>1, <2>2
<1>12. NoAssertFails'
  BY <1>1, <1>5, <1>10 DEF NoAssertFails
<1>13. TypeOK'
  <2>1. aborted' \in BOOLEAN /\ metadataAvail' \in BOOLEAN
    BY <1>1, <1>5, Zenon DEF TypeOK
  <2> QED BY <1>8, <1>9, <1>11, <2>1 DEF TypeOK, EventMetaData
<1>14. EventsFollow'
  <2> SUFFICES ASSUME NEW p \in 1 .. n + 1
               PROVE  /\ metadata'[p].offset + metadata'[p].length <= DataSize
                      /\ p > 1 => metadata'[p].offset
                                    = metadata'[p - 1].offset + metadata'[p - 1].length
    BY <1>2, <1>8 DEF EventsFollow
  <2>1. CASE p <= n
    <3>1. p \in DOMAIN metadata /\ metadata'[p] = metadata[p]
      BY <1>2, <1>8, <2>1
    <3>2. p > 1 => metadata'[p - 1] = metadata[p - 1]
      BY <1>2, <1>8, <2>1
    <3> QED BY <1>1, <3>1, <3>2 DEF EventsFollow
  <2>2. CASE p = n + 1
    <3>1. metadata'[p] = event /\ event.offset = offset /\ event.length = size
      BY <1>2, <1>8, <2>2
    <3>2. p > 1 => metadata'[p - 1] = metadata[n] /\ metadata # <<>>
      BY <1>2, <1>8, <2>2
    <3> QED BY <1>1, <1>6, <3>1, <3>2 DEF RoomForHeaders
  <2> QED BY <1>2, <2>1, <2>2
<1>15. HeadersFit'
  <2> SUFFICES ASSUME NEW p \in 1 .. n + 1
               PROVE  /\ metadata'[p].offset + HeaderSize <= DataSize
                      /\ metadata'[p].offset % 8 = 0
                      /\ \/ metadata'[p].length >= HeaderSize
                         \/ metadata'[p].length = 0 /\ MinLength < DataPadding - HeaderSize
    BY <1>2, <1>8 DEF HeadersFit, HeaderSize
  <2>1. CASE p <= n
    <3>1. p \in DOMAIN metadata /\ metadata'[p] = metadata[p]
      BY <1>2, <1>8, <2>1
    <3> QED BY <1>1, <3>1 DEF HeadersFit
  <2>2. CASE p = n + 1
    <3>1. metadata'[p] = event /\ event.offset = offset /\ event.length = size
      BY <1>2, <1>8, <2>2
    <3>2. offset % 8 = 0
      BY <1>1 DEF RoomForHeaders
    <3> QED BY <1>4, <1>6, <3>1, <3>2
  <2> QED BY <1>2, <2>1, <2>2
<1>16. metadataAvail' => RoomForHeaders'
  <2> SUFFICES ASSUME room # 1 PROVE RoomForHeaders'
    BY <1>5
  <2>1. offset' + (MetaSize - Len(metadata')) * HeaderSize <= DataSize
    BY <1>2, <1>3, <1>4, <1>8, <1>10 DEF HeaderSize
  <2>2. /\ metadata' # <<>>
        /\ metadata'[Len(metadata')] = event /\ event.offset = offset /\ event.length = size
    BY <1>2, <1>8
  <2>3. offset' % 8 = 0
    <3>1. offset % 8 = 0 /\ size % 8 = 0 /\ offset \in Nat /\ size \in Nat
      BY <1>1, <1>2, <1>4 DEF RoomForHeaders
    <3>2. (offset + size) % 8 = 0
      BY <3>1
    <3> QED BY <1>10, <3>2
  <2> QED BY <1>8, <1>10, <1>11, <2>1, <2>2, <2>3 DEF RoomForHeaders, HeaderSize
<1>17. OffsetsGrow'
  <2> SUFFICES ASSUME NEW p \in 1 .. n + 1, NEW q \in 1 .. n + 1, p < q
               PROVE  metadata'[p].offset + metadata'[p].length <= metadata'[q].offset
    BY <1>2, <1>8 DEF OffsetsGrow
  <2>1. CASE q <= n
    BY <1>1, <1>2, <1>8, <2>1 DEF OffsetsGrow
  <2>2. CASE q = n + 1
    <3>1. metadata'[p] = metadata[p] /\ metadata'[q].offset = offset
      BY <1>2, <1>8, <2>2
    <3>2. /\ metadata # <<>> /\ metadata[n].offset + metadata[n].length = offset
          /\ n \in DOMAIN metadata /\ p \in DOMAIN metadata
      BY <1>1, <1>2, <2>2 DEF RoomForHeaders
    <3>3. metadata[p] \in EventMetaData /\ metadata[n] \in EventMetaData
      BY <1>2, <3>2
    <3>4. metadata[p].offset + metadata[p].length <= offset
      <4>1. CASE p = n
        BY <1>2, <3>2, <3>3, <4>1 DEF EventMetaData
      <4>2. CASE p < n
        <5>1. metadata[p].offset + metadata[p].length <= metadata[n].offset
          BY <1>1, <3>2, <4>2 DEF OffsetsGrow
        <5> QED BY <1>2, <3>2, <3>3, <5>1 DEF EventMetaData
      <4> QED BY <1>2, <2>2, <4>1, <4>2
    <3> QED BY <3>1, <3>4
  <2> QED BY <1>2, <2>1, <2>2
<1> QED BY <1>12, <1>13, <1>14, <1>15, <1>16, <1>17 DEF LayoutInv

LEMMA FinishLayoutInv ==
  ASSUME LayoutInv, Finish
  PROVE  LayoutInv'
<1>1. /\ TypeOK /\ EventsFollow /\ HeadersFit /\ OffsetsGrow /\ ~metadataAvail
      /\ UNCHANGED <<metadata, offset, metadataAvail>>
  BY DEF LayoutInv, Finish
<1>2. ASSUME NEW size \in Nat \ {0}, NEW buf \in BufferStates(size)
      PROVE  /\ release(buf, ready(buf, size), size) \in BufferStates(size)
             /\ ready(release(buf, ready(buf, size), size), size) = 0
  <2>1. PICK r \in Nat : r = ready(buf, size)
    BY <1>2, ReadySlots
  <2>2. CanRelease(buf, r, size)
    BY <2>1 DEF CanRelease
  <2>3. /\ release(buf, r, size) \in BufferStates(size)
        /\ ready(release(buf, r, size), size) = ready(buf, size) - r
    BY <1>2, <2>2, ReleaseSlots
  <2> QED BY <2>1, <2>3
<1>3. /\ metadataBuffer' \in BufferStates(MetaSize) /\ ready(metadataBuffer', MetaSize) = 0
      /\ dataBuffer' \in BufferStates(DataSize) /\ ready(dataBuffer', DataSize) = 0
  BY <1>1, <1>2, SizeFacts DEF Finish, TypeOK
<1>4. ~aborted'
  BY <1>3 DEF Finish
<1>5. TypeOK' /\ NoAssertFails'
  <2>1. aborted' \in BOOLEAN
    BY Zenon DEF Finish
  <2> QED BY <1>1, <1>3, <1>4, <2>1 DEF TypeOK, NoAssertFails
<1>6. EventsFollow' /\ HeadersFit' /\ OffsetsGrow'
  BY <1>1 DEF EventsFollow, HeadersFit, OffsetsGrow
<1> QED BY <1>1, <1>5, <1>6 DEF LayoutInv

\* The invariant of the loop holds in every state, whatever is drawn.
THEOREM LayoutInvariant == Spec => []LayoutInv
<1>1. Init => LayoutInv
  BY InitLayoutInv
<1>2. LayoutInv /\ [Next]_layoutVars => LayoutInv'
  <2> SUFFICES ASSUME LayoutInv, [Next]_layoutVars PROVE LayoutInv'
    OBVIOUS
  <2>1. ASSUME NEW length \in Lengths, SetEvent(length) PROVE LayoutInv'
    BY <2>1, SetEventLayoutInv
  <2>2. CASE Finish
    BY <2>2, FinishLayoutInv
  <2>3. CASE UNCHANGED layoutVars
    BY <2>3 DEF layoutVars, LayoutInv, TypeOK, NoAssertFails, EventsFollow,
                HeadersFit, OffsetsGrow, RoomForHeaders
  <2> QED BY <2>1, <2>2, <2>3 DEF Next
<1> QED BY <1>1, <1>2, PTL DEF Spec

\* No configuration within the assumptions, and no lengths drawn, make a
\* reservation of the constructor fail.
THEOREM LayoutNeverFails == Spec => []NoAssertFails
BY LayoutInvariant, PTL DEF LayoutInv

\* The events follow each other in the data buffer and never wrap around it,
\* for every configuration: what the Accumulator takes for granted.
THEOREM LayoutContiguous == Spec => []EventsFollow
BY LayoutInvariant, PTL DEF LayoutInv

\* Every header is written inside the data buffer, and in its own event if no
\* payload is too short, for every configuration.
THEOREM HeadersInsideBuffer == Spec => []HeadersFit
BY LayoutInvariant, PTL DEF LayoutInv

\* If no payload shorter than what rounding takes away can be drawn, no header
\* is written over: every fragment begins with that of its own first event.
THEOREM HeadersKept ==
  ASSUME MinLength >= DataPadding - HeaderSize
  PROVE  Spec => []FragmentsBeginWithTheirId
<1>1. LayoutInv => FragmentsBeginWithTheirId
  <2> SUFFICES ASSUME LayoutInv, NEW p \in DOMAIN metadata, NEW q \in DOMAIN metadata, p < q
               PROVE  metadata[p].offset # metadata[q].offset
    BY DEF FragmentsBeginWithTheirId
  <2>1. metadata[p] \in EventMetaData /\ metadata[q] \in EventMetaData
    <3>1. metadata \in Seq(EventMetaData)
      BY DEF LayoutInv, TypeOK, EventMetaData
    <3> QED BY <3>1
  <2>2. MinLength \in Nat
    BY LayoutConfigAssumption DEF MinLength
  <2>3. metadata[p].length >= HeaderSize
    BY <2>2 DEF LayoutInv, HeadersFit, HeaderSize, DataPadding
  <2>4. metadata[p].offset + metadata[p].length <= metadata[q].offset
    BY DEF LayoutInv, OffsetsGrow
  <2> QED BY <2>1, <2>3, <2>4 DEF EventMetaData, HeaderSize
<1> QED BY <1>1, LayoutInvariant, PTL

\* The buffers stay well formed while the constructor lays events out, for
\* every configuration.
THEOREM LayoutTypeCorrect == Spec => []TypeOK
BY LayoutInvariant, PTL DEF LayoutInv
=============================================================================
