-------------------------- MODULE AccumulatorProofs --------------------------
(***************************************************************************)
(* The invariants of Accumulator, and that it implements MultieventStore:  *)
(* for every number of credits, of events in a multievent, and every       *)
(* layout in which the events follow each other.                           *)
(***************************************************************************)
EXTENDS Accumulator, DataLemmas

(* The ring of event metadata is divided into slots of BulkedEvents events. *)

FirstEvent(s) == BulkedEvents * s
LastEvent(s) == FirstEvent(s) + (BulkedEvents - 1)

\* The memory from the first event of a slot to the end of its last.
IovOf(s) ==
    [base |-> MetaOffset[FirstEvent(s)],
     len  |-> MetaOffset[LastEvent(s)] + MetaLength[LastEvent(s)] - MetaOffset[FirstEvent(s)]]

\* The slot that is lent next, and the one d slots before it.
NextSlot == currentMetadata \div BulkedEvents
SlotBefore(d) == (NextSlot + Multievents - d) % Multievents

(* The inductive invariant. *)

\* The cursors follow each other around the ring: what is lent, then what is
\* generated and not lent, then what is free.
CursorsInRing ==
    /\ currentMetadata = FirstEvent(NextSlot)
    /\ controllerCurrent = metadataBuffer.write
    /\ controllerCurrent = (currentMetadata + generatedEvents) % MetaSize
    /\ releaseMetadata = metadataBuffer.read
    /\ releaseMetadata = FirstEvent(SlotBefore(Len(iovMultievents)))

\* The multievents that are lent are the slots before the next one.
LentInRing ==
    /\ Len(iovMultievents) <= 2 * Credits
    /\ \A p \in 1 .. Len(iovMultievents) :
         /\ iovMultievents[p].base = IovOf(SlotBefore(Len(iovMultievents) + 1 - p)).base
         /\ iovMultievents[p].len = IovOf(SlotBefore(Len(iovMultievents) + 1 - p)).len

\* Nothing that could be released is kept.
FrontInUse == iovMultievents # <<>> => ~iovMultievents[1].done

RingInv ==
    /\ TypeOK
    /\ CursorsInRing
    /\ LentInRing
    /\ FrontInUse
    /\ EventsAccountedFor
    /\ NoAssertFails

LentEntry == [base : Nat, len : Nat, done : BOOLEAN]
SlotNumbers == 0 .. Multievents - 1
-----------------------------------------------------------------------------
LEMMA Sizes ==
  /\ BulkedEvents \in Nat \ {0} /\ Credits \in Nat \ {0}
  /\ Multievents \in Nat /\ Multievents = 2 * Credits + 1 /\ Multievents >= 3
  /\ MetaSize \in Nat \ {0} /\ MetaSize = BulkedEvents * Multievents
  /\ MetaSize >= BulkedEvents + BulkedEvents + BulkedEvents
<1>1. /\ BulkedEvents \in Nat \ {0} /\ Credits \in Nat \ {0}
      /\ Multievents \in Nat /\ Multievents = 2 * Credits + 1 /\ Multievents >= 3
      /\ MetaSize = BulkedEvents * Multievents
  BY SizesAssumption DEF Multievents, MetaSize
<1>2. PICK b \in Nat \ {0}, m \in Nat : b = BulkedEvents /\ m = Multievents /\ m >= 3
  BY <1>1
<1>3. PICK x \in Nat : m = 3 + x
  <2>1. m - 3 \in Nat /\ m = 3 + (m - 3)
    BY <1>2
  <2> QED BY <2>1
<1>4. b * m = b + b + b + (b * x) /\ b * x \in Nat
  BY <1>3
<1> QED BY <1>1, <1>2, <1>4

\* The slots follow each other, and the last one ends at the end of the ring.
LEMMA SlotPlaces ==
  ASSUME NEW s \in Nat
  PROVE  /\ FirstEvent(s) \in Nat /\ LastEvent(s) \in Nat
         /\ LastEvent(s) = FirstEvent(s) + BulkedEvents - 1
         /\ FirstEvent(s + 1) = FirstEvent(s) + BulkedEvents
         /\ \A t \in Nat : t > s => FirstEvent(t) >= FirstEvent(s) + BulkedEvents
         /\ s \in SlotNumbers => LastEvent(s) < MetaSize
<1>1. PICK b \in Nat \ {0} : b = BulkedEvents
  BY Sizes
<1>2. /\ b * s \in Nat /\ b * (s + 1) = (b * s) + b
      /\ \A t \in Nat : t > s => b * t >= (b * s) + b
  BY MultiplesApart
<1>3. s \in SlotNumbers => MetaSize >= (b * s) + b
  BY <1>1, <1>2, Sizes DEF SlotNumbers
<1>4. /\ FirstEvent(s) = b * s /\ FirstEvent(s + 1) = b * (s + 1)
      /\ \A t \in Nat : FirstEvent(t) = b * t
      /\ LastEvent(s) = (b * s) + (b - 1)
  BY <1>1 DEF FirstEvent, LastEvent
<1>5. PICK f \in Nat, g \in Nat : f = b * s /\ g = b * (s + 1) /\ g = f + b
  BY <1>2
<1> QED BY <1>1, <1>2, <1>3, <1>4, <1>5, Sizes

LEMMA SlotNumber ==
  ASSUME NEW s \in Nat
  PROVE  FirstEvent(s) \div BulkedEvents = s
<1>1. PICK b \in Nat \ {0} : b = BulkedEvents
  BY Sizes
<1>2. PICK q \in Int, r \in 0 .. b - 1 : q = (b * s) \div b /\ b * s = (b * q) + r
  <2>1. b * s \in Nat
    OBVIOUS
  <2>2. (b * s) \div b \in Int /\ (b * s) % b \in 0 .. b - 1
        /\ b * s = (b * ((b * s) \div b)) + ((b * s) % b)
    BY <2>1
  <2> QED BY <2>2
<1>3. b * s \in Int /\ b * q \in Int
  OBVIOUS
<1>4. ~ (q > s)
  <2>1. q > s => b * q >= (b * s) + b
    BY MultiplesApart
  <2> QED BY <1>2, <1>3, <2>1
<1>5. ~ (s > q)
  <2>1. s > q => b * s >= (b * q) + b
    BY MultiplesApart
  <2> QED BY <1>2, <1>3, <2>1
<1> QED BY <1>1, <1>2, <1>4, <1>5 DEF FirstEvent

\* On by k slots is on by their events.
LEMMA SlotsOn ==
  ASSUME NEW s \in SlotNumbers, NEW k \in 0 .. Multievents
  PROVE  /\ (FirstEvent(s) + BulkedEvents * k) % MetaSize = FirstEvent((s + k) % Multievents)
         /\ (s + k) % Multievents \in SlotNumbers
<1>1. PICK b \in Nat \ {0}, m \in Nat \ {0} : b = BulkedEvents /\ m = Multievents
  BY Sizes
<1>2. s \in 0 .. m - 1 /\ k \in 0 .. m /\ s \in Nat /\ k \in Nat
  BY <1>1 DEF SlotNumbers
<1>3. (b * s) + (b * k) = b * (s + k)
  BY <1>2
<1>4. PICK n \in Nat : n = s + k
  BY <1>2
<1>5. b * m \in Nat \ {0} /\ MetaSize = b * m
  BY <1>1, Sizes
<1>6. CASE n < m
  <2>1. n % m = n
    BY <1>6
  <2>2. b * m >= (b * n) + b /\ b * n \in Nat
    BY <1>6, MultiplesApart
  <2>3. (b * n) % (b * m) = b * n
    <3>1. PICK x \in Nat, y \in Nat \ {0} : x = b * n /\ y = b * m /\ x < y
      BY <1>5, <2>2
    <3>2. x % y = x
      BY <3>1
    <3> QED BY <3>1, <3>2
  <2> QED BY <1>1, <1>2, <1>3, <1>4, <1>5, <1>6, <2>1, <2>3 DEF FirstEvent, SlotNumbers
<1>7. CASE n >= m
  <2>1. PICK d \in 0 .. m - 1 : n = m + d
    <3>1. n - m \in 0 .. m - 1 /\ n = m + (n - m)
      BY <1>2, <1>4, <1>7
    <3> QED BY <3>1
  <2>2. n % m = d
    BY <2>1
  <2>3. b * n = (b * m) + (b * d) /\ b * d \in Nat /\ b * m >= (b * d) + b
    <3>1. d \in Nat /\ m > d
      BY <2>1
    <3>2. b * (m + d) = (b * m) + (b * d)
      BY <3>1
    <3> QED BY <2>1, <3>1, <3>2, MultiplesApart
  <2>4. (b * n) % (b * m) = b * d
    <3>1. PICK x \in Nat, y \in Nat \ {0}, z \in Nat :
            x = b * n /\ y = b * m /\ z = b * d /\ x = y + z /\ z < y
      BY <1>5, <2>3
    <3>2. x % y = z
      BY <3>1
    <3> QED BY <3>1, <3>2
  <2> QED BY <1>1, <1>2, <1>3, <1>4, <1>5, <2>1, <2>2, <2>4 DEF FirstEvent, SlotNumbers
<1> QED BY <1>4, <1>2, <1>6, <1>7

\* An iterator that goes on.
LEMMA Advanced ==
  ASSUME NEW size \in Nat \ {0}, NEW c \in Nat, NEW n \in Nat
  PROVE  /\ advance_in_range(c, n, size) = (c + n) % size
         /\ (c + n) % size \in 0 .. size - 1
<1>1. PICK a \in Nat : a = c + n
  OBVIOUS
<1>2. a % size \in 0 .. size - 1
  BY RingRange
<1>3. ~ (a % size < 0) /\ (a % size) + 0 = a % size
  BY <1>2
<1> QED BY <1>1, <1>2, <1>3 DEF advance_in_range, Remainder

\* The iterator before another, whose remainder may be negative.
LEMMA SteppedBack ==
  ASSUME NEW size \in Nat, size > 1, NEW c \in 0 .. size - 1
  PROVE  advance_in_range(c, -1, size) = IF c = 0 THEN size - 1 ELSE c - 1
<1>1. CASE c = 0
  <2>1. 1 % size = 1
    <3>1. 1 \in 0 .. 3 * size - 1 /\ size \in Nat \ {0}
      OBVIOUS
    <3> QED BY <3>1, RingRemainder
  <2>2. ~ (c + (-1) >= 0) /\ 0 - (c + (-1)) = 1 /\ -1 = 0 - 1
    BY <1>1
  <2>3. Remainder(c + (-1), size) = 0 - 1
    BY <2>1, <2>2 DEF Remainder
  <2> QED BY <1>1, <2>3 DEF advance_in_range
<1>2. CASE c # 0
  <2>1. PICK a \in 0 .. size - 1 : a = c + (-1) /\ a = c - 1
    BY <1>2
  <2>2. a % size = a /\ a >= 0
    BY <2>1
  <2>3. Remainder(a, size) = a
    BY <2>2 DEF Remainder
  <2> QED BY <1>2, <2>1, <2>2, <2>3 DEF advance_in_range
<1> QED BY <1>1, <1>2

\* Where the metadata of a multievent ends.
LEMMA MetadataEnd ==
  ASSUME NEW s \in SlotNumbers
  PROVE  /\ MultieventMetadata(FirstEvent(s)).begin = FirstEvent(s)
         /\ MultieventMetadata(FirstEvent(s)).end = FirstEvent((s + 1) % Multievents)
         /\ FirstEvent((s + 1) % Multievents)
              = IF s = Multievents - 1 THEN 0 ELSE FirstEvent(s) + BulkedEvents
         /\ FirstEvent(s) \in MetaSlots /\ LastEvent(s) \in MetaSlots
<1>1. s \in Nat /\ Multievents \in Nat /\ Multievents >= 3 /\ s < Multievents
  BY Sizes DEF SlotNumbers
<1>2. /\ FirstEvent(s) \in Nat /\ LastEvent(s) \in Nat /\ LastEvent(s) < MetaSize
      /\ LastEvent(s) = FirstEvent(s) + BulkedEvents - 1
      /\ FirstEvent(s + 1) = FirstEvent(s) + BulkedEvents
  BY <1>1, SlotPlaces
<1>3. BulkedEvents \in Nat \ {0} /\ MetaSize \in Nat \ {0}
  BY Sizes
<1>4. advance_in_range(FirstEvent(s), BulkedEvents, MetaSize) = FirstEvent((s + 1) % Multievents)
  <2>1. advance_in_range(FirstEvent(s), BulkedEvents, MetaSize)
          = (FirstEvent(s) + BulkedEvents) % MetaSize
    BY <1>2, <1>3, Advanced
  <2>2. BulkedEvents * 1 = BulkedEvents /\ 1 \in 0 .. Multievents
    BY <1>1, <1>3
  <2> QED BY <2>1, <2>2, SlotsOn
<1>5. FirstEvent((s + 1) % Multievents)
        = IF s = Multievents - 1 THEN 0 ELSE FirstEvent(s) + BulkedEvents
  <2>1. CASE s = Multievents - 1
    <3>1. (s + 1) % Multievents = 0
      BY <1>1, <2>1
    <3> QED BY <1>3, <2>1, <3>1 DEF FirstEvent
  <2>2. CASE s # Multievents - 1
    <3>1. (s + 1) % Multievents = s + 1
      BY <1>1, <2>2
    <3> QED BY <1>2, <2>2, <3>1
  <2> QED BY <2>1, <2>2
<1>6. FirstEvent(s) \in MetaSlots /\ LastEvent(s) \in MetaSlots
  BY <1>2, <1>3 DEF MetaSlots
<1> QED BY <1>4, <1>5, <1>6 DEF MultieventMetadata

\* What the readout unit is given is the memory of the slot.
LEMMA IovOfSlot ==
  ASSUME NEW s \in SlotNumbers
  PROVE  MultieventIov(MultieventMetadata(FirstEvent(s))) = IovOf(s)
<1> DEFINE sub == MultieventMetadata(FirstEvent(s))
<1>1. /\ sub.begin = FirstEvent(s)
      /\ sub.end = IF s = Multievents - 1 THEN 0 ELSE FirstEvent(s) + BulkedEvents
  BY MetadataEnd
<1>2. /\ FirstEvent(s) \in Nat /\ LastEvent(s) = FirstEvent(s) + BulkedEvents - 1
      /\ BulkedEvents \in Nat \ {0} /\ MetaSize \in Nat /\ MetaSize > 1
      /\ LastEvent(s) < MetaSize
  BY SlotPlaces, Sizes DEF SlotNumbers
<1>3. s = Multievents - 1 => LastEvent(s) = MetaSize - 1
  <2>1. ASSUME s = Multievents - 1 PROVE FirstEvent(s) + BulkedEvents = MetaSize
    <3>1. PICK b \in Nat, m \in Nat : b = BulkedEvents /\ m = Multievents
      BY Sizes
    <3>2. b * (m - 1) + b = b * m
      BY <3>1
    <3> QED BY <2>1, <3>1, <3>2, Sizes DEF FirstEvent
  <2> QED BY <1>2, <2>1
<1>4. s # Multievents - 1 => FirstEvent(s) + BulkedEvents \in 1 .. MetaSize - 1
  <2> SUFFICES ASSUME s # Multievents - 1 PROVE FirstEvent(s) + BulkedEvents \in 1 .. MetaSize - 1
    OBVIOUS
  <2>1. s + 1 \in SlotNumbers /\ s \in Nat /\ s + 1 \in Nat
    BY Sizes DEF SlotNumbers
  <2>2. FirstEvent(s + 1) = FirstEvent(s) + BulkedEvents /\ LastEvent(s + 1) < MetaSize
        /\ LastEvent(s + 1) = FirstEvent(s + 1) + BulkedEvents - 1
    BY <2>1, SlotPlaces
  <2> QED BY <1>2, <2>2
<1>5. advance_in_range(sub.end, -1, MetaSize) = LastEvent(s)
  <2>1. sub.end \in 0 .. MetaSize - 1
    BY <1>1, <1>2, <1>4
  <2>2. advance_in_range(sub.end, -1, MetaSize) = IF sub.end = 0 THEN MetaSize - 1 ELSE sub.end - 1
    <3> HIDE DEF sub
    <3> QED BY <1>2, <2>1, SteppedBack
  <2> HIDE DEF sub
  <2> QED BY <1>1, <1>2, <1>3, <1>4, <2>2
<1>6. MultieventIov(sub) = IovOf(s)
  <2> HIDE DEF sub
  <2> QED BY <1>1, <1>5 DEF MultieventIov, IovOf
<1> QED BY <1>6

\* The events of a multievent follow each other in memory.
LEMMA NeverWraps ==
  ASSUME NEW s \in SlotNumbers
  PROVE  ~checkDataWrap(MultieventMetadata(FirstEvent(s)))
<1> DEFINE sub == MultieventMetadata(FirstEvent(s))
           lower == {p \in MetaSlots : MetaOffset[p] < MetaOffset[sub.begin]}
<1>1. /\ sub.begin = FirstEvent(s) /\ FirstEvent(s) \in MetaSlots
      /\ sub.end = IF s = Multievents - 1 THEN 0 ELSE FirstEvent(s) + BulkedEvents
      /\ BulkedEvents \in Nat \ {0} /\ MetaSize \in Nat \ {0}
  BY MetadataEnd, Sizes
<1>2. ASSUME NEW p \in lower PROVE p < FirstEvent(s)
  <2>1. p \in MetaSlots /\ MetaOffset[p] < MetaOffset[FirstEvent(s)]
    BY <1>1
  <2>2. /\ MetaOffset[p] \in Nat /\ MetaOffset[FirstEvent(s)] \in Nat
        /\ MetaLength[FirstEvent(s)] \in Nat
        /\ FirstEvent(s) < p => MetaOffset[FirstEvent(s)] + MetaLength[FirstEvent(s)] <= MetaOffset[p]
    BY <1>1, <2>1, LayoutAssumption
  <2>3. ~ (FirstEvent(s) < p) /\ p # FirstEvent(s)
    BY <2>1, <2>2
  <2> QED BY <1>1, <2>1, <2>3 DEF MetaSlots
<1>3. \A hi \in Nat : lower \cap (FirstEvent(s) .. hi - 1) = {}
  BY <1>1, <1>2 DEF MetaSlots
<1>4. \A hi \in Nat : FindIf(FirstEvent(s), hi, lower) = hi
  <2> HIDE DEF lower
  <2> QED BY <1>3 DEF FindIf
<1>5. FindIf(0, 0, lower) = 0
  <2>1. lower \cap (0 .. 0 - 1) = {}
    OBVIOUS
  <2> HIDE DEF lower
  <2> QED BY <2>1 DEF FindIf
<1>6. find_in_range(sub, MetaSize, lower) = sub.end
  <2> HIDE DEF sub, lower
  <2>1. CASE s = Multievents - 1
    <3>1. ~ (sub.begin < sub.end) /\ sub.end = 0
      BY <1>1, <2>1 DEF MetaSlots
    <3>2. FindIf(sub.begin, MetaSize, lower) = MetaSize
      BY <1>1, <1>4
    <3> QED BY <1>5, <3>1, <3>2 DEF find_in_range
  <2>2. CASE s # Multievents - 1
    <3>1. sub.begin < sub.end /\ sub.end \in Nat
      BY <1>1, <2>2 DEF MetaSlots
    <3> QED BY <1>1, <1>4, <3>1 DEF find_in_range
  <2> QED BY <2>1, <2>2
<1> QED BY <1>6 DEF checkDataWrap
-----------------------------------------------------------------------------
\* The distance between two iterators less than a turn apart.
LEMMA Distance ==
  ASSUME NEW size \in Nat \ {0}, NEW c \in 0 .. size - 1, NEW n \in 0 .. size - 1
  PROVE  /\ distance_in_range([begin |-> c, end |-> (c + n) % size], size) = n
         /\ ValidSubrange([begin |-> c, end |-> (c + n) % size], size)
<1>1. PICK a \in 0 .. 3 * size - 1 : a = c + n
  OBVIOUS
<1>2. (c + n) % size = IF c + n < size THEN c + n ELSE c + n - size
  <2>1. a % size = IF a < size THEN a ELSE IF a < 2 * size THEN a - size ELSE a - 2 * size
    BY RingRemainder
  <2> QED BY <1>1, <2>1
<1>3. PICK e \in 0 .. size - 1 : e = (c + n) % size
  BY <1>2
<1>4. (e - c) + (IF e - c < 0 THEN size ELSE 0) = n
  BY <1>2, <1>3
<1> QED BY <1>3, <1>4 DEF distance_in_range, ValidSubrange, SubRange

\* How many multievents fit.
LEMMA LentBounded ==
  ASSUME NEW n \in Nat, BulkedEvents * n < MetaSize
  PROVE  n <= 2 * Credits
<1>1. PICK b \in Nat \ {0}, m \in Nat : b = BulkedEvents /\ m = Multievents
  BY Sizes
<1>2. ~ (n >= m)
  <2> SUFFICES ASSUME n >= m PROVE FALSE
    OBVIOUS
  <2>1. n > m => b * n >= (b * m) + b
    BY MultiplesApart
  <2>2. b * n \in Nat /\ b * m \in Nat /\ b * n < b * m
    BY <1>1, Sizes
  <2> QED BY <2>1, <2>2
<1> QED BY <1>1, <1>2, Sizes

LEMMA RingTypes ==
  ASSUME RingInv
  PROVE  /\ NextSlot \in SlotNumbers /\ currentMetadata \in MetaSlots /\ currentMetadata \in Nat
         /\ generatedEvents \in Nat
         /\ iovMultievents \in Seq(LentEntry) /\ Len(iovMultievents) \in Nat
         /\ Len(iovMultievents) <= 2 * Credits
         /\ metadataBuffer \in BufferStates(MetaSize)
         /\ \A d \in 0 .. Multievents : SlotBefore(d) \in SlotNumbers
<1>1. /\ currentMetadata \in MetaSlots /\ generatedEvents \in Nat
      /\ iovMultievents \in Seq(LentEntry) /\ Len(iovMultievents) \in Nat
      /\ Len(iovMultievents) <= 2 * Credits
      /\ metadataBuffer \in BufferStates(MetaSize)
      /\ currentMetadata = FirstEvent(NextSlot)
  BY DEF RingInv, TypeOK, LentEntry, LentInRing, CursorsInRing
<1>2. currentMetadata \in Nat /\ currentMetadata < MetaSize
  BY <1>1, Sizes DEF MetaSlots
<1>3. NextSlot \in SlotNumbers
  <2>1. PICK b \in Nat \ {0}, m \in Nat : b = BulkedEvents /\ m = Multievents
    BY Sizes
  <2>2. PICK q \in Int : q = currentMetadata \div b /\ q = NextSlot
    BY <1>2, <2>1 DEF NextSlot
  <2>3. b * q \in 0 .. (b * m) - 1 /\ b * m \in Nat
    BY <1>1, <1>2, <2>1, <2>2, Sizes DEF FirstEvent
  <2>4. ~ (q < 0)
    <3>1. 0 > q => b * 0 >= (b * q) + b
      BY MultiplesApart
    <3>2. b * 0 = 0 /\ b * q \in Int
      OBVIOUS
    <3> QED BY <2>3, <3>1, <3>2
  <2>5. ~ (q >= m)
    <3>1. q > m => b * q >= (b * m) + b
      BY MultiplesApart
    <3> QED BY <2>3, <3>1
  <2> QED BY <2>1, <2>2, <2>4, <2>5 DEF SlotNumbers
<1>4. \A d \in 0 .. Multievents : SlotBefore(d) \in SlotNumbers
  <2> SUFFICES ASSUME NEW d \in 0 .. Multievents PROVE SlotBefore(d) \in SlotNumbers
    OBVIOUS
  <2>1. PICK a \in Nat : a = NextSlot + Multievents - d
    BY <1>3, Sizes DEF SlotNumbers
  <2>2. Multievents \in Nat \ {0}
    BY Sizes
  <2>3. a % Multievents \in 0 .. Multievents - 1
    BY <2>2, RingRange
  <2> QED BY <2>1, <2>3 DEF SlotBefore, SlotNumbers
<1> QED BY <1>1, <1>2, <1>3, <1>4

\* Controller::read never fails, and it generates what it counts.
LEMMA ReadEffect ==
  ASSUME RingInv, NEW n \in 0 .. MetaSize
  PROVE  /\ Read(n).ok
         /\ Read(n).events \in Nat
         /\ Read(n).current = (currentMetadata + Read(n).events) % MetaSize
         /\ Read(n).current \in MetaSlots
         /\ Read(n).buffer \in BufferStates(MetaSize)
         /\ Read(n).buffer.read = metadataBuffer.read
         /\ Read(n).buffer.write = Read(n).current
         /\ ready(Read(n).buffer, MetaSize) = Read(n).events + BulkedEvents * Len(iovMultievents)
<1> DEFINE g == IF generatedEvents < BulkedEvents THEN EventsThatFit(n) ELSE 0
           L == BulkedEvents * Len(iovMultievents)
<1>1. PICK S \in Nat \ {0} : S = MetaSize
  BY Sizes
<1>2. /\ metadataBuffer \in BufferStates(S) /\ generatedEvents \in Nat /\ currentMetadata \in Nat
      /\ controllerCurrent \in 0 .. S - 1 /\ controllerCurrent = metadataBuffer.write
      /\ controllerCurrent = (currentMetadata + generatedEvents) % S
      /\ ready(metadataBuffer, S) = generatedEvents + L
      /\ L \in Nat
  BY <1>1, RingTypes, Sizes DEF RingInv, TypeOK, MetaSlots, CursorsInRing, EventsAccountedFor
<1>3. /\ available(metadataBuffer, S) = S - ready(metadataBuffer, S)
      /\ available(metadataBuffer, S) \in 1 .. S
  BY <1>2, ReadySlots
<1>4. g \in Nat /\ g < available(metadataBuffer, S)
  BY <1>1, <1>3 DEF EventsThatFit
<1> HIDE DEF g, L
<1>5. /\ GenerateAsserts(g)
      /\ Generated(g) \in BufferStates(S)
      /\ Generated(g).read = metadataBuffer.read
      /\ Generated(g).write = (controllerCurrent + g) % S
      /\ ready(Generated(g), S) = ready(metadataBuffer, S) + g
  <2>1. CASE g = 0
    <3>1. Generated(g) = metadataBuffer /\ GenerateAsserts(g)
      BY <2>1 DEF Generated, GenerateAsserts
    <3>2. (controllerCurrent + g) % S = controllerCurrent
      BY <1>2, <2>1
    <3>3. ready(metadataBuffer, S) + g = ready(metadataBuffer, S)
      BY <1>2, <2>1
    <3> QED BY <1>2, <3>1, <3>2, <3>3
  <2>2. CASE g # 0
    <3>1. PICK h \in Nat : h = g - 1 /\ g = h + 1
      BY <1>4, <2>2
    <3>2. CanReserve(metadataBuffer, h, S)
      BY <1>3, <1>4, <3>1 DEF CanReserve
    <3>3. PICK buf \in BufferStates(S) :
            /\ buf = reserve(metadataBuffer, h, S)
            /\ buf.read = metadataBuffer.read
            /\ ready(buf, S) = ready(metadataBuffer, S) + h
      BY <1>2, <3>2, ReserveSlots
    <3>4. CanReserve(buf, 1, S)
      BY <1>2, <1>3, <1>4, <3>1, <3>3 DEF CanReserve, available
    <3>5. /\ reserve(buf, 1, S) \in BufferStates(S)
          /\ reserve(buf, 1, S).read = buf.read
          /\ ready(reserve(buf, 1, S), S) = ready(buf, S) + 1
      BY <3>4, ReserveSlots
    <3>6. reserve(buf, 1, S).write = (controllerCurrent + g) % S
      <4>1. buf.write = (controllerCurrent + h) % S
        BY <1>2, <3>3 DEF reserve, BufferStates
      <4>2. reserve(buf, 1, S).write = (buf.write + 1) % S
        BY DEF reserve, BufferStates
      <4>3. (((controllerCurrent + h) % S) + 1) % S = (controllerCurrent + h + 1) % S
        BY <1>2, RingPlus
      <4>4. controllerCurrent + h + 1 = controllerCurrent + g
        BY <1>2, <3>1
      <4> QED BY <4>1, <4>2, <4>3, <4>4
    <3>7. Generated(g) = reserve(buf, 1, S) /\ GenerateAsserts(g)
      BY <1>1, <2>2, <3>1, <3>2, <3>3, <3>4 DEF Generated, GenerateAsserts
    <3>8. ready(metadataBuffer, S) + h + 1 = ready(metadataBuffer, S) + g
      BY <1>2, <3>1
    <3> QED BY <3>3, <3>5, <3>6, <3>7, <3>8
  <2> QED BY <2>1, <2>2
<1>6. advance_in_range(controllerCurrent, g, S) = (controllerCurrent + g) % S
      /\ (controllerCurrent + g) % S \in 0 .. S - 1
  BY <1>2, <1>4, Advanced
<1> DEFINE meta == [begin |-> controllerCurrent, end |-> (controllerCurrent + g) % S]
<1>7. distance_in_range(meta, S) = g /\ ValidSubrange(meta, S)
  <2>1. g \in 0 .. S - 1
    BY <1>3, <1>4
  <2> QED BY <1>2, <2>1, Distance
<1>8. CanAdvance(controllerCurrent, S)
  BY <1>2 DEF CanAdvance
<1>9. /\ Read(n).buffer = Generated(g)
      /\ Read(n).current = (controllerCurrent + g) % S
      /\ Read(n).events = generatedEvents + g
      /\ Read(n).ok
  <2>1. Read(n) = [buffer  |-> Generated(g),
                   current |-> meta.end,
                   events  |-> generatedEvents + distance_in_range(meta, S),
                   ok      |-> /\ GenerateAsserts(g)
                               /\ CanAdvance(controllerCurrent, S)
                               /\ ValidSubrange(meta, S)]
    BY <1>1, <1>6 DEF Read, g
  <2> QED BY <1>5, <1>7, <1>8, <2>1
<1>10. (controllerCurrent + g) % S = (currentMetadata + (generatedEvents + g)) % S
  <2>1. (((currentMetadata + generatedEvents) % S) + g) % S
          = (currentMetadata + generatedEvents + g) % S
    <3>1. PICK a \in Nat : a = currentMetadata + generatedEvents
      BY <1>2
    <3>2. ((a % S) + g) % S = (a + g) % S
      BY <1>4, RingPlus
    <3> QED BY <3>1, <3>2
  <2>2. currentMetadata + generatedEvents + g = currentMetadata + (generatedEvents + g)
    BY <1>2, <1>4
  <2> QED BY <1>2, <2>1, <2>2
<1>11. ready(metadataBuffer, S) + g = (generatedEvents + g) + L
  BY <1>2, <1>4
<1> QED BY <1>1, <1>2, <1>4, <1>5, <1>6, <1>9, <1>10, <1>11 DEF L, MetaSlots

\* Different slots start, and therefore have their memory, at different places.
LEMMA SlotsApart ==
  ASSUME NEW s \in SlotNumbers, NEW t \in SlotNumbers, s # t
  PROVE  /\ IovOf(s).base \in Nat /\ IovOf(s).len \in Nat \ {0}
         /\ IovOf(s).base + IovOf(s).len <= DataSize
         /\ IovOf(s).base # IovOf(t).base
         /\ \/ IovOf(s).base + IovOf(s).len <= IovOf(t).base
            \/ IovOf(t).base + IovOf(t).len <= IovOf(s).base
<1>1. ASSUME NEW x \in SlotNumbers
      PROVE  /\ FirstEvent(x) \in MetaSlots /\ LastEvent(x) \in MetaSlots
             /\ FirstEvent(x) <= LastEvent(x) /\ FirstEvent(x) \in Nat /\ LastEvent(x) \in Nat
             /\ MetaOffset[FirstEvent(x)] \in Nat /\ MetaOffset[LastEvent(x)] \in Nat
             /\ MetaLength[FirstEvent(x)] \in Nat \ {0} /\ MetaLength[LastEvent(x)] \in Nat \ {0}
             /\ MetaOffset[FirstEvent(x)] <= MetaOffset[LastEvent(x)]
             /\ MetaOffset[LastEvent(x)] + MetaLength[LastEvent(x)] <= DataSize
             /\ IovOf(x).base = MetaOffset[FirstEvent(x)]
             /\ IovOf(x).base + IovOf(x).len = MetaOffset[LastEvent(x)] + MetaLength[LastEvent(x)]
             /\ IovOf(x).len \in Nat \ {0}
  <2>1. /\ FirstEvent(x) \in MetaSlots /\ LastEvent(x) \in MetaSlots
        /\ FirstEvent(x) \in Nat /\ LastEvent(x) \in Nat /\ FirstEvent(x) <= LastEvent(x)
    BY MetadataEnd, SlotPlaces, Sizes DEF SlotNumbers
  <2>2. /\ MetaOffset[FirstEvent(x)] \in Nat /\ MetaOffset[LastEvent(x)] \in Nat
        /\ MetaLength[FirstEvent(x)] \in Nat \ {0} /\ MetaLength[LastEvent(x)] \in Nat \ {0}
        /\ MetaOffset[LastEvent(x)] + MetaLength[LastEvent(x)] <= DataSize
        /\ FirstEvent(x) < LastEvent(x) =>
             MetaOffset[FirstEvent(x)] + MetaLength[FirstEvent(x)] <= MetaOffset[LastEvent(x)]
    BY <2>1, LayoutAssumption
  <2>3. MetaOffset[FirstEvent(x)] <= MetaOffset[LastEvent(x)]
    BY <2>1, <2>2
  <2> QED BY <2>1, <2>2, <2>3 DEF IovOf
<1>2. ASSUME NEW x \in SlotNumbers, NEW y \in SlotNumbers, x < y
      PROVE  IovOf(x).base + IovOf(x).len <= IovOf(y).base
  <2>1. LastEvent(x) < FirstEvent(y)
    <3>1. /\ LastEvent(x) = FirstEvent(x) + BulkedEvents - 1
          /\ FirstEvent(y) >= FirstEvent(x) + BulkedEvents
      BY <1>2, SlotPlaces, Sizes DEF SlotNumbers
    <3> QED BY <1>1, <3>1, Sizes
  <2>2. MetaOffset[LastEvent(x)] + MetaLength[LastEvent(x)] <= MetaOffset[FirstEvent(y)]
    BY <1>1, <2>1, LayoutAssumption
  <2> QED BY <1>1, <2>2
<1>3. s < t \/ t < s
  BY Sizes DEF SlotNumbers
<1>4. CASE s < t
  <2>1. IovOf(s).base + IovOf(s).len <= IovOf(t).base
    BY <1>2, <1>4
  <2>2. /\ IovOf(s).base \in Nat /\ IovOf(s).len \in Nat \ {0} /\ IovOf(t).base \in Nat
        /\ IovOf(s).base + IovOf(s).len <= DataSize
    BY <1>1
  <2> QED BY <2>1, <2>2
<1>5. CASE t < s
  <2>1. IovOf(t).base + IovOf(t).len <= IovOf(s).base
    BY <1>2, <1>5
  <2>2. /\ IovOf(s).base \in Nat /\ IovOf(s).len \in Nat \ {0} /\ IovOf(t).base \in Nat
        /\ IovOf(t).len \in Nat \ {0}
        /\ IovOf(s).base + IovOf(s).len <= DataSize
    BY <1>1
  <2> QED BY <2>1, <2>2
<1> QED BY <1>3, <1>4, <1>5

\* The slots before the next one are different from each other.
LEMMA SlotsBeforeDiffer ==
  ASSUME RingInv, NEW d \in 1 .. 2 * Credits, NEW e \in 1 .. 2 * Credits, d # e
  PROVE  SlotBefore(d) # SlotBefore(e)
<1>1. PICK m \in Nat \ {0}, c \in Nat : m = Multievents /\ c = NextSlot /\ m = 2 * Credits + 1 /\ c < m
  <2>1. NextSlot \in SlotNumbers
    BY RingTypes
  <2> QED BY <2>1, Sizes DEF SlotNumbers
<1>2. d \in 1 .. m - 1 /\ e \in 1 .. m - 1
  BY <1>1, Sizes
<1>3. ASSUME NEW x \in 1 .. m - 1
      PROVE  (c + m - x) % m = IF c < x THEN c + m - x ELSE c - x
  <2>1. PICK a \in 0 .. 3 * m - 1 : a = c + m - x
    BY <1>1
  <2>2. a % m = IF a < m THEN a ELSE IF a < 2 * m THEN a - m ELSE a - 2 * m
    BY RingRemainder
  <2> QED BY <1>1, <2>1, <2>2
<1>4. (c + m - d) % m # (c + m - e) % m
  BY <1>1, <1>2, <1>3
<1> QED BY <1>1, <1>4 DEF SlotBefore

\* An address stands for one multievent that is lent.
LEMMA LentOnce ==
  ASSUME RingInv
  PROVE  /\ \A p \in 1 .. Len(iovMultievents) :
              /\ SlotBefore(Len(iovMultievents) + 1 - p) \in SlotNumbers
              /\ iovMultievents[p] \in LentEntry
         /\ \A p, q \in 1 .. Len(iovMultievents) :
              p # q => /\ SlotBefore(Len(iovMultievents) + 1 - p) # SlotBefore(Len(iovMultievents) + 1 - q)
                       /\ iovMultievents[p].base # iovMultievents[q].base
         /\ \A p \in 1 .. Len(iovMultievents) : IsFirstAt(iovMultievents, p)
<1>1. PICK L \in Nat : L = Len(iovMultievents) /\ L <= 2 * Credits /\ iovMultievents \in Seq(LentEntry)
  BY RingTypes
<1>2. \A p \in 1 .. L : L + 1 - p \in 1 .. 2 * Credits
  BY <1>1, Sizes
<1>3. \A p \in 1 .. L : SlotBefore(L + 1 - p) \in SlotNumbers /\ iovMultievents[p] \in LentEntry
  <2>1. \A p \in 1 .. L : L + 1 - p \in 0 .. Multievents
    BY <1>1, <1>2, Sizes
  <2> QED BY <1>1, <2>1, RingTypes
<1>4. ASSUME NEW p \in 1 .. L, NEW q \in 1 .. L, p # q
      PROVE  /\ SlotBefore(L + 1 - p) # SlotBefore(L + 1 - q)
             /\ iovMultievents[p].base # iovMultievents[q].base
  <2>1. L + 1 - p # L + 1 - q
    BY <1>1, <1>4
  <2>2. SlotBefore(L + 1 - p) # SlotBefore(L + 1 - q)
    BY <1>2, <2>1, SlotsBeforeDiffer
  <2>3. IovOf(SlotBefore(L + 1 - p)).base # IovOf(SlotBefore(L + 1 - q)).base
    BY <1>3, <2>2, SlotsApart
  <2> QED BY <1>1, <2>2, <2>3 DEF RingInv, LentInRing
<1>5. \A p \in 1 .. L : IsFirstAt(iovMultievents, p)
  BY <1>1, <1>4 DEF IsFirstAt
<1> QED BY <1>1, <1>3, <1>4, <1>5

LEMMA InitRingInv == Init => RingInv
<1> SUFFICES ASSUME Init PROVE RingInv
  OBVIOUS
<1>1. FirstEvent(0) = 0 /\ 0 \div BulkedEvents = 0
  <2>1. FirstEvent(0) = 0
    BY Sizes DEF FirstEvent
  <2> QED BY <2>1, SlotNumber
<1>2. NextSlot = 0 /\ iovMultievents = <<>> /\ Len(iovMultievents) = 0
  BY <1>1 DEF Init, NextSlot
<1>3. SlotBefore(0) = 0
  <2>1. PICK m \in Nat \ {0} : m = Multievents
    BY Sizes
  <2>2. (0 + m - 0) % m = 0
    BY RingTurn
  <2> QED BY <1>2, <2>1, <2>2 DEF SlotBefore
<1>4. EmptyBuffer \in BufferStates(MetaSize) /\ 0 \in MetaSlots /\ 0 \in 0 .. MetaSize
  BY Sizes DEF EmptyBuffer, BufferStates, MetaSlots
<1>5. TypeOK
  <2>1. iovMultievents \in Seq([base : Nat, len : Nat, done : BOOLEAN])
    BY <1>2
  <2> QED BY <1>4, <2>1 DEF Init, TypeOK
<1>6. CursorsInRing
  <2>1. (0 + 0) % MetaSize = 0
    BY Sizes
  <2> QED BY <1>1, <1>2, <1>3, <2>1 DEF Init, CursorsInRing, EmptyBuffer
<1>7. LentInRing /\ FrontInUse
  BY <1>2, Sizes DEF LentInRing, FrontInUse
<1>8. EventsAccountedFor
  <2>1. ready(EmptyBuffer, MetaSize) = 0
    BY <1>4, Sizes, ReadySlots DEF EmptyBuffer
  <2>2. 0 + BulkedEvents * 0 = 0
    BY Sizes
  <2> QED BY <1>2, <2>1, <2>2 DEF Init, EventsAccountedFor
<1> QED BY <1>5, <1>6, <1>7, <1>8 DEF RingInv, Init, NoAssertFails

\* A call that lends nothing may still generate events.
LEMMA NoMultieventKeeps ==
  ASSUME RingInv, NEW n \in 0 .. MetaSize, NoMultievent(n)
  PROVE  RingInv'
<1>1. /\ metadataBuffer' = Read(n).buffer /\ controllerCurrent' = Read(n).current
      /\ generatedEvents' = Read(n).events /\ aborted' = ~Read(n).ok
      /\ Read(n).events < BulkedEvents
      /\ currentMetadata' = currentMetadata /\ iovMultievents' = iovMultievents
      /\ releaseMetadata' = releaseMetadata
  BY DEF NoMultievent
<1>2. /\ NextSlot' = NextSlot /\ \A d : SlotBefore(d)' = SlotBefore(d)
  BY <1>1 DEF NextSlot, SlotBefore
<1>3. TypeOK'
  <2>1. generatedEvents' \in 0 .. MetaSize
    <3>1. PICK e \in Nat, b \in Nat, S \in Nat :
            /\ e = generatedEvents' /\ b = BulkedEvents /\ S = MetaSize
            /\ e < b /\ S >= b + b + b
      BY <1>1, ReadEffect, Sizes
    <3> QED BY <3>1
  <2> QED BY <1>1, <2>1, ReadEffect DEF RingInv, TypeOK
<1>4. CursorsInRing'
  BY <1>1, <1>2, ReadEffect DEF RingInv, CursorsInRing
<1>5. LentInRing' /\ FrontInUse'
  BY <1>1, <1>2 DEF RingInv, LentInRing, FrontInUse
<1>6. EventsAccountedFor' /\ NoAssertFails'
  BY <1>1, ReadEffect DEF EventsAccountedFor, NoAssertFails
<1> QED BY <1>3, <1>4, <1>5, <1>6 DEF RingInv

\* The slot d slots before the next one is the slot d + 1 slots before the one
\* after that.
LEMMA SlotBeforeLent ==
  ASSUME RingInv, currentMetadata' = FirstEvent((NextSlot + 1) % Multievents)
  PROVE  /\ NextSlot' = (NextSlot + 1) % Multievents
         /\ SlotBefore(1)' = NextSlot
         /\ \A d \in 0 .. 2 * Credits - 1 : SlotBefore(d + 1)' = SlotBefore(d)
<1>1. PICK m \in Nat \ {0}, c \in Nat : m = Multievents /\ c = NextSlot /\ m = 2 * Credits + 1 /\ c < m
  <2>1. NextSlot \in SlotNumbers
    BY RingTypes
  <2> QED BY <2>1, Sizes DEF SlotNumbers
<1>2. NextSlot' = (c + 1) % m
  <2>1. (c + 1) % m \in Nat
    <3>1. PICK a \in Nat : a = c + 1
      OBVIOUS
    <3>2. a % m \in 0 .. m - 1
      BY RingRange
    <3> QED BY <3>1, <3>2
  <2>2. FirstEvent((c + 1) % m) \div BulkedEvents = (c + 1) % m
    BY <2>1, SlotNumber
  <2> QED BY <1>1, <2>2 DEF NextSlot
<1>3. ASSUME NEW e \in 1 .. m - 1
      PROVE  (((c + 1) % m) + m - e) % m = (c + 1 + m - e) % m
  <2>1. c \in 0 .. m - 1 /\ 1 \in 0 .. m - 1 /\ m \in Nat \ {0}
    BY <1>1, Sizes
  <2> QED BY <2>1, RingShift
<1>4. SlotBefore(1)' = NextSlot
  <2>1. 1 \in 1 .. m - 1 /\ c + 1 + m - 1 = c + m
    BY <1>1, Sizes
  <2>2. (c + m) % m = c
    <3>1. c \in 0 .. 2 * m - 1 /\ c % m = c
      BY <1>1
    <3> QED BY <3>1, RingTurn
  <2> QED BY <1>1, <1>2, <1>3, <2>1, <2>2 DEF SlotBefore
<1>5. ASSUME NEW d \in 0 .. 2 * Credits - 1
      PROVE  SlotBefore(d + 1)' = SlotBefore(d)
  <2>1. d + 1 \in 1 .. m - 1 /\ c + 1 + m - (d + 1) = c + m - d
    BY <1>1, Sizes
  <2>2. (((c + 1) % m) + m - (d + 1)) % m = (c + m - d) % m
    BY <1>3, <2>1
  <2> QED BY <1>1, <1>2, <2>2 DEF SlotBefore
<1> QED BY <1>1, <1>2, <1>4, <1>5

\* What a call that lends a multievent does.
LEMMA GetEffect ==
  ASSUME RingInv, NEW n \in 0 .. MetaSize, GetMultievent(n)
  PROVE  /\ metadataBuffer' = Read(n).buffer /\ controllerCurrent' = Read(n).current
         /\ generatedEvents' = Read(n).events - BulkedEvents /\ generatedEvents' \in Nat
         /\ currentMetadata' = FirstEvent((NextSlot + 1) % Multievents)
         /\ iovMultievents' = Append(iovMultievents, Lent(IovOf(NextSlot)))
         /\ Lent(IovOf(NextSlot)) \in LentEntry
         /\ Len(iovMultievents') = Len(iovMultievents) + 1
         /\ BulkedEvents * (Len(iovMultievents) + 1) = BulkedEvents * Len(iovMultievents) + BulkedEvents
         /\ Len(iovMultievents) + 1 <= 2 * Credits
         /\ releaseMetadata' = releaseMetadata
         /\ ~aborted'
<1>1. /\ NextSlot \in SlotNumbers /\ currentMetadata = FirstEvent(NextSlot)
      /\ iovMultievents \in Seq(LentEntry)
  BY RingTypes DEF RingInv, CursorsInRing
<1>2. PICK L \in Nat, e \in Nat, b \in Nat \ {0} :
        L = Len(iovMultievents) /\ e = Read(n).events /\ b = BulkedEvents /\ e >= b
  BY ReadEffect, RingTypes, Sizes DEF GetMultievent
<1>3. generatedEvents' = e - b /\ e - b \in Nat
  BY <1>2 DEF GetMultievent
<1>4. MultieventMetadata(currentMetadata).end = FirstEvent((NextSlot + 1) % Multievents)
  BY <1>1, MetadataEnd
<1>5. MultieventIov(MultieventMetadata(currentMetadata)) = IovOf(NextSlot)
  BY <1>1, IovOfSlot
<1>6. ~checkDataWrap(MultieventMetadata(currentMetadata)) /\ CanAdvance(currentMetadata, MetaSize)
  BY <1>1, NeverWraps, MetadataEnd DEF CanAdvance, MetaSlots
<1>7. Lent(IovOf(NextSlot)) \in LentEntry
  <2>1. PICK t \in SlotNumbers : t # NextSlot
    <3>1. 0 \in SlotNumbers /\ 1 \in SlotNumbers
      BY Sizes DEF SlotNumbers
    <3> QED BY <3>1
  <2>2. IovOf(NextSlot).base \in Nat /\ IovOf(NextSlot).len \in Nat
    BY <1>1, <2>1, SlotsApart
  <2> QED BY <2>2 DEF Lent, LentEntry
<1>8. iovMultievents' = Append(iovMultievents, Lent(IovOf(NextSlot)))
  BY <1>5 DEF GetMultievent
<1>9. Len(iovMultievents') = L + 1
  BY <1>1, <1>2, <1>7, <1>8, SeqAppend
<1>10. b * (L + 1) = b * L + b /\ L + 1 <= 2 * Credits
  <2>1. b * (L + 1) = b * L + b /\ b * L \in Nat
    OBVIOUS
  <2>2. /\ ready(Read(n).buffer, MetaSize) = e + b * L
        /\ ready(Read(n).buffer, MetaSize) \in 0 .. MetaSize - 1
    BY <1>2, ReadEffect, ReadySlots, Sizes
  <2>3. b * (L + 1) < MetaSize
    BY <1>2, <2>1, <2>2, Sizes
  <2> QED BY <1>2, <2>1, <2>3, LentBounded
<1>11. ~aborted'
  BY <1>6, ReadEffect DEF GetMultievent
<1> QED BY <1>2, <1>3, <1>4, <1>7, <1>8, <1>9, <1>10, <1>11 DEF GetMultievent

LEMMA GetMultieventKeeps ==
  ASSUME RingInv, NEW n \in 0 .. MetaSize, GetMultievent(n)
  PROVE  RingInv'
<1>1. PICK L \in Nat, e \in Nat, b \in Nat \ {0} :
        /\ L = Len(iovMultievents) /\ e = Read(n).events /\ b = BulkedEvents
        /\ Len(iovMultievents') = L + 1 /\ L + 1 <= 2 * Credits
        /\ generatedEvents' = e - b /\ e - b \in Nat
        /\ iovMultievents \in Seq(LentEntry) /\ b * (L + 1) = b * L + b
  <2>1. PICK L \in Nat, e \in Nat, b \in Nat \ {0} :
          L = Len(iovMultievents) /\ e = Read(n).events /\ b = BulkedEvents
    BY ReadEffect, RingTypes, Sizes
  <2>2. Len(iovMultievents') = L + 1 /\ L + 1 <= 2 * Credits
    BY <2>1, GetEffect
  <2>3. generatedEvents' = e - b /\ e - b \in Nat /\ b * (L + 1) = b * L + b
    BY <2>1, GetEffect
  <2> QED BY <2>1, <2>2, <2>3, RingTypes
<1>2. /\ NextSlot' = (NextSlot + 1) % Multievents
      /\ SlotBefore(1)' = NextSlot
      /\ \A d \in 0 .. 2 * Credits - 1 : SlotBefore(d + 1)' = SlotBefore(d)
  BY GetEffect, SlotBeforeLent
<1>3. /\ iovMultievents' \in Seq(LentEntry)
      /\ \A p \in 1 .. L + 1 :
           iovMultievents'[p] = IF p <= L THEN iovMultievents[p] ELSE Lent(IovOf(NextSlot))
  <2>1. PICK entry \in LentEntry :
          entry = Lent(IovOf(NextSlot)) /\ iovMultievents' = Append(iovMultievents, entry)
    BY GetEffect
  <2>2. /\ Append(iovMultievents, entry) \in Seq(LentEntry)
        /\ \A p \in 1 .. Len(iovMultievents) + 1 :
             Append(iovMultievents, entry)[p]
               = IF p <= Len(iovMultievents) THEN iovMultievents[p] ELSE entry
    BY <1>1, SeqAppend
  <2> QED BY <1>1, <2>1, <2>2
<1>4. NextSlot \in SlotNumbers /\ NextSlot' \in SlotNumbers
  <2>1. NextSlot \in SlotNumbers /\ 1 \in 0 .. Multievents
    BY RingTypes, Sizes
  <2> QED BY <1>2, <2>1, SlotsOn
<1>5. TypeOK'
  <2>1. currentMetadata' \in MetaSlots
    BY <1>2, <1>4, GetEffect, MetadataEnd
  <2>2. generatedEvents' \in 0 .. MetaSize
    <3>1. /\ ready(Read(n).buffer, MetaSize) = e + b * L /\ b * L \in Nat
          /\ ready(Read(n).buffer, MetaSize) \in 0 .. MetaSize - 1
      BY <1>1, ReadEffect, ReadySlots, Sizes
    <3> QED BY <1>1, <3>1, Sizes
  <2>3. aborted' \in BOOLEAN
    BY GetEffect DEF GetMultievent
  <2> QED BY <1>3, <2>1, <2>2, <2>3, GetEffect, ReadEffect DEF RingInv, TypeOK, LentEntry
<1>6. CursorsInRing'
  <2>1. currentMetadata' = FirstEvent(NextSlot')
    BY <1>2, GetEffect
  <2>2. controllerCurrent' = (currentMetadata' + generatedEvents') % MetaSize
    <3>1. PICK c \in Nat, S \in Nat \ {0} : c = currentMetadata /\ S = MetaSize
      BY RingTypes, Sizes
    <3>2. currentMetadata' = (c + b) % S
      <4>1. b * 1 = b /\ 1 \in 0 .. Multievents
        BY Sizes
      <4> QED BY <1>1, <1>4, <3>1, <4>1, SlotsOn, GetEffect DEF RingInv, CursorsInRing
    <3>3. (((c + b) % S) + (e - b)) % S = (c + b + (e - b)) % S
      <4>1. PICK a \in Nat : a = c + b
        OBVIOUS
      <4>2. ((a % S) + (e - b)) % S = (a + (e - b)) % S
        <5>1. PICK f \in Nat : f = e - b
          BY <1>1
        <5>2. ((a % S) + f) % S = (a + f) % S
          BY RingPlus
        <5> QED BY <5>1, <5>2
      <4> QED BY <4>1, <4>2
    <3>4. c + b + (e - b) = c + e
      OBVIOUS
    <3>5. controllerCurrent' = (c + e) % S
      BY <1>1, <3>1, GetEffect, ReadEffect
    <3> QED BY <1>1, <3>1, <3>2, <3>3, <3>4, <3>5
  <2>3. SlotBefore(L + 1)' = SlotBefore(L)
    <3>1. L \in 0 .. 2 * Credits - 1
      BY <1>1, Sizes
    <3> QED BY <1>2, <3>1
  <2>4. releaseMetadata' = FirstEvent(SlotBefore(Len(iovMultievents))')
    <3>1. releaseMetadata = FirstEvent(SlotBefore(L))
      BY <1>1 DEF RingInv, CursorsInRing
    <3>2. SlotBefore(Len(iovMultievents))' = SlotBefore(L + 1)'
      BY <1>1 DEF SlotBefore
    <3> QED BY <2>3, <3>1, <3>2, GetEffect
  <2>5. controllerCurrent' = metadataBuffer.write' /\ releaseMetadata' = metadataBuffer.read'
    BY GetEffect, ReadEffect DEF RingInv, CursorsInRing
  <2> QED BY <2>1, <2>2, <2>4, <2>5 DEF CursorsInRing
<1>7. LentInRing'
  <2> SUFFICES ASSUME NEW p \in 1 .. L + 1
               PROVE  /\ iovMultievents'[p].base = IovOf(SlotBefore(L + 2 - p)').base
                      /\ iovMultievents'[p].len = IovOf(SlotBefore(L + 2 - p)').len
    <3>1. \A p \in 1 .. L + 1 : SlotBefore(Len(iovMultievents) + 1 - p)' = SlotBefore(L + 2 - p)'
      <4>1. \A p \in 1 .. L + 1 : L + 1 + 1 - p = L + 2 - p
        BY <1>1
      <4> QED BY <1>1, <4>1 DEF SlotBefore
    <3>2. Len(iovMultievents') = L + 1 /\ L + 1 <= 2 * Credits
      BY <1>1
    <3> QED BY <3>1, <3>2 DEF LentInRing, IovOf
  <2>1. CASE p <= L
    <3>1. L + 1 - p \in 0 .. 2 * Credits - 1 /\ (L + 1 - p) + 1 = L + 2 - p /\ p \in 1 .. L
      BY <1>1, <2>1, Sizes
    <3>2. SlotBefore(L + 2 - p)' = SlotBefore(L + 1 - p)
      BY <1>2, <3>1
    <3>3. /\ iovMultievents[p].base = IovOf(SlotBefore(L + 1 - p)).base
          /\ iovMultievents[p].len = IovOf(SlotBefore(L + 1 - p)).len
      BY <1>1, <3>1 DEF RingInv, LentInRing
    <3> QED BY <1>3, <2>1, <3>2, <3>3
  <2>2. CASE ~(p <= L)
    <3>1. p = L + 1 /\ L + 2 - p = 1
      BY <1>1, <2>2
    <3>2. iovMultievents'[p] = Lent(IovOf(NextSlot))
      BY <1>3, <2>2
    <3> QED BY <1>2, <3>1, <3>2 DEF Lent
  <2> QED BY <2>1, <2>2
<1>8. FrontInUse'
  <2>1. 1 \in 1 .. L + 1 /\ (L = 0 \/ 1 <= L)
    BY <1>1
  <2>2. CASE 1 <= L
    BY <1>1, <1>3, <2>1, <2>2 DEF RingInv, FrontInUse
  <2>3. CASE L = 0
    BY <1>1, <1>3, <2>1, <2>3 DEF FrontInUse, Lent
  <2> QED BY <2>1, <2>2, <2>3
<1>9. EventsAccountedFor'
  <2>1. ready(Read(n).buffer, MetaSize) = e + b * L /\ b * L \in Nat
    <3>1. b * L \in Nat
      OBVIOUS
    <3> QED BY <1>1, <3>1, ReadEffect
  <2>2. e + b * L = (e - b) + b * (L + 1)
    BY <1>1, <2>1
  <2> QED BY <1>1, <2>1, <2>2, GetEffect DEF EventsAccountedFor
<1> QED BY <1>5, <1>6, <1>7, <1>8, <1>9, GetEffect DEF RingInv, NoAssertFails

\* What a call that gives multievents back does.
LEMMA ReleaseEffect ==
  ASSUME RingInv, NEW bases \in SUBSET Pending(iovMultievents), ReleaseMultievents(bases)
  PROVE  /\ Mark(iovMultievents, bases) \in Seq(LentEntry)
         /\ Len(Mark(iovMultievents, bases)) = Len(iovMultievents)
         /\ \A p \in 1 .. Len(iovMultievents) :
              /\ Mark(iovMultievents, bases)[p].base = iovMultievents[p].base
              /\ Mark(iovMultievents, bases)[p].len = iovMultievents[p].len
              /\ Mark(iovMultievents, bases)[p].done
                   = (iovMultievents[p].done \/ iovMultievents[p].base \in bases)
         /\ CanMark(iovMultievents, bases)
         /\ iovMultievents' = DropReleased(Mark(iovMultievents, bases))
         /\ UNCHANGED <<controllerCurrent, currentMetadata, generatedEvents>>
<1>1. iovMultievents \in Seq(LentEntry) /\ DOMAIN iovMultievents = 1 .. Len(iovMultievents)
  BY RingTypes
<1>2. Markable(LentEntry)
  BY DEF Markable, LentEntry
<1>3. \A p \in 1 .. Len(iovMultievents) : IsFirstAt(iovMultievents, p) /\ iovMultievents[p] \in LentEntry
  BY LentOnce
<1>4. /\ Mark(iovMultievents, bases) \in Seq(LentEntry)
      /\ Len(Mark(iovMultievents, bases)) = Len(iovMultievents)
      /\ \A p \in 1 .. Len(iovMultievents) :
           /\ Mark(iovMultievents, bases)[p]
                \in {iovMultievents[p], [iovMultievents[p] EXCEPT !.done = TRUE]}
           /\ Mark(iovMultievents, bases)[p].base = iovMultievents[p].base
           /\ Mark(iovMultievents, bases)[p].done
                = (iovMultievents[p].done
                     \/ (iovMultievents[p].base \in bases /\ IsFirstAt(iovMultievents, p)))
  BY <1>1, <1>2, MarkEach
<1>5. \A p \in 1 .. Len(iovMultievents) : Mark(iovMultievents, bases)[p].len = iovMultievents[p].len
  <2> SUFFICES ASSUME NEW p \in 1 .. Len(iovMultievents)
               PROVE  Mark(iovMultievents, bases)[p].len = iovMultievents[p].len
    OBVIOUS
  <2>1. PICK entry \in LentEntry :
          /\ entry = iovMultievents[p]
          /\ Mark(iovMultievents, bases)[p] \in {entry, [entry EXCEPT !.done = TRUE]}
    BY <1>3, <1>4
  <2>2. [entry EXCEPT !.done = TRUE].len = entry.len
    BY DEF LentEntry
  <2> QED BY <2>1, <2>2
<1>6. CanMark(iovMultievents, bases)
  BY <1>1, <1>3 DEF CanMark, Pending
<1> QED BY <1>3, <1>4, <1>5, <1>6 DEF ReleaseMultievents

\* releaseContiguousMemory never fails: it gives back the events of the
\* multievents that leave the deque.
LEMMA ReleasedEvents ==
  ASSUME RingInv, NEW bases \in SUBSET Pending(iovMultievents), ReleaseMultievents(bases),
         NEW k, k = ReleasableCount(Mark(iovMultievents, bases))
  PROVE  /\ k \in 0 .. Len(iovMultievents)
         /\ ~aborted'
         /\ metadataBuffer' \in BufferStates(MetaSize)
         /\ metadataBuffer'.write = metadataBuffer.write
         /\ ready(metadataBuffer', MetaSize)
              = generatedEvents + BulkedEvents * (Len(iovMultievents) - k)
         /\ releaseMetadata' = metadataBuffer'.read
         /\ releaseMetadata' = FirstEvent(SlotBefore(Len(iovMultievents) - k))
<1> DEFINE marked == Mark(iovMultievents, bases)
           L == Len(iovMultievents)
<1>1. PICK S \in Nat \ {0}, b \in Nat \ {0}, m \in Nat \ {0} :
        S = MetaSize /\ b = BulkedEvents /\ m = Multievents /\ S = b * m /\ m = 2 * Credits + 1
  BY Sizes
<1>2. /\ L \in Nat /\ L <= 2 * Credits /\ L < m /\ k \in 0 .. L /\ k \in Nat /\ L - k \in Nat
  <2>1. L \in Nat /\ L <= 2 * Credits
    BY RingTypes
  <2>2. k \in 0 .. Len(marked) /\ Len(marked) = L
    BY ReleaseEffect, CountExact
  <2> HIDE DEF marked, L
  <2> QED BY <1>1, <2>1, <2>2, Sizes
<1>3. b * k \in Nat /\ b * k <= b * L /\ b * L < S /\ b * L \in Nat
      /\ b * (L - k) = b * L - b * k
  <2> HIDE DEF marked, L
  <2>1. PICK d \in Nat, l \in Nat, h \in Nat : d = L - k /\ l = L /\ h = k /\ l = h + d /\ l < m
    BY <1>2
  <2>2. b * (h + d) = b * h + b * d /\ b * h \in Nat /\ b * d \in Nat
    OBVIOUS
  <2>3. b * m >= (b * l) + b
    BY <2>1, MultiplesApart
  <2>4. PICK x \in Nat, y \in Nat : x = b * h /\ y = b * d /\ b * l = x + y
    BY <2>1, <2>2
  <2>5. x \in Nat /\ x <= b * l /\ b * l < S /\ b * l \in Nat /\ y = b * l - x
    BY <1>1, <2>3, <2>4
  <2> QED BY <2>1, <2>4, <2>5
<1>4. /\ metadataBuffer \in BufferStates(S)
      /\ ready(metadataBuffer, S) = generatedEvents + b * L
      /\ generatedEvents \in Nat /\ releaseMetadata \in 0 .. S - 1 /\ releaseMetadata \in Nat
      /\ releaseMetadata = metadataBuffer.read
      /\ releaseMetadata = FirstEvent(SlotBefore(L))
  BY <1>1, RingTypes DEF RingInv, TypeOK, MetaSlots, CursorsInRing, EventsAccountedFor
<1> HIDE DEF marked, L
<1>5. (releaseMetadata + b * k) % S = FirstEvent(SlotBefore(L - k))
  <2>1. SlotBefore(L) \in SlotNumbers /\ NextSlot \in SlotNumbers
    <3>1. L \in 0 .. Multievents
      BY <1>1, <1>2
    <3> QED BY <3>1, RingTypes
  <2>2. k \in 0 .. Multievents
    BY <1>1, <1>2
  <2>3. (FirstEvent(SlotBefore(L)) + BulkedEvents * k) % MetaSize
          = FirstEvent((SlotBefore(L) + k) % Multievents)
    BY <2>1, <2>2, SlotsOn
  <2>4. (SlotBefore(L) + k) % m = SlotBefore(L - k)
    <3>1. PICK c \in Nat, a \in Nat : c = NextSlot /\ a = c + m - L
      BY <1>1, <1>2, <2>1 DEF SlotNumbers
    <3>2. ((a % m) + k) % m = (a + k) % m
      BY <1>2, RingPlus
    <3>3. a + k = c + m - (L - k)
      BY <1>2, <3>1
    <3> QED BY <1>1, <3>1, <3>2, <3>3 DEF SlotBefore
  <2> QED BY <1>1, <1>4, <2>3, <2>4
<1> DEFINE meta == [begin |-> releaseMetadata,
                    end   |-> advance_in_range(releaseMetadata, b * k, S)]
<1>6. meta = [begin |-> releaseMetadata, end |-> (releaseMetadata + b * k) % S]
      /\ (releaseMetadata + b * k) % S \in 0 .. S - 1
  BY <1>3, <1>4, Advanced
<1>7. distance_in_range(meta, S) = b * k /\ ValidSubrange(meta, S)
  <2>1. PICK n \in 0 .. S - 1 : n = b * k
    BY <1>3
  <2> HIDE DEF meta
  <2> QED BY <1>4, <1>6, <2>1, Distance
<1>8. CanAdvance(releaseMetadata, S)
  BY <1>4 DEF CanAdvance
<1> HIDE DEF meta
<1>9. CASE k = 0
  <2>1. metadataBuffer' = metadataBuffer /\ releaseMetadata' = releaseMetadata /\ ~aborted'
    BY <1>9, ReleaseEffect DEF ReleaseMultievents
  <2>2. L - k = L
    BY <1>2, <1>9
  <2> QED BY <1>1, <1>2, <1>4, <2>1, <2>2 DEF L
<1>10. CASE k # 0
  <2>1. b * k \in Nat \ {0} /\ b * k > 0
    <3>1. k > 0 /\ k \in Int
      BY <1>2, <1>10
    <3>2. b * k >= b * 0 + b /\ b * 0 = 0
      BY <3>1, MultiplesApart
    <3> QED BY <1>3, <3>2
  <2>2. PICK n \in Nat \ {0}, h \in Nat : n = b * k /\ n = h + 1 /\ h = n - 1
    BY <2>1
  <2>3. CanRelease(metadataBuffer, n, S) /\ CanRelease(metadataBuffer, h, S)
    BY <1>3, <1>4, <2>2 DEF CanRelease
  <2>4. PICK buf \in BufferStates(S) :
          /\ buf = release(metadataBuffer, h, S)
          /\ buf.write = metadataBuffer.write
          /\ ready(buf, S) = ready(metadataBuffer, S) - h
    BY <1>4, <2>2, <2>3, ReleaseSlots
  <2>5. CanRelease(buf, 1, S)
    BY <1>3, <1>4, <2>2, <2>4 DEF CanRelease
  <2>6. /\ release(buf, 1, S) \in BufferStates(S)
        /\ release(buf, 1, S).write = buf.write
        /\ ready(release(buf, 1, S), S) = ready(buf, S) - 1
    BY <2>5, ReleaseSlots
  <2>7. release(buf, 1, S).read = (releaseMetadata + n) % S
    <3>1. buf.read = (releaseMetadata + h) % S
      BY <1>4, <2>4 DEF release, BufferStates
    <3>2. release(buf, 1, S).read = (buf.read + 1) % S
      BY DEF release, BufferStates
    <3>3. PICK r \in Nat : r = releaseMetadata
      BY <1>4
    <3>4. (((r + h) % S) + 1) % S = (r + h + 1) % S
      <4>1. PICK a \in Nat : a = r + h
        BY <2>2
      <4>2. ((a % S) + 1) % S = (a + 1) % S
        BY RingPlus
      <4> QED BY <4>1, <4>2
    <3>5. r + h + 1 = r + n
      BY <2>2
    <3> QED BY <3>1, <3>2, <3>3, <3>4, <3>5
  <2>8. ReleaseEvents(n) = release(buf, 1, S) /\ ReleaseAsserts(n)
    BY <1>1, <2>2, <2>3, <2>4, <2>5 DEF ReleaseEvents, ReleaseAsserts
  <2>9. meta = [begin |-> releaseMetadata,
                end   |-> advance_in_range(releaseMetadata, BulkedEvents * k, MetaSize)]
    BY <1>1 DEF meta
  <2>10. /\ metadataBuffer' = ReleaseEvents(distance_in_range(meta, MetaSize))
         /\ releaseMetadata' = meta.end
         /\ aborted' = ~(/\ CanMark(iovMultievents, bases)
                         /\ k # 0 => /\ CanAdvance(releaseMetadata, MetaSize)
                                     /\ ValidSubrange(meta, MetaSize)
                                     /\ ReleaseAsserts(distance_in_range(meta, MetaSize)))
    BY <1>10, <2>9 DEF ReleaseMultievents
  <2>11. metadataBuffer' = release(buf, 1, S) /\ releaseMetadata' = (releaseMetadata + n) % S
         /\ ~aborted'
    <3>1. distance_in_range(meta, MetaSize) = n /\ ValidSubrange(meta, MetaSize)
      BY <1>1, <1>7, <2>2
    <3>2. ReleaseAsserts(distance_in_range(meta, MetaSize)) /\ CanAdvance(releaseMetadata, MetaSize)
      BY <1>1, <1>8, <2>8, <3>1
    <3>3. meta.end = (releaseMetadata + n) % S
      BY <1>6, <2>2
    <3>4. CanMark(iovMultievents, bases)
      BY ReleaseEffect
    <3>5. ~aborted'
      BY <2>10, <3>1, <3>2, <3>4
    <3> QED BY <2>8, <2>10, <3>1, <3>3, <3>5
  <2>12. ready(metadataBuffer', S) = generatedEvents + b * (L - k)
    BY <1>3, <1>4, <2>2, <2>4, <2>6, <2>11
  <2> QED BY <1>1, <1>2, <1>5, <2>2, <2>4, <2>6, <2>7, <2>11, <2>12 DEF L
<1> QED BY <1>9, <1>10

LEMMA ReleaseMultieventsKeeps ==
  ASSUME RingInv, NEW bases \in SUBSET Pending(iovMultievents), ReleaseMultievents(bases)
  PROVE  RingInv'
<1> DEFINE marked == Mark(iovMultievents, bases)
<1>1. PICK k \in Nat, L \in Nat :
        /\ k = ReleasableCount(marked) /\ L = Len(iovMultievents) /\ k <= L /\ L <= 2 * Credits
  <2>1. ReleasableCount(marked) \in 0 .. Len(marked) /\ Len(marked) = Len(iovMultievents)
    BY ReleaseEffect, CountExact
  <2> QED BY <2>1, RingTypes
<1>2. /\ ~aborted'
      /\ metadataBuffer' \in BufferStates(MetaSize)
      /\ metadataBuffer'.write = metadataBuffer.write
      /\ ready(metadataBuffer', MetaSize) = generatedEvents + BulkedEvents * (L - k)
      /\ releaseMetadata' = metadataBuffer'.read
      /\ releaseMetadata' = FirstEvent(SlotBefore(L - k))
  BY <1>1, ReleasedEvents
<1>3. /\ marked \in Seq(LentEntry) /\ Len(marked) = L
      /\ \A p \in 1 .. L : /\ marked[p].base = iovMultievents[p].base
                           /\ marked[p].len = iovMultievents[p].len
      /\ iovMultievents' = DropReleased(marked)
      /\ controllerCurrent' = controllerCurrent /\ currentMetadata' = currentMetadata
      /\ generatedEvents' = generatedEvents
  BY <1>1, ReleaseEffect
<1> HIDE DEF marked
<1>4. /\ iovMultievents' \in Seq(LentEntry) /\ Len(iovMultievents') = L - k
      /\ \A p \in 1 .. L - k : iovMultievents'[p] = marked[p + k]
      /\ iovMultievents' # <<>> => ~iovMultievents'[1].done
  BY <1>1, <1>3, DropEach
<1>5. NextSlot' = NextSlot /\ \A d : SlotBefore(d)' = SlotBefore(d)
  BY <1>3 DEF NextSlot, SlotBefore
<1>6. TypeOK'
  <2>1. releaseMetadata' \in MetaSlots
    BY <1>2 DEF BufferStates, MetaSlots
  <2>2. aborted' \in BOOLEAN
    BY <1>2 DEF ReleaseMultievents
  <2> QED BY <1>2, <1>3, <1>4, <2>1, <2>2 DEF RingInv, TypeOK, LentEntry
<1>7. CursorsInRing'
  <2>1. SlotBefore(Len(iovMultievents))' = SlotBefore(L - k)
    BY <1>4, <1>5 DEF SlotBefore
  <2> QED BY <1>2, <1>3, <1>5, <2>1 DEF RingInv, CursorsInRing
<1>8. LentInRing'
  <2> SUFFICES ASSUME NEW p \in 1 .. L - k
               PROVE  /\ iovMultievents'[p].base = IovOf(SlotBefore(L - k + 1 - p)).base
                      /\ iovMultievents'[p].len = IovOf(SlotBefore(L - k + 1 - p)).len
    <3>1. L - k <= 2 * Credits
      BY <1>1, Sizes
    <3>2. \A p : SlotBefore(Len(iovMultievents) + 1 - p)' = SlotBefore(L - k + 1 - p)
      BY <1>4, <1>5 DEF SlotBefore
    <3> QED BY <1>4, <3>1, <3>2, ZenonT(30) DEF LentInRing, IovOf
  <2>1. p + k \in 1 .. L /\ L + 1 - (p + k) = L - k + 1 - p
    BY <1>1
  <2>2. /\ iovMultievents[p + k].base = IovOf(SlotBefore(L + 1 - (p + k))).base
        /\ iovMultievents[p + k].len = IovOf(SlotBefore(L + 1 - (p + k))).len
    BY <1>1, <2>1 DEF RingInv, LentInRing
  <2> QED BY <1>3, <1>4, <2>1, <2>2
<1>9. FrontInUse'
  BY <1>4 DEF FrontInUse
<1>10. EventsAccountedFor' /\ NoAssertFails'
  BY <1>2, <1>3, <1>4 DEF EventsAccountedFor, NoAssertFails
<1> QED BY <1>6, <1>7, <1>8, <1>9, <1>10 DEF RingInv
-----------------------------------------------------------------------------
\* The ring of the readout unit is consistent in every reachable state
\* (ru/accumulator.cpp, ru/controller.cpp, generator/generator.cpp).
THEOREM RingInvariant == Spec => []RingInv
<1>1. RingInv /\ [Next]_vars => RingInv'
  <2> SUFFICES ASSUME RingInv, [Next]_vars PROVE RingInv'
    OBVIOUS
  <2>1. CASE \E n \in 0 .. MetaSize : GetMultievent(n)
    BY <2>1, GetMultieventKeeps
  <2>2. CASE \E n \in 0 .. MetaSize : NoMultievent(n)
    BY <2>2, NoMultieventKeeps
  <2>3. CASE \E bases \in SUBSET Pending(iovMultievents) : ReleaseMultievents(bases)
    BY <2>3, ReleaseMultieventsKeeps
  <2>4. CASE UNCHANGED vars
    BY <2>4 DEF vars, RingInv, TypeOK, CursorsInRing, LentInRing, FrontInUse, EventsAccountedFor,
                NoAssertFails, NextSlot, SlotBefore, IovOf
  <2> QED BY <2>1, <2>2, <2>3, <2>4 DEF Next
<1> QED BY InitRingInv, <1>1, PTL DEF Spec

\* The cursors of the Controller and the Accumulator stay in the ring, and no
\* more than one ring of events is ever counted as generated.
THEOREM AccumulatorTypes == Spec => []TypeOK
<1>1. RingInv => TypeOK
  BY DEF RingInv
<1> QED BY RingInvariant, <1>1, PTL

\* No sequence of calls of the readout unit makes an assert of the Accumulator,
\* the Controller, the Generator or the Buffer fail: the data of a multievent
\* never wraps, an address that is given back is found, and the ring neither
\* overflows nor underflows.
THEOREM AccumulatorNeverAborts == Spec => []NoAssertFails
<1>1. RingInv => NoAssertFails
  BY DEF RingInv
<1> QED BY RingInvariant, <1>1, PTL

\* Every event the ring counts as in use waits for its multievent or is in one
\* that is lent: none is leaked, none counted twice.
THEOREM EventsAccounted == Spec => []EventsAccountedFor
<1>1. RingInv => EventsAccountedFor
  BY DEF RingInv
<1> QED BY RingInvariant, <1>1, PTL

\* The memory that is lent lies in the data buffer, and no byte of it is lent
\* twice: what a send reads is not overwritten while it is in progress.
THEOREM LentMemoryApart == Spec => []LentMemoryDisjoint
<1>1. RingInv => LentMemoryDisjoint
  <2> SUFFICES ASSUME RingInv, NEW p \in DOMAIN iovMultievents, NEW q \in DOMAIN iovMultievents
               PROVE  LET a == iovMultievents[p]
                          b == iovMultievents[q]
                      IN  /\ a.len > 0 /\ a.base + a.len <= DataSize
                          /\ p # q => a.base + a.len <= b.base \/ b.base + b.len <= a.base
    BY DEF LentMemoryDisjoint
  <2>1. p \in 1 .. Len(iovMultievents) /\ q \in 1 .. Len(iovMultievents)
    BY RingTypes
  <2>2. PICK s \in SlotNumbers, t \in SlotNumbers :
          /\ iovMultievents[p].base = IovOf(s).base /\ iovMultievents[p].len = IovOf(s).len
          /\ iovMultievents[q].base = IovOf(t).base /\ iovMultievents[q].len = IovOf(t).len
          /\ p # q => s # t
    BY <2>1, LentOnce DEF RingInv, LentInRing
  <2>3. PICK u \in SlotNumbers : u # s
    <3>1. 0 \in SlotNumbers /\ 1 \in SlotNumbers
      BY Sizes DEF SlotNumbers
    <3> QED BY <3>1
  <2>4. IovOf(s).len \in Nat \ {0} /\ IovOf(s).base + IovOf(s).len <= DataSize
    BY <2>3, SlotsApart
  <2>5. s # t => \/ IovOf(s).base + IovOf(s).len <= IovOf(t).base
                 \/ IovOf(t).base + IovOf(t).len <= IovOf(s).base
    BY SlotsApart
  <2> QED BY <2>2, <2>4, <2>5
<1> QED BY RingInvariant, <1>1, PTL

-----------------------------------------------------------------------------
(* The multievents that are lent are slots of MultieventStore.             *)

\* What the abstract store knows of an entry of the deque.
EntryFor(entry) == [base |-> SlotAt(entry.base), done |-> entry.done]
SlotsHeld(iov) == [p \in DOMAIN iov |-> EntryFor(iov[p])]

\* Each entry has the address of a slot.
LentAtSlots(iov) == \A p \in 1 .. Len(iov) : \E s \in SlotNumbers : iov[p].base = IovOf(s).base

LEMMA SeqSame ==
  ASSUME NEW S, NEW s \in Seq(S), NEW t \in Seq(S), Len(s) = Len(t),
         \A p \in 1 .. Len(s) : s[p] = t[p]
  PROVE  s = t
OBVIOUS

\* The slot of an address.
LEMMA SlotOfBase ==
  ASSUME NEW s \in SlotNumbers
  PROVE  SlotAt(IovOf(s).base) = s
<1> DEFINE f == FirstEvent(s)
<1>1. f \in MetaSlots /\ IovOf(s).base = MetaOffset[f] /\ s \in Nat
  BY MetadataEnd, Sizes DEF IovOf, SlotNumbers
<1> HIDE DEF f
<1>2. ASSUME NEW p \in MetaSlots, MetaOffset[p] = MetaOffset[f] PROVE p = f
  <2>1. /\ MetaOffset[p] \in Nat /\ MetaLength[p] \in Nat \ {0}
        /\ MetaOffset[f] \in Nat /\ MetaLength[f] \in Nat \ {0}
        /\ p < f => MetaOffset[p] + MetaLength[p] <= MetaOffset[f]
        /\ f < p => MetaOffset[f] + MetaLength[f] <= MetaOffset[p]
    BY <1>1, LayoutAssumption
  <2>2. p \in Int /\ f \in Int
    BY <1>1, Sizes DEF MetaSlots
  <2> QED BY <1>2, <2>1, <2>2
<1>3. (CHOOSE p \in MetaSlots : MetaOffset[p] = MetaOffset[f]) = f
  BY <1>1, <1>2
<1>4. f \div BulkedEvents = s
  BY <1>1, SlotNumber DEF f
<1> QED BY <1>1, <1>3, <1>4 DEF SlotAt

LEMMA SlotsHeldOf ==
  ASSUME NEW iov \in Seq(LentEntry), LentAtSlots(iov)
  PROVE  /\ SlotsHeld(iov) \in Deque(0 .. 2 * Credits)
         /\ Len(SlotsHeld(iov)) = Len(iov)
         /\ \A p \in 1 .. Len(iov) : /\ SlotsHeld(iov)[p] = EntryFor(iov[p])
                                     /\ SlotsHeld(iov)[p].base = SlotAt(iov[p].base)
                                     /\ SlotsHeld(iov)[p].done = iov[p].done
<1>1. Len(iov) \in Nat /\ DOMAIN iov = 1 .. Len(iov) /\ \A p \in 1 .. Len(iov) : iov[p] \in LentEntry
  BY SeqType
<1>2. \A p \in 1 .. Len(iov) : EntryFor(iov[p]) \in EntryOf(0 .. 2 * Credits)
  <2> SUFFICES ASSUME NEW p \in 1 .. Len(iov) PROVE EntryFor(iov[p]) \in EntryOf(0 .. 2 * Credits)
    OBVIOUS
  <2>1. PICK s \in SlotNumbers : iov[p].base = IovOf(s).base
    BY DEF LentAtSlots
  <2>2. SlotAt(iov[p].base) \in 0 .. 2 * Credits
    BY <2>1, SlotOfBase, Sizes DEF SlotNumbers
  <2>3. iov[p].done \in BOOLEAN
    BY <1>1 DEF LentEntry
  <2> QED BY <2>2, <2>3 DEF EntryFor, EntryOf
<1>3. SlotsHeld(iov) = [p \in 1 .. Len(iov) |-> EntryFor(iov[p])]
  BY <1>1 DEF SlotsHeld
<1>4. SlotsHeld(iov) \in Seq(EntryOf(0 .. 2 * Credits)) /\ Len(SlotsHeld(iov)) = Len(iov)
  <2> HIDE DEF EntryFor
  <2> QED BY <1>1, <1>2, <1>3
<1>5. \A p \in 1 .. Len(iov) : SlotsHeld(iov)[p] = EntryFor(iov[p])
  BY <1>3
<1> QED BY <1>4, <1>5, EntriesMarkable DEF EntryFor

LEMMA HeldIsSlots ==
  ASSUME RingInv
  PROVE  /\ HeldSlots = SlotsHeld(iovMultievents) /\ HeldSlots' = SlotsHeld(iovMultievents')
         /\ LentAtSlots(iovMultievents)
         /\ HeldSlots \in Deque(0 .. 2 * Credits)
         /\ Len(HeldSlots) = Len(iovMultievents)
         /\ \A p \in 1 .. Len(HeldSlots) :
              /\ HeldSlots[p].base = SlotAt(iovMultievents[p].base)
              /\ HeldSlots[p].base = SlotBefore(Len(iovMultievents) + 1 - p)
              /\ HeldSlots[p].done = iovMultievents[p].done
              /\ IsFirstAt(HeldSlots, p)
         /\ \A p, q \in 1 .. Len(HeldSlots) : p # q => HeldSlots[p].base # HeldSlots[q].base
<1>1. HeldSlots = SlotsHeld(iovMultievents) /\ HeldSlots' = SlotsHeld(iovMultievents')
  BY DEF HeldSlots, SlotsHeld, EntryFor, SlotAt
<1>2. PICK L \in Nat : L = Len(iovMultievents) /\ iovMultievents \in Seq(LentEntry)
  BY RingTypes
<1>3. \A p \in 1 .. L : /\ SlotBefore(L + 1 - p) \in SlotNumbers
                        /\ iovMultievents[p].base = IovOf(SlotBefore(L + 1 - p)).base
  BY <1>2, LentOnce DEF RingInv, LentInRing
<1>4. LentAtSlots(iovMultievents)
  BY <1>2, <1>3 DEF LentAtSlots
<1>5. /\ HeldSlots \in Deque(0 .. 2 * Credits) /\ Len(HeldSlots) = L
      /\ \A p \in 1 .. L : /\ HeldSlots[p].base = SlotAt(iovMultievents[p].base)
                           /\ HeldSlots[p].done = iovMultievents[p].done
  BY <1>1, <1>2, <1>4, SlotsHeldOf
<1>6. \A p \in 1 .. L : HeldSlots[p].base = SlotBefore(L + 1 - p)
  BY <1>3, <1>5, SlotOfBase
<1>7. \A p, q \in 1 .. L : p # q => HeldSlots[p].base # HeldSlots[q].base
  BY <1>2, <1>6, LentOnce
<1>8. \A p \in 1 .. L : IsFirstAt(HeldSlots, p)
  BY <1>2, <1>7 DEF IsFirstAt
<1> QED BY <1>1, <1>2, <1>4, <1>5, <1>6, <1>7, <1>8

\* The store gives back what the deque gives back.
LEMMA SlotsReleased ==
  ASSUME RingInv, NEW bases \in SUBSET Pending(iovMultievents), ReleaseMultievents(bases),
         NEW slots, slots = {SlotAt(a) : a \in bases}
  PROVE  /\ slots \subseteq Pending(HeldSlots)
         /\ HeldSlots' = DropReleased(Mark(HeldSlots, slots))
<1> DEFINE marked == Mark(iovMultievents, bases)
           heldMarked == Mark(HeldSlots, slots)
           Held == EntryOf(0 .. 2 * Credits)
<1>1. PICK L \in Nat :
        /\ L = Len(iovMultievents) /\ Len(HeldSlots) = L
        /\ iovMultievents \in Seq(LentEntry) /\ HeldSlots \in Deque(0 .. 2 * Credits)
        /\ DOMAIN iovMultievents = 1 .. L /\ DOMAIN HeldSlots = 1 .. L
  BY RingTypes, HeldIsSlots, DequeElements, SeqType
<1>2. \A p \in 1 .. L : (HeldSlots[p].base \in slots) = (iovMultievents[p].base \in bases)
  <2> SUFFICES ASSUME NEW p \in 1 .. L
               PROVE  (HeldSlots[p].base \in slots) = (iovMultievents[p].base \in bases)
    OBVIOUS
  <2>1. ASSUME iovMultievents[p].base \in bases PROVE HeldSlots[p].base \in slots
    BY <1>1, <2>1, HeldIsSlots
  <2>2. ASSUME HeldSlots[p].base \in slots PROVE iovMultievents[p].base \in bases
    <3>1. PICK a \in bases : HeldSlots[p].base = SlotAt(a)
      BY <2>2
    <3>2. PICK q \in 1 .. L : a = iovMultievents[q].base
      BY <1>1 DEF Pending
    <3>3. HeldSlots[p].base = HeldSlots[q].base
      BY <1>1, <3>1, <3>2, HeldIsSlots
    <3>4. p = q
      BY <1>1, <3>3, HeldIsSlots
    <3> QED BY <3>2, <3>4
  <2> QED BY <2>1, <2>2
<1>3. slots \subseteq Pending(HeldSlots)
  <2> SUFFICES ASSUME NEW a \in bases PROVE SlotAt(a) \in Pending(HeldSlots)
    OBVIOUS
  <2>1. PICK q \in 1 .. L : a = iovMultievents[q].base /\ ~iovMultievents[q].done
    BY <1>1 DEF Pending
  <2>2. HeldSlots[q].base = SlotAt(a) /\ ~HeldSlots[q].done
    BY <1>1, <2>1, HeldIsSlots
  <2> QED BY <1>1, <2>2 DEF Pending
<1>4. /\ marked \in Seq(LentEntry) /\ Len(marked) = L
      /\ iovMultievents' = DropReleased(marked)
      /\ \A p \in 1 .. L :
           /\ marked[p].base = iovMultievents[p].base
           /\ marked[p].done = (iovMultievents[p].done \/ iovMultievents[p].base \in bases)
  BY <1>1, ReleaseEffect
<1>5. /\ heldMarked \in Deque(0 .. 2 * Credits) /\ Len(heldMarked) = L
      /\ \A p \in 1 .. L :
           /\ heldMarked[p].base = HeldSlots[p].base
           /\ heldMarked[p].done = (HeldSlots[p].done \/ HeldSlots[p].base \in slots)
  <2>1. PICK h \in Deque(0 .. 2 * Credits) : h = HeldSlots
    BY <1>1
  <2>2. /\ Mark(h, slots) \in Deque(0 .. 2 * Credits)
        /\ Len(Mark(h, slots)) = Len(h)
        /\ \A p \in 1 .. Len(h) :
             /\ Mark(h, slots)[p].base = h[p].base
             /\ Mark(h, slots)[p].done = (h[p].done \/ (h[p].base \in slots /\ IsFirstAt(h, p)))
    BY MarkKeeps
  <2>3. \A p \in 1 .. L : IsFirstAt(h, p)
    BY <1>1, <2>1, HeldIsSlots
  <2> QED BY <1>1, <2>1, <2>2, <2>3
<1> HIDE DEF marked, heldMarked, Held
<1>6. \A p \in 1 .. L : /\ heldMarked[p].done = marked[p].done
                        /\ heldMarked[p].base = SlotAt(marked[p].base)
  <2> SUFFICES ASSUME NEW p \in 1 .. L
               PROVE  /\ heldMarked[p].done = marked[p].done
                      /\ heldMarked[p].base = SlotAt(marked[p].base)
    OBVIOUS
  <2>1. /\ HeldSlots[p].done = iovMultievents[p].done
        /\ HeldSlots[p].base = SlotAt(iovMultievents[p].base)
    BY <1>1, HeldIsSlots
  <2>2. (HeldSlots[p].base \in slots) = (iovMultievents[p].base \in bases)
    BY <1>2
  <2> QED BY <1>4, <1>5, <2>1, <2>2
<1>7. heldMarked \in Seq(Held)
  BY <1>5, EntriesMarkable DEF Held
<1>8. PICK k \in 0 .. L : k = ReleasableCount(marked) /\ k = ReleasableCount(heldMarked)
  <2>1. ReleasableCount(marked) = ReleasableCount(heldMarked)
    BY <1>4, <1>5, <1>6, <1>7, CountSame
  <2> QED BY <1>4, <2>1, CountExact
<1>9. /\ iovMultievents' \in Seq(LentEntry) /\ Len(iovMultievents') = L - k
      /\ \A p \in 1 .. L - k : iovMultievents'[p] = marked[p + k]
  BY <1>4, <1>8, DropEach
<1>10. /\ DropReleased(heldMarked) \in Seq(Held) /\ Len(DropReleased(heldMarked)) = L - k
       /\ \A p \in 1 .. L - k : DropReleased(heldMarked)[p] = heldMarked[p + k]
  BY <1>5, <1>7, <1>8, DropEach
<1>11. \A p \in 1 .. L - k : p + k \in 1 .. L
  BY <1>8
<1>12. LentAtSlots(iovMultievents')
  <2>1. \A p \in 1 .. L : \E s \in SlotNumbers : marked[p].base = IovOf(s).base
    BY <1>1, <1>4, HeldIsSlots DEF LentAtSlots
  <2> QED BY <1>9, <1>11, <2>1 DEF LentAtSlots
<1>13. /\ HeldSlots' \in Seq(Held) /\ Len(HeldSlots') = L - k
       /\ \A p \in 1 .. L - k : HeldSlots'[p] = EntryFor(iovMultievents'[p])
  <2>1. HeldSlots' = SlotsHeld(iovMultievents')
    BY HeldIsSlots
  <2> QED BY <1>9, <1>12, <2>1, SlotsHeldOf, EntriesMarkable DEF Held
<1>14. \A p \in 1 .. L - k : HeldSlots'[p] = DropReleased(heldMarked)[p]
  <2> SUFFICES ASSUME NEW p \in 1 .. L - k PROVE EntryFor(marked[p + k]) = heldMarked[p + k]
    BY <1>9, <1>10, <1>13
  <2>1. PICK entry \in Held : entry = heldMarked[p + k]
    BY <1>5, <1>7, <1>11, SeqType
  <2>2. entry = [base |-> entry.base, done |-> entry.done]
    BY DEF Held, EntryOf
  <2> QED BY <1>6, <1>11, <2>1, <2>2 DEF EntryFor
<1>15. HeldSlots' = DropReleased(heldMarked)
  BY <1>10, <1>13, <1>14, SeqSame
<1> QED BY <1>3, <1>15 DEF heldMarked

LEMMA StoreInit == Init => Store!Init
<1> SUFFICES ASSUME Init PROVE Store!Init
  OBVIOUS
<1>1. RingInv /\ iovMultievents = <<>> /\ currentMetadata = 0
  BY InitRingInv DEF Init
<1>2. Len(HeldSlots) = 0 /\ HeldSlots \in Deque(0 .. 2 * Credits)
  BY <1>1, HeldIsSlots
<1>3. HeldSlots = <<>>
  BY <1>2 DEF Deque
<1>4. currentMetadata \div BulkedEvents = 0
  <2>1. FirstEvent(0) = 0
    BY Sizes DEF FirstEvent
  <2> QED BY <1>1, <2>1, SlotNumber
<1> QED BY <1>3, <1>4 DEF Store!Init

\* The operators of the store, on the ring of the Accumulator.
LEMMA StoreSame ==
  /\ Store!Slots = Multievents
  /\ \A d, slots : Store!DropReleased(Store!Mark(d, slots)) = DropReleased(Mark(d, slots))
  /\ \A d : Store!Pending(d) = Pending(d)
  /\ \A k : Store!NextSlots(k) = [p \in 1 .. k |-> Entry((NextSlot + p - 1) % Multievents)]
<1>1. Store!Slots = Multievents
  BY DEF Store!Slots, Multievents
<1>2. \A d, slots : Store!DropReleased(Store!Mark(d, slots)) = DropReleased(Mark(d, slots))
  BY Zenon DEF Store!DropReleased, Store!Mark, DropReleased, Mark, Store!ReleasableCount,
               ReleasableCount, Store!IsFirstAt, IsFirstAt
<1>3. \A d : Store!Pending(d) = Pending(d)
  BY Zenon DEF Store!Pending, Pending
<1>4. \A k : Store!NextSlots(k) = [p \in 1 .. k |-> Entry((NextSlot + p - 1) % Multievents)]
  BY <1>1, Zenon DEF Store!NextSlots, Store!Entry, Entry, NextSlot
<1> QED BY <1>1, <1>2, <1>3, <1>4

\* A call that lends a multievent lends the next slot.
LEMMA GetStep ==
  ASSUME RingInv, NEW n \in 0 .. MetaSize, GetMultievent(n)
  PROVE  Store!Step(1, {})
<1> DEFINE Held == EntryOf(0 .. 2 * Credits)
           e == Entry(NextSlot)
           lent == HeldSlots \o Store!NextSlots(1)
<1>1. PICK L \in Nat :
        /\ L = Len(iovMultievents) /\ Len(HeldSlots) = L /\ L + 1 <= 2 * Credits
        /\ HeldSlots \in Seq(Held) /\ iovMultievents \in Seq(LentEntry)
        /\ Len(iovMultievents') = L + 1
  BY RingTypes, HeldIsSlots, GetEffect, EntriesMarkable
<1>2. NextSlot \in SlotNumbers /\ NextSlot \in Nat /\ NextSlot < Multievents
  BY RingTypes, Sizes DEF SlotNumbers
<1>3. e \in Held
  BY <1>2, Sizes DEF Entry, EntryOf, SlotNumbers
<1>4. Store!NextSlots(1) = <<e>>
  <2>1. Store!NextSlots(1) = [p \in 1 .. 1 |-> Entry((NextSlot + p - 1) % Multievents)]
    BY StoreSame
  <2>2. (NextSlot + 1 - 1) % Multievents = NextSlot
    <3>1. PICK c \in Nat, m \in Nat \ {0} : c = NextSlot /\ m = Multievents /\ c < m
      BY <1>2, Sizes
    <3>2. c + 1 - 1 = c /\ c % m = c
      BY <3>1
    <3> QED BY <3>1, <3>2
  <2> HIDE DEF Held
  <2>3. [p \in 1 .. 1 |-> Entry((NextSlot + p - 1) % Multievents)] = [p \in 1 .. 1 |-> e]
    BY <2>2
  <2>4. [p \in 1 .. 1 |-> e] = <<e>>
    OBVIOUS
  <2> QED BY <2>1, <2>3, <2>4
<1> HIDE DEF e, Held
<1>5. /\ lent \in Seq(Held) /\ Len(lent) = L + 1
      /\ \A p \in 1 .. L + 1 : lent[p] = IF p <= L THEN HeldSlots[p] ELSE e
  <2>1. <<e>> \in Seq(Held) /\ Len(<<e>>) = 1 /\ <<e>>[1] = e
    BY <1>3
  <2>2. PICK t \in Seq(Held) : t = <<e>> /\ Len(t) = 1 /\ t[1] = e
    BY <2>1
  <2>3. /\ HeldSlots \o t \in Seq(Held)
        /\ Len(HeldSlots \o t) = Len(HeldSlots) + Len(t)
        /\ \A p \in 1 .. Len(HeldSlots) + Len(t) :
             (HeldSlots \o t)[p] = IF p <= Len(HeldSlots) THEN HeldSlots[p] ELSE t[p - Len(HeldSlots)]
    BY <1>1, SeqConcat
  <2>4. \A p \in 1 .. L + 1 : ~(p <= L) => p - L = 1
    BY <1>1
  <2>5. lent = HeldSlots \o t
    BY <1>4, <2>2
  <2> HIDE DEF lent
  <2> QED BY <1>1, <2>2, <2>3, <2>4, <2>5
<1> HIDE DEF lent
<1>6. ~lent[1].done
  <2>1. 1 \in 1 .. L + 1 /\ (L = 0 \/ 1 \in 1 .. L)
    BY <1>1
  <2>2. ~e.done
    BY DEF e, Entry
  <2>3. L # 0 => ~HeldSlots[1].done
    <3>1. L # 0 => iovMultievents # <<>> /\ ~iovMultievents[1].done
      BY <1>1 DEF RingInv, FrontInUse
    <3> QED BY <1>1, <2>1, <3>1, HeldIsSlots
  <2> QED BY <1>5, <2>1, <2>2, <2>3
<1>7. Mark(lent, {}) = lent
  <2>1. \A p \in DOMAIN lent :
          (IF lent[p].base \in {} /\ IsFirstAt(lent, p)
             THEN [lent[p] EXCEPT !.done = TRUE] ELSE lent[p]) = lent[p]
    OBVIOUS
  <2>2. lent = [p \in DOMAIN lent |-> lent[p]]
    BY <1>5
  <2> QED BY <2>1, <2>2 DEF Mark
<1>8. /\ ReleasableCount(lent) = 0
      /\ DropReleased(lent) \in Seq(Held) /\ Len(DropReleased(lent)) = L + 1
      /\ \A p \in 1 .. L + 1 : DropReleased(lent)[p] = lent[p]
  <2>1. PICK k \in 0 .. L + 1 :
          /\ k = ReleasableCount(lent) /\ \A p \in 1 .. k : lent[p].done
          /\ DropReleased(lent) \in Seq(Held) /\ Len(DropReleased(lent)) = L + 1 - k
          /\ \A p \in 1 .. L + 1 - k : DropReleased(lent)[p] = lent[p + k]
    <3>1. PICK k \in 0 .. L + 1 : k = ReleasableCount(lent) /\ \A p \in 1 .. k : lent[p].done
      BY <1>5, CountExact
    <3>2. PICK M \in Nat : M = L + 1 /\ M = Len(lent)
      BY <1>1, <1>5
    <3>3. /\ DropReleased(lent) \in Seq(Held) /\ Len(DropReleased(lent)) = M - k
          /\ \A p \in 1 .. M - k : DropReleased(lent)[p] = lent[p + k]
      BY <1>5, <3>1, <3>2, DropEach
    <3>4. /\ Len(DropReleased(lent)) = L + 1 - k
          /\ \A p \in 1 .. L + 1 - k : DropReleased(lent)[p] = lent[p + k]
      BY <3>2, <3>3
    <3> QED BY <3>1, <3>3, <3>4, Zenon
  <2>2. k = 0
    BY <1>6, <2>1
  <2> QED BY <1>1, <2>1, <2>2
<1>9. PICK entry \in LentEntry :
        /\ entry = Lent(IovOf(NextSlot)) /\ iovMultievents' = Append(iovMultievents, entry)
        /\ EntryFor(entry) = e
  <2>1. EntryFor(Lent(IovOf(NextSlot))) = e
    BY <1>2, SlotOfBase DEF EntryFor, Lent, e, Entry
  <2> QED BY <2>1, GetEffect
<1>10. /\ iovMultievents' \in Seq(LentEntry)
       /\ \A p \in 1 .. L + 1 :
            iovMultievents'[p] = IF p <= L THEN iovMultievents[p] ELSE entry
  <2>1. /\ Append(iovMultievents, entry) \in Seq(LentEntry)
        /\ \A p \in 1 .. Len(iovMultievents) + 1 :
             Append(iovMultievents, entry)[p]
               = IF p <= Len(iovMultievents) THEN iovMultievents[p] ELSE entry
    BY <1>1, SeqAppend
  <2> QED BY <1>1, <1>9, <2>1
<1>11. LentAtSlots(iovMultievents')
  <2> SUFFICES ASSUME NEW p \in 1 .. L + 1
               PROVE  \E s \in SlotNumbers : iovMultievents'[p].base = IovOf(s).base
    BY <1>1 DEF LentAtSlots
  <2>1. CASE p <= L
    <3>1. p \in 1 .. L /\ iovMultievents'[p] = iovMultievents[p]
      BY <1>1, <1>10, <2>1
    <3> QED BY <1>1, <3>1, HeldIsSlots DEF LentAtSlots
  <2>2. CASE ~(p <= L)
    <3>1. entry.base = IovOf(NextSlot).base
      BY <1>9 DEF Lent
    <3>2. iovMultievents'[p] = entry
      BY <1>10, <2>2
    <3> QED BY <1>2, <3>1, <3>2
  <2> QED BY <2>1, <2>2
<1>12. /\ HeldSlots' \in Seq(Held) /\ Len(HeldSlots') = L + 1
       /\ \A p \in 1 .. L + 1 : HeldSlots'[p] = EntryFor(iovMultievents'[p])
  <2>1. HeldSlots' = SlotsHeld(iovMultievents')
    BY HeldIsSlots
  <2> QED BY <1>1, <1>10, <1>11, <2>1, SlotsHeldOf, EntriesMarkable DEF Held
<1>13. \A p \in 1 .. L : HeldSlots[p] = EntryFor(iovMultievents[p])
  BY <1>1, HeldIsSlots, SlotsHeldOf
<1>14. HeldSlots' = DropReleased(Mark(lent, {}))
  <2>1. \A p \in 1 .. L + 1 : HeldSlots'[p] = DropReleased(lent)[p]
    <3> SUFFICES ASSUME NEW p \in 1 .. L + 1 PROVE EntryFor(iovMultievents'[p]) = lent[p]
      BY <1>8, <1>12
    <3>1. CASE p <= L
      <4>1. p \in 1 .. L
        BY <1>1, <3>1
      <4> QED BY <1>5, <1>10, <1>13, <3>1, <4>1
    <3>2. CASE ~(p <= L)
      BY <1>5, <1>9, <1>10, <3>2
    <3> QED BY <3>1, <3>2
  <2>2. HeldSlots' = DropReleased(lent)
    BY <1>8, <1>12, <2>1, SeqSame
  <2> QED BY <1>7, <2>2
<1>15. (currentMetadata \div BulkedEvents)' = (NextSlot + 1) % Multievents
  <2>1. NextSlot' = (NextSlot + 1) % Multievents
    BY GetEffect, SlotBeforeLent
  <2> QED BY <2>1 DEF NextSlot
<1>16. Len(lent) <= 2 * Credits
  BY <1>1, <1>5
<1> QED BY <1>14, <1>15, <1>16, StoreSame DEF Store!Step, lent, NextSlot

\* A call that gives multievents back gives back their slots.
LEMMA ReleaseStep ==
  ASSUME RingInv, NEW bases \in SUBSET Pending(iovMultievents), ReleaseMultievents(bases)
  PROVE  \E slots \in SUBSET (0 .. 2 * Credits) : Store!Step(0, slots)
<1>1. PICK slots : slots = {SlotAt(a) : a \in bases}
  OBVIOUS
<1>2. slots \subseteq Pending(HeldSlots) /\ HeldSlots' = DropReleased(Mark(HeldSlots, slots))
  BY <1>1, SlotsReleased
<1>3. /\ HeldSlots \in Deque(0 .. 2 * Credits) /\ Len(HeldSlots) <= 2 * Credits
      /\ DOMAIN HeldSlots = 1 .. Len(HeldSlots)
      /\ \A p \in 1 .. Len(HeldSlots) : HeldSlots[p].base \in 0 .. 2 * Credits
  BY HeldIsSlots, RingTypes, DequeElements
<1>4. slots \in SUBSET (0 .. 2 * Credits)
  BY <1>2, <1>3 DEF Pending
<1>5. HeldSlots \o Store!NextSlots(0) = HeldSlots
  <2>1. Store!NextSlots(0) = [p \in 1 .. 0 |-> Entry((NextSlot + p - 1) % Multievents)]
    BY StoreSame
  <2>2. [p \in 1 .. 0 |-> Entry((NextSlot + p - 1) % Multievents)] = <<>>
    OBVIOUS
  <2>3. HeldSlots \o <<>> = HeldSlots
    BY <1>3 DEF Deque
  <2> QED BY <2>1, <2>2, <2>3
<1>6. (currentMetadata \div BulkedEvents)' = (NextSlot + 0) % Multievents
  <2>1. PICK c \in Nat, m \in Nat \ {0} : c = NextSlot /\ m = Multievents /\ c < m
    BY RingTypes, Sizes DEF SlotNumbers
  <2>2. (c + 0) % m = c
    BY <2>1
  <2>3. currentMetadata' = currentMetadata
    BY ReleaseEffect
  <2> QED BY <2>1, <2>2, <2>3 DEF NextSlot
<1>7. Store!Step(0, slots)
  BY <1>2, <1>3, <1>5, <1>6, StoreSame DEF Store!Step, NextSlot
<1> QED BY <1>4, <1>7

\* The cursors, the ring and the deque of the Accumulator together are the
\* abstract store: slots lent in ring order, given back in any order, reused in
\* the order they were lent.
THEOREM AccumulatorUsesStore == Spec => ImplementsStore
<1>1. RingInv /\ [Next]_vars => [Store!Next]_(Store!storeVars)
  <2> SUFFICES ASSUME RingInv, [Next]_vars PROVE [Store!Next]_(Store!storeVars)
    OBVIOUS
  <2>1. ASSUME NEW n \in 0 .. MetaSize, GetMultievent(n) PROVE Store!Next
    <3>1. 1 \in 0 .. 2 * Credits /\ {} \in SUBSET (0 .. 2 * Credits)
      BY Sizes
    <3> QED BY <2>1, <3>1, GetStep DEF Store!Next
  <2>2. ASSUME NEW bases \in SUBSET Pending(iovMultievents), ReleaseMultievents(bases)
        PROVE  Store!Next
    <3>1. 0 \in 0 .. 2 * Credits
      BY Sizes
    <3> QED BY <2>2, <3>1, ReleaseStep DEF Store!Next
  <2>3. ASSUME currentMetadata' = currentMetadata, iovMultievents' = iovMultievents
        PROVE  UNCHANGED Store!storeVars
    BY <2>3, HeldIsSlots DEF Store!storeVars
  <2>4. ASSUME NEW n \in 0 .. MetaSize, NoMultievent(n) PROVE UNCHANGED Store!storeVars
    BY <2>3, <2>4 DEF NoMultievent
  <2> QED BY <2>1, <2>2, <2>3, <2>4 DEF Next, vars
<1> QED BY <1>1, StoreInit, RingInvariant, PTL DEF ImplementsStore, Spec, Store!Spec
=============================================================================
