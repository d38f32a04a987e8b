------------------------ MODULE MultieventStoreProofs -----------------------
(***************************************************************************)
(* The invariants of MultieventStore, for every capacity.                  *)
(***************************************************************************)
EXTENDS MultieventStore, DataLemmas

\* Slots lent by one step: they extend the ring order of those held.
LEMMA LentInRingOrder ==
  ASSUME TypeOK, HeldInRingOrder, NEW k \in 0 .. Capacity,
         Len(held \o NextSlots(k)) <= Capacity
  PROVE  /\ held \o NextSlots(k) \in Deque(0 .. Capacity)
         /\ Len(held \o NextSlots(k)) = Len(held) + k
         /\ (nextSlot + k) % Slots \in 0 .. Capacity
         /\ \A p \in 1 .. Len(held) + k :
              (held \o NextSlots(k))[p].base =
                (((nextSlot + k) % Slots) + Slots - (Len(held) + k + 1 - p)) % Slots
<1> DEFINE lent == held \o NextSlots(k)
<1>1. /\ Slots \in Nat \ {0} /\ Slots = Capacity + 1 /\ Capacity \in Nat
      /\ nextSlot \in 0 .. Slots - 1
      /\ held \in Deque(0 .. Capacity) /\ Len(held) \in Nat
  BY CapacityAssumption DEF TypeOK, Slots, Deque, EntryOf
<1>2. ASSUME NEW p \in 1 .. k
      PROVE  /\ NextSlots(k)[p] \in EntryOf(0 .. Capacity)
             /\ NextSlots(k)[p].base = (nextSlot + p - 1) % Slots
  <2>1. PICK a \in Nat : a = nextSlot + p - 1
    BY <1>1
  <2>2. a % Slots \in 0 .. Slots - 1
    BY <1>1, RingRange
  <2>3. (nextSlot + p - 1) % Slots \in 0 .. Capacity
    BY <1>1, <2>1, <2>2
  <2> QED BY <2>3 DEF NextSlots, Entry, EntryOf
<1>3. NextSlots(k) \in Deque(0 .. Capacity) /\ Len(NextSlots(k)) = k
  BY <1>2 DEF NextSlots, Deque
<1>4. /\ lent \in Deque(0 .. Capacity)
      /\ Len(lent) = Len(held) + k
      /\ \A p \in 1 .. Len(held) + k :
           lent[p] = IF p <= Len(held) THEN held[p] ELSE NextSlots(k)[p - Len(held)]
  BY <1>1, <1>3 DEF Deque
<1>5. ASSUME NEW p \in 1 .. Len(held) + k
      PROVE  lent[p].base = (((nextSlot + k) % Slots) + Slots - (Len(held) + k + 1 - p)) % Slots
  <2> DEFINE d == Len(held) + k + 1 - p
  <2>1. d \in 1 .. Slots - 1 /\ k \in 0 .. Slots - 1 /\ p \in Int
    BY <1>1, <1>4
  <2>2. (((nextSlot + k) % Slots) + Slots - d) % Slots = (nextSlot + k + Slots - d) % Slots
    <3>1. nextSlot \in 0 .. Slots - 1 /\ Slots \in Nat \ {0}
      BY <1>1
    <3> HIDE DEF d
    <3> QED BY <2>1, <3>1, RingShift
  <2>3. CASE p <= Len(held)
    <3>1. lent[p].base = (nextSlot + Slots - (Len(held) + 1 - p)) % Slots
      <4>1. p \in DOMAIN held /\ lent[p] = held[p]
        BY <1>1, <1>4, <2>3, DequeElements
      <4> QED BY <4>1 DEF HeldInRingOrder
    <3>2. nextSlot + k + Slots - d = nextSlot + Slots - (Len(held) + 1 - p)
      BY <1>1, <2>1
    <3> QED BY <2>2, <3>1, <3>2
  <2>4. CASE p > Len(held)
    <3>1. p - Len(held) \in 1 .. k
      BY <1>1, <2>4
    <3>2. lent[p].base = (nextSlot + (p - Len(held)) - 1) % Slots
      BY <1>2, <1>4, <2>4, <3>1
    <3>3. nextSlot + k + Slots - d = (nextSlot + (p - Len(held)) - 1) + Slots
      BY <1>1, <2>1
    <3>4. nextSlot + (p - Len(held)) - 1 \in 0 .. 2 * Slots - 1
      BY <1>1, <3>1
    <3> QED BY <1>1, <2>2, <3>2, <3>3, <3>4, RingTurn
  <2>5. p <= Len(held) \/ p > Len(held)
    BY <1>1, <2>1
  <2> QED BY <2>3, <2>4, <2>5
<1>6. (nextSlot + k) % Slots \in 0 .. Capacity
  BY <1>1, RingRange
<1> QED BY <1>4, <1>5, <1>6

\* The oldest slot held is still in use: nothing that could be reused is kept
\* (accumulator.cpp:87-105).
FrontInUse == held # <<>> => ~held[1].done

StoreInv == TypeOK /\ HeldInRingOrder /\ FrontInUse

LEMMA StoreInvStep ==
  ASSUME StoreInv, NEW k \in 0 .. Capacity, NEW bases, Step(k, bases)
  PROVE  StoreInv'
<1> DEFINE lent == held \o NextSlots(k)
           marked == Mark(lent, bases)
           n == ReleasableCount(marked)
<1>1. /\ lent \in Deque(0 .. Capacity)
      /\ Len(lent) = Len(held) + k /\ Len(lent) <= Capacity
      /\ nextSlot' \in 0 .. Capacity
      /\ nextSlot' = (nextSlot + k) % Slots
      /\ \A p \in 1 .. Len(lent) :
           lent[p].base = (nextSlot' + Slots - (Len(lent) + 1 - p)) % Slots
  BY LentInRingOrder DEF StoreInv, Step
<1>2. /\ marked \in Deque(0 .. Capacity)
      /\ Len(marked) = Len(lent)
      /\ \A p \in 1 .. Len(lent) : marked[p].base = lent[p].base
  BY <1>1, MarkKeeps
<1>3. held' = DropReleased(marked)
  BY DEF Step
<1>4. /\ n \in 0 .. Len(marked)
      /\ held' \in Deque(0 .. Capacity)
      /\ Len(held') = Len(marked) - n
      /\ \A p \in 1 .. Len(marked) - n : held'[p] = marked[p + n]
      /\ held' # <<>> => ~held'[1].done
  BY <1>2, <1>3, DropReleasedKeeps
<1>5. Slots = Capacity + 1 /\ Capacity \in Nat /\ Len(lent) \in Nat
  BY <1>1, CapacityAssumption, DequeElements DEF Slots
<1> HIDE DEF lent, marked, n
<1>6. TypeOK'
  BY <1>1, <1>2, <1>4, <1>5 DEF TypeOK, Deque, EntryOf
<1>7. HeldInRingOrder'
  <2> SUFFICES ASSUME NEW p \in 1 .. Len(held')
               PROVE  held'[p].base = (nextSlot' + Slots - (Len(held') + 1 - p)) % Slots
    BY <1>4, DequeElements DEF HeldInRingOrder, Slots
  <2>1. p + n \in 1 .. Len(lent) /\ Len(lent) + 1 - (p + n) = Len(held') + 1 - p
    BY <1>2, <1>4, <1>5
  <2>2. held'[p].base = lent[p + n].base
    BY <1>2, <1>4, <2>1
  <2> QED BY <1>1, <2>1, <2>2
<1>8. FrontInUse'
  BY <1>4 DEF FrontInUse
<1> QED BY <1>6, <1>7, <1>8 DEF StoreInv

THEOREM StoreInvariant == Spec => []StoreInv
<1>1. Init => StoreInv
  BY CapacityAssumption DEF Init, StoreInv, TypeOK, HeldInRingOrder, FrontInUse
<1>2. StoreInv /\ [Next]_storeVars => StoreInv'
  <2> SUFFICES ASSUME StoreInv, [Next]_storeVars PROVE StoreInv'
    OBVIOUS
  <2>1. CASE Next
    BY <2>1, StoreInvStep DEF Next
  <2>2. CASE UNCHANGED storeVars
    BY <2>2 DEF storeVars, StoreInv, TypeOK, HeldInRingOrder, FrontInUse
  <2> QED BY <2>1, <2>2
<1> QED BY <1>1, <1>2, PTL DEF Spec

\* The addresses of the multievents that are lent are the slots before the
\* next one in ring order, whatever the capacity and the order of releases.
THEOREM HeldSlotsInRingOrder == Spec => []HeldInRingOrder
BY StoreInvariant, PTL DEF StoreInv
\* The slots and the deque keep their types, and no more than Capacity slots
\* are ever lent, for every capacity.
THEOREM StoreTypeCorrect == Spec => []TypeOK
BY StoreInvariant, PTL DEF StoreInv

\* Nothing that could be reused is kept: after every release the oldest slot
\* of the deque is in use, for every capacity and order of releases.
THEOREM OldestInUse == Spec => []FrontInUse
BY StoreInvariant, PTL DEF StoreInv
=============================================================================
