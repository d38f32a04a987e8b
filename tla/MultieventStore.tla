-------------------------- MODULE MultieventStore ---------------------------
(***************************************************************************)
(* What the readout unit is promised by the Accumulator, without events,   *)
(* iterators or buffers: a ring of equal slots, each with room for one     *)
(* multievent, that are lent in ring order, at most Capacity of them at a  *)
(* time, given back in any order and reused in the order they were lent.   *)
(* One slot more than Capacity is needed because Buffer<T> can not be      *)
(* completely filled.                                                      *)
(***************************************************************************)
EXTENDS StoreOps, Integers

CONSTANT Capacity

ASSUME CapacityAssumption == Capacity \in Nat \ {0}

Slots == Capacity + 1

VARIABLES held,     \* the slots that are lent, oldest first
          nextSlot  \* the slot that is lent next

storeVars == <<held, nextSlot>>

Init == held = <<>> /\ nextSlot = 0

\* Mutant: the ring is not closed.
NextSlotsUnwrapped(k) == [p \in 1 .. k |-> Entry(nextSlot + p - 1)]

\* The k slots lent next.
NextSlots(k) == [p \in 1 .. k |-> Entry((nextSlot + p - 1) % Slots)]

\* Lend k slots, then take back those of `bases'.
Step(k, bases) ==
    LET lent == held \o NextSlots(k)
    IN  /\ Len(lent) <= Capacity
        /\ bases \subseteq Pending(lent)
        /\ held' = DropReleased(Mark(lent, bases))
        /\ nextSlot' = (nextSlot + k) % Slots

Next == \E k \in 0 .. Capacity : \E bases \in SUBSET (0 .. Capacity) : Step(k, bases)

Spec == Init /\ [][Next]_storeVars
-----------------------------------------------------------------------------
TypeOK ==
    /\ held \in Seq([base : 0 .. Capacity, done : BOOLEAN])
    /\ Len(held) <= Capacity
    /\ nextSlot \in 0 .. Capacity

\* No slot is lent while it is lent already: the slots that are held are the
\* Len(held) slots before the next one, each once (accumulator.cpp:112-121
\* finds an entry by its address, which must not be ambiguous).
HeldInRingOrder ==
    \A p \in DOMAIN held :
      held[p].base = (nextSlot + Slots - (Len(held) + 1 - p)) % Slots
=============================================================================
