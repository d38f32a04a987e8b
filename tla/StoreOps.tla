------------------------------ MODULE StoreOps ------------------------------
(***************************************************************************)
(* The deque Accumulator::m_iov_multievents: the multievents lent to the   *)
(* readout unit, oldest first.  An entry has the address of the multievent *)
(* (base) and whether the readout unit gave it back (done).  Entries may   *)
(* carry more fields; nothing here looks at them.                          *)
(***************************************************************************)
EXTENDS Naturals, Sequences

Entry(base) == [base |-> base, done |-> FALSE]

\* Addresses that are lent and not given back yet.
Pending(held) == {held[p].base : p \in {q \in DOMAIN held : ~held[q].done}}

\* The entry std::find_if stops at when it looks for an address.
IsFirstAt(held, p) == \A q \in 1 .. p - 1 : held[q].base # held[p].base

\* The asserts of release_multievents for the addresses of `bases': each is
\* found, and the entry found was not given back before.
CanMark(held, bases) ==
    \A a \in bases :
      \E p \in DOMAIN held :
        held[p].base = a /\ IsFirstAt(held, p) /\ ~held[p].done

Mark(held, bases) ==
    [p \in DOMAIN held |->
       IF held[p].base \in bases /\ IsFirstAt(held, p)
         THEN [held[p] EXCEPT !.done = TRUE]
         ELSE held[p]]

\* How many entries at the front have all been given back.
ReleasableCount(held) ==
    CHOOSE n \in 0 .. Len(held) :
      /\ \A p \in 1 .. n : held[p].done
      /\ n < Len(held) => ~held[n + 1].done

\* Mutant: whatever was given back leaves the deque, contiguous or not.
DropDone(held) == LET InUse(entry) == ~entry.done IN SelectSeq(held, InUse)

\* releaseContiguousMemory: the multievents that leave the deque are those
\* before the oldest one that is still in use.
DropReleased(held) == SubSeq(held, ReleasableCount(held) + 1, Len(held))
=============================================================================
