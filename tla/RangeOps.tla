------------------------------ MODULE RangeOps ------------------------------
(***************************************************************************)
(* common/range.h: the helpers with which the metadata ring is walked.     *)
(*                                                                         *)
(* A range of `size' elements is the offsets 0 .. size - 1, and `size' is  *)
(* its end iterator.  A sub-range is a record [begin, end] of two offsets. *)
(* When its end lies before its begin it wraps around the end of the       *)
(* range.  A predicate over elements is the set of offsets it holds at.    *)
(***************************************************************************)
EXTENDS Integers

\* The % of C++ takes the sign of its left operand.
Remainder(a, b) == IF a >= 0 THEN a % b ELSE 0 - ((0 - a) % b)

SubRange(size) == [begin : 0 .. size, end : 0 .. size]

\* The two asserts on a sub-range of a (non-empty) range.
ValidSubrange(sub, size) == sub \in SubRange(size)

\* A sub-range whose iterators coincide has distance 0, never `size'.
distance_in_range(sub, size) ==
    LET d == sub.end - sub.begin
    IN  d + (IF d < 0 THEN size ELSE 0)

\* The assert on the iterator that is advanced: it must be dereferenceable.
CanAdvance(current, size) == current \in 0 .. size - 1

advance_in_range(current, advance, size) ==
    LET offset == Remainder(current + advance, size)
    IN  offset + (IF offset < 0 THEN size ELSE 0)

\* std::find_if on [lo, hi): the first hit, or hi.
FindIf(lo, hi, hits) ==
    IF hits \cap (lo .. hi - 1) = {}
      THEN hi
      ELSE CHOOSE p \in hits \cap (lo .. hi - 1) :
             \A q \in hits \cap (lo .. hi - 1) : p <= q

find_in_range(sub, size, hits) ==
    IF sub.begin < sub.end
      THEN FindIf(sub.begin, sub.end, hits)
      ELSE LET it == FindIf(sub.begin, size, hits)
           IN  IF it = size THEN FindIf(0, sub.end, hits) ELSE it

=============================================================================
