--------------------------- MODULE CircularBuffer ---------------------------
(***************************************************************************)
(* common/utility.h: the class template Buffer<T>, a ring of `size' slots  *)
(* with a read and a write position.  A ring whose two positions coincide  *)
(* is empty, so at most size - 1 slots are ever in use.  A buffer is a     *)
(* record [read, write] of two offsets; `size' never changes.              *)
(***************************************************************************)
EXTENDS Integers

BufferStates(size) == [read : 0 .. size - 1, write : 0 .. size - 1]

EmptyBuffer == [read |-> 0, write |-> 0]

ready(buf, size) == (size + (buf.write - buf.read)) % size

available(buf, size) == size - ready(buf, size)

\* assert(ready() >= n) and the move it guards.
CanRelease(buf, n, size) == ready(buf, size) >= n
release(buf, n, size) == [buf EXCEPT !.read = (@ + n) % size]

\* assert(available() > n) and the move it guards.  The comparison is strict:
\* a reservation that would make the two positions coincide is refused.
CanReserve(buf, n, size) == available(buf, size) > n

\* Mutant: the write position runs past the end of the ring.
reserveUnwrapped(buf, n, size) == [buf EXCEPT !.write = @ + n]

reserve(buf, n, size) == [buf EXCEPT !.write = (@ + n) % size]
=============================================================================
