----------------------------- MODULE DataLemmas ------------------------------
(***************************************************************************)
(* What the data structures of the models are: sequences, the deque of     *)
(* StoreOps, and the ring of CircularBuffer, for every size.               *)
(***************************************************************************)
EXTENDS StoreOps, CircularBuffer, TLAPS, WellFoundedInduction

\* Deques of entries whose addresses are in Bases.
EntryOf(Bases) == [base : Bases, done : BOOLEAN]
Deque(Bases) == Seq(EntryOf(Bases))

Less == {ss \in Nat \X Nat : ss[1] < ss[2]}

LEMMA LessWellFounded == IsWellFoundedOn(Less, Nat)
BY NatLessThanWellFounded, Zenon DEF Less, OpToRel

\* Every non-empty set of numbers has a least element.
LEMMA LeastExists ==
  ASSUME NEW S \in SUBSET Nat, S # {}
  PROVE  \E m \in S : \A x \in S : m <= x
<1>1. PICK m \in S : \A x \in S : ~ (<<x, m>> \in Less)
  BY LessWellFounded, WFMin, Zenon
<1>2. ASSUME NEW x \in S PROVE m <= x
  <2>1. m \in Nat /\ x \in Nat /\ <<x, m>> \notin Less
    BY <1>1
  <2>2. <<x, m>> \in Nat \X Nat /\ <<x, m>>[1] = x /\ <<x, m>>[2] = m
    BY <2>1
  <2>3. ~ (x < m)
    BY <2>1, <2>2, Zenon DEF Less
  <2> QED BY <2>1, <2>3
<1> QED BY <1>2

LEMMA SeqType ==
  ASSUME NEW S, NEW s \in Seq(S)
  PROVE  /\ Len(s) \in Nat /\ DOMAIN s = 1 .. Len(s)
         /\ \A p \in 1 .. Len(s) : s[p] \in S
         /\ s = <<>> <=> Len(s) = 0
OBVIOUS

LEMMA SeqAppend ==
  ASSUME NEW S, NEW s \in Seq(S), NEW e \in S
  PROVE  /\ Append(s, e) \in Seq(S)
         /\ Len(Append(s, e)) = Len(s) + 1
         /\ \A p \in 1 .. Len(s) + 1 :
              Append(s, e)[p] = IF p <= Len(s) THEN s[p] ELSE e
OBVIOUS

LEMMA SeqTail ==
  ASSUME NEW S, NEW s \in Seq(S), s # <<>>
  PROVE  /\ Head(s) = s[1] /\ Head(s) \in S
         /\ Tail(s) \in Seq(S)
         /\ Len(s) \in Nat \ {0}
         /\ Len(Tail(s)) = Len(s) - 1
         /\ \A p \in 1 .. Len(s) - 1 : Tail(s)[p] = s[p + 1]
OBVIOUS

LEMMA SeqConcat ==
  ASSUME NEW S, NEW s \in Seq(S), NEW t \in Seq(S)
  PROVE  /\ s \o t \in Seq(S)
         /\ Len(s \o t) = Len(s) + Len(t)
         /\ \A p \in 1 .. Len(s) + Len(t) :
              (s \o t)[p] = IF p <= Len(s) THEN s[p] ELSE t[p - Len(s)]
OBVIOUS

LEMMA SeqRest ==
  ASSUME NEW S, NEW s \in Seq(S), NEW m \in 0 .. Len(s)
  PROVE  /\ SubSeq(s, m + 1, Len(s)) \in Seq(S)
         /\ Len(SubSeq(s, m + 1, Len(s))) = Len(s) - m
         /\ \A p \in 1 .. Len(s) - m : SubSeq(s, m + 1, Len(s))[p] = s[p + m]
OBVIOUS

LEMMA DequeElements ==
  ASSUME NEW Bases, NEW held \in Deque(Bases)
  PROVE  /\ Len(held) \in Nat
         /\ DOMAIN held = 1 .. Len(held)
         /\ \A p \in 1 .. Len(held) : /\ held[p] \in EntryOf(Bases)
                                      /\ held[p].base \in Bases
                                      /\ held[p].done \in BOOLEAN
<1>1. /\ Len(held) \in Nat
      /\ DOMAIN held = 1 .. Len(held)
      /\ \A p \in 1 .. Len(held) : held[p] \in EntryOf(Bases)
  BY DEF Deque
<1> QED BY <1>1 DEF EntryOf

\* Entries with whatever fields: to mark one changes nothing else of it.
Markable(E) ==
    \A e \in E :
      /\ e.done \in BOOLEAN
      /\ [e EXCEPT !.done = TRUE] \in E
      /\ [e EXCEPT !.done = TRUE].base = e.base
      /\ [e EXCEPT !.done = TRUE].done

LEMMA EntriesMarkable ==
  ASSUME NEW Bases
  PROVE  Markable(EntryOf(Bases)) /\ Deque(Bases) = Seq(EntryOf(Bases))
BY DEF Markable, EntryOf, Deque

\* ReleasableCount is the length of the longest prefix that was given back.
LEMMA CountExact ==
  ASSUME NEW E, NEW held \in Seq(E)
  PROVE  /\ ReleasableCount(held) \in 0 .. Len(held)
         /\ \A p \in 1 .. ReleasableCount(held) : held[p].done
         /\ ReleasableCount(held) < Len(held) => ~held[ReleasableCount(held) + 1].done
<1> DEFINE S == {n \in 0 .. Len(held) : n < Len(held) => ~held[n + 1].done}
<1>1. S \in SUBSET Nat /\ Len(held) \in S
  OBVIOUS
<1>2. PICK m \in S : \A x \in S : m <= x
  <2> HIDE DEF S
  <2> QED BY <1>1, LeastExists
<1>3. m \in 0 .. Len(held) /\ (m < Len(held) => ~held[m + 1].done) /\ Len(held) \in Nat
  OBVIOUS
<1>4. ASSUME NEW p \in 1 .. m PROVE held[p].done
  <2>1. p - 1 \in 0 .. Len(held) /\ p - 1 < m /\ p - 1 < Len(held) /\ (p - 1) + 1 = p
    BY <1>3
  <2>2. p - 1 \notin S
    BY <1>2, <1>3, <2>1
  <2>3. ~ (p - 1 < Len(held) => ~held[(p - 1) + 1].done)
    BY <2>1, <2>2
  <2> QED BY <2>1, <2>3
<1>5. \E n \in 0 .. Len(held) : /\ \A p \in 1 .. n : held[p].done
                                /\ n < Len(held) => ~held[n + 1].done
  BY <1>3, <1>4
<1> QED BY <1>5, Zenon DEF ReleasableCount

\* It depends on nothing but which entries were given back.
LEMMA CountSame ==
  ASSUME NEW E, NEW held \in Seq(E), NEW F, NEW other \in Seq(F), Len(held) = Len(other),
         \A p \in 1 .. Len(held) : held[p].done = other[p].done
  PROVE  ReleasableCount(held) = ReleasableCount(other)
<1>1. PICK m : m = ReleasableCount(held)
  OBVIOUS
<1>2. PICK n : n = ReleasableCount(other)
  OBVIOUS
<1>3. /\ m \in 0 .. Len(held) /\ \A p \in 1 .. m : held[p].done
      /\ m < Len(held) => ~held[m + 1].done
  BY <1>1, CountExact
<1>4. /\ n \in 0 .. Len(held) /\ \A p \in 1 .. n : other[p].done
      /\ n < Len(held) => ~other[n + 1].done
  BY <1>2, CountExact
<1>5. Len(held) \in Nat
  OBVIOUS
<1>6. ~ (m < n)
  <2> SUFFICES ASSUME m < n PROVE FALSE
    OBVIOUS
  <2>1. m + 1 \in 1 .. n /\ m + 1 \in 1 .. Len(held) /\ m < Len(held)
    BY <1>3, <1>4, <1>5
  <2> QED BY <1>3, <1>4, <2>1
<1>7. ~ (n < m)
  <2> SUFFICES ASSUME n < m PROVE FALSE
    OBVIOUS
  <2>1. n + 1 \in 1 .. m /\ n + 1 \in 1 .. Len(held) /\ n < Len(held)
    BY <1>3, <1>4, <1>5
  <2> QED BY <1>3, <1>4, <2>1
<1> QED BY <1>1, <1>2, <1>3, <1>4, <1>5, <1>6, <1>7

\* Marking changes nothing but who was given back.
LEMMA MarkEach ==
  ASSUME NEW E, Markable(E), NEW held \in Seq(E), NEW bases
  PROVE  /\ Mark(held, bases) \in Seq(E)
         /\ Len(Mark(held, bases)) = Len(held)
         /\ \A p \in 1 .. Len(held) :
              /\ Mark(held, bases)[p] \in {held[p], [held[p] EXCEPT !.done = TRUE]}
              /\ Mark(held, bases)[p].base = held[p].base
              /\ Mark(held, bases)[p].done = (held[p].done \/ (held[p].base \in bases /\ IsFirstAt(held, p)))
<1> DEFINE M == Mark(held, bases)
<1>1. /\ DOMAIN held = 1 .. Len(held) /\ Len(held) \in Nat
      /\ \A p \in 1 .. Len(held) : held[p] \in E
  OBVIOUS
<1>2. ASSUME NEW p \in 1 .. Len(held)
      PROVE  /\ M[p] \in E
             /\ M[p] \in {held[p], [held[p] EXCEPT !.done = TRUE]}
             /\ M[p].base = held[p].base
             /\ M[p].done = (held[p].done \/ (held[p].base \in bases /\ IsFirstAt(held, p)))
  <2>1. PICK e \in E : e = held[p] /\ e.done \in BOOLEAN
    BY <1>1 DEF Markable
  <2>2. M[p] = IF held[p].base \in bases /\ IsFirstAt(held, p)
                 THEN [held[p] EXCEPT !.done = TRUE]
                 ELSE held[p]
    BY <1>1 DEF Mark
  <2>3. CASE held[p].base \in bases /\ IsFirstAt(held, p)
    <3>1. M[p] = [e EXCEPT !.done = TRUE]
      BY <2>1, <2>2, <2>3
    <3>2. /\ [e EXCEPT !.done = TRUE] \in E
          /\ [e EXCEPT !.done = TRUE].base = e.base
          /\ [e EXCEPT !.done = TRUE].done
      BY Zenon DEF Markable
    <3>3. [e EXCEPT !.done = TRUE].done \in BOOLEAN
      BY <3>2, Zenon DEF Markable
    <3> HIDE DEF M
    <3> QED BY <2>1, <2>3, <3>1, <3>2, <3>3
  <2>4. CASE ~(held[p].base \in bases /\ IsFirstAt(held, p))
    BY <2>1, <2>2, <2>4
  <2> QED BY <2>3, <2>4
<1>3. M = [p \in 1 .. Len(held) |-> M[p]]
  BY <1>1 DEF Mark
<1>4. M \in Seq(E) /\ Len(M) = Len(held)
  <2> HIDE DEF M
  <2> QED BY <1>1, <1>2, <1>3
<1> QED BY <1>2, <1>4

\* What stays in the deque is a suffix of it that starts with an entry in use.
LEMMA DropEach ==
  ASSUME NEW E, NEW held \in Seq(E)
  PROVE  /\ ReleasableCount(held) \in 0 .. Len(held)
         /\ DropReleased(held) \in Seq(E)
         /\ Len(DropReleased(held)) = Len(held) - ReleasableCount(held)
         /\ \A p \in 1 .. Len(held) - ReleasableCount(held) :
              DropReleased(held)[p] = held[p + ReleasableCount(held)]
         /\ DropReleased(held) # <<>> => ~DropReleased(held)[1].done
<1>1. Len(held) \in Nat
  OBVIOUS
<1>2. /\ ReleasableCount(held) \in 0 .. Len(held)
      /\ ReleasableCount(held) < Len(held) => ~held[ReleasableCount(held) + 1].done
  BY CountExact
<1>3. /\ DropReleased(held) \in Seq(E)
      /\ Len(DropReleased(held)) = Len(held) - ReleasableCount(held)
      /\ \A p \in 1 .. Len(held) - ReleasableCount(held) :
           DropReleased(held)[p] = held[p + ReleasableCount(held)]
  BY <1>1, <1>2 DEF DropReleased
<1>4. ASSUME DropReleased(held) # <<>> PROVE ~DropReleased(held)[1].done
  <2>1. Len(DropReleased(held)) > 0
    BY <1>3, <1>4
  <2>2. DropReleased(held)[1] = held[ReleasableCount(held) + 1]
    BY <1>1, <1>2, <1>3, <2>1
  <2> QED BY <1>1, <1>2, <1>3, <2>1, <2>2
<1> QED BY <1>2, <1>3, <1>4

\* The same for a deque whose entries have no other fields.
LEMMA MarkKeeps ==
  ASSUME NEW Bases, NEW held \in Deque(Bases), NEW bases
  PROVE  /\ Mark(held, bases) \in Deque(Bases)
         /\ Len(Mark(held, bases)) = Len(held)
         /\ \A p \in 1 .. Len(held) :
              /\ Mark(held, bases)[p].base = held[p].base
              /\ Mark(held, bases)[p].done = (held[p].done \/ (held[p].base \in bases /\ IsFirstAt(held, p)))
<1>1. held \in Seq(EntryOf(Bases)) /\ Markable(EntryOf(Bases))
  BY EntriesMarkable
<1>2. /\ Mark(held, bases) \in Seq(EntryOf(Bases))
      /\ Len(Mark(held, bases)) = Len(held)
      /\ \A p \in 1 .. Len(held) :
           /\ Mark(held, bases)[p].base = held[p].base
           /\ Mark(held, bases)[p].done = (held[p].done \/ (held[p].base \in bases /\ IsFirstAt(held, p)))
  BY <1>1, MarkEach
<1> QED BY <1>2, EntriesMarkable

LEMMA DropReleasedKeeps ==
  ASSUME NEW Bases, NEW held \in Deque(Bases)
  PROVE  /\ ReleasableCount(held) \in 0 .. Len(held)
         /\ DropReleased(held) \in Deque(Bases)
         /\ Len(DropReleased(held)) = Len(held) - ReleasableCount(held)
         /\ \A p \in 1 .. Len(held) - ReleasableCount(held) :
              DropReleased(held)[p] = held[p + ReleasableCount(held)]
         /\ DropReleased(held) # <<>> => ~DropReleased(held)[1].done
<1>1. held \in Seq(EntryOf(Bases))
  BY EntriesMarkable
<1> QED BY <1>1, DropEach, EntriesMarkable, Zenon
-----------------------------------------------------------------------------
\* The remainder of what is less than three turns of the ring.
LEMMA RingRemainder ==
  ASSUME NEW S \in Nat \ {0}, NEW a \in 0 .. 3 * S - 1
  PROVE  a % S = IF a < S THEN a ELSE IF a < 2 * S THEN a - S ELSE a - 2 * S
OBVIOUS

\* A remainder is on the ring.
LEMMA RingRange ==
  ASSUME NEW S \in Nat \ {0}, NEW a \in Nat
  PROVE  a % S \in 0 .. S - 1
OBVIOUS

\* A full turn of the ring changes nothing.
LEMMA RingTurn ==
  ASSUME NEW S \in Nat \ {0}, NEW a \in 0 .. 2 * S - 1
  PROVE  (a + S) % S = a % S
<1>1. PICK b \in 0 .. 3 * S - 1 : b = a + S
  OBVIOUS
<1>2. b % S = IF b < S THEN b ELSE IF b < 2 * S THEN b - S ELSE b - 2 * S
  BY RingRemainder
<1>3. a % S = IF a < S THEN a ELSE a - S
  OBVIOUS
<1> QED BY <1>1, <1>2, <1>3

\* How many slots of a Buffer are in use.
LEMMA ReadySlots ==
  ASSUME NEW size \in Nat \ {0}, NEW buf \in BufferStates(size)
  PROVE  /\ ready(buf, size) = IF buf.write >= buf.read
                                 THEN buf.write - buf.read
                                 ELSE size + buf.write - buf.read
         /\ ready(buf, size) \in 0 .. size - 1
         /\ available(buf, size) = size - ready(buf, size)
         /\ available(buf, size) \in 1 .. size
<1>1. buf.read \in 0 .. size - 1 /\ buf.write \in 0 .. size - 1
  BY DEF BufferStates
<1>2. PICK a \in 0 .. 3 * size - 1 : a = size + (buf.write - buf.read)
  BY <1>1
<1>3. a % size = IF a < size THEN a ELSE IF a < 2 * size THEN a - size ELSE a - 2 * size
  BY RingRemainder
<1>4. ready(buf, size) = a % size
  BY <1>2 DEF ready
<1> QED BY <1>1, <1>2, <1>3, <1>4 DEF available

\* A reservation that passes its assert adds to what is in use.
LEMMA ReserveSlots ==
  ASSUME NEW size \in Nat \ {0}, NEW buf \in BufferStates(size), NEW n \in Nat,
         CanReserve(buf, n, size)
  PROVE  /\ reserve(buf, n, size) \in BufferStates(size)
         /\ reserve(buf, n, size).read = buf.read
         /\ ready(reserve(buf, n, size), size) = ready(buf, size) + n
<1>1. buf.read \in 0 .. size - 1 /\ buf.write \in 0 .. size - 1
  BY DEF BufferStates
<1>2. n < size - ready(buf, size)
  BY DEF CanReserve, available
<1>3. PICK a \in 0 .. 3 * size - 1 : a = buf.write + n
  BY <1>1, <1>2, ReadySlots
<1>4. a % size = IF a < size THEN a ELSE IF a < 2 * size THEN a - size ELSE a - 2 * size
  BY RingRemainder
<1>5. PICK w : w = a % size
  OBVIOUS
<1>6. w \in 0 .. size - 1
  <2>1. a \in Nat
    OBVIOUS
  <2>2. a % size \in 0 .. size - 1
    BY <2>1, RingRange
  <2> QED BY <1>5, <2>2
<1>7. reserve(buf, n, size) = [buf EXCEPT !.write = w]
  BY <1>3, <1>5 DEF reserve
<1>8. /\ reserve(buf, n, size) \in BufferStates(size)
      /\ reserve(buf, n, size).read = buf.read
      /\ reserve(buf, n, size).write = w
  BY <1>6, <1>7 DEF BufferStates
<1>9. PICK r : r = ready(buf, size)
  OBVIOUS
<1>10. /\ r = IF buf.write >= buf.read THEN buf.write - buf.read
                                     ELSE size + buf.write - buf.read
       /\ ready(reserve(buf, n, size), size) =
            IF w >= buf.read THEN w - buf.read ELSE size + w - buf.read
  BY <1>8, <1>9, ReadySlots
<1> QED BY <1>1, <1>2, <1>3, <1>4, <1>5, <1>6, <1>8, <1>9, <1>10

\* A release that passes its assert takes away from what is in use.
LEMMA ReleaseSlots ==
  ASSUME NEW size \in Nat \ {0}, NEW buf \in BufferStates(size), NEW n \in Nat,
         CanRelease(buf, n, size)
  PROVE  /\ release(buf, n, size) \in BufferStates(size)
         /\ release(buf, n, size).write = buf.write
         /\ ready(release(buf, n, size), size) = ready(buf, size) - n
<1>1. buf.read \in 0 .. size - 1 /\ buf.write \in 0 .. size - 1
  BY DEF BufferStates
<1>2. n <= ready(buf, size)
  BY ReadySlots DEF CanRelease
<1>3. PICK a \in 0 .. 3 * size - 1 : a = buf.read + n
  BY <1>1, <1>2, ReadySlots
<1>4. a % size = IF a < size THEN a ELSE IF a < 2 * size THEN a - size ELSE a - 2 * size
  BY RingRemainder
<1>5. PICK w : w = a % size
  OBVIOUS
<1>6. w \in 0 .. size - 1
  <2>1. a \in Nat
    OBVIOUS
  <2>2. a % size \in 0 .. size - 1
    BY <2>1, RingRange
  <2> QED BY <1>5, <2>2
<1>7. release(buf, n, size) = [buf EXCEPT !.read = w]
  BY <1>3, <1>5 DEF release
<1>8. /\ release(buf, n, size) \in BufferStates(size)
      /\ release(buf, n, size).write = buf.write
      /\ release(buf, n, size).read = w
  BY <1>6, <1>7 DEF BufferStates
<1>9. PICK r : r = ready(buf, size)
  OBVIOUS
<1>10. /\ r = IF buf.write >= buf.read THEN buf.write - buf.read
                                     ELSE size + buf.write - buf.read
       /\ ready(release(buf, n, size), size) =
            IF buf.write >= w THEN buf.write - w ELSE size + buf.write - w
  BY <1>8, <1>9, ReadySlots
<1> QED BY <1>1, <1>2, <1>3, <1>4, <1>5, <1>6, <1>8, <1>9, <1>10

\* On from a remainder is as on from the number itself.
LEMMA RingShift ==
  ASSUME NEW S \in Nat \ {0}, NEW x \in 0 .. S - 1, NEW k \in 0 .. S - 1,
         NEW d \in 1 .. S - 1
  PROVE  (((x + k) % S) + S - d) % S = (x + k + S - d) % S
<1>1. CASE x + k < S
  <2>1. (x + k) % S = x + k
    BY <1>1
  <2> QED BY <2>1
<1>2. CASE x + k >= S
  <2>1. (x + k) % S = x + k - S
    BY <1>2
  <2>2. x + k - d \in 0 .. 2 * S - 1
    BY <1>2
  <2>3. ((x + k - d) + S) % S = (x + k - d) % S
    BY <2>2, RingTurn
  <2>4. ((x + k) % S) + S - d = x + k - d /\ x + k + S - d = (x + k - d) + S
    BY <2>1
  <2> QED BY <2>3, <2>4
<1> QED BY <1>1, <1>2

\* Multiples of S are at least S apart.
LEMMA MultiplesApart ==
  ASSUME NEW S \in Nat \ {0}, NEW x \in Int, NEW y \in Int, x > y
  PROVE  (S * x) >= (S * y) + S
<1>1. PICK e \in Nat : x = y + 1 + e
  <2>1. x - y - 1 \in Nat /\ x = y + 1 + (x - y - 1)
    OBVIOUS
  <2> QED BY <2>1
<1>2. (S * x) = (S * y) + S + (S * e)
  BY <1>1
<1>3. (S * e) >= 0 /\ (S * e) \in Int /\ (S * y) \in Int
  OBVIOUS
<1> QED BY <1>2, <1>3

\* A number has one remainder.
LEMMA RemainderUnique ==
  ASSUME NEW S \in Nat \ {0}, NEW q \in Int, NEW t \in Int, NEW c \in 0 .. S - 1, NEW d \in 0 .. S - 1,
         (S * q) + c = (S * t) + d
  PROVE  c = d
<1>1. ASSUME NEW x \in Int, NEW y \in Int, x > y PROVE (S * x) >= (S * y) + S
  BY <1>1, MultiplesApart
<1>2. (S * q) \in Int /\ (S * t) \in Int
  OBVIOUS
<1>3. ~ (q > t)
  BY <1>1, <1>2
<1>4. ~ (t > q)
  BY <1>1, <1>2
<1>5. q = t
  BY <1>3, <1>4
<1> QED BY <1>2, <1>5

\* On from a remainder, however far.
LEMMA RingPlus ==
  ASSUME NEW S \in Nat \ {0}, NEW a \in Nat, NEW b \in Nat
  PROVE  ((a % S) + b) % S = (a + b) % S
<1>1. ASSUME NEW x \in Nat PROVE \E q \in Int : x = (S * q) + (x % S) /\ x % S \in 0 .. S - 1
  <2>1. (x \div S) \in Int /\ x = (S * (x \div S)) + (x % S) /\ x % S \in 0 .. S - 1
    OBVIOUS
  <2> QED BY <2>1
<1>2. PICK r \in 0 .. S - 1 : r = a % S
  BY RingRange
<1>3. PICK q \in Int : a = (S * q) + r
  BY <1>1, <1>2
<1>4. r + b \in Nat /\ a + b \in Nat
  OBVIOUS
<1>5. PICK t \in Int : r + b = (S * t) + ((r + b) % S) /\ (r + b) % S \in 0 .. S - 1
  BY <1>1, <1>4
<1>6. PICK u \in Int : a + b = (S * u) + ((a + b) % S) /\ (a + b) % S \in 0 .. S - 1
  BY <1>1, <1>4
<1>7. PICK c \in 0 .. S - 1, d \in 0 .. S - 1 : c = (r + b) % S /\ d = (a + b) % S
  BY <1>5, <1>6
<1>8. (S * (q + t)) + c = (S * u) + d
  <2>1. S * (q + t) = (S * q) + (S * t) /\ (S * q) \in Int /\ (S * t) \in Int /\ (S * u) \in Int
    OBVIOUS
  <2> QED BY <1>3, <1>5, <1>6, <1>7, <2>1
<1>9. c = d
  BY <1>8, RemainderUnique
<1> QED BY <1>2, <1>7, <1>9, Zenon
=============================================================================
