--------------------------- MODULE TestPeersProofs ---------------------------
(***************************************************************************)
(* What TestPeers keeps, for every number of credits: the chunks of a      *)
(* process, that nothing is thrown while both processes live, and that no  *)
(* direction of a process loses its last chunk to the other.               *)
(***************************************************************************)
EXTENDS TestPeers, DataLemmas, FiniteSetTheorems

(* The inductive invariant. *)

\* What is completed with its key, and what is with the network, is pending,
\* and all of it is different.
KeysSplit(queue, flying, keys) ==
    /\ \A j \in 1 .. Len(queue) : IsKey(queue[j]) => queue[j] \in keys
    /\ \A k \in 1 .. Len(flying) : flying[k] \in keys
    /\ \A j, k \in 1 .. Len(queue) : j # k /\ IsKey(queue[j]) => queue[j] # queue[k]
    /\ \A j, k \in 1 .. Len(flying) : j # k => flying[j] # flying[k]
    /\ \A j \in 1 .. Len(queue) : \A k \in 1 .. Len(flying) : queue[j] # flying[k]

KeysApart(p, d) == KeysSplit(completed[p][d], posted[p][d], pending[p][d])

\* Only the end of the other process completes anything with an error.
ErrorsAlone(p, d) ==
    \A j \in 1 .. Len(completed[p][d]) : ~IsKey(completed[p][d][j]) => Ended(Other(p))

\* Each chunk is in the pool or pending in one direction, within the credits.
ChunksApart(p) ==
    /\ pool[p] \cup pending[p]["send"] \cup pending[p]["recv"] = Chunks
    /\ pool[p] \cap pending[p]["send"] = {}
    /\ pool[p] \cap pending[p]["recv"] = {}
    /\ pending[p]["send"] \cap pending[p]["recv"] = {}
    /\ \A d \in Direction : Cardinality(pending[p][d]) <= Credits

\* Nothing is sent before the receives are posted.
NothingSentYet(p) == pc[p] = "prepost" => pending[p]["send"] = {}

Lives(p) ==
    /\ \A d \in Direction : KeysApart(p, d) /\ ErrorsAlone(p, d)
    /\ ChunksApart(p)
    /\ NothingSentYet(p)

PeersInv ==
    /\ TypeOK
    /\ \A p \in Peers : ~Ended(p) => Lives(p)
    /\ ThrowsOnlyAlone
-----------------------------------------------------------------------------
(* Chunks and queues. *)

\* Every non-empty set of chunks has a last one.
LEMMA GreatestExists ==
  ASSUME NEW n \in Nat, NEW S \in SUBSET (0 .. n), S # {}
  PROVE  \E m \in S : \A x \in S : x <= m
<1> DEFINE T == {n - x : x \in S}
<1>1. T \in SUBSET Nat /\ T # {}
  <2>1. \A x \in S : n - x \in Nat
    OBVIOUS
  <2>2. PICK x \in S : n - x \in T
    OBVIOUS
  <2> QED BY <2>1, <2>2
<1>2. PICK t \in T : \A y \in T : t <= y
  <2> HIDE DEF T
  <2> QED BY <1>1, LeastExists
<1>3. PICK m \in S : t = n - m
  OBVIOUS
<1>4. \A x \in S : n - x \in T
  OBVIOUS
<1>5. \A x \in S : n - m <= n - x
  BY <1>2, <1>3, <1>4
<1> QED BY <1>5

LEMMA AllocatedThere ==
  ASSUME twoWay \in BOOLEAN, NEW free \in SUBSET Chunks, free # {}
  PROVE  Alloc(free) \in free
<1>1. PICK n \in Nat : n = NumChunks
  BY CreditsAssumption DEF NumChunks
<1>2. free \in SUBSET (0 .. n) /\ n \in Nat
  BY <1>1 DEF Chunks
<1>3. \E m \in free : \A x \in free : x <= m
  BY <1>2, GreatestExists
<1> QED BY <1>3 DEF Alloc

LEMMA ChunksFinite ==
  ASSUME twoWay \in BOOLEAN
  PROVE  /\ NumChunks \in Nat /\ IsFiniteSet(Chunks) /\ Cardinality(Chunks) = NumChunks
         /\ Chunks \in SUBSET Nat
         /\ \A S \in SUBSET Chunks : IsFiniteSet(S) /\ Cardinality(S) \in Nat
<1>1. NumChunks \in Nat /\ NumChunks > 0
  BY CreditsAssumption DEF NumChunks
<1>2. IsFiniteSet(Chunks) /\ Cardinality(Chunks) = NumChunks
  <2>1. 0 \in Int /\ NumChunks - 1 \in Int /\ ~(0 > NumChunks - 1)
    BY <1>1
  <2>2. Cardinality(0 .. NumChunks - 1) = (NumChunks - 1) - 0 + 1 /\ IsFiniteSet(0 .. NumChunks - 1)
    BY <2>1, FS_Interval
  <2>3. (NumChunks - 1) - 0 + 1 = NumChunks
    BY <1>1
  <2> QED BY <2>2, <2>3 DEF Chunks
<1>3. Chunks \in SUBSET Nat
  BY <1>1 DEF Chunks
<1>4. ASSUME NEW S \in SUBSET Chunks PROVE IsFiniteSet(S) /\ Cardinality(S) \in Nat
  <2>1. IsFiniteSet(S)
    BY <1>2, FS_Subset
  <2> QED BY <2>1, FS_CardinalityType
<1> QED BY <1>1, <1>2, <1>3, <1>4

\* A queue without repetitions has as many elements as entries.
LEMMA ElementsCounted ==
  ASSUME NEW S, NEW s \in Seq(S), \A j, k \in 1 .. Len(s) : j # k => s[j] # s[k]
  PROVE  Cardinality(Elements(s)) = Len(s)
<1>1. Len(s) \in Nat /\ DOMAIN s = 1 .. Len(s) /\ s \in [1 .. Len(s) -> S]
  OBVIOUS
<1>2. Elements(s) = {s[k] : k \in 1 .. Len(s)}
  BY <1>1 DEF Elements
<1>3. s \in Bijection(1 .. Len(s), Elements(s))
  <2>1. s \in [1 .. Len(s) -> Elements(s)]
    BY <1>1, <1>2
  <2>2. \A t \in Elements(s) : \E k \in 1 .. Len(s) : s[k] = t
    BY <1>2
  <2>3. \A j, k \in 1 .. Len(s) : s[j] = s[k] => j = k
    OBVIOUS
  <2> QED BY <2>1, <2>2, <2>3 DEF Bijection, Injection, Surjection, IsInjective
<1>4. IsFiniteSet(1 .. Len(s)) /\ Cardinality(1 .. Len(s)) = Len(s)
  <2>1. 1 \in Int /\ Len(s) \in Int /\ Len(s) \in Nat
    BY <1>1
  <2>2. Cardinality(1 .. Len(s)) = IF 1 > Len(s) THEN 0 ELSE Len(s) - 1 + 1
    BY <2>1, FS_Interval
  <2>3. (IF 1 > Len(s) THEN 0 ELSE Len(s) - 1 + 1) = Len(s)
    BY <2>1
  <2>4. IsFiniteSet(1 .. Len(s))
    BY <2>1, FS_Interval
  <2> QED BY <2>2, <2>3, <2>4
<1>5. ExistsBijection(1 .. Len(s), Elements(s))
  BY <1>3 DEF ExistsBijection
<1> QED BY <1>4, <1>5, FS_Bijection

\* The keys at the front of a queue.
LEMMA KeysFirstExact ==
  ASSUME NEW S, NEW queue \in Seq(S)
  PROVE  /\ KeysFirst(queue) \in 0 .. Len(queue)
         /\ \A k \in 1 .. KeysFirst(queue) : IsKey(queue[k])
         /\ KeysFirst(queue) < Len(queue) => ~IsKey(queue[KeysFirst(queue) + 1])
<1>1. Len(queue) \in Nat
  OBVIOUS
<1>2. \E n \in 0 .. Len(queue) : /\ \A k \in 1 .. n : IsKey(queue[k])
                                 /\ n < Len(queue) => ~IsKey(queue[n + 1])
  <2>1. CASE \A k \in 1 .. Len(queue) : IsKey(queue[k])
    BY <1>1, <2>1
  <2>2. CASE \E k \in 1 .. Len(queue) : ~IsKey(queue[k])
    <3> DEFINE B == {k \in 1 .. Len(queue) : ~IsKey(queue[k])}
    <3>1. B \in SUBSET Nat /\ B # {}
      BY <1>1, <2>2
    <3>2. PICK m \in B : \A x \in B : m <= x
      <4> HIDE DEF B
      <4> QED BY <3>1, LeastExists
    <3>3. m - 1 \in 0 .. Len(queue) /\ (m - 1) + 1 = m /\ ~IsKey(queue[m])
      BY <1>1
    <3>4. \A k \in 1 .. m - 1 : IsKey(queue[k])
      BY <1>1, <3>2
    <3> QED BY <3>3, <3>4
  <2> QED BY <2>1, <2>2
<1> QED BY <1>2 DEF KeysFirst

\* A poll: what it takes was pending, each once, and the rest stays apart.
PolledOff(C, queue, flying, keys, done, rest) ==
    /\ done \in Seq(C)
    /\ Elements(done) \subseteq keys /\ Elements(done) \subseteq C
    /\ Cardinality(Elements(done)) = Len(done)
    /\ rest \in Seq(C \cup {Error})
    /\ KeysSplit(rest, flying, keys \ Elements(done))
    /\ \A j \in 1 .. Len(rest) : \E k \in 1 .. Len(queue) : rest[j] = queue[k]

LEMMA SplitPolled ==
  ASSUME NEW C \in SUBSET Nat, NEW queue \in Seq(C \cup {Error}), NEW flying \in Seq(C), NEW keys,
         KeysSplit(queue, flying, keys),
         NEW done, done = SubSeq(queue, 1, KeysFirst(queue))
  PROVE  PolledOff(C, queue, flying, keys, done, NotDone(queue))
<1> DEFINE rest == NotDone(queue)
<1>1. PICK L \in Nat : L = Len(queue) /\ \A k \in 1 .. L : queue[k] \in C \cup {Error}
  OBVIOUS
<1>2. PICK n \in 0 .. L :
        /\ n = KeysFirst(queue) /\ \A k \in 1 .. n : IsKey(queue[k])
        /\ n < L => ~IsKey(queue[n + 1])
  BY <1>1, KeysFirstExact
<1>3. done \in Seq(C \cup {Error}) /\ Len(done) = n /\ \A k \in 1 .. n : done[k] = queue[k]
  BY <1>1, <1>2
<1>4. \A k \in 1 .. n : done[k] \in C /\ done[k] \in keys /\ IsKey(queue[k])
  BY <1>1, <1>2, <1>3 DEF IsKey, KeysSplit
<1>5. done \in Seq(C) /\ DOMAIN done = 1 .. n
  BY <1>3, <1>4
<1>6. Elements(done) = {queue[k] : k \in 1 .. n}
  BY <1>3, <1>5 DEF Elements
<1>7. Elements(done) \subseteq keys /\ Elements(done) \subseteq C
  BY <1>3, <1>4, <1>6
<1>8. \A j, k \in 1 .. n : j # k => done[j] # done[k]
  BY <1>1, <1>3, <1>4 DEF KeysSplit
<1>9. Cardinality(Elements(done)) = Len(done)
  BY <1>3, <1>5, <1>8, ElementsCounted
<1>10. /\ rest \in Seq(C \cup {Error}) /\ Len(rest) = L - n
       /\ \A j \in 1 .. L - n : rest[j] = queue[j + n] /\ j + n \in 1 .. L
  <2>1. /\ SubSeq(queue, n + 1, Len(queue)) \in Seq(C \cup {Error})
        /\ Len(SubSeq(queue, n + 1, Len(queue))) = Len(queue) - n
        /\ \A p \in 1 .. Len(queue) - n : SubSeq(queue, n + 1, Len(queue))[p] = queue[p + n]
    BY <1>1, SeqRest
  <2>2. rest = SubSeq(queue, n + 1, Len(queue))
    BY <1>2 DEF NotDone
  <2> HIDE DEF rest
  <2> QED BY <1>1, <2>1, <2>2
<1> HIDE DEF rest
<1>11. KeysSplit(rest, flying, keys \ Elements(done))
  <2>1. \A j \in 1 .. Len(rest) : IsKey(rest[j]) => rest[j] \in keys \ Elements(done)
    <3> SUFFICES ASSUME NEW j \in 1 .. L - n, IsKey(queue[j + n])
                 PROVE  queue[j + n] \in keys \ Elements(done)
      BY <1>10
    <3>1. queue[j + n] \in keys
      BY <1>1, <1>10 DEF KeysSplit
    <3>2. \A k \in 1 .. n : queue[j + n] # queue[k]
      <4>1. \A k \in 1 .. n : k \in 1 .. L /\ k # j + n
        OBVIOUS
      <4> QED BY <1>1, <1>10, <4>1 DEF KeysSplit
    <3> QED BY <1>6, <3>1, <3>2
  <2>2. \A k \in 1 .. Len(flying) : flying[k] \in keys \ Elements(done)
    <3> SUFFICES ASSUME NEW k \in 1 .. Len(flying) PROVE flying[k] \in keys \ Elements(done)
      OBVIOUS
    <3>1. flying[k] \in keys
      BY DEF KeysSplit
    <3>2. \A j \in 1 .. n : queue[j] # flying[k]
      <4>1. \A j \in 1 .. n : j \in 1 .. L
        OBVIOUS
      <4> QED BY <1>1, <4>1 DEF KeysSplit
    <3> QED BY <1>6, <3>1, <3>2
  <2>3. \A j, k \in 1 .. Len(rest) : j # k /\ IsKey(rest[j]) => rest[j] # rest[k]
    <3> SUFFICES ASSUME NEW j \in 1 .. L - n, NEW k \in 1 .. L - n, j # k, IsKey(queue[j + n])
                 PROVE  queue[j + n] # queue[k + n]
      BY <1>10
    <3>1. j + n # k + n
      OBVIOUS
    <3> QED BY <1>1, <1>10, <3>1 DEF KeysSplit
  <2>4. \A j \in 1 .. Len(rest) : \A k \in 1 .. Len(flying) : rest[j] # flying[k]
    BY <1>1, <1>10 DEF KeysSplit
  <2>5. \A j, k \in 1 .. Len(flying) : j # k => flying[j] # flying[k]
    BY DEF KeysSplit
  <2> QED BY <2>1, <2>2, <2>3, <2>4, <2>5 DEF KeysSplit
<1>12. \A j \in 1 .. Len(rest) : \E k \in 1 .. Len(queue) : rest[j] = queue[k]
  BY <1>1, <1>10
<1> QED BY <1>5, <1>7, <1>9, <1>10, <1>11, <1>12 DEF rest, PolledOff

\* A post of what is not pending.
LEMMA SplitPosted ==
  ASSUME NEW C \in SUBSET Nat, NEW queue \in Seq(C \cup {Error}), NEW flying \in Seq(C), NEW keys,
         KeysSplit(queue, flying, keys), NEW c \in C, c \notin keys
  PROVE  /\ KeysSplit(queue, Append(flying, c), keys \cup {c})
         /\ Append(flying, c) \in Seq(C)
<1>1. PICK t \in Seq(C), L \in Nat :
        /\ t = Append(flying, c) /\ L = Len(flying) /\ Len(t) = L + 1
        /\ \A k \in 1 .. L + 1 : t[k] = IF k <= L THEN flying[k] ELSE c
  <2>1. /\ Append(flying, c) \in Seq(C) /\ Len(flying) \in Nat
        /\ Len(Append(flying, c)) = Len(flying) + 1
        /\ \A p \in 1 .. Len(flying) + 1 :
             Append(flying, c)[p] = IF p <= Len(flying) THEN flying[p] ELSE c
    BY SeqAppend, SeqType
  <2> QED BY <2>1, Zenon
<1>2. \A j \in 1 .. Len(queue) : queue[j] # c
  <2>1. \A j \in 1 .. Len(queue) : IsKey(queue[j]) => queue[j] # c
    BY DEF KeysSplit
  <2>2. \A j \in 1 .. Len(queue) : ~IsKey(queue[j]) => queue[j] # c
    BY DEF IsKey, Error
  <2> QED BY <2>1, <2>2
<1>3. \A k \in 1 .. L : flying[k] \in keys /\ flying[k] # c
  BY <1>1 DEF KeysSplit
<1>4. \A k \in 1 .. L + 1 : \/ k \in 1 .. L /\ t[k] = flying[k]
                            \/ k = L + 1 /\ t[k] = c
  BY <1>1
<1>5. \A j, k \in 1 .. L : j # k => flying[j] # flying[k]
  BY <1>1 DEF KeysSplit
<1>6. \A j, k \in 1 .. L + 1 : j # k => t[j] # t[k]
  BY <1>3, <1>4, <1>5
<1>7. \A j \in 1 .. Len(queue) : \A k \in 1 .. L + 1 : queue[j] # t[k]
  BY <1>1, <1>2, <1>4 DEF KeysSplit
<1>8. \A k \in 1 .. L + 1 : t[k] \in keys \cup {c}
  BY <1>3, <1>4
<1>9. KeysSplit(queue, t, keys \cup {c})
  BY <1>1, <1>6, <1>7, <1>8 DEF KeysSplit
<1> QED BY <1>1, <1>9

\* What the network completes, with its key or with an error.
LEMMA SplitCompleted ==
  ASSUME NEW C \in SUBSET Nat, NEW queue \in Seq(C \cup {Error}), NEW flying \in Seq(C), NEW keys,
         KeysSplit(queue, flying, keys), flying # <<>>, NEW c \in {Head(flying), Error}
  PROVE  /\ KeysSplit(Append(queue, c), Tail(flying), keys)
         /\ Append(queue, c) \in Seq(C \cup {Error}) /\ Tail(flying) \in Seq(C)
         /\ \A j \in 1 .. Len(Append(queue, c)) :
              \/ Append(queue, c)[j] = c
              \/ j \in 1 .. Len(queue) /\ Append(queue, c)[j] = queue[j]
<1>1. PICK t \in Seq(C), L \in Nat :
        /\ t = Tail(flying) /\ Len(flying) = L + 1 /\ Len(t) = L /\ flying[1] = Head(flying)
        /\ flying[1] \in C /\ \A k \in 1 .. L : t[k] = flying[k + 1]
  <2>1. /\ Head(flying) = flying[1] /\ Head(flying) \in C /\ Tail(flying) \in Seq(C)
        /\ Len(flying) \in Nat \ {0} /\ Len(Tail(flying)) = Len(flying) - 1
        /\ \A p \in 1 .. Len(flying) - 1 : Tail(flying)[p] = flying[p + 1]
    BY SeqTail
  <2>2. Len(flying) - 1 \in Nat /\ Len(flying) = (Len(flying) - 1) + 1
    BY <2>1
  <2> QED BY <2>1, <2>2
<1>2. c \in C \cup {Error}
  BY <1>1
<1>3. PICK a \in Seq(C \cup {Error}), M \in Nat :
        /\ a = Append(queue, c) /\ M = Len(queue) /\ Len(a) = M + 1
        /\ \A j \in 1 .. M + 1 : a[j] = IF j <= M THEN queue[j] ELSE c
  <2>1. /\ Append(queue, c) \in Seq(C \cup {Error}) /\ Len(queue) \in Nat
        /\ Len(Append(queue, c)) = Len(queue) + 1
        /\ \A p \in 1 .. Len(queue) + 1 :
             Append(queue, c)[p] = IF p <= Len(queue) THEN queue[p] ELSE c
    BY <1>2, SeqAppend, SeqType
  <2> QED BY <2>1, Zenon
<1>4. \A j \in 1 .. M + 1 : \/ j \in 1 .. M /\ a[j] = queue[j]
                            \/ j = M + 1 /\ a[j] = c
  BY <1>3
<1>5. \A k \in 1 .. L : k + 1 \in 1 .. L + 1 /\ t[k] = flying[k + 1] /\ t[k] # flying[1] /\ t[k] \in C
  <2>1. 1 \in 1 .. L + 1 /\ \A k \in 1 .. L : k + 1 \in 1 .. L + 1 /\ k + 1 # 1
    OBVIOUS
  <2> QED BY <1>1, <2>1 DEF KeysSplit
<1>6. \A k \in 1 .. L : t[k] # c
  BY <1>1, <1>5 DEF Error
<1>7. \A j \in 1 .. M : IsKey(c) => queue[j] # c
  <2>1. 1 \in 1 .. Len(flying)
    BY <1>1
  <2> QED BY <1>1, <1>3, <2>1 DEF KeysSplit, IsKey
<1>8. \A j \in 1 .. M + 1 : IsKey(a[j]) => a[j] \in keys
  <2>1. 1 \in 1 .. Len(flying)
    BY <1>1
  <2> QED BY <1>1, <1>3, <1>4, <2>1 DEF KeysSplit, IsKey
<1>9. \A j, k \in 1 .. M + 1 : j # k /\ IsKey(a[j]) => a[j] # a[k]
  <2> SUFFICES ASSUME NEW j \in 1 .. M + 1, NEW k \in 1 .. M + 1, j # k, IsKey(a[j])
               PROVE  a[j] # a[k]
    OBVIOUS
  <2>1. CASE j \in 1 .. M /\ k \in 1 .. M
    BY <1>3, <1>4, <2>1 DEF KeysSplit
  <2>2. CASE j \in 1 .. M /\ k = M + 1
    <3>1. a[j] = queue[j] /\ a[k] = c
      BY <1>3, <2>2
    <3>2. ~IsKey(c) => queue[j] # c
      BY <3>1
    <3> QED BY <1>7, <2>2, <3>1, <3>2
  <2>3. CASE j = M + 1 /\ k \in 1 .. M
    BY <1>3, <1>7, <2>3
  <2> QED BY <2>1, <2>2, <2>3
<1>10. \A j \in 1 .. M + 1 : \A k \in 1 .. L : a[j] # t[k]
  BY <1>1, <1>3, <1>4, <1>5, <1>6 DEF KeysSplit
<1>11. \A j, k \in 1 .. L : j # k => t[j] # t[k]
  <2>1. \A j, k \in 1 .. L : j # k => j + 1 # k + 1
    OBVIOUS
  <2> QED BY <1>1, <1>5, <2>1 DEF KeysSplit
<1>12. \A k \in 1 .. L : t[k] \in keys
  BY <1>1, <1>5 DEF KeysSplit
<1>13. KeysSplit(a, t, keys)
  BY <1>1, <1>3, <1>8, <1>9, <1>10, <1>11, <1>12 DEF KeysSplit
<1> QED BY <1>1, <1>3, <1>4, <1>13

-----------------------------------------------------------------------------
(* Steps. *)

LEMMA PeerNames ==
  /\ "client" \in Peers /\ "server" \in Peers
  /\ \A p \in Peers : /\ Other(p) \in Peers /\ Other(p) # p /\ Other(Other(p)) = p
                      /\ \A q \in Peers : q = p \/ q = Other(p)
BY DEF Peers, Other

LEMMA UpdatedAt ==
  ASSUME NEW S, NEW f \in [Peers -> [Direction -> S]], NEW p \in Peers, NEW d \in Direction, NEW x \in S,
         NEW g, g = [f EXCEPT ![p][d] = x]
  PROVE  /\ g \in [Peers -> [Direction -> S]]
         /\ g[p][d] = x
         /\ \A o \in Direction : o # d => g[p][o] = f[p][o]
         /\ \A q \in Peers : q # p => g[q] = f[q]
<1>1. [f[p] EXCEPT ![d] = x] \in [Direction -> S]
  OBVIOUS
<1>2. g = [f EXCEPT ![p] = [f[p] EXCEPT ![d] = x]]
  OBVIOUS
<1>3. g[p] = [f[p] EXCEPT ![d] = x] /\ f[p] \in [Direction -> S]
  BY <1>2
<1>4. g \in [Peers -> [Direction -> S]] /\ \A q \in Peers : q # p => g[q] = f[q]
  BY <1>1, <1>2
<1>5. g[p][d] = x /\ \A o \in Direction : o # d => g[p][o] = f[p][o]
  BY <1>3
<1> QED BY <1>4, <1>5

\* To update an entry with what it has changes nothing.
LEMMA SameAt ==
  ASSUME NEW S, NEW f \in [Peers -> [Direction -> S]], NEW p \in Peers, NEW d \in Direction
  PROVE  f = [f EXCEPT ![p][d] = f[p][d]]
<1>1. f[p] = [f[p] EXCEPT ![d] = f[p][d]]
  OBVIOUS
<1>2. f = [f EXCEPT ![p] = f[p]]
  OBVIOUS
<1> QED BY <1>1, <1>2

\* A process that takes no part in a step.
LEMMA LivesSame ==
  ASSUME NEW p \in Peers, Lives(p), twoWay' = twoWay,
         pc'[p] = pc[p], pool'[p] = pool[p], pending'[p] = pending[p],
         posted'[p] = posted[p], completed'[p] = completed[p],
         Ended(Other(p)) => Ended(Other(p))'
  PROVE  Lives(p)'
<1>1. Chunks' = Chunks
  BY DEF Chunks, NumChunks
<1> QED BY <1>1 DEF Lives, KeysApart, ErrorsAlone, ChunksApart, NothingSentYet, IsKey

\* A process ends: it is killed, or it throws and the other one ended before.
LEMMA EndKeeps ==
  ASSUME PeersInv, NEW p \in Peers, NEW how \in {"killed", "threw"}, ~Ended(p), End(p, how),
         how = "threw" => Ended(Other(p))
  PROVE  PeersInv'
<1> DEFINE q == Other(p)
<1>1. q \in Peers /\ q # p /\ Other(q) = p /\ \A x \in Peers : x = p \/ x = q
  BY PeerNames
<1>2. /\ twoWay' = twoWay /\ pc' = [pc EXCEPT ![p] = how] /\ pool' = [pool EXCEPT ![p] = {}]
      /\ pending' = [pending EXCEPT ![p] = [d \in Direction |-> {}]]
      /\ posted' = [posted EXCEPT ![p] = [d \in Direction |-> <<>>]]
      /\ completed' = [completed EXCEPT ![p] = [d \in Direction |-> <<>>]]
  BY DEF End
<1>3. Chunks' = Chunks
  BY <1>2 DEF Chunks, NumChunks
<1> HIDE DEF q
<1>4. TypeOK'
  <2>1. pc' \in [Peers -> {"prepost", "send", "recv", "killed", "threw"}]
    BY <1>2 DEF PeersInv, TypeOK
  <2>2. pool' \in [Peers -> SUBSET Chunks] /\ pending' \in [Peers -> [Direction -> SUBSET Chunks]]
    BY <1>2 DEF PeersInv, TypeOK
  <2>3. posted' \in [Peers -> [Direction -> Seq(Chunks)]]
    <3>1. <<>> \in Seq(Chunks)
      OBVIOUS
    <3>2. [d \in Direction |-> <<>>] \in [Direction -> Seq(Chunks)]
      BY <3>1
    <3> QED BY <1>2, <3>2 DEF PeersInv, TypeOK
  <2>4. completed' \in [Peers -> [Direction -> Seq(Chunks \cup {Error})]]
    <3>1. <<>> \in Seq(Chunks \cup {Error})
      OBVIOUS
    <3>2. [d \in Direction |-> <<>>] \in [Direction -> Seq(Chunks \cup {Error})]
      BY <3>1
    <3> QED BY <1>2, <3>2 DEF PeersInv, TypeOK
  <2> QED BY <1>2, <1>3, <2>1, <2>2, <2>3, <2>4 DEF PeersInv, TypeOK
<1>5. pc'[p] = how /\ Ended(p)' /\ pc'[q] = pc[q]
  BY <1>1, <1>2 DEF PeersInv, TypeOK, Ended
<1>6. ~Ended(q)' => Lives(q)'
  <2>1. ~Ended(q)' => Lives(q)
    BY <1>1, <1>5 DEF Ended, PeersInv
  <2>2. /\ pool'[q] = pool[q] /\ pending'[q] = pending[q]
        /\ posted'[q] = posted[q] /\ completed'[q] = completed[q]
    BY <1>1, <1>2 DEF PeersInv, TypeOK
  <2> QED BY <1>1, <1>2, <1>5, <2>1, <2>2, LivesSame
<1>7. ThrowsOnlyAlone'
  <2>1. how = "threw" => pc[q] = "killed"
    <3>1. pc[q] = "threw" => pc[p] = "killed"
      BY <1>1 DEF PeersInv, ThrowsOnlyAlone
    <3> QED BY <3>1 DEF Ended, q
  <2>2. pc[q] = "threw" => FALSE
    <3>1. pc[q] = "threw" => pc[p] = "killed"
      BY <1>1 DEF PeersInv, ThrowsOnlyAlone
    <3> QED BY <3>1 DEF Ended
  <2>3. Other(p) = q
    BY DEF q
  <2>4. (pc[p] = "threw")' => (pc[Other(p)] = "killed")'
    BY <1>5, <2>1, <2>3
  <2>5. (pc[q] = "threw")' => (pc[Other(q)] = "killed")'
    BY <1>5, <2>2
  <2> QED BY <1>1, <2>4, <2>5 DEF ThrowsOnlyAlone
<1> QED BY <1>1, <1>4, <1>5, <1>6, <1>7 DEF PeersInv

\* The pool and the two directions of a process, whichever is named first.
LEMMA ChunksEither ==
  ASSUME NEW p \in Peers, NEW d \in Direction, NEW o \in Direction, d # o
  PROVE  ChunksApart(p) <=>
           /\ pool[p] \cup pending[p][d] \cup pending[p][o] = Chunks
           /\ pool[p] \cap pending[p][d] = {}
           /\ pool[p] \cap pending[p][o] = {}
           /\ pending[p][d] \cap pending[p][o] = {}
           /\ Cardinality(pending[p][d]) <= Credits
           /\ Cardinality(pending[p][o]) <= Credits
<1>1. CASE d = "send" /\ o = "recv"
  BY <1>1 DEF ChunksApart, Direction
<1>2. CASE d = "recv" /\ o = "send"
  BY <1>2 DEF ChunksApart, Direction
<1> QED BY <1>1, <1>2 DEF Direction

\* One process goes on, in one direction.
LEMMA OneMoves ==
  ASSUME PeersInv, NEW p \in Peers, NEW d \in Direction, ~Ended(p), twoWay' = twoWay,
         NEW half \in {"prepost", "send", "recv"}, pc' = [pc EXCEPT ![p] = half],
         NEW free \in SUBSET Chunks, pool' = [pool EXCEPT ![p] = free],
         NEW keys \in SUBSET Chunks, pending' = [pending EXCEPT ![p][d] = keys],
         NEW flying \in Seq(Chunks), posted' = [posted EXCEPT ![p][d] = flying],
         NEW queue \in Seq(Chunks \cup {Error}), completed' = [completed EXCEPT ![p][d] = queue],
         KeysSplit(queue, flying, keys),
         \A j \in 1 .. Len(queue) : ~IsKey(queue[j]) => Ended(Other(p)),
         Cardinality(keys) <= Credits,
         free \cap keys = {}, free \cup keys = pool[p] \cup pending[p][d],
         half = "prepost" => pc[p] = "prepost" /\ (d = "send" => keys = pending[p][d])
  PROVE  PeersInv'
<1>1. Chunks' = Chunks
  BY DEF Chunks, NumChunks
<1>2. TypeOK /\ Lives(p)
  BY DEF PeersInv
<1>3. /\ pending' \in [Peers -> [Direction -> SUBSET Chunks]]
      /\ pending'[p][d] = keys
      /\ \A o \in Direction : o # d => pending'[p][o] = pending[p][o]
      /\ \A q \in Peers : q # p => pending'[q] = pending[q]
  <2>1. pending \in [Peers -> [Direction -> SUBSET Chunks]]
    BY <1>2 DEF TypeOK
  <2> QED BY <2>1, UpdatedAt
<1>4. /\ posted' \in [Peers -> [Direction -> Seq(Chunks)]]
      /\ posted'[p][d] = flying
      /\ \A o \in Direction : o # d => posted'[p][o] = posted[p][o]
      /\ \A q \in Peers : q # p => posted'[q] = posted[q]
  <2>1. posted \in [Peers -> [Direction -> Seq(Chunks)]]
    BY <1>2 DEF TypeOK
  <2> QED BY <2>1, UpdatedAt
<1>5. /\ completed' \in [Peers -> [Direction -> Seq(Chunks \cup {Error})]]
      /\ completed'[p][d] = queue
      /\ \A o \in Direction : o # d => completed'[p][o] = completed[p][o]
      /\ \A q \in Peers : q # p => completed'[q] = completed[q]
  <2>1. completed \in [Peers -> [Direction -> Seq(Chunks \cup {Error})]]
    BY <1>2 DEF TypeOK
  <2> QED BY <2>1, UpdatedAt
<1>6. /\ pc' \in [Peers -> {"prepost", "send", "recv", "killed", "threw"}]
      /\ pool' \in [Peers -> SUBSET Chunks]
      /\ pc'[p] = half /\ pool'[p] = free
      /\ \A q \in Peers : q # p => pc'[q] = pc[q] /\ pool'[q] = pool[q]
  BY <1>2 DEF TypeOK
<1>7. TypeOK'
  BY <1>1, <1>2, <1>3, <1>4, <1>5, <1>6 DEF TypeOK
<1>8. \A q \in Peers : (Ended(q)' <=> Ended(q)) /\ (pc'[q] = "threw" <=> pc[q] = "threw")
                       /\ (pc'[q] = "killed" <=> pc[q] = "killed")
  BY <1>6 DEF Ended
<1>9. ThrowsOnlyAlone'
  BY <1>8, PeerNames DEF PeersInv, ThrowsOnlyAlone
<1>10. ASSUME NEW q \in Peers, q # p, ~Ended(q)' PROVE Lives(q)'
  <2>1. Lives(q) /\ Other(q) \in Peers
    BY <1>8, <1>10, PeerNames DEF PeersInv
  <2> QED BY <1>3, <1>4, <1>5, <1>6, <1>8, <1>10, <2>1, LivesSame
<1>11. Lives(p)'
  <2>1. PICK o \in Direction : o # d /\ \A x \in Direction : x = d \/ x = o
    BY DEF Direction
  <2>2. ChunksApart(p)'
    <3>1. /\ pool[p] \cup pending[p][d] \cup pending[p][o] = Chunks
          /\ pool[p] \cap pending[p][d] = {}
          /\ pool[p] \cap pending[p][o] = {}
          /\ pending[p][d] \cap pending[p][o] = {}
          /\ Cardinality(pending[p][o]) <= Credits
      BY <1>2, <2>1, ChunksEither DEF Lives
    <3>2. /\ free \cup keys \cup pending[p][o] = Chunks
          /\ free \cap keys = {} /\ free \cap pending[p][o] = {} /\ keys \cap pending[p][o] = {}
      BY <3>1
    <3>3. pool'[p] = free /\ pending'[p][d] = keys /\ pending'[p][o] = pending[p][o]
      BY <1>3, <1>6, <2>1
    <3>4. \A x \in Direction : Cardinality(pending'[p][x]) <= Credits
      BY <2>1, <3>1, <3>3
    <3>5. CASE d = "send" /\ o = "recv"
      BY <1>1, <3>2, <3>3, <3>4, <3>5 DEF ChunksApart
    <3>6. CASE d = "recv" /\ o = "send"
      BY <1>1, <3>2, <3>3, <3>4, <3>6 DEF ChunksApart
    <3> QED BY <2>1, <3>5, <3>6 DEF Direction
  <2>3. \A x \in Direction : KeysApart(p, x)'
    <3>1. KeysApart(p, d)'
      BY <1>3, <1>4, <1>5 DEF KeysApart
    <3>2. KeysApart(p, o)'
      BY <1>2, <1>3, <1>4, <1>5, <2>1 DEF Lives, KeysApart
    <3> QED BY <2>1, <3>1, <3>2
  <2>4. \A x \in Direction : ErrorsAlone(p, x)'
    <3>1. Ended(Other(p))' <=> Ended(Other(p))
      BY <1>8, PeerNames
    <3>2. ErrorsAlone(p, d)'
      BY <1>5, <3>1 DEF ErrorsAlone, IsKey
    <3>3. ErrorsAlone(p, o)'
      BY <1>2, <1>5, <2>1, <3>1 DEF Lives, ErrorsAlone, IsKey
    <3> QED BY <2>1, <3>2, <3>3
  <2>5. NothingSentYet(p)'
    <3>1. half = "prepost" => pending'[p]["send"] = pending[p]["send"]
      BY <1>3, <2>1 DEF Direction
    <3> QED BY <1>2, <1>6, <3>1 DEF Lives, NothingSentYet
  <2> QED BY <2>2, <2>3, <2>4, <2>5 DEF Lives
<1> QED BY <1>7, <1>9, <1>10, <1>11 DEF PeersInv

\* What one half of a loop polls and frees, and what it may post.
PollOutcome(p, d, keys, free) ==
    /\ keys \in SUBSET Chunks /\ free \in SUBSET Chunks
    /\ free \cap keys = {} /\ free \cup keys = pool[p] \cup pending[p][d]
    /\ Cardinality(keys) <= Credits
    /\ NotDone(completed[p][d]) \in Seq(Chunks \cup {Error})
    /\ KeysSplit(NotDone(completed[p][d]), posted[p][d], keys)
    /\ \A j \in 1 .. Len(NotDone(completed[p][d])) :
         ~IsKey(NotDone(completed[p][d])[j]) => Ended(Other(p))
    /\ PollThrows(p, d) => Ended(Other(p))
    /\ CanPost(keys, free) => Alloc(free) \in free /\ ~PostThrows(Alloc(free), keys)
    /\ pending[p][d] # {} => keys # {} \/ CanPost(keys, free)

LEMMA PollFacts ==
  ASSUME PeersInv, NEW p \in Peers, NEW d \in Direction, ~Ended(p),
         NEW keys, keys = pending[p][d] \ Elements(Done(p, d)),
         NEW free, free = Freed(pool[p], Done(p, d))
  PROVE  PollOutcome(p, d, keys, free)
<1>1. PICK o \in Direction : o # d
  BY DEF Direction
<1>2. /\ TypeOK /\ Lives(p) /\ twoWay \in BOOLEAN
      /\ KeysSplit(completed[p][d], posted[p][d], pending[p][d])
      /\ completed[p][d] \in Seq(Chunks \cup {Error}) /\ posted[p][d] \in Seq(Chunks)
      /\ pending[p][d] \in SUBSET Chunks /\ pool[p] \in SUBSET Chunks
  BY DEF PeersInv, TypeOK, Lives, KeysApart
<1>3. pool[p] \cap pending[p][d] = {} /\ Cardinality(pending[p][d]) <= Credits
  BY <1>1, <1>2, ChunksEither DEF Lives
<1>4. PICK C \in SUBSET Nat : C = Chunks
  BY <1>2, ChunksFinite
<1>5. PICK done : done = Done(p, d) /\ done = SubSeq(completed[p][d], 1, KeysFirst(completed[p][d]))
  BY DEF Done
<1>6. /\ done \in Seq(Chunks)
      /\ Elements(done) \subseteq pending[p][d] /\ Elements(done) \subseteq Chunks
      /\ Cardinality(Elements(done)) = Len(done)
      /\ NotDone(completed[p][d]) \in Seq(Chunks \cup {Error})
      /\ KeysSplit(NotDone(completed[p][d]), posted[p][d], pending[p][d] \ Elements(done))
      /\ \A j \in 1 .. Len(NotDone(completed[p][d])) :
           \E k \in 1 .. Len(completed[p][d]) : NotDone(completed[p][d])[j] = completed[p][d][k]
  <2>1. PolledOff(C, completed[p][d], posted[p][d], pending[p][d], done, NotDone(completed[p][d]))
    BY <1>2, <1>4, <1>5, SplitPolled
  <2> QED BY <1>4, <2>1 DEF PolledOff
<1>7. free = pool[p] \cup Elements(done)
  BY <1>5 DEF Freed, Elements
<1>8. keys = pending[p][d] \ Elements(done)
  BY <1>5
<1>9. /\ keys \in SUBSET Chunks /\ free \in SUBSET Chunks
      /\ free \cap keys = {} /\ free \cup keys = pool[p] \cup pending[p][d]
  BY <1>2, <1>3, <1>6, <1>7, <1>8
<1>10. /\ IsFiniteSet(pending[p][d]) /\ Cardinality(pending[p][d]) \in Nat
       /\ IsFiniteSet(keys) /\ Cardinality(keys) \in Nat /\ Credits \in Nat
       /\ Cardinality(keys) <= Cardinality(pending[p][d])
       /\ keys # pending[p][d] => Cardinality(keys) < Cardinality(pending[p][d])
  <2>1. /\ IsFiniteSet(pending[p][d]) /\ Cardinality(pending[p][d]) \in Nat
        /\ IsFiniteSet(keys) /\ Cardinality(keys) \in Nat
    BY <1>2, <1>9, ChunksFinite
  <2>2. keys \in SUBSET pending[p][d]
    BY <1>8
  <2>3. /\ Cardinality(keys) <= Cardinality(pending[p][d])
        /\ Cardinality(pending[p][d]) = Cardinality(keys) => pending[p][d] = keys
    BY <2>1, <2>2, FS_Subset
  <2> QED BY <2>1, <2>3, CreditsAssumption
<1>11. Cardinality(keys) <= Credits
  BY <1>3, <1>10
<1>12. \A j \in 1 .. Len(NotDone(completed[p][d])) :
         ~IsKey(NotDone(completed[p][d])[j]) => Ended(Other(p))
  BY <1>2, <1>6 DEF Lives, ErrorsAlone
<1>13. PollThrows(p, d) => Ended(Other(p))
  <2> SUFFICES ASSUME PollThrows(p, d) PROVE Ended(Other(p))
    OBVIOUS
  <2>1. completed[p][d] # <<>> /\ ~IsKey(Head(completed[p][d]))
    BY <1>5, <1>6 DEF PollThrows
  <2>2. 1 \in 1 .. Len(completed[p][d]) /\ Head(completed[p][d]) = completed[p][d][1]
    BY <1>2, <2>1
  <2> QED BY <1>2, <2>1, <2>2 DEF Lives, ErrorsAlone
<1>14. CanPost(keys, free) => Alloc(free) \in free /\ ~PostThrows(Alloc(free), keys)
  <2> SUFFICES ASSUME CanPost(keys, free) PROVE Alloc(free) \in free /\ ~PostThrows(Alloc(free), keys)
    OBVIOUS
  <2>1. Alloc(free) \in free
    BY <1>2, <1>9, AllocatedThere DEF CanPost
  <2> QED BY <1>9, <2>1 DEF CanPost, PostThrows
<1>15. pending[p][d] # {} => keys # {} \/ CanPost(keys, free)
  <2> SUFFICES ASSUME pending[p][d] # {}, keys = {} PROVE CanPost(keys, free)
    OBVIOUS
  <2>1. free # {}
    BY <1>9
  <2>2. Cardinality(keys) < Credits
    BY <1>3, <1>10
  <2> QED BY <2>1, <2>2 DEF CanPost, Available
<1> QED BY <1>6, <1>8, <1>9, <1>11, <1>12, <1>13, <1>14, <1>15 DEF PollOutcome

\* A post, when something can be posted.
PostOutcome(p, d, keys, free, chunk, queue) ==
    /\ free \ {chunk} \in SUBSET Chunks /\ keys \cup {chunk} \in SUBSET Chunks
    /\ (free \ {chunk}) \cap (keys \cup {chunk}) = {}
    /\ (free \ {chunk}) \cup (keys \cup {chunk}) = free \cup keys
    /\ Cardinality(keys \cup {chunk}) <= Credits
    /\ Append(posted[p][d], chunk) \in Seq(Chunks)
    /\ KeysSplit(queue, Append(posted[p][d], chunk), keys \cup {chunk})

LEMMA PostFacts ==
  ASSUME TypeOK, NEW p \in Peers, NEW d \in Direction,
         NEW keys \in SUBSET Chunks, NEW free \in SUBSET Chunks, free \cap keys = {},
         Available(keys), NEW chunk \in free, NEW queue \in Seq(Chunks \cup {Error}),
         KeysSplit(queue, posted[p][d], keys)
  PROVE  PostOutcome(p, d, keys, free, chunk, queue)
<1>1. twoWay \in BOOLEAN /\ posted[p][d] \in Seq(Chunks)
  BY DEF TypeOK
<1>2. PICK C \in SUBSET Nat : C = Chunks
  BY <1>1, ChunksFinite
<1>3. chunk \in Chunks /\ chunk \notin keys
  OBVIOUS
<1>4. /\ Append(posted[p][d], chunk) \in Seq(Chunks)
      /\ KeysSplit(queue, Append(posted[p][d], chunk), keys \cup {chunk})
  BY <1>1, <1>2, <1>3, SplitPosted
<1>5. Cardinality(keys \cup {chunk}) <= Credits
  <2>1. IsFiniteSet(keys) /\ Cardinality(keys) \in Nat
    BY <1>1, ChunksFinite
  <2>2. Cardinality(keys \cup {chunk}) = Cardinality(keys) + 1
    BY <1>3, <2>1, FS_AddElement
  <2> QED BY <2>1, <2>2, CreditsAssumption DEF Available
<1> QED BY <1>3, <1>4, <1>5 DEF PostOutcome

\* A half of a loop that ends its process does so after the other one ended.
LEMMA HalfKeeps ==
  ASSUME PeersInv, NEW p \in Peers, NEW d \in Direction, pc[p] = d, Half(p, d)
  PROVE  PeersInv'
<1>1. ~Ended(p)
  BY DEF Ended, Direction
<1>2. PICK keys, free : keys = pending[p][d] \ Elements(Done(p, d)) /\ free = Freed(pool[p], Done(p, d))
  OBVIOUS
<1>3. /\ keys \in SUBSET Chunks /\ free \in SUBSET Chunks
      /\ free \cap keys = {} /\ free \cup keys = pool[p] \cup pending[p][d]
      /\ Cardinality(keys) <= Credits
      /\ NotDone(completed[p][d]) \in Seq(Chunks \cup {Error})
      /\ KeysSplit(NotDone(completed[p][d]), posted[p][d], keys)
      /\ \A j \in 1 .. Len(NotDone(completed[p][d])) :
           ~IsKey(NotDone(completed[p][d])[j]) => Ended(Other(p))
      /\ PollThrows(p, d) => Ended(Other(p))
      /\ CanPost(keys, free) => Alloc(free) \in free /\ ~PostThrows(Alloc(free), keys)
  <2>1. PollOutcome(p, d, keys, free)
    BY <1>1, <1>2, PollFacts
  <2> QED BY <2>1 DEF PollOutcome
<1>4. CASE PollThrows(p, d)
  <2>1. End(p, "threw")
    BY <1>4 DEF Half, Throw
  <2> QED BY <1>1, <1>3, <1>4, <2>1, EndKeeps
<1>5. CASE ~PollThrows(p, d)
  <2>1. /\ pc' = [pc EXCEPT ![p] = After(p, d)] /\ twoWay' = twoWay
        /\ completed' = [completed EXCEPT ![p][d] = NotDone(completed[p][d])]
        /\ IF CanPost(keys, free)
           THEN /\ pool' = [pool EXCEPT ![p] = Allocated(free)]
                /\ pending' = [pending EXCEPT ![p][d] = keys \cup {Alloc(free)}]
                /\ posted' = [posted EXCEPT ![p][d] = Append(posted[p][d], Alloc(free))]
           ELSE /\ pool' = [pool EXCEPT ![p] = free]
                /\ pending' = [pending EXCEPT ![p][d] = keys]
                /\ posted' = posted
    BY <1>2, <1>3, <1>5 DEF Half
  <2>2. After(p, d) \in Direction /\ After(p, d) # "prepost" /\ After(p, d) \in {"prepost", "send", "recv"}
    BY DEF After, Direction
  <2>3. TypeOK /\ posted[p][d] \in Seq(Chunks) /\ posted \in [Peers -> [Direction -> Seq(Chunks)]]
    BY DEF PeersInv, TypeOK
  <2>4. CASE CanPost(keys, free)
    <3>1. PICK chunk \in free : chunk = Alloc(free)
      BY <1>3, <2>4
    <3>2. Available(keys)
      BY <2>4 DEF CanPost
    <3>3. /\ free \ {chunk} \in SUBSET Chunks /\ keys \cup {chunk} \in SUBSET Chunks
          /\ (free \ {chunk}) \cap (keys \cup {chunk}) = {}
          /\ (free \ {chunk}) \cup (keys \cup {chunk}) = free \cup keys
          /\ Cardinality(keys \cup {chunk}) <= Credits
          /\ Append(posted[p][d], chunk) \in Seq(Chunks)
          /\ KeysSplit(NotDone(completed[p][d]), Append(posted[p][d], chunk), keys \cup {chunk})
      <4>1. PostOutcome(p, d, keys, free, chunk, NotDone(completed[p][d]))
        BY <1>3, <2>3, <3>2, PostFacts
      <4> QED BY <4>1 DEF PostOutcome
    <3>4. /\ pool' = [pool EXCEPT ![p] = free \ {chunk}]
          /\ pending' = [pending EXCEPT ![p][d] = keys \cup {chunk}]
          /\ posted' = [posted EXCEPT ![p][d] = Append(posted[p][d], chunk)]
      BY <2>1, <2>4, <3>1 DEF Allocated
    <3>5. (free \ {chunk}) \cup (keys \cup {chunk}) = pool[p] \cup pending[p][d]
      BY <1>3, <3>3
    <3> QED BY <1>1, <1>3, <2>1, <2>2, <3>3, <3>4, <3>5, OneMoves, ZenonT(40)
  <2>5. CASE ~CanPost(keys, free)
    <3>1. posted' = [posted EXCEPT ![p][d] = posted[p][d]]
      BY <2>1, <2>3, <2>5, SameAt
    <3>2. pool' = [pool EXCEPT ![p] = free] /\ pending' = [pending EXCEPT ![p][d] = keys]
      BY <2>1, <2>5
    <3>3. /\ KeysSplit(NotDone(completed[p][d]), posted[p][d], keys)
          /\ posted[p][d] \in Seq(Chunks) /\ keys \in SUBSET Chunks /\ free \in SUBSET Chunks
          /\ free \cap keys = {} /\ free \cup keys = pool[p] \cup pending[p][d]
          /\ Cardinality(keys) <= Credits /\ NotDone(completed[p][d]) \in Seq(Chunks \cup {Error})
          /\ \A j \in 1 .. Len(NotDone(completed[p][d])) :
               ~IsKey(NotDone(completed[p][d])[j]) => Ended(Other(p))
      BY <1>3, <2>3
    <3>4. /\ completed' = [completed EXCEPT ![p][d] = NotDone(completed[p][d])]
          /\ pc' = [pc EXCEPT ![p] = After(p, d)] /\ twoWay' = twoWay
      BY <2>1
    <3> QED BY <1>1, <2>2, <3>1, <3>2, <3>3, <3>4, OneMoves
  <2> QED BY <2>4, <2>5
<1> QED BY <1>4, <1>5

LEMMA PrepostKeeps ==
  ASSUME PeersInv, NEW p \in Peers, Prepost(p)
  PROVE  PeersInv'
<1> DEFINE keys == pending[p]["recv"]
           free == pool[p]
           queue == completed[p]["recv"]
<1>1. pc[p] = "prepost" /\ Preposting(p) /\ ~Ended(p) /\ "recv" \in Direction
  BY DEF Prepost, Ended, Direction
<1>2. /\ TypeOK /\ Lives(p) /\ twoWay \in BOOLEAN /\ pending[p]["send"] = {}
      /\ keys \in SUBSET Chunks /\ free \in SUBSET Chunks
      /\ free \cup keys = Chunks /\ free \cap keys = {}
      /\ queue \in Seq(Chunks \cup {Error})
      /\ KeysSplit(queue, posted[p]["recv"], keys)
      /\ \A j \in 1 .. Len(queue) : ~IsKey(queue[j]) => Ended(Other(p))
  BY <1>1 DEF PeersInv, TypeOK, Lives, NothingSentYet, ChunksApart, KeysApart, ErrorsAlone
<1>3. Available(keys) /\ free # {}
  <2>1. /\ IsFiniteSet(Chunks) /\ Cardinality(Chunks) = NumChunks
        /\ IsFiniteSet(keys) /\ Cardinality(keys) \in Nat /\ Credits \in Nat \ {0}
    BY <1>2, ChunksFinite, CreditsAssumption
  <2>2. Cardinality(keys) <= Cardinality(Chunks) /\ (Cardinality(Chunks) = Cardinality(keys) => Chunks = keys)
    BY <1>2, <2>1, FS_Subset
  <2>3. CASE twoWay
    <3>1. Cardinality(keys) < Credits /\ NumChunks = 2 * Credits
      BY <1>1, <2>3 DEF Preposting, NumChunks
    <3>2. Chunks # keys
      BY <2>1, <3>1
    <3> QED BY <1>2, <3>1, <3>2 DEF Available
  <2>4. CASE ~twoWay
    <3>1. free # {} /\ NumChunks = Credits
      BY <1>1, <2>4 DEF Preposting, NumChunks
    <3>2. Chunks # keys
      BY <1>2, <3>1
    <3> QED BY <2>1, <2>2, <3>1, <3>2 DEF Available
  <2> QED BY <2>3, <2>4
<1>4. PICK chunk \in free : chunk = Alloc(free)
  BY <1>2, <1>3, AllocatedThere
<1>5. ~PostThrows(chunk, keys)
  BY <1>2, <1>3, <1>4 DEF PostThrows
<1>6. /\ pool' = [pool EXCEPT ![p] = free \ {chunk}]
      /\ pending' = [pending EXCEPT ![p]["recv"] = keys \cup {chunk}]
      /\ posted' = [posted EXCEPT ![p]["recv"] = Append(posted[p]["recv"], chunk)]
      /\ twoWay' = twoWay /\ pc' = pc /\ completed' = completed
  BY <1>4, <1>5 DEF Prepost, Allocated
<1>7. /\ pc' = [pc EXCEPT ![p] = "prepost"]
      /\ completed' = [completed EXCEPT ![p]["recv"] = queue]
  <2>1. pc' = [pc EXCEPT ![p] = "prepost"]
    BY <1>1, <1>2, <1>6 DEF TypeOK
  <2>2. completed \in [Peers -> [Direction -> Seq(Chunks \cup {Error})]]
    BY <1>2 DEF TypeOK
  <2>3. completed = [completed EXCEPT ![p]["recv"] = queue]
    BY <1>1, <2>2, SameAt
  <2> QED BY <1>6, <2>1, <2>3
<1>8. /\ free \ {chunk} \in SUBSET Chunks /\ keys \cup {chunk} \in SUBSET Chunks
      /\ (free \ {chunk}) \cap (keys \cup {chunk}) = {}
      /\ (free \ {chunk}) \cup (keys \cup {chunk}) = free \cup keys
      /\ Cardinality(keys \cup {chunk}) <= Credits
      /\ Append(posted[p]["recv"], chunk) \in Seq(Chunks)
      /\ KeysSplit(queue, Append(posted[p]["recv"], chunk), keys \cup {chunk})
  <2> HIDE DEF keys, free, queue
  <2>1. PostOutcome(p, "recv", keys, free, chunk, queue)
    BY <1>1, <1>2, <1>3, <1>4, PostFacts
  <2> QED BY <2>1 DEF PostOutcome
<1>9. (free \ {chunk}) \cup (keys \cup {chunk}) = pool[p] \cup pending[p]["recv"]
  BY <1>8
<1>10. pc[p] = "prepost" /\ "recv" # "send" /\ "prepost" \in {"prepost", "send", "recv"}
  BY <1>1
<1> HIDE DEF keys, free, queue
<1> QED BY <1>1, <1>2, <1>6, <1>7, <1>8, <1>9, <1>10, OneMoves

LEMMA StartLoopKeeps ==
  ASSUME PeersInv, NEW p \in Peers, StartLoop(p)
  PROVE  PeersInv'
<1> DEFINE d == "recv"
<1>1. /\ pc[p] = "prepost" /\ ~Ended(p) /\ d \in Direction
      /\ pc' = [pc EXCEPT ![p] = First(p)] /\ First(p) \in {"send", "recv"}
      /\ twoWay' = twoWay /\ pool' = pool /\ pending' = pending
      /\ posted' = posted /\ completed' = completed
  BY DEF StartLoop, Ended, First, Direction
<1>2. /\ TypeOK /\ Lives(p)
      /\ pool \in [Peers -> SUBSET Chunks] /\ pending \in [Peers -> [Direction -> SUBSET Chunks]]
      /\ posted \in [Peers -> [Direction -> Seq(Chunks)]]
      /\ completed \in [Peers -> [Direction -> Seq(Chunks \cup {Error})]]
  BY <1>1 DEF PeersInv, TypeOK
<1>3. /\ pool' = [pool EXCEPT ![p] = pool[p]]
      /\ pending' = [pending EXCEPT ![p][d] = pending[p][d]]
      /\ posted' = [posted EXCEPT ![p][d] = posted[p][d]]
      /\ completed' = [completed EXCEPT ![p][d] = completed[p][d]]
  BY <1>1, <1>2, SameAt
<1>4. /\ KeysSplit(completed[p][d], posted[p][d], pending[p][d])
      /\ \A j \in 1 .. Len(completed[p][d]) : ~IsKey(completed[p][d][j]) => Ended(Other(p))
      /\ Cardinality(pending[p][d]) <= Credits /\ pool[p] \cap pending[p][d] = {}
  BY <1>1, <1>2 DEF Lives, KeysApart, ErrorsAlone, ChunksApart
<1>5. /\ pool[p] \in SUBSET Chunks /\ pending[p][d] \in SUBSET Chunks
      /\ posted[p][d] \in Seq(Chunks) /\ completed[p][d] \in Seq(Chunks \cup {Error})
      /\ First(p) \in {"prepost", "send", "recv"} /\ First(p) # "prepost"
  BY <1>1, <1>2
<1> HIDE DEF d
<1> QED BY <1>1, <1>3, <1>4, <1>5, OneMoves

LEMMA CompletesWithErrorKeeps ==
  ASSUME PeersInv, NEW p \in Peers, NEW d \in Direction, CompletesWithError(p, d)
  PROVE  PeersInv'
<1> DEFINE queue == Append(completed[p][d], Error)
           flying == Tail(posted[p][d])
<1>1. /\ Ended(Other(p)) /\ ~Ended(p) /\ posted[p][d] # <<>>
      /\ completed' = [completed EXCEPT ![p][d] = queue]
      /\ posted' = [posted EXCEPT ![p][d] = flying]
      /\ twoWay' = twoWay /\ pc' = pc /\ pool' = pool /\ pending' = pending
  BY DEF CompletesWithError
<1>2. /\ TypeOK /\ Lives(p) /\ twoWay \in BOOLEAN
      /\ pc \in [Peers -> {"prepost", "send", "recv", "killed", "threw"}]
      /\ pool \in [Peers -> SUBSET Chunks] /\ pending \in [Peers -> [Direction -> SUBSET Chunks]]
      /\ completed[p][d] \in Seq(Chunks \cup {Error}) /\ posted[p][d] \in Seq(Chunks)
      /\ KeysSplit(completed[p][d], posted[p][d], pending[p][d])
  BY <1>1 DEF PeersInv, TypeOK, Lives, KeysApart
<1>3. PICK C \in SUBSET Nat : C = Chunks
  BY <1>2, ChunksFinite
<1>4. /\ KeysSplit(queue, flying, pending[p][d])
      /\ queue \in Seq(Chunks \cup {Error}) /\ flying \in Seq(Chunks)
  BY <1>1, <1>2, <1>3, SplitCompleted
<1>5. /\ pc[p] \in {"prepost", "send", "recv"} /\ pc' = [pc EXCEPT ![p] = pc[p]]
      /\ pool' = [pool EXCEPT ![p] = pool[p]]
      /\ pending' = [pending EXCEPT ![p][d] = pending[p][d]]
      /\ pool[p] \in SUBSET Chunks /\ pending[p][d] \in SUBSET Chunks
  BY <1>1, <1>2, SameAt DEF Ended
<1>6. pool[p] \cap pending[p][d] = {} /\ Cardinality(pending[p][d]) <= Credits
  <2>1. PICK o \in Direction : o # d
    BY DEF Direction
  <2> QED BY <1>2, <2>1, ChunksEither DEF Lives
<1> HIDE DEF queue, flying
<1> QED BY <1>1, <1>4, <1>5, <1>6, OneMoves


\* Two entries at once, of different processes.
ChangedTwice(S, f, g, p, q, x, y) ==
    /\ g \in [Peers -> [Direction -> S]]
    /\ g[p]["send"] = x /\ g[p]["recv"] = f[p]["recv"]
    /\ g[q]["recv"] = y /\ g[q]["send"] = f[q]["send"]

LEMMA UpdatedTwice ==
  ASSUME NEW S, NEW f \in [Peers -> [Direction -> S]], NEW p \in Peers, NEW q \in Peers, p # q,
         NEW x \in S, NEW y \in S
  PROVE  ChangedTwice(S, f, [f EXCEPT ![p]["send"] = x, ![q]["recv"] = y], p, q, x, y)
<1>1. "send" \in Direction /\ "recv" \in Direction /\ "send" # "recv"
  BY DEF Direction
<1>2. PICK h : h = [f EXCEPT ![p]["send"] = x]
  OBVIOUS
<1>3. h \in [Peers -> [Direction -> S]] /\ h[p]["send"] = x /\ h[p]["recv"] = f[p]["recv"] /\ h[q] = f[q]
  BY <1>1, <1>2, UpdatedAt
<1>4. PICK g : g = [h EXCEPT ![q]["recv"] = y]
  OBVIOUS
<1>5. /\ g \in [Peers -> [Direction -> S]] /\ g[q]["recv"] = y
      /\ g[q]["send"] = h[q]["send"] /\ g[p] = h[p]
  BY <1>1, <1>3, <1>4, UpdatedAt
<1>6. ChangedTwice(S, f, g, p, q, x, y)
  BY <1>3, <1>5 DEF ChangedTwice
<1> QED BY <1>2, <1>4, <1>6

\* A direction of a process whose first posted chunk completes, the rest of the
\* process as it was.
LEMMA DeliveredLives ==
  ASSUME PeersInv, NEW p \in Peers, NEW d \in Direction, NEW o \in Direction, o # d, ~Ended(p),
         posted[p][d] # <<>>,
         posted'[p][d] = Tail(posted[p][d]), posted'[p][o] = posted[p][o],
         completed'[p][d] = Append(completed[p][d], Head(posted[p][d])),
         completed'[p][o] = completed[p][o],
         twoWay' = twoWay, pc' = pc, pool' = pool, pending' = pending
  PROVE  Lives(p)'
<1>1. /\ TypeOK /\ Lives(p) /\ twoWay \in BOOLEAN
      /\ completed[p][d] \in Seq(Chunks \cup {Error}) /\ posted[p][d] \in Seq(Chunks)
      /\ KeysSplit(completed[p][d], posted[p][d], pending[p][d])
  BY DEF PeersInv, TypeOK, Lives, KeysApart
<1>2. PICK C \in SUBSET Nat : C = Chunks
  BY <1>1, ChunksFinite
<1>3. PICK c \in Chunks : c = Head(posted[p][d])
  BY <1>1, SeqTail
<1>4. IsKey(c)
  BY <1>2, <1>3 DEF IsKey, Error
<1>5. /\ KeysSplit(Append(completed[p][d], c), Tail(posted[p][d]), pending[p][d])
      /\ \A j \in 1 .. Len(Append(completed[p][d], c)) :
           \/ Append(completed[p][d], c)[j] = c
           \/ j \in 1 .. Len(completed[p][d]) /\ Append(completed[p][d], c)[j] = completed[p][d][j]
  BY <1>1, <1>2, <1>3, SplitCompleted
<1>6. KeysApart(p, d)'
  BY <1>3, <1>5 DEF KeysApart
<1>7. KeysApart(p, o)'
  BY <1>1 DEF Lives, KeysApart
<1>8. \A q \in Peers : Ended(q)' <=> Ended(q)
  BY DEF Ended
<1>9. Ended(Other(p))' <=> Ended(Other(p))
  BY <1>8, PeerNames
<1>10. ErrorsAlone(p, d)'
  BY <1>1, <1>3, <1>4, <1>5, <1>9 DEF Lives, ErrorsAlone, IsKey
<1>11. ErrorsAlone(p, o)'
  BY <1>1, <1>9 DEF Lives, ErrorsAlone, IsKey
<1>12. ChunksApart(p)' /\ NothingSentYet(p)'
  BY <1>1 DEF Lives, ChunksApart, NothingSentYet, Chunks, NumChunks
<1>13. \A x \in Direction : x = d \/ x = o
  BY DEF Direction
<1> QED BY <1>6, <1>7, <1>10, <1>11, <1>12, <1>13 DEF Lives

LEMMA DeliverKeeps ==
  ASSUME PeersInv, NEW p \in Peers, Deliver(p)
  PROVE  PeersInv'
<1>1. PICK q \in Peers : q = Other(p) /\ p # q /\ Other(q) = p /\ \A x \in Peers : x = p \/ x = q
  BY PeerNames
<1>2. /\ ~Ended(q) /\ posted[p]["send"] # <<>> /\ posted[q]["recv"] # <<>>
      /\ posted' = [posted EXCEPT ![p]["send"] = Tail(posted[p]["send"]),
                                  ![q]["recv"] = Tail(posted[q]["recv"])]
      /\ completed' = [completed EXCEPT
                         ![p]["send"] = Append(completed[p]["send"], Head(posted[p]["send"])),
                         ![q]["recv"] = Append(completed[q]["recv"], Head(posted[q]["recv"]))]
      /\ twoWay' = twoWay /\ pc' = pc /\ pool' = pool /\ pending' = pending
  BY <1>1 DEF Deliver
<1>3. /\ TypeOK /\ "send" \in Direction /\ "recv" \in Direction /\ "send" # "recv"
      /\ posted \in [Peers -> [Direction -> Seq(Chunks)]]
      /\ completed \in [Peers -> [Direction -> Seq(Chunks \cup {Error})]]
  BY DEF PeersInv, TypeOK, Direction
<1>4. /\ posted[p]["send"] \in Seq(Chunks) /\ posted[q]["recv"] \in Seq(Chunks)
      /\ completed[p]["send"] \in Seq(Chunks \cup {Error})
      /\ completed[q]["recv"] \in Seq(Chunks \cup {Error})
  BY <1>3
<1>5. /\ Tail(posted[p]["send"]) \in Seq(Chunks) /\ Head(posted[p]["send"]) \in Chunks
      /\ Tail(posted[q]["recv"]) \in Seq(Chunks) /\ Head(posted[q]["recv"]) \in Chunks
  BY <1>2, <1>4, SeqTail
<1>6. /\ Append(completed[p]["send"], Head(posted[p]["send"])) \in Seq(Chunks \cup {Error})
      /\ Append(completed[q]["recv"], Head(posted[q]["recv"])) \in Seq(Chunks \cup {Error})
  BY <1>4, <1>5
<1>7. /\ posted' \in [Peers -> [Direction -> Seq(Chunks)]]
      /\ posted'[p]["send"] = Tail(posted[p]["send"]) /\ posted'[p]["recv"] = posted[p]["recv"]
      /\ posted'[q]["recv"] = Tail(posted[q]["recv"]) /\ posted'[q]["send"] = posted[q]["send"]
  <2>1. ChangedTwice(Seq(Chunks), posted, posted', p, q, Tail(posted[p]["send"]), Tail(posted[q]["recv"]))
    BY <1>1, <1>2, <1>3, <1>5, UpdatedTwice
  <2> QED BY <2>1 DEF ChangedTwice
<1>8. /\ completed' \in [Peers -> [Direction -> Seq(Chunks \cup {Error})]]
      /\ completed'[p]["send"] = Append(completed[p]["send"], Head(posted[p]["send"]))
      /\ completed'[p]["recv"] = completed[p]["recv"]
      /\ completed'[q]["recv"] = Append(completed[q]["recv"], Head(posted[q]["recv"]))
      /\ completed'[q]["send"] = completed[q]["send"]
  <2>1. PICK x \in Seq(Chunks \cup {Error}), y \in Seq(Chunks \cup {Error}) :
          /\ x = Append(completed[p]["send"], Head(posted[p]["send"]))
          /\ y = Append(completed[q]["recv"], Head(posted[q]["recv"]))
    BY <1>6
  <2>2. completed' = [completed EXCEPT ![p]["send"] = x, ![q]["recv"] = y]
    BY <1>2, <2>1
  <2>3. ChangedTwice(Seq(Chunks \cup {Error}), completed,
                     [completed EXCEPT ![p]["send"] = x, ![q]["recv"] = y], p, q, x, y)
    BY <1>1, <1>3, UpdatedTwice
  <2>4. ChangedTwice(Seq(Chunks \cup {Error}), completed, completed', p, q, x, y)
    BY <2>2, <2>3
  <2> QED BY <2>1, <2>4 DEF ChangedTwice
<1>9. TypeOK'
  BY <1>2, <1>3, <1>7, <1>8 DEF TypeOK, Chunks, NumChunks
<1>10. ThrowsOnlyAlone'
  BY <1>2 DEF PeersInv, ThrowsOnlyAlone
<1>11. ~Ended(p) => Lives(p)'
  BY <1>2, <1>3, <1>7, <1>8, DeliveredLives
<1>12. Lives(q)'
  BY <1>2, <1>3, <1>7, <1>8, DeliveredLives
<1>13. Ended(p)' <=> Ended(p)
  BY <1>2 DEF Ended
<1>14. ASSUME NEW x \in Peers, ~Ended(x)' PROVE Lives(x)'
  <2>1. CASE x = p
    BY <1>11, <1>13, <1>14, <2>1
  <2>2. CASE x = q
    BY <1>12, <2>2
  <2> QED BY <1>1, <2>1, <2>2
<1> QED BY <1>9, <1>10, <1>14 DEF PeersInv

LEMMA FailsKeeps ==
  ASSUME PeersInv, NEW p \in Peers, PostFails(p)
  PROVE  PeersInv'
<1>1. pc[p] \in Direction /\ Ended(Other(p)) /\ End(p, "threw")
  BY DEF PostFails, Throw
<1>2. ~Ended(p)
  BY <1>1 DEF Ended, Direction
<1> QED BY <1>1, <1>2, EndKeeps

LEMMA KilledKeeps ==
  ASSUME PeersInv, NEW p \in Peers, Killed(p)
  PROVE  PeersInv'
<1>1. ~Ended(p) /\ End(p, "killed")
  BY DEF Killed
<1> QED BY <1>1, EndKeeps

LEMMA StepKeeps ==
  ASSUME PeersInv, [Next]_vars
  PROVE  PeersInv'
<1>1. CASE UNCHANGED vars
  BY <1>1 DEF vars, PeersInv, TypeOK, Lives, KeysApart, ErrorsAlone, ChunksApart, NothingSentYet,
              ThrowsOnlyAlone, Ended, Chunks, NumChunks
<1>2. ASSUME NEW p \in Peers,
             Process(p) \/ Network(p) \/ CompletesWithError(p, "recv") \/ Killed(p)
      PROVE  PeersInv'
  <2>1. CASE Prepost(p)
    BY <2>1, PrepostKeeps
  <2>2. CASE StartLoop(p)
    BY <2>2, StartLoopKeeps
  <2>3. CASE SendHalf(p)
    BY <2>3, HalfKeeps DEF SendHalf, Direction
  <2>4. CASE RecvHalf(p)
    BY <2>4, HalfKeeps DEF RecvHalf, Direction
  <2>5. CASE PostFails(p)
    BY <2>5, FailsKeeps
  <2>6. CASE Deliver(p)
    BY <2>6, DeliverKeeps
  <2>7. CASE CompletesWithError(p, "send")
    BY <2>7, CompletesWithErrorKeeps DEF Direction
  <2>8. CASE CompletesWithError(p, "recv")
    BY <2>8, CompletesWithErrorKeeps DEF Direction
  <2>9. CASE Killed(p)
    BY <2>9, KilledKeeps
  <2> QED BY <1>2, <2>1, <2>2, <2>3, <2>4, <2>5, <2>6, <2>7, <2>8, <2>9 DEF Process, Network
<1> QED BY <1>1, <1>2 DEF Next

LEMMA StartsRight ==
  ASSUME Init
  PROVE  PeersInv
<1>1. /\ twoWay \in BOOLEAN /\ pc = [p \in Peers |-> IF Receives(p) THEN "prepost" ELSE First(p)]
      /\ pool = [p \in Peers |-> Chunks] /\ pending = [p \in Peers |-> [d \in Direction |-> {}]]
      /\ posted = NoQueues /\ completed = NoQueues
  BY DEF Init
<1>2. \A p \in Peers : pc[p] \in {"prepost", "send", "recv"}
  BY <1>1 DEF First
<1>3. \A p \in Peers : \A d \in Direction :
        pending[p][d] = {} /\ posted[p][d] = <<>> /\ completed[p][d] = <<>>
  BY <1>1 DEF NoQueues
<1>4. TypeOK
  <2>1. NoQueues \in [Peers -> [Direction -> Seq(Chunks)]]
    <3>1. <<>> \in Seq(Chunks)
      OBVIOUS
    <3> QED BY <3>1 DEF NoQueues
  <2>2. NoQueues \in [Peers -> [Direction -> Seq(Chunks \cup {Error})]]
    <3>1. <<>> \in Seq(Chunks \cup {Error})
      OBVIOUS
    <3> QED BY <3>1 DEF NoQueues
  <2>3. pc \in [Peers -> {"prepost", "send", "recv", "killed", "threw"}]
    BY <1>1, <1>2
  <2>4. pool \in [Peers -> SUBSET Chunks] /\ pending \in [Peers -> [Direction -> SUBSET Chunks]]
    BY <1>1
  <2> QED BY <1>1, <2>1, <2>2, <2>3, <2>4 DEF TypeOK
<1>5. ASSUME NEW p \in Peers PROVE Lives(p)
  <2>1. ASSUME NEW d \in Direction PROVE KeysApart(p, d) /\ ErrorsAlone(p, d)
    <3>1. pending[p][d] = {} /\ posted[p][d] = <<>> /\ completed[p][d] = <<>>
      BY <1>3
    <3>2. Len(<<>>) = 0 /\ 1 .. 0 = {}
      OBVIOUS
    <3> QED BY <3>1, <3>2 DEF KeysApart, KeysSplit, ErrorsAlone
  <2>2. Cardinality({}) <= Credits
    BY FS_EmptySet, CreditsAssumption
  <2>3. ChunksApart(p)
    BY <1>1, <1>3, <2>2 DEF ChunksApart, Direction
  <2>4. NothingSentYet(p)
    BY <1>3 DEF NothingSentYet, Direction
  <2> QED BY <2>1, <2>3, <2>4 DEF Lives
<1>6. ThrowsOnlyAlone
  BY <1>2 DEF ThrowsOnlyAlone
<1> QED BY <1>4, <1>5, <1>6 DEF PeersInv
-----------------------------------------------------------------------------
(* Theorems. *)

\* The chunks of a process that lives are each in the pool or pending once, what
\* is posted and what is completed with its key is pending and all different,
\* and nothing is completed with an error, nor thrown, while the other lives.
THEOREM PeersInvariant == Spec => []PeersInv
<1>1. Init => PeersInv
  BY StartsRight
<1>2. PeersInv /\ [Next]_vars => PeersInv'
  BY StepKeeps
<1> QED BY <1>1, <1>2, PTL DEF Spec

\* No chunk of a pool is lost or lent twice (memory_pool.h:42 takes a chunk back
\* without asking whether it was lent).
THEOREM ChunksAreConserved == Spec => []ChunksConserved
<1>1. PeersInv => ChunksConserved
  <2> SUFFICES ASSUME PeersInv, NEW p \in Peers, ~Ended(p)
               PROVE  /\ Cardinality(pool[p]) + Cardinality(pending[p]["send"])
                           + Cardinality(pending[p]["recv"]) = NumChunks
                      /\ pool[p] \cup pending[p]["send"] \cup pending[p]["recv"] = Chunks
    BY DEF ChunksConserved
  <2>1. ChunksApart(p) /\ twoWay \in BOOLEAN
    BY DEF PeersInv, Lives, TypeOK
  <2>2. PICK A, B, C : A = pool[p] /\ B = pending[p]["send"] /\ C = pending[p]["recv"]
    OBVIOUS
  <2>3. A \cup B \cup C = Chunks /\ A \cap B = {} /\ (A \cup B) \cap C = {}
    BY <2>1, <2>2 DEF ChunksApart
  <2>4. /\ IsFiniteSet(A) /\ IsFiniteSet(B) /\ IsFiniteSet(C) /\ IsFiniteSet(A \cup B)
        /\ Cardinality(A) \in Nat /\ Cardinality(B) \in Nat /\ Cardinality(C) \in Nat
        /\ Cardinality(Chunks) = NumChunks
    <3>1. /\ A \in SUBSET Chunks /\ B \in SUBSET Chunks /\ C \in SUBSET Chunks
          /\ (A \cup B) \in SUBSET Chunks
      BY <2>3
    <3> QED BY <2>1, <3>1, ChunksFinite
  <2>5. Cardinality(A \cup B) = Cardinality(A) + Cardinality(B)
    <3>1. Cardinality(A \cup B) = Cardinality(A) + Cardinality(B) - Cardinality(A \cap B)
      BY <2>4, FS_Union
    <3>2. Cardinality(A \cap B) = 0
      BY <2>3, FS_EmptySet
    <3> QED BY <2>4, <3>1, <3>2
  <2>6. Cardinality(A \cup B \cup C) = Cardinality(A) + Cardinality(B) + Cardinality(C)
    <3>1. Cardinality((A \cup B) \cup C)
            = Cardinality(A \cup B) + Cardinality(C) - Cardinality((A \cup B) \cap C)
      BY <2>4, FS_Union
    <3>2. Cardinality((A \cup B) \cap C) = 0
      BY <2>3, FS_EmptySet
    <3> QED BY <2>4, <2>5, <3>1, <3>2
  <2> QED BY <2>1, <2>2, <2>3, <2>4, <2>6 DEF ChunksApart
<1> QED BY <1>1, PeersInvariant, PTL

\* No exception of the socket (socket.cpp:98, 156, 189) is thrown while both
\* processes live: what throws one was left alone by a process that was killed.
THEOREM ThrownOnlyAlone == Spec => []ThrowsOnlyAlone
<1>1. PeersInv => ThrowsOnlyAlone
  BY DEF PeersInv
<1> QED BY <1>1, PeersInvariant, PTL

-----------------------------------------------------------------------------
(* No direction of a process loses its last chunk to the other. *)

\* What the action property asks of a step.
KeepsSome(p, d) == pending[p][d] # {} => Ended(p)' \/ pending'[p][d] # {}

LEMMA EndStarvesNone ==
  ASSUME TypeOK, NEW x \in Peers, NEW how \in {"killed", "threw"}, End(x, how),
         NEW p \in Peers, NEW d \in Direction
  PROVE  KeepsSome(p, d)
<1>1. pc' = [pc EXCEPT ![x] = how] /\ pending' = [pending EXCEPT ![x] = [e \in Direction |-> {}]]
  BY DEF End
<1>2. pc'[x] = how /\ (p # x => pending'[p] = pending[p])
  BY <1>1 DEF TypeOK
<1> QED BY <1>2 DEF KeepsSome, Ended

\* One entry of pending changes, and keeps something.
LEMMA ChangeStarvesNone ==
  ASSUME TypeOK, NEW x \in Peers, NEW e \in Direction, NEW keys \in SUBSET Chunks,
         pending' = [pending EXCEPT ![x][e] = keys], pending[x][e] # {} => keys # {},
         NEW p \in Peers, NEW d \in Direction
  PROVE  KeepsSome(p, d)
<1>1. pending \in [Peers -> [Direction -> SUBSET Chunks]]
  BY DEF TypeOK
<1>2. /\ pending'[x][e] = keys
      /\ \A o \in Direction : o # e => pending'[x][o] = pending[x][o]
      /\ \A q \in Peers : q # x => pending'[q] = pending[q]
  BY <1>1, UpdatedAt
<1>3. CASE p = x /\ d = e
  BY <1>2, <1>3 DEF KeepsSome
<1>4. CASE p = x /\ d # e
  BY <1>2, <1>4 DEF KeepsSome
<1>5. CASE p # x
  BY <1>2, <1>5 DEF KeepsSome
<1> QED BY <1>3, <1>4, <1>5

LEMMA HalfStarvesNone ==
  ASSUME PeersInv, NEW x \in Peers, NEW e \in Direction, pc[x] = e, Half(x, e),
         NEW p \in Peers, NEW d \in Direction
  PROVE  KeepsSome(p, d)
<1>1. ~Ended(x) /\ TypeOK
  BY DEF Ended, Direction, PeersInv
<1>2. PICK keys, free : keys = pending[x][e] \ Elements(Done(x, e)) /\ free = Freed(pool[x], Done(x, e))
  OBVIOUS
<1>3. PollOutcome(x, e, keys, free)
  BY <1>1, <1>2, PollFacts
<1>4. CASE PollThrows(x, e) \/ (CanPost(keys, free) /\ PostThrows(Alloc(free), keys))
  <2>1. End(x, "threw")
    BY <1>2, <1>4 DEF Half, Throw
  <2> QED BY <1>1, <2>1, EndStarvesNone
<1>5. CASE ~(PollThrows(x, e) \/ (CanPost(keys, free) /\ PostThrows(Alloc(free), keys)))
  <2>1. pending' = [pending EXCEPT ![x][e] = IF CanPost(keys, free) THEN keys \cup {Alloc(free)} ELSE keys]
    <3>1. IF CanPost(keys, free)
          THEN pending' = [pending EXCEPT ![x][e] = keys \cup {Alloc(free)}]
          ELSE pending' = [pending EXCEPT ![x][e] = keys]
      BY <1>2, <1>5 DEF Half
    <3> QED BY <3>1
  <2>2. /\ (IF CanPost(keys, free) THEN keys \cup {Alloc(free)} ELSE keys) \in SUBSET Chunks
        /\ pending[x][e] # {} => (IF CanPost(keys, free) THEN keys \cup {Alloc(free)} ELSE keys) # {}
    BY <1>3 DEF PollOutcome
  <2> QED BY <1>1, <2>1, <2>2, ChangeStarvesNone
<1> QED BY <1>4, <1>5

LEMMA StepStarvesNone ==
  ASSUME PeersInv, [Next]_vars, NEW p \in Peers, NEW d \in Direction
  PROVE  KeepsSome(p, d)
<1>1. TypeOK
  BY DEF PeersInv
<1>2. ASSUME pending' = pending PROVE KeepsSome(p, d)
  BY <1>2 DEF KeepsSome
<1>3. ASSUME NEW x \in Peers,
             Process(x) \/ Network(x) \/ CompletesWithError(x, "recv") \/ Killed(x)
      PROVE  KeepsSome(p, d)
  <2>1. CASE Prepost(x)
    <3>1. CASE PostThrows(Alloc(pool[x]), pending[x]["recv"])
      <4>1. End(x, "threw")
        BY <2>1, <3>1 DEF Prepost, Throw
      <4> QED BY <1>1, <4>1, EndStarvesNone
    <3>2. CASE ~PostThrows(Alloc(pool[x]), pending[x]["recv"])
      <4>1. pending' = [pending EXCEPT ![x]["recv"] = pending[x]["recv"] \cup {Alloc(pool[x])}]
        BY <2>1, <3>2 DEF Prepost
      <4>2. pending'[p][d] = {} => pending[p][d] = {}
        <5>1. PICK e : e = "recv"
          OBVIOUS
        <5>2. pending \in [Peers -> [Direction -> SUBSET Chunks]] /\ e \in Direction
          BY <1>1, <5>1 DEF TypeOK, Direction
        <5>3. pending'[p][d] = IF p = x /\ d = e THEN pending[x][e] \cup {Alloc(pool[x])} ELSE pending[p][d]
          BY <4>1, <5>1, <5>2
        <5> QED BY <5>3
      <4> QED BY <4>2 DEF KeepsSome
    <3> QED BY <3>1, <3>2
  <2>2. CASE StartLoop(x)
    BY <1>2, <2>2 DEF StartLoop
  <2>3. CASE SendHalf(x)
    BY <2>3, HalfStarvesNone DEF SendHalf, Direction
  <2>4. CASE RecvHalf(x)
    BY <2>4, HalfStarvesNone DEF RecvHalf, Direction
  <2>5. CASE PostFails(x)
    BY <1>1, <2>5, EndStarvesNone DEF PostFails, Throw
  <2>6. CASE Deliver(x)
    BY <1>2, <2>6 DEF Deliver
  <2>7. CASE CompletesWithError(x, "send") \/ CompletesWithError(x, "recv")
    BY <1>2, <2>7 DEF CompletesWithError
  <2>8. CASE Killed(x)
    BY <1>1, <2>8, EndStarvesNone DEF Killed
  <2> QED BY <1>3, <2>1, <2>2, <2>3, <2>4, <2>5, <2>6, <2>7, <2>8 DEF Process, Network
<1> QED BY <1>2, <1>3 DEF Next, vars

\* The two halves of a two-way loop never take each other's chunks from the
\* pool: a direction that has something pending keeps something until the
\* process ends (t_client2.cpp:82, 92).
THEOREM NoneStarves == Spec => NeitherStarves
<1>1. PeersInv /\ [Next]_vars =>
        [\A p \in Peers : \A d \in Direction :
           pending[p][d] # {} => Ended(p)' \/ pending'[p][d] # {}]_vars
  BY StepStarvesNone DEF KeepsSome
<1> QED BY <1>1, PeersInvariant, PTL DEF Spec, NeitherStarves
=============================================================================
