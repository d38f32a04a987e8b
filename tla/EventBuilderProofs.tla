------------------------- MODULE EventBuilderProofs -------------------------
(***************************************************************************)
(* What EventBuilder keeps, for every number of nodes, of credits and of   *)
(* cycles: the numbers on every connection, and from them the credits and  *)
(* the alignment of the fragments; that only headers that do not match end *)
(* a process, that no memory is reused while a message is read from it or  *)
(* waits in it, what a ring with less room than there are nodes does to    *)
(* the system, and that it implements its two abstract specifications.     *)
(***************************************************************************)
EXTENDS EventBuilder, DataLemmas

(* The inductive invariant.  What readout unit i has sent to builder unit j *)
(* and j has not built is, in the order of the connection: dataVect[j][i],  *)
(* recvCQ[j][i], wire[i][j].                                                *)

\* Where builder unit j comes in the order of unit i's cycle.
FirstId(i) == IF i # NumNodes - 1 THEN i + 1 ELSE 0
PosOf(i, j) == IF j >= FirstId(i) THEN j - FirstId(i) ELSE j - FirstId(i) + NumNodes

\* How many multievents unit i has sent to unit j.
Sent(i, j) == IF PosOf(i, j) < seqPos[i] THEN cycles[i] + 1 ELSE cycles[i]

IovNumbered ==
    \A i \in Nodes : \A p \in 1 .. Len(iovToSend[i]) :
      iovToSend[i][p] = Num(cycles[i], p - 1)

Stream(i, j) ==
    LET data == Len(dataVect[j][i])
        cq   == Len(recvCQ[j][i])
    IN  /\ built[j] + data + cq + Len(wire[i][j]) = Sent(i, j)
        /\ \A p \in 1 .. data : dataVect[j][i][p].num = Num(built[j] + p - 1, j)
        /\ \A p \in 1 .. cq : recvCQ[j][i][p].num = Num(built[j] + data + p - 1, j)
        /\ \A p \in 1 .. Len(wire[i][j]) :
             wire[i][j][p] = Num(built[j] + data + cq + p - 1, j)

StreamsNumbered == \A i, j \in Nodes : Stream(i, j)

StreamInv == TypeOK /\ CreditsKept /\ IovNumbered /\ StreamsNumbered
-----------------------------------------------------------------------------
LEMMA NodesFacts ==
  /\ NumNodes \in Nat \ {0} /\ Credits \in Nat \ {0} /\ MaxCycles \in Nat
  /\ 0 \in Nodes /\ Nodes \subseteq Nat
  /\ Slots \in Nat \ {0} /\ Capacity \in Nat
BY ConfigAssumption DEF Nodes, Slots, Capacity

\* id_sequence is a permutation of the nodes, and PosOf inverts it.
LEMMA IdSequencePermutes ==
  ASSUME NEW i \in Nodes, NEW p \in 0 .. NumNodes - 1
  PROVE  /\ IdSequence(i)[p] \in Nodes
         /\ PosOf(i, IdSequence(i)[p]) = p
         /\ \A j \in Nodes : PosOf(i, j) \in 0 .. NumNodes - 1
         /\ \A j \in Nodes : PosOf(i, j) = p => j = IdSequence(i)[p]
BY NodesFacts DEF IdSequence, PosOf, FirstId, Nodes

LEMMA NumType == ASSUME NEW r \in Nat, NEW a \in Nat PROVE Num(r, a) \in Nat
BY NodesFacts DEF Num

LEMMA NumShift ==
  ASSUME NEW r \in Nat, NEW a \in Nat, NEW p \in Int PROVE Num(r, a) + p = Num(r, a + p)
BY NodesFacts, NumType DEF Num

LEMMA AddrType == ASSUME NEW n \in Nat PROVE Addr(n) \in 0 .. Slots - 1
BY NodesFacts DEF Addr
-----------------------------------------------------------------------------
LEMMA InitStreamInv == Init => StreamInv
<1> SUFFICES ASSUME Init PROVE StreamInv
  OBVIOUS
<1> USE NodesFacts
<1>1. [p \in 1 .. Credits |-> p - 1] \in Seq(0 .. Credits - 1)
      /\ Len([p \in 1 .. Credits |-> p - 1]) = Credits
  OBVIOUS
<1>2. TypeOK
  BY <1>1 DEF Init, TypeOK, EmptyQueues, Nodes
<1>3. CreditsKept
  BY <1>1 DEF Init, CreditsKept, EmptyQueues
<1>4. IovNumbered
  BY DEF Init, IovNumbered
<1>5. StreamsNumbered
  <2> SUFFICES ASSUME NEW i \in Nodes, NEW j \in Nodes PROVE Stream(i, j)
    BY DEF StreamsNumbered
  <2>1. PosOf(i, j) >= 0
    BY DEF PosOf, FirstId, Nodes
  <2>2. Sent(i, j) = 0
    BY <2>1 DEF Init, Sent, PosOf, FirstId, Nodes
  <2> QED BY <2>2 DEF Init, Stream, EmptyQueues
<1> QED BY <1>2, <1>3, <1>4, <1>5 DEF StreamInv

\* Updating one connection.
LEMMA ConnUpdate ==
  ASSUME NEW S, NEW f \in [Nodes -> [Nodes -> S]],
         NEW i \in Nodes, NEW j \in Nodes, NEW v \in S
  PROVE  /\ [f EXCEPT ![i][j] = v] \in [Nodes -> [Nodes -> S]]
         /\ \A x, y \in Nodes :
              [f EXCEPT ![i][j] = v][x][y] = IF x = i /\ y = j THEN v ELSE f[x][y]
OBVIOUS

LEMMA ConnTypes ==
  ASSUME TypeOK, NEW i \in Nodes, NEW j \in Nodes
  PROVE  /\ wire[i][j] \in Seq(Nat) /\ unacked[i][j] \in Seq(Nat)
         /\ sendCQ[i][j] \in Seq(Nat)
         /\ recvPosted[j][i] \in Seq(0 .. Credits - 1)
         /\ recvCQ[j][i] \in Seq(Fragment) /\ dataVect[j][i] \in Seq(Fragment)
         /\ built[j] \in Nat
         /\ Len(wire[i][j]) \in Nat /\ Len(unacked[i][j]) \in Nat
         /\ Len(sendCQ[i][j]) \in Nat /\ Len(recvPosted[j][i]) \in Nat
         /\ Len(recvCQ[j][i]) \in Nat /\ Len(dataVect[j][i]) \in Nat
<1>1. /\ wire[i][j] \in Seq(Nat) /\ unacked[i][j] \in Seq(Nat)
      /\ sendCQ[i][j] \in Seq(Nat)
      /\ recvPosted[j][i] \in Seq(0 .. Credits - 1)
      /\ recvCQ[j][i] \in Seq(Fragment) /\ dataVect[j][i] \in Seq(Fragment)
      /\ built[j] \in Nat
  BY DEF TypeOK
<1> QED BY <1>1, SeqType

LEMMA FragmentType ==
  ASSUME NEW b \in 0 .. Credits - 1, NEW n \in Nat
  PROVE  /\ [buf |-> b, num |-> n] \in Fragment
         /\ [buf |-> b, num |-> n].num = n
BY DEF Fragment

LEMMA DeliverStreamInv ==
  ASSUME StreamInv, NEW i \in Nodes, NEW j \in Nodes, Deliver(i, j)
  PROVE  StreamInv'
<1> DEFINE n == Head(wire[i][j])
           b == Head(recvPosted[j][i])
           f == [buf |-> b, num |-> n]
<1>1. /\ TypeOK /\ CreditsKept /\ IovNumbered /\ StreamsNumbered
      /\ wire[i][j] # <<>> /\ recvPosted[j][i] # <<>>
      /\ UNCHANGED <<ruVars, sendCQ, buVars, dead>>
  BY DEF StreamInv, Deliver
<1>2. n \in Nat /\ b \in 0 .. Credits - 1 /\ n = wire[i][j][1]
  BY <1>1, ConnTypes, SeqTail
<1>3. f \in Fragment /\ f.num = n
  BY <1>2, FragmentType
<1>4. /\ wire' = [wire EXCEPT ![i][j] = Tail(wire[i][j])]
      /\ unacked' = [unacked EXCEPT ![i][j] = Append(unacked[i][j], n)]
      /\ recvPosted' = [recvPosted EXCEPT ![j][i] = Tail(recvPosted[j][i])]
      /\ recvCQ' = [recvCQ EXCEPT ![j][i] = Append(recvCQ[j][i], f)]
  BY DEF Deliver
<1> HIDE DEF n, b, f
<1>5. /\ Tail(wire[i][j]) \in Seq(Nat) /\ Append(unacked[i][j], n) \in Seq(Nat)
      /\ Tail(recvPosted[j][i]) \in Seq(0 .. Credits - 1)
      /\ Append(recvCQ[j][i], f) \in Seq(Fragment)
      /\ Len(Tail(wire[i][j])) = Len(wire[i][j]) - 1
      /\ Len(Append(unacked[i][j], n)) = Len(unacked[i][j]) + 1
      /\ Len(Tail(recvPosted[j][i])) = Len(recvPosted[j][i]) - 1
      /\ Len(Append(recvCQ[j][i], f)) = Len(recvCQ[j][i]) + 1
      /\ \A p \in 1 .. Len(wire[i][j]) - 1 : Tail(wire[i][j])[p] = wire[i][j][p + 1]
      /\ \A p \in 1 .. Len(recvCQ[j][i]) + 1 :
           Append(recvCQ[j][i], f)[p] = IF p <= Len(recvCQ[j][i]) THEN recvCQ[j][i][p] ELSE f
  <2>1. /\ wire[i][j] \in Seq(Nat) /\ unacked[i][j] \in Seq(Nat)
        /\ recvPosted[j][i] \in Seq(0 .. Credits - 1) /\ recvCQ[j][i] \in Seq(Fragment)
    BY <1>1, ConnTypes
  <2>2. /\ Tail(wire[i][j]) \in Seq(Nat)
        /\ Len(Tail(wire[i][j])) = Len(wire[i][j]) - 1
        /\ \A p \in 1 .. Len(wire[i][j]) - 1 : Tail(wire[i][j])[p] = wire[i][j][p + 1]
    BY <1>1, <2>1, SeqTail
  <2>3. /\ Append(unacked[i][j], n) \in Seq(Nat)
        /\ Len(Append(unacked[i][j], n)) = Len(unacked[i][j]) + 1
    BY <1>2, <2>1, SeqAppend
  <2>4. /\ Tail(recvPosted[j][i]) \in Seq(0 .. Credits - 1)
        /\ Len(Tail(recvPosted[j][i])) = Len(recvPosted[j][i]) - 1
    BY <1>1, <2>1, SeqTail
  <2>5. /\ Append(recvCQ[j][i], f) \in Seq(Fragment)
        /\ Len(Append(recvCQ[j][i], f)) = Len(recvCQ[j][i]) + 1
        /\ \A p \in 1 .. Len(recvCQ[j][i]) + 1 :
             Append(recvCQ[j][i], f)[p] = IF p <= Len(recvCQ[j][i]) THEN recvCQ[j][i][p] ELSE f
    BY <1>3, <2>1, SeqAppend
  <2> QED BY <2>2, <2>3, <2>4, <2>5
<1>6. /\ wire \in [Nodes -> [Nodes -> Seq(Nat)]]
      /\ unacked \in [Nodes -> [Nodes -> Seq(Nat)]]
      /\ recvPosted \in [Nodes -> [Nodes -> Seq(0 .. Credits - 1)]]
      /\ recvCQ \in [Nodes -> [Nodes -> Seq(Fragment)]]
  BY <1>1 DEF TypeOK
<1>7. /\ wire' \in [Nodes -> [Nodes -> Seq(Nat)]]
      /\ unacked' \in [Nodes -> [Nodes -> Seq(Nat)]]
      /\ recvPosted' \in [Nodes -> [Nodes -> Seq(0 .. Credits - 1)]]
      /\ recvCQ' \in [Nodes -> [Nodes -> Seq(Fragment)]]
  BY <1>4, <1>5, <1>6, ConnUpdate
<1>8. \A x, y \in Nodes :
        /\ wire'[x][y] = IF x = i /\ y = j THEN Tail(wire[i][j]) ELSE wire[x][y]
        /\ unacked'[x][y] = IF x = i /\ y = j THEN Append(unacked[i][j], n) ELSE unacked[x][y]
        /\ recvPosted'[y][x] = IF x = i /\ y = j THEN Tail(recvPosted[j][i]) ELSE recvPosted[y][x]
        /\ recvCQ'[y][x] = IF x = i /\ y = j THEN Append(recvCQ[j][i], f) ELSE recvCQ[y][x]
  <2>1. \A x, y \in Nodes :
          wire'[x][y] = IF x = i /\ y = j THEN Tail(wire[i][j]) ELSE wire[x][y]
    BY <1>4, <1>6
  <2>2. \A x, y \in Nodes :
          unacked'[x][y] = IF x = i /\ y = j THEN Append(unacked[i][j], n) ELSE unacked[x][y]
    BY <1>4, <1>6
  <2>3. \A y, x \in Nodes :
          recvPosted'[y][x] = IF y = j /\ x = i THEN Tail(recvPosted[j][i]) ELSE recvPosted[y][x]
    BY <1>4, <1>6
  <2>4. \A y, x \in Nodes :
          recvCQ'[y][x] = IF y = j /\ x = i THEN Append(recvCQ[j][i], f) ELSE recvCQ[y][x]
    BY <1>4, <1>6
  <2> QED BY <2>1, <2>2, <2>3, <2>4
<1>9. TypeOK'
  BY <1>1, <1>7 DEF TypeOK, ruVars, buVars
<1>10. CreditsKept'
  <2> SUFFICES ASSUME NEW x \in Nodes, NEW y \in Nodes
               PROVE  /\ Len(wire'[x][y]) + Len(unacked'[x][y]) + Len(sendCQ[x][y]) <= Credits
                      /\ Len(recvPosted'[y][x]) + Len(recvCQ'[y][x]) + Len(dataVect[y][x]) = Credits
    BY <1>1 DEF CreditsKept, buVars
  <2>1. /\ Len(wire[x][y]) + Len(unacked[x][y]) + Len(sendCQ[x][y]) <= Credits
        /\ Len(recvPosted[y][x]) + Len(recvCQ[y][x]) + Len(dataVect[y][x]) = Credits
    BY <1>1 DEF CreditsKept
  <2>2. CASE x = i /\ y = j
    <3> DEFINE w == Len(wire[x][y])
               u == Len(unacked[x][y])
               s == Len(sendCQ[x][y])
               r == Len(recvPosted[y][x])
               c == Len(recvCQ[y][x])
               d == Len(dataVect[y][x])
    <3>1. /\ wire'[x][y] = Tail(wire[i][j]) /\ unacked'[x][y] = Append(unacked[i][j], n)
          /\ recvPosted'[y][x] = Tail(recvPosted[j][i]) /\ recvCQ'[y][x] = Append(recvCQ[j][i], f)
      BY <1>8, <2>2
    <3>2. /\ Len(wire'[x][y]) = w - 1 /\ Len(unacked'[x][y]) = u + 1
          /\ Len(recvPosted'[y][x]) = r - 1 /\ Len(recvCQ'[y][x]) = c + 1
      BY <1>5, <2>2, <3>1
    <3>3. {w, u, s, r, c, d, Credits} \subseteq Nat /\ w + u + s <= Credits /\ r + c + d = Credits
      BY <1>1, <2>1, ConnTypes, NodesFacts
    <3> HIDE DEF w, u, s, r, c, d
    <3>4. (w - 1) + (u + 1) + s <= Credits /\ (r - 1) + (c + 1) + d = Credits
      BY <3>3
    <3> QED BY <3>2, <3>4 DEF s, d
  <2>3. CASE ~(x = i /\ y = j)
    BY <1>8, <2>1, <2>3
  <2> QED BY <2>2, <2>3
<1>11. IovNumbered'
  BY <1>1 DEF ruVars, IovNumbered
<1>12. StreamsNumbered'
  <2> SUFFICES ASSUME NEW x \in Nodes, NEW y \in Nodes PROVE Stream(x, y)'
    BY DEF StreamsNumbered
  <2>1. Stream(x, y) /\ Sent(x, y)' = Sent(x, y) /\ dataVect' = dataVect /\ built' = built
    BY <1>1 DEF StreamsNumbered, ruVars, buVars, Sent
  <2>2. CASE ~(x = i /\ y = j)
    <3>1. wire'[x][y] = wire[x][y] /\ recvCQ'[y][x] = recvCQ[y][x]
      BY <1>8, <2>2
    <3> QED BY <2>1, <3>1 DEF Stream
  <2>3. CASE x = i /\ y = j
    <3> DEFINE d == Len(dataVect[j][i])
               c == Len(recvCQ[j][i])
               w == Len(wire[i][j])
               B == built[j]
    <3>1. wire'[i][j] = Tail(wire[i][j]) /\ recvCQ'[j][i] = Append(recvCQ[j][i], f)
      BY <1>8
    <3>2. d \in Nat /\ c \in Nat /\ w \in Nat /\ B \in Nat /\ w # 0
      BY <1>1, ConnTypes, SeqType
    <3>3. /\ B + d + c + w = Sent(i, j)
          /\ \A p \in 1 .. d : dataVect[j][i][p].num = Num(B + p - 1, j)
          /\ \A p \in 1 .. c : recvCQ[j][i][p].num = Num(B + d + p - 1, j)
          /\ \A p \in 1 .. w : wire[i][j][p] = Num(B + d + c + p - 1, j)
      BY <2>1, <2>3 DEF Stream
    <3>4. /\ Len(recvCQ'[j][i]) = c + 1 /\ Len(wire'[i][j]) = w - 1
          /\ \A p \in 1 .. w - 1 : wire'[i][j][p] = wire[i][j][p + 1]
          /\ \A p \in 1 .. c + 1 : recvCQ'[j][i][p] = IF p <= c THEN recvCQ[j][i][p] ELSE f
      BY <1>5, <3>1
    <3>5. Stream(i, j)' <=>
            /\ B + d + Len(recvCQ'[j][i]) + Len(wire'[i][j]) = Sent(i, j)
            /\ \A p \in 1 .. d : dataVect[j][i][p].num = Num(B + p - 1, j)
            /\ \A p \in 1 .. Len(recvCQ'[j][i]) : recvCQ'[j][i][p].num = Num(B + d + p - 1, j)
            /\ \A p \in 1 .. Len(wire'[i][j]) :
                 wire'[i][j][p] = Num(B + d + Len(recvCQ'[j][i]) + p - 1, j)
      BY <2>1, <2>3 DEF Stream
    <3> HIDE DEF d, c, w, B
    <3>6. B + d + (c + 1) + (w - 1) = Sent(i, j)
      BY <3>2, <3>3
    <3>7. ASSUME NEW p \in 1 .. c + 1
          PROVE  recvCQ'[j][i][p].num = Num(B + d + p - 1, j)
      <4>1. CASE p <= c
        <5>1. p \in 1 .. c
          BY <3>2, <4>1
        <5>2. recvCQ'[j][i][p] = recvCQ[j][i][p]
          BY <3>4, <4>1
        <5> QED BY <3>3, <5>1, <5>2
      <4>2. CASE p = c + 1
        <5>1. recvCQ'[j][i][p] = f
          BY <3>2, <3>4, <4>2
        <5>2. wire[i][j][1] = Num(B + d + c + 1 - 1, j)
          BY <3>2, <3>3
        <5>3. B + d + c + 1 - 1 = B + d + p - 1
          BY <3>2, <4>2
        <5> QED BY <1>2, <1>3, <5>1, <5>2, <5>3
      <4> QED BY <3>2, <4>1, <4>2
    <3>8. ASSUME NEW p \in 1 .. w - 1
          PROVE  wire'[i][j][p] = Num(B + d + (c + 1) + p - 1, j)
      <4>1. p + 1 \in 1 .. w /\ wire'[i][j][p] = wire[i][j][p + 1]
        BY <3>2, <3>4
      <4>2. wire[i][j][p + 1] = Num(B + d + c + (p + 1) - 1, j)
        BY <3>3, <4>1
      <4>3. B + d + c + (p + 1) - 1 = B + d + (c + 1) + p - 1
        BY <3>2
      <4> QED BY <4>1, <4>2, <4>3
    <3> QED BY <2>3, <3>3, <3>4, <3>5, <3>6, <3>7, <3>8
  <2> QED BY <2>2, <2>3
<1> QED BY <1>9, <1>10, <1>11, <1>12 DEF StreamInv

LEMMA AckStreamInv ==
  ASSUME StreamInv, NEW i \in Nodes, NEW j \in Nodes, Ack(i, j)
  PROVE  StreamInv'
<1> DEFINE n == Head(unacked[i][j])
<1>1. /\ TypeOK /\ CreditsKept /\ IovNumbered /\ StreamsNumbered
      /\ unacked[i][j] # <<>>
      /\ UNCHANGED <<ruVars, wire, recvPosted, recvCQ, buVars, dead>>
  BY DEF StreamInv, Ack
<1>2. unacked[i][j] \in Seq(Nat) /\ sendCQ[i][j] \in Seq(Nat) /\ n \in Nat
  BY <1>1, ConnTypes, SeqTail
<1>3. /\ unacked' = [unacked EXCEPT ![i][j] = Tail(unacked[i][j])]
      /\ sendCQ' = [sendCQ EXCEPT ![i][j] = Append(sendCQ[i][j], n)]
  BY DEF Ack
<1> HIDE DEF n
<1>4. /\ Tail(unacked[i][j]) \in Seq(Nat)
      /\ Len(Tail(unacked[i][j])) = Len(unacked[i][j]) - 1
  BY <1>1, <1>2, SeqTail
<1>5. /\ Append(sendCQ[i][j], n) \in Seq(Nat)
      /\ Len(Append(sendCQ[i][j], n)) = Len(sendCQ[i][j]) + 1
  BY <1>2, SeqAppend
<1>6. /\ unacked \in [Nodes -> [Nodes -> Seq(Nat)]]
      /\ sendCQ \in [Nodes -> [Nodes -> Seq(Nat)]]
  BY <1>1 DEF TypeOK
<1>7. /\ unacked' \in [Nodes -> [Nodes -> Seq(Nat)]]
      /\ sendCQ' \in [Nodes -> [Nodes -> Seq(Nat)]]
  BY <1>3, <1>4, <1>5, <1>6, ConnUpdate
<1>8. TypeOK'
  BY <1>1, <1>7 DEF TypeOK, ruVars, buVars
<1>9. CreditsKept'
  <2> SUFFICES ASSUME NEW x \in Nodes, NEW y \in Nodes
               PROVE  Len(wire[x][y]) + Len(unacked'[x][y]) + Len(sendCQ'[x][y]) <= Credits
    BY <1>1 DEF CreditsKept, buVars
  <2>1. Len(wire[x][y]) + Len(unacked[x][y]) + Len(sendCQ[x][y]) <= Credits
    BY <1>1 DEF CreditsKept
  <2>2. CASE x = i /\ y = j
    <3> DEFINE w == Len(wire[x][y])
               u == Len(unacked[x][y])
               s == Len(sendCQ[x][y])
    <3>1. Len(unacked'[x][y]) = u - 1 /\ Len(sendCQ'[x][y]) = s + 1
      BY <1>3, <1>4, <1>5, <1>6, <2>2
    <3>2. {w, u, s, Credits} \subseteq Nat /\ w + u + s <= Credits
      BY <1>1, <2>1, ConnTypes, NodesFacts
    <3> HIDE DEF w, u, s
    <3>3. w + (u - 1) + (s + 1) <= Credits
      BY <3>2
    <3> QED BY <3>1, <3>3 DEF w
  <2>3. CASE ~(x = i /\ y = j)
    <3>1. unacked'[x][y] = unacked[x][y] /\ sendCQ'[x][y] = sendCQ[x][y]
      BY <1>3, <1>6, <2>3
    <3> QED BY <2>1, <3>1
  <2> QED BY <2>2, <2>3
<1>10. IovNumbered'
  BY <1>1 DEF ruVars, IovNumbered
<1>11. StreamsNumbered'
  BY <1>1 DEF StreamsNumbered, Stream, Sent, ruVars, buVars
<1> QED BY <1>8, <1>9, <1>10, <1>11 DEF StreamInv

\* The two parts of a queue that was polled.
LEMMA PollParts ==
  ASSUME NEW S, NEW s \in Seq(S), NEW n \in 0 .. Len(s)
  PROVE  /\ Polled(s, n) \in Seq(S) /\ Len(Polled(s, n)) = n
         /\ \A p \in 1 .. n : Polled(s, n)[p] = s[p]
         /\ NotPolled(s, n) \in Seq(S) /\ Len(NotPolled(s, n)) = Len(s) - n
         /\ \A p \in 1 .. Len(s) - n : NotPolled(s, n)[p] = s[p + n]
<1>1. /\ SubSeq(s, 1, n) \in Seq(S) /\ Len(SubSeq(s, 1, n)) = n
      /\ \A p \in 1 .. n : SubSeq(s, 1, n)[p] = s[p]
  OBVIOUS
<1> QED BY <1>1, SeqRest DEF Polled, NotPolled

LEMMA DataReadType ==
  ASSUME TypeOK, NEW j \in Nodes, NEW i \in Nodes, NEW n \in Polls(recvCQ[j])
  PROVE  /\ DataRead(j, n)[i] \in Seq(Fragment)
         /\ n[i] \in 0 .. Len(recvCQ[j][i])
         /\ Len(DataRead(j, n)[i]) = Len(dataVect[j][i]) + n[i]
         /\ \A p \in 1 .. Len(DataRead(j, n)[i]) :
              DataRead(j, n)[i][p] = IF p <= Len(dataVect[j][i])
                                       THEN dataVect[j][i][p]
                                       ELSE recvCQ[j][i][p - Len(dataVect[j][i])]
<1> DEFINE s == dataVect[j][i]
           c == recvCQ[j][i]
           t == Polled(c, n[i])
<1>1. DataRead(j, n)[i] = s \o t
  BY DEF DataRead
<1>2. s \in Seq(Fragment) /\ c \in Seq(Fragment)
  BY ConnTypes
<1>3. n[i] \in 0 .. Len(c)
  <2>1. n[i] \in 0 .. Credits /\ n[i] <= Len(c)
    BY DEF Polls
  <2> QED BY <2>1, NodesFacts
<1> HIDE DEF s, c
<1>4. /\ t \in Seq(Fragment) /\ Len(t) = n[i]
      /\ \A p \in 1 .. n[i] : t[p] = c[p]
  BY <1>2, <1>3, PollParts
<1> HIDE DEF t
<1>5. /\ s \o t \in Seq(Fragment)
      /\ Len(s \o t) = Len(s) + Len(t)
      /\ \A p \in 1 .. Len(s) + Len(t) : (s \o t)[p] = IF p <= Len(s) THEN s[p] ELSE t[p - Len(s)]
  BY <1>2, <1>4, SeqConcat
<1>6. Len(s) \in Nat /\ n[i] \in Nat
  BY <1>2, <1>3, SeqType
<1>7. ASSUME NEW p \in 1 .. Len(s) + n[i]
      PROVE  (s \o t)[p] = IF p <= Len(s) THEN s[p] ELSE c[p - Len(s)]
  <2>1. ~(p <= Len(s)) => p - Len(s) \in 1 .. n[i]
    BY <1>6
  <2> QED BY <1>4, <1>5, <2>1
<1> QED BY <1>1, <1>3, <1>4, <1>5, <1>7 DEF s, c

\* min_wrs is at most what every connection has.
LEMMA MinWrsBound ==
  ASSUME NEW data, \A i \in Nodes : Len(data[i]) \in Nat
  PROVE  /\ MinWrs(data) \in 0 .. Credits
         /\ \A i \in Nodes : MinWrs(data) <= Len(data[i])
<1> DEFINE S == {m \in Nat : m = Credits \/ \E i \in Nodes : m = Len(data[i])}
<1>1. S \in SUBSET Nat /\ Credits \in S
  BY NodesFacts
<1>2. PICK m \in S : \A x \in S : m <= x
  <2> HIDE DEF S
  <2> QED BY <1>1, LeastExists
<1>3. m \in Nat /\ m <= Credits /\ \A i \in Nodes : m <= Len(data[i])
  BY <1>1, <1>2
<1>4. m < Credits => \E i \in Nodes : m = Len(data[i])
  BY <1>2, <1>3, NodesFacts
<1>5. m \in 0 .. Credits
  BY <1>3, NodesFacts
<1>6. \E x \in 0 .. Credits : /\ \A i \in Nodes : x <= Len(data[i])
                              /\ x < Credits => \E i \in Nodes : x = Len(data[i])
  BY <1>3, <1>4, <1>5
<1> QED BY <1>6, Zenon DEF MinWrs

\* An iteration builds no more than every connection has.
LEMMA ReleasedBound ==
  ASSUME NEW data, \A i \in Nodes : Len(data[i]) \in Nat
  PROVE  /\ Released(data, MinWrs(data)) \in 0 .. Credits
         /\ \A i \in Nodes : Released(data, MinWrs(data)) <= Len(data[i])
<1>1. /\ MinWrs(data) \in 0 .. Credits
      /\ \A i \in Nodes : MinWrs(data) <= Len(data[i])
  BY MinWrsBound
<1>2. Released(data, MinWrs(data)) \in {0, MinWrs(data)}
  BY DEF Released
<1> QED BY <1>1, <1>2, NodesFacts

\* What a fragment read by unit j from connection i is, by its position.
LEMMA DataReadNumbered ==
  ASSUME TypeOK, StreamsNumbered, NEW i \in Nodes, NEW j \in Nodes,
         NEW n \in Polls(recvCQ[j]), NEW p \in 1 .. Len(DataRead(j, n)[i])
  PROVE  DataRead(j, n)[i][p].num = Num(built[j] + p - 1, j)
<1> DEFINE d == Len(dataVect[j][i])
           c == Len(recvCQ[j][i])
           B == built[j]
<1>1. d \in Nat /\ c \in Nat /\ B \in Nat /\ p \in 1 .. d + n[i] /\ n[i] \in 0 .. c
  BY ConnTypes, DataReadType
<1>2. /\ \A q \in 1 .. d : dataVect[j][i][q].num = Num(B + q - 1, j)
      /\ \A q \in 1 .. c : recvCQ[j][i][q].num = Num(B + d + q - 1, j)
  BY DEF StreamsNumbered, Stream
<1>3. DataRead(j, n)[i][p] = IF p <= d THEN dataVect[j][i][p] ELSE recvCQ[j][i][p - d]
  BY DataReadType
<1> HIDE DEF d, c, B
<1>4. CASE p <= d
  <2>1. p \in 1 .. d
    BY <1>1, <1>4
  <2> QED BY <1>2, <1>3, <1>4, <2>1 DEF B
<1>5. CASE ~(p <= d)
  <2>1. p - d \in 1 .. c /\ B + d + (p - d) - 1 = B + p - 1
    BY <1>1, <1>5
  <2>2. recvCQ[j][i][p - d].num = Num(B + d + (p - d) - 1, j)
    BY <1>2, <2>1
  <2> QED BY <1>3, <1>5, <2>1, <2>2 DEF B
<1> QED BY <1>4, <1>5

LEMMA BuffersType ==
  ASSUME NEW data \in Seq(Fragment), NEW m \in 0 .. Len(data)
  PROVE  /\ Buffers(data, m) \in Seq(0 .. Credits - 1)
         /\ Len(Buffers(data, m)) = m
<1>1. \A p \in 1 .. m : data[p] \in Fragment
  BY SeqType
<1>2. \A p \in 1 .. m : data[p].buf \in 0 .. Credits - 1
  BY <1>1 DEF Fragment
<1>3. m \in Nat
  BY SeqType
<1>4. ASSUME NEW S, NEW f \in [1 .. m -> S] PROVE f \in Seq(S) /\ Len(f) = m
  BY <1>3, <1>4
<1>5. Buffers(data, m) \in [1 .. m -> 0 .. Credits - 1]
  BY <1>2 DEF Buffers
<1> QED BY <1>4, <1>5

\* Updating all the connections of one unit.
LEMMA UnitUpdate ==
  ASSUME NEW S, NEW f \in [Nodes -> [Nodes -> S]], NEW j \in Nodes, NEW row \in [Nodes -> S]
  PROVE  /\ [f EXCEPT ![j] = row] \in [Nodes -> [Nodes -> S]]
         /\ \A y, x \in Nodes : [f EXCEPT ![j] = row][y][x] = IF y = j THEN row[x] ELSE f[y][x]
OBVIOUS

LEMMA RunBUStreamInv ==
  ASSUME StreamInv, NEW j \in Nodes, NEW n \in Polls(recvCQ[j]), RunBU(j, n)
  PROVE  StreamInv'
<1> DEFINE data == DataRead(j, n)
           m == Released(data, MinWrs(data))
           rest == [i \in Nodes |-> SubSeq(data[i], m + 1, Len(data[i]))]
           posted == [i \in Nodes |-> recvPosted[j][i] \o Buffers(data[i], m)]
           left == [i \in Nodes |-> NotPolled(recvCQ[j][i], n[i])]
<1>1. /\ TypeOK /\ CreditsKept /\ IovNumbered /\ StreamsNumbered
      /\ UNCHANGED <<ruVars, wire, unacked, sendCQ>>
  BY DEF StreamInv, RunBU
<1>2. ASSUME NEW i \in Nodes
      PROVE  /\ data[i] \in Seq(Fragment) /\ Len(data[i]) \in Nat
             /\ Len(data[i]) = Len(dataVect[j][i]) + n[i]
             /\ n[i] \in 0 .. Len(recvCQ[j][i])
  BY <1>1, DataReadType, SeqType
<1>3. m \in 0 .. Credits /\ \A i \in Nodes : m \in 0 .. Len(data[i])
  <2>1. m \in 0 .. Credits /\ \A i \in Nodes : m <= Len(data[i])
    <3> HIDE DEF data
    <3> QED BY <1>2, ReleasedBound
  <2> QED BY <1>2, <2>1
<1>4. /\ recvCQ' = [recvCQ EXCEPT ![j] = left]
      /\ dataVect' = [dataVect EXCEPT ![j] = rest]
      /\ built' = [built EXCEPT ![j] = built[j] + m]
      /\ dead' \in {dead, dead \cup {j}}
  BY DEF RunBU, Unbuilt
<1>5. recvPosted' = [recvPosted EXCEPT ![j] = posted]
  BY DEF RunBU
<1> HIDE DEF m, data
<1>6. ASSUME NEW i \in Nodes
      PROVE  /\ rest[i] \in Seq(Fragment)
             /\ Len(rest[i]) = Len(data[i]) - m
             /\ \A p \in 1 .. Len(data[i]) - m : rest[i][p] = data[i][p + m]
  <2>1. data[i] \in Seq(Fragment) /\ m \in 0 .. Len(data[i])
    BY <1>2, <1>3
  <2>2. rest[i] = SubSeq(data[i], m + 1, Len(data[i]))
    OBVIOUS
  <2> QED BY <2>1, <2>2, SeqRest
<1>7. ASSUME NEW i \in Nodes
      PROVE  /\ posted[i] \in Seq(0 .. Credits - 1)
             /\ Len(posted[i]) = Len(recvPosted[j][i]) + m
  <2>1. data[i] \in Seq(Fragment) /\ m \in 0 .. Len(data[i]) /\ recvPosted[j][i] \in Seq(0 .. Credits - 1)
    BY <1>1, <1>2, <1>3, ConnTypes
  <2>2. /\ Buffers(data[i], m) \in Seq(0 .. Credits - 1)
        /\ Len(Buffers(data[i], m)) = m
    BY <2>1, BuffersType
  <2>3. posted[i] = recvPosted[j][i] \o Buffers(data[i], m)
    OBVIOUS
  <2> DEFINE s == recvPosted[j][i]
             t == Buffers(data[i], m)
  <2>4. s \in Seq(0 .. Credits - 1) /\ t \in Seq(0 .. Credits - 1)
    BY <2>1, <2>2
  <2>5. s \o t \in Seq(0 .. Credits - 1) /\ Len(s \o t) = Len(s) + Len(t)
    <3> HIDE DEF s, t
    <3> QED BY <2>4, SeqConcat
  <2> QED BY <2>2, <2>3, <2>5
<1>8. rest \in [Nodes -> Seq(Fragment)] /\ posted \in [Nodes -> Seq(0 .. Credits - 1)]
  BY <1>6, <1>7
<1>9. /\ left \in [Nodes -> Seq(Fragment)]
      /\ \A i \in Nodes :
           /\ Len(left[i]) = Len(recvCQ[j][i]) - n[i]
           /\ \A p \in 1 .. Len(recvCQ[j][i]) - n[i] : left[i][p] = recvCQ[j][i][p + n[i]]
  <2>1. ASSUME NEW i \in Nodes
        PROVE  /\ left[i] \in Seq(Fragment)
               /\ Len(left[i]) = Len(recvCQ[j][i]) - n[i]
               /\ \A p \in 1 .. Len(recvCQ[j][i]) - n[i] : left[i][p] = recvCQ[j][i][p + n[i]]
    <3> DEFINE c == recvCQ[j][i]
    <3>1. c \in Seq(Fragment) /\ n[i] \in 0 .. Len(c) /\ left[i] = NotPolled(c, n[i])
      BY <1>1, <1>2, ConnTypes
    <3> HIDE DEF c, left
    <3>2. /\ left[i] \in Seq(Fragment) /\ Len(left[i]) = Len(c) - n[i]
          /\ \A p \in 1 .. Len(c) - n[i] : left[i][p] = c[p + n[i]]
      BY <3>1, PollParts
    <3> QED BY <3>2 DEF c
  <2> QED BY <2>1
<1> HIDE DEF rest, posted, left
<1>10. /\ recvPosted \in [Nodes -> [Nodes -> Seq(0 .. Credits - 1)]]
       /\ recvCQ \in [Nodes -> [Nodes -> Seq(Fragment)]]
       /\ dataVect \in [Nodes -> [Nodes -> Seq(Fragment)]]
       /\ built \in [Nodes -> Nat] /\ dead \in SUBSET Nodes
  BY <1>1 DEF TypeOK
<1>11. /\ recvPosted' \in [Nodes -> [Nodes -> Seq(0 .. Credits - 1)]]
       /\ recvCQ' \in [Nodes -> [Nodes -> Seq(Fragment)]]
       /\ dataVect' \in [Nodes -> [Nodes -> Seq(Fragment)]]
       /\ built' \in [Nodes -> Nat] /\ dead' \in SUBSET Nodes
  <2>1. recvPosted' \in [Nodes -> [Nodes -> Seq(0 .. Credits - 1)]]
    BY <1>5, <1>8, <1>10, UnitUpdate
  <2>2. recvCQ' \in [Nodes -> [Nodes -> Seq(Fragment)]]
    BY <1>4, <1>9, <1>10, UnitUpdate
  <2>3. dataVect' \in [Nodes -> [Nodes -> Seq(Fragment)]]
    BY <1>4, <1>8, <1>10, UnitUpdate
  <2>4. built[j] + m \in Nat
    BY <1>3, <1>10
  <2>5. built' \in [Nodes -> Nat] /\ dead' \in SUBSET Nodes
    BY <1>4, <1>10, <2>4
  <2> QED BY <2>1, <2>2, <2>3, <2>5
<1>12. \A y, x \in Nodes :
         /\ recvPosted'[y][x] = IF y = j THEN posted[x] ELSE recvPosted[y][x]
         /\ recvCQ'[y][x] = IF y = j THEN left[x] ELSE recvCQ[y][x]
         /\ dataVect'[y][x] = IF y = j THEN rest[x] ELSE dataVect[y][x]
         /\ built'[y] = IF y = j THEN built[j] + m ELSE built[y]
  BY <1>4, <1>5, <1>8, <1>9, <1>10
<1>13. TypeOK'
  BY <1>1, <1>11 DEF TypeOK, ruVars
<1>14. CreditsKept'
  <2> SUFFICES ASSUME NEW x \in Nodes, NEW y \in Nodes
               PROVE  Len(recvPosted'[y][x]) + Len(recvCQ'[y][x]) + Len(dataVect'[y][x]) = Credits
    BY <1>1 DEF CreditsKept
  <2>1. Len(recvPosted[y][x]) + Len(recvCQ[y][x]) + Len(dataVect[y][x]) = Credits
    BY <1>1 DEF CreditsKept
  <2>2. CASE y = j
    <3> DEFINE r == Len(recvPosted[j][x])
               c == Len(recvCQ[j][x])
               d == Len(dataVect[j][x])
               z == n[x]
    <3>1. /\ Len(recvPosted'[y][x]) = r + m /\ Len(recvCQ'[y][x]) = c - z
          /\ Len(dataVect'[y][x]) = (d + z) - m
      <4>1. recvPosted'[y][x] = posted[x] /\ recvCQ'[y][x] = left[x] /\ dataVect'[y][x] = rest[x]
        BY <1>12, <2>2
      <4>2. Len(posted[x]) = r + m /\ Len(rest[x]) = (d + z) - m /\ Len(left[x]) = c - z
        BY <1>2, <1>6, <1>7, <1>9
      <4> QED BY <4>1, <4>2
    <3>2. {r, c, d, m, z, Credits} \subseteq Nat /\ r + c + d = Credits
      <4>1. r \in Nat /\ c \in Nat /\ d \in Nat
        BY <1>1, ConnTypes
      <4>2. m \in Nat /\ Credits \in Nat /\ z \in Nat
        BY <1>2, <1>3, <4>1, NodesFacts
      <4> QED BY <2>1, <2>2, <4>1, <4>2
    <3> HIDE DEF r, c, d, z
    <3>3. (r + m) + (c - z) + ((d + z) - m) = Credits
      BY <3>2
    <3> QED BY <3>1, <3>3
  <2>3. CASE y # j
    BY <1>12, <2>1, <2>3
  <2> QED BY <2>2, <2>3
<1>15. IovNumbered'
  BY <1>1 DEF ruVars, IovNumbered
<1>16. StreamsNumbered'
  <2> SUFFICES ASSUME NEW x \in Nodes, NEW y \in Nodes PROVE Stream(x, y)'
    BY DEF StreamsNumbered
  <2>1. Stream(x, y) /\ Sent(x, y)' = Sent(x, y) /\ wire' = wire
    BY <1>1 DEF StreamsNumbered, ruVars, Sent
  <2>2. CASE y # j
    <3>1. dataVect'[y][x] = dataVect[y][x] /\ recvCQ'[y][x] = recvCQ[y][x] /\ built'[y] = built[y]
      BY <1>12, <2>2
    <3> QED BY <2>1, <3>1 DEF Stream
  <2>3. CASE y = j
    <3> DEFINE d == Len(dataVect[j][x])
               c == Len(recvCQ[j][x])
               w == Len(wire[x][j])
               B == built[j]
               z == n[x]
    <3>1. /\ d \in Nat /\ c \in Nat /\ w \in Nat /\ B \in Nat
          /\ z \in 0 .. c /\ m \in 0 .. d + z
      BY <1>1, <1>2, <1>3, ConnTypes
    <3>2. /\ B + d + c + w = Sent(x, j)
          /\ \A p \in 1 .. c : recvCQ[j][x][p].num = Num(B + d + p - 1, j)
          /\ \A p \in 1 .. w : wire[x][j][p] = Num(B + d + c + p - 1, j)
      BY <2>1, <2>3 DEF Stream
    <3>3. /\ dataVect'[j][x] = rest[x] /\ recvCQ'[j][x] = left[x] /\ built'[j] = B + m
          /\ Len(rest[x]) = (d + z) - m /\ Len(left[x]) = c - z
          /\ \A p \in 1 .. (d + z) - m : rest[x][p] = data[x][p + m]
          /\ \A p \in 1 .. c - z : left[x][p] = recvCQ[j][x][p + z]
      <4>1. dataVect'[j][x] = rest[x] /\ recvCQ'[j][x] = left[x] /\ built'[j] = B + m
        BY <1>12
      <4>2. Len(rest[x]) = (d + z) - m /\ \A p \in 1 .. (d + z) - m : rest[x][p] = data[x][p + m]
        BY <1>2, <1>6
      <4>3. Len(left[x]) = c - z /\ \A p \in 1 .. c - z : left[x][p] = recvCQ[j][x][p + z]
        BY <1>9
      <4> QED BY <4>1, <4>2, <4>3
    <3>4. \A p \in 1 .. d + z : data[x][p].num = Num(B + p - 1, j)
      BY <1>1, <1>2, DataReadNumbered DEF data
    <3>5. Stream(x, j)' <=>
            /\ built'[j] + Len(dataVect'[j][x]) + Len(recvCQ'[j][x]) + w = Sent(x, j)
            /\ \A p \in 1 .. Len(dataVect'[j][x]) : dataVect'[j][x][p].num = Num(built'[j] + p - 1, j)
            /\ \A p \in 1 .. Len(recvCQ'[j][x]) :
                 recvCQ'[j][x][p].num = Num(built'[j] + Len(dataVect'[j][x]) + p - 1, j)
            /\ \A p \in 1 .. w :
                 wire[x][j][p] = Num(built'[j] + Len(dataVect'[j][x]) + Len(recvCQ'[j][x]) + p - 1, j)
      BY <2>1, <2>3 DEF Stream
    <3> HIDE DEF d, c, w, B, z
    <3>6. (B + m) + ((d + z) - m) + (c - z) + w = Sent(x, j)
      BY <3>1, <3>2
    <3>7. ASSUME NEW p \in 1 .. (d + z) - m PROVE rest[x][p].num = Num((B + m) + p - 1, j)
      <4>1. p + m \in 1 .. d + z /\ B + (p + m) - 1 = (B + m) + p - 1
        BY <3>1
      <4> QED BY <3>3, <3>4, <4>1
    <3>8. ASSUME NEW p \in 1 .. c - z
          PROVE  left[x][p].num = Num((B + m) + ((d + z) - m) + p - 1, j)
      <4>1. p + z \in 1 .. c /\ B + d + (p + z) - 1 = (B + m) + ((d + z) - m) + p - 1
        BY <3>1
      <4> QED BY <3>2, <3>3, <4>1
    <3>9. ASSUME NEW p \in 1 .. w
          PROVE  wire[x][j][p] = Num((B + m) + ((d + z) - m) + (c - z) + p - 1, j)
      <4>1. B + d + c + p - 1 = (B + m) + ((d + z) - m) + (c - z) + p - 1
        BY <3>1
      <4> QED BY <3>2, <4>1
    <3> QED BY <2>3, <3>3, <3>5, <3>6, <3>7, <3>8, <3>9
  <2> QED BY <2>2, <2>3
<1> QED BY <1>13, <1>14, <1>15, <1>16 DEF StreamInv

\* The iovecs of a cycle after k more were acquired.
LEMMA IovsNumbered ==
  ASSUME TypeOK, IovNumbered, NEW i \in Nodes, NEW k \in Nat
  PROVE  /\ iovToSend[i] \o NextNums(i, k) \in Seq(Nat)
         /\ Len(iovToSend[i] \o NextNums(i, k)) = Len(iovToSend[i]) + k
         /\ \A p \in 1 .. Len(iovToSend[i]) + k :
              (iovToSend[i] \o NextNums(i, k))[p] = Num(cycles[i], p - 1)
<1> DEFINE s == iovToSend[i]
           t == NextNums(i, k)
           L == Len(s)
<1>1. s \in Seq(Nat) /\ L \in Nat /\ cycles[i] \in Nat
  <2>1. s \in Seq(Nat) /\ cycles[i] \in Nat
    BY DEF TypeOK
  <2> QED BY <2>1, SeqType
<1>2. \A p \in 1 .. L : s[p] = Num(cycles[i], p - 1)
  BY DEF IovNumbered
<1>3. t = [p \in 1 .. k |-> Num(cycles[i], L) + p - 1]
  BY DEF NextNums, Acquired
<1> HIDE DEF s, t, L
<1>4. ASSUME NEW p \in 1 .. k PROVE t[p] = Num(cycles[i], L + p - 1) /\ t[p] \in Nat
  <2>1. t[p] = Num(cycles[i], L) + p - 1
    BY <1>3
  <2>2. Num(cycles[i], L) \in Nat
    BY <1>1, NumType
  <2>3. Num(cycles[i], L) + (p - 1) = Num(cycles[i], L + (p - 1))
    <3>1. PICK q \in Int : q = p - 1
      OBVIOUS
    <3>2. Num(cycles[i], L) + q = Num(cycles[i], L + q)
      BY <1>1, NumShift
    <3> QED BY <3>1, <3>2
  <2>4. L + (p - 1) = L + p - 1 /\ Num(cycles[i], L) + p - 1 = Num(cycles[i], L) + (p - 1)
    BY <1>1, <2>2
  <2>5. t[p] \in Nat
    BY <2>1, <2>2
  <2> QED BY <2>1, <2>3, <2>4, <2>5
<1>5. t \in Seq(Nat) /\ Len(t) = k
  BY <1>3, <1>4
<1>6. /\ s \o t \in Seq(Nat) /\ Len(s \o t) = L + k
      /\ \A p \in 1 .. L + k : (s \o t)[p] = IF p <= L THEN s[p] ELSE t[p - L]
  BY <1>1, <1>5, SeqConcat DEF L
<1>7. ASSUME NEW p \in 1 .. L + k PROVE (s \o t)[p] = Num(cycles[i], p - 1)
  <2>1. CASE p <= L
    <3>1. p \in 1 .. L
      BY <1>1, <2>1
    <3> QED BY <1>2, <1>6, <2>1, <3>1 DEF s, L
  <2>2. CASE ~(p <= L)
    <3>1. p - L \in 1 .. k /\ L + (p - L) - 1 = p - 1
      BY <1>1, <2>2
    <3>2. t[p - L] = Num(cycles[i], L + (p - L) - 1)
      BY <1>4, <3>1
    <3> QED BY <1>6, <2>2, <3>1, <3>2
  <2> QED BY <2>1, <2>2
<1> QED BY <1>6, <1>7 DEF s, t, L

\* The deque of unit i after one iteration.
LEMMA HeldNext ==
  ASSUME TypeOK, NEW i \in Nodes, NEW k \in Nat, NEW bases,
         Len(held[i]) + k <= Capacity
  PROVE  LET lent == held[i] \o [p \in 1 .. k |-> Entry(Addr(NextNums(i, k)[p]))]
         IN  /\ lent \in Deque(0 .. Slots - 1)
             /\ Len(lent) = Len(held[i]) + k
             /\ DropReleased(Mark(lent, bases)) \in Deque(0 .. Slots - 1)
             /\ Len(DropReleased(Mark(lent, bases))) <= Capacity
<1> DEFINE h == held[i]
           t == [p \in 1 .. k |-> Entry(Addr(NextNums(i, k)[p]))]
           lent == h \o t
           marked == Mark(lent, bases)
<1>1. h \in Deque(0 .. Slots - 1) /\ Len(h) \in Nat
  <2>1. h \in Deque(0 .. Slots - 1)
    BY DEF TypeOK, Deque, EntryOf
  <2> QED BY <2>1, DequeElements
<1>2. ASSUME NEW p \in 1 .. k PROVE Entry(Addr(NextNums(i, k)[p])) \in EntryOf(0 .. Slots - 1)
  <2>1. iovToSend[i] \in Seq(Nat) /\ cycles[i] \in Nat
    BY DEF TypeOK
  <2>2. Acquired(i) \in Nat
    BY <2>1, SeqType, NumType DEF Acquired
  <2>3. NextNums(i, k)[p] = Acquired(i) + p - 1
    BY DEF NextNums
  <2>4. NextNums(i, k)[p] \in Nat
    BY <2>2, <2>3
  <2>5. Addr(NextNums(i, k)[p]) \in 0 .. Slots - 1
    BY <2>4, AddrType
  <2> QED BY <2>5 DEF Entry, EntryOf
<1>3. t \in Deque(0 .. Slots - 1) /\ Len(t) = k
  BY <1>2 DEF Deque
<1> HIDE DEF h, t
<1>4. lent \in Deque(0 .. Slots - 1) /\ Len(lent) = Len(h) + k
  BY <1>1, <1>3, SeqConcat DEF Deque
<1> HIDE DEF lent
<1>5. marked \in Deque(0 .. Slots - 1) /\ Len(marked) = Len(lent)
  BY <1>4, MarkKeeps
<1> HIDE DEF marked
<1>6. /\ DropReleased(marked) \in Deque(0 .. Slots - 1)
      /\ Len(DropReleased(marked)) = Len(marked) - ReleasableCount(marked)
      /\ ReleasableCount(marked) \in 0 .. Len(marked)
  BY <1>5, DropReleasedKeeps
<1>7. Len(h) + k <= Capacity
  BY DEF h
<1>8. Len(DropReleased(marked)) <= Capacity
  BY <1>1, <1>4, <1>5, <1>6, <1>7, NodesFacts
<1> QED BY <1>4, <1>6, <1>8 DEF h, t, lent, marked

LEMMA RunRUStreamInv ==
  ASSUME StreamInv, NEW i \in Nodes, NEW k \in 0 .. NumNodes,
         NEW n \in Polls(sendCQ[i]), RunRU(i, k, n)
  PROVE  StreamInv'
<1> DEFINE iovs == iovToSend[i] \o NextNums(i, k)
           lent == held[i] \o [p \in 1 .. k |-> Entry(Addr(NextNums(i, k)[p]))]
           heldNext == DropReleased(Mark(lent, Completed(i, n)))
           j == SeqId(i)
           sends == AvailableSend(PendingSend(i, j, n[j])) /\ Len(iovs) > j
           last == seqPos[i] = NumNodes - 1
           left == [x \in Nodes |-> NotPolled(sendCQ[i][x], n[x])]
<1>1. /\ TypeOK /\ CreditsKept /\ IovNumbered /\ StreamsNumbered
      /\ UNCHANGED <<unacked, recvPosted, recvCQ, buVars>>
  BY DEF StreamInv, RunRU
<1>2. /\ j \in Nodes /\ PosOf(i, j) = seqPos[i] /\ seqPos[i] \in 0 .. NumNodes - 1
      /\ \A y \in Nodes : PosOf(i, y) \in 0 .. NumNodes - 1
      /\ \A y \in Nodes : PosOf(i, y) = seqPos[i] => y = j
  <2>1. seqPos[i] \in 0 .. NumNodes - 1
    BY <1>1 DEF TypeOK
  <2> QED BY <2>1, IdSequencePermutes DEF SeqId
<1>3. k \in Nat /\ Len(held[i]) + k <= Capacity
  BY NodesFacts DEF RunRU, CanAcquire
<1>4. /\ iovs \in Seq(Nat)
      /\ Len(iovs) = Len(iovToSend[i]) + k
      /\ \A p \in 1 .. Len(iovToSend[i]) + k : iovs[p] = Num(cycles[i], p - 1)
  BY <1>1, <1>3, IovsNumbered
<1>5. heldNext \in Deque(0 .. Slots - 1) /\ Len(heldNext) <= Capacity
  BY <1>1, <1>3, HeldNext
<1>6. /\ held' = [held EXCEPT ![i] = heldNext]
      /\ sendCQ' = [sendCQ EXCEPT ![i] = left]
      /\ dead' \in {dead, dead \cup {i}}
  BY DEF RunRU
<1>7. \/ /\ sends
         /\ wire' = [wire EXCEPT ![i][j] = Append(wire[i][j], iovs[j + 1])]
         /\ seqPos' = [seqPos EXCEPT ![i] = IF last THEN 0 ELSE seqPos[i] + 1]
         /\ iovToSend' = [iovToSend EXCEPT ![i] = IF last THEN <<>> ELSE iovs]
         /\ cycles' = [cycles EXCEPT ![i] = IF last THEN cycles[i] + 1 ELSE cycles[i]]
      \/ /\ ~sends
         /\ iovToSend' = [iovToSend EXCEPT ![i] = iovs]
         /\ UNCHANGED <<wire, seqPos, cycles>>
  BY DEF RunRU, ToSend
<1>8. ASSUME NEW y \in Nodes
      PROVE  /\ n[y] \in 0 .. Len(sendCQ[i][y])
             /\ left[y] \in Seq(Nat)
             /\ left[y] = NotPolled(sendCQ[i][y], n[y])
             /\ Len(left[y]) = Len(sendCQ[i][y]) - n[y]
  <2> DEFINE c == sendCQ[i][y]
  <2>1. c \in Seq(Nat) /\ left[y] = NotPolled(c, n[y])
    BY <1>1, ConnTypes
  <2>2. n[y] \in 0 .. Credits /\ n[y] <= Len(c)
    BY DEF Polls
  <2> HIDE DEF c, left
  <2>3. n[y] \in 0 .. Len(c)
    BY <2>1, <2>2, SeqType, NodesFacts
  <2>4. left[y] \in Seq(Nat) /\ Len(left[y]) = Len(c) - n[y]
    BY <2>1, <2>3, PollParts
  <2> QED BY <2>1, <2>3, <2>4 DEF c
<1>9. /\ sends => (Len(left[j]) + Len(unacked[i][j])) + Len(wire[i][j]) < Credits
      /\ sends => Len(iovs) > j
  <2> DEFINE s == left[j]
             u == unacked[i][j]
             w == wire[i][j]
  <2>1. s \in Seq(Nat) /\ u \in Seq(Nat) /\ w \in Seq(Nat)
    BY <1>1, <1>2, <1>8, ConnTypes
  <2>2. PendingSend(i, j, n[j]) = (s \o u) \o w
    BY <1>2, <2>1 DEF PendingSend
  <2>3. Len((s \o u) \o w) = (Len(s) + Len(u)) + Len(w)
    <3> HIDE DEF s, u, w
    <3>1. s \o u \in Seq(Nat) /\ Len(s \o u) = Len(s) + Len(u)
      BY <2>1, SeqConcat
    <3> QED BY <2>1, <3>1, SeqConcat
  <2> QED BY <2>2, <2>3 DEF AvailableSend
<1> HIDE DEF iovs, lent, heldNext, j, sends, last, left
<1>9a. left \in [Nodes -> Seq(Nat)]
  BY <1>8 DEF left
<1>10. /\ seqPos \in [Nodes -> 0 .. NumNodes - 1]
       /\ iovToSend \in [Nodes -> Seq(Nat)]
       /\ held \in [Nodes -> Deque(0 .. Slots - 1)]
       /\ \A x \in Nodes : Len(held[x]) <= Capacity
       /\ cycles \in [Nodes -> Nat]
       /\ wire \in [Nodes -> [Nodes -> Seq(Nat)]]
       /\ sendCQ \in [Nodes -> [Nodes -> Seq(Nat)]]
       /\ dead \in SUBSET Nodes
  BY <1>1 DEF TypeOK, Deque, EntryOf
<1>11. sends => /\ iovs[j + 1] = Num(cycles[i], j)
                /\ iovs[j + 1] \in Nat
  <2> SUFFICES ASSUME sends PROVE iovs[j + 1] = Num(cycles[i], j) /\ iovs[j + 1] \in Nat
    OBVIOUS
  <2>1. j \in Nat /\ Len(iovs) \in Nat /\ cycles[i] \in Nat
    BY <1>2, <1>4, <1>10, SeqType, NodesFacts
  <2>2. j + 1 \in 1 .. Len(iovs) /\ (j + 1) - 1 = j
    BY <1>9, <2>1
  <2>3. iovs[j + 1] = Num(cycles[i], (j + 1) - 1)
    BY <1>4, <2>2
  <2> QED BY <2>1, <2>2, <2>3, NumType
<1>12. sends => /\ Append(wire[i][j], iovs[j + 1]) \in Seq(Nat)
                /\ Len(Append(wire[i][j], iovs[j + 1])) = Len(wire[i][j]) + 1
                /\ \A p \in 1 .. Len(wire[i][j]) + 1 :
                     Append(wire[i][j], iovs[j + 1])[p] =
                       IF p <= Len(wire[i][j]) THEN wire[i][j][p] ELSE iovs[j + 1]
  <2>1. wire[i][j] \in Seq(Nat)
    BY <1>2, <1>10
  <2> QED BY <1>11, <2>1, SeqAppend
<1>13. wire' \in [Nodes -> [Nodes -> Seq(Nat)]]
  <2>1. CASE sends
    <3>1. wire' = [wire EXCEPT ![i][j] = Append(wire[i][j], iovs[j + 1])]
      BY <1>7, <2>1
    <3> QED BY <1>2, <1>10, <1>12, <2>1, <3>1, ConnUpdate
  <2>2. CASE ~sends
    BY <1>7, <1>10, <2>2
  <2> QED BY <2>1, <2>2
<1>14. /\ seqPos' \in [Nodes -> 0 .. NumNodes - 1]
       /\ iovToSend' \in [Nodes -> Seq(Nat)]
       /\ cycles' \in [Nodes -> Nat]
  <2>1. (IF last THEN 0 ELSE seqPos[i] + 1) \in 0 .. NumNodes - 1
    BY <1>2, NodesFacts DEF last
  <2>2. (IF last THEN cycles[i] + 1 ELSE cycles[i]) \in Nat
    BY <1>10
  <2>3. (IF last THEN <<>> ELSE iovs) \in Seq(Nat)
    BY <1>4
  <2>4. CASE sends
    <3>1. /\ seqPos' = [seqPos EXCEPT ![i] = IF last THEN 0 ELSE seqPos[i] + 1]
          /\ iovToSend' = [iovToSend EXCEPT ![i] = IF last THEN <<>> ELSE iovs]
          /\ cycles' = [cycles EXCEPT ![i] = IF last THEN cycles[i] + 1 ELSE cycles[i]]
      BY <1>7, <2>4
    <3>2. seqPos' \in [Nodes -> 0 .. NumNodes - 1]
      BY <1>10, <2>1, <3>1
    <3>3. iovToSend' \in [Nodes -> Seq(Nat)]
      BY <1>10, <2>3, <3>1
    <3>4. cycles' \in [Nodes -> Nat]
      BY <1>10, <2>2, <3>1
    <3> QED BY <3>2, <3>3, <3>4
  <2>5. CASE ~sends
    <3>1. iovToSend' = [iovToSend EXCEPT ![i] = iovs] /\ seqPos' = seqPos /\ cycles' = cycles
      BY <1>7, <2>5
    <3> QED BY <1>4, <1>10, <3>1
  <2> QED BY <2>4, <2>5
<1>15. /\ held' \in [Nodes -> Deque(0 .. Slots - 1)]
       /\ \A x \in Nodes : Len(held'[x]) <= Capacity
       /\ sendCQ' \in [Nodes -> [Nodes -> Seq(Nat)]]
       /\ dead' \in SUBSET Nodes
  <2>1. held' \in [Nodes -> Deque(0 .. Slots - 1)] /\ \A x \in Nodes : Len(held'[x]) <= Capacity
    BY <1>5, <1>6, <1>10
  <2>2. sendCQ' \in [Nodes -> [Nodes -> Seq(Nat)]]
    BY <1>6, <1>9a, <1>10, UnitUpdate
  <2> QED BY <1>6, <1>10, <2>1, <2>2
<1>16. TypeOK'
  BY <1>1, <1>13, <1>14, <1>15 DEF TypeOK, buVars, Deque, EntryOf
<1>17. \A x, y \in Nodes :
         wire'[x][y] = IF sends /\ x = i /\ y = j
                         THEN Append(wire[i][j], iovs[j + 1]) ELSE wire[x][y]
  <2>1. CASE sends
    <3>1. wire' = [wire EXCEPT ![i][j] = Append(wire[i][j], iovs[j + 1])]
      BY <1>7, <2>1
    <3> QED BY <1>2, <1>10, <2>1, <3>1
  <2>2. CASE ~sends
    BY <1>7, <2>2
  <2> QED BY <2>1, <2>2
<1>18. \A x, y \in Nodes : sendCQ'[x][y] = IF x = i THEN left[y] ELSE sendCQ[x][y]
  BY <1>6, <1>9a, <1>10
<1>19. CreditsKept'
  <2> SUFFICES ASSUME NEW x \in Nodes, NEW y \in Nodes
               PROVE  Len(wire'[x][y]) + Len(unacked[x][y]) + Len(sendCQ'[x][y]) <= Credits
    BY <1>1 DEF CreditsKept, buVars
  <2> DEFINE w == Len(wire[x][y])
             u == Len(unacked[x][y])
             s == Len(sendCQ[x][y])
  <2>1. {w, u, s, Credits} \subseteq Nat /\ w + u + s <= Credits
    <3>1. w \in Nat /\ u \in Nat /\ s \in Nat /\ Credits \in Nat
      BY <1>1, ConnTypes, NodesFacts
    <3> QED BY <1>1, <3>1 DEF CreditsKept
  <2> DEFINE l == IF x = i THEN Len(left[y]) ELSE s
  <2>2. Len(sendCQ'[x][y]) = l /\ l \in Nat /\ l <= s
    <3>1. CASE x = i
      <4>1. n[y] \in 0 .. s /\ Len(left[y]) = s - n[y] /\ sendCQ'[x][y] = left[y]
        BY <1>8, <1>18, <3>1
      <4>2. s - n[y] \in Nat /\ s - n[y] <= s
        <5> HIDE DEF s
        <5> QED BY <2>1, <4>1
      <4> QED BY <3>1, <4>1, <4>2
    <3>2. CASE x # i
      BY <1>18, <2>1, <3>2
    <3> QED BY <3>1, <3>2
  <2>3. Len(wire'[x][y]) = IF sends /\ x = i /\ y = j THEN w + 1 ELSE w
    BY <1>12, <1>17
  <2>4. sends /\ x = i /\ y = j => (l + u) + w < Credits
    BY <1>9
  <2> HIDE DEF l
  <2> HIDE DEF w, u, s
  <2>5. CASE sends /\ x = i /\ y = j
    <3>1. (w + 1) + u + l <= Credits
      <4>1. {w, u, l, Credits} \subseteq Nat /\ (l + u) + w < Credits
        BY <2>1, <2>2, <2>4, <2>5
      <4> QED BY <4>1
    <3>2. Len(wire'[x][y]) = w + 1 /\ Len(sendCQ'[x][y]) = l
      BY <2>2, <2>3, <2>5
    <3> QED BY <3>1, <3>2 DEF u
  <2>6. CASE ~(sends /\ x = i /\ y = j)
    <3>1. w + u + l <= Credits
      <4>1. {w, u, s, l, Credits} \subseteq Nat /\ l <= s /\ w + u + s <= Credits
        BY <2>1, <2>2
      <4> QED BY <4>1
    <3>2. Len(wire'[x][y]) = w /\ Len(sendCQ'[x][y]) = l
      BY <2>2, <2>3, <2>6
    <3> QED BY <3>1, <3>2 DEF u
  <2> QED BY <2>5, <2>6
<1>20. IovNumbered'
  <2> SUFFICES ASSUME NEW x \in Nodes, NEW p \in 1 .. Len(iovToSend'[x])
               PROVE  iovToSend'[x][p] = Num(cycles'[x], p - 1)
    BY DEF IovNumbered, Num
  <2>1. CASE x # i
    <3>1. iovToSend'[x] = iovToSend[x] /\ cycles'[x] = cycles[x]
      BY <1>7, <1>10, <2>1
    <3> QED BY <1>1, <3>1 DEF IovNumbered
  <2>2. CASE x = i /\ sends /\ last
    <3>1. iovToSend'[x] = <<>>
      BY <1>7, <1>10, <2>2
    <3> QED BY <3>1
  <2>3. CASE x = i /\ ~(sends /\ last)
    <3>1. iovToSend'[x] = iovs /\ cycles'[x] = cycles[i]
      BY <1>7, <1>10, <2>3
    <3> QED BY <1>4, <3>1
  <2> QED BY <2>1, <2>2, <2>3
<1>21. ASSUME NEW x \in Nodes, NEW y \in Nodes
       PROVE  Sent(x, y)' = IF sends /\ x = i /\ y = j THEN Sent(x, y) + 1 ELSE Sent(x, y)
  <2>1. Sent(x, y)' = IF PosOf(x, y) < seqPos'[x] THEN cycles'[x] + 1 ELSE cycles'[x]
    BY DEF Sent, PosOf, FirstId
  <2>2. CASE x # i \/ ~sends
    <3>1. seqPos'[x] = seqPos[x] /\ cycles'[x] = cycles[x]
      BY <1>7, <1>10, <2>2
    <3> QED BY <2>1, <2>2, <3>1 DEF Sent
  <2>3. CASE x = i /\ sends
    <3>1. /\ seqPos'[i] = IF last THEN 0 ELSE seqPos[i] + 1
          /\ cycles'[i] = IF last THEN cycles[i] + 1 ELSE cycles[i]
      BY <1>7, <1>10, <2>3
    <3>2. /\ PosOf(i, y) \in 0 .. NumNodes - 1
          /\ PosOf(i, y) = seqPos[i] <=> y = j
          /\ NumNodes \in Nat /\ cycles[i] \in Nat
      BY <1>2, <1>10, NodesFacts
    <3>3. CASE last
      BY <1>2, <2>1, <2>3, <3>1, <3>2, <3>3 DEF Sent, last
    <3>4. CASE ~last
      BY <1>2, <2>1, <2>3, <3>1, <3>2, <3>4 DEF Sent, last
    <3> QED BY <3>3, <3>4
  <2> QED BY <2>2, <2>3
<1>22. StreamsNumbered'
  <2> SUFFICES ASSUME NEW x \in Nodes, NEW y \in Nodes PROVE Stream(x, y)'
    BY DEF StreamsNumbered
  <2>1. Stream(x, y) /\ dataVect' = dataVect /\ recvCQ' = recvCQ /\ built' = built
    BY <1>1 DEF StreamsNumbered, buVars
  <2>2. CASE ~(sends /\ x = i /\ y = j)
    <3>1. wire'[x][y] = wire[x][y] /\ Sent(x, y)' = Sent(x, y)
      BY <1>17, <1>21, <2>2
    <3> QED BY <2>1, <3>1 DEF Stream
  <2>3. CASE sends /\ x = i /\ y = j
    <3> DEFINE d == Len(dataVect[y][x])
               c == Len(recvCQ[y][x])
               w == Len(wire[x][y])
               B == built[y]
    <3>1. d \in Nat /\ c \in Nat /\ w \in Nat /\ B \in Nat
      BY <1>1, ConnTypes
    <3>2. /\ B + d + c + w = Sent(x, y)
          /\ \A p \in 1 .. d : dataVect[y][x][p].num = Num(B + p - 1, y)
          /\ \A p \in 1 .. c : recvCQ[y][x][p].num = Num(B + d + p - 1, y)
          /\ \A p \in 1 .. w : wire[x][y][p] = Num(B + d + c + p - 1, y)
      BY <2>1 DEF Stream
    <3>3. /\ Len(wire'[x][y]) = w + 1
          /\ \A p \in 1 .. w + 1 :
               wire'[x][y][p] = IF p <= w THEN wire[x][y][p] ELSE iovs[j + 1]
      BY <1>12, <1>17, <2>3
    <3>4. Sent(x, y) = cycles[x] /\ Sent(x, y)' = Sent(x, y) + 1
      <4>1. PosOf(x, y) = seqPos[x] /\ seqPos[x] \in Int
        BY <1>2, <1>10, <2>3
      <4>2. Sent(x, y) = cycles[x]
        BY <4>1 DEF Sent
      <4> QED BY <1>21, <2>3, <4>2
    <3>5. iovs[j + 1] = Num(cycles[x], y)
      BY <1>11, <2>3
    <3>6. (/\ B + d + c + Len(wire'[x][y]) = Sent(x, y)'
           /\ \A p \in 1 .. d : dataVect[y][x][p].num = Num(B + p - 1, y)
           /\ \A p \in 1 .. c : recvCQ[y][x][p].num = Num(B + d + p - 1, y)
           /\ \A p \in 1 .. Len(wire'[x][y]) : wire'[x][y][p] = Num(B + d + c + p - 1, y))
          => Stream(x, y)'
      BY <2>1 DEF Stream, Num
    <3> HIDE DEF d, c, w, B
    <3>7. B + d + c + (w + 1) = Sent(x, y)'
      BY <3>1, <3>2, <3>4
    <3>8. ASSUME NEW p \in 1 .. w + 1 PROVE wire'[x][y][p] = Num(B + d + c + p - 1, y)
      <4>1. CASE p <= w
        <5>1. p \in 1 .. w
          BY <3>1, <4>1
        <5> QED BY <3>2, <3>3, <4>1, <5>1
      <4>2. CASE p = w + 1
        <5>1. ~(p <= w) /\ B + d + c + p - 1 = cycles[x]
          BY <3>1, <3>2, <3>4, <4>2
        <5> QED BY <3>3, <3>5, <5>1
      <4> QED BY <3>1, <4>1, <4>2
    <3> QED BY <3>2, <3>3, <3>6, <3>7, <3>8
  <2> QED BY <2>2, <2>3
<1> QED BY <1>16, <1>19, <1>20, <1>22 DEF StreamInv
-----------------------------------------------------------------------------
\* Steps that change nothing but which processes ended.
LEMMA EndStreamInv ==
  ASSUME StreamInv, UNCHANGED <<ruVars, connVars, buVars>>, dead' \in SUBSET Nodes
  PROVE  StreamInv'
<1>1. UNCHANGED <<seqPos, iovToSend, held, cycles>>
  BY DEF ruVars
<1>2. UNCHANGED <<wire, unacked, sendCQ, recvPosted, recvCQ, dataVect, built>>
  BY DEF connVars, buVars
<1>3. TypeOK /\ CreditsKept /\ IovNumbered /\ StreamsNumbered
  BY DEF StreamInv
<1>4. TypeOK'
  BY <1>1, <1>2, <1>3 DEF TypeOK
<1>5. CreditsKept'
  BY <1>2, <1>3 DEF CreditsKept
<1>6. IovNumbered'
  BY <1>1, <1>3 DEF IovNumbered, Num
<1>7. StreamsNumbered'
  <2> SUFFICES ASSUME NEW x \in Nodes, NEW y \in Nodes PROVE Stream(x, y)'
    BY DEF StreamsNumbered
  <2>1. Stream(x, y)
    BY <1>3 DEF StreamsNumbered
  <2>2. Sent(x, y)' = Sent(x, y)
    BY <1>1 DEF Sent, PosOf, FirstId
  <2> QED BY <1>2, <2>1, <2>2 DEF Stream, Num
<1> QED BY <1>4, <1>5, <1>6, <1>7 DEF StreamInv

LEMMA ErrorStreamInv ==
  ASSUME StreamInv, NEW i \in Nodes, NEW j \in Nodes, CompletesWithError(i, j)
  PROVE  StreamInv'
<1>1. dead' \in SUBSET Nodes
  BY DEF StreamInv, TypeOK, CompletesWithError
<1>2. UNCHANGED <<ruVars, connVars, buVars>>
  BY DEF CompletesWithError
<1> QED BY <1>1, <1>2, EndStreamInv

LEMMA StutterStreamInv == StreamInv /\ UNCHANGED vars => StreamInv'
<1> SUFFICES ASSUME StreamInv, UNCHANGED vars PROVE StreamInv'
  OBVIOUS
<1>1. dead' \in SUBSET Nodes
  BY DEF StreamInv, TypeOK, vars
<1>2. UNCHANGED <<ruVars, connVars, buVars>>
  BY DEF vars
<1> QED BY <1>1, <1>2, EndStreamInv

\* All that has arrived may be polled at once.
LEMMA AllPolled ==
  ASSUME StreamInv, NEW j \in Nodes, NEW i \in Nodes
  PROVE  /\ All(recvCQ[j]) \in Polls(recvCQ[j])
         /\ DataRead(j, All(recvCQ[j]))[i] = Waiting(j, i)
<1>1. ASSUME NEW x \in Nodes
      PROVE  /\ Len(recvCQ[j][x]) \in 0 .. Credits
             /\ recvCQ[j][x] \in Seq(Fragment)
             /\ Polled(recvCQ[j][x], Len(recvCQ[j][x])) = recvCQ[j][x]
  <2>1. TypeOK /\ CreditsKept
    BY DEF StreamInv
  <2> DEFINE r == Len(recvPosted[j][x])
             c == Len(recvCQ[j][x])
             d == Len(dataVect[j][x])
  <2>2. r \in Nat /\ c \in Nat /\ d \in Nat /\ recvCQ[j][x] \in Seq(Fragment)
    BY <2>1, ConnTypes
  <2>3. r + c + d = Credits
    BY <2>1 DEF CreditsKept
  <2>4. c \in 0 .. Credits
    <3> HIDE DEF r, c, d
    <3> QED BY <2>2, <2>3, NodesFacts
  <2>5. ASSUME NEW s \in Seq(Fragment) PROVE SubSeq(s, 1, Len(s)) = s
    OBVIOUS
  <2> QED BY <2>2, <2>4, <2>5 DEF Polled
<1>2. All(recvCQ[j]) \in [Nodes -> 0 .. Credits] /\ \A x \in Nodes : All(recvCQ[j])[x] = Len(recvCQ[j][x])
  BY <1>1 DEF All
<1>3. \A x \in Nodes : All(recvCQ[j])[x] <= Len(recvCQ[j][x])
  BY <1>1, <1>2, NodesFacts
<1>4. All(recvCQ[j]) \in Polls(recvCQ[j])
  BY <1>2, <1>3 DEF Polls
<1>5. DataRead(j, All(recvCQ[j]))[i] = Waiting(j, i)
  BY <1>1, <1>2 DEF DataRead, Waiting
<1> QED BY <1>4, <1>5

\* The invariant holds in every state, for every number of nodes and credits.
THEOREM StreamInvariant == Spec => []StreamInv
<1>1. Init => StreamInv
  BY InitStreamInv
<1>2. StreamInv /\ [Next]_vars => StreamInv'
  <2> SUFFICES ASSUME StreamInv, [Next]_vars PROVE StreamInv'
    OBVIOUS
  <2>1. ASSUME NEW i \in Nodes, NEW k \in 0 .. NumNodes, NEW n \in Polls(sendCQ[i]), RunRU(i, k, n)
        PROVE  StreamInv'
    BY <2>1, RunRUStreamInv
  <2>2. ASSUME NEW i \in Nodes, NEW j \in Nodes, Deliver(i, j) PROVE StreamInv'
    BY <2>2, DeliverStreamInv
  <2>3. ASSUME NEW i \in Nodes, NEW j \in Nodes, Ack(i, j) PROVE StreamInv'
    BY <2>3, AckStreamInv
  <2>4. ASSUME NEW j \in Nodes, NEW n \in Polls(recvCQ[j]), RunBU(j, n) PROVE StreamInv'
    BY <2>4, RunBUStreamInv
  <2>5. ASSUME NEW i \in Nodes, NEW j \in Nodes, CompletesWithError(i, j) PROVE StreamInv'
    BY <2>5, ErrorStreamInv
  <2>6. CASE UNCHANGED vars
    BY <2>6, StutterStreamInv
  <2> QED BY <2>1, <2>2, <2>3, <2>4, <2>5, <2>6 DEF Next
<1> QED BY <1>1, <1>2, PTL DEF Spec

\* The variables keep their types, and the deque of the Accumulator never has
\* more than 2 * Credits multievents.
THEOREM TypeCorrect == Spec => []TypeOK
BY StreamInvariant, PTL DEF StreamInv

\* No connection ever has more messages than credits, and no receive buffer
\* is lost, for every number of nodes and credits.
THEOREM CreditsAreKept == Spec => []CreditsKept
BY StreamInvariant, PTL DEF StreamInv

\* A builder unit never has fragments of different events at the same place
\* of two connections, for every number of nodes and credits: what check_data
\* can not see (a shift by a whole ring) does not happen either.
THEOREM FragmentsAreAligned == Spec => []FragmentsAligned
<1>1. StreamInv => FragmentsAligned
  <2> SUFFICES ASSUME StreamInv, NEW j \in Nodes, NEW i \in Nodes,
                      NEW p \in DOMAIN Waiting(j, i)
               PROVE  Waiting(j, i)[p].num = Num(built[j] + p - 1, j)
    BY DEF FragmentsAligned
  <2> DEFINE n == All(recvCQ[j])
  <2>1. TypeOK /\ StreamsNumbered
    BY DEF StreamInv
  <2>2. n \in Polls(recvCQ[j]) /\ DataRead(j, n)[i] = Waiting(j, i)
    BY AllPolled
  <2> HIDE DEF n
  <2>3. p \in 1 .. Len(DataRead(j, n)[i])
    BY <2>1, <2>2, DataReadType, SeqType
  <2> QED BY <2>1, <2>2, <2>3, DataReadNumbered
<1> QED BY <1>1, StreamInvariant, PTL

-----------------------------------------------------------------------------
(* Safety: the inductive invariant.  What readout unit i has to get back from *)
(* builder unit j are its multievents from FirstOut(i, j) on: those posted  *)
(* and not polled, and those still to be sent.                              *)

FirstOut(i, j) ==
    Sent(i, j) - Len(wire[i][j]) - Len(unacked[i][j]) - Len(sendCQ[i][j])

\* A cycle has all the multievents that were sent, and no more than nodes.
CycleBounded ==
    \A i \in Nodes :
      /\ Len(iovToSend[i]) <= NumNodes
      /\ \A j \in Nodes : PosOf(i, j) < seqPos[i] => j < Len(iovToSend[i])

Acked(i, j) ==
    LET w == Len(wire[i][j])
        u == Len(unacked[i][j])
        s == Len(sendCQ[i][j])
    IN  /\ w + u + s <= Sent(i, j)
        /\ \A p \in 1 .. u : unacked[i][j][p] = Num(Sent(i, j) - w - u + p - 1, j)
        /\ \A p \in 1 .. s : sendCQ[i][j][p] = Num(Sent(i, j) - w - u - s + p - 1, j)

AckedNumbered == \A i, j \in Nodes : Acked(i, j)

\* The number of the oldest multievent in the deque.
Oldest(i) == Acquired(i) - Len(held[i])

HeldNumbered ==
    \A i \in Nodes :
      /\ Len(held[i]) <= Acquired(i)
      /\ \A p \in 1 .. Len(held[i]) : held[i][p].base = Addr(Oldest(i) + p - 1)

\* What a unit has to get back is in its deque, and not marked.
OutstandingHeld ==
    \A i, j \in Nodes : \A r \in Nat :
      r >= FirstOut(i, j) /\ Num(r, j) < Acquired(i) =>
        /\ Num(r, j) >= Oldest(i)
        /\ ~held[i][Num(r, j) - Oldest(i) + 1].done

\* The receive buffers of a connection: posted, waiting to be built, received.
Bufs(j, i) ==
    LET r == Len(recvPosted[j][i])
        d == Len(dataVect[j][i])
    IN  [p \in 1 .. Credits |->
           IF p <= r THEN recvPosted[j][i][p]
           ELSE IF p <= r + d THEN dataVect[j][i][p - r].buf
           ELSE recvCQ[j][i][p - r - d].buf]

EachBufferOnce(F) ==
    /\ \A p, q \in 1 .. Credits : F[p] = F[q] => p = q
    /\ \A b \in 0 .. Credits - 1 : \E p \in 1 .. Credits : F[p] = b

BuffersOnce == \A j, i \in Nodes : EachBufferOnce(Bufs(j, i))

SendInv == CycleBounded /\ AckedNumbered /\ HeldNumbered /\ OutstandingHeld

SafeInv == StreamInv /\ SendInv /\ BuffersOnce /\ EndsOnlyByHeader
-----------------------------------------------------------------------------
\* Multievents of later cycles have greater numbers.
LEMMA NumLess ==
  ASSUME NEW r \in Nat, NEW s \in Nat, NEW a \in Nodes, NEW b \in Nat, r < s
  PROVE  Num(r, a) < Num(s, b)
<1>1. PICK d \in Nat : s = r + 1 + d
  <2>1. s - r - 1 \in Nat /\ s = r + 1 + (s - r - 1)
    OBVIOUS
  <2> QED BY <2>1
<1>2. s * NumNodes = r * NumNodes + NumNodes + d * NumNodes
  BY <1>1, NodesFacts
<1>3. a < NumNodes /\ a \in Nat /\ d * NumNodes >= 0
  BY NodesFacts DEF Nodes
<1> QED BY <1>2, <1>3, NodesFacts DEF Num

\* A number says which multievent of which cycle it is.
LEMMA NumInjective ==
  ASSUME NEW r \in Nat, NEW s \in Nat, NEW a \in Nodes, NEW b \in Nodes, Num(r, a) = Num(s, b)
  PROVE  r = s /\ a = b
<1>1. a \in Nat /\ b \in Nat /\ Num(r, a) \in Nat /\ Num(s, b) \in Nat
  BY NodesFacts, NumType
<1>2. ~ (r < s) /\ ~ (s < r)
  BY <1>1, NumLess
<1>3. r = s
  BY <1>2
<1> QED BY <1>1, <1>3, NodesFacts DEF Num

\* Numbers less than a turn of the ring apart have different slots.
LEMMA AddrInjective ==
  ASSUME NEW a \in Nat, NEW b \in Nat, Addr(a) = Addr(b), a < b + Slots, b < a + Slots
  PROVE  a = b
<1>1. PICK S \in Nat \ {0} : S = Slots
  BY NodesFacts
<1>2. ASSUME NEW x \in Nat PROVE \E q \in Int : x = (S * q) + (x % S)
  <2>1. (x \div S) \in Int /\ x = (S * (x \div S)) + (x % S)
    BY <1>1
  <2> QED BY <2>1
<1>3. PICK c \in Int : c = a % S /\ c = b % S
  BY <1>1 DEF Addr
<1>4. PICK q \in Int : a = (S * q) + c
  BY <1>2, <1>3
<1>5. PICK t \in Int : b = (S * t) + c
  BY <1>2, <1>3
<1>6. ASSUME NEW x \in Int, NEW y \in Int, x > y PROVE (S * x) >= (S * y) + S
  BY <1>6, MultiplesApart
<1>7. (S * q) \in Int /\ (S * t) \in Int
  BY <1>1
<1>8. ~ (q > t)
  BY <1>1, <1>4, <1>5, <1>6, <1>7
<1>9. ~ (t > q)
  BY <1>1, <1>4, <1>5, <1>6, <1>7
<1>10. q = t
  BY <1>8, <1>9
<1> QED BY <1>4, <1>5, <1>10

LEMMA UnitTypes ==
  ASSUME TypeOK, NEW i \in Nodes
  PROVE  /\ seqPos[i] \in 0 .. NumNodes - 1 /\ cycles[i] \in Nat
         /\ iovToSend[i] \in Seq(Nat) /\ Len(iovToSend[i]) \in Nat
         /\ held[i] \in Deque(0 .. Slots - 1) /\ Len(held[i]) \in Nat
         /\ Len(held[i]) <= Capacity
         /\ Acquired(i) \in Nat
         /\ \A j \in Nodes : Sent(i, j) \in Nat /\ Sent(i, j) \in {cycles[i], cycles[i] + 1}
<1>1. /\ seqPos[i] \in 0 .. NumNodes - 1 /\ cycles[i] \in Nat /\ iovToSend[i] \in Seq(Nat)
      /\ held[i] \in Deque(0 .. Slots - 1) /\ Len(held[i]) <= Capacity
  BY DEF TypeOK, Deque, EntryOf
<1>2. Len(iovToSend[i]) \in Nat /\ Len(held[i]) \in Nat
  BY <1>1, SeqType DEF Deque
<1>3. Acquired(i) \in Nat
  BY <1>1, <1>2, NumType DEF Acquired
<1> QED BY <1>1, <1>2, <1>3 DEF Sent

\* What was sent was acquired.
LEMMA SentAcquired ==
  ASSUME TypeOK, CycleBounded, NEW i \in Nodes, NEW j \in Nodes, NEW r \in Nat, r < Sent(i, j)
  PROVE  Num(r, j) < Acquired(i)
<1>1. /\ cycles[i] \in Nat /\ Len(iovToSend[i]) \in Nat /\ j \in Nat
  BY UnitTypes, NodesFacts
<1>2. CASE r < cycles[i]
  BY <1>1, <1>2, NumLess DEF Acquired
<1>3. CASE ~ (r < cycles[i])
  <2>1. r = cycles[i] /\ PosOf(i, j) < seqPos[i]
    BY <1>1, <1>3 DEF Sent
  <2>2. j < Len(iovToSend[i])
    BY <2>1 DEF CycleBounded
  <2> QED BY <1>1, <2>1, <2>2, NodesFacts DEF Acquired, Num
<1> QED BY <1>2, <1>3

\* Where a number acquired and not given back is in the deque.
LEMMA OutstandingPlace ==
  ASSUME TypeOK, SendInv, NEW i \in Nodes, NEW j \in Nodes, NEW r \in Nat,
         r >= FirstOut(i, j), Num(r, j) < Acquired(i)
  PROVE  /\ Oldest(i) \in Nat /\ Num(r, j) \in Nat
         /\ Num(r, j) - Oldest(i) + 1 \in 1 .. Len(held[i])
         /\ held[i][Num(r, j) - Oldest(i) + 1].base = Addr(Num(r, j))
         /\ ~held[i][Num(r, j) - Oldest(i) + 1].done
<1>1. PICK x \in Nat : x = Num(r, j)
  BY NumType, NodesFacts
<1>2. Acquired(i) \in Nat /\ Len(held[i]) \in Nat /\ Len(held[i]) <= Acquired(i)
  BY UnitTypes DEF SendInv, HeldNumbered
<1>3. PICK o \in Nat : o = Oldest(i) /\ Acquired(i) = o + Len(held[i])
  BY <1>2 DEF Oldest
<1>4. x >= o /\ ~held[i][x - o + 1].done
  BY <1>1, <1>3 DEF SendInv, OutstandingHeld
<1>5. x - o + 1 \in 1 .. Len(held[i]) /\ o + (x - o + 1) - 1 = x
  BY <1>1, <1>2, <1>3, <1>4
<1>6. held[i][x - o + 1].base = Addr(o + (x - o + 1) - 1)
  BY <1>3, <1>5 DEF SendInv, HeldNumbered
<1> QED BY <1>1, <1>3, <1>4, <1>5, <1>6
-----------------------------------------------------------------------------
LEMMA InitSafeInv == Init => SafeInv
<1> SUFFICES ASSUME Init PROVE SafeInv
  OBVIOUS
<1>1. StreamInv
  BY InitStreamInv
<1>2. \A i \in Nodes : /\ seqPos[i] = 0 /\ cycles[i] = 0
                       /\ iovToSend[i] = <<>> /\ held[i] = <<>>
  BY DEF Init
<1>3. \A i, j \in Nodes : /\ wire[i][j] = <<>> /\ unacked[i][j] = <<>> /\ sendCQ[i][j] = <<>>
  BY DEF Init, EmptyQueues
<1>3a. \A i, j \in Nodes : recvPosted[j][i] = [p \in 1 .. Credits |-> p - 1]
  BY DEF Init
<1>4. \A i, j \in Nodes : PosOf(i, j) >= 0 /\ Sent(i, j) = 0
  <2>1. \A i, j \in Nodes : PosOf(i, j) >= 0
    BY NodesFacts DEF PosOf, FirstId, Nodes
  <2> QED BY <1>2, <2>1, NodesFacts DEF Sent, PosOf, FirstId, Nodes
<1>5. \A i \in Nodes : Acquired(i) = 0
  BY <1>2, NodesFacts DEF Acquired, Num
<1>6. CycleBounded
  BY <1>2, <1>4, NodesFacts DEF CycleBounded, PosOf, FirstId, Nodes
<1>7. AckedNumbered
  <2> SUFFICES ASSUME NEW i \in Nodes, NEW j \in Nodes PROVE Acked(i, j)
    BY DEF AckedNumbered
  <2>1. Len(wire[i][j]) = 0 /\ Len(unacked[i][j]) = 0 /\ Len(sendCQ[i][j]) = 0
    BY <1>3
  <2> QED BY <1>4, <2>1 DEF Acked
<1>8. HeldNumbered
  BY <1>2, <1>5 DEF HeldNumbered
<1>9. OutstandingHeld
  BY <1>5, NumType, NodesFacts DEF OutstandingHeld
<1>10. BuffersOnce
  <2> SUFFICES ASSUME NEW j \in Nodes, NEW i \in Nodes PROVE EachBufferOnce(Bufs(j, i))
    BY DEF BuffersOnce
  <2>1. PICK s \in Seq(Nat) : /\ s = recvPosted[j][i] /\ Len(s) = Credits
                              /\ \A p \in 1 .. Credits : s[p] = p - 1
    <3>1. [p \in 1 .. Credits |-> p - 1] \in Seq(Nat)
          /\ Len([p \in 1 .. Credits |-> p - 1]) = Credits
      BY NodesFacts
    <3>2. \A p \in 1 .. Credits : [q \in 1 .. Credits |-> q - 1][p] = p - 1
      OBVIOUS
    <3> QED BY <1>3a, <3>1, <3>2, Zenon
  <2>2. \A p \in 1 .. Credits : Bufs(j, i)[p] = p - 1
    BY <2>1, NodesFacts DEF Bufs
  <2>3. \A b \in 0 .. Credits - 1 : b + 1 \in 1 .. Credits /\ (b + 1) - 1 = b
    BY NodesFacts
  <2>4. \A p, q \in 1 .. Credits : Bufs(j, i)[p] = Bufs(j, i)[q] => p = q
    <3>1. \A p, q \in 1 .. Credits : p - 1 = q - 1 => p = q
      BY NodesFacts
    <3> QED BY <2>2, <3>1, Zenon
  <2>5. \A b \in 0 .. Credits - 1 : \E p \in 1 .. Credits : Bufs(j, i)[p] = b
    BY <2>2, <2>3, Zenon
  <2> QED BY <2>4, <2>5, Zenon DEF EachBufferOnce
<1>11. EndsOnlyByHeader
  BY DEF Init, EndsOnlyByHeader
<1> QED BY <1>1, <1>6, <1>7, <1>8, <1>9, <1>10, <1>11 DEF SafeInv, SendInv

\* Steps that end no process, and leave alone what ended processes have read
\* and what is between two of them.
LEMMA EndsKept ==
  ASSUME EndsOnlyByHeader, dead' = dead,
         \A j \in dead : dataVect'[j] = dataVect[j],
         \A i, j \in dead : /\ wire'[i][j] = wire[i][j] /\ unacked'[i][j] = unacked[i][j]
                            /\ recvPosted'[i][j] = recvPosted[i][j]
  PROVE  EndsOnlyByHeader'
<1>1. ASSUME NEW j \in dead PROVE Mismatch(j)' <=> Mismatch(j)
  BY DEF Mismatch, HeaderOf, Addr
<1>2. \A i, j \in dead : Awaits(i, j)' <=> Awaits(i, j)
  BY DEF Awaits
<1> QED BY <1>1, <1>2 DEF EndsOnlyByHeader

\* Steps of the network and of builder units, after which the readout units
\* have the same multievents to get back.
LEMMA RUUnchanged ==
  ASSUME SendInv, UNCHANGED ruVars, \A x, y \in Nodes : FirstOut(x, y)' = FirstOut(x, y)
  PROVE  CycleBounded' /\ HeldNumbered' /\ OutstandingHeld'
<1>1. /\ seqPos' = seqPos /\ iovToSend' = iovToSend /\ held' = held /\ cycles' = cycles
      /\ CycleBounded /\ HeldNumbered /\ OutstandingHeld
  BY DEF ruVars, SendInv
<1>2. \A x \in Nodes : Acquired(x)' = Acquired(x) /\ Oldest(x)' = Oldest(x)
  BY <1>1 DEF Acquired, Oldest, Num
<1>3. CycleBounded'
  BY <1>1 DEF CycleBounded, PosOf, FirstId
<1>4. HeldNumbered'
  BY <1>1, <1>2 DEF HeldNumbered, Addr
<1>5. OutstandingHeld'
  <2> SUFFICES ASSUME NEW x \in Nodes, NEW y \in Nodes, NEW r \in Nat,
                      r >= FirstOut(x, y)', Num(r, y) < Acquired(x)'
               PROVE  /\ Num(r, y) >= Oldest(x)'
                      /\ ~held'[x][Num(r, y) - Oldest(x)' + 1].done
    BY DEF OutstandingHeld, Num
  <2>1. r >= FirstOut(x, y) /\ Num(r, y) < Acquired(x)
    BY <1>2
  <2> QED BY <1>1, <1>2, <2>1 DEF OutstandingHeld
<1> QED BY <1>3, <1>4, <1>5

LEMMA DeliverEffect ==
  ASSUME TypeOK, NEW i \in Nodes, NEW j \in Nodes, Deliver(i, j)
  PROVE  /\ UNCHANGED <<ruVars, sendCQ, buVars, dead>>
         /\ Len(wire[i][j]) \in Nat \ {0} /\ Len(recvPosted[j][i]) \in Nat \ {0}
         /\ \A x, y \in Nodes :
              ~(x = i /\ y = j) =>
                /\ wire'[x][y] = wire[x][y] /\ unacked'[x][y] = unacked[x][y]
                /\ recvPosted'[y][x] = recvPosted[y][x] /\ recvCQ'[y][x] = recvCQ[y][x]
         /\ Len(wire'[i][j]) = Len(wire[i][j]) - 1
         /\ Len(unacked'[i][j]) = Len(unacked[i][j]) + 1
         /\ Len(recvPosted'[j][i]) = Len(recvPosted[j][i]) - 1
         /\ Len(recvCQ'[j][i]) = Len(recvCQ[j][i]) + 1
         /\ \A p \in 1 .. Len(unacked[i][j]) + 1 :
              unacked'[i][j][p] = IF p <= Len(unacked[i][j]) THEN unacked[i][j][p] ELSE wire[i][j][1]
         /\ \A p \in 1 .. Len(recvPosted[j][i]) - 1 : recvPosted'[j][i][p] = recvPosted[j][i][p + 1]
         /\ \A p \in 1 .. Len(recvCQ[j][i]) + 1 :
              recvCQ'[j][i][p].buf =
                IF p <= Len(recvCQ[j][i]) THEN recvCQ[j][i][p].buf ELSE recvPosted[j][i][1]
<1> DEFINE n == Head(wire[i][j])
           b == Head(recvPosted[j][i])
           f == [buf |-> b, num |-> n]
<1>1. /\ wire' = [wire EXCEPT ![i][j] = Tail(wire[i][j])]
      /\ unacked' = [unacked EXCEPT ![i][j] = Append(unacked[i][j], n)]
      /\ recvPosted' = [recvPosted EXCEPT ![j][i] = Tail(recvPosted[j][i])]
      /\ recvCQ' = [recvCQ EXCEPT ![j][i] = Append(recvCQ[j][i], f)]
      /\ wire[i][j] # <<>> /\ recvPosted[j][i] # <<>>
      /\ UNCHANGED <<ruVars, sendCQ, buVars, dead>>
  BY DEF Deliver
<1>2. /\ wire[i][j] \in Seq(Nat) /\ unacked[i][j] \in Seq(Nat)
      /\ recvPosted[j][i] \in Seq(0 .. Credits - 1) /\ recvCQ[j][i] \in Seq(Fragment)
  BY ConnTypes
<1>3. n \in Nat /\ b \in 0 .. Credits - 1 /\ n = wire[i][j][1] /\ b = recvPosted[j][i][1]
  BY <1>1, <1>2, SeqTail
<1>4. f \in Fragment /\ f.buf = b
  BY <1>3, FragmentType
<1> HIDE DEF n, b, f
<1> DEFINE w2 == Tail(wire[i][j])
           u2 == Append(unacked[i][j], n)
           r2 == Tail(recvPosted[j][i])
           c2 == Append(recvCQ[j][i], f)
<1>5. w2 \in Seq(Nat) /\ Len(w2) = Len(wire[i][j]) - 1 /\ Len(wire[i][j]) \in Nat \ {0}
  BY <1>1, <1>2, SeqTail
<1>6. /\ u2 \in Seq(Nat) /\ Len(u2) = Len(unacked[i][j]) + 1
      /\ \A p \in 1 .. Len(unacked[i][j]) + 1 :
           u2[p] = IF p <= Len(unacked[i][j]) THEN unacked[i][j][p] ELSE n
  <2>1. unacked[i][j] \in Seq(Nat) /\ n \in Nat
    BY <1>2, <1>3
  <2> QED BY <2>1, SeqAppend
<1>7. /\ r2 \in Seq(0 .. Credits - 1) /\ Len(r2) = Len(recvPosted[j][i]) - 1
      /\ Len(recvPosted[j][i]) \in Nat \ {0}
      /\ \A p \in 1 .. Len(recvPosted[j][i]) - 1 : r2[p] = recvPosted[j][i][p + 1]
  BY <1>1, <1>2, SeqTail
<1>8. /\ c2 \in Seq(Fragment) /\ Len(c2) = Len(recvCQ[j][i]) + 1
      /\ \A p \in 1 .. Len(recvCQ[j][i]) + 1 :
           c2[p] = IF p <= Len(recvCQ[j][i]) THEN recvCQ[j][i][p] ELSE f
  BY <1>2, <1>4, SeqAppend
<1>9. /\ wire' = [wire EXCEPT ![i][j] = w2] /\ unacked' = [unacked EXCEPT ![i][j] = u2]
      /\ recvPosted' = [recvPosted EXCEPT ![j][i] = r2] /\ recvCQ' = [recvCQ EXCEPT ![j][i] = c2]
  BY <1>1
<1> HIDE DEF w2, u2, r2, c2
<1>10. /\ wire \in [Nodes -> [Nodes -> Seq(Nat)]] /\ unacked \in [Nodes -> [Nodes -> Seq(Nat)]]
       /\ recvPosted \in [Nodes -> [Nodes -> Seq(0 .. Credits - 1)]]
       /\ recvCQ \in [Nodes -> [Nodes -> Seq(Fragment)]]
  BY DEF TypeOK
<1>11. \A x, y \in Nodes : wire'[x][y] = IF x = i /\ y = j THEN w2 ELSE wire[x][y]
  BY <1>9, <1>10
<1>12. \A x, y \in Nodes : unacked'[x][y] = IF x = i /\ y = j THEN u2 ELSE unacked[x][y]
  BY <1>9, <1>10
<1>13. \A y, x \in Nodes : recvPosted'[y][x] = IF y = j /\ x = i THEN r2 ELSE recvPosted[y][x]
  BY <1>9, <1>10
<1>14. \A y, x \in Nodes : recvCQ'[y][x] = IF y = j /\ x = i THEN c2 ELSE recvCQ[y][x]
  BY <1>9, <1>10
<1>15. \A x, y \in Nodes :
         ~(x = i /\ y = j) =>
           /\ wire'[x][y] = wire[x][y] /\ unacked'[x][y] = unacked[x][y]
           /\ recvPosted'[y][x] = recvPosted[y][x] /\ recvCQ'[y][x] = recvCQ[y][x]
  BY <1>11, <1>12, <1>13, <1>14
<1>16. wire'[i][j] = w2 /\ unacked'[i][j] = u2 /\ recvPosted'[j][i] = r2 /\ recvCQ'[j][i] = c2
  BY <1>11, <1>12, <1>13, <1>14
<1>17. \A p \in 1 .. Len(recvCQ[j][i]) + 1 :
         c2[p].buf = IF p <= Len(recvCQ[j][i]) THEN recvCQ[j][i][p].buf ELSE b
  BY <1>4, <1>8, Zenon
<1>18. \A p \in 1 .. Len(recvCQ[j][i]) + 1 :
         recvCQ'[j][i][p].buf =
           IF p <= Len(recvCQ[j][i]) THEN recvCQ[j][i][p].buf ELSE recvPosted[j][i][1]
  BY <1>3, <1>16, <1>17, Zenon
<1>19. \A p \in 1 .. Len(unacked[i][j]) + 1 :
         unacked'[i][j][p] = IF p <= Len(unacked[i][j]) THEN unacked[i][j][p] ELSE wire[i][j][1]
  BY <1>3, <1>6, <1>16, Zenon
<1>20. \A p \in 1 .. Len(recvPosted[j][i]) - 1 : recvPosted'[j][i][p] = recvPosted[j][i][p + 1]
  BY <1>7, <1>16, Zenon
<1>21. /\ Len(wire'[i][j]) = Len(wire[i][j]) - 1
       /\ Len(unacked'[i][j]) = Len(unacked[i][j]) + 1
       /\ Len(recvPosted'[j][i]) = Len(recvPosted[j][i]) - 1
       /\ Len(recvCQ'[j][i]) = Len(recvCQ[j][i]) + 1
  BY <1>5, <1>6, <1>7, <1>8, <1>16, Zenon
<1> QED BY <1>1, <1>5, <1>7, <1>15, <1>18, <1>19, <1>20, <1>21, Zenon

\* Taking the first buffer to the end leaves each buffer there once.
LEMMA RotateOnce ==
  ASSUME NEW F, NEW G, EachBufferOnce(F),
         \A p \in 1 .. Credits : G[p] = IF p = Credits THEN F[1] ELSE F[p + 1]
  PROVE  EachBufferOnce(G)
<1> DEFINE up(p) == IF p = Credits THEN 1 ELSE p + 1
<1>1. \A p \in 1 .. Credits : up(p) \in 1 .. Credits
  BY NodesFacts
<1>2. \A p, q \in 1 .. Credits : up(p) = up(q) => p = q
  BY NodesFacts
<1>3. \A p \in 1 .. Credits : \E q \in 1 .. Credits : up(q) = p
  <2> SUFFICES ASSUME NEW p \in 1 .. Credits PROVE \E q \in 1 .. Credits : up(q) = p
    OBVIOUS
  <2>1. CASE p = 1
    BY <2>1, NodesFacts
  <2>2. CASE p # 1
    <3>1. p - 1 \in 1 .. Credits /\ up(p - 1) = p
      BY <2>2, NodesFacts
    <3> QED BY <3>1
  <2> QED BY <2>1, <2>2
<1>4. \A p \in 1 .. Credits : G[p] = F[up(p)]
  OBVIOUS
<1> HIDE DEF up
<1>5. ASSUME NEW p \in 1 .. Credits, NEW q \in 1 .. Credits, G[p] = G[q] PROVE p = q
  <2>1. F[up(p)] = F[up(q)]
    BY <1>4, <1>5, Zenon
  <2>2. up(p) = up(q)
    BY <1>1, <2>1, Zenon DEF EachBufferOnce
  <2> QED BY <1>2, <2>2
<1>6. ASSUME NEW b \in 0 .. Credits - 1 PROVE \E p \in 1 .. Credits : G[p] = b
  <2>1. PICK p \in 1 .. Credits : F[p] = b
    BY Zenon DEF EachBufferOnce
  <2>2. PICK q \in 1 .. Credits : up(q) = p
    BY <1>3
  <2> QED BY <1>4, <2>1, <2>2, Zenon
<1> QED BY <1>5, <1>6, Zenon DEF EachBufferOnce

LEMMA DeliverSafeInv ==
  ASSUME SafeInv, NEW i \in Nodes, NEW j \in Nodes, Deliver(i, j)
  PROVE  SafeInv'
<1>1. /\ StreamInv /\ SendInv /\ BuffersOnce /\ EndsOnlyByHeader
      /\ TypeOK /\ CreditsKept /\ StreamsNumbered /\ AckedNumbered
  BY DEF SafeInv, StreamInv, SendInv
<1>2. StreamInv'
  BY <1>1, DeliverStreamInv
<1>3. /\ UNCHANGED ruVars /\ sendCQ' = sendCQ /\ dataVect' = dataVect
      /\ seqPos' = seqPos /\ cycles' = cycles /\ dead' = dead
      /\ \A x, y \in Nodes :
           ~(x = i /\ y = j) =>
             /\ wire'[x][y] = wire[x][y] /\ unacked'[x][y] = unacked[x][y]
             /\ recvPosted'[y][x] = recvPosted[y][x] /\ recvCQ'[y][x] = recvCQ[y][x]
  BY <1>1, DeliverEffect DEF ruVars, buVars
<1>4. \A x, y \in Nodes : Sent(x, y)' = Sent(x, y)
  BY <1>3 DEF Sent, PosOf, FirstId
<1> DEFINE w == Len(wire[i][j])
           u == Len(unacked[i][j])
           s == Len(sendCQ[i][j])
           r == Len(recvPosted[j][i])
           d == Len(dataVect[j][i])
           c == Len(recvCQ[j][i])
<1>5. /\ w \in Nat \ {0} /\ r \in Nat \ {0} /\ u \in Nat /\ s \in Nat /\ c \in Nat /\ d \in Nat
      /\ Sent(i, j) \in Nat /\ r + c + d = Credits /\ built[j] \in Nat
  BY <1>1, DeliverEffect, ConnTypes, UnitTypes DEF CreditsKept
<1>6. /\ Len(wire'[i][j]) = w - 1 /\ Len(unacked'[i][j]) = u + 1
      /\ Len(recvPosted'[j][i]) = r - 1 /\ Len(recvCQ'[j][i]) = c + 1
      /\ \A p \in 1 .. u + 1 :
           unacked'[i][j][p] = IF p <= u THEN unacked[i][j][p] ELSE wire[i][j][1]
      /\ \A p \in 1 .. r - 1 : recvPosted'[j][i][p] = recvPosted[j][i][p + 1]
      /\ \A p \in 1 .. c + 1 :
           recvCQ'[j][i][p].buf = IF p <= c THEN recvCQ[j][i][p].buf ELSE recvPosted[j][i][1]
  <2>1. /\ Len(wire'[i][j]) = w - 1 /\ Len(unacked'[i][j]) = u + 1
        /\ Len(recvPosted'[j][i]) = r - 1 /\ Len(recvCQ'[j][i]) = c + 1
    BY <1>1, DeliverEffect
  <2>2. \A p \in 1 .. u + 1 :
           unacked'[i][j][p] = IF p <= u THEN unacked[i][j][p] ELSE wire[i][j][1]
    BY <1>1, DeliverEffect
  <2>3. \A p \in 1 .. r - 1 : recvPosted'[j][i][p] = recvPosted[j][i][p + 1]
    BY <1>1, DeliverEffect
  <2>4. \A p \in 1 .. c + 1 :
           recvCQ'[j][i][p].buf = IF p <= c THEN recvCQ[j][i][p].buf ELSE recvPosted[j][i][1]
    BY <1>1, DeliverEffect
  <2> HIDE DEF w, u, s, r, c, d
  <2> QED BY <2>1, <2>2, <2>3, <2>4, Zenon
<1>7. \A x, y \in Nodes : FirstOut(x, y)' = FirstOut(x, y)
  <2> SUFFICES ASSUME NEW x \in Nodes, NEW y \in Nodes
               PROVE  Sent(x, y) - Len(wire'[x][y]) - Len(unacked'[x][y]) - Len(sendCQ[x][y])
                        = FirstOut(x, y)
    BY <1>3, <1>4 DEF FirstOut
  <2>1. CASE x = i /\ y = j
    <3>1. Sent(i, j) - (w - 1) - (u + 1) - s = Sent(i, j) - w - u - s
      <4> HIDE DEF w, u, s, r, c, d
      <4> QED BY <1>5
    <3> QED BY <1>6, <2>1, <3>1 DEF FirstOut
  <2>2. CASE ~(x = i /\ y = j)
    BY <1>3, <2>2 DEF FirstOut
  <2> QED BY <2>1, <2>2
<1>8. CycleBounded' /\ HeldNumbered' /\ OutstandingHeld'
  BY <1>1, <1>3, <1>7, RUUnchanged
<1>9. AckedNumbered'
  <2> SUFFICES ASSUME NEW x \in Nodes, NEW y \in Nodes PROVE Acked(x, y)'
    BY DEF AckedNumbered
  <2>1. Acked(x, y) /\ Sent(x, y)' = Sent(x, y) /\ sendCQ' = sendCQ
    BY <1>1, <1>3, <1>4 DEF AckedNumbered
  <2>2. CASE ~(x = i /\ y = j)
    <3>1. wire'[x][y] = wire[x][y] /\ unacked'[x][y] = unacked[x][y]
      BY <1>3, <2>2
    <3> QED BY <2>1, <3>1 DEF Acked, Num
  <2>3. CASE x = i /\ y = j
    <3> DEFINE S == Sent(i, j)
    <3>1. /\ w + u + s <= S
          /\ \A p \in 1 .. u : unacked[i][j][p] = Num(S - w - u + p - 1, j)
          /\ \A p \in 1 .. s : sendCQ[i][j][p] = Num(S - w - u - s + p - 1, j)
      BY <2>1, <2>3 DEF Acked
    <3>2. wire[i][j][1] = Num(S - w, j)
      <4> DEFINE a == built[j] + d + c
      <4>1. a + w = S /\ wire[i][j][1] = Num(a + 1 - 1, j)
        BY <1>1, <1>5 DEF StreamsNumbered, Stream
      <4>2. a + 1 - 1 = S - w
        <5>1. a \in Nat
          <6>1. PICK b \in Nat, e \in Nat, f \in Nat : b = built[j] /\ e = d /\ f = c
            BY <1>5, Zenon
          <6>2. b + e + f \in Nat
            OBVIOUS
          <6> QED BY <6>1, <6>2, Zenon
        <5> HIDE DEF a, w, S
        <5> QED BY <1>5, <4>1, <5>1
      <4> QED BY <4>1, <4>2
    <3>3. (/\ Len(wire'[i][j]) + Len(unacked'[i][j]) + s <= S
           /\ \A p \in 1 .. Len(unacked'[i][j]) :
                unacked'[i][j][p] = Num(S - Len(wire'[i][j]) - Len(unacked'[i][j]) + p - 1, j)
           /\ \A p \in 1 .. s :
                sendCQ[i][j][p] = Num(S - Len(wire'[i][j]) - Len(unacked'[i][j]) - s + p - 1, j))
          => Acked(i, j)'
      <4>1. Sent(i, j)' = S /\ sendCQ' = sendCQ
        BY <2>1, <2>3
      <4> HIDE DEF S, w, u, s, r, c, d
      <4> QED BY <4>1 DEF Acked, Num, s
    <3>4. S \in Nat /\ w \in Nat /\ u \in Nat /\ s \in Nat
      BY <1>5
    <3> HIDE DEF S, w, u, s, r, c, d
    <3>5. (w - 1) + (u + 1) + s <= S
      BY <3>1, <3>4
    <3>6. ASSUME NEW p \in 1 .. u + 1
          PROVE  unacked'[i][j][p] = Num(S - (w - 1) - (u + 1) + p - 1, j)
      <4>1. S - (w - 1) - (u + 1) + p - 1 = S - w - u + p - 1
        BY <3>4
      <4>2. CASE p <= u
        <5>1. p \in 1 .. u
          BY <3>4, <4>2
        <5> QED BY <1>6, <3>1, <4>1, <4>2, <5>1
      <4>3. CASE ~(p <= u)
        <5>1. S - w - u + p - 1 = S - w
          BY <3>4, <4>3
        <5> QED BY <1>6, <3>2, <4>1, <4>3, <5>1
      <4> QED BY <4>2, <4>3
    <3>7. ASSUME NEW p \in 1 .. s
          PROVE  sendCQ[i][j][p] = Num(S - (w - 1) - (u + 1) - s + p - 1, j)
      <4>1. S - (w - 1) - (u + 1) - s + p - 1 = S - w - u - s + p - 1
        BY <3>4
      <4> QED BY <3>1, <4>1
    <3> QED BY <1>6, <2>3, <3>3, <3>5, <3>6, <3>7
  <2> QED BY <2>2, <2>3
<1>10. BuffersOnce'
  <2> SUFFICES ASSUME NEW y \in Nodes, NEW x \in Nodes PROVE EachBufferOnce(Bufs(y, x)')
    BY DEF BuffersOnce, EachBufferOnce
  <2>1. EachBufferOnce(Bufs(y, x)) /\ dataVect' = dataVect
    BY <1>1, <1>3 DEF BuffersOnce
  <2>2. CASE ~(x = i /\ y = j)
    <3>1. recvPosted'[y][x] = recvPosted[y][x] /\ recvCQ'[y][x] = recvCQ[y][x]
      BY <1>3, <2>2
    <3>2. Bufs(y, x)' = Bufs(y, x)
      BY <2>1, <3>1 DEF Bufs
    <3> QED BY <2>1, <3>2
  <2>3. CASE x = i /\ y = j
    <3>1. ASSUME NEW p \in 1 .. Credits
          PROVE  /\ Bufs(j, i)[p] = IF p <= r THEN recvPosted[j][i][p]
                                    ELSE IF p <= r + d THEN dataVect[j][i][p - r].buf
                                    ELSE recvCQ[j][i][p - r - d].buf
                 /\ Bufs(j, i)'[p] = IF p <= r - 1 THEN recvPosted'[j][i][p]
                                     ELSE IF p <= (r - 1) + d THEN dataVect[j][i][p - (r - 1)].buf
                                     ELSE recvCQ'[j][i][p - (r - 1) - d].buf
      BY <1>3, <1>6 DEF Bufs
    <3> HIDE DEF w, u, s, r, c, d
    <3>2. ASSUME NEW p \in 1 .. Credits
          PROVE  Bufs(j, i)'[p] = IF p = Credits THEN Bufs(j, i)[1] ELSE Bufs(j, i)[p + 1]
      <4>1. CASE p = Credits
        <5>1. /\ ~(p <= r - 1) /\ ~(p <= (r - 1) + d) /\ p - (r - 1) - d = c + 1
              /\ c + 1 \in 1 .. c + 1 /\ ~(c + 1 <= c) /\ 1 \in 1 .. Credits /\ 1 <= r
          BY <1>5, <4>1, NodesFacts
        <5>2. Bufs(j, i)[1] = recvPosted[j][i][1]
          BY <3>1, <5>1
        <5>3. Bufs(j, i)'[p] = recvCQ'[j][i][c + 1].buf
          BY <3>1, <5>1
        <5> QED BY <1>6, <4>1, <5>1, <5>2, <5>3
      <4>2. CASE p # Credits /\ p <= r - 1
        <5>1. p \in 1 .. r - 1 /\ p + 1 <= r /\ p + 1 \in 1 .. Credits
          BY <1>5, <4>2, NodesFacts
        <5> QED BY <1>6, <3>1, <4>2, <5>1
      <4>3. CASE p # Credits /\ ~(p <= r - 1) /\ p <= (r - 1) + d
        <5>1. ~(p + 1 <= r) /\ p + 1 <= r + d /\ p + 1 \in 1 .. Credits /\ (p + 1) - r = p - (r - 1)
          BY <1>5, <4>3, NodesFacts
        <5> QED BY <3>1, <4>3, <5>1
      <4>4. CASE p # Credits /\ ~(p <= r - 1) /\ ~(p <= (r - 1) + d)
        <5>1. /\ ~(p + 1 <= r) /\ ~(p + 1 <= r + d) /\ p + 1 \in 1 .. Credits
              /\ (p + 1) - r - d = p - (r - 1) - d
              /\ p - (r - 1) - d \in 1 .. c + 1 /\ p - (r - 1) - d <= c
          BY <1>5, <4>4, NodesFacts
        <5>2. recvCQ'[j][i][p - (r - 1) - d].buf = recvCQ[j][i][p - (r - 1) - d].buf
          BY <1>6, <5>1
        <5> QED BY <3>1, <4>4, <5>1, <5>2
      <4> QED BY <4>1, <4>2, <4>3, <4>4
    <3> QED BY <2>1, <2>3, <3>2, RotateOnce
  <2> QED BY <2>2, <2>3
<1>11. EndsOnlyByHeader'
  <2>1. j \notin dead /\ dead \subseteq Nodes
    BY <1>1 DEF Deliver, TypeOK
  <2> QED BY <1>1, <1>3, <2>1, EndsKept
<1> QED BY <1>2, <1>8, <1>9, <1>10, <1>11 DEF SafeInv, SendInv

LEMMA AckEffect ==
  ASSUME TypeOK, NEW i \in Nodes, NEW j \in Nodes, Ack(i, j)
  PROVE  /\ UNCHANGED <<ruVars, wire, recvPosted, recvCQ, buVars, dead>>
         /\ Len(unacked[i][j]) \in Nat \ {0}
         /\ \A x, y \in Nodes :
              ~(x = i /\ y = j) => unacked'[x][y] = unacked[x][y] /\ sendCQ'[x][y] = sendCQ[x][y]
         /\ Len(unacked'[i][j]) = Len(unacked[i][j]) - 1
         /\ Len(sendCQ'[i][j]) = Len(sendCQ[i][j]) + 1
         /\ \A p \in 1 .. Len(unacked[i][j]) - 1 : unacked'[i][j][p] = unacked[i][j][p + 1]
         /\ \A p \in 1 .. Len(sendCQ[i][j]) + 1 :
              sendCQ'[i][j][p] = IF p <= Len(sendCQ[i][j]) THEN sendCQ[i][j][p] ELSE unacked[i][j][1]
<1> DEFINE n == Head(unacked[i][j])
           u2 == Tail(unacked[i][j])
           s2 == Append(sendCQ[i][j], n)
<1>1. /\ unacked' = [unacked EXCEPT ![i][j] = u2] /\ sendCQ' = [sendCQ EXCEPT ![i][j] = s2]
      /\ unacked[i][j] # <<>>
      /\ UNCHANGED <<ruVars, wire, recvPosted, recvCQ, buVars, dead>>
  BY DEF Ack
<1>2. unacked[i][j] \in Seq(Nat) /\ sendCQ[i][j] \in Seq(Nat)
  BY ConnTypes
<1>3. n \in Nat /\ n = unacked[i][j][1]
  BY <1>1, <1>2, SeqTail
<1> HIDE DEF n
<1>4. /\ u2 \in Seq(Nat) /\ Len(u2) = Len(unacked[i][j]) - 1 /\ Len(unacked[i][j]) \in Nat \ {0}
      /\ \A p \in 1 .. Len(unacked[i][j]) - 1 : u2[p] = unacked[i][j][p + 1]
  BY <1>1, <1>2, SeqTail
<1>5. /\ s2 \in Seq(Nat) /\ Len(s2) = Len(sendCQ[i][j]) + 1
      /\ \A p \in 1 .. Len(sendCQ[i][j]) + 1 :
           s2[p] = IF p <= Len(sendCQ[i][j]) THEN sendCQ[i][j][p] ELSE n
  <2>1. sendCQ[i][j] \in Seq(Nat) /\ n \in Nat
    BY <1>2, <1>3
  <2> QED BY <2>1, SeqAppend
<1> HIDE DEF u2, s2
<1>6. unacked \in [Nodes -> [Nodes -> Seq(Nat)]] /\ sendCQ \in [Nodes -> [Nodes -> Seq(Nat)]]
  BY DEF TypeOK
<1>7. \A x, y \in Nodes : unacked'[x][y] = IF x = i /\ y = j THEN u2 ELSE unacked[x][y]
  BY <1>1, <1>6
<1>8. \A x, y \in Nodes : sendCQ'[x][y] = IF x = i /\ y = j THEN s2 ELSE sendCQ[x][y]
  BY <1>1, <1>6
<1>9. \A x, y \in Nodes :
        ~(x = i /\ y = j) => unacked'[x][y] = unacked[x][y] /\ sendCQ'[x][y] = sendCQ[x][y]
  BY <1>7, <1>8
<1>10. unacked'[i][j] = u2 /\ sendCQ'[i][j] = s2
  BY <1>7, <1>8
<1>11. \A p \in 1 .. Len(unacked[i][j]) - 1 : unacked'[i][j][p] = unacked[i][j][p + 1]
  BY <1>4, <1>10, Zenon
<1>12. \A p \in 1 .. Len(sendCQ[i][j]) + 1 :
         sendCQ'[i][j][p] = IF p <= Len(sendCQ[i][j]) THEN sendCQ[i][j][p] ELSE unacked[i][j][1]
  BY <1>3, <1>5, <1>10, Zenon
<1>13. /\ Len(unacked'[i][j]) = Len(unacked[i][j]) - 1
       /\ Len(sendCQ'[i][j]) = Len(sendCQ[i][j]) + 1
  BY <1>4, <1>5, <1>10, Zenon
<1> QED BY <1>1, <1>4, <1>9, <1>11, <1>12, <1>13, Zenon

LEMMA AckSafeInv ==
  ASSUME SafeInv, NEW i \in Nodes, NEW j \in Nodes, Ack(i, j)
  PROVE  SafeInv'
<1>1. /\ StreamInv /\ SendInv /\ BuffersOnce /\ EndsOnlyByHeader
      /\ TypeOK /\ CreditsKept /\ StreamsNumbered /\ AckedNumbered
  BY DEF SafeInv, StreamInv, SendInv
<1>2. StreamInv'
  BY <1>1, AckStreamInv
<1>3. /\ UNCHANGED ruVars /\ wire' = wire /\ dataVect' = dataVect
      /\ recvPosted' = recvPosted /\ recvCQ' = recvCQ
      /\ seqPos' = seqPos /\ cycles' = cycles /\ dead' = dead
      /\ \A x, y \in Nodes :
           ~(x = i /\ y = j) => unacked'[x][y] = unacked[x][y] /\ sendCQ'[x][y] = sendCQ[x][y]
  BY <1>1, AckEffect DEF ruVars, buVars
<1>4. \A x, y \in Nodes : Sent(x, y)' = Sent(x, y)
  BY <1>3 DEF Sent, PosOf, FirstId
<1> DEFINE w == Len(wire[i][j])
           u == Len(unacked[i][j])
           s == Len(sendCQ[i][j])
<1>5. w \in Nat /\ u \in Nat \ {0} /\ s \in Nat /\ Sent(i, j) \in Nat
  BY <1>1, AckEffect, ConnTypes, UnitTypes
<1>6. /\ Len(unacked'[i][j]) = u - 1 /\ Len(sendCQ'[i][j]) = s + 1
      /\ \A p \in 1 .. u - 1 : unacked'[i][j][p] = unacked[i][j][p + 1]
      /\ \A p \in 1 .. s + 1 :
           sendCQ'[i][j][p] = IF p <= s THEN sendCQ[i][j][p] ELSE unacked[i][j][1]
  BY <1>1, AckEffect
<1>7. \A x, y \in Nodes : FirstOut(x, y)' = FirstOut(x, y)
  <2> SUFFICES ASSUME NEW x \in Nodes, NEW y \in Nodes
               PROVE  Sent(x, y) - Len(wire[x][y]) - Len(unacked'[x][y]) - Len(sendCQ'[x][y])
                        = FirstOut(x, y)
    BY <1>3, <1>4 DEF FirstOut
  <2>1. CASE x = i /\ y = j
    <3>1. Sent(i, j) - w - (u - 1) - (s + 1) = Sent(i, j) - w - u - s
      <4> HIDE DEF w, u, s
      <4> QED BY <1>5
    <3> QED BY <1>6, <2>1, <3>1 DEF FirstOut
  <2>2. CASE ~(x = i /\ y = j)
    BY <1>3, <2>2 DEF FirstOut
  <2> QED BY <2>1, <2>2
<1>8. CycleBounded' /\ HeldNumbered' /\ OutstandingHeld'
  BY <1>1, <1>3, <1>7, RUUnchanged
<1>9. AckedNumbered'
  <2> SUFFICES ASSUME NEW x \in Nodes, NEW y \in Nodes PROVE Acked(x, y)'
    BY DEF AckedNumbered
  <2>1. Acked(x, y) /\ Sent(x, y)' = Sent(x, y) /\ wire' = wire
    BY <1>1, <1>3, <1>4 DEF AckedNumbered
  <2>2. CASE ~(x = i /\ y = j)
    <3>1. unacked'[x][y] = unacked[x][y] /\ sendCQ'[x][y] = sendCQ[x][y]
      BY <1>3, <2>2
    <3> QED BY <2>1, <3>1 DEF Acked, Num
  <2>3. CASE x = i /\ y = j
    <3> DEFINE S == Sent(i, j)
    <3>1. /\ w + u + s <= S
          /\ \A p \in 1 .. u : unacked[i][j][p] = Num(S - w - u + p - 1, j)
          /\ \A p \in 1 .. s : sendCQ[i][j][p] = Num(S - w - u - s + p - 1, j)
      BY <2>1, <2>3 DEF Acked
    <3>3. (/\ w + Len(unacked'[i][j]) + Len(sendCQ'[i][j]) <= S
           /\ \A p \in 1 .. Len(unacked'[i][j]) :
                unacked'[i][j][p] = Num(S - w - Len(unacked'[i][j]) + p - 1, j)
           /\ \A p \in 1 .. Len(sendCQ'[i][j]) :
                sendCQ'[i][j][p] =
                  Num(S - w - Len(unacked'[i][j]) - Len(sendCQ'[i][j]) + p - 1, j))
          => Acked(i, j)'
      <4>1. Sent(i, j)' = S /\ wire' = wire
        BY <2>1, <2>3
      <4> HIDE DEF S, u, s
      <4> QED BY <4>1 DEF Acked, Num
    <3>4. S \in Nat /\ w \in Nat /\ u \in Nat \ {0} /\ s \in Nat
      BY <1>5
    <3> HIDE DEF S, w, u, s
    <3>5. w + (u - 1) + (s + 1) <= S
      BY <3>1, <3>4
    <3>6. ASSUME NEW p \in 1 .. u - 1
          PROVE  unacked'[i][j][p] = Num(S - w - (u - 1) + p - 1, j)
      <4>1. S - w - (u - 1) + p - 1 = S - w - u + (p + 1) - 1 /\ p + 1 \in 1 .. u
        BY <3>4
      <4> QED BY <1>6, <3>1, <4>1
    <3>7. ASSUME NEW p \in 1 .. s + 1
          PROVE  sendCQ'[i][j][p] = Num(S - w - (u - 1) - (s + 1) + p - 1, j)
      <4>1. S - w - (u - 1) - (s + 1) + p - 1 = S - w - u - s + p - 1
        BY <3>4
      <4>2. CASE p <= s
        <5>1. p \in 1 .. s
          BY <3>4, <4>2
        <5> QED BY <1>6, <3>1, <4>1, <4>2, <5>1
      <4>3. CASE ~(p <= s)
        <5>1. S - w - u - s + p - 1 = S - w - u + 1 - 1 /\ 1 \in 1 .. u
          BY <3>4, <4>3
        <5> QED BY <1>6, <3>1, <4>1, <4>3, <5>1
      <4> QED BY <4>2, <4>3
    <3> QED BY <1>6, <2>3, <3>3, <3>5, <3>6, <3>7
  <2> QED BY <2>2, <2>3
<1>10. BuffersOnce'
  <2>1. \A y, x \in Nodes : Bufs(y, x)' = Bufs(y, x)
    BY <1>3 DEF Bufs
  <2> QED BY <1>1, <2>1 DEF BuffersOnce, EachBufferOnce
<1>11. EndsOnlyByHeader'
  <2>1. i \notin dead /\ dead \subseteq Nodes
    BY <1>1 DEF Ack, TypeOK
  <2> QED BY <1>1, <1>3, <2>1, EndsKept
<1> QED BY <1>2, <1>8, <1>9, <1>10, <1>11 DEF SafeInv, SendInv
-----------------------------------------------------------------------------
\* The buffers of the concatenation of two sequences.
LEMMA BuffersAppended ==
  ASSUME NEW s \in Seq(0 .. Credits - 1), NEW data \in Seq(Fragment), NEW m \in 0 .. Len(data)
  PROVE  /\ Len(s \o Buffers(data, m)) = Len(s) + m
         /\ \A p \in 1 .. Len(s) + m :
              (s \o Buffers(data, m))[p] = IF p <= Len(s) THEN s[p] ELSE data[p - Len(s)].buf
         /\ DOMAIN Buffers(data, m) = 1 .. m
         /\ \A p \in 1 .. m : Buffers(data, m)[p] = data[p].buf
<1> DEFINE t == Buffers(data, m)
<1>1. t \in Seq(0 .. Credits - 1) /\ Len(t) = m
  BY BuffersType
<1>2. DOMAIN t = 1 .. m /\ \A p \in 1 .. m : t[p] = data[p].buf
  BY DEF Buffers
<1>3. Len(s) \in Nat /\ m \in Nat
  BY SeqType
<1> HIDE DEF t
<1>4. /\ Len(s \o t) = Len(s) + Len(t)
      /\ \A p \in 1 .. Len(s) + Len(t) : (s \o t)[p] = IF p <= Len(s) THEN s[p] ELSE t[p - Len(s)]
  BY <1>1, SeqConcat
<1>5. ASSUME NEW p \in 1 .. Len(s) + m
      PROVE  (s \o t)[p] = IF p <= Len(s) THEN s[p] ELSE data[p - Len(s)].buf
  <2>1. CASE p <= Len(s)
    BY <1>1, <1>4, <2>1
  <2>2. CASE ~(p <= Len(s))
    <3>1. p - Len(s) \in 1 .. m
      BY <1>3, <2>2
    <3>2. (s \o t)[p] = t[p - Len(s)]
      BY <1>1, <1>4, <2>2
    <3> QED BY <1>2, <2>2, <3>1, <3>2, Zenon
  <2> QED BY <2>1, <2>2
<1>6. Len(s \o t) = Len(s) + m
  BY <1>1, <1>4
<1> QED BY <1>2, <1>5, <1>6 DEF t

\* What an iteration of unit j does to its connection from unit x.
LEMMA BUEffect ==
  ASSUME TypeOK, NEW j \in Nodes, NEW x \in Nodes, NEW n \in Polls(recvCQ[j]), RunBU(j, n),
         NEW m, m = Released(DataRead(j, n), MinWrs(DataRead(j, n)))
  PROVE  /\ m \in 0 .. Credits
         /\ n[x] \in 0 .. Len(recvCQ[j][x]) /\ m \in 0 .. Len(DataRead(j, n)[x])
         /\ Len(DataRead(j, n)[x]) = Len(dataVect[j][x]) + n[x]
         /\ Len(recvPosted'[j][x]) = Len(recvPosted[j][x]) + m
         /\ Len(dataVect'[j][x]) = Len(DataRead(j, n)[x]) - m
         /\ Len(recvCQ'[j][x]) = Len(recvCQ[j][x]) - n[x]
         /\ \A p \in 1 .. Len(recvPosted[j][x]) + m :
              recvPosted'[j][x][p] = IF p <= Len(recvPosted[j][x]) THEN recvPosted[j][x][p]
                                     ELSE DataRead(j, n)[x][p - Len(recvPosted[j][x])].buf
         /\ \A p \in 1 .. Len(DataRead(j, n)[x]) - m :
              dataVect'[j][x][p] = DataRead(j, n)[x][p + m]
         /\ \A p \in 1 .. Len(recvCQ[j][x]) - n[x] : recvCQ'[j][x][p] = recvCQ[j][x][p + n[x]]
<1> DEFINE data == DataRead(j, n)
           r == recvPosted[j][x]
           c == recvCQ[j][x]
<1>1. /\ r \in Seq(0 .. Credits - 1) /\ c \in Seq(Fragment)
      /\ data[x] \in Seq(Fragment) /\ Len(data[x]) = Len(dataVect[j][x]) + n[x]
      /\ n[x] \in 0 .. Len(c)
  BY ConnTypes, DataReadType
<1>2. m \in 0 .. Credits /\ m \in 0 .. Len(data[x])
  <2>1. \A i \in Nodes : data[i] \in Seq(Fragment)
    BY DataReadType
  <2> HIDE DEF data
  <2>2. \A i \in Nodes : Len(data[i]) \in Nat
    BY <2>1, SeqType
  <2>3. m = Released(data, MinWrs(data))
    BY DEF data
  <2>4. m \in 0 .. Credits /\ m <= Len(data[x])
    BY <2>2, <2>3, ReleasedBound
  <2> QED BY <2>2, <2>4
<1>3. /\ recvPosted' = [recvPosted EXCEPT ![j] = [i \in Nodes |-> recvPosted[j][i] \o Buffers(data[i], m)]]
      /\ dataVect' = [dataVect EXCEPT ![j] = [i \in Nodes |-> Unbuilt(data[i], m)]]
      /\ recvCQ' = [recvCQ EXCEPT ![j] = [i \in Nodes |-> NotPolled(recvCQ[j][i], n[i])]]
  BY DEF RunBU
<1> HIDE DEF data
<1>4. /\ recvPosted'[j][x] = r \o Buffers(data[x], m)
      /\ dataVect'[j][x] = Unbuilt(data[x], m)
      /\ recvCQ'[j][x] = NotPolled(c, n[x])
  <2>1. j \in DOMAIN recvPosted /\ j \in DOMAIN dataVect /\ j \in DOMAIN recvCQ
    BY Zenon DEF TypeOK
  <2> QED BY <1>3, <2>1, Zenon
<1> HIDE DEF r, c
<1>5. /\ Len(recvPosted'[j][x]) = Len(r) + m
      /\ \A p \in 1 .. Len(r) + m :
           recvPosted'[j][x][p] = IF p <= Len(r) THEN r[p] ELSE data[x][p - Len(r)].buf
  <2>1. /\ Len(r \o Buffers(data[x], m)) = Len(r) + m
        /\ \A p \in 1 .. Len(r) + m :
              (r \o Buffers(data[x], m))[p] = IF p <= Len(r) THEN r[p] ELSE data[x][p - Len(r)].buf
    BY <1>1, <1>2, BuffersAppended
  <2> QED BY <1>4, <2>1, Zenon
<1>6. /\ Len(dataVect'[j][x]) = Len(data[x]) - m
      /\ \A p \in 1 .. Len(data[x]) - m : dataVect'[j][x][p] = data[x][p + m]
  <2>1. /\ Len(Unbuilt(data[x], m)) = Len(data[x]) - m
        /\ \A p \in 1 .. Len(data[x]) - m : Unbuilt(data[x], m)[p] = data[x][p + m]
    BY <1>1, <1>2, SeqRest DEF Unbuilt
  <2> QED BY <1>4, <2>1, Zenon
<1>7. /\ Len(recvCQ'[j][x]) = Len(c) - n[x]
      /\ \A p \in 1 .. Len(c) - n[x] : recvCQ'[j][x][p] = c[p + n[x]]
  <2>1. /\ Len(NotPolled(c, n[x])) = Len(c) - n[x]
        /\ \A p \in 1 .. Len(c) - n[x] : NotPolled(c, n[x])[p] = c[p + n[x]]
    <3>1. c \in Seq(Fragment) /\ n[x] \in 0 .. Len(c)
      BY <1>1
    <3>2. PICK z \in 0 .. Len(c) : z = n[x]
      BY <3>1, Zenon
    <3>3. /\ Len(NotPolled(c, z)) = Len(c) - z
          /\ \A p \in 1 .. Len(c) - z : NotPolled(c, z)[p] = c[p + z]
      BY <3>1, PollParts, Zenon
    <3> QED BY <3>2, <3>3, Zenon
  <2> QED BY <1>4, <2>1, Zenon
<1> QED BY <1>1, <1>2, <1>5, <1>6, <1>7, Zenon DEF data, r, c

\* Where the buffers of the fragments read are among those of the connection.
LEMMA DataReadBufs ==
  ASSUME TypeOK, CreditsKept, NEW j \in Nodes, NEW x \in Nodes, NEW n \in Polls(recvCQ[j]),
         NEW p \in 1 .. Len(dataVect[j][x]) + n[x]
  PROVE  /\ Len(recvPosted[j][x]) + p \in 1 .. Credits
         /\ DataRead(j, n)[x][p].buf = Bufs(j, x)[Len(recvPosted[j][x]) + p]
<1> DEFINE r == Len(recvPosted[j][x])
           d == Len(dataVect[j][x])
           c == Len(recvCQ[j][x])
<1>1. r \in Nat /\ d \in Nat /\ c \in Nat /\ r + c + d = Credits
  BY ConnTypes DEF CreditsKept
<1>2. /\ n[x] \in 0 .. c
      /\ DataRead(j, n)[x][p] = IF p <= d THEN dataVect[j][x][p] ELSE recvCQ[j][x][p - d]
  BY DataReadType
<1>3. \A q \in 1 .. Credits :
        Bufs(j, x)[q] = IF q <= r THEN recvPosted[j][x][q]
                        ELSE IF q <= r + d THEN dataVect[j][x][q - r].buf
                        ELSE recvCQ[j][x][q - r - d].buf
  BY DEF Bufs
<1>4. p \in 1 .. d + n[x]
  OBVIOUS
<1> HIDE DEF r, d, c
<1>5. /\ r + p \in 1 .. Credits /\ ~(r + p <= r)
      /\ r + p <= r + d <=> p <= d
      /\ (r + p) - r = p /\ (r + p) - r - d = p - d
  BY <1>1, <1>2, <1>4
<1>6. Bufs(j, x)[r + p] = IF p <= d THEN dataVect[j][x][p].buf ELSE recvCQ[j][x][p - d].buf
  BY <1>3, <1>5
<1> QED BY <1>2, <1>5, <1>6 DEF r

\* A step of unit j moves buffers between the queues and keeps their order.
LEMMA RunBUBufs ==
  ASSUME TypeOK, CreditsKept, NEW j \in Nodes, NEW n \in Polls(recvCQ[j]), RunBU(j, n),
         NEW x \in Nodes, NEW p \in 1 .. Credits
  PROVE  Bufs(j, x)'[p] = Bufs(j, x)[p]
<1> DEFINE data == DataRead(j, n)
           m == Released(data, MinWrs(data))
           r == Len(recvPosted[j][x])
           d == Len(dataVect[j][x])
           c == Len(recvCQ[j][x])
           z == n[x]
<1>1. r \in Nat /\ d \in Nat /\ c \in Nat /\ r + c + d = Credits
  BY ConnTypes DEF CreditsKept
<1>2. /\ m \in 0 .. Credits /\ z \in 0 .. c /\ m \in 0 .. d + z
      /\ Len(recvPosted'[j][x]) = r + m
      /\ Len(dataVect'[j][x]) = (d + z) - m
  <2>1. /\ m \in 0 .. Credits /\ z \in 0 .. c /\ m \in 0 .. Len(data[x])
        /\ Len(data[x]) = d + z
        /\ Len(recvPosted'[j][x]) = r + m
        /\ Len(dataVect'[j][x]) = Len(data[x]) - m
    BY BUEffect
  <2> HIDE DEF data, m, r, d, c, z
  <2> QED BY <2>1
<1>3. \A q \in 1 .. r + m :
         recvPosted'[j][x][q] = IF q <= r THEN recvPosted[j][x][q] ELSE data[x][q - r].buf
  BY BUEffect
<1>4. \A q \in 1 .. (d + z) - m : dataVect'[j][x][q] = data[x][q + m]
  <2>1. Len(data[x]) = d + z /\ \A q \in 1 .. Len(data[x]) - m : dataVect'[j][x][q] = data[x][q + m]
    BY BUEffect
  <2> HIDE DEF data, m, r, d, c, z
  <2> QED BY <2>1
<1>5. \A q \in 1 .. c - z : recvCQ'[j][x][q] = recvCQ[j][x][q + z]
  BY BUEffect
<1>6. \A q \in 1 .. d + z : data[x][q].buf = Bufs(j, x)[r + q]
  BY DataReadBufs
<1>7. Bufs(j, x)[p] = IF p <= r THEN recvPosted[j][x][p]
                      ELSE IF p <= r + d THEN dataVect[j][x][p - r].buf
                      ELSE recvCQ[j][x][p - r - d].buf
  BY DEF Bufs
<1>8. Bufs(j, x)'[p] = IF p <= r + m THEN recvPosted'[j][x][p]
                       ELSE IF p <= (r + m) + ((d + z) - m) THEN dataVect'[j][x][p - (r + m)].buf
                       ELSE recvCQ'[j][x][p - (r + m) - ((d + z) - m)].buf
  <2>1. Bufs(j, x)'[p] = IF p <= Len(recvPosted'[j][x]) THEN recvPosted'[j][x][p]
                         ELSE IF p <= Len(recvPosted'[j][x]) + Len(dataVect'[j][x])
                           THEN dataVect'[j][x][p - Len(recvPosted'[j][x])].buf
                         ELSE recvCQ'[j][x][p - Len(recvPosted'[j][x]) - Len(dataVect'[j][x])].buf
    BY DEF Bufs
  <2> HIDE DEF data, m, r, d, c, z
  <2> QED BY <1>2, <2>1
<1> HIDE DEF data, m, r, d, c, z
<1>9. CASE p <= r
  <2>1. p \in 1 .. r + m /\ p <= r + m
    BY <1>1, <1>2, <1>9
  <2> QED BY <1>3, <1>7, <1>8, <1>9, <2>1
<1>10. CASE ~(p <= r) /\ p <= r + m
  <2>1. p \in 1 .. r + m /\ p - r \in 1 .. d + z /\ r + (p - r) = p
    BY <1>1, <1>2, <1>10
  <2>2. recvPosted'[j][x][p] = data[x][p - r].buf
    BY <1>3, <1>10, <2>1
  <2>3. data[x][p - r].buf = Bufs(j, x)[p]
    BY <1>6, <2>1
  <2> QED BY <1>8, <1>10, <2>2, <2>3
<1>11. CASE ~(p <= r + m) /\ p <= (r + m) + ((d + z) - m)
  <2>1. /\ p - (r + m) \in 1 .. (d + z) - m /\ (p - (r + m)) + m = p - r
        /\ p - r \in 1 .. d + z /\ r + (p - r) = p
    BY <1>1, <1>2, <1>11
  <2>2. dataVect'[j][x][p - (r + m)] = data[x][p - r]
    BY <1>4, <2>1
  <2>3. data[x][p - r].buf = Bufs(j, x)[p]
    BY <1>6, <2>1
  <2> QED BY <1>8, <1>11, <2>2, <2>3
<1>12. CASE ~(p <= r + m) /\ ~(p <= (r + m) + ((d + z) - m))
  <2>1. /\ p - (r + m) - ((d + z) - m) \in 1 .. c - z
        /\ (p - (r + m) - ((d + z) - m)) + z = p - r - d
        /\ ~(p <= r) /\ ~(p <= r + d)
    BY <1>1, <1>2, <1>12
  <2>2. recvCQ'[j][x][p - (r + m) - ((d + z) - m)] = recvCQ[j][x][p - r - d]
    BY <1>5, <2>1
  <2> QED BY <1>7, <1>8, <1>12, <2>1, <2>2
<1> QED BY <1>9, <1>10, <1>11, <1>12

\* Where buffer q of those posted and not polled is among those of the
\* connection: behind the posted ones come d fragments and z polled ones.
LEMMA PendingPlace ==
  ASSUME NEW r \in Nat, NEW d \in Nat, NEW c \in Nat, NEW z \in 0 .. c, NEW q \in 1 .. r + (c - z)
  PROVE  /\ q <= r => q \in 1 .. r + c + d
         /\ ~(q <= r) => /\ q - r \in 1 .. c - z /\ q + d + z \in 1 .. r + c + d
                         /\ ~(q + d + z <= r) /\ ~(q + d + z <= r + d)
                         /\ (q + d + z) - r - d = (q - r) + z
OBVIOUS

\* How many buffers of a connection are posted, wait to be built, are received.
Sizes(j, x, r, d, c) ==
    r = Len(recvPosted[j][x]) /\ d = Len(dataVect[j][x]) /\ c = Len(recvCQ[j][x])

\* The buffers that are posted or received and not polled.
LEMMA PendingRecvBufs ==
  ASSUME TypeOK, CreditsKept, NEW j \in Nodes, NEW x \in Nodes,
         NEW r \in Nat, NEW d \in Nat, NEW c \in Nat, NEW z \in 0 .. c, Sizes(j, x, r, d, c)
  PROVE  /\ PendingRecv(j, x, z) \in Seq(0 .. Credits - 1)
         /\ Len(PendingRecv(j, x, z)) = r + (c - z)
         /\ \A q \in 1 .. r + (c - z) :
              PendingRecv(j, x, z)[q] = Bufs(j, x)[IF q <= r THEN q ELSE q + d + z]
<1> DEFINE posted == recvPosted[j][x]
           u == NotPolled(recvCQ[j][x], z)
           t == [p \in 1 .. c - z |-> u[p].buf]
<1>1. r + c + d = Credits /\ Credits \in Nat
  BY NodesFacts DEF CreditsKept, Sizes
<1>1a. posted \in Seq(0 .. Credits - 1) /\ recvCQ[j][x] \in Seq(Fragment)
  BY ConnTypes
<1>2. /\ u \in Seq(Fragment) /\ Len(u) = c - z
      /\ \A p \in 1 .. c - z : u[p] = recvCQ[j][x][p + z]
  <2>1. PICK cq \in Seq(Fragment) : cq = recvCQ[j][x]
    BY <1>1a
  <2>2. z \in 0 .. Len(cq) /\ Len(cq) = c
    BY <2>1 DEF Sizes
  <2>3. /\ NotPolled(cq, z) \in Seq(Fragment) /\ Len(NotPolled(cq, z)) = Len(cq) - z
        /\ \A p \in 1 .. Len(cq) - z : NotPolled(cq, z)[p] = cq[p + z]
    BY <2>2, PollParts
  <2> QED BY <2>1, <2>2, <2>3, Zenon
<1>3. DOMAIN u = 1 .. c - z /\ \A p \in 1 .. c - z : u[p] \in Fragment
  <2> HIDE DEF u
  <2> QED BY <1>1, <1>2, SeqType
<1>4. PendingRecv(j, x, z) = posted \o t
  BY <1>3 DEF PendingRecv
<1>5. t \in Seq(0 .. Credits - 1) /\ Len(t) = c - z /\ \A p \in 1 .. c - z : t[p] = u[p].buf
  <2> HIDE DEF u
  <2>1. t \in [1 .. c - z -> 0 .. Credits - 1]
    BY <1>3 DEF Fragment
  <2>2. ASSUME NEW S, NEW k \in Nat, NEW f \in [1 .. k -> S] PROVE f \in Seq(S) /\ Len(f) = k
    BY <2>2
  <2>3. c - z \in Nat
    BY <1>1
  <2> HIDE DEF t
  <2>4. t \in Seq(0 .. Credits - 1) /\ Len(t) = c - z
    BY <2>1, <2>2, <2>3
  <2> QED BY <2>4 DEF t
<1> HIDE DEF posted, u, t
<1>6. /\ posted \o t \in Seq(0 .. Credits - 1) /\ Len(posted \o t) = Len(posted) + Len(t)
      /\ \A q \in 1 .. Len(posted) + Len(t) :
           (posted \o t)[q] = IF q <= Len(posted) THEN posted[q] ELSE t[q - Len(posted)]
  <2>1. posted \in Seq(0 .. Credits - 1) /\ t \in Seq(0 .. Credits - 1)
    BY <1>1a, <1>5
  <2> QED BY <2>1, SeqConcat
<1>7. Len(posted) = r
  BY DEF posted, Sizes
<1>8. ASSUME NEW q \in 1 .. r + (c - z)
      PROVE  (posted \o t)[q] = Bufs(j, x)[IF q <= r THEN q ELSE q + d + z]
  <2>1. CASE q <= r
    <3>1. q \in 1 .. Credits
      BY <1>1, <2>1, PendingPlace
    <3>2. (posted \o t)[q] = posted[q]
      BY <1>5, <1>6, <1>7, <2>1
    <3>3. Bufs(j, x)[q] = posted[q]
      BY <2>1, <3>1 DEF Bufs, posted, Sizes
    <3> QED BY <2>1, <3>2, <3>3
  <2>2. CASE ~(q <= r)
    <3>1. /\ q - r \in 1 .. c - z /\ q + d + z \in 1 .. Credits
          /\ ~(q + d + z <= r) /\ ~(q + d + z <= r + d)
          /\ (q + d + z) - r - d = (q - r) + z
      BY <1>1, <2>2, PendingPlace
    <3>2. (posted \o t)[q] = recvCQ[j][x][(q - r) + z].buf
      BY <1>2, <1>5, <1>6, <1>7, <2>2, <3>1
    <3>3. Bufs(j, x)[q + d + z] = recvCQ[j][x][(q - r) + z].buf
      BY <3>1 DEF Bufs, Sizes
    <3> QED BY <2>2, <3>2, <3>3
  <2> QED BY <2>1, <2>2
<1> QED BY <1>4, <1>5, <1>6, <1>7, <1>8

\* The throws of an iteration of a builder unit: only that of run itself, when
\* check_data fails, and then the fragments it looked at stay where they are.
LEMMA RunBUEnds ==
  ASSUME SafeInv, NEW j \in Nodes, NEW n \in Polls(recvCQ[j]), RunBU(j, n)
  PROVE  dead' = dead \/ (dead' = dead \cup {j} /\ Mismatch(j)')
<1> DEFINE data == DataRead(j, n)
           complete == MinWrs(data)
           m == Released(data, complete)
<1>1. TypeOK /\ CreditsKept /\ BuffersOnce
  BY DEF SafeInv, StreamInv
<1>2. ASSUME NEW x \in Nodes
      PROVE  /\ data[x] \in Seq(Fragment) /\ m \in 0 .. Credits /\ m \in 0 .. Len(data[x])
             /\ Len(data[x]) = Len(dataVect[j][x]) + n[x]
             /\ n[x] \in 0 .. Len(recvCQ[j][x])
  BY <1>1, DataReadType, BUEffect
<1>3. ASSUME NEW x \in Nodes PROVE CanPostRecv(PendingRecv(j, x, n[x]), Buffers(data[x], m))
  <2>1. PICK r \in Nat, d \in Nat, c \in Nat : Sizes(j, x, r, d, c) /\ r + c + d = Credits
    <3>1. /\ Len(recvPosted[j][x]) \in Nat /\ Len(dataVect[j][x]) \in Nat /\ Len(recvCQ[j][x]) \in Nat
          /\ Len(recvPosted[j][x]) + Len(recvCQ[j][x]) + Len(dataVect[j][x]) = Credits
      BY <1>1, ConnTypes DEF CreditsKept
    <3>2. Sizes(j, x, Len(recvPosted[j][x]), Len(dataVect[j][x]), Len(recvCQ[j][x]))
      BY DEF Sizes
    <3> QED BY <3>1, <3>2, Zenon
  <2>1a. PICK z \in 0 .. c : z = n[x]
    BY <1>2, <2>1 DEF Sizes
  <2> DEFINE pending == PendingRecv(j, x, z)
             B == Buffers(data[x], m)
  <2>2. m \in 0 .. d + z /\ r + c + d = Credits
    <3> HIDE DEF data, m
    <3> QED BY <1>2, <2>1, <2>1a DEF Sizes
  <2>3. DOMAIN B = 1 .. m /\ \A p \in 1 .. m : B[p] = data[x][p].buf
    BY DEF Buffers
  <2>4. \A p \in 1 .. d + z :
          r + p \in 1 .. Credits /\ data[x][p].buf = Bufs(j, x)[r + p]
    BY <1>1, <2>1, <2>1a, DataReadBufs DEF Sizes
  <2>5. /\ pending \in Seq(0 .. Credits - 1) /\ Len(pending) = r + (c - z)
        /\ \A q \in 1 .. r + (c - z) :
             pending[q] = Bufs(j, x)[IF q <= r THEN q ELSE q + d + z]
    BY <1>1, <2>1, PendingRecvBufs
  <2>6. EachBufferOnce(Bufs(j, x))
    BY <1>1 DEF BuffersOnce
  <2> HIDE DEF data, complete, m, B, pending
  <2>7. DOMAIN pending = 1 .. r + (c - z)
    BY <2>5, SeqType
  <2>8. ASSUME NEW p \in 1 .. m PROVE Len(pending) + p - 1 < Credits
    BY <2>2, <2>5
  <2>9. ASSUME NEW p \in 1 .. m
        PROVE  p \in 1 .. d + z /\ r + p \in 1 .. Credits /\ B[p] = Bufs(j, x)[r + p]
    <3>1. p \in 1 .. d + z
      BY <2>2
    <3> QED BY <2>3, <2>4, <3>1
  <2>10. ASSUME NEW p \in 1 .. m, NEW q \in 1 .. r + (c - z) PROVE pending[q] # B[p]
    <3>1. PICK v : v = IF q <= r THEN q ELSE q + d + z
      OBVIOUS
    <3>2. v \in 1 .. Credits /\ v # r + p
      BY <2>2, <2>9, <3>1
    <3>3. pending[q] = Bufs(j, x)[v]
      BY <2>5, <3>1
    <3> QED BY <2>6, <2>9, <3>2, <3>3, Zenon DEF EachBufferOnce
  <2>11. ASSUME NEW p \in 1 .. m, NEW q \in 1 .. p - 1 PROVE B[q] # B[p]
    <3>1. q \in 1 .. m /\ r + q # r + p
      BY <2>2
    <3> QED BY <2>6, <2>9, <3>1, Zenon DEF EachBufferOnce
  <2>12. CanPostRecv(pending, B)
    BY <2>3, <2>7, <2>8, <2>10, <2>11 DEF CanPostRecv
  <2> QED BY <2>1a, <2>12 DEF B, pending
<1>4. dead' = IF m = complete THEN dead ELSE dead \cup {j}
  BY <1>3, Zenon DEF RunBU
<1>5. ASSUME m # complete PROVE Mismatch(j)'
  <2>1. m = 0 /\ complete > 0 /\ ~check_data(data)
    <3> HIDE DEF data, complete
    <3> QED BY <1>5 DEF Released
  <2>2. ASSUME NEW x \in Nodes PROVE dataVect'[j][x] # <<>> /\ dataVect'[j][x][1] = data[x][1]
    <3>1. \A y \in Nodes : Len(data[y]) \in Nat
      <4> HIDE DEF data, m
      <4> QED BY <1>2, SeqType
    <3>2. complete \in Nat /\ complete <= Len(data[x])
      <4> HIDE DEF data
      <4> QED BY <3>1, MinWrsBound, NodesFacts
    <3>3. Len(dataVect'[j][x]) = Len(data[x]) - m /\ \A p \in 1 .. Len(data[x]) - m : dataVect'[j][x][p] = data[x][p + m]
      BY <1>1, BUEffect
    <3> HIDE DEF data, complete, m
    <3>4. Len(dataVect'[j][x]) # 0
      BY <2>1, <3>1, <3>2, <3>3
    <3>5. 1 \in 1 .. Len(data[x]) - m /\ 1 + m = 1
      BY <2>1, <3>1, <3>2
    <3>6. dataVect'[j][x][1] = data[x][1]
      BY <3>3, <3>5
    <3> QED BY <3>4, <3>6
  <2> HIDE DEF data, complete, m
  <2>3. PICK x \in Nodes : \/ HeaderOf(x, data[x][1]).id # HeaderOf(0, data[0][1]).id
                           \/ HeaderOf(x, data[x][1]).length = 0
    BY <2>1 DEF check_data
  <2> QED BY <2>2, <2>3, NodesFacts DEF Mismatch, HeaderOf, Addr
<1> QED BY <1>4, <1>5

LEMMA RunBUSafeInv ==
  ASSUME SafeInv, NEW j \in Nodes, NEW n \in Polls(recvCQ[j]), RunBU(j, n)
  PROVE  SafeInv'
<1>1. /\ StreamInv /\ SendInv /\ BuffersOnce /\ EndsOnlyByHeader
      /\ TypeOK /\ CreditsKept /\ AckedNumbered
  BY DEF SafeInv, StreamInv, SendInv
<1>2. StreamInv'
  BY <1>1, RunBUStreamInv
<1>3. /\ UNCHANGED ruVars /\ wire' = wire /\ unacked' = unacked /\ sendCQ' = sendCQ
      /\ seqPos' = seqPos /\ cycles' = cycles
  BY DEF RunBU, ruVars
<1>4. \A x, y \in Nodes : Sent(x, y)' = Sent(x, y)
  BY <1>3 DEF Sent, PosOf, FirstId
<1>5. \A x, y \in Nodes : FirstOut(x, y)' = FirstOut(x, y)
  BY <1>3, <1>4 DEF FirstOut
<1>6. CycleBounded' /\ HeldNumbered' /\ OutstandingHeld'
  BY <1>1, <1>3, <1>5, RUUnchanged
<1>7. AckedNumbered'
  <2> SUFFICES ASSUME NEW x \in Nodes, NEW y \in Nodes PROVE Acked(x, y)'
    BY DEF AckedNumbered
  <2>1. Acked(x, y) /\ Sent(x, y)' = Sent(x, y)
    BY <1>1, <1>4 DEF AckedNumbered
  <2> QED BY <1>3, <2>1 DEF Acked, Num
<1>8. BuffersOnce'
  <2> SUFFICES ASSUME NEW y \in Nodes, NEW x \in Nodes PROVE EachBufferOnce(Bufs(y, x)')
    BY DEF BuffersOnce, EachBufferOnce
  <2>1. EachBufferOnce(Bufs(y, x))
    BY <1>1 DEF BuffersOnce
  <2>2. \A p \in 1 .. Credits : Bufs(y, x)'[p] = Bufs(y, x)[p]
    <3>1. CASE y = j
      BY <1>1, <3>1, RunBUBufs
    <3>2. CASE y # j
      <4>1. /\ recvPosted'[y] = recvPosted[y] /\ recvCQ'[y] = recvCQ[y] /\ dataVect'[y] = dataVect[y]
        BY <3>2 DEF RunBU, Unbuilt
      <4>2. Bufs(y, x)' = Bufs(y, x)
        BY <4>1 DEF Bufs
      <4> QED BY <4>2
    <3> QED BY <3>1, <3>2
  <2> QED BY <2>1, <2>2 DEF EachBufferOnce
<1>9. EndsOnlyByHeader'
  <2>1. /\ j \notin dead /\ dead \subseteq Nodes
        /\ \A y \in dead : dataVect'[y] = dataVect[y] /\ recvPosted'[y] = recvPosted[y]
    BY <1>1 DEF RunBU, TypeOK
  <2>2. CASE dead' = dead
    BY <1>1, <1>3, <2>1, <2>2, EndsKept
  <2>3. CASE dead' = dead \cup {j} /\ Mismatch(j)'
    <3>1. ASSUME NEW y \in dead PROVE Mismatch(y)' <=> Mismatch(y)
      BY <2>1 DEF Mismatch, HeaderOf, Addr
    <3>2. \A x, y \in dead : Awaits(x, y)' <=> Awaits(x, y)
      BY <1>3, <2>1 DEF Awaits
    <3> QED BY <1>1, <2>1, <2>3, <3>1, <3>2 DEF EndsOnlyByHeader
  <2> QED BY <2>2, <2>3, RunBUEnds
<1> QED BY <1>2, <1>6, <1>7, <1>8, <1>9 DEF SafeInv, SendInv
-----------------------------------------------------------------------------
(* The readout unit *)

\* What unit i has posted to unit j and not polled starts with FirstOut(i, j).
LEMMA FirstOutType ==
  ASSUME TypeOK, SendInv, NEW i \in Nodes, NEW j \in Nodes
  PROVE  /\ FirstOut(i, j) \in Nat
         /\ FirstOut(i, j) + Len(wire[i][j]) + Len(unacked[i][j]) + Len(sendCQ[i][j]) = Sent(i, j)
<1> DEFINE w == Len(wire[i][j])
           u == Len(unacked[i][j])
           s == Len(sendCQ[i][j])
           S == Sent(i, j)
<1>1. w \in Nat /\ u \in Nat /\ s \in Nat /\ S \in Nat
  BY ConnTypes, UnitTypes
<1>2. w + u + s <= S
  BY DEF SendInv, AckedNumbered, Acked
<1>3. FirstOut(i, j) = S - w - u - s
  BY DEF FirstOut
<1> HIDE DEF w, u, s, S
<1>4. FirstOut(i, j) \in Nat /\ FirstOut(i, j) + w + u + s = S
  BY <1>1, <1>2, <1>3
<1> QED BY <1>4 DEF w, u, s, S

\* The completions of a connection come in the order of its multievents.
LEMMA CompletedNumbered ==
  ASSUME TypeOK, SendInv, NEW i \in Nodes, NEW j \in Nodes, NEW p \in 1 .. Len(sendCQ[i][j])
  PROVE  \E r \in Nat : /\ r = FirstOut(i, j) + p - 1 /\ sendCQ[i][j][p] = Num(r, j)
                        /\ r < Sent(i, j)
<1> DEFINE w == Len(wire[i][j])
           u == Len(unacked[i][j])
           s == Len(sendCQ[i][j])
           S == Sent(i, j)
           f == FirstOut(i, j)
<1>1. w \in Nat /\ u \in Nat /\ s \in Nat /\ S \in Nat /\ f \in Nat /\ f + w + u + s = S
  BY ConnTypes, UnitTypes, FirstOutType
<1>2. sendCQ[i][j][p] = Num(S - w - u - s + p - 1, j)
  BY DEF SendInv, AckedNumbered, Acked
<1>3. p \in 1 .. s
  OBVIOUS
<1> HIDE DEF w, u, s, S, f
<1>4. f + p - 1 \in Nat /\ f + p - 1 < S /\ S - w - u - s + p - 1 = f + p - 1
  BY <1>1, <1>3
<1>5. sendCQ[i][j][p] = Num(f + p - 1, j)
  BY <1>2, <1>4
<1> QED BY <1>4, <1>5 DEF f, S

\* All that is posted and not polled, after m more completions are polled.
LEMMA PendingNumbered ==
  ASSUME StreamInv, SendInv, NEW i \in Nodes, NEW j \in Nodes, NEW m \in 0 .. Len(sendCQ[i][j]),
         NEW p \in DOMAIN PendingSend(i, j, m)
  PROVE  \E r \in Nat : /\ r = FirstOut(i, j) + m + p - 1
                        /\ PendingSend(i, j, m)[p] = Num(r, j) /\ r < Sent(i, j)
<1> DEFINE w == Len(wire[i][j])
           u == Len(unacked[i][j])
           s == Len(sendCQ[i][j])
           S == Sent(i, j)
           f == FirstOut(i, j)
           left == NotPolled(sendCQ[i][j], m)
           U == unacked[i][j]
           W == wire[i][j]
           a == built[j] + Len(dataVect[j][i]) + Len(recvCQ[j][i])
<1>1. TypeOK
  BY DEF StreamInv
<1>2. /\ w \in Nat /\ u \in Nat /\ s \in Nat /\ S \in Nat /\ f \in Nat /\ f + w + u + s = S
      /\ a \in Nat /\ m \in 0 .. s
  <2>1. Len(dataVect[j][i]) \in Nat /\ Len(recvCQ[j][i]) \in Nat /\ built[j] \in Nat
    BY <1>1, ConnTypes
  <2>2. a \in Nat
    <3>1. PICK x \in Nat, y \in Nat, z \in Nat :
            x = built[j] /\ y = Len(dataVect[j][i]) /\ z = Len(recvCQ[j][i])
      BY <2>1, Zenon
    <3>2. x + y + z \in Nat
      OBVIOUS
    <3> QED BY <3>1, <3>2, Zenon
  <2> HIDE DEF a
  <2> QED BY <1>1, <2>2, ConnTypes, UnitTypes, FirstOutType
<1>3. /\ \A q \in 1 .. s : sendCQ[i][j][q] = Num(S - w - u - s + q - 1, j)
      /\ \A q \in 1 .. u : U[q] = Num(S - w - u + q - 1, j)
  BY DEF SendInv, AckedNumbered, Acked
<1>4. /\ a + w = S
      /\ \A q \in 1 .. w : W[q] = Num(a + q - 1, j)
  BY DEF StreamInv, StreamsNumbered, Stream
<1>5. /\ left \in Seq(Nat) /\ U \in Seq(Nat) /\ W \in Seq(Nat) /\ sendCQ[i][j] \in Seq(Nat)
      /\ Len(U) = u /\ Len(W) = w /\ Len(left) = s - m
      /\ \A q \in 1 .. s - m : left[q] = sendCQ[i][j][q + m]
  <2>1. U \in Seq(Nat) /\ W \in Seq(Nat) /\ sendCQ[i][j] \in Seq(Nat)
    BY <1>1, ConnTypes
  <2>2. /\ left \in Seq(Nat) /\ Len(left) = s - m
        /\ \A q \in 1 .. s - m : left[q] = sendCQ[i][j][q + m]
    BY <2>1, PollParts, ZenonT(30)
  <2> QED BY <2>1, <2>2
<1>6. PendingSend(i, j, m) = (left \o U) \o W
  BY DEF PendingSend
<1> HIDE DEF w, u, s, S, f, left, U, W, a
<1>7. /\ left \o U \in Seq(Nat) /\ Len(left \o U) = (s - m) + u
      /\ \A q \in 1 .. (s - m) + u : (left \o U)[q] = IF q <= s - m THEN left[q] ELSE U[q - (s - m)]
  <2>1. /\ left \o U \in Seq(Nat) /\ Len(left \o U) = Len(left) + Len(U)
        /\ \A q \in 1 .. Len(left) + Len(U) :
             (left \o U)[q] = IF q <= Len(left) THEN left[q] ELSE U[q - Len(left)]
    BY <1>5, SeqConcat
  <2> QED BY <1>5, <2>1, Zenon
<1> DEFINE V == left \o U
<1>8. V \in Seq(Nat) /\ Len(V) = (s - m) + u
  BY <1>7
<1> HIDE DEF V
<1>9. /\ Len(V \o W) = ((s - m) + u) + w
      /\ DOMAIN (V \o W) = 1 .. ((s - m) + u) + w
      /\ \A q \in 1 .. ((s - m) + u) + w :
           (V \o W)[q] = IF q <= (s - m) + u THEN V[q] ELSE W[q - ((s - m) + u)]
  <2>1. /\ V \o W \in Seq(Nat) /\ Len(V \o W) = Len(V) + Len(W)
        /\ \A q \in 1 .. Len(V) + Len(W) :
             (V \o W)[q] = IF q <= Len(V) THEN V[q] ELSE W[q - Len(V)]
    BY <1>5, <1>8, SeqConcat
  <2>2. DOMAIN (V \o W) = 1 .. Len(V \o W)
    BY <2>1, SeqType
  <2> QED BY <1>5, <1>8, <2>1, <2>2, Zenon
<1>10. PICK e \in Seq(Nat) : e = PendingSend(i, j, m) /\ DOMAIN e = 1 .. ((s - m) + u) + w
  <2>1. V \o W \in Seq(Nat)
    BY <1>5, <1>8, SeqConcat
  <2> QED BY <1>6, <1>9, <2>1, Zenon DEF V
<1>11. \A q \in 1 .. ((s - m) + u) + w :
         e[q] = IF q <= (s - m) + u THEN V[q] ELSE W[q - ((s - m) + u)]
  BY <1>6, <1>9, <1>10, Zenon DEF V
<1>12. p \in 1 .. ((s - m) + u) + w
  BY <1>10
<1>13. f + m + p - 1 \in Nat /\ f + m + p - 1 < S
  BY <1>2, <1>12
<1>14. CASE p <= s - m
  <2>1. /\ p \in 1 .. s - m /\ p \in 1 .. (s - m) + u /\ p <= (s - m) + u /\ p + m \in 1 .. s
        /\ S - w - u - s + (p + m) - 1 = f + m + p - 1
    BY <1>2, <1>12, <1>14
  <2>2. e[p] = V[p] /\ V[p] = left[p] /\ left[p] = sendCQ[i][j][p + m]
    BY <1>5, <1>7, <1>11, <1>12, <1>14, <2>1 DEF V
  <2> QED BY <1>3, <1>10, <1>13, <2>1, <2>2 DEF S, f
<1>15. CASE ~(p <= s - m) /\ p <= (s - m) + u
  <2>1. /\ p \in 1 .. (s - m) + u /\ p - (s - m) \in 1 .. u
        /\ S - w - u + (p - (s - m)) - 1 = f + m + p - 1
    BY <1>2, <1>12, <1>15
  <2>2. e[p] = V[p] /\ V[p] = U[p - (s - m)]
    BY <1>7, <1>11, <1>12, <1>15, <2>1 DEF V
  <2> QED BY <1>3, <1>10, <1>13, <2>1, <2>2 DEF S, f
<1>16. CASE ~(p <= (s - m) + u)
  <2>1. /\ p - ((s - m) + u) \in 1 .. w
        /\ a + (p - ((s - m) + u)) - 1 = f + m + p - 1
    BY <1>2, <1>4, <1>12, <1>16
  <2>2. e[p] = W[p - ((s - m) + u)]
    BY <1>11, <1>12, <1>16
  <2> QED BY <1>4, <1>10, <1>13, <2>1, <2>2 DEF S, f
<1> QED BY <1>2, <1>12, <1>14, <1>15, <1>16

\* Numbers of the window that the deque can hold have different slots.
LEMMA WindowInjective ==
  ASSUME NEW o \in Nat, NEW M \in Nat, M <= Capacity,
         NEW a \in Nat, NEW b \in Nat, o <= a, a < o + M, o <= b, b < o + M, Addr(a) = Addr(b)
  PROVE  a = b
<1>1. M < Slots /\ Slots \in Nat
  BY NodesFacts DEF Slots, Capacity
<1>2. a < b + Slots /\ b < a + Slots
  BY <1>1
<1> QED BY <1>2, AddrInjective

\* The deque once k more multievents are acquired holds the numbers from
\* Oldest(i) on, each at a different address.
Lent(i, k) == held[i] \o [p \in 1 .. k |-> Entry(Addr(NextNums(i, k)[p]))]

LEMMA LentNumbered ==
  ASSUME TypeOK, SendInv, NEW i \in Nodes, NEW k \in Nat, Len(held[i]) + k <= Capacity,
         NEW lent, lent = Lent(i, k)
  PROVE  /\ lent \in Deque(0 .. Slots - 1) /\ Oldest(i) \in Nat
         /\ Len(lent) = Len(held[i]) + k /\ Len(lent) \in Nat /\ DOMAIN lent = 1 .. Len(lent)
         /\ Acquired(i) + k = Oldest(i) + Len(lent)
         /\ \A p \in 1 .. Len(lent) : lent[p].base = Addr(Oldest(i) + p - 1)
         /\ \A p \in 1 .. Len(lent) : IsFirstAt(lent, p)
         /\ \A p \in 1 .. Len(lent) : lent[p].done <=> p <= Len(held[i]) /\ held[i][p].done
<1> DEFINE H == Len(held[i])
           A == Acquired(i)
           o == Oldest(i)
           t == [p \in 1 .. k |-> Entry(Addr(NextNums(i, k)[p]))]
<1>0. /\ held[i] \in Deque(0 .. Slots - 1)
      /\ \A p \in 1 .. H : held[i][p].base = Addr(o + p - 1)
  BY UnitTypes DEF SendInv, HeldNumbered
<1>1. /\ H \in Nat /\ A \in Nat /\ H <= A /\ o = A - H /\ H + k <= Capacity /\ k \in Nat
      /\ Capacity \in Nat
  BY UnitTypes, NodesFacts DEF SendInv, HeldNumbered, Oldest
<1>2. o \in Nat /\ A = o + H
  <2> HIDE DEF H, A, o
  <2> QED BY <1>1
<1>3. ASSUME NEW p \in 1 .. k
      PROVE  t[p] \in EntryOf(0 .. Slots - 1) /\ t[p].base = Addr(A + p - 1) /\ ~t[p].done
  <2>1. NextNums(i, k)[p] = A + p - 1
    BY DEF NextNums
  <2>2. A + p - 1 \in Nat
    <3> HIDE DEF A
    <3> QED BY <1>1
  <2>3. Addr(A + p - 1) \in 0 .. Slots - 1
    BY <2>2, AddrType
  <2>4. t[p] = Entry(Addr(A + p - 1))
    BY <2>1
  <2> HIDE DEF A, t
  <2> QED BY <2>3, <2>4 DEF Entry, EntryOf
<1>4. t \in Deque(0 .. Slots - 1) /\ Len(t) = k
  <2>1. \A p \in 1 .. k : Entry(Addr(NextNums(i, k)[p])) \in EntryOf(0 .. Slots - 1)
    BY <1>3
  <2> QED BY <2>1 DEF Deque
<1>5. lent = held[i] \o t
  BY DEF Lent
<1> HIDE DEF t
<1>6. /\ lent \in Deque(0 .. Slots - 1) /\ Len(lent) = H + k
      /\ \A p \in 1 .. H + k : lent[p] = IF p <= H THEN held[i][p] ELSE t[p - H]
  <2> DEFINE h == held[i]
  <2>1. /\ h \o t \in Seq(EntryOf(0 .. Slots - 1)) /\ Len(h \o t) = Len(h) + Len(t)
        /\ \A p \in 1 .. Len(h) + Len(t) : (h \o t)[p] = IF p <= Len(h) THEN h[p] ELSE t[p - Len(h)]
    <3>1. h \in Seq(EntryOf(0 .. Slots - 1)) /\ t \in Seq(EntryOf(0 .. Slots - 1))
      BY <1>0, <1>4 DEF Deque
    <3> HIDE DEF h
    <3> QED BY <3>1, SeqConcat
  <2> QED BY <1>4, <1>5, <2>1, Zenon DEF Deque
<1> HIDE DEF H, A, o
<1>7. DOMAIN lent = 1 .. Len(lent)
  BY <1>6, DequeElements
<1>8. A + k = o + Len(lent) /\ Len(lent) \in Nat /\ Len(lent) <= Capacity
  <2>1. Len(lent) = H + k
    BY <1>6
  <2> QED BY <1>1, <1>2, <2>1
<1>9. ASSUME NEW p \in 1 .. Len(lent)
      PROVE  /\ lent[p].base = Addr(o + p - 1)
             /\ lent[p].done <=> p <= H /\ held[i][p].done
  <2>1. p \in 1 .. H + k
    BY <1>6
  <2>2. CASE p <= H
    <3>1. p \in 1 .. H
      BY <1>1, <2>1, <2>2
    <3>2. lent[p] = held[i][p]
      BY <1>6, <2>1, <2>2
    <3> QED BY <1>0, <2>2, <3>1, <3>2
  <2>3. CASE ~(p <= H)
    <3>1. p - H \in 1 .. k /\ A + (p - H) - 1 = o + p - 1
      BY <1>1, <1>2, <2>1, <2>3
    <3>2. lent[p] = t[p - H]
      BY <1>6, <2>1, <2>3
    <3>3. lent[p].base = Addr(A + (p - H) - 1) /\ ~lent[p].done
      BY <1>3, <3>1, <3>2
    <3> QED BY <2>3, <3>1, <3>3
  <2> QED BY <2>2, <2>3
<1>10. ASSUME NEW p \in 1 .. Len(lent), NEW q \in 1 .. p - 1, lent[q].base = lent[p].base
       PROVE  FALSE
  <2>1. q \in 1 .. Len(lent) /\ p \in Nat /\ q \in Nat /\ q < p /\ p <= Len(lent)
    BY <1>8
  <2>2. Addr(o + p - 1) = Addr(o + q - 1)
    BY <1>9, <1>10, <2>1
  <2>3. /\ o + p - 1 \in Nat /\ o + q - 1 \in Nat
        /\ o <= o + p - 1 /\ o + p - 1 < o + Len(lent) /\ o <= o + q - 1 /\ o + q - 1 < o + Len(lent)
        /\ Len(lent) <= Capacity
    BY <1>1, <1>2, <1>8, <2>1
  <2>4. o + p - 1 = o + q - 1
    BY <1>2, <1>8, <2>2, <2>3, WindowInjective
  <2> QED BY <1>2, <2>1, <2>4
<1>11. \A p \in 1 .. Len(lent) : IsFirstAt(lent, p)
  BY <1>10, Zenon DEF IsFirstAt
<1> QED BY <1>2, <1>6, <1>7, <1>8, <1>9, <1>11, Zenon DEF H, A, o

\* A number of which a completion was polled is in the deque, not given back.
LEMMA CompletedOutstanding ==
  ASSUME TypeOK, SendInv, NEW i \in Nodes, NEW n \in Polls(sendCQ[i]),
         NEW y \in Nodes, NEW p \in 1 .. n[y]
  PROVE  \E r \in Nat : /\ r = FirstOut(i, y) + p - 1 /\ sendCQ[i][y][p] = Num(r, y)
                        /\ Num(r, y) \in Nat /\ Oldest(i) <= Num(r, y) /\ Num(r, y) < Acquired(i)
                        /\ Num(r, y) - Oldest(i) + 1 \in 1 .. Len(held[i])
                        /\ ~held[i][Num(r, y) - Oldest(i) + 1].done
<1>1. n[y] \in 0 .. Len(sendCQ[i][y]) /\ Len(sendCQ[i][y]) \in Nat
  <2>1. n[y] \in 0 .. Credits /\ n[y] <= Len(sendCQ[i][y])
    BY DEF Polls
  <2>2. Len(sendCQ[i][y]) \in Nat
    BY ConnTypes
  <2> QED BY <2>1, <2>2, NodesFacts
<1>2. p \in 1 .. Len(sendCQ[i][y])
  BY <1>1
<1>3. PICK r \in Nat : /\ r = FirstOut(i, y) + p - 1 /\ sendCQ[i][y][p] = Num(r, y)
                       /\ r < Sent(i, y)
  BY <1>2, CompletedNumbered
<1>4. r >= FirstOut(i, y)
  BY <1>3, FirstOutType
<1>5. Num(r, y) < Acquired(i)
  BY <1>3, SentAcquired DEF SendInv
<1>6. /\ Oldest(i) \in Nat /\ Num(r, y) \in Nat
      /\ Num(r, y) - Oldest(i) + 1 \in 1 .. Len(held[i])
      /\ ~held[i][Num(r, y) - Oldest(i) + 1].done
  BY <1>4, <1>5, OutstandingPlace
<1>7. Oldest(i) <= Num(r, y)
  BY <1>6
<1> QED BY <1>3, <1>5, <1>6, <1>7

\* The asserts of release_multievents, for what completed.
LEMMA CanMarkCompleted ==
  ASSUME TypeOK, SendInv, NEW i \in Nodes, NEW k \in Nat, Len(held[i]) + k <= Capacity,
         NEW n \in Polls(sendCQ[i]), NEW lent, lent = Lent(i, k)
  PROVE  CanMark(lent, Completed(i, n)) /\ CompletedOnce(i, n)
<1>0. /\ Oldest(i) \in Nat /\ Len(lent) = Len(held[i]) + k
      /\ Len(held[i]) \in Nat /\ Len(held[i]) <= Capacity
      /\ Acquired(i) + k = Oldest(i) + Len(lent) /\ Acquired(i) \in Nat
  BY LentNumbered, UnitTypes
<1>1. /\ DOMAIN lent = 1 .. Len(lent)
      /\ \A p \in 1 .. Len(lent) : lent[p].base = Addr(Oldest(i) + p - 1)
      /\ \A p \in 1 .. Len(lent) : IsFirstAt(lent, p)
      /\ \A p \in 1 .. Len(lent) : lent[p].done <=> p <= Len(held[i]) /\ held[i][p].done
  BY LentNumbered
<1>2. ASSUME NEW a \in Completed(i, n)
      PROVE  \E p \in DOMAIN lent : lent[p].base = a /\ IsFirstAt(lent, p) /\ ~lent[p].done
  <2>0. PICK y \in Nodes : \E p \in 1 .. n[y] : a = Addr(sendCQ[i][y][p])
    BY DEF Completed
  <2>1. PICK p \in 1 .. n[y] : a = Addr(sendCQ[i][y][p])
    BY <2>0
  <2>2. PICK r \in Nat :
          /\ sendCQ[i][y][p] = Num(r, y) /\ Num(r, y) \in Nat
          /\ Num(r, y) - Oldest(i) + 1 \in 1 .. Len(held[i])
          /\ ~held[i][Num(r, y) - Oldest(i) + 1].done
    BY CompletedOutstanding
  <2>3. PICK q \in Int : q = Num(r, y) - Oldest(i) + 1
    BY <1>0, <2>2
  <2>4. q \in 1 .. Len(lent) /\ Oldest(i) + q - 1 = Num(r, y)
    <3>1. PICK o \in Nat, x \in Nat : o = Oldest(i) /\ x = Num(r, y)
      BY <1>0, <2>2
    <3>2. q = x - o + 1 /\ q \in 1 .. Len(held[i])
      BY <2>2, <2>3, <3>1
    <3>3. o + q - 1 = x
      BY <3>2
    <3>4. q \in 1 .. Len(lent)
      BY <1>0, <3>2
    <3> QED BY <3>1, <3>3, <3>4
  <2>5. lent[q].base = a /\ IsFirstAt(lent, q) /\ ~lent[q].done
    BY <1>1, <2>1, <2>2, <2>3, <2>4
  <2> QED BY <1>1, <2>4, <2>5
<1>3. ASSUME NEW y \in Nodes, NEW z \in Nodes, NEW p \in 1 .. n[y], NEW q \in 1 .. n[z],
             Addr(sendCQ[i][y][p]) = Addr(sendCQ[i][z][q])
      PROVE  y = z /\ p = q
  <2>1. PICK r \in Nat :
          /\ r = FirstOut(i, y) + p - 1 /\ sendCQ[i][y][p] = Num(r, y)
          /\ Num(r, y) \in Nat /\ Oldest(i) <= Num(r, y) /\ Num(r, y) < Acquired(i)
    BY CompletedOutstanding
  <2>2. PICK s \in Nat :
          /\ s = FirstOut(i, z) + q - 1 /\ sendCQ[i][z][q] = Num(s, z)
          /\ Num(s, z) \in Nat /\ Oldest(i) <= Num(s, z) /\ Num(s, z) < Acquired(i)
    BY CompletedOutstanding
  <2>3. Acquired(i) = Oldest(i) + Len(held[i])
    BY <1>0
  <2>4. Num(r, y) = Num(s, z)
    <3>1. Addr(Num(r, y)) = Addr(Num(s, z))
      BY <1>3, <2>1, <2>2
    <3>2. /\ Num(r, y) < Oldest(i) + Len(held[i]) /\ Num(s, z) < Oldest(i) + Len(held[i])
          /\ Oldest(i) <= Num(r, y) /\ Oldest(i) <= Num(s, z)
      BY <2>1, <2>2, <2>3
    <3>3. Oldest(i) \in Nat /\ Len(held[i]) \in Nat /\ Len(held[i]) <= Capacity
      BY <1>0
    <3> QED BY <2>1, <2>2, <3>1, <3>2, <3>3, WindowInjective
  <2>5. r = s /\ y = z
    BY <2>4, NumInjective
  <2> QED BY <2>1, <2>2, <2>5, FirstOutType
<1> QED BY <1>2, <1>3, Zenon DEF CanMark, CompletedOnce

\* What remains to get back is in the deque and does not complete now.
LEMMA RemainsOutstanding ==
  ASSUME TypeOK, SendInv, NEW i \in Nodes, NEW k \in Nat, Len(held[i]) + k <= Capacity,
         NEW n \in Polls(sendCQ[i]), NEW lent, lent = Lent(i, k),
         NEW y \in Nodes, NEW r \in Nat, r >= FirstOut(i, y) + n[y], Num(r, y) < Acquired(i) + k
  PROVE  /\ Num(r, y) \in Nat /\ Oldest(i) <= Num(r, y)
         /\ Num(r, y) - Oldest(i) + 1 \in 1 .. Len(lent)
         /\ ~lent[Num(r, y) - Oldest(i) + 1].done
         /\ lent[Num(r, y) - Oldest(i) + 1].base \notin Completed(i, n)
<1>0. /\ Oldest(i) \in Nat /\ Len(lent) = Len(held[i]) + k
      /\ Len(held[i]) \in Nat /\ Len(held[i]) <= Capacity
      /\ Acquired(i) + k = Oldest(i) + Len(lent) /\ Acquired(i) \in Nat
      /\ Len(lent) \in Nat /\ Len(lent) <= Capacity
  <2>1. /\ Oldest(i) \in Nat /\ Len(lent) = Len(held[i]) + k /\ Len(lent) \in Nat
        /\ Acquired(i) + k = Oldest(i) + Len(lent)
    BY LentNumbered
  <2>2. Len(held[i]) \in Nat /\ Len(held[i]) <= Capacity /\ Acquired(i) \in Nat
    BY UnitTypes
  <2> QED BY <2>1, <2>2
<1>1. /\ \A p \in 1 .. Len(lent) : lent[p].base = Addr(Oldest(i) + p - 1)
      /\ \A p \in 1 .. Len(lent) : lent[p].done <=> p <= Len(held[i]) /\ held[i][p].done
  <2>1. \A p \in 1 .. Len(lent) : lent[p].base = Addr(Oldest(i) + p - 1)
    BY LentNumbered
  <2>2. \A p \in 1 .. Len(lent) : lent[p].done <=> p <= Len(held[i]) /\ held[i][p].done
    BY LentNumbered
  <2> QED BY <2>1, <2>2
<1>2. FirstOut(i, y) \in Nat /\ n[y] \in Nat
  BY FirstOutType DEF Polls
<1>3. PICK x \in Nat : x = Num(r, y)
  BY NumType, NodesFacts
<1>4. r >= FirstOut(i, y)
  BY <1>2
<1>5. x < Acquired(i) => /\ Oldest(i) <= x /\ x - Oldest(i) + 1 \in 1 .. Len(held[i])
                         /\ ~held[i][x - Oldest(i) + 1].done
  <2> SUFFICES ASSUME x < Acquired(i)
               PROVE  /\ Oldest(i) <= x /\ x - Oldest(i) + 1 \in 1 .. Len(held[i])
                      /\ ~held[i][x - Oldest(i) + 1].done
    OBVIOUS
  <2>1. /\ x - Oldest(i) + 1 \in 1 .. Len(held[i])
        /\ ~held[i][x - Oldest(i) + 1].done
    BY <1>3, <1>4, OutstandingPlace
  <2> QED BY <1>0, <2>1
<1>6. Oldest(i) <= x
  BY <1>0, <1>5
<1>7. PICK p \in Int : p = x - Oldest(i) + 1
  BY <1>0
<1>8. p \in 1 .. Len(lent) /\ Oldest(i) + p - 1 = x
  BY <1>0, <1>3, <1>6, <1>7
<1>9. ~lent[p].done
  <2>1. CASE x < Acquired(i)
    BY <1>1, <1>5, <1>7, <1>8, <2>1
  <2>2. CASE ~(x < Acquired(i))
    <3>1. ~(p <= Len(held[i]))
      BY <1>0, <1>7, <2>2
    <3> QED BY <1>1, <1>8, <3>1
  <2> QED BY <2>1, <2>2
<1>10. ASSUME lent[p].base \in Completed(i, n) PROVE FALSE
  <2>1. PICK z \in Nodes : \E q \in 1 .. n[z] : Addr(x) = Addr(sendCQ[i][z][q])
    BY <1>1, <1>8, <1>10 DEF Completed
  <2>2. PICK q \in 1 .. n[z] : Addr(x) = Addr(sendCQ[i][z][q])
    BY <2>1
  <2>3. PICK s \in Nat :
          /\ s = FirstOut(i, z) + q - 1 /\ sendCQ[i][z][q] = Num(s, z)
          /\ Num(s, z) \in Nat /\ Oldest(i) <= Num(s, z) /\ Num(s, z) < Acquired(i)
    BY CompletedOutstanding
  <2>4. x = Num(s, z)
    <3>1. Addr(x) = Addr(Num(s, z))
      BY <2>2, <2>3
    <3>2. /\ x < Oldest(i) + Len(lent) /\ Num(s, z) < Oldest(i) + Len(lent)
          /\ Oldest(i) <= x /\ Oldest(i) <= Num(s, z)
      BY <1>0, <1>3, <1>6, <2>3
    <3>3. Oldest(i) \in Nat /\ Len(lent) \in Nat /\ Len(lent) <= Capacity
      BY <1>0
    <3> QED BY <1>3, <2>3, <3>1, <3>2, <3>3, WindowInjective
  <2>5. r = s /\ y = z
    <3>1. Num(r, y) = Num(s, z)
      BY <1>3, <2>4
    <3> QED BY <3>1, NumInjective
  <2>6. q <= n[y] /\ s < FirstOut(i, y) + n[y]
    BY <1>2, <2>3, <2>5
  <2> QED BY <1>2, <2>5, <2>6
<1> QED BY <1>3, <1>6, <1>7, <1>8, <1>9, <1>10

\* What unit i may send, and whether it does.
Iovs(i, k) == iovToSend[i] \o NextNums(i, k)
Sends(i, k, n) ==
    AvailableSend(PendingSend(i, SeqId(i), n[SeqId(i)])) /\ Len(Iovs(i, k)) > SeqId(i)
Last(i) == seqPos[i] = NumNodes - 1

\* The cycle of a unit after its acquire loop.
LEMMA CycleNext ==
  ASSUME TypeOK, IovNumbered, CycleBounded, NEW i \in Nodes, NEW k \in 0 .. NumNodes, CanAcquire(i, k)
  PROVE  /\ k \in Nat /\ Len(held[i]) + k <= Capacity
         /\ SeqId(i) \in Nodes /\ PosOf(i, SeqId(i)) = seqPos[i]
         /\ Sent(i, SeqId(i)) = cycles[i]
         /\ Iovs(i, k) \in Seq(Nat) /\ Len(Iovs(i, k)) = Len(iovToSend[i]) + k
         /\ Len(Iovs(i, k)) \in Nat /\ Len(Iovs(i, k)) <= NumNodes
         /\ Acquired(i) + k = Num(cycles[i], Len(Iovs(i, k)))
         /\ \A p \in 1 .. Len(Iovs(i, k)) : Iovs(i, k)[p] = Num(cycles[i], p - 1)
         /\ Len(Iovs(i, k)) > SeqId(i) /\ Last(i) => Len(Iovs(i, k)) = NumNodes
<1> DEFINE L == Len(iovToSend[i])
           j == SeqId(i)
           c == cycles[i]
<1>1. k \in Nat /\ L \in Nat /\ c \in Nat /\ seqPos[i] \in 0 .. NumNodes - 1 /\ Len(held[i]) + k <= Capacity
  BY UnitTypes, NodesFacts DEF CanAcquire
<1>2. j \in Nodes /\ PosOf(i, j) = seqPos[i]
  BY <1>1, IdSequencePermutes DEF SeqId
<1>3. Sent(i, j) = c
  BY <1>1, <1>2 DEF Sent
<1>4. /\ Iovs(i, k) \in Seq(Nat) /\ Len(Iovs(i, k)) = L + k
      /\ \A p \in 1 .. L + k : Iovs(i, k)[p] = Num(c, p - 1)
  BY <1>1, IovsNumbered DEF Iovs
<1>5. /\ L <= NumNodes /\ (k > 0 => L + k <= j + 1)
      /\ \A y \in Nodes : PosOf(i, y) < seqPos[i] => y < L
  BY DEF CycleBounded, CanAcquire
<1> HIDE DEF L, j, c
<1>6. L + k \in Nat /\ L + k <= NumNodes
  <2>1. j <= NumNodes - 1 /\ j \in Nat /\ NumNodes \in Nat
    BY <1>2, NodesFacts DEF Nodes
  <2> QED BY <1>1, <1>5, <2>1
<1>7. Acquired(i) + k = Num(c, L + k)
  <2>1. Acquired(i) = Num(c, L)
    BY DEF Acquired, L, c
  <2> QED BY <1>1, <2>1, NumShift
<1>8. ASSUME L + k > j, Last(i) PROVE L + k = NumNodes
  <2>1. NumNodes - 1 \in Nodes /\ NumNodes \in Nat /\ j \in Nat
    BY <1>2, NodesFacts DEF Nodes
  <2>2. PICK y \in Nodes : y = NumNodes - 1
    BY <2>1
  <2>3. PosOf(i, y) \in 0 .. NumNodes - 1 /\ (PosOf(i, y) = seqPos[i] => y = j)
    <3>1. j = IdSequence(i)[seqPos[i]]
      BY DEF SeqId, j
    <3> QED BY <1>1, <3>1, IdSequencePermutes
  <2>4. seqPos[i] = NumNodes - 1
    BY <1>8 DEF Last
  <2>5. y < L \/ y = j
    <3>1. PosOf(i, y) < seqPos[i] \/ PosOf(i, y) = seqPos[i]
      BY <2>1, <2>3, <2>4
    <3> QED BY <1>5, <2>3, <3>1
  <2> QED BY <1>1, <1>6, <1>8, <2>1, <2>2, <2>5
<1> QED BY <1>1, <1>2, <1>3, <1>4, <1>6, <1>7, <1>8 DEF L, j, c

\* What an iteration of unit i does to its own state and its connections.
LEMMA RUEffect ==
  ASSUME TypeOK, NEW i \in Nodes, NEW k \in 0 .. NumNodes, NEW n \in Polls(sendCQ[i]), RunRU(i, k, n),
         NEW j \in Nodes, j = SeqId(i)
  PROVE  /\ CanAcquire(i, k) /\ UNCHANGED <<unacked, recvPosted, recvCQ, buVars>>
         /\ \A x \in Nodes : x # i => /\ seqPos'[x] = seqPos[x] /\ cycles'[x] = cycles[x]
                                      /\ iovToSend'[x] = iovToSend[x] /\ held'[x] = held[x]
                                      /\ wire'[x] = wire[x] /\ sendCQ'[x] = sendCQ[x]
         /\ held'[i] = DropReleased(Mark(Lent(i, k), Completed(i, n)))
         /\ \A y \in Nodes : sendCQ'[i][y] = NotPolled(sendCQ[i][y], n[y])
         /\ seqPos'[i] = IF Sends(i, k, n) THEN IF Last(i) THEN 0 ELSE seqPos[i] + 1 ELSE seqPos[i]
         /\ cycles'[i] = IF Sends(i, k, n) /\ Last(i) THEN cycles[i] + 1 ELSE cycles[i]
         /\ iovToSend'[i] = IF Sends(i, k, n) /\ Last(i) THEN <<>> ELSE Iovs(i, k)
         /\ \A y \in Nodes :
              Len(wire'[i][y]) = IF Sends(i, k, n) /\ y = j THEN Len(wire[i][y]) + 1 ELSE Len(wire[i][y])
<1>1. /\ DOMAIN seqPos = Nodes /\ DOMAIN cycles = Nodes /\ DOMAIN iovToSend = Nodes
      /\ DOMAIN held = Nodes /\ DOMAIN wire = Nodes /\ DOMAIN sendCQ = Nodes
  BY DEF TypeOK
<1> DEFINE h == DropReleased(Mark(Lent(i, k), Completed(i, n)))
           c == [y \in Nodes |-> NotPolled(sendCQ[i][y], n[y])]
           e == ToSend(i, Iovs(i, k))
           W == Append(wire[i][j], e)
           iovs == Iovs(i, k)
<1>2. /\ CanAcquire(i, k) /\ UNCHANGED <<unacked, recvPosted, recvCQ, buVars>>
      /\ held' = [held EXCEPT ![i] = h] /\ sendCQ' = [sendCQ EXCEPT ![i] = c]
  BY DEF RunRU, Lent
<1>3. \/ /\ Sends(i, k, n)
         /\ wire' = [wire EXCEPT ![i][j] = W]
         /\ seqPos' = [seqPos EXCEPT ![i] = IF Last(i) THEN 0 ELSE seqPos[i] + 1]
         /\ iovToSend' = [iovToSend EXCEPT ![i] = IF Last(i) THEN <<>> ELSE iovs]
         /\ cycles' = [cycles EXCEPT ![i] = IF Last(i) THEN cycles[i] + 1 ELSE cycles[i]]
      \/ /\ ~Sends(i, k, n)
         /\ iovToSend' = [iovToSend EXCEPT ![i] = iovs]
         /\ UNCHANGED <<wire, seqPos, cycles>>
  BY DEF RunRU, Sends, Last, Iovs
<1>4. \A y \in Nodes : c[y] = NotPolled(sendCQ[i][y], n[y])
  OBVIOUS
<1>5. Len(W) = Len(wire[i][j]) + 1
  <2>1. wire[i][j] \in Seq(Nat)
    BY ConnTypes
  <2> HIDE DEF e
  <2> QED BY <2>1
<1> HIDE DEF h, c, e, W, iovs
<1>6. /\ \A x \in Nodes : x # i => held'[x] = held[x] /\ sendCQ'[x] = sendCQ[x]
      /\ held'[i] = h /\ sendCQ'[i] = c
  BY <1>1, <1>2
<1>7. /\ held'[i] = DropReleased(Mark(Lent(i, k), Completed(i, n)))
      /\ \A y \in Nodes : sendCQ'[i][y] = NotPolled(sendCQ[i][y], n[y])
  BY <1>4, <1>6, Zenon DEF h
<1>8. CASE Sends(i, k, n)
  <2> DEFINE s2 == IF Last(i) THEN 0 ELSE seqPos[i] + 1
             i2 == IF Last(i) THEN <<>> ELSE iovs
             c2 == IF Last(i) THEN cycles[i] + 1 ELSE cycles[i]
  <2>1. /\ wire' = [wire EXCEPT ![i][j] = W] /\ seqPos' = [seqPos EXCEPT ![i] = s2]
        /\ iovToSend' = [iovToSend EXCEPT ![i] = i2] /\ cycles' = [cycles EXCEPT ![i] = c2]
    BY <1>3, <1>8
  <2> HIDE DEF s2, i2, c2
  <2>2. /\ \A x \in Nodes : x # i => /\ seqPos'[x] = seqPos[x] /\ cycles'[x] = cycles[x]
                                     /\ iovToSend'[x] = iovToSend[x] /\ wire'[x] = wire[x]
        /\ seqPos'[i] = s2 /\ iovToSend'[i] = i2 /\ cycles'[i] = c2
    BY <1>1, <2>1
  <2>3. /\ seqPos'[i] = IF Last(i) THEN 0 ELSE seqPos[i] + 1
        /\ cycles'[i] = IF Last(i) THEN cycles[i] + 1 ELSE cycles[i]
        /\ iovToSend'[i] = IF Last(i) THEN <<>> ELSE Iovs(i, k)
    BY <2>2, Zenon DEF s2, i2, c2, iovs
  <2>4. \A y \in Nodes : wire'[i][y] = IF y = j THEN W ELSE wire[i][y]
    <3>1. wire \in [Nodes -> [Nodes -> Seq(Nat)]]
      BY DEF TypeOK
    <3> QED BY <2>1, <3>1
  <2>5. \A y \in Nodes : Len(wire'[i][y]) = IF y = j THEN Len(wire[i][y]) + 1 ELSE Len(wire[i][y])
    BY <1>5, <2>4, Zenon
  <2> QED BY <1>2, <1>6, <1>7, <1>8, <2>2, <2>3, <2>5, Zenon
<1>9. CASE ~Sends(i, k, n)
  <2>1. iovToSend' = [iovToSend EXCEPT ![i] = iovs] /\ wire' = wire /\ seqPos' = seqPos /\ cycles' = cycles
    BY <1>3, <1>9
  <2>2. /\ \A x \in Nodes : x # i => iovToSend'[x] = iovToSend[x]
        /\ iovToSend'[i] = iovs
    BY <1>1, <2>1
  <2>3. iovToSend'[i] = Iovs(i, k)
    BY <2>2 DEF iovs
  <2> QED BY <1>2, <1>6, <1>7, <1>9, <2>1, <2>2, <2>3, Zenon
<1> QED BY <1>8, <1>9

\* The asserts and the throws of an iteration of a readout unit.
LEMMA RunRUNoFailure ==
  ASSUME SafeInv, NEW i \in Nodes, NEW k \in 0 .. NumNodes, NEW n \in Polls(sendCQ[i]), RunRU(i, k, n)
  PROVE  dead' = dead
<1> DEFINE j == SeqId(i)
           lent == Lent(i, k)
           iovs == Iovs(i, k)
           pending == PendingSend(i, j, n[j])
<1>1. /\ TypeOK /\ StreamInv /\ SendInv /\ IovNumbered /\ CycleBounded /\ CanAcquire(i, k)
  BY DEF SafeInv, StreamInv, SendInv, RunRU
<1>2. /\ k \in Nat /\ Len(held[i]) + k <= Capacity /\ j \in Nodes /\ Sent(i, j) = cycles[i]
      /\ Len(iovs) \in Nat
      /\ Acquired(i) + k = Num(cycles[i], Len(iovs))
      /\ \A p \in 1 .. Len(iovs) : iovs[p] = Num(cycles[i], p - 1)
      /\ Len(iovs) > j /\ Last(i) => Len(iovs) = NumNodes
  BY <1>1, CycleNext
<1>3. CanMark(lent, Completed(i, n)) /\ CompletedOnce(i, n)
  BY <1>1, <1>2, CanMarkCompleted
<1>4. ASSUME Sends(i, k, n) PROVE ~AddressPending(pending, Addr(ToSend(i, iovs)))
  <2>1. Len(iovs) > j /\ j \in Nat /\ cycles[i] \in Nat
    BY <1>1, <1>2, <1>4, UnitTypes, NodesFacts DEF Sends
  <2>2. ToSend(i, iovs) = Num(cycles[i], j) /\ Num(cycles[i], j) < Acquired(i) + k
    <3>1. j + 1 \in 1 .. Len(iovs) /\ (j + 1) - 1 = j
      BY <1>2, <2>1
    <3>2. iovs[j + 1] = Num(cycles[i], (j + 1) - 1)
      BY <1>2, <3>1
    <3>3. Num(cycles[i], j) < Num(cycles[i], Len(iovs))
      <4>1. PICK L \in Nat : L = Len(iovs)
        BY <1>2
      <4>2. cycles[i] * NumNodes \in Nat /\ j < L
        BY <2>1, <4>1, NodesFacts
      <4> QED BY <2>1, <4>1, <4>2 DEF Num
    <3> QED BY <1>2, <3>1, <3>2, <3>3 DEF ToSend
  <2>3. PICK o \in Nat, M \in Nat :
          /\ o = Oldest(i) /\ M = Len(held[i]) + k /\ Acquired(i) + k = o + M /\ M <= Capacity
          /\ Acquired(i) \in Nat /\ o <= Acquired(i)
    <3>1. /\ Oldest(i) \in Nat /\ Len(lent) = Len(held[i]) + k /\ Len(lent) \in Nat
          /\ Acquired(i) + k = Oldest(i) + Len(lent)
      <4>1. PICK l : l = lent
        OBVIOUS
      <4> HIDE DEF lent, j, iovs, pending
      <4>2. l = Lent(i, k)
        BY <4>1 DEF lent
      <4>3. /\ Oldest(i) \in Nat /\ Len(l) = Len(held[i]) + k /\ Len(l) \in Nat
            /\ Acquired(i) + k = Oldest(i) + Len(l)
        BY <1>1, <1>2, <4>2, LentNumbered
      <4> QED BY <4>1, <4>3, Zenon
    <3>2. Len(held[i]) \in Nat /\ Acquired(i) \in Nat
      BY <1>1, UnitTypes
    <3> HIDE DEF lent
    <3> QED BY <1>2, <3>1, <3>2
  <2>4. FirstOut(i, j) \in Nat /\ FirstOut(i, j) <= cycles[i]
    <3>1. /\ Len(wire[i][j]) \in Nat /\ Len(unacked[i][j]) \in Nat /\ Len(sendCQ[i][j]) \in Nat
          /\ FirstOut(i, j) \in Nat
          /\ FirstOut(i, j) + Len(wire[i][j]) + Len(unacked[i][j]) + Len(sendCQ[i][j]) = cycles[i]
      <4> HIDE DEF j, lent, iovs, pending
      <4> QED BY <1>1, <1>2, ConnTypes, FirstOutType
    <3>2. PICK a \in Nat, b \in Nat, c \in Nat :
            a = Len(wire[i][j]) /\ b = Len(unacked[i][j]) /\ c = Len(sendCQ[i][j])
      BY <3>1, Zenon
    <3>3. PICK f \in Nat : f = FirstOut(i, j)
      BY <3>1, Zenon
    <3>4. PICK S \in Nat : S = cycles[i]
      BY <2>1, Zenon
    <3>5. f + a + b + c = S
      BY <3>1, <3>2, <3>3, <3>4, Zenon
    <3>6. f <= S
      BY <3>5
    <3> QED BY <3>3, <3>4, <3>6
  <2>5. ASSUME NEW r \in Nat, r >= FirstOut(i, j), Num(r, j) < Acquired(i) + k
        PROVE  Num(r, j) \in Nat /\ o <= Num(r, j) /\ Num(r, j) < o + M
    <3>1. Num(r, j) \in Nat
      BY <2>1, NumType
    <3>2. Num(r, j) < Acquired(i) => o <= Num(r, j)
      BY <1>1, <1>2, <2>3, <2>5 DEF SendInv, OutstandingHeld
    <3> QED BY <2>3, <2>5, <3>1, <3>2
  <2>6. n[j] \in 0 .. Len(sendCQ[i][j]) /\ n[j] \in Nat
    <3>1. Len(sendCQ[i][j]) \in Nat /\ n[j] \in 0 .. Credits /\ n[j] <= Len(sendCQ[i][j])
      BY <1>1, <1>2, ConnTypes DEF Polls
    <3> QED BY <3>1, NodesFacts
  <2>7. ASSUME NEW p \in DOMAIN pending, Addr(pending[p]) = Addr(Num(cycles[i], j)) PROVE FALSE
    <3>1. PICK r \in Nat : r = FirstOut(i, j) + n[j] + p - 1 /\ pending[p] = Num(r, j) /\ r < cycles[i]
      BY <1>1, <1>2, <2>6, PendingNumbered
    <3>2. p \in Nat \ {0}
      <4>1. pending \in Seq(Nat)
        <5>1. wire[i][j] \in Seq(Nat) /\ unacked[i][j] \in Seq(Nat) /\ sendCQ[i][j] \in Seq(Nat)
          BY <1>1, <1>2, ConnTypes
        <5>2. NotPolled(sendCQ[i][j], n[j]) \in Seq(Nat)
          BY <2>6, <5>1, PollParts
        <5> QED BY <5>1, <5>2, SeqConcat DEF PendingSend
      <4> HIDE DEF pending
      <4> QED BY <4>1, SeqType
    <3>3. r >= FirstOut(i, j)
      BY <2>4, <2>6, <3>1, <3>2
    <3>4. Num(r, j) < Num(cycles[i], j)
      BY <1>2, <2>1, <3>1, NumLess
    <3>5. Num(r, j) < Acquired(i) + k
      <4>1. PICK x \in Nat, y \in Nat : x = Num(r, j) /\ y = Num(cycles[i], j)
        BY <2>1, NumType
      <4>2. PICK z \in Nat : z = Acquired(i) + k
        BY <1>2, <2>3
      <4>3. x < y /\ y < z
        BY <2>2, <3>4, <4>1, <4>2
      <4> QED BY <4>1, <4>2, <4>3
    <3>6. Num(r, j) = Num(cycles[i], j)
      <4>1. Addr(Num(r, j)) = Addr(Num(cycles[i], j))
        BY <2>7, <3>1
      <4>2. Num(r, j) \in Nat /\ o <= Num(r, j) /\ Num(r, j) < o + M
        BY <2>5, <3>3, <3>5
      <4>3. Num(cycles[i], j) \in Nat /\ o <= Num(cycles[i], j) /\ Num(cycles[i], j) < o + M
        BY <2>1, <2>2, <2>4, <2>5
      <4> QED BY <2>3, <4>1, <4>2, <4>3, WindowInjective
    <3>7. PICK x \in Nat : x = Num(r, j)
      BY <2>1, NumType
    <3>8. x < x
      BY <3>4, <3>6, <3>7
    <3> QED BY <3>8
  <2> QED BY <2>2, <2>7, Zenon DEF AddressPending
<1>5. Sends(i, k, n) => Len(iovs) > j
  BY DEF Sends
<1>6. dead' = IF /\ CanMark(lent, Completed(i, n)) /\ CompletedOnce(i, n)
                 /\ Sends(i, k, n) => /\ ~AddressPending(pending, Addr(ToSend(i, iovs)))
                                      /\ Last(i) => Len(iovs) = NumNodes
                THEN dead ELSE dead \cup {i}
  BY DEF RunRU, Sends, Last, Iovs, Lent
<1> QED BY <1>2, <1>3, <1>4, <1>5, <1>6, Zenon

\* What is left of the deque once those of `bases' are given back.
Rest(lent, bases) == DropReleased(Mark(lent, bases))

\* The deque has the multievents from number o on.
NumberedFrom(deque, o) == \A p \in 1 .. Len(deque) : deque[p].base = Addr(o + p - 1)

\* It is the deque without some first part, and that was all given back.
LEMMA HeldDrops ==
  ASSUME NEW lent \in Deque(0 .. Slots - 1), NEW o \in Nat, NumberedFrom(lent, o),
         NEW bases, NEW h, h = Rest(lent, bases)
  PROVE  \E q \in Nat :
           /\ q <= Len(lent) /\ Len(h) = Len(lent) - q /\ Len(h) \in Nat
           /\ NumberedFrom(h, o + q)
           /\ \A p \in 1 .. Len(lent) :
                ~lent[p].done /\ lent[p].base \notin bases =>
                  p > q /\ p - q \in 1 .. Len(h) /\ ~h[p - q].done
<1> DEFINE marked == Mark(lent, bases)
           q == ReleasableCount(marked)
           M == Len(lent)
<1>1. /\ lent \in Deque(0 .. Slots - 1) /\ o \in Nat /\ M \in Nat
      /\ \A p \in 1 .. M : lent[p].base = Addr(o + p - 1)
  BY DequeElements DEF NumberedFrom
<1>2. /\ marked \in Deque(0 .. Slots - 1) /\ Len(marked) = M
      /\ \A p \in 1 .. M : /\ marked[p].base = lent[p].base
                           /\ marked[p].done = (lent[p].done \/ (lent[p].base \in bases /\ IsFirstAt(lent, p)))
  BY <1>1, MarkKeeps
<1> HIDE DEF marked
<1>3. /\ q \in 0 .. Len(marked) /\ Len(DropReleased(marked)) = Len(marked) - q
      /\ \A p \in 1 .. Len(marked) - q : DropReleased(marked)[p] = marked[p + q]
      /\ \A p \in 1 .. q : marked[p].done
  BY <1>2, DropReleasedKeeps, CountExact, EntriesMarkable
<1>4. h = DropReleased(marked)
  BY DEF marked, Rest
<1>5. /\ q \in 0 .. M /\ Len(h) = M - q
      /\ \A p \in 1 .. M - q : h[p] = marked[p + q]
  BY <1>2, <1>3, <1>4, Zenon
<1> HIDE DEF q, M
<1>6. ASSUME NEW p \in 1 .. Len(h) PROVE h[p].base = Addr(o + q + p - 1)
  <2>1. p \in 1 .. M - q /\ p + q \in 1 .. M /\ o + (p + q) - 1 = o + q + p - 1
    BY <1>1, <1>5
  <2>2. h[p] = marked[p + q] /\ marked[p + q].base = lent[p + q].base
    BY <1>2, <1>5, <2>1
  <2>3. lent[p + q].base = Addr(o + (p + q) - 1)
    BY <1>1, <2>1
  <2> QED BY <2>1, <2>2, <2>3
<1>7. ASSUME NEW p \in 1 .. M, ~lent[p].done, lent[p].base \notin bases
      PROVE  p > q /\ p - q \in 1 .. Len(h) /\ ~h[p - q].done
  <2>1. ~marked[p].done
    BY <1>2, <1>7, Zenon
  <2>2. p \notin 1 .. q
    BY <1>3, <2>1, Zenon
  <2>3. p > q /\ p - q \in 1 .. M - q /\ (p - q) + q = p
    BY <1>1, <1>5, <2>2
  <2> QED BY <1>5, <2>1, <2>3
<1>8. q \in Nat /\ q <= M /\ Len(h) \in Nat
  BY <1>1, <1>5
<1>9. NumberedFrom(h, o + q)
  BY <1>6 DEF NumberedFrom
<1> QED BY <1>5, <1>7, <1>8, <1>9 DEF M

\* What an iteration of unit i does to the numbers that SendInv is about.
LEMMA RUNumbers ==
  ASSUME TypeOK, IovNumbered, SendInv,
         NEW i \in Nodes, NEW k \in 0 .. NumNodes, NEW n \in Polls(sendCQ[i]), RunRU(i, k, n),
         NEW j \in Nodes, j = SeqId(i)
  PROVE  /\ Acquired(i)' = Acquired(i) + k
         /\ \A x \in Nodes : x # i => Acquired(x)' = Acquired(x) /\ Oldest(x)' = Oldest(x)
         /\ \A y \in Nodes :
              Sent(i, y)' = IF Sends(i, k, n) /\ y = j THEN Sent(i, y) + 1 ELSE Sent(i, y)
         /\ \A x, y \in Nodes : x # i => Sent(x, y)' = Sent(x, y)
<1> DEFINE sends == Sends(i, k, n)
           last == Last(i)
           L == Len(Iovs(i, k))
           c == cycles[i]
<1>0. /\ CanAcquire(i, k)
      /\ \A x \in Nodes : x # i => /\ seqPos'[x] = seqPos[x] /\ cycles'[x] = cycles[x]
                                   /\ iovToSend'[x] = iovToSend[x] /\ held'[x] = held[x]
      /\ seqPos'[i] = IF sends THEN IF last THEN 0 ELSE seqPos[i] + 1 ELSE seqPos[i]
      /\ cycles'[i] = IF sends /\ last THEN cycles[i] + 1 ELSE cycles[i]
      /\ iovToSend'[i] = IF sends /\ last THEN <<>> ELSE Iovs(i, k)
  BY RUEffect
<1>1. /\ L \in Nat /\ c \in Nat /\ Acquired(i) + k = Num(c, L)
      /\ L > j /\ last => L = NumNodes
      /\ PosOf(i, j) = seqPos[i] /\ seqPos[i] \in 0 .. NumNodes - 1
  BY <1>0, CycleNext, UnitTypes DEF SendInv
<1>2. \A x \in Nodes : x # i => Acquired(x)' = Acquired(x) /\ Oldest(x)' = Oldest(x)
  BY <1>0 DEF Acquired, Oldest, Num
<1>3. \A x, y \in Nodes : x # i => Sent(x, y)' = Sent(x, y)
  BY <1>0 DEF Sent, PosOf, FirstId
<1>4. Acquired(i)' = Acquired(i) + k
  <2>1. Acquired(i)' = Num(cycles'[i], Len(iovToSend'[i]))
    BY DEF Acquired, Num
  <2>2. CASE sends /\ last
    <3>1. cycles'[i] = c + 1 /\ Len(iovToSend'[i]) = 0
      BY <1>0, <2>2
    <3>2. L = NumNodes
      BY <1>1, <2>2 DEF Sends
    <3> HIDE DEF L, c, sends, last
    <3>3. Num(c + 1, 0) = Num(c, NumNodes)
      BY <1>1, NodesFacts DEF Num
    <3> QED BY <1>1, <2>1, <3>1, <3>2, <3>3
  <2>3. CASE ~(sends /\ last)
    <3>1. cycles'[i] = c /\ Len(iovToSend'[i]) = L
      BY <1>0, <2>3, Zenon
    <3> QED BY <1>1, <2>1, <3>1
  <2> QED BY <2>2, <2>3
<1>5. ASSUME NEW y \in Nodes
      PROVE  Sent(i, y)' = IF sends /\ y = j THEN Sent(i, y) + 1 ELSE Sent(i, y)
  <2>1. Sent(i, y)' = IF PosOf(i, y) < seqPos'[i] THEN cycles'[i] + 1 ELSE cycles'[i]
    BY DEF Sent, PosOf, FirstId
  <2>2. /\ PosOf(i, y) \in 0 .. NumNodes - 1
        /\ PosOf(i, y) = seqPos[i] <=> y = j
        /\ NumNodes \in Nat
    <3>1. j = IdSequence(i)[seqPos[i]]
      BY DEF SeqId
    <3> HIDE DEF sends, last, L, c
    <3> QED BY <1>1, <3>1, IdSequencePermutes, NodesFacts
  <2>3. Sent(i, y) = IF PosOf(i, y) < seqPos[i] THEN c + 1 ELSE c
    BY DEF Sent
  <2>4. last <=> seqPos[i] = NumNodes - 1
    BY DEF Last
  <2> HIDE DEF sends, last, L, c
  <2>5. CASE ~sends
    BY <1>0, <2>1, <2>3, <2>5 DEF c
  <2>6. CASE sends /\ last
    BY <1>0, <1>1, <2>1, <2>2, <2>3, <2>4, <2>6 DEF c
  <2>7. CASE sends /\ ~last
    BY <1>0, <1>1, <2>1, <2>2, <2>3, <2>4, <2>7 DEF c
  <2> QED BY <2>5, <2>6, <2>7
<1> QED BY <1>2, <1>3, <1>4, <1>5

\* What unit i has to get back moves on by the completions it polled.
LEMMA RUFirstOut ==
  ASSUME TypeOK, IovNumbered, SendInv,
         NEW i \in Nodes, NEW k \in 0 .. NumNodes, NEW n \in Polls(sendCQ[i]), RunRU(i, k, n)
  PROVE  /\ \A y \in Nodes : FirstOut(i, y)' = FirstOut(i, y) + n[y] /\ n[y] \in 0 .. Len(sendCQ[i][y])
         /\ \A x, y \in Nodes : x # i => FirstOut(x, y)' = FirstOut(x, y)
<1>1. PICK j \in Nodes : j = SeqId(i)
  BY CycleNext DEF SendInv, RunRU
<1>2. /\ unacked' = unacked
      /\ \A x \in Nodes : x # i => wire'[x] = wire[x] /\ sendCQ'[x] = sendCQ[x]
      /\ \A y \in Nodes : sendCQ'[i][y] = NotPolled(sendCQ[i][y], n[y])
      /\ \A y \in Nodes :
           Len(wire'[i][y]) = IF Sends(i, k, n) /\ y = j THEN Len(wire[i][y]) + 1 ELSE Len(wire[i][y])
  BY <1>1, RUEffect
<1>3. /\ \A y \in Nodes :
           Sent(i, y)' = IF Sends(i, k, n) /\ y = j THEN Sent(i, y) + 1 ELSE Sent(i, y)
      /\ \A x, y \in Nodes : x # i => Sent(x, y)' = Sent(x, y)
  BY <1>1, RUNumbers
<1>4. ASSUME NEW y \in Nodes
      PROVE  FirstOut(i, y)' = FirstOut(i, y) + n[y] /\ n[y] \in 0 .. Len(sendCQ[i][y])
  <2> DEFINE w == Len(wire[i][y])
             u == Len(unacked[i][y])
             s == Len(sendCQ[i][y])
             S == Sent(i, y)
             w2 == Len(wire'[i][y])
             s2 == Len(sendCQ'[i][y])
             S2 == Sent(i, y)'
             m == n[y]
  <2>1. /\ sendCQ[i][y] \in Seq(Nat) /\ w \in Nat /\ u \in Nat /\ s \in Nat /\ S \in Nat
        /\ m \in 0 .. Credits /\ m <= s
    BY ConnTypes, UnitTypes DEF Polls
  <2>2. m \in 0 .. s
    <3> HIDE DEF m, s
    <3> QED BY <2>1, NodesFacts
  <2>3. s2 = s - m
    <3>1. PICK e \in Seq(Nat) : e = sendCQ[i][y]
      BY <2>1
    <3>2. m \in 0 .. Len(e)
      BY <2>2, <3>1, Zenon
    <3> HIDE DEF m
    <3>3. Len(NotPolled(e, m)) = Len(e) - m
      BY <3>2, PollParts, Zenon
    <3> QED BY <1>2, <3>1, <3>3, Zenon DEF m
  <2>4. /\ FirstOut(i, y)' = S2 - w2 - u - s2
        /\ FirstOut(i, y) = S - w - u - s
    BY <1>2 DEF FirstOut
  <2>5. \/ S2 = S + 1 /\ w2 = w + 1
        \/ S2 = S /\ w2 = w
    BY <1>2, <1>3
  <2> HIDE DEF w, u, s, S, w2, s2, S2, m
  <2>6. S2 - w2 - u - s2 = (S - w - u - s) + m
    BY <2>1, <2>2, <2>3, <2>5
  <2> QED BY <2>2, <2>4, <2>6 DEF m, s
<1>5. \A x, y \in Nodes : x # i => FirstOut(x, y)' = FirstOut(x, y)
  BY <1>2, <1>3 DEF FirstOut
<1> QED BY <1>4, <1>5

LEMMA RUCycleBounded ==
  ASSUME TypeOK, IovNumbered, SendInv,
         NEW i \in Nodes, NEW k \in 0 .. NumNodes, NEW n \in Polls(sendCQ[i]), RunRU(i, k, n)
  PROVE  CycleBounded'
<1>1. PICK j \in Nodes : j = SeqId(i)
  BY CycleNext DEF SendInv, RunRU
<1> DEFINE sends == Sends(i, k, n)
           last == Last(i)
           L == Len(Iovs(i, k))
<1>2. /\ CanAcquire(i, k)
      /\ \A x \in Nodes : x # i => seqPos'[x] = seqPos[x] /\ iovToSend'[x] = iovToSend[x]
      /\ seqPos'[i] = IF sends THEN IF last THEN 0 ELSE seqPos[i] + 1 ELSE seqPos[i]
      /\ iovToSend'[i] = IF sends /\ last THEN <<>> ELSE Iovs(i, k)
  BY <1>1, RUEffect
<1>3. /\ L \in Nat /\ L <= NumNodes /\ L = Len(iovToSend[i]) + k /\ k \in Nat
      /\ Len(iovToSend[i]) \in Nat
      /\ PosOf(i, j) = seqPos[i] /\ seqPos[i] \in 0 .. NumNodes - 1 /\ j = IdSequence(i)[seqPos[i]]
  BY <1>1, <1>2, CycleNext, UnitTypes DEF SendInv, SeqId
<1>4. \A y \in Nodes : /\ PosOf(i, y) \in 0 .. NumNodes - 1 /\ y \in Nat
                       /\ PosOf(i, y) = seqPos[i] => y = j
                       /\ PosOf(i, y) < seqPos[i] => y < Len(iovToSend[i])
  <2>1. \A y \in Nodes : PosOf(i, y) < seqPos[i] => y < Len(iovToSend[i])
    BY DEF SendInv, CycleBounded
  <2>2. \A y \in Nodes : /\ PosOf(i, y) \in 0 .. NumNodes - 1 /\ y \in Nat
                         /\ PosOf(i, y) = seqPos[i] => y = j
    <3> HIDE DEF sends, last, L
    <3>1. PICK q \in 0 .. NumNodes - 1 : q = seqPos[i] /\ j = IdSequence(i)[q]
      BY <1>3
    <3>2. \A y \in Nodes : PosOf(i, y) \in 0 .. NumNodes - 1 /\ (PosOf(i, y) = q => y = j)
      BY <3>1, IdSequencePermutes
    <3>3. Nodes \subseteq Nat
      BY NodesFacts
    <3> QED BY <3>1, <3>2, <3>3, Zenon
  <2> QED BY <2>1, <2>2
<1>5. sends => L > j
  BY <1>1 DEF Sends
<1> HIDE DEF sends, last, L
<1> SUFFICES ASSUME NEW x \in Nodes
             PROVE  /\ Len(iovToSend'[x]) <= NumNodes
                    /\ \A y \in Nodes : PosOf(x, y) < seqPos'[x] => y < Len(iovToSend'[x])
  BY DEF CycleBounded, PosOf, FirstId
<1>6. CASE x # i
  BY <1>2, <1>6 DEF SendInv, CycleBounded
<1>7. CASE x = i /\ sends /\ last
  <2>1. Len(iovToSend'[x]) = 0 /\ seqPos'[x] = 0
    BY <1>2, <1>7
  <2>2. \A y \in Nodes : ~(PosOf(x, y) < 0)
    BY <1>4, <1>7
  <2> QED BY <2>1, <2>2, NodesFacts
<1>8. CASE x = i /\ sends /\ ~last
  <2>1. Len(iovToSend'[x]) = L /\ seqPos'[x] = seqPos[i] + 1
    BY <1>2, <1>8 DEF L
  <2>2. ASSUME NEW y \in Nodes, PosOf(i, y) < seqPos[i] + 1 PROVE y < L
    <3>1. PosOf(i, y) < seqPos[i] \/ PosOf(i, y) = seqPos[i]
      BY <1>3, <1>4, <2>2
    <3> QED BY <1>3, <1>4, <1>5, <1>8, <3>1
  <2> QED BY <1>3, <1>8, <2>1, <2>2
<1>9. CASE x = i /\ ~sends
  <2>1. Len(iovToSend'[x]) = L /\ seqPos'[x] = seqPos[i]
    BY <1>2, <1>9 DEF L
  <2>2. ASSUME NEW y \in Nodes, PosOf(i, y) < seqPos[i] PROVE y < L
    BY <1>3, <1>4, <2>2
  <2> QED BY <1>3, <1>9, <2>1, <2>2
<1> QED BY <1>6, <1>7, <1>8, <1>9

LEMMA RUAckedNumbered ==
  ASSUME TypeOK, IovNumbered, SendInv,
         NEW i \in Nodes, NEW k \in 0 .. NumNodes, NEW n \in Polls(sendCQ[i]), RunRU(i, k, n)
  PROVE  AckedNumbered'
<1>1. PICK j \in Nodes : j = SeqId(i)
  BY CycleNext DEF SendInv, RunRU
<1>2. /\ unacked' = unacked
      /\ \A x \in Nodes : x # i => wire'[x] = wire[x] /\ sendCQ'[x] = sendCQ[x]
      /\ \A y \in Nodes : sendCQ'[i][y] = NotPolled(sendCQ[i][y], n[y])
      /\ \A y \in Nodes :
           Len(wire'[i][y]) = IF Sends(i, k, n) /\ y = j THEN Len(wire[i][y]) + 1 ELSE Len(wire[i][y])
  BY <1>1, RUEffect
<1>3. /\ \A y \in Nodes :
           Sent(i, y)' = IF Sends(i, k, n) /\ y = j THEN Sent(i, y) + 1 ELSE Sent(i, y)
      /\ \A x, y \in Nodes : x # i => Sent(x, y)' = Sent(x, y)
  BY <1>1, RUNumbers
<1> SUFFICES ASSUME NEW x \in Nodes, NEW y \in Nodes PROVE Acked(x, y)'
  BY DEF AckedNumbered
<1>4. Acked(x, y)
  BY DEF SendInv, AckedNumbered
<1>5. CASE x # i
  <2>1. wire'[x] = wire[x] /\ sendCQ'[x] = sendCQ[x] /\ Sent(x, y)' = Sent(x, y)
    BY <1>2, <1>3, <1>5
  <2> QED BY <1>2, <1>4, <2>1 DEF Acked, Num
<1>6. CASE x = i
  <2> DEFINE w == Len(wire[i][y])
             u == Len(unacked[i][y])
             s == Len(sendCQ[i][y])
             S == Sent(i, y)
             w2 == Len(wire'[i][y])
             s2 == Len(sendCQ'[i][y])
             S2 == Sent(i, y)'
             m == n[y]
  <2>1. /\ sendCQ[i][y] \in Seq(Nat) /\ w \in Nat /\ u \in Nat /\ s \in Nat /\ S \in Nat
        /\ m \in 0 .. s
    BY RUFirstOut, ConnTypes, UnitTypes
  <2>2. s2 = s - m /\ \A p \in 1 .. s - m : sendCQ'[i][y][p] = sendCQ[i][y][p + m]
    <3>1. PICK e \in Seq(Nat) : e = sendCQ[i][y]
      BY <2>1
    <3>2. m \in 0 .. Len(e)
      BY <2>1, <3>1, Zenon
    <3> HIDE DEF m
    <3>3. /\ Len(NotPolled(e, m)) = Len(e) - m
          /\ \A p \in 1 .. Len(e) - m : NotPolled(e, m)[p] = e[p + m]
      BY <3>2, PollParts, Zenon
    <3> QED BY <1>2, <3>1, <3>3, Zenon DEF m
  <2>3. \/ S2 = S + 1 /\ w2 = w + 1
        \/ S2 = S /\ w2 = w
    BY <1>2, <1>3
  <2>4. /\ w + u + s <= S
        /\ \A p \in 1 .. u : unacked[i][y][p] = Num(S - w - u + p - 1, y)
        /\ \A p \in 1 .. s : sendCQ[i][y][p] = Num(S - w - u - s + p - 1, y)
    BY <1>4, <1>6 DEF Acked
  <2>5. (/\ w2 + u + s2 <= S2
         /\ \A p \in 1 .. u : unacked[i][y][p] = Num(S2 - w2 - u + p - 1, y)
         /\ \A p \in 1 .. s2 : sendCQ'[i][y][p] = Num(S2 - w2 - u - s2 + p - 1, y))
        => Acked(x, y)'
    BY <1>2, <1>6 DEF Acked, Num
  <2> HIDE DEF w, u, s, S, w2, s2, S2, m
  <2>6. w2 + u + s2 <= S2
    BY <2>1, <2>2, <2>3, <2>4
  <2>7. ASSUME NEW p \in 1 .. u PROVE unacked[i][y][p] = Num(S2 - w2 - u + p - 1, y)
    <3>1. S2 - w2 = S - w
      BY <2>1, <2>3
    <3>2. S2 - w2 - u + p - 1 = S - w - u + p - 1
      BY <3>1, Zenon
    <3> QED BY <2>4, <3>2
  <2>8. ASSUME NEW p \in 1 .. s2 PROVE sendCQ'[i][y][p] = Num(S2 - w2 - u - s2 + p - 1, y)
    <3>1. p \in 1 .. s - m /\ p + m \in 1 .. s
      BY <2>1, <2>2
    <3>2. S2 - w2 = S - w
      BY <2>1, <2>3
    <3>3. S2 - w2 - u - s2 + p - 1 = S - w - u - s + (p + m) - 1
      <4>1. PICK d \in Int : d = S - w /\ d = S2 - w2
        BY <2>1, <3>2
      <4>2. d - u - s2 + p - 1 = d - u - s + (p + m) - 1
        BY <2>1, <2>2
      <4> QED BY <4>1, <4>2
    <3> QED BY <2>2, <2>4, <3>1, <3>3
  <2> QED BY <2>5, <2>6, <2>7, <2>8
<1> QED BY <1>5, <1>6

LEMMA RUHeld ==
  ASSUME TypeOK, IovNumbered, SendInv,
         NEW i \in Nodes, NEW k \in 0 .. NumNodes, NEW n \in Polls(sendCQ[i]), RunRU(i, k, n)
  PROVE  HeldNumbered' /\ OutstandingHeld'
<1>1. PICK j \in Nodes : j = SeqId(i)
  BY CycleNext DEF SendInv, RunRU
<1>2. PICK lent : lent = Lent(i, k)
  OBVIOUS
<1>3. /\ \A x \in Nodes : x # i => held'[x] = held[x]
      /\ held'[i] = DropReleased(Mark(lent, Completed(i, n)))
  BY <1>1, <1>2, RUEffect
<1>4. /\ k \in Nat /\ Len(held[i]) + k <= Capacity
      /\ Acquired(i)' = Acquired(i) + k
      /\ \A x \in Nodes : x # i => Acquired(x)' = Acquired(x) /\ Oldest(x)' = Oldest(x)
  BY <1>1, CycleNext, RUNumbers DEF SendInv, RunRU
<1>5. /\ \A y \in Nodes : FirstOut(i, y)' = FirstOut(i, y) + n[y]
      /\ \A x, y \in Nodes : x # i => FirstOut(x, y)' = FirstOut(x, y)
  BY RUFirstOut
<1> DEFINE h == held'[i]
           M == Len(lent)
           o == Oldest(i)
           A == Acquired(i)
<1>6. PICK q \in Nat :
        /\ q <= M /\ Len(h) = M - q /\ Len(h) \in Nat
        /\ NumberedFrom(h, o + q)
        /\ \A p \in 1 .. M :
             ~lent[p].done /\ lent[p].base \notin Completed(i, n) =>
               p > q /\ p - q \in 1 .. Len(h) /\ ~h[p - q].done
  <2>1. PICK B : B = Completed(i, n)
    OBVIOUS
  <2>2. h = Rest(lent, B)
    BY <1>3, <2>1, Zenon DEF Rest
  <2> HIDE DEF h, M, o, A
  <2>3. lent \in Deque(0 .. Slots - 1) /\ o \in Nat /\ NumberedFrom(lent, o)
    <3>1. /\ lent \in Deque(0 .. Slots - 1) /\ Oldest(i) \in Nat
          /\ \A p \in 1 .. Len(lent) : lent[p].base = Addr(Oldest(i) + p - 1)
      BY <1>2, <1>4, LentNumbered
    <3> QED BY <3>1, Zenon DEF o, NumberedFrom
  <2> QED BY <2>1, <2>2, <2>3, HeldDrops DEF M
<1>7. /\ M \in Nat /\ o \in Nat /\ A \in Nat /\ A + k = o + M
  BY <1>2, <1>4, LentNumbered, UnitTypes
<1>8. Oldest(i)' = o + q /\ Len(h) <= A + k
  <2>1. Oldest(i)' = (A + k) - Len(h)
    BY <1>4 DEF Oldest
  <2> HIDE DEF h, M, o, A
  <2> QED BY <1>4, <1>6, <1>7, <2>1
<1>9. HeldNumbered'
  <2> SUFFICES ASSUME NEW x \in Nodes
               PROVE  /\ Len(held'[x]) <= Acquired(x)'
                      /\ \A p \in 1 .. Len(held'[x]) : held'[x][p].base = Addr(Oldest(x)' + p - 1)
    BY DEF HeldNumbered, Addr
  <2>1. CASE x # i
    BY <1>3, <1>4, <2>1 DEF SendInv, HeldNumbered
  <2>2. CASE x = i
    <3>1. Len(h) <= Acquired(i)'
      BY <1>4, <1>8
    <3>2. \A p \in 1 .. Len(h) : h[p].base = Addr(Oldest(i)' + p - 1)
      BY <1>6, <1>8 DEF NumberedFrom
    <3> QED BY <2>2, <3>1, <3>2
  <2> QED BY <2>1, <2>2
<1>10. OutstandingHeld'
  <2> SUFFICES ASSUME NEW x \in Nodes, NEW y \in Nodes, NEW r \in Nat,
                      r >= FirstOut(x, y)', Num(r, y) < Acquired(x)'
               PROVE  /\ Num(r, y) >= Oldest(x)'
                      /\ ~held'[x][Num(r, y) - Oldest(x)' + 1].done
    BY DEF OutstandingHeld, Num
  <2>1. CASE x # i
    BY <1>3, <1>4, <1>5, <2>1 DEF SendInv, OutstandingHeld
  <2>2. CASE x = i
    <3>1. r >= FirstOut(i, y) + n[y] /\ Num(r, y) < Acquired(i) + k
      BY <1>4, <1>5, <2>2
    <3>2. /\ Num(r, y) \in Nat /\ o <= Num(r, y)
          /\ Num(r, y) - o + 1 \in 1 .. M
          /\ ~lent[Num(r, y) - o + 1].done
          /\ lent[Num(r, y) - o + 1].base \notin Completed(i, n)
      BY <1>2, <1>4, <3>1, RemainsOutstanding
    <3>3. PICK z \in Nat : z = Num(r, y)
      BY <3>2
    <3>4. PICK p \in Int : p = z - o + 1
      BY <1>7
    <3>5. p \in 1 .. M /\ ~lent[p].done /\ lent[p].base \notin Completed(i, n)
      BY <3>2, <3>3, <3>4
    <3>6. p > q /\ ~h[p - q].done
      BY <1>6, <3>5, Zenon
    <3> HIDE DEF h, M, o, A
    <3>7. z >= o + q /\ z - (o + q) + 1 = p - q
      BY <1>7, <3>4, <3>6
    <3>8. ~h[z - (o + q) + 1].done
      BY <3>6, <3>7
    <3> QED BY <1>8, <2>2, <3>3, <3>7, <3>8 DEF h
  <2> QED BY <2>1, <2>2
<1> QED BY <1>9, <1>10

LEMMA RunRUSafeInv ==
  ASSUME SafeInv, NEW i \in Nodes, NEW k \in 0 .. NumNodes, NEW n \in Polls(sendCQ[i]), RunRU(i, k, n)
  PROVE  SafeInv'
<1>1. /\ StreamInv /\ SendInv /\ BuffersOnce /\ EndsOnlyByHeader /\ TypeOK /\ IovNumbered
  BY DEF SafeInv, StreamInv
<1>2. StreamInv'
  BY <1>1, RunRUStreamInv
<1>3. CycleBounded' /\ AckedNumbered' /\ HeldNumbered' /\ OutstandingHeld'
  BY <1>1, RUCycleBounded, RUAckedNumbered, RUHeld
<1>4. BuffersOnce'
  <2>1. recvPosted' = recvPosted /\ recvCQ' = recvCQ /\ dataVect' = dataVect
    BY DEF RunRU, buVars
  <2>2. \A y, x \in Nodes : Bufs(y, x)' = Bufs(y, x)
    BY <2>1 DEF Bufs
  <2> QED BY <1>1, <2>2 DEF BuffersOnce, EachBufferOnce
<1>5. EndsOnlyByHeader'
  <2>1. /\ i \notin dead
        /\ dataVect' = dataVect /\ unacked' = unacked /\ recvPosted' = recvPosted
        /\ \A x \in Nodes : x # i => wire'[x] = wire[x]
    <3>1. wire \in [Nodes -> [Nodes -> Seq(Nat)]]
      BY <1>1 DEF TypeOK
    <3> QED BY <3>1 DEF RunRU, buVars
  <2>2. dead' = dead /\ dead \subseteq Nodes
    BY <1>1, RunRUNoFailure DEF TypeOK
  <2> QED BY <1>1, <2>1, <2>2, EndsKept
<1> QED BY <1>2, <1>3, <1>4, <1>5 DEF SafeInv, SendInv

\* Steps that change nothing but which processes ended.
LEMMA EndSafeInv ==
  ASSUME SafeInv, UNCHANGED <<ruVars, connVars, buVars>>, dead' \in SUBSET Nodes, EndsOnlyByHeader'
  PROVE  SafeInv'
<1>1. /\ UNCHANGED ruVars /\ UNCHANGED connVars /\ dataVect' = dataVect
      /\ seqPos' = seqPos /\ cycles' = cycles
  BY DEF ruVars, buVars
<1>2. StreamInv'
  BY EndStreamInv DEF SafeInv
<1>3. \A x, y \in Nodes : Sent(x, y)' = Sent(x, y)
  BY <1>1 DEF Sent, PosOf, FirstId
<1>4. wire' = wire /\ unacked' = unacked /\ sendCQ' = sendCQ /\ recvPosted' = recvPosted /\ recvCQ' = recvCQ
  BY <1>1 DEF connVars
<1>5. \A x, y \in Nodes : FirstOut(x, y)' = FirstOut(x, y) /\ Bufs(y, x)' = Bufs(y, x)
  BY <1>1, <1>3, <1>4 DEF FirstOut, Bufs
<1>6. CycleBounded' /\ HeldNumbered' /\ OutstandingHeld'
  BY <1>1, <1>5, RUUnchanged DEF SafeInv
<1>7. AckedNumbered'
  <2> SUFFICES ASSUME NEW x \in Nodes, NEW y \in Nodes PROVE Acked(x, y)'
    BY DEF AckedNumbered
  <2>1. Acked(x, y) /\ Sent(x, y)' = Sent(x, y)
    BY <1>3 DEF SafeInv, SendInv, AckedNumbered
  <2> QED BY <1>4, <2>1 DEF Acked, Num
<1>8. BuffersOnce'
  BY <1>5 DEF SafeInv, BuffersOnce, EachBufferOnce
<1> QED BY <1>2, <1>6, <1>7, <1>8 DEF SafeInv, SendInv

LEMMA ErrorSafeInv ==
  ASSUME SafeInv, NEW i \in Nodes, NEW j \in Nodes, CompletesWithError(i, j)
  PROVE  SafeInv'
<1>1. EndsOnlyByHeader /\ dead \in SUBSET Nodes
  BY DEF SafeInv, StreamInv, TypeOK
<1>2. /\ UNCHANGED <<ruVars, connVars, buVars>>
      /\ wire' = wire /\ unacked' = unacked /\ recvPosted' = recvPosted /\ dataVect' = dataVect
      /\ i \notin dead /\ j \in dead /\ dead' = dead \cup {i}
      /\ Awaits(i, j)
  BY DEF CompletesWithError, connVars, buVars
<1>3. \A x, y \in Nodes : (Mismatch(x)' <=> Mismatch(x)) /\ (Awaits(x, y)' <=> Awaits(x, y))
  BY <1>2 DEF Mismatch, HeaderOf, Addr, Awaits
<1>4. j \in dead' \ {i} /\ Awaits(i, j)'
  BY <1>2, <1>3
<1>5. ASSUME NEW x \in dead'
      PROVE  Mismatch(x)' \/ \E y \in dead' \ {x} : Awaits(x, y)'
  BY <1>1, <1>2, <1>3, <1>4, <1>5 DEF EndsOnlyByHeader
<1>6. \E x \in dead' : Mismatch(x)'
  BY <1>1, <1>2, <1>3 DEF EndsOnlyByHeader
<1>7. EndsOnlyByHeader'
  BY <1>5, <1>6 DEF EndsOnlyByHeader
<1>8. dead' \in SUBSET Nodes
  BY <1>1, <1>2
<1> QED BY <1>2, <1>7, <1>8, EndSafeInv

LEMMA StutterSafeInv == SafeInv /\ UNCHANGED vars => SafeInv'
<1> SUFFICES ASSUME SafeInv, UNCHANGED vars PROVE SafeInv'
  OBVIOUS
<1>1. /\ UNCHANGED <<ruVars, connVars, buVars>> /\ dead' = dead
      /\ wire' = wire /\ unacked' = unacked /\ recvPosted' = recvPosted /\ dataVect' = dataVect
  BY DEF vars, connVars, buVars
<1>2. EndsOnlyByHeader'
  BY <1>1, EndsKept DEF SafeInv
<1>3. dead' \in SUBSET Nodes
  BY <1>1 DEF SafeInv, StreamInv, TypeOK
<1> QED BY <1>1, <1>2, <1>3, EndSafeInv
-----------------------------------------------------------------------------
\* The inductive invariant, and with it what it says of every state.
THEOREM SafeInvariant == Spec => []SafeInv
<1>1. Init => SafeInv
  BY InitSafeInv
<1>2. SafeInv /\ [Next]_vars => SafeInv'
  <2> SUFFICES ASSUME SafeInv, [Next]_vars PROVE SafeInv'
    OBVIOUS
  <2>1. ASSUME NEW i \in Nodes, NEW k \in 0 .. NumNodes, NEW n \in Polls(sendCQ[i]), RunRU(i, k, n)
        PROVE  SafeInv'
    BY <2>1, RunRUSafeInv
  <2>2. ASSUME NEW i \in Nodes, NEW j \in Nodes, Deliver(i, j) PROVE SafeInv'
    BY <2>2, DeliverSafeInv
  <2>3. ASSUME NEW i \in Nodes, NEW j \in Nodes, Ack(i, j) PROVE SafeInv'
    BY <2>3, AckSafeInv
  <2>4. ASSUME NEW j \in Nodes, NEW n \in Polls(recvCQ[j]), RunBU(j, n) PROVE SafeInv'
    BY <2>4, RunBUSafeInv
  <2>5. ASSUME NEW i \in Nodes, NEW j \in Nodes, CompletesWithError(i, j) PROVE SafeInv'
    BY <2>5, ErrorSafeInv
  <2>6. CASE UNCHANGED vars
    BY <2>6, StutterSafeInv
  <2> QED BY <2>1, <2>2, <2>3, <2>4, <2>5, <2>6 DEF Next
<1> QED BY <1>1, <1>2, PTL DEF Spec

\* What can end a process in the two main loops: fragments whose headers do not
\* match, or a failed send to, or receive from, a process that ended, and the
\* first one always the former.  No credit is ever missing, no address or buffer pending twice, and
\* no assert false, for every number of nodes, of credits and of cycles.
THEOREM EndsByHeaders == Spec => []EndsOnlyByHeader
BY SafeInvariant, PTL DEF SafeInv

\* The oldest fragments of a builder unit are of one multievent.
LEMMA FrontNumbered ==
  ASSUME TypeOK, StreamsNumbered, NEW j \in Nodes, NEW i \in Nodes, dataVect[j][i] # <<>>
  PROVE  dataVect[j][i][1].num = Num(built[j], j)
<1>1. dataVect[j][i] \in Seq(Fragment) /\ built[j] \in Nat
  BY ConnTypes
<1>2. 1 \in 1 .. Len(dataVect[j][i])
  <2>1. ASSUME NEW s \in Seq(Fragment), s # <<>> PROVE 1 \in 1 .. Len(s)
    BY <2>1, SeqTail
  <2> QED BY <1>1, <2>1
<1>3. built[j] + 1 - 1 = built[j]
  BY <1>1
<1> QED BY <1>2, <1>3 DEF StreamsNumbered, Stream

\* If the headers of every slot match on all nodes, no process ever ends, for
\* every number of nodes, of credits and of cycles.
THEOREM NoProcessFails == Spec => []NoFailure
<1>1. SafeInv => NoFailure
  <2> SUFFICES ASSUME SafeInv, HeadersMatch, NEW j \in Nodes, Mismatch(j) PROVE FALSE
    BY DEF SafeInv, StreamInv, TypeOK, EndsOnlyByHeader, NoFailure
  <2>1. TypeOK /\ StreamsNumbered
    BY DEF SafeInv, StreamInv
  <2>2. Addr(Num(built[j], j)) \in 0 .. Slots - 1
    BY <2>1, ConnTypes, NumType, AddrType, NodesFacts
  <2>3. ASSUME NEW x \in Nodes PROVE HeaderOf(x, dataVect[j][x][1]) = Header[x][Addr(Num(built[j], j))]
    BY <2>1, FrontNumbered DEF Mismatch, HeaderOf
  <2> QED BY <2>2, <2>3 DEF Mismatch, HeadersMatch, SlotMatches
<1> QED BY <1>1, SafeInvariant, PTL

\* The first event an iteration builds is one whose headers match on all nodes,
\* for every number of nodes and of credits.
THEOREM BuildsAreChecked == Spec => CheckedBuilds
<1>1. StreamInv /\ [Next]_vars =>
        [\A j \in Nodes : built'[j] > built[j] => SlotMatches(Addr(Num(built[j], j)))]_vars
  <2> SUFFICES ASSUME StreamInv, [Next]_vars, NEW y \in Nodes, built'[y] > built[y]
               PROVE  SlotMatches(Addr(Num(built[y], y)))
    OBVIOUS
  <2>1. TypeOK /\ StreamsNumbered /\ built[y] \in Nat
    BY ConnTypes DEF StreamInv
  <2>2. built' # built
    BY <2>1
  <2>3. PICK j \in Nodes : \E n \in Polls(recvCQ[j]) : RunBU(j, n)
    BY <2>2 DEF Next, RunRU, Deliver, Ack, CompletesWithError, vars, buVars
  <2>4. PICK n \in Polls(recvCQ[j]) : RunBU(j, n)
    BY <2>3
  <2> DEFINE data == DataRead(j, n)
             complete == MinWrs(data)
             m == Released(data, complete)
  <2>5. built' = [built EXCEPT ![j] = @ + m]
    BY <2>4 DEF RunBU
  <2>6. /\ m \in 0 .. Credits
        /\ \A x \in Nodes : data[x] \in Seq(Fragment) /\ m \in 0 .. Len(data[x])
    BY <2>1, <2>4, BUEffect, DataReadType
  <2> HIDE DEF m
  <2>7. y = j /\ m # 0
    <3>1. built \in [Nodes -> Nat] /\ m \in Nat
      BY <2>1, <2>6, NodesFacts DEF TypeOK
    <3>2. built'[y] = IF y = j THEN built[y] + m ELSE built[y]
      BY <2>5, <3>1
    <3> QED BY <2>1, <3>1, <3>2
  <2>8. check_data(data)
    <3> HIDE DEF data
    <3>1. \A x \in Nodes : Len(data[x]) \in Nat
      BY <2>6, SeqType
    <3>2. complete \in 0 .. Credits
      BY <3>1, MinWrsBound
    <3> HIDE DEF complete
    <3> QED BY <2>7, <3>2, NodesFacts DEF m, Released
  <2>9. ASSUME NEW x \in Nodes PROVE data[x][1].num = Num(built[j], j)
    <3>1. 1 \in 1 .. Len(data[x])
      <4> HIDE DEF data
      <4> QED BY <2>6, <2>7, NodesFacts
    <3>2. data[x][1].num = Num(built[j] + 1 - 1, j)
      BY <2>1, <3>1, DataReadNumbered
    <3>3. built[j] + 1 - 1 = built[j]
      BY <2>1, <2>7
    <3> QED BY <3>2, <3>3
  <2> HIDE DEF data
  <2> QED BY <2>7, <2>8, <2>9, NodesFacts DEF check_data, HeaderOf, SlotMatches
<1> QED BY <1>1, StreamInvariant, PTL DEF Spec, CheckedBuilds

\* The slots that sends read from are lent, and no two sends read from the
\* same one, however many times the ring was used.
THEOREM NeverReusedInFlight == Spec => []NoReuseInFlight
<1>1. SafeInv => NoReuseInFlight
  <2> SUFFICES ASSUME SafeInv, NEW i \in Nodes, NEW j \in Nodes, NEW p \in DOMAIN Unpolled(i, j)
               PROVE  /\ Addr(Unpolled(i, j)[p]) \in Pending(held[i])
                      /\ \A k \in Nodes : \A q \in DOMAIN Unpolled(i, k) :
                           Addr(Unpolled(i, j)[p]) = Addr(Unpolled(i, k)[q]) => j = k /\ p = q
    BY DEF NoReuseInFlight
  <2>1. StreamInv /\ SendInv /\ TypeOK /\ CycleBounded
    BY DEF SafeInv, StreamInv, SendInv
  <2>2. /\ Oldest(i) \in Nat /\ Acquired(i) = Oldest(i) + Len(held[i]) /\ Acquired(i) \in Nat
        /\ Len(held[i]) \in Nat /\ Len(held[i]) <= Capacity /\ DOMAIN held[i] = 1 .. Len(held[i])
    <3>1. /\ Acquired(i) \in Nat /\ Len(held[i]) \in Nat /\ Len(held[i]) <= Capacity
          /\ held[i] \in Deque(0 .. Slots - 1)
      BY <2>1, UnitTypes
    <3>2. Len(held[i]) <= Acquired(i) /\ Oldest(i) = Acquired(i) - Len(held[i])
      BY <2>1 DEF SendInv, HeldNumbered, Oldest
    <3>3. PICK H \in Nat : H = Len(held[i])
      BY <3>1
    <3>4. DOMAIN held[i] = 1 .. Len(held[i])
      BY <3>1, DequeElements
    <3> QED BY <3>1, <3>2, <3>3, <3>4
  <2>3. ASSUME NEW k \in Nodes, NEW q \in DOMAIN Unpolled(i, k)
        PROVE  \E r \in Nat :
                 /\ q \in Nat /\ r = FirstOut(i, k) + q - 1 /\ Unpolled(i, k)[q] = Num(r, k) /\ Num(r, k) \in Nat
                 /\ Oldest(i) <= Num(r, k) /\ Num(r, k) < Acquired(i)
                 /\ Num(r, k) - Oldest(i) + 1 \in 1 .. Len(held[i])
                 /\ held[i][Num(r, k) - Oldest(i) + 1].base = Addr(Num(r, k))
                 /\ ~held[i][Num(r, k) - Oldest(i) + 1].done
    <3>1. 0 \in 0 .. Len(sendCQ[i][k]) /\ FirstOut(i, k) \in Nat
      BY <2>1, ConnTypes, FirstOutType
    <3>2. PICK r \in Nat : /\ r = FirstOut(i, k) + 0 + q - 1
                           /\ PendingSend(i, k, 0)[q] = Num(r, k) /\ r < Sent(i, k)
      BY <2>1, <3>1, PendingNumbered DEF Unpolled
    <3>3. q \in Nat \ {0}
      <4>1. PICK e \in Seq(Nat) : e = Unpolled(i, k)
        <5>1. wire[i][k] \in Seq(Nat) /\ unacked[i][k] \in Seq(Nat) /\ sendCQ[i][k] \in Seq(Nat)
          BY <2>1, ConnTypes
        <5>2. NotPolled(sendCQ[i][k], 0) \in Seq(Nat)
          BY <3>1, <5>1, PollParts
        <5> QED BY <5>1, <5>2, SeqConcat DEF PendingSend, Unpolled
      <4> QED BY <4>1, SeqType
    <3>4. r = FirstOut(i, k) + q - 1 /\ r >= FirstOut(i, k)
      BY <3>1, <3>2, <3>3
    <3>5. Num(r, k) < Acquired(i)
      BY <2>1, <3>2, SentAcquired
    <3>6. /\ Num(r, k) \in Nat /\ Num(r, k) - Oldest(i) + 1 \in 1 .. Len(held[i])
          /\ held[i][Num(r, k) - Oldest(i) + 1].base = Addr(Num(r, k))
          /\ ~held[i][Num(r, k) - Oldest(i) + 1].done
      BY <2>1, <3>4, <3>5, OutstandingPlace
    <3>7. Oldest(i) <= Num(r, k)
      BY <2>2, <3>6
    <3>8. Unpolled(i, k)[q] = Num(r, k)
      BY <3>2, Zenon DEF Unpolled
    <3> QED BY <3>3, <3>4, <3>5, <3>6, <3>7, <3>8
  <2>4. PICK r \in Nat :
          /\ p \in Nat /\ r = FirstOut(i, j) + p - 1 /\ Unpolled(i, j)[p] = Num(r, j) /\ Num(r, j) \in Nat
          /\ Oldest(i) <= Num(r, j) /\ Num(r, j) < Acquired(i)
          /\ Num(r, j) - Oldest(i) + 1 \in 1 .. Len(held[i])
          /\ held[i][Num(r, j) - Oldest(i) + 1].base = Addr(Num(r, j))
          /\ ~held[i][Num(r, j) - Oldest(i) + 1].done
    BY <2>3
  <2>5. Addr(Unpolled(i, j)[p]) \in Pending(held[i])
    <3>1. PICK z : z = Num(r, j) - Oldest(i) + 1
      OBVIOUS
    <3>2. z \in DOMAIN held[i] /\ held[i][z].base = Addr(Unpolled(i, j)[p]) /\ ~held[i][z].done
      BY <2>2, <2>4, <3>1, Zenon
    <3> QED BY <3>2, Zenon DEF Pending
  <2>6. ASSUME NEW k \in Nodes, NEW q \in DOMAIN Unpolled(i, k),
               Addr(Unpolled(i, j)[p]) = Addr(Unpolled(i, k)[q])
        PROVE  j = k /\ p = q
    <3>1. PICK s \in Nat :
            /\ q \in Nat /\ s = FirstOut(i, k) + q - 1 /\ Unpolled(i, k)[q] = Num(s, k) /\ Num(s, k) \in Nat
            /\ Oldest(i) <= Num(s, k) /\ Num(s, k) < Acquired(i)
      BY <2>3
    <3>2. Addr(Num(r, j)) = Addr(Num(s, k))
      BY <2>4, <2>6, <3>1
    <3>3. Num(r, j) < Oldest(i) + Len(held[i]) /\ Num(s, k) < Oldest(i) + Len(held[i])
      BY <2>2, <2>4, <3>1
    <3>4. Num(r, j) = Num(s, k)
      BY <2>2, <2>4, <3>1, <3>2, <3>3, WindowInjective
    <3>5. r = s /\ j = k
      BY <3>4, NumInjective
    <3>6. FirstOut(i, j) + p - 1 = FirstOut(i, j) + q - 1
      BY <2>4, <3>1, <3>5, Zenon
    <3>7. FirstOut(i, j) \in Nat
      BY <2>1, FirstOutType
    <3> QED BY <2>4, <3>1, <3>5, <3>6, <3>7
  <2> QED BY <2>5, <2>6
<1> QED BY <1>1, SafeInvariant, PTL

\* No receive buffer is lost or posted twice.
THEOREM BuffersAreKept == Spec => []ReceiveBuffersKept
<1>1. SafeInv => ReceiveBuffersKept
  <2> SUFFICES ASSUME SafeInv, NEW j \in Nodes, NEW i \in Nodes
               PROVE  LET data == Waiting(j, i)
                          all  == recvPosted[j][i] \o [p \in DOMAIN data |-> data[p].buf]
                      IN  /\ Len(all) = Credits
                          /\ \A b \in 0 .. Credits - 1 : \E p \in DOMAIN all : all[p] = b
    BY DEF ReceiveBuffersKept
  <2>1. TypeOK /\ CreditsKept /\ EachBufferOnce(Bufs(j, i))
    BY DEF SafeInv, StreamInv, BuffersOnce
  <2> DEFINE d == dataVect[j][i]
             c == recvCQ[j][i]
             s == recvPosted[j][i]
             data == Waiting(j, i)
             t == [p \in DOMAIN data |-> data[p].buf]
  <2>2. /\ s \in Seq(0 .. Credits - 1) /\ d \in Seq(Fragment) /\ c \in Seq(Fragment)
        /\ Len(s) \in Nat /\ Len(d) \in Nat /\ Len(c) \in Nat
        /\ Len(s) + Len(c) + Len(d) = Credits
    BY <2>1, ConnTypes DEF CreditsKept
  <2>3. /\ data \in Seq(Fragment) /\ Len(data) = Len(d) + Len(c)
        /\ \A p \in 1 .. Len(d) + Len(c) : data[p] = IF p <= Len(d) THEN d[p] ELSE c[p - Len(d)]
    BY <2>2, SeqConcat DEF Waiting
  <2> HIDE DEF d, c, s, data
  <2>4. /\ t \in Seq(0 .. Credits - 1) /\ Len(t) = Len(data)
        /\ \A p \in 1 .. Len(data) : t[p] = data[p].buf
    <3>1. DOMAIN data = 1 .. Len(data) /\ Len(data) \in Nat
          /\ \A p \in 1 .. Len(data) : data[p].buf \in 0 .. Credits - 1
      <4>1. \A f \in Fragment : f.buf \in 0 .. Credits - 1
        BY DEF Fragment
      <4>2. DOMAIN data = 1 .. Len(data) /\ Len(data) \in Nat /\ \A p \in 1 .. Len(data) : data[p] \in Fragment
        BY <2>3, SeqType
      <4> QED BY <4>1, <4>2, Zenon
    <3> QED BY <3>1
  <2> HIDE DEF t
  <2>5. /\ Len(s \o t) = Len(s) + Len(t) /\ DOMAIN (s \o t) = 1 .. Len(s \o t)
        /\ \A p \in 1 .. Len(s) + Len(t) : (s \o t)[p] = IF p <= Len(s) THEN s[p] ELSE t[p - Len(s)]
    <3>1. s \in Seq(0 .. Credits - 1) /\ t \in Seq(0 .. Credits - 1)
      BY <2>2, <2>4
    <3>2. /\ s \o t \in Seq(0 .. Credits - 1) /\ Len(s \o t) = Len(s) + Len(t)
          /\ \A p \in 1 .. Len(s) + Len(t) : (s \o t)[p] = IF p <= Len(s) THEN s[p] ELSE t[p - Len(s)]
      BY <3>1, SeqConcat, Zenon
    <3>3. DOMAIN (s \o t) = 1 .. Len(s \o t)
      BY <3>2, SeqType, Zenon
    <3> QED BY <3>2, <3>3, Zenon
  <2> DEFINE all == s \o t
  <2> HIDE DEF all
  <2>6. Len(s) + Len(t) = Credits
    BY <2>2, <2>3, <2>4
  <2>7. /\ Len(all) = Credits /\ DOMAIN all = 1 .. Credits
        /\ \A p \in 1 .. Credits : all[p] = IF p <= Len(s) THEN s[p] ELSE t[p - Len(s)]
    BY <2>5, <2>6, Zenon DEF all
  <2>8. \A p \in 1 .. Credits :
          Bufs(j, i)[p] = IF p <= Len(s) THEN s[p]
                          ELSE IF p <= Len(s) + Len(d) THEN d[p - Len(s)].buf
                          ELSE c[p - Len(s) - Len(d)].buf
    BY DEF Bufs, s, d, c
  <2>9. ASSUME NEW p \in 1 .. Credits PROVE all[p] = Bufs(j, i)[p]
    <3>1. CASE p <= Len(s)
      BY <2>7, <2>8, <3>1
    <3>2. CASE ~(p <= Len(s)) /\ p <= Len(s) + Len(d)
      <4>1. p - Len(s) \in 1 .. Len(d) + Len(c) /\ p - Len(s) <= Len(d) /\ p - Len(s) \in 1 .. Len(data)
        BY <2>2, <2>3, <3>2
      <4>2. t[p - Len(s)] = data[p - Len(s)].buf /\ data[p - Len(s)] = d[p - Len(s)]
        BY <2>3, <2>4, <4>1
      <4> QED BY <2>7, <2>8, <3>2, <4>2
    <3>3. CASE ~(p <= Len(s)) /\ ~(p <= Len(s) + Len(d))
      <4>1. /\ p - Len(s) \in 1 .. Len(d) + Len(c) /\ ~(p - Len(s) <= Len(d))
            /\ p - Len(s) \in 1 .. Len(data)
        BY <2>2, <2>3, <3>3
      <4>2. t[p - Len(s)] = data[p - Len(s)].buf /\ data[p - Len(s)] = c[p - Len(s) - Len(d)]
        BY <2>3, <2>4, <4>1
      <4> QED BY <2>7, <2>8, <3>3, <4>2
    <3> QED BY <3>1, <3>2, <3>3
  <2>10. \A b \in 0 .. Credits - 1 : \E p \in DOMAIN all : all[p] = b
    BY <2>1, <2>7, <2>9, Zenon DEF EachBufferOnce
  <2> QED BY <2>7, <2>10 DEF all, s, t, data
<1> QED BY <1>1, SafeInvariant, PTL
-----------------------------------------------------------------------------
(* The capacity of the ring *)

\* A unit whose order ends with multievents it read out first never sends
\* those: they stay in the deque, and the ring has no room for the others.
FirstNeverSent ==
    NumNodes > Capacity =>
      \A i \in Nodes : i # NumNodes - 1 => cycles[i] = 0 /\ Sent(i, 0) = 0

\* It never acquires more multievents than the ring has room for.
LEMMA AcquiredBounded ==
  ASSUME SafeInv, FirstNeverSent, NumNodes > Capacity, NEW i \in Nodes, i # NumNodes - 1
  PROVE  Acquired(i) \in Nat /\ Acquired(i) <= Capacity
<1>1. TypeOK /\ SendInv /\ 0 \in Nodes /\ Sent(i, 0) = 0
  BY NodesFacts DEF SafeInv, StreamInv, FirstNeverSent
<1>2. FirstOut(i, 0) = 0
  <2>1. /\ FirstOut(i, 0) \in Nat
        /\ FirstOut(i, 0) + Len(wire[i][0]) + Len(unacked[i][0]) + Len(sendCQ[i][0]) = Sent(i, 0)
        /\ Len(wire[i][0]) \in Nat /\ Len(unacked[i][0]) \in Nat /\ Len(sendCQ[i][0]) \in Nat
    BY <1>1, FirstOutType, ConnTypes
  <2>2. PICK f \in Nat : f = FirstOut(i, 0)
    BY <2>1, Zenon
  <2>3. PICK a \in Nat, b \in Nat, c \in Nat :
          a = Len(wire[i][0]) /\ b = Len(unacked[i][0]) /\ c = Len(sendCQ[i][0])
    BY <2>1, Zenon
  <2>4. f + a + b + c = 0
    BY <1>1, <2>1, <2>2, <2>3, Zenon
  <2>5. f = 0
    BY <2>4
  <2> QED BY <2>2, <2>5, Zenon
<1>3. Num(0, 0) = 0
  BY NodesFacts DEF Num
<1>4. PICK H \in Nat : H = Len(held[i]) /\ H <= Capacity /\ H <= Acquired(i)
  BY <1>1, UnitTypes DEF SendInv, HeldNumbered
<1>5. Acquired(i) \in Nat /\ Oldest(i) = Acquired(i) - H
  BY <1>1, <1>4, UnitTypes DEF Oldest
<1>6. Acquired(i) > 0 => 0 >= Oldest(i)
  <2>1. Num(0, 0) < Acquired(i) => Num(0, 0) >= Oldest(i)
    BY <1>1, <1>2 DEF SendInv, OutstandingHeld
  <2> QED BY <1>3, <1>5, <2>1
<1> QED BY <1>4, <1>5, <1>6, NodesFacts

\* It never has the multievent of the last node.
LEMMA LastNotReached ==
  ASSUME SafeInv, FirstNeverSent, NumNodes > Capacity, NEW i \in Nodes, i # NumNodes - 1
  PROVE  /\ Len(iovToSend[i]) \in Nat /\ Len(iovToSend[i]) <= Capacity
         /\ SeqId(i) \in Nodes /\ SeqId(i) # 0 /\ seqPos[i] # NumNodes - 1
<1>1. TypeOK /\ CycleBounded /\ cycles[i] = 0
  BY DEF SafeInv, StreamInv, SendInv, FirstNeverSent
<1>2. Len(iovToSend[i]) \in Nat /\ Len(iovToSend[i]) <= Capacity
  <2>1. PICK L \in Nat : L = Len(iovToSend[i])
    BY <1>1, UnitTypes
  <2>2. Acquired(i) = L
    <3>1. 0 * NumNodes + L = L
      BY NodesFacts
    <3> QED BY <1>1, <2>1, <3>1, Zenon DEF Acquired, Num
  <2> QED BY <2>1, <2>2, AcquiredBounded
<1>3. PICK l \in Nodes : l = NumNodes - 1
  BY NodesFacts DEF Nodes
<1>4. ~(PosOf(i, l) < seqPos[i])
  <2>1. PosOf(i, l) < seqPos[i] => l < Len(iovToSend[i])
    BY <1>1 DEF CycleBounded
  <2> QED BY <1>2, <1>3, <2>1, NodesFacts
<1>5. PosOf(i, l) < PosOf(i, 0) /\ PosOf(i, l) < NumNodes - 1
  BY <1>3, NodesFacts DEF PosOf, FirstId, Nodes
<1>6. /\ seqPos[i] \in 0 .. NumNodes - 1
      /\ SeqId(i) \in Nodes /\ PosOf(i, SeqId(i)) = seqPos[i]
  <2>1. seqPos[i] \in 0 .. NumNodes - 1
    BY <1>1, UnitTypes
  <2> QED BY <2>1, IdSequencePermutes DEF SeqId
<1>7. SeqId(i) # 0 /\ seqPos[i] # NumNodes - 1
  BY <1>4, <1>5, <1>6
<1> QED BY <1>2, <1>6, <1>7

LEMMA FirstNeverSentNext == SafeInv /\ FirstNeverSent /\ [Next]_vars => FirstNeverSent'
<1> SUFFICES ASSUME SafeInv, FirstNeverSent, [Next]_vars, NumNodes > Capacity,
                    NEW x \in Nodes, x # NumNodes - 1
             PROVE  cycles'[x] = 0 /\ Sent(x, 0)' = 0
  BY DEF FirstNeverSent, Capacity
<1>1. /\ TypeOK /\ IovNumbered /\ SendInv /\ 0 \in Nodes
      /\ cycles[x] = 0 /\ Sent(x, 0) = 0
  BY NodesFacts DEF SafeInv, StreamInv, FirstNeverSent
<1>2. CASE UNCHANGED ruVars
  <2>1. seqPos' = seqPos /\ cycles' = cycles
    BY <1>2 DEF ruVars
  <2> QED BY <1>1, <2>1 DEF Sent, PosOf, FirstId
<1>3. ASSUME NEW i \in Nodes, NEW k \in 0 .. NumNodes, NEW n \in Polls(sendCQ[i]), RunRU(i, k, n)
      PROVE  cycles'[x] = 0 /\ Sent(x, 0)' = 0
  <2>1. PICK j \in Nodes : j = SeqId(i)
    BY <1>1, <1>3, CycleNext DEF SendInv, RunRU
  <2>2. /\ i # x => cycles'[x] = cycles[x]
        /\ cycles'[i] = IF Sends(i, k, n) /\ Last(i) THEN cycles[i] + 1 ELSE cycles[i]
    BY <1>1, <1>3, <2>1, RUEffect
  <2>3. /\ Sent(i, 0)' = IF Sends(i, k, n) /\ 0 = j THEN Sent(i, 0) + 1 ELSE Sent(i, 0)
        /\ x # i => Sent(x, 0)' = Sent(x, 0)
    BY <1>1, <1>3, <2>1, RUNumbers
  <2>4. CASE i # x
    BY <1>1, <2>2, <2>3, <2>4
  <2>5. CASE i = x
    <3>1. j # 0 /\ ~Last(i)
      BY <2>1, <2>5, LastNotReached DEF Last
    <3> QED BY <1>1, <2>2, <2>3, <2>5, <3>1
  <2> QED BY <2>4, <2>5
<1>4. \/ \E i \in Nodes : \E k \in 0 .. NumNodes : \E n \in Polls(sendCQ[i]) : RunRU(i, k, n)
      \/ UNCHANGED ruVars
  BY DEF Next, Deliver, Ack, CompletesWithError, RunBU, vars
<1> QED BY <1>2, <1>3, <1>4

\* With more nodes than the ring has room for, no cycle of a readout unit but
\* the last one's ever ends, and the builder units beyond the capacity of the
\* ring never build an event: for every number of nodes and credits.
THEOREM WallAtCapacity == Spec => []CapacityWall
<1>1. Init => FirstNeverSent
  <2> SUFFICES ASSUME Init, NEW i \in Nodes PROVE cycles[i] = 0 /\ Sent(i, 0) = 0
    BY DEF FirstNeverSent
  <2>1. cycles[i] = 0 /\ seqPos[i] = 0 /\ PosOf(i, 0) >= 0
    BY NodesFacts DEF Init, PosOf, FirstId, Nodes
  <2>2. PosOf(i, 0) \in Int
    BY NodesFacts DEF PosOf, FirstId, Nodes
  <2> QED BY <2>1, <2>2 DEF Sent
<1>2. SafeInv /\ FirstNeverSent => CapacityWall
  <2> SUFFICES ASSUME SafeInv, FirstNeverSent, NumNodes > Capacity
               PROVE  /\ \A i \in Nodes : i # NumNodes - 1 => cycles[i] = 0 /\ Len(iovToSend[i]) <= Capacity
                      /\ \A j \in Nodes : built[j] > 0 => built[j] = 1 /\ j < Capacity
    BY DEF CapacityWall
  <2>1. \A i \in Nodes : i # NumNodes - 1 => cycles[i] = 0 /\ Len(iovToSend[i]) <= Capacity
    BY LastNotReached DEF FirstNeverSent
  <2>2. ASSUME NEW j \in Nodes, built[j] > 0 PROVE built[j] = 1 /\ j < Capacity
    <3>1. 0 \in Nodes /\ 0 # NumNodes - 1
      BY NodesFacts DEF Capacity
    <3>2. TypeOK /\ CycleBounded /\ cycles[0] = 0
      BY <3>1 DEF SafeInv, StreamInv, SendInv, FirstNeverSent
    <3>3. built[j] <= Sent(0, j) /\ built[j] \in Nat /\ Sent(0, j) \in Nat
      <4>1. PICK b \in Nat, d \in Nat, c \in Nat, w \in Nat :
              /\ b = built[j] /\ d = Len(dataVect[j][0]) /\ c = Len(recvCQ[j][0]) /\ w = Len(wire[0][j])
        BY <3>1, <3>2, ConnTypes
      <4>2. b + d + c + w = Sent(0, j)
        BY <3>1, <4>1 DEF SafeInv, StreamInv, StreamsNumbered, Stream
      <4>3. Sent(0, j) \in Nat /\ b <= Sent(0, j)
        BY <4>2
      <4> QED BY <4>1, <4>3
    <3>4. Sent(0, j) \in {0, 1}
      BY <3>1, <3>2, UnitTypes
    <3>5. built[j] = 1 /\ 0 < Sent(0, j)
      BY <2>2, <3>3, <3>4
    <3>6. Num(0, j) < Acquired(0)
      BY <3>1, <3>2, <3>5, SentAcquired
    <3>7. Num(0, j) = j /\ j \in Nat
      BY NodesFacts DEF Num
    <3>8. Acquired(0) \in Nat /\ Acquired(0) <= Capacity
      BY <3>1, AcquiredBounded
    <3> QED BY <3>5, <3>6, <3>7, <3>8, NodesFacts
  <2> QED BY <2>1, <2>2
<1> QED BY <1>1, <1>2, SafeInvariant, FirstNeverSentNext, PTL DEF Spec
-----------------------------------------------------------------------------
(* Each readout unit uses its ring as MultieventStore says, and the readout *)
(* units and the builder units, with their memory and their connections,    *)
(* implement EventBuilding.                                                 *)


\* The slot some places after that of a number.
LEMMA AddrPlus ==
  ASSUME NEW a \in Nat, NEW b \in Nat
  PROVE  ((a % Slots) + b) % Slots = Addr(a + b)
<1>1. ((a % Slots) + b) % Slots = (a + b) % Slots
  BY NodesFacts, RingPlus
<1> QED BY <1>1 DEF Addr

LEMMA StoreInit == Init => \A i \in Nodes : Store(i)!Init
<1> SUFFICES ASSUME Init, NEW i \in Nodes PROVE Store(i)!Init
  OBVIOUS
<1>1. cycles[i] = 0 /\ Len(iovToSend[i]) = 0 /\ held[i] = <<>>
  BY DEF Init
<1>2. Acquired(i) = 0
  BY <1>1, NodesFacts DEF Acquired, Num
<1>3. Acquired(i) % Slots = 0
  BY <1>2, NodesFacts
<1> QED BY <1>1, <1>3 DEF Store!Init

\* An iteration of a readout unit lends slots of the ring and takes some back.
LEMMA StoreStep ==
  ASSUME SafeInv, NEW i \in Nodes, NEW k \in 0 .. NumNodes, NEW n \in Polls(sendCQ[i]), RunRU(i, k, n)
  PROVE  Store(i)!Next
<1>1. TypeOK /\ IovNumbered /\ CycleBounded /\ SendInv /\ CanAcquire(i, k)
  BY DEF SafeInv, StreamInv, SendInv, RunRU
<1>2. PICK j \in Nodes : j = SeqId(i)
  BY <1>1, CycleNext
<1>3. /\ k \in Nat /\ Len(held[i]) + k <= Capacity /\ Acquired(i) \in Nat
      /\ Acquired(i)' = Acquired(i) + k
  BY <1>1, <1>2, CycleNext, RUNumbers, UnitTypes
<1>4. Lent(i, k) = held[i] \o Store(i)!NextSlots(k)
  <2>1. ASSUME NEW p \in 1 .. k
        PROVE  Entry(Addr(NextNums(i, k)[p])) = Entry(((Acquired(i) % Slots) + p - 1) % Slots)
    <3>1. PICK e \in Nat, A \in Nat : e = p - 1 /\ A = Acquired(i)
      BY <1>3
    <3>2. NextNums(i, k)[p] = A + e
      BY <3>1 DEF NextNums
    <3>3. ((A % Slots) + e) % Slots = Addr(A + e)
      BY AddrPlus
    <3>4. A % Slots \in Nat
      BY NodesFacts
    <3>5. (A % Slots) + p - 1 = (A % Slots) + e
      BY <3>1, <3>4
    <3> QED BY <3>1, <3>2, <3>3, <3>5, Zenon
  <2>2. Store(i)!NextSlots(k) = [p \in 1 .. k |-> Entry(((Acquired(i) % Slots) + p - 1) % Slots)]
    BY DEF Store!NextSlots, Store!Slots, Store!Entry, Entry, Slots, Capacity
  <2>3. [p \in 1 .. k |-> Entry(Addr(NextNums(i, k)[p]))] = Store(i)!NextSlots(k)
    BY <2>1, <2>2, Zenon
  <2> QED BY <2>3, Zenon DEF Lent
<1>5. PICK lent : lent = Lent(i, k)
  OBVIOUS
<1>6. PICK B : B = Completed(i, n)
  OBVIOUS
<1>7. held'[i] = DropReleased(Mark(lent, B))
  BY <1>1, <1>2, <1>5, <1>6, RUEffect
<1>8. /\ lent \in Deque(0 .. Slots - 1) /\ Len(lent) = Len(held[i]) + k /\ DOMAIN lent = 1 .. Len(lent)
  BY <1>1, <1>3, <1>5, LentNumbered
<1>9. B \subseteq Pending(lent) /\ B \in SUBSET (0 .. Capacity)
  <2>1. CanMark(lent, B)
    BY <1>1, <1>3, <1>5, <1>6, CanMarkCompleted
  <2>2. \A p \in DOMAIN lent : lent[p].base \in 0 .. Slots - 1
    BY <1>8, DequeElements
  <2>3. Slots - 1 = Capacity
    BY NodesFacts DEF Slots, Capacity
  <2> QED BY <2>1, <2>2, <2>3 DEF CanMark, Pending
<1>10. ((Acquired(i) % Slots) + k) % Slots = Acquired(i)' % Slots
  BY <1>3, AddrPlus DEF Addr
<1>11. Store(i)!Step(k, B)
  <2>1. lent = held[i] \o Store(i)!NextSlots(k)
    BY <1>4, <1>5, Zenon
  <2>2. Len(lent) <= Capacity
    BY <1>3, <1>8, Zenon
  <2>3. B \subseteq Store(i)!Pending(lent)
    BY <1>9 DEF Store!Pending, Pending
  <2>4. Store(i)!DropReleased(Store(i)!Mark(lent, B)) = DropReleased(Mark(lent, B))
    BY Zenon DEF Store!DropReleased, Store!Mark, DropReleased, Mark, Store!ReleasableCount,
                 ReleasableCount, Store!IsFirstAt, IsFirstAt
  <2>5. Store(i)!Slots = Slots
    BY DEF Store!Slots, Slots, Capacity
  <2> QED BY <1>7, <1>10, <2>1, <2>2, <2>3, <2>4, <2>5, Zenon DEF Store!Step
<1>12. k \in 0 .. Capacity
  <2>1. PICK H \in Nat, C \in Nat : H = Len(held[i]) /\ C = Capacity
    BY <1>1, UnitTypes, NodesFacts
  <2>2. H + k <= C /\ k \in Nat
    BY <1>3, <2>1, Zenon
  <2>3. k <= C
    BY <2>1, <2>2
  <2> QED BY <2>1, <2>2, <2>3
<1> QED BY <1>9, <1>11, <1>12 DEF Store!Next

\* Each readout unit lends and reuses the slots of its ring as it promises.
THEOREM UsesStore == Spec => ImplementsStore
<1>1. SafeInv /\ [Next]_vars => \A i \in Nodes : [Store(i)!Next]_(Store(i)!storeVars)
  <2> SUFFICES ASSUME SafeInv, [Next]_vars, NEW x \in Nodes PROVE [Store(x)!Next]_(Store(x)!storeVars)
    OBVIOUS
  <2>1. CASE UNCHANGED ruVars
    <3>1. held' = held /\ Acquired(x)' = Acquired(x)
      BY <2>1 DEF ruVars, Acquired, Num
    <3> QED BY <3>1 DEF Store!storeVars
  <2>2. ASSUME NEW i \in Nodes, NEW k \in 0 .. NumNodes, NEW n \in Polls(sendCQ[i]), RunRU(i, k, n)
        PROVE  [Store(x)!Next]_(Store(x)!storeVars)
    <3>1. CASE x = i
      BY <2>2, <3>1, StoreStep
    <3>2. CASE x # i
      <4>1. TypeOK /\ IovNumbered /\ CycleBounded /\ SendInv /\ CanAcquire(i, k)
        BY <2>2 DEF SafeInv, StreamInv, SendInv, RunRU
      <4>2. PICK j \in Nodes : j = SeqId(i)
        BY <4>1, CycleNext
      <4>3. held'[x] = held[x] /\ Acquired(x)' = Acquired(x)
        BY <2>2, <3>2, <4>1, <4>2, RUEffect, RUNumbers
      <4> QED BY <4>3 DEF Store!storeVars
    <3> QED BY <3>1, <3>2
  <2>3. \/ \E i \in Nodes : \E k \in 0 .. NumNodes : \E n \in Polls(sendCQ[i]) : RunRU(i, k, n)
        \/ UNCHANGED ruVars
    BY DEF Next, Deliver, Ack, CompletesWithError, RunBU, vars
  <2> QED BY <2>1, <2>2, <2>3
<1> QED BY <1>1, StoreInit, SafeInvariant, PTL DEF Spec, ImplementsStore
-----------------------------------------------------------------------------
LEMMA WholeInit == Init => Whole!Init
<1> SUFFICES ASSUME Init PROVE Whole!Init
  OBVIOUS
<1>1. ASSUME NEW i \in Nodes PROVE Acquired(i) = 0
  <2>1. cycles[i] = 0 /\ Len(iovToSend[i]) = 0
    BY DEF Init
  <2> QED BY <2>1, NodesFacts DEF Acquired, Num
<1>2. AcquiredByAll = [i \in Nodes |-> 0]
  BY <1>1 DEF AcquiredByAll
<1>3. built = [j \in Nodes |-> 0]
  BY DEF Init
<1> QED BY <1>2, <1>3 DEF Whole!Init, Whole!Nodes, Nodes

\* What unit i has acquired goes beyond what unit j has built by no more than
\* the receive buffers of their connection and the ring.
LEMMA OldestBounded ==
  ASSUME SafeInv, NEW i \in Nodes, NEW j \in Nodes
  PROVE  /\ Oldest(i) \in Nat /\ Num(built[j] + Credits, j) \in Nat
         /\ Oldest(i) <= Num(built[j] + Credits, j)
<1>1. TypeOK /\ CreditsKept /\ StreamsNumbered /\ SendInv
  BY DEF SafeInv, StreamInv
<1>2. PICK b \in Nat, d \in Nat, c \in Nat, w \in Nat :
        /\ b = built[j] /\ d = Len(dataVect[j][i]) /\ c = Len(recvCQ[j][i]) /\ w = Len(wire[i][j])
  BY <1>1, ConnTypes
<1>3. PICK u \in Nat, s \in Nat, r \in Nat :
        u = Len(unacked[i][j]) /\ s = Len(sendCQ[i][j]) /\ r = Len(recvPosted[j][i])
  BY <1>1, ConnTypes
<1>4. PICK S \in Nat, f \in Nat : S = Sent(i, j) /\ f = FirstOut(i, j)
  BY <1>1, UnitTypes, FirstOutType
<1>5. f + w + u + s = S /\ b + d + c + w = S /\ r + c + d = Credits
  <2>1. f + w + u + s = S
    BY <1>1, <1>2, <1>3, <1>4, FirstOutType
  <2>2. b + d + c + w = S
    BY <1>1, <1>2, <1>4 DEF StreamsNumbered, Stream
  <2>3. r + c + d = Credits
    BY <1>1, <1>2, <1>3 DEF CreditsKept
  <2> QED BY <2>1, <2>2, <2>3
<1>6. f <= b + Credits /\ b + Credits \in Nat
  BY <1>5, NodesFacts
<1>7. PICK H \in Nat, A \in Nat : H = Len(held[i]) /\ A = Acquired(i) /\ H <= A
  BY <1>1, UnitTypes DEF SendInv, HeldNumbered
<1>8. Oldest(i) = A - H
  BY <1>7 DEF Oldest
<1>9. PICK x \in Nat : x = Num(f, j)
  BY NumType, NodesFacts
<1>10. x < A => x >= Oldest(i)
  BY <1>1, <1>4, <1>7, <1>9 DEF SendInv, OutstandingHeld
<1>11. PICK y \in Nat : y = Num(b + Credits, j)
  BY <1>6, NumType, NodesFacts
<1>12. x <= y
  <2>1. CASE f < b + Credits
    BY <1>6, <1>9, <1>11, <2>1, NumLess, NodesFacts
  <2>2. CASE f = b + Credits
    BY <1>9, <1>11, <2>2
  <2> QED BY <1>6, <2>1, <2>2
<1> QED BY <1>2, <1>7, <1>8, <1>10, <1>11, <1>12

LEMMA WholeReadOut ==
  ASSUME SafeInv, NEW i \in Nodes, NEW k \in 0 .. NumNodes, NEW n \in Polls(sendCQ[i]), RunRU(i, k, n)
  PROVE  [Whole!Next]_(Whole!absVars)
<1>1. TypeOK /\ IovNumbered /\ SendInv /\ CanAcquire(i, k) /\ built' = built
  BY DEF SafeInv, StreamInv, RunRU, buVars
<1>2. PICK j \in Nodes : j = SeqId(i)
  BY <1>1, CycleNext DEF SendInv
<1>3. /\ Acquired(i)' = Acquired(i) + k
      /\ \A x \in Nodes : x # i => Acquired(x)' = Acquired(x)
  BY <1>1, <1>2, RUNumbers
<1>4. AcquiredByAll' = [AcquiredByAll EXCEPT ![i] = @ + k]
  <2>1. AcquiredByAll' = [x \in Nodes |-> Acquired(x)']
    BY DEF AcquiredByAll, Acquired, Num
  <2>2. \A x \in Nodes : Acquired(x)' = IF x = i THEN AcquiredByAll[i] + k ELSE AcquiredByAll[x]
    BY <1>3 DEF AcquiredByAll
  <2>3. AcquiredByAll' = [x \in Nodes |-> IF x = i THEN AcquiredByAll[i] + k ELSE AcquiredByAll[x]]
    BY <2>1, <2>2
  <2> QED BY <2>3 DEF AcquiredByAll
<1>5. CASE k = 0
  <2>1. \A x \in Nodes : Acquired(x)' = Acquired(x)
    BY <1>1, <1>3, <1>5, UnitTypes
  <2>2. AcquiredByAll' = AcquiredByAll
    BY <2>1 DEF AcquiredByAll
  <2> QED BY <1>1, <2>2 DEF Whole!absVars
<1>6. CASE k # 0
  <2>1. ASSUME NEW y \in Nodes
        PROVE  AcquiredByAll[i] + k <= Num(built[y] + Credits, y) + 2 * Credits
    <3>1. PICK H \in Nat, A \in Nat : H = Len(held[i]) /\ A = Acquired(i) /\ H <= A
      BY <1>1, UnitTypes DEF SendInv, HeldNumbered
    <3>2. H + k <= 2 * Credits /\ k \in Nat
      BY <1>1, <3>1, NodesFacts DEF CanAcquire, Capacity
    <3>3. PICK o \in Nat, z \in Nat : o = Oldest(i) /\ z = Num(built[y] + Credits, y) /\ o <= z
      BY OldestBounded
    <3>4. A = o + H
      BY <3>1, <3>3 DEF Oldest
    <3>5. AcquiredByAll[i] = A
      BY <3>1 DEF AcquiredByAll
    <3>6. A + k <= z + 2 * Credits
      <4>1. PICK C \in Nat : C = 2 * Credits
        BY NodesFacts
      <4>2. H + k <= C /\ k \in Nat
        BY <3>2, <4>1, Zenon
      <4>3. A + k <= z + C
        BY <3>3, <3>4, <4>2
      <4> QED BY <4>1, <4>3, Zenon
    <3> QED BY <3>3, <3>5, <3>6
  <2>2. Whole!ReadOut(i, k)
    BY <1>1, <1>4, <2>1 DEF Whole!ReadOut, Whole!Nodes, Whole!Num, Nodes, Num
  <2>3. k \in 1 .. NumNodes
    BY <1>6, NodesFacts
  <2> QED BY <2>2, <2>3 DEF Whole!Next, Whole!Nodes, Nodes
<1> QED BY <1>5, <1>6

LEMMA WholeBuild ==
  ASSUME SafeInv, NEW j \in Nodes, NEW n \in Polls(recvCQ[j]), RunBU(j, n)
  PROVE  [Whole!Next]_(Whole!absVars)
<1>1. TypeOK /\ StreamsNumbered /\ CycleBounded
  BY DEF SafeInv, StreamInv, SendInv
<1>2. PICK m : m = Released(DataRead(j, n), MinWrs(DataRead(j, n)))
  OBVIOUS
<1>3. built' = [built EXCEPT ![j] = @ + m] /\ UNCHANGED ruVars
  BY <1>2 DEF RunBU
<1>4. AcquiredByAll' = AcquiredByAll
  BY <1>3 DEF ruVars, AcquiredByAll, Acquired, Num
<1>5. ASSUME NEW i \in Nodes
      PROVE  /\ m \in 0 .. Credits /\ n[i] \in 0 .. Len(recvCQ[j][i])
             /\ m \in 0 .. Len(dataVect[j][i]) + n[i]
  <2>1. /\ m \in 0 .. Credits /\ n[i] \in 0 .. Len(recvCQ[j][i]) /\ m \in 0 .. Len(DataRead(j, n)[i])
        /\ Len(DataRead(j, n)[i]) = Len(dataVect[j][i]) + n[i]
    BY <1>1, <1>2, BUEffect
  <2> QED BY <2>1, Zenon
<1>6. CASE m = 0
  <2>1. built' = built
    BY <1>1, <1>3, <1>6 DEF TypeOK
  <2> QED BY <1>4, <2>1 DEF Whole!absVars
<1>7. CASE m # 0
  <2>1. ASSUME NEW i \in Nodes PROVE Num(built[j] + m - 1, j) < AcquiredByAll[i]
    <3>1. PICK b \in Nat, d \in Nat, c \in Nat, w \in Nat, S \in Nat :
            /\ b = built[j] /\ d = Len(dataVect[j][i]) /\ c = Len(recvCQ[j][i]) /\ w = Len(wire[i][j])
            /\ S = Sent(i, j)
      BY <1>1, ConnTypes, UnitTypes
    <3>2. b + d + c + w = S
      BY <1>1, <3>1 DEF StreamsNumbered, Stream
    <3>3. PICK z \in 0 .. c : z = n[i] /\ m \in 0 .. d + z
      BY <1>5, <3>1
    <3>4. PICK r \in Nat : r = b + m - 1 /\ r < S
      BY <1>7, <3>2, <3>3
    <3>5. Num(r, j) < Acquired(i)
      BY <1>1, <3>1, <3>4, SentAcquired
    <3> QED BY <3>1, <3>4, <3>5 DEF AcquiredByAll
  <2>2. Whole!Build(j, m)
    BY <1>3, <1>4, <2>1 DEF Whole!Build, Whole!Nodes, Whole!Num, Nodes, Num
  <2>3. m \in 1 .. Credits
    BY <1>5, <1>7, NodesFacts
  <2> QED BY <2>2, <2>3 DEF Whole!Next, Whole!Nodes, Nodes
<1> QED BY <1>6, <1>7

\* The system builds each event once, in order and from the fragments of all
\* nodes, and no readout unit overruns a builder unit.
THEOREM BuildsEvents == Spec => ImplementsEventBuilding
<1>1. SafeInv /\ [Next]_vars => [Whole!Next]_(Whole!absVars)
  <2> SUFFICES ASSUME SafeInv, [Next]_vars PROVE [Whole!Next]_(Whole!absVars)
    OBVIOUS
  <2>1. ASSUME NEW i \in Nodes, NEW k \in 0 .. NumNodes, NEW n \in Polls(sendCQ[i]), RunRU(i, k, n)
        PROVE  [Whole!Next]_(Whole!absVars)
    BY <2>1, WholeReadOut
  <2>2. ASSUME NEW j \in Nodes, NEW n \in Polls(recvCQ[j]), RunBU(j, n)
        PROVE  [Whole!Next]_(Whole!absVars)
    BY <2>2, WholeBuild
  <2>3. CASE UNCHANGED <<ruVars, buVars>>
    BY <2>3 DEF ruVars, buVars, Whole!absVars, AcquiredByAll, Acquired, Num
  <2>4. \/ \E i \in Nodes : \E k \in 0 .. NumNodes : \E n \in Polls(sendCQ[i]) : RunRU(i, k, n)
        \/ \E j \in Nodes : \E n \in Polls(recvCQ[j]) : RunBU(j, n)
        \/ UNCHANGED <<ruVars, buVars>>
    BY DEF Next, Deliver, Ack, CompletesWithError, vars
  <2> QED BY <2>1, <2>2, <2>3, <2>4
<1> QED BY <1>1, WholeInit, SafeInvariant, PTL DEF Spec, ImplementsEventBuilding, Whole!Spec
=============================================================================
