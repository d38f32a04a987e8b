---------------------------- MODULE EventBuilder ----------------------------
(***************************************************************************)
(* The running system: on each of NumNodes nodes a readout unit            *)
(* (ru/readout_unit.cpp) and a builder unit (bu/builder_unit.cpp), each in *)
(* a thread of its own, and a reliable in-order connection from every      *)
(* readout unit to every builder unit (transport/verbs/socket.cpp).        *)
(*                                                                         *)
(* One action per iteration of each main loop, at its end: the units share *)
(* nothing but the queues of their connections.  A unit polls them one     *)
(* after the other while more arrives, so an iteration has seen some first *)
(* part of each queue (polled).  The network moves one message per step.   *)
(*                                                                         *)
(* A message is the number of the multievent it holds: number n is the     *)
(* (n+1)-th one its readout unit acquired.  The code has no such number.   *)
(* It sees the address, which is the slot of the ring (Addr), and what the *)
(* Generator of the node wrote once, in its constructor, where the slot    *)
(* begins (Header).  Every multievent has some bytes, so that no two slots *)
(* have the same address; its first event may have none, and then another  *)
(* event's header is where its own was.                                    *)
(***************************************************************************)
EXTENDS StoreOps, Integers

CONSTANTS
    NumNodes,   \* the number of endpoints
    Credits,    \* GENERAL.CREDITS
    MaxCycles,  \* bound: cycles of NumNodes multievents each unit reads out
    Header      \* [i][a]: the header where slot a of node i's ring begins

ASSUME ConfigAssumption ==
    /\ NumNodes \in Nat \ {0}
    /\ Credits \in Nat \ {0}
    /\ MaxCycles \in Nat

Nodes == 0 .. NumNodes - 1

\* The multievents the metadata ring has room for, and lends at most.
Slots == 2 * Credits + 1
Capacity == 2 * Credits

\* Multievent j of cycle r, which goes to builder unit j.
Num(r, j) == r * NumNodes + j

ASSUME HeaderAssumption ==
    Header \in [Nodes -> [0 .. Slots - 1 -> [id : Nat, length : Nat]]]

\* Mutant: addresses do not wrap around the ring.
AddrUnwrapped(n) == n

\* The slot of a multievent.
Addr(n) == n % Slots

VARIABLES
    \* Of readout unit i:
    seqPos,      \* [i]: seq_it, an index of id_sequence
    iovToSend,   \* [i]: iov_to_send, the multievents of this cycle
    held,        \* [i]: Accumulator::m_iov_multievents
    cycles,      \* [i]: completed cycles (not in the code)
    \* Of the connection from readout unit i to builder unit j:
    wire,        \* [i][j]: posted sends that are not delivered
    unacked,     \* [i][j]: delivered, but not completed at the sender
    sendCQ,      \* [i][j]: completed, but not polled
    recvPosted,  \* [j][i]: posted receive buffers, as numbers below Credits
    recvCQ,      \* [j][i]: received, but not polled: [buf, num]
    \* Of builder unit j:
    dataVect,    \* [j][i]: m_data_vect[i], what waits to be built: [buf, num]
    built,       \* [j]: the events built so far (not in the code)
    dead         \* nodes whose process ended in an assert or an exception

ruVars   == <<seqPos, iovToSend, held, cycles>>
connVars == <<wire, unacked, sendCQ, recvPosted, recvCQ>>
buVars   == <<dataVect, built>>
vars     == <<ruVars, connVars, buVars, dead>>

\* What an iteration may have polled of the queues of its connections, how
\* many of each, what that is and what is left for the next iteration.
Polls(queues) == {n \in [Nodes -> 0 .. Credits] : \A x \in Nodes : n[x] <= Len(queues[x])}
All(queues) == [x \in Nodes |-> Len(queues[x])]
Polled(queue, n) == SubSeq(queue, 1, n)
NotPolled(queue, n) == SubSeq(queue, n + 1, Len(queue))

EmptyQueues == [x \in Nodes |-> [y \in Nodes |-> <<>>]]

\* The state the two connect functions leave behind: every connection is
\* established and has all its receive buffers posted.
Init ==
    /\ seqPos = [i \in Nodes |-> 0]
    /\ iovToSend = [i \in Nodes |-> <<>>]
    /\ held = [i \in Nodes |-> <<>>]
    /\ cycles = [i \in Nodes |-> 0]
    /\ wire = EmptyQueues
    /\ unacked = EmptyQueues
    /\ sendCQ = EmptyQueues
    /\ recvPosted = [j \in Nodes |-> [i \in Nodes |-> [p \in 1 .. Credits |-> p - 1]]]
    /\ recvCQ = EmptyQueues
    /\ dataVect = EmptyQueues
    /\ built = [j \in Nodes |-> 0]
    /\ dead = {}
-----------------------------------------------------------------------------
(* The readout unit *)

\* create_sequence: the nodes in order, starting after one's own.
IdSequence(i) ==
    LET first == IF i # NumNodes - 1 THEN i + 1 ELSE 0
    IN  [p \in 0 .. NumNodes - 1 |->
           IF first + p < NumNodes THEN first + p ELSE first + p - NumNodes]

SeqId(i) == IdSequence(i)[seqPos[i]]

\* How many multievents unit i has acquired, and the next k it acquires.
Acquired(i) == Num(cycles[i], Len(iovToSend[i]))
NextNums(i, k) == [p \in 1 .. k |-> Acquired(i) + p - 1]

\* Mutant: all the slots of the ring are lent.
CanAcquireFull(i, k) ==
    /\ k > 0 => cycles[i] < MaxCycles
    /\ k > 0 => Len(iovToSend[i]) + k <= SeqId(i) + 1
    /\ Len(held[i]) + k <= Slots

\* Mutant: the room in the ring is not asked for.
CanAcquireNoRoom(i, k) ==
    /\ k > 0 => cycles[i] < MaxCycles
    /\ k > 0 => Len(iovToSend[i]) + k <= SeqId(i) + 1

\* Mutant: the loop stops one multievent early.
CanAcquireEarly(i, k) ==
    /\ k > 0 => cycles[i] < MaxCycles
    /\ k > 0 => Len(iovToSend[i]) + k <= SeqId(i)
    /\ Len(held[i]) + k <= Capacity

\* The acquire loop ends once the multievent for SeqId(i) is there, or when
\* get_multievent fails: the ring has no room, or too few events are due yet.
CanAcquire(i, k) ==
    /\ k > 0 => cycles[i] < MaxCycles
    /\ k > 0 => Len(iovToSend[i]) + k <= SeqId(i) + 1
    /\ Len(held[i]) + k <= Capacity

\* The addresses poll_completed_send returns, over all connections.
Completed(i, n) ==
    UNION {{Addr(sendCQ[i][j][p]) : p \in 1 .. n[j]} : j \in Nodes}

\* No address completes twice in one iteration: the second assert of
\* release_multievents, for the addresses it gets in one call.
CompletedOnce(i, n) ==
    \A j, k \in Nodes : \A p \in 1 .. n[j] : \A q \in 1 .. n[k] :
      Addr(sendCQ[i][j][p]) = Addr(sendCQ[i][k][q]) => j = k /\ p = q

\* m_pending_send once n completions are polled: what was posted before and
\* is not known to have completed.
PendingSend(i, j, n) == NotPolled(sendCQ[i][j], n) \o unacked[i][j] \o wire[i][j]

AvailableSend(pending) == Len(pending) < Credits

\* Mutant: multievents go out in the order they were acquired.
ToSendByPosition(i, iovs) == iovs[seqPos[i] + 1]

\* The multievent that is sent next: number j of the cycle to builder unit j.
ToSend(i, iovs) == iovs[SeqId(i) + 1]

\* Socket::post_send throws if the address is pending already.
AddressPending(pending, a) == \E p \in DOMAIN pending : Addr(pending[p]) = a

\* One iteration, with k multievents acquired and n[j] completions polled of
\* the connection to unit j: acquire, poll every connection, release what
\* completed, send one multievent.
RunRU(i, k, n) ==
    LET iovs == iovToSend[i] \o NextNums(i, k)
        lent == held[i] \o [p \in 1 .. k |-> Entry(Addr(NextNums(i, k)[p]))]
        j == SeqId(i)
        pending == PendingSend(i, j, n[j])
        sends == AvailableSend(pending) /\ Len(iovs) > j
        last == seqPos[i] = NumNodes - 1
    IN  /\ i \notin dead
        /\ CanAcquire(i, k)
        /\ held' = [held EXCEPT ![i] = DropReleased(Mark(lent, Completed(i, n)))]
        /\ sendCQ' = [sendCQ EXCEPT ![i] = [x \in Nodes |-> NotPolled(sendCQ[i][x], n[x])]]
        /\ IF sends
             THEN /\ wire' = [wire EXCEPT ![i][j] = Append(@, ToSend(i, iovs))]
                  /\ seqPos' = [seqPos EXCEPT ![i] = IF last THEN 0 ELSE @ + 1]
                  /\ iovToSend' = [iovToSend EXCEPT ![i] = IF last THEN <<>> ELSE iovs]
                  /\ cycles' = [cycles EXCEPT ![i] = IF last THEN @ + 1 ELSE @]
             ELSE /\ iovToSend' = [iovToSend EXCEPT ![i] = iovs]
                  /\ UNCHANGED <<wire, seqPos, cycles>>
        /\ dead' = IF /\ CanMark(lent, Completed(i, n)) /\ CompletedOnce(i, n)
                      /\ sends => /\ ~AddressPending(pending, Addr(ToSend(i, iovs)))
                                  /\ last => Len(iovs) = NumNodes
                     THEN dead
                     ELSE dead \cup {i}
        /\ UNCHANGED <<unacked, recvPosted, recvCQ, buVars>>
-----------------------------------------------------------------------------
(* The network *)

\* A message takes the oldest receive buffer of the connection.  With none
\* posted it waits: the receiver-not-ready retry is unlimited.  What a process
\* sent before it ended may still arrive.
Deliver(i, j) ==
    /\ j \notin dead
    /\ wire[i][j] # <<>>
    /\ recvPosted[j][i] # <<>>
    /\ recvCQ' = [recvCQ EXCEPT ![j][i] =
                    Append(@, [buf |-> Head(recvPosted[j][i]), num |-> Head(wire[i][j])])]
    /\ recvPosted' = [recvPosted EXCEPT ![j][i] = Tail(@)]
    /\ unacked' = [unacked EXCEPT ![i][j] = Append(@, Head(wire[i][j]))]
    /\ wire' = [wire EXCEPT ![i][j] = Tail(@)]
    /\ UNCHANGED <<ruVars, sendCQ, buVars, dead>>

\* The completion of a delivered message reaches its sender.
Ack(i, j) ==
    /\ i \notin dead
    /\ unacked[i][j] # <<>>
    /\ sendCQ' = [sendCQ EXCEPT ![i][j] = Append(@, Head(unacked[i][j]))]
    /\ unacked' = [unacked EXCEPT ![i][j] = Tail(@)]
    /\ UNCHANGED <<ruVars, wire, recvPosted, recvCQ, buVars, dead>>

\* Unit i has a send to node j, or a receive from it, that did not complete.
Awaits(i, j) == wire[i][j] # <<>> \/ unacked[i][j] # <<>> \/ recvPosted[i][j] # <<>>

\* What is posted to a process that ended may complete with an error, which
\* poll_completed_send and poll_completed_recv throw.
CompletesWithError(i, j) ==
    /\ i \notin dead
    /\ j \in dead
    /\ Awaits(i, j)
    /\ dead' = dead \cup {i}
    /\ UNCHANGED <<ruVars, connVars, buVars>>
-----------------------------------------------------------------------------
(* The builder unit.  It numbers its connections in the order they were     *)
(* accepted; here they have the number of the readout unit at the other end *)
(* of each, which only renames them.                                        *)

\* m_data_vect after read_data, n[i] messages having been there for it.
DataRead(j, n) == [i \in Nodes |-> dataVect[j][i] \o Polled(recvCQ[j][i], n[i])]

\* min_wrs: as many events as there are fragments of from every unit.
MinWrs(data) ==
    CHOOSE m \in 0 .. Credits :
      /\ \A i \in Nodes : m <= Len(data[i])
      /\ m < Credits => \E i \in Nodes : m = Len(data[i])

\* The header where a fragment of readout unit i begins.
HeaderOf(i, fragment) == Header[i][Addr(fragment.num)]

\* Mutant: the ids are not compared.
check_dataLength(data) == \A i \in Nodes : HeaderOf(i, data[i][1]).length # 0

\* The oldest fragments begin with headers that have the event id of connection
\* 0 and a length.
check_data(data) ==
    LET first_evt_id == HeaderOf(0, data[0][1]).id
    IN  \A i \in Nodes :
          LET header == HeaderOf(i, data[i][1])
          IN  header.id = first_evt_id /\ header.length # 0

\* What run() releases of the ready events: none if check_data fails.
Released(data, ready) == IF ready > 0 => check_data(data) THEN ready ELSE 0

\* m_pending_recv once n completions are polled: the buffers that are posted
\* and those that are received and not polled.
PendingRecv(j, i, n) ==
    LET unpolled == NotPolled(recvCQ[j][i], n)
    IN  recvPosted[j][i] \o [p \in DOMAIN unpolled |-> unpolled[p].buf]

\* Socket::post_recv, for one buffer after the other, throws without a credit
\* or if the buffer is pending already.
CanPostRecv(pending, bufs) ==
    \A p \in DOMAIN bufs :
      /\ Len(pending) + p - 1 < Credits
      /\ \A q \in DOMAIN pending : pending[q] # bufs[p]
      /\ \A q \in 1 .. p - 1 : bufs[q] # bufs[p]

\* Mutant: the last buffer is not posted again.
BuffersButLast(fragments, m) == [p \in 1 .. m - 1 |-> fragments[p].buf]

\* Mutant: the buffers of all fragments are posted again, built or not.
BuffersAll(fragments, m) == [p \in DOMAIN fragments |-> fragments[p].buf]

\* The buffers of the first m fragments.
Buffers(fragments, m) == [p \in 1 .. m |-> fragments[p].buf]

\* What waits on after the first m fragments are built.
Unbuilt(fragments, m) == SubSeq(fragments, m + 1, Len(fragments))

\* One iteration: read n[i] messages of connection i, check and build what is
\* complete, and post the receive buffers of what was built again.
RunBU(j, n) ==
    LET data  == DataRead(j, n)
        ready == MinWrs(data)
        m     == Released(data, ready)
    IN  /\ j \notin dead
        /\ recvCQ' = [recvCQ EXCEPT ![j] = [i \in Nodes |-> NotPolled(recvCQ[j][i], n[i])]]
        /\ dataVect' = [dataVect EXCEPT ![j] =
                          [i \in Nodes |-> Unbuilt(data[i], m)]]
        /\ recvPosted' = [recvPosted EXCEPT ![j] =
                            [i \in Nodes |-> @[i] \o Buffers(data[i], m)]]
        /\ built' = [built EXCEPT ![j] = @ + m]
        /\ dead' = IF /\ m = ready
                      /\ \A i \in Nodes :
                           CanPostRecv(PendingRecv(j, i, n[i]), Buffers(data[i], m))
                     THEN dead
                     ELSE dead \cup {j}
        /\ UNCHANGED <<ruVars, wire, unacked, sendCQ>>

Next ==
    \/ \E i \in Nodes : \E k \in 0 .. NumNodes : \E n \in Polls(sendCQ[i]) : RunRU(i, k, n)
    \/ \E i, j \in Nodes : Deliver(i, j)
    \/ \E i, j \in Nodes : Ack(i, j)
    \/ \E i, j \in Nodes : CompletesWithError(i, j)
    \/ \E j \in Nodes : \E n \in Polls(recvCQ[j]) : RunBU(j, n)

Spec == Init /\ [][Next]_vars

\* Both threads of every node keep running, the network keeps moving, and
\* the clock keeps making events due: of what can be acquired, some is.  Only
\* what arrives during an iteration can be missed by it, and finitely much
\* arrives in all, so iterations that miss nothing recur.  The network delivers
\* as long as both processes run.
FairSpec ==
    /\ Spec
    /\ \A i \in Nodes :
         WF_vars(\E k \in 0 .. NumNodes :
                   (CanAcquire(i, 1) => k > 0) /\ RunRU(i, k, All(sendCQ[i])))
    /\ \A j \in Nodes : WF_vars(RunBU(j, All(recvCQ[j])))
    /\ \A i, j \in Nodes :
         /\ WF_vars({i, j} \cap dead = {} /\ Deliver(i, j))
         /\ WF_vars({i, j} \cap dead = {} /\ Ack(i, j))
-----------------------------------------------------------------------------
Fragment == [buf : 0 .. Credits - 1, num : Nat]

\* The states the variables range over.  No connection ever has more than
\* Credits messages, on either side of it.
TypeOK ==
    /\ seqPos \in [Nodes -> 0 .. NumNodes - 1]
    /\ iovToSend \in [Nodes -> Seq(Nat)]
    /\ held \in [Nodes -> Seq([base : 0 .. Slots - 1, done : BOOLEAN])]
    /\ \A i \in Nodes : Len(held[i]) <= Capacity
    /\ cycles \in [Nodes -> Nat]
    /\ wire \in [Nodes -> [Nodes -> Seq(Nat)]]
    /\ unacked \in [Nodes -> [Nodes -> Seq(Nat)]]
    /\ sendCQ \in [Nodes -> [Nodes -> Seq(Nat)]]
    /\ recvPosted \in [Nodes -> [Nodes -> Seq(0 .. Credits - 1)]]
    /\ recvCQ \in [Nodes -> [Nodes -> Seq(Fragment)]]
    /\ dataVect \in [Nodes -> [Nodes -> Seq(Fragment)]]
    /\ built \in [Nodes -> Nat]
    /\ dead \in SUBSET Nodes

\* The credits of each connection, on both sides: what was posted and not
\* polled never exceeds them (socket.cpp:106, 146), and every receive buffer
\* is posted, received or waiting to be built.
CreditsKept ==
    \A i, j \in Nodes :
      /\ Len(wire[i][j]) + Len(unacked[i][j]) + Len(sendCQ[i][j]) <= Credits
      /\ Len(recvPosted[j][i]) + Len(recvCQ[j][i]) + Len(dataVect[j][i]) = Credits

\* The oldest fragments of unit j are not the begin of one event: the headers
\* of two of them have different ids, or one has no length.
Mismatch(j) ==
    /\ \A i \in Nodes : dataVect[j][i] # <<>>
    /\ \E i, k \in Nodes :
         LET header(x) == HeaderOf(x, dataVect[j][x][1])
         IN  header(i).id # header(k).id \/ header(i).length = 0

\* A process only ends because the fragments its builder unit is about to
\* build do not match (builder_unit.cpp:52, 65, 155-157), or because something
\* it awaited of one that ended failed (verbs/socket.cpp:59-63, 87-91), and the
\* first one for the first reason.  No other assert or exception of the loops comes true: what
\* completes is lent and completes once (accumulator.cpp:119-120), a cycle
\* ends with all its multievents (readout_unit.cpp:131), no address or buffer
\* is pending twice and no credit is missing (socket.cpp:106-109, 139-142,
\* 146-149, 178-181).
EndsOnlyByHeader ==
    /\ \A i \in dead :
         Mismatch(i) \/ \E j \in dead \ {i} : Awaits(i, j)
    /\ dead # {} => \E j \in dead : Mismatch(j)

\* The headers of a slot are those of one event on all nodes.
SlotMatches(a) ==
    \A i, k \in Nodes : Header[i][a].id = Header[k][a].id /\ Header[i][a].length # 0
HeadersMatch == \A a \in 0 .. Slots - 1 : SlotMatches(a)

\* If no multievent begins with an empty event, the headers match, and then no
\* process ends: fragments of different slots never meet in check_data.
NoFailure == HeadersMatch => dead = {}

\* The first event an iteration builds is one whose headers match: what
\* check_data looks at is of one multievent on all nodes.  Those behind it in
\* the same iteration are built unseen (builder_unit.cpp:155-162).
CheckedBuilds ==
    [][\A j \in Nodes :
         built'[j] > built[j] => SlotMatches(Addr(Num(built[j], j)))]_vars

\* What unit j has received from unit i and not built, oldest first.
Waiting(j, i) == dataVect[j][i] \o recvCQ[j][i]

\* Fragments of different events are never built together.  check_data
\* compares the ids of the oldest fragments only, and ids repeat every Slots
\* multievents: it could not tell a shift by a whole turn of the ring.
FragmentsAligned ==
    \A j, i \in Nodes : \A p \in DOMAIN Waiting(j, i) :
      Waiting(j, i)[p].num = Num(built[j] + p - 1, j)

\* What unit i has posted to unit j and not polled, oldest first.
Unpolled(i, j) == PendingSend(i, j, 0)

\* The slot a send reads from stays lent until its completion is polled, and
\* no other send reads from it: completions arrive per connection, in any
\* order across connections, and the ring is reused while others are pending.
NoReuseInFlight ==
    \A i, j \in Nodes : \A p \in DOMAIN Unpolled(i, j) :
      /\ Addr(Unpolled(i, j)[p]) \in Pending(held[i])
      /\ \A k \in Nodes : \A q \in DOMAIN Unpolled(i, k) :
           Addr(Unpolled(i, j)[p]) = Addr(Unpolled(i, k)[q]) => j = k /\ p = q

\* No receive buffer is lost or posted twice: per connection, those that are
\* posted, received and waiting to be built are all of them, each once, so no
\* fragment is overwritten before it is built (builder_unit.cpp:83-86).
ReceiveBuffersKept ==
    \A j, i \in Nodes :
      LET data == Waiting(j, i)
          all  == recvPosted[j][i] \o [p \in DOMAIN data |-> data[p].buf]
      IN  /\ Len(all) = Credits
          /\ \A b \in 0 .. Credits - 1 : \E p \in DOMAIN all : all[p] = b

\* Each readout unit's use of its Accumulator is a use of the abstract store.
Store(i) == INSTANCE MultieventStore
              WITH held <- held[i], nextSlot <- Acquired(i) % Slots
ImplementsStore ==
    /\ \A i \in Nodes : Store(i)!Init
    /\ [][\A i \in Nodes : [Store(i)!Next]_(Store(i)!storeVars)]_vars

\* The system as a whole builds each event once, in order, from the fragments
\* of all nodes, and no readout unit overruns a builder.
AcquiredByAll == [i \in Nodes |-> Acquired(i)]
Whole == INSTANCE EventBuilding WITH acquired <- AcquiredByAll
ImplementsEventBuilding == Whole!Spec

\* Every multievent that every unit reads out is built.
AllBuilt == \A j \in Nodes : built[j] = MaxCycles
EveryEventBuilt == <>AllBuilt

\* Every node builds some event: "each node of the system can also build an
\* event receiving fragments from the other nodes of the system" (README.md:12),
\* with however many nodes ("up to hundreds of nodes", README.md:8).  It needs
\* a ring that has room for the multievents of a cycle.
EveryNodeBuilds == \A j \in Nodes : <>(built[j] > 0)

\* A readout unit other than the last one sends multievent 0 of a cycle after
\* the one for the last node, and no slot before it is reused until then: with
\* more nodes than slots the first cycle never ends, and the builder units
\* beyond the capacity of the ring never build an event.
CapacityWall ==
    NumNodes > Capacity =>
      /\ \A i \in Nodes : i # NumNodes - 1 => cycles[i] = 0 /\ Len(iovToSend[i]) <= Capacity
      /\ \A j \in Nodes : built[j] > 0 => built[j] = 1 /\ j < Capacity
=============================================================================
