----------------------------- MODULE TestPeers ------------------------------
(***************************************************************************)
(* The two pairs of test programs, t_client with t_server (one way) and    *)
(* t_client2 with t_server2 (both ways): each process moves the chunks of  *)
(* one MemoryPool (common/memory_pool.h) through one Socket, here that of  *)
(* transport/libfabric.  The programs loop for ever; one of them may be    *)
(* killed.                                                                 *)
(*                                                                         *)
(* One action for each half of a loop: poll, give what was polled back to  *)
(* the pool, and post one chunk.  The network moves one message per step;  *)
(* it waits for a receive to be posted.  The sender may poll its           *)
(* completion any time later.                                              *)
(***************************************************************************)
EXTENDS Integers, Sequences, FiniteSets

CONSTANT Credits   \* --credits

ASSUME CreditsAssumption == Credits \in Nat \ {0}

Peers == {"client", "server"}
Other(p) == IF p = "client" THEN "server" ELSE "client"
Direction == {"send", "recv"}

\* A completion with an error, instead of that of a chunk.
Error == -1

VARIABLES
    twoWay,    \* which pair of programs it is
    pc,        \* the half of the loop that is next, or how the process ended
    pool,      \* MemoryPool::m_pool
    pending,   \* m_pending_send and m_pending_recv of the Socket
    posted,    \* sends that are not delivered, and receives without a message
    completed  \* the completion queues

vars == <<twoWay, pc, pool, pending, posted, completed>>

\* buffer_size / chunk_size, and the chunks by their place in the buffer.
NumChunks == IF twoWay THEN 2 * Credits ELSE Credits
Chunks == 0 .. NumChunks - 1

Sends(p) == twoWay \/ p = "client"
Receives(p) == twoWay \/ p = "server"
Ended(p) == pc[p] \in {"killed", "threw"}

\* The half of the loop that follows another, and the first one.
After(p, half) == CHOOSE next \in Direction : twoWay <=> next # half
First(p) == IF p = "client" THEN "send" ELSE "recv"

NoQueues == [p \in Peers |-> [d \in Direction |-> <<>>]]

Init ==
    /\ twoWay \in BOOLEAN
    /\ pc = [p \in Peers |-> IF Receives(p) THEN "prepost" ELSE First(p)]
    /\ pool = [p \in Peers |-> Chunks]
    /\ pending = [p \in Peers |-> [d \in Direction |-> {}]]
    /\ posted = NoQueues
    /\ completed = NoQueues
-----------------------------------------------------------------------------
(* MemoryPool.  The code keeps the free chunks on a stack; as they only differ *)
(* in their address, any choice will do, here that of the last in the buffer. *)

Alloc(free) == CHOOSE c \in free : \A other \in free : other <= c

\* Mutant: alloc leaves the chunk in the pool.
AllocatedKept(free) == free

Allocated(free) == free \ {Alloc(free)}

\* Mutant: what was polled is not freed.
NothingFreed(free, done) == free

Freed(free, done) == free \cup {done[k] : k \in DOMAIN done}
-----------------------------------------------------------------------------
(* Socket *)

\* A poll takes what comes before the first error off a completion queue, which
\* holds no more than there are credits.
IsKey(c) == c # Error
KeysFirst(queue) ==
    CHOOSE n \in 0 .. Len(queue) :
      /\ \A k \in 1 .. n : IsKey(queue[k])
      /\ n < Len(queue) => ~IsKey(queue[n + 1])
Done(p, d) == SubSeq(completed[p][d], 1, KeysFirst(completed[p][d]))
NotDone(queue) == SubSeq(queue, KeysFirst(queue) + 1, Len(queue))
Elements(queue) == {queue[k] : k \in DOMAIN queue}

\* poll_completed_*: the first completion has an error, or the key of one is not
\* there, or not any more.
PollThrows(p, d) ==
    \/ completed[p][d] # <<>> /\ ~IsKey(Head(completed[p][d]))
    \/ ~(Elements(Done(p, d)) \subseteq pending[p][d])
    \/ Cardinality(Elements(Done(p, d))) # Len(Done(p, d))

Available(keys) == Cardinality(keys) < Credits

\* post_*: there is no credit, or the key is there.
PostThrows(chunk, keys) == ~Available(keys) \/ chunk \in keys
-----------------------------------------------------------------------------
(* The programs *)

\* A process ends, and its memory and queues with it.
End(p, how) ==
    /\ pc' = [pc EXCEPT ![p] = how]
    /\ pool' = [pool EXCEPT ![p] = {}]
    /\ pending' = [pending EXCEPT ![p] = [d \in Direction |-> {}]]
    /\ posted' = [posted EXCEPT ![p] = [d \in Direction |-> <<>>]]
    /\ completed' = [completed EXCEPT ![p] = [d \in Direction |-> <<>>]]
    /\ UNCHANGED twoWay

\* Nobody catches an exception.
Throw(p) == End(p, "threw")

\* Whether another receive is posted before the loop.
Preposting(p) ==
    IF twoWay THEN Cardinality(pending[p]["recv"]) < Credits ELSE pool[p] # {}

Prepost(p) ==
    /\ pc[p] = "prepost" /\ Preposting(p)
    /\ LET chunk == Alloc(pool[p])
       IN  IF PostThrows(chunk, pending[p]["recv"])
           THEN Throw(p)
           ELSE /\ pool' = [pool EXCEPT ![p] = Allocated(@)]
                /\ pending' = [pending EXCEPT ![p]["recv"] = @ \cup {chunk}]
                /\ posted' = [posted EXCEPT ![p]["recv"] = Append(@, chunk)]
                /\ UNCHANGED <<twoWay, pc, completed>>

StartLoop(p) ==
    /\ pc[p] = "prepost" /\ ~Preposting(p)
    /\ pc' = [pc EXCEPT ![p] = First(p)]
    /\ UNCHANGED <<twoWay, pool, pending, posted, completed>>

\* Mutant: the credits are not asked for.
CanPostUnasked(keys, free) == free # {}

\* What the programs ask before they post.
CanPost(keys, free) == Available(keys) /\ free # {}

\* Poll, free what was polled, and post a chunk if that is possible.
Half(p, d) ==
    LET keys == pending[p][d] \ Elements(Done(p, d))
        free == Freed(pool[p], Done(p, d))
    IN  IF PollThrows(p, d) \/ (CanPost(keys, free) /\ PostThrows(Alloc(free), keys))
        THEN Throw(p)
        ELSE /\ pc' = [pc EXCEPT ![p] = After(p, d)]
             /\ completed' = [completed EXCEPT ![p][d] = NotDone(@)]
             /\ IF CanPost(keys, free)
                THEN /\ pool' = [pool EXCEPT ![p] = Allocated(free)]
                     /\ pending' = [pending EXCEPT ![p][d] = keys \cup {Alloc(free)}]
                     /\ posted' = [posted EXCEPT ![p][d] = Append(@, Alloc(free))]
                ELSE /\ pool' = [pool EXCEPT ![p] = free]
                     /\ pending' = [pending EXCEPT ![p][d] = keys]
                     /\ UNCHANGED posted
             /\ UNCHANGED twoWay

SendHalf(p) == pc[p] = "send" /\ Half(p, "send")
RecvHalf(p) == pc[p] = "recv" /\ Half(p, "recv")

\* fi_send or fi_recv fails, as they may once the connection is broken.
PostFails(p) ==
    /\ pc[p] \in Direction
    /\ Ended(Other(p))
    /\ CanPost(pending[p][pc[p]] \ Elements(Done(p, pc[p])), Freed(pool[p], Done(p, pc[p])))
    /\ Throw(p)

\* The process is killed; one at most.
Killed(p) ==
    /\ ~\E q \in Peers : Ended(q)
    /\ End(p, "killed")
-----------------------------------------------------------------------------
(* The network *)

\* A message of p arrives in the receive buffer that was posted first.
Deliver(p) ==
    LET q == Other(p)
    IN  /\ ~Ended(q)
        /\ posted[p]["send"] # <<>> /\ posted[q]["recv"] # <<>>
        /\ posted' = [posted EXCEPT ![p]["send"] = Tail(@), ![q]["recv"] = Tail(@)]
        /\ completed' = [completed EXCEPT
                            ![p]["send"] = Append(@, Head(posted[p]["send"])),
                            ![q]["recv"] = Append(@, Head(posted[q]["recv"]))]
        /\ UNCHANGED <<twoWay, pc, pool, pending>>

\* What is posted to a process that ended completes with an error; what is
\* posted to receive from it may do so, or never complete.
CompletesWithError(p, d) ==
    /\ Ended(Other(p)) /\ ~Ended(p)
    /\ posted[p][d] # <<>>
    /\ completed' = [completed EXCEPT ![p][d] = Append(@, Error)]
    /\ posted' = [posted EXCEPT ![p][d] = Tail(@)]
    /\ UNCHANGED <<twoWay, pc, pool, pending>>
-----------------------------------------------------------------------------
Process(p) == Prepost(p) \/ StartLoop(p) \/ SendHalf(p) \/ RecvHalf(p) \/ PostFails(p)
Network(p) == Deliver(p) \/ CompletesWithError(p, "send")

Next ==
    \E p \in Peers :
      Process(p) \/ Network(p) \/ CompletesWithError(p, "recv") \/ Killed(p)

Spec == Init /\ [][Next]_vars

\* The processes that live run, and the network moves the messages and tells a
\* sender that it can not.
FairSpec ==
    Spec /\ \A p \in Peers : WF_vars(Process(p)) /\ WF_vars(Network(p))
-----------------------------------------------------------------------------
TypeOK ==
    /\ twoWay \in BOOLEAN
    /\ pc \in [Peers -> {"prepost", "send", "recv", "killed", "threw"}]
    /\ pool \in [Peers -> SUBSET Chunks]
    /\ pending \in [Peers -> [Direction -> SUBSET Chunks]]
    /\ posted \in [Peers -> [Direction -> Seq(Chunks)]]
    /\ completed \in [Peers -> [Direction -> Seq(Chunks \cup {Error})]]

\* Every chunk of a process that lives is in one place: the pool, a send
\* that was not polled, or a receive that was not polled (memory_pool.h:42
\* takes a chunk back without asking whether it was lent).
ChunksConserved ==
    \A p \in Peers :
      ~Ended(p) =>
        /\ Cardinality(pool[p]) + Cardinality(pending[p]["send"]) + Cardinality(pending[p]["recv"]) = NumChunks
        /\ pool[p] \cup pending[p]["send"] \cup pending[p]["recv"] = Chunks

\* No exception is thrown (socket.cpp:98, 156, 189) while both processes live.
ThrowsOnlyAlone ==
    \A p \in Peers : pc[p] = "threw" => pc[Other(p)] = "killed"

\* The halves of a two-way loop never take each other's chunks from the pool:
\* once a process has posted a send, or a receive, it always has one, though it
\* polls several at a time and posts one (t_client2.cpp:82, 92).
NeitherStarves ==
    [][\A p \in Peers : \A d \in Direction :
         pending[p][d] # {} => Ended(p)' \/ pending'[p][d] # {}]_vars

\* A process that sends polls completions of its sends again and again, or ends:
\* traffic does not stop while both live, though receives are posted late and
\* one at a time, and a sender notices that the other process is gone
\* (socket.cpp:72).
SendsCompleteOrEnds ==
    \A p \in Peers :
      Sends(p) =>
        <>Ended(p) \/ []<><<SendHalf(p) /\ completed[p]["send"] # <<>>>>_vars
=============================================================================
