--------------------------- MODULE ConnectionSetup --------------------------
(***************************************************************************)
(* How the nodes come up.  main.cpp starts two threads, one for            *)
(* BuilderUnit::connect, which accepts one connection for each node in the *)
(* order they arrive, and one for ReadoutUnit::connect, which connects to  *)
(* the builder units one after the other, starting behind its own node,    *)
(* and tries again after any exception.  When both are joined it starts    *)
(* the units.                                                              *)
(*                                                                         *)
(* A request waits in the backlog of the listener until it is accepted.    *)
(* Nodes start at any time: one that is not there yet, and one that is     *)
(* done, refuse.  A step that normally succeeds may fail; the failures     *)
(* that come after a request was sent, and those of a builder unit, are    *)
(* counted and bounded.                                                    *)
(***************************************************************************)
EXTENDS Integers, Sequences

CONSTANTS NumNodes,   \* the number of endpoints
          MaxFaults   \* bound: failures that are more than a retry

ASSUME NodesAssumption == NumNodes \in Nat \ {0}
ASSUME FaultsAssumption == MaxFaults \in Nat

Nodes == 0 .. NumNodes - 1
None == 0   \* no connection

VARIABLES
    main,     \* the process: "joining" its threads, "running", or how it ended
    \* ReadoutUnit::connect of node n:
    ru,       \* where it is
    pos,      \* how many of id_sequence are connected
    attempt,  \* the requests sent so far, which number its connections (not in the code)
    kept,     \* [n][m]: the connection to m in m_connection_ids
    \* BuilderUnit::connect of node n:
    bu,       \* where it is
    backlog,  \* the requests that wait for accept
    peers,    \* m_connection_ids, in the order of its keys
    faults    \* failures so far (not in the code)

ruVars == <<ru, pos, attempt, kept>>
buVars == <<bu, backlog, peers>>
vars == <<main, ruVars, buVars, faults>>

\* A connection, or the request for one: number num of the node it comes from.
Connection == [from : Nodes, num : Nat \ {0}]

Init ==
    /\ main = [n \in Nodes |-> "joining"]
    /\ ru = [n \in Nodes |-> "connect"]
    /\ pos = [n \in Nodes |-> 0]
    /\ attempt = [n \in Nodes |-> 0]
    /\ kept = [n \in Nodes |-> [m \in Nodes |-> None]]
    /\ bu = [n \in Nodes |-> "listen"]
    /\ backlog = [n \in Nodes |-> <<>>]
    /\ peers = [n \in Nodes |-> <<>>]
    /\ faults = 0
-----------------------------------------------------------------------------
\* id_sequence[p] of node n: the nodes in order, starting after one's own.
SeqId(n, p) == (n + 1 + p) % NumNodes

\* The builder unit node n connects to.
Target(n) == SeqId(n, pos[n])

\* Mutant: a request has the number of the one before.
Previous(n) == [from |-> n, num |-> attempt[n] - 1]

\* The request node n waits for, or the connection it is setting up.
Current(n) == [from |-> n, num |-> attempt[n]]

Joining(n) == main[n] = "joining"
Listening(n) == Joining(n) /\ bu[n] \in {"accept", "register"}

In(r, queue) == \E p \in DOMAIN queue : queue[p] = r

\* The sender of a request still waits for the answer.
Awaited(r) == Joining(r.from) /\ ru[r.from] = "waiting" /\ attempt[r.from] = r.num

Fault == faults < MaxFaults /\ faults' = faults + 1

\* The process ends, and its listener with it.
EndProcess(n, how) ==
    /\ main' = [main EXCEPT ![n] = how]
    /\ backlog' = [backlog EXCEPT ![n] = <<>>]
-----------------------------------------------------------------------------
(* The readout unit *)

\* Mutant: an exception ends the loop.
NoRetry == "done"

\* Where the loop goes on, 100 ms after an exception.
AfterException == "connect"

\* Connector::connect sends a request.
Request(n) ==
    /\ Joining(n) /\ ru[n] = "connect"
    /\ Listening(Target(n))
    /\ attempt' = [attempt EXCEPT ![n] = @ + 1]
    /\ backlog' = [backlog EXCEPT ![Target(n)] = Append(@, Current(n)')]
    /\ ru' = [ru EXCEPT ![n] = "waiting"]
    /\ UNCHANGED <<main, pos, kept, bu, peers, faults>>

\* It fails before, because nobody listens or for another reason.
ConnectFails(n) ==
    /\ Joining(n) /\ ru[n] = "connect"
    /\ ru' = [ru EXCEPT ![n] = AfterException]
    /\ UNCHANGED <<main, pos, attempt, kept, buVars, faults>>

\* The listener is gone, and the request with it.
Rejected(n) ==
    /\ Joining(n) /\ ru[n] = "waiting"
    /\ ~In(Current(n), backlog[Target(n)])
    /\ ru' = [ru EXCEPT ![n] = AfterException]
    /\ UNCHANGED <<main, pos, attempt, kept, buVars, faults>>

\* The request is given up while it waits in the backlog.
TimesOut(n) ==
    /\ Joining(n) /\ ru[n] = "waiting"
    /\ In(Current(n), backlog[Target(n)])
    /\ Fault
    /\ ru' = [ru EXCEPT ![n] = AfterException]
    /\ UNCHANGED <<main, pos, attempt, kept, buVars>>

\* ibv_modify_qp fails on the established connection, which is destroyed.
SetupFails(n) ==
    /\ Joining(n) /\ ru[n] = "setup"
    /\ Fault
    /\ ru' = [ru EXCEPT ![n] = AfterException]
    /\ UNCHANGED <<main, pos, attempt, kept, buVars>>

\* The connection gets its entry in m_connection_ids.
Emplace(n) ==
    /\ Joining(n) /\ ru[n] = "setup"
    /\ kept[n][Target(n)] = None
    /\ kept' = [kept EXCEPT ![n][Target(n)] = attempt[n]]
    /\ ru' = [ru EXCEPT ![n] = "register"]
    /\ UNCHANGED <<main, pos, attempt, buVars, faults>>

\* It had one: assert(ret.second).
AlreadyPresent(n) ==
    /\ Joining(n) /\ ru[n] = "setup"
    /\ kept[n][Target(n)] # None
    /\ EndProcess(n, "asserted")
    /\ UNCHANGED <<ruVars, bu, peers, faults>>

\* Mutant: the step to the next node is forgotten.
SameNode(n) == pos[n]

\* How many nodes are connected once the memory is registered.
PosAfter(n) == pos[n] + 1

\* register_memory; the next node follows.
Registered(n) ==
    /\ Joining(n) /\ ru[n] = "register"
    /\ pos' = [pos EXCEPT ![n] = PosAfter(n)]
    /\ ru' = [ru EXCEPT ![n] = IF PosAfter(n) = NumNodes THEN "done" ELSE "connect"]
    /\ UNCHANGED <<main, attempt, kept, buVars, faults>>

\* register_memory throws: the entry stays.
RegisterFails(n) ==
    /\ Joining(n) /\ ru[n] = "register"
    /\ Fault
    /\ ru' = [ru EXCEPT ![n] = AfterException]
    /\ UNCHANGED <<main, pos, attempt, kept, buVars>>

-----------------------------------------------------------------------------
(* The builder unit *)

Listen(n) ==
    /\ Joining(n) /\ bu[n] = "listen"
    /\ bu' = [bu EXCEPT ![n] = "accept"]
    /\ UNCHANGED <<main, ruVars, backlog, peers, faults>>

\* Acceptor::accept: both sides are connected, and go on at their own pace.
Accept(n) ==
    /\ Joining(n) /\ bu[n] = "accept"
    /\ backlog[n] # <<>>
    /\ LET r == Head(backlog[n])
       IN  /\ Awaited(r)
           /\ ru' = [ru EXCEPT ![r.from] = "setup"]
           /\ peers' = [peers EXCEPT ![n] = Append(@, r)]
    /\ backlog' = [backlog EXCEPT ![n] = Tail(@)]
    /\ bu' = [bu EXCEPT ![n] = "register"]
    /\ UNCHANGED <<main, pos, attempt, kept, faults>>

\* The request was given up: accept throws, which nobody catches.
AcceptThrows(n) ==
    /\ Joining(n) /\ bu[n] = "accept"
    /\ backlog[n] # <<>>
    /\ ~Awaited(Head(backlog[n]))
    /\ EndProcess(n, "terminated")
    /\ UNCHANGED <<ruVars, bu, peers, faults>>

\* listen, accept or register_memory throws for a reason of its own.
Throws(n) ==
    /\ Joining(n) /\ bu[n] # "done"
    /\ Fault
    /\ EndProcess(n, "terminated")
    /\ UNCHANGED <<ruVars, bu, peers>>

\* Mutant: one connection less is accepted.
OneLess == NumNodes - 1

\* The number of connections to accept.
ToAccept == NumNodes

\* register_memory, and the receive buffers are posted.  After the last
\* connection the Acceptor is destroyed.
Posted(n) ==
    /\ Joining(n) /\ bu[n] = "register"
    /\ IF Len(peers[n]) >= ToAccept
       THEN /\ bu' = [bu EXCEPT ![n] = "done"]
            /\ backlog' = [backlog EXCEPT ![n] = <<>>]
       ELSE /\ bu' = [bu EXCEPT ![n] = "accept"]
            /\ UNCHANGED backlog
    /\ UNCHANGED <<main, ruVars, peers, faults>>
-----------------------------------------------------------------------------
(* main *)

\* Mutant: the thread of the builder unit is not joined.
OnlyReadoutJoined(n) == ru[n] = "done"

Joined(n) == ru[n] = "done" /\ bu[n] = "done"

\* Both threads are joined, and the units start.
Run(n) ==
    /\ Joining(n) /\ Joined(n)
    /\ main' = [main EXCEPT ![n] = "running"]
    /\ UNCHANGED <<ruVars, buVars, faults>>

\* main returns after the timeout, and the threads of the units are joinable:
\* std::terminate.
TimeIsUp(n) ==
    /\ main[n] = "running"
    /\ main' = [main EXCEPT ![n] = "timeout"]
    /\ UNCHANGED <<ruVars, buVars, faults>>
-----------------------------------------------------------------------------
ReadoutStep(n) ==
    \/ Request(n) \/ ConnectFails(n) \/ Rejected(n) \/ TimesOut(n)
    \/ SetupFails(n) \/ Emplace(n) \/ AlreadyPresent(n)
    \/ Registered(n) \/ RegisterFails(n)

BuilderStep(n) ==
    Listen(n) \/ Accept(n) \/ AcceptThrows(n) \/ Throws(n) \/ Posted(n)

Next == \E n \in Nodes : ReadoutStep(n) \/ BuilderStep(n) \/ Run(n) \/ TimeIsUp(n)

Spec == Init /\ [][Next]_vars

\* Every thread runs, and the attempts to connect to a node that listens do not
\* all fail.
FairSpec ==
    /\ Spec
    /\ \A n \in Nodes :
         /\ WF_vars(ReadoutStep(n)) /\ WF_vars(BuilderStep(n)) /\ WF_vars(Run(n))
         /\ SF_vars(Request(n))
-----------------------------------------------------------------------------
TypeOK ==
    /\ main \in [Nodes -> {"joining", "running", "asserted", "terminated", "timeout"}]
    /\ ru \in [Nodes -> {"connect", "waiting", "setup", "register", "done"}]
    /\ pos \in [Nodes -> 0 .. NumNodes]
    /\ attempt \in [Nodes -> Nat]
    /\ kept \in [Nodes -> [Nodes -> Nat]]
    /\ bu \in [Nodes -> {"listen", "accept", "register", "done"}]
    /\ backlog \in [Nodes -> Seq(Connection)]
    /\ peers \in [Nodes -> Seq(Connection)]
    /\ faults \in 0 .. MaxFaults

\* The connection of a peer is the one the readout unit of that peer keeps.
Right(n, m) == \E p \in DOMAIN peers[n] : peers[n][p] = [from |-> m, num |-> kept[m][n]]

\* A builder unit takes the first connections that come for those of the nodes
\* (builder_unit.cpp:102).  While nothing fails but what is tried again, each
\* node is among them once, whatever the order: no peer is left out because
\* another one was counted twice.
EachNodeOnce ==
    faults = 0 =>
      \A n \in Nodes :
        /\ \A p, q \in DOMAIN peers[n] : peers[n][p].from = peers[n][q].from => p = q
        /\ Len(peers[n]) <= NumNodes

\* Nothing that is tried again ends a process: an assert (readout_unit.cpp:43)
\* or an exception of the builder unit (builder_unit.cpp:106) needs a fault.
EndsNeedFault ==
    \A n \in Nodes : main[n] \in {"asserted", "terminated"} => faults > 0

\* A node that runs has both sides of its connections: its builder unit all it
\* will ever get, with their receive buffers posted, and its readout unit one
\* that was accepted for each builder unit, though not always with its receive
\* buffers posted yet (main.cpp:220).  So if all nodes run, each builder unit is
\* connected to all readout units, which is what EventBuilder starts from, even
\* if a connection was accepted and then lost on the way (connector.cpp:76).
RunningIsConnected ==
    \A n \in Nodes :
      main[n] = "running" =>
        /\ bu[n] = "done" /\ Len(peers[n]) = NumNodes
        /\ \A m \in Nodes : Right(m, n)

\* The nodes do not wait for each other, in whatever order they start: all of
\* them get to run, unless a fault happens.
AllRun == (\A n \in Nodes : <>(main[n] = "running")) \/ <>(faults > 0)

\* "Connection already present" (readout_unit.cpp:43): no entry is made twice.
NeverAlreadyPresent == \A n \in Nodes : main[n] # "asserted"
=============================================================================
