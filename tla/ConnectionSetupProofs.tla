------------------------ MODULE ConnectionSetupProofs -----------------------
(***************************************************************************)
(* That the nodes come up connected, for every number of nodes and of      *)
(* faults.                                                                 *)
(***************************************************************************)
EXTENDS ConnectionSetup, DataLemmas

\* What the places of the threads say of their counters.
Places ==
    \A n \in Nodes :
      /\ ru[n] = "done" <=> pos[n] = NumNodes
      /\ ru[n] \in {"waiting", "setup", "register"} => attempt[n] # None
      /\ bu[n] \in {"listen", "accept"} => Len(peers[n]) < NumNodes
      /\ bu[n] = "register" => Len(peers[n]) <= NumNodes
      /\ bu[n] = "done" => Len(peers[n]) = NumNodes
      /\ main[n] = "running" => Joined(n)

\* A request that is awaited waits at the node it was sent to; no request is
\* from the future.
Requests ==
    \A n \in Nodes : \A p \in DOMAIN backlog[n] :
      LET r == backlog[n][p]
      IN  /\ r.num <= attempt[r.from]
          /\ Awaited(r) => Target(r.from) = n

\* The readout unit has a connection to all nodes it is past.
Past ==
    \A n \in Nodes :
      /\ ru[n] = "register" => kept[n][Target(n)] # None
      /\ \A p \in Nodes : p < pos[n] => kept[n][SeqId(n, p)] # None

\* Every connection a readout unit has was accepted.
Matched ==
    \A n \in Nodes :
      /\ \A m \in Nodes : kept[n][m] # None => Right(m, n)
      /\ ru[n] = "setup" => In(Current(n), peers[Target(n)])

\* Node n is past its p-th node, or has made the connection to it.
Made(n, p) ==
    p < pos[n] \/ (p = pos[n] /\ ru[n] \in {"setup", "register"})

\* As long as nothing fails, each request is awaited, and made once; what was
\* accepted was made, and what is kept was registered.
Undisturbed ==
    faults = 0 =>
      \A n \in Nodes :
        /\ main[n] \notin {"asserted", "terminated"}
        /\ \A p \in DOMAIN backlog[n] : Awaited(backlog[n][p])
        /\ \A p, q \in DOMAIN backlog[n] : backlog[n][p].from = backlog[n][q].from => p = q
        /\ \A p, q \in DOMAIN peers[n] : peers[n][p].from = peers[n][q].from => p = q
        /\ \A p \in DOMAIN peers[n] : \A q \in Nodes :
             SeqId(peers[n][p].from, q) = n => Made(peers[n][p].from, q)
        /\ \A q \in Nodes :
             kept[n][SeqId(n, q)] # None => q < pos[n] \/ (q = pos[n] /\ ru[n] = "register")

SetupInv == TypeOK /\ Places /\ Requests /\ Past /\ Matched /\ Undisturbed
-----------------------------------------------------------------------------
LEMMA NodesFacts == NumNodes \in Nat \ {0} /\ MaxFaults \in Nat /\ Nodes = 0 .. NumNodes - 1
BY NodesAssumption, FaultsAssumption DEF Nodes

\* The sequence of a node goes through all nodes once.
LEMMA SeqIdPermutes ==
  ASSUME NEW n \in Nodes
  PROVE  /\ \A p \in Nodes : SeqId(n, p) \in Nodes
         /\ \A p, q \in Nodes : SeqId(n, p) = SeqId(n, q) => p = q
         /\ \A m \in Nodes : \E p \in Nodes : SeqId(n, p) = m
<1> USE NodesFacts
<1>1. ASSUME NEW p \in Nodes
      PROVE  SeqId(n, p) = IF n + 1 + p < NumNodes THEN n + 1 + p ELSE n + 1 + p - NumNodes
  BY DEF SeqId
<1>2. ASSUME NEW m \in Nodes PROVE \E p \in Nodes : SeqId(n, p) = m
  <2> DEFINE p == IF m > n THEN m - n - 1 ELSE m + NumNodes - n - 1
  <2>1. p \in Nodes
    OBVIOUS
  <2>2. SeqId(n, p) = m
    BY <1>1, <2>1
  <2> QED BY <2>1, <2>2
<1>3. ASSUME NEW p \in Nodes, NEW q \in Nodes, SeqId(n, p) = SeqId(n, q) PROVE p = q
  BY <1>1, <1>3
<1>4. \A p \in Nodes : SeqId(n, p) \in Nodes
  BY <1>1
<1> QED BY <1>2, <1>3, <1>4

\* What the types say of a queue of connections.
LEMMA QueueTypes ==
  ASSUME TypeOK, NEW n \in Nodes
  PROVE  /\ backlog[n] \in Seq(Connection) /\ Len(backlog[n]) \in Nat
         /\ DOMAIN backlog[n] = 1 .. Len(backlog[n])
         /\ \A p \in DOMAIN backlog[n] :
              /\ backlog[n][p] \in Connection
              /\ backlog[n][p].from \in Nodes /\ backlog[n][p].num \in Nat \ {0}
         /\ peers[n] \in Seq(Connection) /\ Len(peers[n]) \in Nat
         /\ DOMAIN peers[n] = 1 .. Len(peers[n])
         /\ \A p \in DOMAIN peers[n] :
              /\ peers[n][p] \in Connection
              /\ peers[n][p].from \in Nodes /\ peers[n][p].num \in Nat \ {0}
<1>1. backlog[n] \in Seq(Connection) /\ peers[n] \in Seq(Connection)
  BY DEF TypeOK
<1>2. \A r \in Connection : r.from \in Nodes /\ r.num \in Nat \ {0}
  BY DEF Connection
<1> QED BY <1>1, <1>2, SeqType

LEMMA PlaceTypes ==
  ASSUME TypeOK, Places, NEW n \in Nodes
  PROVE  /\ pos[n] \in 0 .. NumNodes /\ attempt[n] \in Nat
         /\ ru[n] # "done" => pos[n] \in Nodes /\ Target(n) \in Nodes
<1>1. pos[n] \in 0 .. NumNodes /\ attempt[n] \in Nat
  BY DEF TypeOK
<1>2. ru[n] # "done" => pos[n] \in Nodes
  BY <1>1, NodesFacts DEF Places
<1> QED BY <1>1, <1>2, SeqIdPermutes DEF Target

LEMMA InitSetupInv == Init => SetupInv
<1> SUFFICES ASSUME Init PROVE SetupInv
  OBVIOUS
<1>1. TypeOK
  <2>1. <<>> \in Seq(Connection) /\ 0 \in 0 .. NumNodes /\ 0 \in 0 .. MaxFaults
    BY NodesFacts
  <2> QED BY <2>1 DEF Init, TypeOK, None
<1>2. \A n \in Nodes :
        /\ main[n] = "joining" /\ ru[n] = "connect" /\ bu[n] = "listen"
        /\ pos[n] = 0 /\ attempt[n] = 0
        /\ backlog[n] = <<>> /\ DOMAIN backlog[n] = {}
        /\ peers[n] = <<>> /\ DOMAIN peers[n] = {}
        /\ \A m \in Nodes : kept[n][m] = None
  BY DEF Init
<1>3. \A n \in Nodes : \A p \in Nodes : SeqId(n, p) \in Nodes
  BY SeqIdPermutes
<1>4. Places
  BY <1>2, NodesFacts DEF Places
<1>5. Requests
  BY <1>2 DEF Requests
<1>6. Past
  BY <1>2, NodesFacts DEF Past
<1>7. Matched
  BY <1>2 DEF Matched
<1>8. Undisturbed
  BY <1>2, <1>3 DEF Undisturbed
<1> QED BY <1>1, <1>4, <1>5, <1>6, <1>7, <1>8 DEF SetupInv

\* The steps of a readout unit that only take it back to connecting.
BackToConnect(n) ==
    /\ ru' = [ru EXCEPT ![n] = "connect"]
    /\ UNCHANGED <<main, pos, attempt, kept, bu, backlog, peers>>
    /\ \/ faults < MaxFaults /\ faults' = faults + 1
       \/ faults' = faults /\ (ru[n] = "connect" \/ Rejected(n))

LEMMA BackSetupInv ==
  ASSUME SetupInv, NEW n \in Nodes, BackToConnect(n), Joining(n), ru[n] # "done"
  PROVE  SetupInv'
<1> USE NodesFacts DEF SetupInv
<1>1. TypeOK'
  <2>1. /\ ru' = [ru EXCEPT ![n] = "connect"]
        /\ faults' = faults \/ (faults < MaxFaults /\ faults' = faults + 1)
    BY Zenon DEF BackToConnect
  <2>2. ru' \in [Nodes -> {"connect", "waiting", "setup", "register", "done"}]
    BY <2>1 DEF TypeOK
  <2>3. faults' \in 0 .. MaxFaults
    <3>1. faults \in 0 .. MaxFaults
      BY Zenon DEF TypeOK
    <3> QED BY <2>1, <3>1
  <2> QED BY <2>2, <2>3 DEF BackToConnect, TypeOK
<1>2. Places'
  BY DEF BackToConnect, TypeOK, Places, Joined, Joining
<1>3. Requests'
  <2>1. \A r \in Connection : Awaited(r)' => Awaited(r)
    BY DEF BackToConnect, TypeOK, Awaited, Joining, Connection
  <2>2. \A m \in Nodes : Target(m)' = Target(m)
    BY DEF BackToConnect, Target
  <2> QED BY <2>1, <2>2, QueueTypes DEF BackToConnect, Requests
<1>4. Past'
  BY DEF BackToConnect, TypeOK, Past, Target
<1>5. Matched'
  <2>1. \A m, k \in Nodes : Right(m, k)' = Right(m, k)
    BY DEF BackToConnect, Right
  <2>2. \A m \in Nodes :
          ru'[m] = "setup" => ru[m] = "setup" /\ Current(m)' = Current(m) /\ Target(m)' = Target(m)
    BY DEF BackToConnect, TypeOK, Current, Target
  <2> QED BY <2>1, <2>2 DEF BackToConnect, Matched, In
<1>6. Undisturbed'
  <2> SUFFICES ASSUME faults' = 0 PROVE Undisturbed'
    BY DEF Undisturbed
  <2>1. faults = 0 /\ (ru[n] = "connect" \/ Rejected(n))
    BY DEF BackToConnect, TypeOK
  <2>2. ASSUME NEW m \in Nodes, NEW p \in DOMAIN backlog[m] PROVE backlog[m][p].from # n
    <3>1. Awaited(backlog[m][p])
      BY <2>1 DEF Undisturbed
    <3>2. backlog[m][p] \in Connection
      BY QueueTypes
    <3>3. ASSUME backlog[m][p].from = n PROVE FALSE
      <4>1. backlog[m][p] = Current(n) /\ Target(n) = m
        BY <3>1, <3>2, <3>3 DEF Requests, Awaited, Current, Connection
      <4>2. Rejected(n)
        BY <2>1, <3>1, <3>3 DEF Awaited
      <4> QED BY <4>1, <4>2 DEF Rejected, In
    <3> QED BY <3>3
  <2>3. ASSUME NEW m \in Nodes, NEW p \in DOMAIN backlog[m] PROVE Awaited(backlog[m][p])'
    <3>1. Awaited(backlog[m][p])
      BY <2>1 DEF Undisturbed
    <3> QED BY <2>2, <3>1, QueueTypes DEF BackToConnect, TypeOK, Awaited, Joining
  <2>4. \A m, p \in Nodes : Made(m, p)' = Made(m, p)
    BY <2>1 DEF BackToConnect, TypeOK, Made, Rejected
  <2>5. \A m \in Nodes : ru'[m] = "register" <=> ru[m] = "register"
    BY <2>1 DEF BackToConnect, TypeOK, Rejected
  <2> QED BY <2>1, <2>3, <2>4, <2>5, QueueTypes DEF BackToConnect, Undisturbed
<1> QED BY <1>1, <1>2, <1>3, <1>4, <1>5, <1>6

\* The ends of a process, all of which come after a fault.
LEMMA EndSetupInv ==
  ASSUME SetupInv, NEW n \in Nodes, NEW how \in {"asserted", "terminated"},
         Joining(n), EndProcess(n, how), UNCHANGED <<ruVars, bu, peers>>,
         faults' \in 1 .. MaxFaults
  PROVE  SetupInv'
<1> USE DEF SetupInv, EndProcess, ruVars
<1>1. TypeOK'
  <2>1. <<>> \in Seq(Connection)
    OBVIOUS
  <2>2. backlog' \in [Nodes -> Seq(Connection)]
    BY <2>1 DEF TypeOK
  <2>3. main' \in [Nodes -> {"joining", "running", "asserted", "terminated", "timeout"}]
    BY DEF TypeOK
  <2>4. faults' \in 0 .. MaxFaults
    BY NodesFacts
  <2> QED BY <2>2, <2>3, <2>4 DEF TypeOK
<1>2. Places'
  BY DEF TypeOK, Places, Joined, Joining
<1>3. Requests'
  <2>1. \A r \in Connection : Awaited(r)' => Awaited(r)
    BY DEF TypeOK, Awaited, Joining, Connection
  <2>2. \A m \in Nodes : Target(m)' = Target(m)
    BY DEF Target
  <2>3. \A m \in Nodes : backlog'[m] = IF m = n THEN <<>> ELSE backlog[m]
    BY DEF TypeOK
  <2> QED BY <2>1, <2>2, <2>3, QueueTypes DEF Requests
<1>4. Past'
  BY DEF Past, Target
<1>5. Matched'
  BY DEF Matched, Right, In, Current, Target
<1>6. Undisturbed'
  BY DEF Undisturbed
<1> QED BY <1>1, <1>2, <1>3, <1>4, <1>5, <1>6

LEMMA RequestSetupInv ==
  ASSUME SetupInv, NEW n \in Nodes, Request(n)
  PROVE  SetupInv'
<1> USE DEF SetupInv
<1>1. PICK r \in Connection, t \in Nodes :
        /\ r = Current(n)' /\ r.from = n /\ r.num = attempt[n] + 1 /\ t = Target(n)
  <2>1. attempt[n] \in Nat /\ attempt'[n] = attempt[n] + 1
    BY PlaceTypes DEF Request, TypeOK
  <2>2. Current(n)' = [from |-> n, num |-> attempt[n] + 1]
    BY <2>1 DEF Current
  <2>3. [from |-> n, num |-> attempt[n] + 1] \in Connection
    BY <2>1 DEF Connection
  <2>4. Target(n) \in Nodes
    BY PlaceTypes DEF Request
  <2> QED BY <2>2, <2>3, <2>4, Zenon
<1>2. /\ Joining(n) /\ ru[n] = "connect"
      /\ attempt' = [attempt EXCEPT ![n] = attempt[n] + 1]
      /\ backlog' = [backlog EXCEPT ![t] = Append(backlog[t], r)]
      /\ ru' = [ru EXCEPT ![n] = "waiting"]
      /\ UNCHANGED <<main, pos, kept, bu, peers, faults>>
  BY <1>1 DEF Request
<1>3. TypeOK'
  <2>1. Append(backlog[t], r) \in Seq(Connection)
    BY QueueTypes, SeqAppend
  <2>2. backlog' \in [Nodes -> Seq(Connection)]
    BY <1>2, <2>1 DEF TypeOK
  <2>3. ru' \in [Nodes -> {"connect", "waiting", "setup", "register", "done"}]
    BY <1>2 DEF TypeOK
  <2>4. attempt' \in [Nodes -> Nat]
    <3>1. attempt \in [Nodes -> Nat] /\ attempt[n] + 1 \in Nat
      BY PlaceTypes DEF TypeOK
    <3> QED BY <1>2, <3>1
  <2> QED BY <1>2, <2>2, <2>3, <2>4 DEF TypeOK
<1>4. /\ \A m \in Nodes : m # t => backlog'[m] = backlog[m]
      /\ DOMAIN backlog'[t] = 1 .. Len(backlog[t]) + 1
      /\ \A p \in 1 .. Len(backlog[t]) : backlog'[t][p] = backlog[t][p]
      /\ backlog'[t][Len(backlog[t]) + 1] = r
  BY <1>2, SeqAppend, SeqType, QueueTypes DEF TypeOK
<1>5. \A m \in Nodes : Target(m)' = Target(m)
  BY <1>2 DEF Target
<1>6. \A m \in Nodes :
        /\ attempt'[m] = IF m = n THEN attempt[n] + 1 ELSE attempt[m]
        /\ ru'[m] = IF m = n THEN "waiting" ELSE ru[m]
  BY <1>2 DEF TypeOK
<1>7. \A m, q \in Nodes : Made(m, q)' <=> Made(m, q)
  BY <1>2, <1>6 DEF Made
<1>8. ASSUME NEW x \in Connection, x.num <= attempt[x.from]
      PROVE  x.num <= attempt'[x.from] /\ (Awaited(x)' <=> Awaited(x))
  <2>1. x.from \in Nodes /\ x.num \in Nat
    BY DEF Connection
  <2>2. attempt[n] \in Nat
    BY PlaceTypes
  <2> QED BY <1>2, <1>6, <1>8, <2>1, <2>2 DEF Awaited, Joining
<1>9. Awaited(r)' /\ Target(r.from)' = t /\ r.num <= attempt'[r.from]
  BY <1>1, <1>2, <1>5, <1>6, PlaceTypes DEF Awaited, Joining
<1>10. ASSUME NEW m \in Nodes, NEW p \in DOMAIN backlog'[m]
       PROVE  \/ m = t /\ p = Len(backlog[t]) + 1 /\ backlog'[m][p] = r
              \/ /\ p \in DOMAIN backlog[m] /\ backlog'[m][p] = backlog[m][p]
                 /\ backlog[m][p] \in Connection
  <2>1. CASE m # t
    BY <1>4, <2>1, QueueTypes
  <2>2. CASE m = t
    <3>1. Len(backlog[t]) \in Nat /\ DOMAIN backlog[t] = 1 .. Len(backlog[t])
      BY QueueTypes
    <3>2. p \in 1 .. Len(backlog[t]) \/ p = Len(backlog[t]) + 1
      BY <1>4, <2>2, <3>1
    <3> QED BY <1>4, <2>2, <3>1, <3>2, QueueTypes
  <2> QED BY <2>1, <2>2
<1>11. Places'
  BY <1>2, <1>6, PlaceTypes DEF Places, Joined, Joining, None
<1>12. Requests'
  <2> SUFFICES ASSUME NEW m \in Nodes, NEW p \in DOMAIN backlog'[m]
               PROVE  (LET x == backlog[m][p]
                       IN  x.num <= attempt[x.from] /\ (Awaited(x) => Target(x.from) = m))'
    BY DEF Requests
  <2>1. CASE p \in DOMAIN backlog[m] /\ backlog'[m][p] = backlog[m][p]
    <3>1. PICK x \in Connection : x = backlog[m][p]
      BY <2>1, QueueTypes
    <3>2. x.num <= attempt[x.from] /\ (Awaited(x) => Target(x.from) = m) /\ x.from \in Nodes
      BY <2>1, <3>1 DEF Requests, Connection
    <3> QED BY <1>5, <1>8, <2>1, <3>1, <3>2 DEF Awaited, Joining
  <2>2. CASE m = t /\ backlog'[m][p] = r
    BY <1>9, <2>2 DEF Awaited, Joining
  <2> QED BY <1>10, <2>1, <2>2
<1>13. Past'
  BY <1>2, <1>5, <1>6 DEF Past
<1>14. Matched'
  <2>1. \A m, k \in Nodes : Right(m, k)' = Right(m, k)
    BY <1>2 DEF Right
  <2>2. \A m \in Nodes : ru'[m] = "setup" => ru[m] = "setup" /\ Current(m)' = Current(m)
    BY <1>6 DEF Current
  <2> QED BY <1>2, <1>5, <2>1, <2>2 DEF Matched, In
<1>15. Undisturbed'
  <2> SUFFICES ASSUME faults' = 0 PROVE Undisturbed'
    BY DEF Undisturbed
  <2>1. faults = 0
    BY <1>2
  <2>2. \A m \in Nodes : \A p \in DOMAIN backlog[m] : backlog[m][p].from # n
    BY <1>2, <2>1 DEF Undisturbed, Awaited
  <2>3. ASSUME NEW m \in Nodes, NEW p \in DOMAIN backlog'[m] PROVE Awaited(backlog[m][p])'
    <3>1. CASE backlog'[m][p] = r
      BY <1>9, <3>1 DEF Awaited, Joining
    <3>2. CASE p \in DOMAIN backlog[m] /\ backlog'[m][p] = backlog[m][p]
      <4>1. PICK x \in Connection : x = backlog[m][p]
        BY <3>2, QueueTypes
      <4>2. x.num <= attempt[x.from] /\ Awaited(x)
        BY <2>1, <3>2, <4>1 DEF Requests, Undisturbed
      <4> QED BY <1>8, <3>2, <4>1, <4>2 DEF Awaited, Joining
    <3> QED BY <1>10, <3>1, <3>2
  <2>4. ASSUME NEW m \in Nodes, NEW p \in DOMAIN backlog'[m], NEW q \in DOMAIN backlog'[m],
               backlog'[m][p].from = backlog'[m][q].from
        PROVE  p = q
    BY <1>1, <1>10, <2>1, <2>2, <2>4 DEF Undisturbed
  <2>5. \A m \in Nodes : ru'[m] = "register" <=> ru[m] = "register"
    BY <1>2, <1>6
  <2> QED BY <1>2, <1>7, <2>1, <2>3, <2>4, <2>5, QueueTypes DEF Undisturbed
<1> QED BY <1>3, <1>11, <1>12, <1>13, <1>14, <1>15

LEMMA EmplaceSetupInv ==
  ASSUME SetupInv, NEW n \in Nodes, Emplace(n)
  PROVE  SetupInv'
<1> USE DEF SetupInv
<1>1. PICK t \in Nodes : t = Target(n)
  BY PlaceTypes DEF Emplace
<1>2. /\ Joining(n) /\ ru[n] = "setup" /\ kept[n][t] = None
      /\ kept' = [kept EXCEPT ![n][t] = attempt[n]]
      /\ ru' = [ru EXCEPT ![n] = "register"]
      /\ UNCHANGED <<main, pos, attempt, bu, backlog, peers, faults>>
  BY <1>1 DEF Emplace, buVars
<1>3. attempt[n] \in Nat /\ attempt[n] # None
  BY <1>2, PlaceTypes DEF Places
<1>4. /\ \A m \in Nodes : ru'[m] = IF m = n THEN "register" ELSE ru[m]
      /\ \A m, k \in Nodes :
           kept'[m][k] = IF m = n /\ k = t THEN attempt[n] ELSE kept[m][k]
  BY <1>2 DEF TypeOK
<1>5. TypeOK'
  <2>1. /\ ru' \in [Nodes -> {"connect", "waiting", "setup", "register", "done"}]
        /\ kept' \in [Nodes -> [Nodes -> Nat]]
    BY <1>2, <1>3 DEF TypeOK
  <2> QED BY <1>2, <2>1 DEF TypeOK
<1>6. \A m \in Nodes : Target(m)' = Target(m)
  BY <1>2 DEF Target
<1>7. \A x \in Connection : Awaited(x)' <=> Awaited(x)
  BY <1>2, <1>4 DEF Awaited, Joining, Connection
<1>8. Places'
  BY <1>2, <1>3, <1>4 DEF Places, Joined
<1>9. Requests'
  BY <1>2, <1>6, <1>7, QueueTypes DEF Requests
<1>10. Past'
  <2>1. \A m, k \in Nodes : kept[m][k] # None => kept'[m][k] # None
    BY <1>3, <1>4
  <2>2. ASSUME NEW m \in Nodes, ru'[m] = "register" PROVE kept'[m][Target(m)] # None
    <3>1. CASE m = n
      BY <1>1, <1>3, <1>4, <3>1
    <3>2. CASE m # n
      <4>1. ru[m] = "register" /\ Target(m) \in Nodes
        BY <1>4, <2>2, <3>2, PlaceTypes
      <4> QED BY <2>1, <4>1 DEF Past
    <3> QED BY <3>1, <3>2
  <2>3. ASSUME NEW m \in Nodes, NEW p \in Nodes, p < pos[m] PROVE kept'[m][SeqId(m, p)] # None
    <3>1. SeqId(m, p) \in Nodes
      BY SeqIdPermutes
    <3> QED BY <2>1, <2>3, <3>1 DEF Past
  <2> QED BY <1>2, <1>6, <2>2, <2>3 DEF Past
<1>11. Matched'
  <2>1. Right(t, n)'
    BY <1>1, <1>2, <1>4 DEF Matched, In, Current, Right
  <2>2. \A m, k \in Nodes : ~ (m = n /\ k = t) => (Right(k, m)' <=> Right(k, m))
    BY <1>2, <1>4 DEF Right
  <2>3. \A m \in Nodes : ru'[m] = "setup" => ru[m] = "setup" /\ Current(m)' = Current(m)
    BY <1>2, <1>4 DEF Current
  <2> QED BY <1>2, <1>4, <1>6, <2>1, <2>2, <2>3 DEF Matched, In
<1>12. Undisturbed'
  <2>1. \A m, q \in Nodes : Made(m, q)' <=> Made(m, q)
    BY <1>2, <1>4 DEF Made
  <2>2. ASSUME NEW q \in Nodes, SeqId(n, q) = t PROVE q = pos[n]
    <3>1. pos[n] \in Nodes /\ SeqId(n, pos[n]) = t
      BY <1>1, <1>2, PlaceTypes DEF Target
    <3>2. \A a, b \in Nodes : SeqId(n, a) = SeqId(n, b) => a = b
      BY SeqIdPermutes
    <3> QED BY <2>2, <3>1, <3>2, Zenon
  <2>3. ASSUME faults = 0, NEW m \in Nodes, NEW q \in Nodes, kept'[m][SeqId(m, q)] # None
        PROVE  q < pos[m] \/ (q = pos[m] /\ ru'[m] = "register")
    <3>1. SeqId(m, q) \in Nodes
      BY SeqIdPermutes
    <3>2. CASE m = n /\ SeqId(m, q) = t
      BY <1>4, <2>2, <3>2
    <3>3. CASE ~ (m = n /\ SeqId(m, q) = t)
      <4>1. kept[m][SeqId(m, q)] # None
        BY <1>4, <2>3, <3>1, <3>3
      <4> QED BY <1>2, <1>4, <2>3, <4>1 DEF Undisturbed
    <3> QED BY <3>2, <3>3
  <2> QED BY <1>2, <1>7, <2>1, <2>3, QueueTypes DEF Undisturbed
<1> QED BY <1>5, <1>8, <1>9, <1>10, <1>11, <1>12

LEMMA RegisteredSetupInv ==
  ASSUME SetupInv, NEW n \in Nodes, Registered(n)
  PROVE  SetupInv'
<1> USE DEF SetupInv
<1>1. /\ Joining(n) /\ ru[n] = "register"
      /\ pos' = [pos EXCEPT ![n] = pos[n] + 1]
      /\ ru' = [ru EXCEPT ![n] = IF pos[n] + 1 = NumNodes THEN "done" ELSE "connect"]
      /\ UNCHANGED <<main, attempt, kept, bu, backlog, peers, faults>>
  BY DEF Registered, PosAfter, buVars
<1>2. pos[n] \in Nodes /\ pos[n] \in Nat
  BY <1>1, NodesFacts, PlaceTypes
<1>3. \A m \in Nodes :
        /\ pos'[m] = IF m = n THEN pos[n] + 1 ELSE pos[m]
        /\ ru'[m] = IF m = n THEN (IF pos[n] + 1 = NumNodes THEN "done" ELSE "connect")
                    ELSE ru[m]
  BY <1>1 DEF TypeOK
<1>4. TypeOK'
  <2>1. pos' \in [Nodes -> 0 .. NumNodes]
    <3>1. pos[n] + 1 \in 0 .. NumNodes
      BY <1>2, NodesFacts
    <3> QED BY <1>1, <3>1 DEF TypeOK
  <2>2. ru' \in [Nodes -> {"connect", "waiting", "setup", "register", "done"}]
    BY <1>1 DEF TypeOK
  <2> QED BY <1>1, <2>1, <2>2 DEF TypeOK
<1>5. \A m \in Nodes : m # n => Target(m)' = Target(m)
  BY <1>3 DEF Target
<1>6. \A x \in Connection : Awaited(x)' <=> Awaited(x)
  BY <1>1, <1>3 DEF Awaited, Joining, Connection
<1>7. \A x \in Connection : Awaited(x) => x.from # n
  BY <1>1 DEF Awaited
<1>8. Places'
  <2>1. ASSUME NEW m \in Nodes PROVE ru'[m] = "done" <=> pos'[m] = NumNodes
    BY <1>2, <1>3, NodesFacts DEF Places
  <2> QED BY <1>1, <1>3, <2>1 DEF Places, Joined, Joining
<1>9. Requests'
  <2> SUFFICES ASSUME NEW m \in Nodes, NEW p \in DOMAIN backlog[m]
               PROVE  (LET x == backlog[m][p]
                       IN  x.num <= attempt[x.from] /\ (Awaited(x) => Target(x.from) = m))'
    BY <1>1 DEF Requests
  <2>1. PICK x \in Connection : x = backlog[m][p]
    BY QueueTypes
  <2>2. x.num <= attempt[x.from] /\ (Awaited(x) => Target(x.from) = m) /\ x.from \in Nodes
    BY <2>1 DEF Requests, Connection
  <2> QED BY <1>1, <1>5, <1>6, <1>7, <2>1, <2>2 DEF Awaited, Joining
<1>10. Past'
  <2>1. ASSUME NEW m \in Nodes, NEW p \in Nodes, p < pos'[m] PROVE kept[m][SeqId(m, p)] # None
    <3>1. m = n /\ p = pos[n] => kept[m][SeqId(m, p)] # None
      BY <1>1 DEF Past, Target
    <3>2. p < pos[m] => kept[m][SeqId(m, p)] # None
      BY DEF Past
    <3>3. p \in Nat
      BY NodesFacts
    <3> QED BY <1>2, <1>3, <2>1, <3>1, <3>2, <3>3
  <2> QED BY <1>1, <1>3, <1>5, <2>1 DEF Past
<1>11. Matched'
  <2>1. \A m, k \in Nodes : Right(m, k)' <=> Right(m, k)
    BY <1>1 DEF Right
  <2>2. \A m \in Nodes :
          ru'[m] = "setup" => m # n /\ ru[m] = "setup" /\ Current(m)' = Current(m)
    BY <1>1, <1>3 DEF Current
  <2> QED BY <1>1, <1>5, <2>1, <2>2 DEF Matched, In
<1>12. Undisturbed'
  <2>1. ASSUME NEW m \in Nodes, NEW q \in Nodes, Made(m, q) PROVE Made(m, q)'
    BY <1>1, <1>2, <1>3, <2>1, NodesFacts DEF Made
  <2>2. ASSUME faults = 0, NEW m \in Nodes, NEW q \in Nodes, kept[m][SeqId(m, q)] # None
        PROVE  q < pos'[m] \/ (q = pos'[m] /\ ru'[m] = "register")
    BY <1>1, <1>2, <1>3, <2>2, NodesFacts DEF Undisturbed
  <2> QED BY <1>1, <1>6, <2>1, <2>2, QueueTypes DEF Undisturbed
<1> QED BY <1>4, <1>8, <1>9, <1>10, <1>11, <1>12


LEMMA AcceptSetupInv ==
  ASSUME SetupInv, NEW n \in Nodes, Accept(n)
  PROVE  SetupInv'
<1> USE DEF SetupInv
<1>1. PICK r \in Connection, k \in Nodes : r = Head(backlog[n]) /\ k = r.from
  BY QueueTypes, SeqTail DEF Accept, Connection
<1>2. /\ Joining(n) /\ bu[n] = "accept" /\ backlog[n] # <<>> /\ Awaited(r)
      /\ ru' = [ru EXCEPT ![k] = "setup"]
      /\ peers' = [peers EXCEPT ![n] = Append(peers[n], r)]
      /\ backlog' = [backlog EXCEPT ![n] = Tail(backlog[n])]
      /\ bu' = [bu EXCEPT ![n] = "register"]
      /\ UNCHANGED <<main, pos, attempt, kept, faults>>
  BY <1>1 DEF Accept
<1>3. PICK left \in Seq(Connection) :
        /\ left = Tail(backlog[n])
        /\ Len(backlog[n]) \in Nat \ {0} /\ r = backlog[n][1]
        /\ DOMAIN left = 1 .. Len(backlog[n]) - 1
        /\ \A p \in 1 .. Len(backlog[n]) - 1 : left[p] = backlog[n][p + 1]
  <2>1. Tail(backlog[n]) \in Seq(Connection) /\ Len(Tail(backlog[n])) = Len(backlog[n]) - 1
    BY <1>1, <1>2, QueueTypes, SeqTail
  <2>2. DOMAIN Tail(backlog[n]) = 1 .. Len(backlog[n]) - 1
    BY <2>1, SeqType
  <2> QED BY <1>1, <1>2, <2>1, <2>2, QueueTypes, SeqTail
<1>4. PICK more \in Seq(Connection) :
        /\ more = Append(peers[n], r)
        /\ Len(peers[n]) \in Nat /\ Len(more) = Len(peers[n]) + 1
        /\ DOMAIN more = 1 .. Len(peers[n]) + 1
        /\ \A p \in 1 .. Len(peers[n]) + 1 :
             more[p] = IF p <= Len(peers[n]) THEN peers[n][p] ELSE r
  <2>1. Append(peers[n], r) \in Seq(Connection) /\ Len(Append(peers[n], r)) = Len(peers[n]) + 1
    BY QueueTypes, SeqAppend
  <2>2. DOMAIN Append(peers[n], r) = 1 .. Len(peers[n]) + 1
    BY <2>1, SeqType
  <2>3. /\ Len(peers[n]) \in Nat
        /\ \A p \in 1 .. Len(peers[n]) + 1 :
             Append(peers[n], r)[p] = IF p <= Len(peers[n]) THEN peers[n][p] ELSE r
    BY QueueTypes, SeqAppend
  <2> QED BY <2>1, <2>2, <2>3, Zenon
<1>5. /\ Joining(k) /\ ru[k] = "waiting" /\ r = Current(k) /\ Target(k) = n
      /\ 1 \in DOMAIN backlog[n]
  <2>1. 1 \in DOMAIN backlog[n]
    BY <1>3, QueueTypes
  <2>2. Joining(k) /\ ru[k] = "waiting" /\ attempt[k] = r.num
    BY <1>1, <1>2 DEF Awaited
  <2>3. Target(k) = n
    BY <1>1, <1>2, <1>3, <2>1 DEF Requests
  <2> QED BY <1>1, <2>1, <2>2, <2>3 DEF Current, Connection
<1>6. /\ \A m \in Nodes : ru'[m] = IF m = k THEN "setup" ELSE ru[m]
      /\ \A m \in Nodes : bu'[m] = IF m = n THEN "register" ELSE bu[m]
      /\ peers'[n] = more /\ \A m \in Nodes : m # n => peers'[m] = peers[m]
      /\ backlog'[n] = left /\ \A m \in Nodes : m # n => backlog'[m] = backlog[m]
  BY <1>2, <1>3, <1>4 DEF TypeOK
<1>7. TypeOK'
  <2>1. ru' \in [Nodes -> {"connect", "waiting", "setup", "register", "done"}]
    BY <1>2 DEF TypeOK
  <2>2. bu' \in [Nodes -> {"listen", "accept", "register", "done"}]
    BY <1>2 DEF TypeOK
  <2>3. backlog' \in [Nodes -> Seq(Connection)]
    BY <1>2, <1>3 DEF TypeOK
  <2>4. peers' \in [Nodes -> Seq(Connection)]
    BY <1>2, <1>4 DEF TypeOK
  <2> QED BY <1>2, <2>1, <2>2, <2>3, <2>4 DEF TypeOK
<1>8. ASSUME NEW m \in Nodes, NEW p \in DOMAIN backlog'[m]
      PROVE  /\ backlog'[m][p] \in Connection
             /\ \E q \in DOMAIN backlog[m] :
                  /\ backlog'[m][p] = backlog[m][q]
                  /\ q = IF m = n THEN p + 1 ELSE p
  <2>1. CASE m = n
    <3>1. p \in 1 .. Len(backlog[n]) - 1
      BY <1>3, <1>6, <1>8, <2>1
    <3>2. p + 1 \in DOMAIN backlog[n]
      BY <1>3, <3>1, QueueTypes
    <3>3. backlog'[n][p] = backlog[n][p + 1]
      BY <1>3, <1>6, <3>1, Zenon
    <3> QED BY <2>1, <3>2, <3>3, QueueTypes
  <2>2. CASE m # n
    BY <1>6, <1>8, <2>2, QueueTypes
  <2> QED BY <2>1, <2>2
<1>9. ASSUME NEW m \in Nodes, NEW p \in DOMAIN peers'[m]
      PROVE  \/ m = n /\ p = Len(peers[n]) + 1 /\ peers'[m][p] = r
             \/ p \in DOMAIN peers[m] /\ peers'[m][p] = peers[m][p]
  <2>1. CASE m = n
    <3>1. p \in 1 .. Len(peers[n]) + 1
      BY <1>4, <1>6, <1>9, <2>1
    <3>2. more[p] = IF p <= Len(peers[n]) THEN peers[n][p] ELSE r
      BY <1>4, <3>1, Zenon
    <3>3. \/ p <= Len(peers[n]) /\ p \in 1 .. Len(peers[n])
          \/ p = Len(peers[n]) + 1 /\ ~ (p <= Len(peers[n]))
      BY <3>1, QueueTypes
    <3>4. p \in 1 .. Len(peers[n]) => p \in DOMAIN peers[n]
      BY QueueTypes
    <3> QED BY <1>6, <2>1, <3>2, <3>3, <3>4, Zenon
  <2>2. CASE m # n
    BY <1>6, <1>9, <2>2
  <2> QED BY <2>1, <2>2
<1>10. ASSUME NEW m \in Nodes, NEW p \in DOMAIN peers[m]
       PROVE  p \in DOMAIN peers'[m] /\ peers'[m][p] = peers[m][p]
  <2>1. CASE m = n
    <3>1. p \in 1 .. Len(peers[n]) /\ Len(peers[n]) \in Nat
      BY <1>10, <2>1, QueueTypes
    <3>2. p \in 1 .. Len(peers[n]) + 1 /\ p <= Len(peers[n])
      BY <3>1
    <3>3. p \in DOMAIN more /\ more[p] = peers[n][p]
      BY <1>4, <3>2, Zenon
    <3> QED BY <1>6, <2>1, <3>3, Zenon
  <2>2. CASE m # n
    BY <1>6, <1>10, <2>2
  <2> QED BY <2>1, <2>2
<1>11. Len(peers[n]) + 1 \in DOMAIN peers'[n] /\ peers'[n][Len(peers[n]) + 1] = r
  <2>1. Len(peers[n]) + 1 \in 1 .. Len(peers[n]) + 1 /\ ~ (Len(peers[n]) + 1 <= Len(peers[n]))
    BY QueueTypes
  <2>2. Len(peers[n]) + 1 \in DOMAIN more /\ more[Len(peers[n]) + 1] = r
    BY <1>4, <2>1, Zenon
  <2> QED BY <1>6, <2>2, Zenon
<1>12. \A m \in Nodes : Target(m)' = Target(m) /\ Current(m)' = Current(m)
  BY <1>2 DEF Target, Current
<1>13. \A x \in Connection :
         /\ Awaited(x)' => Awaited(x)
         /\ Awaited(x) /\ x.from # k => Awaited(x)'
  BY <1>2, <1>6 DEF Awaited, Joining, Connection
<1>14. Places'
  <2>1. Len(peers[n]) < NumNodes
    BY <1>2 DEF Places
  <2>2. Len(peers'[n]) <= NumNodes
    <3>1. Len(peers'[n]) = Len(peers[n]) + 1
      BY <1>4, <1>6, Zenon
    <3> QED BY <2>1, <3>1, QueueTypes, NodesFacts
  <2>3. main[n] = "joining" /\ main[k] = "joining"
    BY <1>2, <1>5 DEF Joining
  <2>4. ASSUME NEW m \in Nodes
        PROVE  /\ ru'[m] = "done" <=> pos'[m] = NumNodes
               /\ ru'[m] \in {"waiting", "setup", "register"} => attempt'[m] # None
               /\ main'[m] = "running" => Joined(m)'
    BY <1>2, <1>5, <1>6, <2>3 DEF Places, Joined
  <2>5. ASSUME NEW m \in Nodes
        PROVE  /\ bu'[m] \in {"listen", "accept"} => Len(peers'[m]) < NumNodes
               /\ bu'[m] = "register" => Len(peers'[m]) <= NumNodes
               /\ bu'[m] = "done" => Len(peers'[m]) = NumNodes
    BY <1>6, <2>2 DEF Places
  <2> QED BY <2>4, <2>5 DEF Places
<1>15. Requests'
  <2> SUFFICES ASSUME NEW m \in Nodes, NEW p \in DOMAIN backlog'[m]
               PROVE  (LET x == backlog[m][p]
                       IN  x.num <= attempt[x.from] /\ (Awaited(x) => Target(x.from) = m))'
    BY DEF Requests
  <2>1. PICK x \in Connection, q \in DOMAIN backlog[m] : x = backlog'[m][p] /\ x = backlog[m][q]
    BY <1>8
  <2>2. x.num <= attempt[x.from] /\ (Awaited(x) => Target(x.from) = m) /\ x.from \in Nodes
    BY <2>1 DEF Requests, Connection
  <2> QED BY <1>2, <1>12, <1>13, <2>1, <2>2 DEF Awaited, Joining
<1>16. Past'
  BY <1>2, <1>6, <1>12 DEF Past
<1>17. Matched'
  <2>1. ASSUME NEW x, NEW m \in Nodes, In(x, peers[m]) PROVE \E p \in DOMAIN peers'[m] : peers'[m][p] = x
    BY <1>10, <2>1 DEF In
  <2>2. ASSUME NEW m \in Nodes, NEW j \in Nodes, Right(m, j) PROVE Right(m, j)'
    <3>1. PICK p \in DOMAIN peers[m] : peers[m][p] = [from |-> j, num |-> kept[j][m]]
      BY <2>2 DEF Right
    <3>2. p \in DOMAIN peers'[m] /\ peers'[m][p] = [from |-> j, num |-> kept'[j][m]]
      BY <1>2, <1>10, <3>1
    <3> QED BY <3>2 DEF Right
  <2>3. ASSUME NEW m \in Nodes, ru'[m] = "setup"
        PROVE  \E p \in DOMAIN peers'[Target(m)] : peers'[Target(m)][p] = Current(m)
    <3>1. CASE m = k
      BY <1>5, <1>11, <3>1
    <3>2. CASE m # k
      <4>1. ru[m] = "setup" /\ Target(m) \in Nodes
        BY <1>6, <2>3, <3>2, PlaceTypes
      <4> QED BY <2>1, <4>1 DEF Matched
    <3> QED BY <3>1, <3>2
  <2> QED BY <1>2, <1>12, <2>2, <2>3 DEF Matched, In
<1>18. Undisturbed'
  <2> SUFFICES ASSUME faults = 0 PROVE Undisturbed'
    BY <1>2 DEF Undisturbed
  <2>1. ASSUME NEW m \in Nodes, NEW p \in DOMAIN backlog'[m]
        PROVE  Awaited(backlog[m][p])'
    <3>1. PICK x \in Connection, q \in DOMAIN backlog[m] :
            x = backlog'[m][p] /\ x = backlog[m][q] /\ q = IF m = n THEN p + 1 ELSE p
      BY <1>8
    <3>2. Awaited(x)
      BY <3>1 DEF Undisturbed
    <3>3. ASSUME x.from = k PROVE FALSE
      <4>1. m = n
        BY <1>5, <3>1, <3>2, <3>3 DEF Requests
      <4>2. q = 1
        BY <1>1, <1>3, <1>5, <3>1, <3>3, <4>1 DEF Undisturbed
      <4>3. p \in 1 .. Len(backlog[n]) - 1
        BY <1>3, <1>6, <4>1
      <4> QED BY <3>1, <4>1, <4>2, <4>3
    <3> QED BY <1>13, <3>1, <3>2, <3>3 DEF Awaited, Joining
  <2>2. ASSUME NEW m \in Nodes, NEW p \in DOMAIN backlog'[m], NEW q \in DOMAIN backlog'[m],
               backlog'[m][p].from = backlog'[m][q].from
        PROVE  p = q
    <3>1. PICK u \in DOMAIN backlog[m] :
            backlog'[m][p] = backlog[m][u] /\ u = IF m = n THEN p + 1 ELSE p
      BY <1>8
    <3>2. PICK v \in DOMAIN backlog[m] :
            backlog'[m][q] = backlog[m][v] /\ v = IF m = n THEN q + 1 ELSE q
      BY <1>8
    <3>3. u = v
      BY <2>2, <3>1, <3>2 DEF Undisturbed
    <3>4. p \in Nat /\ q \in Nat
      <4>1. backlog'[m] \in Seq(Connection)
        BY <1>7 DEF TypeOK
      <4> QED BY <4>1, SeqType
    <3> QED BY <3>1, <3>2, <3>3, <3>4
  <2>3. ASSUME NEW m \in Nodes, NEW q \in Nodes, Made(m, q) PROVE Made(m, q)'
    BY <1>2, <1>6, <2>3 DEF Made
  <2>4. ASSUME NEW p \in DOMAIN peers[n] PROVE peers[n][p].from # k
    <3> SUFFICES ASSUME peers[n][p].from = k PROVE FALSE
      OBVIOUS
    <3>1. pos[k] \in Nodes /\ SeqId(k, pos[k]) = n
      BY <1>5, PlaceTypes DEF Target
    <3>2. Made(k, pos[k])
      BY <3>1 DEF Undisturbed
    <3> QED BY <1>5, <3>1, <3>2, NodesFacts DEF Made
  <2>5. ASSUME NEW m \in Nodes, NEW p \in DOMAIN peers'[m], NEW q \in DOMAIN peers'[m],
               peers'[m][p].from = peers'[m][q].from
        PROVE  p = q
    <3>1. \/ m = n /\ p = Len(peers[n]) + 1 /\ peers'[m][p] = r
          \/ p \in DOMAIN peers[m] /\ peers'[m][p] = peers[m][p]
      BY <1>9
    <3>2. \/ m = n /\ q = Len(peers[n]) + 1 /\ peers'[m][q] = r
          \/ q \in DOMAIN peers[m] /\ peers'[m][q] = peers[m][q]
      BY <1>9
    <3> QED BY <1>1, <2>4, <2>5, <3>1, <3>2 DEF Undisturbed
  <2>6. ASSUME NEW m \in Nodes, NEW p \in DOMAIN peers'[m], NEW q \in Nodes,
               SeqId(peers'[m][p].from, q) = m
        PROVE  Made(peers[m][p].from, q)'
    <3>1. PICK j : j = peers'[m][p].from
      OBVIOUS
    <3>2. CASE m = n /\ peers'[m][p] = r
      <4>1. pos[k] \in Nodes /\ SeqId(k, pos[k]) = n /\ j = k
        BY <1>1, <1>5, <3>1, <3>2, PlaceTypes DEF Target
      <4>2. q = pos[k]
        <5>1. \A a, b \in Nodes : SeqId(k, a) = SeqId(k, b) => a = b
          BY SeqIdPermutes
        <5>2. SeqId(k, q) = n
          BY <2>6, <3>1, <3>2, <4>1
        <5> QED BY <4>1, <5>1, <5>2, Zenon
      <4>3. Made(k, q)'
        BY <1>2, <1>6, <4>2 DEF Made
      <4> QED BY <3>1, <4>1, <4>3 DEF Made
    <3>3. CASE p \in DOMAIN peers[m] /\ peers'[m][p] = peers[m][p]
      <4>1. Made(j, q) /\ j \in Nodes
        BY <2>6, <3>1, <3>3, QueueTypes DEF Undisturbed
      <4>2. Made(j, q)'
        BY <2>3, <4>1
      <4> QED BY <3>1, <4>2 DEF Made
    <3> QED BY <1>9, <3>2, <3>3
  <2>7. ASSUME NEW m \in Nodes, NEW q \in Nodes, kept'[m][SeqId(m, q)] # None
        PROVE  q < pos'[m] \/ (q = pos'[m] /\ ru'[m] = "register")
    BY <1>2, <1>5, <1>6, <2>7 DEF Undisturbed
  <2>8. \A m \in Nodes : main'[m] \notin {"asserted", "terminated"}
    BY <1>2 DEF Undisturbed
  <2> QED BY <2>1, <2>2, <2>5, <2>6, <2>7, <2>8 DEF Undisturbed
<1> QED BY <1>7, <1>14, <1>15, <1>16, <1>17, <1>18

\* The steps that leave the connections alone: at most a listener goes away.
LEMMA QuietSetupInv ==
  ASSUME SetupInv, NEW n \in Nodes, UNCHANGED <<ruVars, peers, faults>>,
         NEW how \in {"joining", "running", "timeout"}, Joining(n) \/ main[n] = "running",
         main' = [main EXCEPT ![n] = how],
         how = "joining" => Joining(n),
         how = "running" => Joined(n)',
         NEW place \in {"listen", "accept", "register", "done"},
         bu' = [bu EXCEPT ![n] = place],
         place \in {"listen", "accept"} => Len(peers[n]) < NumNodes,
         place = "register" => Len(peers[n]) <= NumNodes,
         place = "done" => Len(peers[n]) = NumNodes,
         how # "joining" => Joined(n),
         backlog' \in {backlog, [backlog EXCEPT ![n] = <<>>]}
  PROVE  SetupInv'
<1> USE DEF SetupInv, ruVars
<1>1. \A m \in Nodes :
        /\ main'[m] = IF m = n THEN how ELSE main[m]
        /\ bu'[m] = IF m = n THEN place ELSE bu[m]
        /\ backlog'[m] = backlog[m] \/ backlog'[m] = <<>>
  BY DEF TypeOK
<1>2. TypeOK'
  <2>1. <<>> \in Seq(Connection)
    OBVIOUS
  <2>2. backlog' \in [Nodes -> Seq(Connection)]
    BY <2>1 DEF TypeOK
  <2>3. main' \in [Nodes -> {"joining", "running", "asserted", "terminated", "timeout"}]
    BY DEF TypeOK
  <2>4. bu' \in [Nodes -> {"listen", "accept", "register", "done"}]
    BY DEF TypeOK
  <2> QED BY <2>2, <2>3, <2>4 DEF TypeOK
<1>3. \A x \in Connection : Awaited(x)' <=> Awaited(x)
  <2>1. ru[n] = "waiting" => (Joining(n)' <=> Joining(n))
    BY <1>1 DEF Joined, Joining
  <2>2. \A m \in Nodes : m # n => (Joining(m)' <=> Joining(m))
    BY <1>1 DEF Joining
  <2> QED BY <2>1, <2>2 DEF Awaited, Connection
<1>4. \A m \in Nodes : Target(m)' = Target(m) /\ Current(m)' = Current(m)
  BY DEF Target, Current
<1>5. Places'
  BY <1>1 DEF Places, Joined
<1>6. Requests'
  BY <1>1, <1>3, <1>4, QueueTypes DEF Requests
<1>7. Past'
  BY <1>4 DEF Past
<1>8. Matched'
  BY <1>4 DEF Matched, Right, In
<1>9. Undisturbed'
  <2>1. \A m, q \in Nodes : Made(m, q)' <=> Made(m, q)
    BY DEF Made
  <2> QED BY <1>1, <1>3, <2>1, QueueTypes DEF Undisturbed
<1> QED BY <1>2, <1>5, <1>6, <1>7, <1>8, <1>9


LEMMA NextSetupInv ==
  ASSUME SetupInv, [Next]_vars
  PROVE  SetupInv'
<1>1. CASE UNCHANGED vars
  <2> USE <1>1 DEF vars, ruVars, buVars
  <2>1. TypeOK' = TypeOK /\ Places' = Places
    BY DEF TypeOK, Places, Joined
  <2>2. Requests' = Requests /\ Past' = Past
    BY DEF Requests, Past, Awaited, Joining, Target
  <2>3. Matched' = Matched
    BY DEF Matched, Right, In, Current, Target
  <2>4. Undisturbed' = Undisturbed
    BY DEF Undisturbed, Awaited, Joining, Made
  <2> QED BY <2>1, <2>2, <2>3, <2>4 DEF SetupInv
<1>2. ASSUME NEW n \in Nodes, ReadoutStep(n) PROVE SetupInv'
  <2>1. CASE Request(n)
    BY <2>1, RequestSetupInv
  <2>2. CASE ConnectFails(n) \/ Rejected(n) \/ TimesOut(n) \/ SetupFails(n) \/ RegisterFails(n)
    <3>1. BackToConnect(n) /\ Joining(n) /\ ru[n] # "done"
      BY <2>2 DEF ConnectFails, Rejected, TimesOut, SetupFails, RegisterFails, BackToConnect,
           AfterException, Fault, buVars
    <3> QED BY <3>1, BackSetupInv
  <2>3. CASE Emplace(n)
    BY <2>3, EmplaceSetupInv
  <2>4. CASE AlreadyPresent(n)
    <3>1. faults # 0
      <4> SUFFICES ASSUME faults = 0 PROVE FALSE
        OBVIOUS
      <4>1. /\ ru[n] = "setup" /\ kept[n][SeqId(n, pos[n])] # None /\ pos[n] \in Nodes
            /\ pos[n] \in Nat
        BY <2>4, PlaceTypes, NodesFacts DEF AlreadyPresent, Target, SetupInv
      <4> QED BY <4>1 DEF SetupInv, Undisturbed
    <3>2. faults' \in 1 .. MaxFaults
      BY <2>4, <3>1, NodesFacts DEF AlreadyPresent, SetupInv, TypeOK
    <3> QED BY <2>4, <3>2, EndSetupInv DEF AlreadyPresent
  <2>5. CASE Registered(n)
    BY <2>5, RegisteredSetupInv
  <2> QED BY <1>2, <2>1, <2>2, <2>3, <2>4, <2>5 DEF ReadoutStep
<1>3. ASSUME NEW n \in Nodes, BuilderStep(n) PROVE SetupInv'
  <2>1. main \in [Nodes -> {"joining", "running", "asserted", "terminated", "timeout"}]
    BY DEF SetupInv, TypeOK
  <2>2. CASE Listen(n)
    <3>1. Len(peers[n]) < NumNodes /\ main' = [main EXCEPT ![n] = "joining"]
      BY <2>1, <2>2 DEF Listen, Joining, SetupInv, Places
    <3> QED BY <2>2, <3>1, QuietSetupInv DEF Listen, Joining
  <2>3. CASE Accept(n)
    BY <2>3, AcceptSetupInv
  <2>4. CASE AcceptThrows(n)
    <3>1. faults # 0
      <4>1. 1 \in DOMAIN backlog[n] /\ Head(backlog[n]) = backlog[n][1]
        BY <2>4, QueueTypes, SeqTail DEF AcceptThrows, SetupInv
      <4> QED BY <2>4, <4>1 DEF AcceptThrows, SetupInv, Undisturbed
    <3>2. faults' \in 1 .. MaxFaults
      BY <2>4, <3>1, NodesFacts DEF AcceptThrows, SetupInv, TypeOK
    <3> QED BY <2>4, <3>2, EndSetupInv DEF AcceptThrows
  <2>5. CASE Throws(n)
    <3>1. faults' \in 1 .. MaxFaults
      BY <2>5, NodesFacts DEF Throws, Fault, SetupInv, TypeOK
    <3> QED BY <2>5, <3>1, EndSetupInv DEF Throws
  <2>6. CASE Posted(n)
    <3>1. Len(peers[n]) <= NumNodes /\ Len(peers[n]) \in Nat /\ NumNodes \in Nat
      BY <2>6, QueueTypes, NodesFacts DEF Posted, SetupInv, Places
    <3>2. main' = [main EXCEPT ![n] = "joining"]
      BY <2>1, <2>6 DEF Posted, Joining
    <3>3. CASE Len(peers[n]) >= NumNodes
      <4>1. Len(peers[n]) = NumNodes
        BY <3>1, <3>3
      <4> QED BY <2>6, <3>2, <3>3, <4>1, QuietSetupInv DEF Posted, ToAccept, Joining
    <3>4. CASE ~ (Len(peers[n]) >= NumNodes)
      <4>1. Len(peers[n]) < NumNodes
        BY <3>1, <3>4
      <4> QED BY <2>6, <3>2, <3>4, <4>1, QuietSetupInv DEF Posted, ToAccept, Joining
    <3> QED BY <3>3, <3>4
  <2> QED BY <1>3, <2>2, <2>3, <2>4, <2>5, <2>6 DEF BuilderStep
<1>4. ASSUME NEW n \in Nodes, Run(n) \/ TimeIsUp(n) PROVE SetupInv'
  <2>1. Joined(n) /\ bu[n] = "done" /\ Len(peers[n]) = NumNodes
    BY <1>4 DEF Run, TimeIsUp, Joined, SetupInv, Places
  <2>2. bu' = [bu EXCEPT ![n] = "done"]
    BY <1>4, <2>1 DEF Run, TimeIsUp, buVars, SetupInv, TypeOK
  <2>3. CASE Run(n)
    <3>1. Joined(n)'
      BY <2>1, <2>3 DEF Run, ruVars, buVars, Joined
    <3> QED BY <2>1, <2>2, <2>3, <3>1, QuietSetupInv DEF Run, ruVars, buVars
  <2>4. CASE TimeIsUp(n)
    BY <2>1, <2>2, <2>4, QuietSetupInv DEF TimeIsUp, ruVars, buVars
  <2> QED BY <1>4, <2>3, <2>4
<1> QED BY <1>1, <1>2, <1>3, <1>4 DEF Next

\* How far the nodes have come and what is still to accept fits together, in
\* every state: requests wait where they were sent, what a readout unit keeps
\* was accepted, and without a fault nothing is given up or made twice.
THEOREM SetupInvariant == Spec => []SetupInv
<1>1. Init => SetupInv
  BY InitSetupInv
<1>2. SetupInv /\ [Next]_vars => SetupInv'
  BY NextSetupInv
<1> QED BY <1>1, <1>2, PTL DEF Spec
-----------------------------------------------------------------------------
\* The variables keep their types, for every number of nodes.
THEOREM SetupTypeCorrect == Spec => []TypeOK
<1>1. SetupInv => TypeOK
  BY DEF SetupInv
<1> QED BY <1>1, SetupInvariant, PTL

\* While nothing fails but what is tried again, no builder unit accepts a node
\* twice or more connections than there are nodes (builder_unit.cpp:102).
THEOREM OnceEach == Spec => []EachNodeOnce
<1>1. SetupInv => EachNodeOnce
  <2> SUFFICES ASSUME SetupInv, faults = 0, NEW n \in Nodes
               PROVE  /\ \A p, q \in DOMAIN peers[n] :
                           peers[n][p].from = peers[n][q].from => p = q
                      /\ Len(peers[n]) <= NumNodes
    BY DEF EachNodeOnce
  <2>1. bu[n] \in {"listen", "accept", "register", "done"}
    BY DEF SetupInv, TypeOK
  <2>2. Len(peers[n]) <= NumNodes
    BY <2>1, QueueTypes, NodesFacts DEF SetupInv, Places
  <2> QED BY <2>2 DEF SetupInv, Undisturbed
<1> QED BY <1>1, SetupInvariant, PTL

\* Neither the assert of the readout unit nor the uncaught exception of accept
\* ends a process before a fault (readout_unit.cpp:43, builder_unit.cpp:106).
THEOREM NoEndWithoutFault == Spec => []EndsNeedFault
<1>1. SetupInv => EndsNeedFault
  BY NodesFacts DEF SetupInv, TypeOK, Undisturbed, EndsNeedFault
<1> QED BY <1>1, SetupInvariant, PTL

\* A node that runs has a connection accepted by every builder unit and all
\* connections of its own builder unit, even after faults (main.cpp:220).
THEOREM RunsConnected == Spec => []RunningIsConnected
<1>1. SetupInv => RunningIsConnected
  <2> SUFFICES ASSUME SetupInv, NEW n \in Nodes, main[n] = "running"
               PROVE  /\ bu[n] = "done" /\ Len(peers[n]) = NumNodes
                      /\ \A m \in Nodes : Right(m, n)
    BY DEF RunningIsConnected
  <2>1. ru[n] = "done" /\ bu[n] = "done" /\ pos[n] = NumNodes /\ Len(peers[n]) = NumNodes
    BY DEF SetupInv, Places, Joined
  <2>2. ASSUME NEW m \in Nodes PROVE Right(m, n)
    <3>1. PICK p \in Nodes : SeqId(n, p) = m
      BY SeqIdPermutes
    <3>2. p < pos[n]
      BY <2>1, NodesFacts
    <3>3. kept[n][m] # None
      BY <3>1, <3>2 DEF SetupInv, Past
    <3> QED BY <3>3 DEF SetupInv, Matched
  <2> QED BY <2>1, <2>2
<1> QED BY <1>1, SetupInvariant, PTL
=============================================================================
