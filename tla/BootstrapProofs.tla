--------------------------- MODULE BootstrapProofs ---------------------------
(***************************************************************************)
(* What Bootstrap keeps, for every number of processes, every placement on *)
(* hosts and every way to start: who gets ready has the right table, nobody *)
(* of a job aborts while the manager lives, and the launcher keeps the     *)
(* promise of AddressExchange.                                             *)
(***************************************************************************)
EXTENDS Bootstrap, TLAPS

(* The inductive invariant. *)

Commands == {"", "initack", "set", "response_to_init", "maxes", "my_kvsname", "put_result",
             "barrier_out", "get_result", "singinit", "singinit_info"}
AnyLine == [cmd : Commands, rc : {0, 1}, val : Values]

TypesRight ==
    /\ TypeOK
    /\ env \in Envs
    /\ lines \in [Ranks -> Seq(AnyLine)]
    /\ cached \in [Ranks -> [key : {"ip", "port"} \X Nat, val : Values]]

\* Nothing will ever be read again.
Lost(r) == ~up /\ lines[r] = <<>>

Early == {"start", "initack", "size", "rank", "debug", "init", "maxes"}
Publishing == {"ip", "port", "barrier", "get", "ready"}

(* A process of a job. *)

\* The lines that a process of a job has not read, if none was lost.
Due(r) ==
    IF asked[r] = "served"
    THEN CASE pc[r] = "initack" ->
                <<Line("initack", 0, None), Line("set", 0, Size), Line("set", 0, r), Line("set", 0, 0)>>
           [] pc[r] = "barrier" ->
                IF AllEntered(inBarrier) THEN <<Line("barrier_out", 0, None)>> ELSE <<>>
           [] pc[r] = "get" -> <<Line("get_result", 0, Address(getting[r]))>>
           [] OTHER -> <<Line(Expected(pc[r]), 0, None)>>
    ELSE CASE pc[r] = "size" -> <<Line("set", 0, Size), Line("set", 0, r), Line("set", 0, 0)>>
           [] pc[r] = "rank" -> <<Line("set", 0, r), Line("set", 0, 0)>>
           [] pc[r] = "debug" -> <<Line("set", 0, 0)>>
           [] OTHER -> <<>>

\* What is left of them: some, the last of which may be cut, if the manager died.
LeftOf(ls, due, alive) ==
    /\ Len(ls) <= Len(due)
    /\ \A k \in 1 .. Len(ls) : ls[k] = due[k] \/ (~alive /\ k = Len(ls) /\ ls[k] \in Cuts(due[k]))
    /\ alive => Len(ls) = Len(due)

\* Where a process of a job can be, and what it then waits for.
OnItsWay(r) ==
    /\ state[r] \in {"uninitialized", "normal"}
    /\ pc[r] \notin {"accept", "hello", "singinit", "putCached"}
    /\ asked[r] # "no" => pc[r] \in Asking
    /\ pc[r] \in Publishing => kvsname[r] = "job"
    /\ pc[r] = "aborted" => ~up

\* Who has not the rank and the size it was given can not go on.
Known(r) == rank[r] = r /\ size[r] = Size
IdentityFollows(r) ==
    /\ pc[r] \in Publishing => Known(r)
    /\ pc[r] \in {"debug", "init", "maxes", "name"} => Known(r) \/ Lost(r)
    /\ pc[r] = "rank" => size[r] = Size \/ Lost(r)

\* A process puts its two keys in turn, and enters the barrier.
Readable(r, name) == kvs[0][<<name, r>>] # None
NotYetPut(r, name) ==
    \/ pc[r] \in Early \cup {"name"}
    \/ name = "port" /\ pc[r] = "ip"
    \/ pc[r] = name /\ asked[r] # "served"
AlreadyPut(r, name) ==
    \/ pc[r] \in {"barrier", "get", "ready"}
    \/ name = "ip" /\ pc[r] = "port"
    \/ pc[r] = name /\ asked[r] = "served"
PutsInTurn(r) ==
    \A name \in {"ip", "port"} :
      (NotYetPut(r, name) => ~Readable(r, name)) /\ (AlreadyPut(r, name) => Readable(r, name))

WaitsForAll(r) ==
    /\ r \in inBarrier => /\ Readable(r, "ip") /\ Readable(r, "port")
                          /\ pc[r] \in {"barrier", "get", "ready", "aborted"}
    /\ pc[r] = "barrier" => (r \in inBarrier <=> asked[r] = "served")
    /\ pc[r] \in {"get", "ready"} => inBarrier = Ranks

\* The table is read in the order of the ranks, and a cut value is the last one.
ReadInOrder(r) ==
    /\ \A k \in Keys : \/ table[r][k] \in {None, Address(k)}
                       \/ table[r][k] = Empty /\ Lost(r)
    /\ \A k, l \in Keys : table[r][k] = Empty /\ table[r][l] = Empty => k = l
    /\ \A k, l \in Keys : table[r][k] = None /\ table[r][l] # None => l[2] <= k[2]
    /\ pc[r] = "get" /\ asked[r] # "no" => getting[r] \in NextKeys(r)
    /\ pc[r] = "ready" => \A k \in Keys : /\ table[r][k] # None
                                          /\ table[r][k] = Empty => k[2] = Size - 1

JobInv(r) ==
    /\ OnItsWay(r)
    /\ LeftOf(lines[r], Due(r), up)
    /\ IdentityFollows(r)
    /\ PutsInTurn(r)
    /\ WaitsForAll(r)
    /\ ReadInOrder(r)

KeysRight == \A k \in Keys : kvs[0][k] \in {None, Address(k)}

(* A process that was started alone. *)

Unpromoted == {"name", "ip", "port", "barrier", "accept", "hello", "singinit"}
AloneInv(r) ==
    /\ pc[r] \in Unpromoted \cup {"start", "get", "init", "maxes", "putCached", "aborted", "noInterface"}
    /\ pc[r] \in Unpromoted => state[r] = "alone"
    /\ pc[r] \in {"init", "maxes", "putCached"} => state[r] = "promoted"
    /\ pc[r] = "get" => state[r] \in {"alone", "promoted"}
    /\ asked[r] # "no" => pc[r] \in Asking /\ (state[r] = "promoted" \/ pc[r] = "singinit")
    /\ size[r] = 1
    /\ kvsname[r] # "job"
    /\ Len(lines[r]) <= 1
    /\ lines[r] # <<>> => pc[r] = "hello" \/ asked[r] = "served"
    /\ pc[r] = "get" /\ lines[r] # <<>> => lines[r][1].rc = 1 \/ (~up /\ lines[r][1].val = Empty)
    /\ (\A k \in Keys : table[r][k] = None) \/ Lost(r)

BootInv ==
    /\ TypesRight
    /\ env # "alone" => KeysRight /\ \A r \in Ranks : JobInv(r)
    /\ env = "alone" => \A r \in Ranks : AloneInv(r)

-----------------------------------------------------------------------------
(* Lines. *)

LEMMA Numbers ==
  /\ Size \in Nat /\ Size >= 1 /\ 0 \in Ranks /\ Size - 1 \in Ranks
  /\ \A r \in Ranks : r \in Nat /\ r <= Size - 1 /\ Number(r) = r
  /\ Number(Size) = Size
  /\ \A v \in Values : Number(v) \in Nat
  /\ Empty # None /\ Empty \notin Nat /\ Empty \in Values /\ None \in Values
BY SizeAssumption DEF Ranks, Number, Empty, None, Values

LEMMA Ports ==
  ASSUME NEW n \in Nat
  PROVE  Port(n) \in Nat /\ Port(n) # 0 /\ n % Range \in Nat
<1>1. n % Range \in 0 .. Range - 1
  BY NetworkAssumption
<1> QED BY <1>1, NetworkAssumption DEF Port

LEMMA Addresses ==
  ASSUME NEW k \in Keys
  PROVE  /\ k[1] \in {"ip", "port"} /\ k[2] \in Ranks /\ k = <<k[1], k[2]>>
         /\ Address(k) \in Nat /\ Address(k) # None /\ Address(k) # Empty /\ Address(k) \in Values
<1>1. k[1] \in {"ip", "port"} /\ k[2] \in Ranks /\ k = <<k[1], k[2]>>
  BY DEF Keys
<1>2. Host[k[2]] \in Nat /\ Host[k[2]] # 0
  BY <1>1, NetworkAssumption
<1>3. Port(k[2]) \in Nat /\ Port(k[2]) # 0
  BY <1>1, Numbers, Ports
<1> QED BY <1>1, <1>2, <1>3 DEF Address, None, Empty, Values

LEMMA LineTyped ==
  ASSUME NEW cmd \in Commands, NEW rc \in {0, 1}, NEW val \in Values
  PROVE  /\ Line(cmd, rc, val) \in AnyLine /\ Line(cmd, rc, val).cmd = cmd
         /\ Line(cmd, rc, val).rc = rc /\ Line(cmd, rc, val).val = val
BY DEF Line, AnyLine

LEMMA CutTyped ==
  ASSUME NEW line \in AnyLine, NEW cut \in Cuts(line)
  PROVE  cut \in AnyLine /\ cut.rc = 0 /\ cut.val = Empty /\ cut.cmd \in {"", line.cmd}
<1>1. line.cmd \in Commands /\ "" \in Commands /\ 0 \in {0, 1}
  BY DEF AnyLine, Commands
<1>2. PICK cmd \in {"", line.cmd} : cut = Line(cmd, 0, Empty)
  BY DEF Cuts
<1>3. cmd \in Commands /\ Empty \in Values
  BY <1>1, <1>2, Numbers
<1>4. Line(cmd, 0, Empty) \in AnyLine
  BY <1>1, <1>3, LineTyped, Zenon
<1>5. Line(cmd, 0, Empty).cmd = cmd /\ Line(cmd, 0, Empty).rc = 0 /\ Line(cmd, 0, Empty).val = Empty
  BY DEF Line
<1> QED BY <1>2, <1>4, <1>5

\* A cut of a cut is one of the whole.
LEMMA CutAgain ==
  ASSUME NEW line \in AnyLine, NEW cut \in Cuts(line), NEW again \in Cuts(cut)
  PROVE  again \in Cuts(line)
<1>1. cut.cmd = "" \/ cut.cmd = line.cmd
  <2>1. PICK cmd \in {"", line.cmd} : cut = Line(cmd, 0, Empty)
    BY DEF Cuts
  <2> QED BY <2>1 DEF Line
<1>2. again = Line("", 0, Empty) \/ again = Line(cut.cmd, 0, Empty)
  BY DEF Cuts
<1> QED BY <1>1, <1>2 DEF Cuts

LEMMA LineTail ==
  ASSUME NEW S, NEW s \in Seq(S), s # <<>>
  PROVE  /\ Head(s) = s[1] /\ Head(s) \in S
         /\ Tail(s) \in Seq(S)
         /\ Len(s) \in Nat \ {0}
         /\ Len(Tail(s)) = Len(s) - 1
         /\ \A p \in 1 .. Len(s) - 1 : Tail(s)[p] = s[p + 1]
OBVIOUS

LEMMA LineTakenOff ==
  ASSUME NEW ls \in Seq(AnyLine), NEW due \in Seq(AnyLine), NEW alive \in BOOLEAN,
         LeftOf(ls, due, alive), ls # <<>>
  PROVE  /\ due # <<>> /\ Tail(ls) \in Seq(AnyLine) /\ Head(ls) \in AnyLine /\ Head(due) \in AnyLine
         /\ LeftOf(Tail(ls), Tail(due), alive)
         /\ \/ Head(ls) = Head(due)
            \/ ~alive /\ Tail(ls) = <<>> /\ Head(ls) \in Cuts(Head(due))
<1>1. /\ Head(ls) = ls[1] /\ Head(ls) \in AnyLine /\ Tail(ls) \in Seq(AnyLine)
      /\ Len(ls) \in Nat \ {0} /\ Len(Tail(ls)) = Len(ls) - 1
      /\ \A p \in 1 .. Len(ls) - 1 : Tail(ls)[p] = ls[p + 1]
  BY LineTail
<1>2. due # <<>> /\ Len(due) \in Nat /\ Len(ls) <= Len(due)
  <2>1. Len(due) \in Nat /\ Len(ls) <= Len(due)
    BY DEF LeftOf
  <2>2. Len(<<>>) = 0
    OBVIOUS
  <2>3. Len(due) # 0
    BY <1>1, <2>1
  <2> QED BY <2>1, <2>2, <2>3
<1>3. /\ Head(due) = due[1] /\ Head(due) \in AnyLine
      /\ Len(Tail(due)) = Len(due) - 1
      /\ \A p \in 1 .. Len(due) - 1 : Tail(due)[p] = due[p + 1]
  BY <1>2, LineTail
<1>4. PICK l, d \in Seq(AnyLine) : l = Tail(ls) /\ d = Tail(due)
  BY <1>1, <1>2, LineTail
<1>5. LeftOf(l, d, alive)
  <2>1. Len(l) <= Len(d)
    BY <1>1, <1>2, <1>3, <1>4
  <2>2. ASSUME NEW k \in 1 .. Len(l)
        PROVE  l[k] = d[k] \/ (~alive /\ k = Len(l) /\ l[k] \in Cuts(d[k]))
    <3>0. PICK m, n \in Nat : m = Len(ls) /\ n = Len(l) /\ n = m - 1 /\ k \in 1 .. n
      <4>1. Len(ls) \in Nat /\ Len(l) \in Nat /\ Len(l) = Len(ls) - 1
        BY <1>1, <1>4
      <4> QED BY <4>1
    <3>1. k + 1 \in 1 .. Len(ls) /\ k \in 1 .. Len(ls) - 1 /\ k \in 1 .. Len(due) - 1 /\ k \in Nat
      BY <1>2, <3>0
    <3>2. l[k] = ls[k + 1] /\ d[k] = due[k + 1]
      BY <1>1, <1>3, <1>4, <3>1
    <3>3. k + 1 = Len(ls) => k = Len(l)
      BY <3>0
    <3> QED BY <3>1, <3>2, <3>3 DEF LeftOf
  <2>3. alive => Len(l) = Len(d)
    BY <1>1, <1>3, <1>4 DEF LeftOf
  <2> QED BY <2>1, <2>2, <2>3 DEF LeftOf
<1>6. \/ ls[1] = due[1]
      \/ ~alive /\ 1 = Len(ls) /\ ls[1] \in Cuts(due[1])
  <2>1. 1 \in 1 .. Len(ls)
    BY <1>1
  <2> QED BY <2>1 DEF LeftOf
<1>7. 1 = Len(ls) => l = <<>>
  BY <1>1, <1>4
<1> QED BY <1>1, <1>2, <1>3, <1>4, <1>5, <1>6, <1>7

LEMMA LineLost ==
  ASSUME NEW ls \in Seq(AnyLine), NEW due \in Seq(AnyLine), LeftOf(ls, due, FALSE), NEW less \in Remains(ls)
  PROVE  /\ less \in Seq(AnyLine) /\ LeftOf(less, due, FALSE)
         /\ Len(less) <= Len(ls) /\ (ls = <<>> => less = <<>>)
<1>1. Len(ls) \in Nat /\ Len(due) \in Nat /\ \A k \in 1 .. Len(ls) : ls[k] \in AnyLine
  OBVIOUS
<1>2. CASE \E n \in 0 .. Len(ls) : less = SubSeq(ls, 1, n)
  <2>1. PICK n \in 0 .. Len(ls) : less = SubSeq(ls, 1, n)
    BY <1>2
  <2>2. less \in Seq(AnyLine) /\ Len(less) = n /\ \A k \in 1 .. n : less[k] = ls[k]
    BY <1>1, <2>1
  <2>3. LeftOf(less, due, FALSE)
    BY <1>1, <2>2 DEF LeftOf
  <2>4. Len(less) <= Len(ls) /\ (Len(ls) = 0 => Len(less) = 0)
    BY <1>1, <2>2
  <2>5. less = <<>> <=> Len(less) = 0
    BY <2>2
  <2>6. ls = <<>> <=> Len(ls) = 0
    OBVIOUS
  <2> QED BY <2>2, <2>3, <2>4, <2>5, <2>6
<1>3. CASE \E n \in DOMAIN ls : \E cut \in Cuts(ls[n]) : less = Append(SubSeq(ls, 1, n - 1), cut)
  <2>1. PICK n \in DOMAIN ls : \E cut \in Cuts(ls[n]) : less = Append(SubSeq(ls, 1, n - 1), cut)
    BY <1>3
  <2>2. PICK cut \in Cuts(ls[n]) : less = Append(SubSeq(ls, 1, n - 1), cut)
    BY <2>1
  <2>3. n \in 1 .. Len(ls) /\ n - 1 \in 0 .. Len(ls) /\ ls[n] \in AnyLine /\ cut \in AnyLine
    <3>1. n \in 1 .. Len(ls)
      OBVIOUS
    <3>2. n - 1 \in 0 .. Len(ls)
      BY <1>1, <3>1
    <3>3. PICK line \in AnyLine : line = ls[n]
      BY <1>1, <3>1
    <3>4. cut \in AnyLine
      BY <3>3, CutTyped
    <3> QED BY <3>1, <3>2, <3>3, <3>4
  <2>4. PICK front \in Seq(AnyLine) : /\ front = SubSeq(ls, 1, n - 1) /\ Len(front) = n - 1
                                      /\ \A k \in 1 .. n - 1 : front[k] = ls[k]
    <3>1. /\ SubSeq(ls, 1, n - 1) \in Seq(AnyLine) /\ Len(SubSeq(ls, 1, n - 1)) = n - 1
          /\ \A k \in 1 .. n - 1 : SubSeq(ls, 1, n - 1)[k] = ls[k]
      BY <1>1, <2>3
    <3> QED BY <3>1
  <2>5. /\ less \in Seq(AnyLine) /\ Len(less) = n /\ less[n] = cut
        /\ \A k \in 1 .. n - 1 : less[k] = ls[k]
    BY <2>2, <2>3, <2>4
  <2>6. due[n] \in AnyLine /\ n <= Len(due)
    BY <1>1, <2>3 DEF LeftOf
  <2>7. cut \in Cuts(due[n])
    <3>1. ls[n] = due[n] \/ ls[n] \in Cuts(due[n])
      BY <2>3 DEF LeftOf
    <3> QED BY <2>6, <3>1, CutAgain
  <2>8. ASSUME NEW k \in 1 .. n - 1 PROVE less[k] = due[k]
    <3>1. k \in 1 .. Len(ls) /\ k # Len(ls)
      BY <1>1, <2>3
    <3> QED BY <2>5, <3>1 DEF LeftOf
  <2>9. LeftOf(less, due, FALSE)
    <3>1. ASSUME NEW k \in 1 .. Len(less)
          PROVE  less[k] = due[k] \/ (k = Len(less) /\ less[k] \in Cuts(due[k]))
      <4>1. k = n \/ k \in 1 .. n - 1
        BY <2>3, <2>5
      <4> QED BY <2>5, <2>7, <2>8, <4>1
    <3> QED BY <2>5, <2>6, <3>1 DEF LeftOf
  <2>10. Len(less) <= Len(ls) /\ ls # <<>>
    BY <1>1, <2>3, <2>5
  <2> QED BY <2>5, <2>9, <2>10
<1> QED BY <1>2, <1>3 DEF Remains

LEMMA LeftSimply ==
  ASSUME NEW due \in Seq(AnyLine), NEW alive \in BOOLEAN
  PROVE  /\ LeftOf(due, due, alive)
         /\ LeftOf(<<>>, due, FALSE)
         /\ \A ls \in Seq(AnyLine) : LeftOf(ls, <<>>, alive) => ls = <<>>
         /\ \A ls \in Seq(AnyLine) : LeftOf(ls, due, TRUE) => LeftOf(ls, due, FALSE)
<1>1. Len(due) \in Nat /\ Len(<<>>) = 0 /\ 1 .. 0 = {}
  OBVIOUS
<1>2. LeftOf(due, due, alive)
  BY <1>1 DEF LeftOf
<1>3. LeftOf(<<>>, due, FALSE)
  BY <1>1 DEF LeftOf
<1>4. ASSUME NEW ls \in Seq(AnyLine), LeftOf(ls, <<>>, alive) PROVE ls = <<>>
  BY <1>1, <1>4 DEF LeftOf
<1>5. ASSUME NEW ls \in Seq(AnyLine), LeftOf(ls, due, TRUE) PROVE LeftOf(ls, due, FALSE)
  BY <1>5 DEF LeftOf
<1> QED BY <1>2, <1>3, <1>4, <1>5

-----------------------------------------------------------------------------
(* Types. *)

AskedInTurn == \A r \in Ranks : asked[r] # "no" => pc[r] \in Asking

\* The type of each variable, one by one.
LEMMA Typed ==
  ASSUME TypesRight
  PROVE  /\ env \in Env /\ env \in Envs /\ up \in BOOLEAN /\ inBarrier \in SUBSET Ranks
         /\ pc \in [Ranks -> Steps]
         /\ state \in [Ranks -> {"uninitialized", "alone", "normal", "promoted"}]
         /\ size \in [Ranks -> Nat] /\ rank \in [Ranks -> Nat]
         /\ kvsname \in [Ranks -> {"none", "job", "dummy"}]
         /\ cached \in [Ranks -> [key : {"ip", "port"} \X Nat, val : Values]]
         /\ getting \in [Ranks -> Keys]
         /\ table \in [Ranks -> [Keys -> Values]]
         /\ asked \in [Ranks -> {"no", "sent", "served"}]
         /\ lines \in [Ranks -> Seq(AnyLine)]
         /\ kvs \in [Ranks -> [Keys -> Values]]
BY DEF TypesRight, TypeOK

LEMMA Retyped ==
  ASSUME TypesRight, env' = env, up' \in BOOLEAN, inBarrier' \in SUBSET Ranks,
         pc' \in [Ranks -> Steps],
         state' \in [Ranks -> {"uninitialized", "alone", "normal", "promoted"}],
         size' \in [Ranks -> Nat], rank' \in [Ranks -> Nat],
         kvsname' \in [Ranks -> {"none", "job", "dummy"}],
         cached' \in [Ranks -> [key : {"ip", "port"} \X Nat, val : Values]],
         getting' \in [Ranks -> Keys],
         table' \in [Ranks -> [Keys -> Values]],
         asked' \in [Ranks -> {"no", "sent", "served"}],
         lines' \in [Ranks -> Seq(AnyLine)],
         kvs' \in [Ranks -> [Keys -> Values]]
  PROVE  TypesRight'
BY DEF TypesRight, TypeOK

LEMMA EntryTyped ==
  ASSUME NEW A, NEW K, NEW V, NEW f \in [A -> [K -> V]], NEW a \in A, NEW k, NEW v \in V
  PROVE  [f EXCEPT ![a][k] = v] \in [A -> [K -> V]]
<1>1. [f[a] EXCEPT ![k] = v] \in [K -> V]
  OBVIOUS
<1>2. [f EXCEPT ![a][k] = v] = [f EXCEPT ![a] = [f[a] EXCEPT ![k] = v]]
  OBVIOUS
<1> QED BY <1>1, <1>2

LEMMA ExpectedTyped ==
  \A at \in Asking \cup Unasked : Expected(at) \in Commands /\ Expected(at) # ""
<1> SUFFICES ASSUME NEW at \in Asking \cup Unasked PROVE Expected(at) \in Commands /\ Expected(at) # ""
  OBVIOUS
<1>1. CASE at \in {"initack", "size", "rank", "debug", "init", "maxes", "name"}
  BY <1>1 DEF Expected, Commands
<1>2. CASE at \in {"ip", "port", "putCached", "barrier", "get", "hello", "singinit"}
  BY <1>2 DEF Expected, Commands
<1> QED BY <1>1, <1>2 DEF Asking, Unasked

LEMMA Written ==
  ASSUME NEW S, NEW a \in S, NEW b \in S, NEW c \in S, NEW d \in S
  PROVE  <<>> \in Seq(S) /\ <<a>> \in Seq(S) /\ <<a, b, c, d>> \in Seq(S)
OBVIOUS

LEMMA ReplyTyped ==
  ASSUME TypesRight, NEW r \in Ranks, pc[r] \in Asking
  PROVE  Reply(r) \in Seq(AnyLine)
<1>1. CASE pc[r] = "initack"
  <2>1. Size \in Values /\ r \in Values /\ 0 \in Values /\ None \in Values
    BY Numbers DEF Values
  <2>2. /\ Line("initack", 0, None) \in AnyLine /\ Line("set", 0, Size) \in AnyLine
        /\ Line("set", 0, r) \in AnyLine /\ Line("set", 0, 0) \in AnyLine
    <3>1. "initack" \in Commands /\ "set" \in Commands /\ 0 \in {0, 1}
      BY DEF Commands
    <3> QED BY <2>1, <3>1, LineTyped, Zenon
  <2>3. Reply(r) = <<Line("initack", 0, None), Line("set", 0, Size), Line("set", 0, r), Line("set", 0, 0)>>
    BY <1>1 DEF Reply
  <2> QED BY <2>2, <2>3, Written
<1>2. CASE pc[r] \in {"ip", "port", "putCached"}
  <2>1. PutRc(r) \in {0, 1}
    BY DEF PutRc
  <2>2. Reply(r) = <<Line("put_result", PutRc(r), None)>>
    BY <1>2 DEF Reply
  <2>3. Line("put_result", PutRc(r), None) \in AnyLine
    BY <2>1, LineTyped, Numbers DEF Commands
  <2> QED BY <2>2, <2>3, Written
<1>3. CASE pc[r] = "get"
  <2>1. Reply(r) = <<IF Got(r) = None THEN Line("get_result", 1, Empty) ELSE Line("get_result", 0, Got(r))>>
    BY <1>3 DEF Reply
  <2>2. Got(r) \in Values
    <3>1. Space(r) \in Ranks
      BY Numbers DEF Space
    <3>2. getting[r] \in Keys /\ kvs \in [Ranks -> [Keys -> Values]]
      BY Typed
    <3>3. kvs[Space(r)][getting[r]] \in Values
      BY <3>1, <3>2
    <3> QED BY <3>3, Numbers DEF Got, GetKey
  <2>3. /\ Line("get_result", 1, Empty) \in AnyLine
        /\ Line("get_result", 0, Got(r)) \in AnyLine
    BY <2>2, LineTyped, Numbers DEF Commands
  <2>4. PICK line \in AnyLine : Reply(r) = <<line>>
    BY <2>1, <2>3
  <2> QED BY <2>4, Written
<1>4. CASE pc[r] \in Asking \ {"initack", "ip", "port", "putCached", "get"}
  <2>1. Reply(r) = <<Line(Expected(pc[r]), 0, None)>>
    BY <1>4 DEF Reply
  <2>2. Expected(pc[r]) \in Commands
    BY ExpectedTyped
  <2>3. Line(Expected(pc[r]), 0, None) \in AnyLine
    BY <2>2, LineTyped, Numbers
  <2> QED BY <2>1, <2>3, Written
<1> QED BY <1>1, <1>2, <1>3, <1>4

LEMMA PutTyped ==
  ASSUME TypesRight, NEW r \in Ranks
  PROVE  /\ Space(r) \in Ranks /\ PutVal(r) \in Values
         /\ pc[r] \in {"ip", "port"} => PutKey(r) \in {"ip", "port"} \X Nat
<1>1. Host[r] \in Values /\ Port(rank[r]) \in Values
  BY Typed, Ports, NetworkAssumption DEF Values
<1>2. PutVal(r) \in Values
  BY <1>1, Typed DEF PutVal, Published
<1>3. Space(r) \in Ranks
  BY Numbers DEF Space
<1>4. pc[r] \in {"ip", "port"} => PutKey(r) \in {"ip", "port"} \X Nat
  BY Typed DEF PutKey
<1> QED BY <1>2, <1>3, <1>4

LEMMA AfterTyped ==
  ASSUME TypesRight, NEW r \in Ranks, NEW next
  PROVE  /\ AfterFailure(r) \in Steps
         /\ StateAfter(r, next) \in {"uninitialized", "alone", "normal", "promoted"}
<1>1. AfterFailure(r) \in {"init", "putCached", "name", "get", "aborted"}
  BY DEF AfterFailure
<1>2. StateAfter(r, next) \in {"uninitialized", "alone", "normal", "promoted"}
  BY Typed DEF StateAfter
<1> QED BY <1>1, <1>2 DEF Steps, Asking, Ended

LEMMA FailTyped ==
  ASSUME TypesRight, NEW r \in Ranks, NEW next \in Steps, Fail(r, next), lines' \in [Ranks -> Seq(AnyLine)]
  PROVE  TypesRight'
<1>1. /\ pc' = [pc EXCEPT ![r] = next] /\ state' = [state EXCEPT ![r] = StateAfter(r, next)]
      /\ asked' = [asked EXCEPT ![r] = "no"] /\ env' = env /\ size' = size /\ rank' = rank
      /\ kvsname' = kvsname /\ cached' = cached /\ getting' = getting /\ table' = table
      /\ kvs' = kvs /\ inBarrier' = inBarrier /\ up' = up
  BY DEF Fail, managerVars
<1>2. StateAfter(r, next) \in {"uninitialized", "alone", "normal", "promoted"}
  BY AfterTyped
<1>3. /\ pc' \in [Ranks -> Steps] /\ asked' \in [Ranks -> {"no", "sent", "served"}]
      /\ state' \in [Ranks -> {"uninitialized", "alone", "normal", "promoted"}]
  BY <1>1, <1>2, Typed
<1> QED BY <1>1, <1>3, Typed, Retyped

LEMMA AnswerTyped ==
  ASSUME TypesRight, NEW r \in Ranks, NEW next \in Steps, Answered(r, next)
  PROVE  /\ pc' \in [Ranks -> Steps] /\ asked' \in [Ranks -> {"no", "sent", "served"}]
         /\ lines' \in [Ranks -> Seq(AnyLine)] /\ env' = env /\ cached' = cached /\ kvs' = kvs
         /\ inBarrier' = inBarrier /\ up' = up
         /\ Answer(r) \in Values
<1>1. /\ lines[r] # <<>> /\ pc' = [pc EXCEPT ![r] = next] /\ asked' = [asked EXCEPT ![r] = "no"]
      /\ lines' = [lines EXCEPT ![r] = Tail(lines[r])]
      /\ env' = env /\ cached' = cached /\ kvs' = kvs /\ inBarrier' = inBarrier /\ up' = up
  BY DEF Answered, managerVars
<1>2. lines[r] \in Seq(AnyLine)
  BY Typed
<1>3. Tail(lines[r]) \in Seq(AnyLine) /\ Head(lines[r]) \in AnyLine
  BY <1>1, <1>2, LineTail
<1>4. Answer(r) \in Values
  BY <1>3 DEF Answer, AnyLine
<1>5. lines' \in [Ranks -> Seq(AnyLine)]
  BY <1>1, <1>3, Typed
<1>6. pc' \in [Ranks -> Steps] /\ asked' \in [Ranks -> {"no", "sent", "served"}]
  BY <1>1, Typed
<1> QED BY <1>1, <1>4, <1>5, <1>6

LEMMA OwnStepTyped ==
  ASSUME TypesRight, NEW r \in Ranks, StartStep(r) \/ AloneStep(r) \/ Ask(r)
  PROVE  TypesRight'
<1> USE DEF processVars, managerVars, Steps, Asking, Unasked, Ended
<1>1. CASE NoInterface(r) \/ ConnectFails(r) \/ StartFromPort(r) \/ BarrierAlone(r) \/ Fork(r)
  <2>1. PICK next \in {"noInterface", "aborted", "initack", "get", "accept"} : pc' = [pc EXCEPT ![r] = next]
    BY <1>1 DEF NoInterface, ConnectFails, StartFromPort, BarrierAlone, Fork
  <2>2. pc' \in [Ranks -> Steps]
    BY <2>1, Typed
  <2>3. UNCHANGED <<env, processVars, asked, lines, managerVars, up>>
    BY <1>1 DEF NoInterface, ConnectFails, StartFromPort, BarrierAlone, Fork
  <2> QED BY <2>2, <2>3, Typed, Retyped
<1>2. CASE StartFromEnvironment(r) \/ StartAlone(r)
  <2>1. PICK next \in {"init", "name"}, st \in {"uninitialized", "alone", "normal", "promoted"}, n, m \in Nat :
          /\ pc' = [pc EXCEPT ![r] = next] /\ state' = [state EXCEPT ![r] = st]
          /\ size' = [size EXCEPT ![r] = n] /\ rank' = [rank EXCEPT ![r] = m]
    <3>1. CASE StartFromEnvironment(r)
      <4>1. state' = [state EXCEPT ![r] = state[r]] /\ state[r] \in {"uninitialized", "alone", "normal", "promoted"}
        BY <3>1, Typed DEF StartFromEnvironment
      <4> QED BY <3>1, <4>1, Numbers DEF StartFromEnvironment
    <3>2. CASE StartAlone(r)
      BY <3>2 DEF StartAlone
    <3> QED BY <1>2, <3>1, <3>2
  <2>2. /\ pc' \in [Ranks -> Steps] /\ size' \in [Ranks -> Nat] /\ rank' \in [Ranks -> Nat]
        /\ state' \in [Ranks -> {"uninitialized", "alone", "normal", "promoted"}]
    BY <2>1, Typed
  <2>3. UNCHANGED <<env, kvsname, cached, getting, table, asked, lines, managerVars, up>>
    BY <1>2 DEF StartFromEnvironment, StartAlone
  <2> QED BY <2>2, <2>3, Typed, Retyped
<1>3. CASE NameAlone(r)
  <2>1. /\ pc' = [pc EXCEPT ![r] = "ip"] /\ kvsname' = [kvsname EXCEPT ![r] = "dummy"]
        /\ UNCHANGED <<env, state, size, rank, cached, getting, table, asked, lines, managerVars, up>>
    BY <1>3 DEF NameAlone
  <2>2. pc' \in [Ranks -> Steps] /\ kvsname' \in [Ranks -> {"none", "job", "dummy"}]
    BY <2>1, Typed
  <2> QED BY <2>1, <2>2, Typed, Retyped
<1>4. CASE PutAlone(r)
  <2>1. /\ pc' = [pc EXCEPT ![r] = IF pc[r] = "ip" THEN "port" ELSE "barrier"]
        /\ cached' = [cached EXCEPT ![r] = [key |-> PutKey(r), val |-> PutVal(r)]]
        /\ pc[r] \in {"ip", "port"}
        /\ UNCHANGED <<env, state, size, rank, kvsname, getting, table, asked, lines, managerVars, up>>
    BY <1>4 DEF PutAlone
  <2>2. [key |-> PutKey(r), val |-> PutVal(r)] \in [key : {"ip", "port"} \X Nat, val : Values]
    BY <2>1, PutTyped
  <2>3. pc' \in [Ranks -> Steps]
    BY <2>1, Typed
  <2>4. cached' \in [Ranks -> [key : {"ip", "port"} \X Nat, val : Values]]
    BY <2>1, <2>2, Typed
  <2> QED BY <2>1, <2>3, <2>4, Typed, Retyped
<1>5. CASE Ask(r)
  <2>1. /\ asked' = [asked EXCEPT ![r] = "sent"]
        /\ UNCHANGED <<env, pc, state, size, rank, kvsname, cached, table, lines, managerVars, up>>
    BY <1>5 DEF Ask
  <2>2. getting' = getting \/ \E k \in Keys : getting' = [getting EXCEPT ![r] = k]
    <3>1. NextKeys(r) \subseteq Keys
      BY DEF NextKeys, Wanted
    <3> QED BY <1>5, <3>1 DEF Ask
  <2>3. CASE getting' = getting
    <3>1. getting' \in [Ranks -> Keys] /\ asked' \in [Ranks -> {"no", "sent", "served"}]
      BY <2>1, <2>3, Typed
    <3> QED BY <2>1, <3>1, Typed, Retyped
  <2>4. CASE \E k \in Keys : getting' = [getting EXCEPT ![r] = k]
    <3>1. PICK k \in Keys : getting' = [getting EXCEPT ![r] = k]
      BY <2>4
    <3>2. getting' \in [Ranks -> Keys]
      BY <3>1, Typed
    <3>3. asked' \in [Ranks -> {"no", "sent", "served"}]
      BY <2>1, Typed
    <3> QED BY <2>1, <3>2, <3>3, Typed, Retyped
  <2> QED BY <2>2, <2>3, <2>4
<1> QED BY <1>1, <1>2, <1>3, <1>4, <1>5 DEF StartStep, AloneStep

LEMMA AnswerStepTyped ==
  ASSUME TypesRight, NEW r \in Ranks, AnswerStep(r) \/ WriteFails(r) \/ ReadFails(r)
  PROVE  TypesRight'
<1>1. CASE WriteFails(r) \/ ReadFails(r)
  <2>1. PICK next \in {"aborted", AfterFailure(r), "putCached", "name"} : Fail(r, next)
    BY <1>1 DEF WriteFails, ReadFails
  <2>2. next \in Steps
    BY AfterTyped DEF Steps, Asking, Ended
  <2>3. lines' = lines
    BY <1>1 DEF WriteFails, ReadFails
  <2> QED BY <2>1, <2>2, <2>3, Typed, FailTyped
<1>2. CASE AnswerRefused(r)
  <2>1. /\ Fail(r, AfterFailure(r)) /\ lines[r] # <<>> /\ lines' = [lines EXCEPT ![r] = Tail(lines[r])]
    BY <1>2 DEF AnswerRefused
  <2>2. lines[r] \in Seq(AnyLine)
    BY Typed
  <2>3. Tail(lines[r]) \in Seq(AnyLine)
    BY <2>1, <2>2, LineTail
  <2>4. lines' \in [Ranks -> Seq(AnyLine)]
    BY <2>1, <2>3, Typed
  <2> QED BY <2>1, <2>4, AfterTyped, FailTyped
<1>3. CASE HandshakeAnswered(r)
  <2>1. PICK next \in Steps, n, m \in Nat :
          Answered(r, next) /\ size' = [size EXCEPT ![r] = n] /\ rank' = [rank EXCEPT ![r] = m]
    <3>1. size = [size EXCEPT ![r] = size[r]] /\ rank = [rank EXCEPT ![r] = rank[r]]
          /\ size[r] \in Nat /\ rank[r] \in Nat
      BY Typed
    <3>2. {"size", "rank", "debug", "init"} \subseteq Steps
      BY DEF Steps, Asking, Unasked
    <3>3. ASSUME NEW next \in Steps, Answered(r, next) PROVE Number(Answer(r)) \in Nat
      BY <3>3, AnswerTyped, Numbers
    <3> QED BY <1>3, <3>1, <3>2, <3>3 DEF HandshakeAnswered, RankSent
  <2>2. size' \in [Ranks -> Nat] /\ rank' \in [Ranks -> Nat]
    BY <2>1, Typed
  <2>3. UNCHANGED <<state, kvsname, getting, table>>
    BY <1>3 DEF HandshakeAnswered
  <2> QED BY <2>1, <2>2, <2>3, Typed, AnswerTyped, Retyped
<1>4. CASE MaxesAnswered(r)
  <2>1. PICK next \in Steps, st \in {"uninitialized", "alone", "normal", "promoted"} :
          Answered(r, next) /\ state' = [state EXCEPT ![r] = st]
    <3>1. state = [state EXCEPT ![r] = state[r]]
          /\ state[r] \in {"uninitialized", "alone", "normal", "promoted"}
      BY Typed
    <3>2. "maxes" \in Steps /\ AfterFailure(r) \in Steps
      BY AfterTyped DEF Steps, Asking
    <3> QED BY <1>4, <3>1, <3>2, AfterTyped DEF MaxesAnswered
  <2>2. state' \in [Ranks -> {"uninitialized", "alone", "normal", "promoted"}]
    BY <2>1, Typed
  <2>3. UNCHANGED <<size, rank, kvsname, getting, table>>
    BY <1>4 DEF MaxesAnswered
  <2> QED BY <2>1, <2>2, <2>3, Typed, AnswerTyped, Retyped
<1>5. CASE NameAnswered(r)
  <2>1. /\ Answered(r, "ip") /\ kvsname' = [kvsname EXCEPT ![r] = "job"] /\ "ip" \in Steps
        /\ UNCHANGED <<state, size, rank, getting, table>>
    BY <1>5 DEF NameAnswered, Steps, Asking
  <2>2. kvsname' \in [Ranks -> {"none", "job", "dummy"}]
    BY <2>1, Typed
  <2> QED BY <2>1, <2>2, Typed, AnswerTyped, Retyped
<1>6. CASE PutAnswered(r) \/ BarrierAnswered(r)
  <2>1. PICK next \in {"port", "barrier", "get"} : Answered(r, next)
    BY <1>6 DEF PutAnswered, BarrierAnswered
  <2>2. UNCHANGED processVars
    BY <1>6 DEF PutAnswered, BarrierAnswered
  <2>3. next \in Steps
    BY DEF Steps, Asking
  <2> QED BY <2>1, <2>2, <2>3, Typed, AnswerTyped, Retyped DEF processVars
<1>7. CASE GetAnswered(r)
  <2>1. PICK next \in {"ready", "get"} : Answered(r, next)
    BY <1>7 DEF GetAnswered
  <2>2. /\ table' = [table EXCEPT ![r][getting[r]] = Answer(r)]
        /\ UNCHANGED <<state, size, rank, kvsname, getting>>
    BY <1>7 DEF GetAnswered
  <2>3. next \in Steps
    BY DEF Steps, Asking, Ended
  <2>4. Answer(r) \in Values
    BY <2>1, <2>3, AnswerTyped
  <2>5. table' \in [Ranks -> [Keys -> Values]]
    BY <2>2, <2>4, Typed, EntryTyped
  <2> QED BY <2>1, <2>2, <2>3, <2>5, Typed, AnswerTyped, Retyped
<1>8. CASE SinginitAnswered(r)
  <2>1. CASE pc[r] = "hello" /\ Answered(r, "singinit") /\ UNCHANGED <<state, size, rank>>
    <3>1. "singinit" \in Steps
      BY DEF Steps, Asking
    <3>2. UNCHANGED <<kvsname, getting, table>>
      BY <1>8 DEF SinginitAnswered
    <3> QED BY <2>1, <3>1, <3>2, Typed, AnswerTyped, Retyped
  <2>2. CASE ~(pc[r] = "hello" /\ Answered(r, "singinit") /\ UNCHANGED <<state, size, rank>>)
    <3>1. /\ Answered(r, "init") /\ state' = [state EXCEPT ![r] = "promoted"]
          /\ size' = [size EXCEPT ![r] = 1] /\ rank' = [rank EXCEPT ![r] = 0]
          /\ UNCHANGED <<kvsname, getting, table>>
      BY <1>8, <2>2 DEF SinginitAnswered
    <3>2. "init" \in Steps
      BY DEF Steps, Asking
    <3>3. /\ state' \in [Ranks -> {"uninitialized", "alone", "normal", "promoted"}]
          /\ size' \in [Ranks -> Nat] /\ rank' \in [Ranks -> Nat]
      BY <3>1, Typed
    <3> QED BY <3>1, <3>2, <3>3, Typed, AnswerTyped, Retyped
  <2> QED BY <2>1, <2>2
<1> QED BY <1>1, <1>2, <1>3, <1>4, <1>5, <1>6, <1>7, <1>8 DEF AnswerStep

LEMMA ManagerStepTyped ==
  ASSUME TypesRight, AskedInTurn, NEW r \in Ranks, ManagerStep(r) \/ LinesLost(r)
  PROVE  TypesRight'
<1> USE DEF managerVars, processVars
<1>1. CASE Serve(r)
  <2>1. /\ asked[r] = "sent" /\ asked' = [asked EXCEPT ![r] = "served"]
        /\ lines' = [lines EXCEPT ![r] = lines[r] \o Reply(r)]
        /\ kvs' = kvs \/ kvs' = [kvs EXCEPT ![Space(r)][PutKey(r)] = PutVal(r)]
        /\ UNCHANGED <<env, pc, processVars, inBarrier, up>>
    BY <1>1 DEF Serve
  <2>2. Reply(r) \in Seq(AnyLine)
    BY <2>1, ReplyTyped DEF AskedInTurn
  <2>3. lines[r] \in Seq(AnyLine)
    BY Typed
  <2>4. lines[r] \o Reply(r) \in Seq(AnyLine)
    BY <2>2, <2>3
  <2>5. kvs' \in [Ranks -> [Keys -> Values]]
    <3>1. CASE kvs' = kvs
      BY <3>1, Typed
    <3>2. CASE kvs' = [kvs EXCEPT ![Space(r)][PutKey(r)] = PutVal(r)]
      <4>1. Space(r) \in Ranks /\ PutVal(r) \in Values /\ kvs \in [Ranks -> [Keys -> Values]]
        BY Typed, PutTyped
      <4>2. [kvs EXCEPT ![Space(r)][PutKey(r)] = PutVal(r)] \in [Ranks -> [Keys -> Values]]
        BY <4>1, EntryTyped
      <4> QED BY <3>2, <4>2
    <3> QED BY <2>1, <3>1, <3>2
  <2>6. lines' \in [Ranks -> Seq(AnyLine)] /\ asked' \in [Ranks -> {"no", "sent", "served"}]
    BY <2>1, <2>4, Typed
  <2> QED BY <2>1, <2>5, <2>6, Typed, Retyped
<1>2. CASE ServeBarrier(r)
  <2>1. /\ asked' = [asked EXCEPT ![r] = "served"] /\ inBarrier' = inBarrier \cup {r}
        /\ lines' = [s \in Ranks |->
                       IF s \in inBarrier' /\ AllEntered(inBarrier')
                       THEN Append(lines[s], Line("barrier_out", 0, None)) ELSE lines[s]]
        /\ UNCHANGED <<env, pc, processVars, kvs, up>>
    BY <1>2 DEF ServeBarrier
  <2>2. Line("barrier_out", 0, None) \in AnyLine
    BY LineTyped, Numbers DEF Commands
  <2>3. ASSUME NEW s \in Ranks
        PROVE  lines[s] \in Seq(AnyLine) /\ Append(lines[s], Line("barrier_out", 0, None)) \in Seq(AnyLine)
    <3>1. lines[s] \in Seq(AnyLine)
      BY Typed
    <3> QED BY <2>2, <3>1
  <2>4. lines' \in [Ranks -> Seq(AnyLine)]
    BY <2>1, <2>3
  <2>5. inBarrier' \in SUBSET Ranks /\ asked' \in [Ranks -> {"no", "sent", "served"}]
    BY <2>1, Typed
  <2> QED BY <2>1, <2>4, <2>5, Typed, Retyped
<1>3. CASE CallBack(r)
  <2>1. /\ pc' = [pc EXCEPT ![r] = "hello"] /\ lines' = [lines EXCEPT ![r] = <<Line("singinit", 0, None)>>]
        /\ UNCHANGED <<env, processVars, asked, managerVars, up>>
    BY <1>3 DEF CallBack
  <2>2. <<Line("singinit", 0, None)>> \in Seq(AnyLine)
    <3>1. Line("singinit", 0, None) \in AnyLine
      BY LineTyped, Numbers DEF Commands
    <3> QED BY <3>1, Written
  <2>3. "hello" \in Steps
    BY DEF Steps, Unasked
  <2>4. pc' \in [Ranks -> Steps] /\ lines' \in [Ranks -> Seq(AnyLine)]
    BY <2>1, <2>2, <2>3, Typed
  <2> QED BY <2>1, <2>4, Typed, Retyped
<1>4. CASE LinesLost(r)
  <2>1. PICK ls \in Remains(lines[r]) : lines' = [lines EXCEPT ![r] = ls]
    BY <1>4 DEF LinesLost
  <2>2. lines[r] \in Seq(AnyLine)
    BY Typed
  <2>3. LeftOf(lines[r], lines[r], FALSE)
    BY <2>2, LeftSimply
  <2>4. ls \in Seq(AnyLine)
    BY <2>2, <2>3, LineLost
  <2>5. lines' \in [Ranks -> Seq(AnyLine)]
    BY <2>1, <2>4, Typed
  <2>6. UNCHANGED <<env, pc, processVars, asked, managerVars, up>>
    BY <1>4 DEF LinesLost
  <2> QED BY <2>5, <2>6, Typed, Retyped
<1> QED BY <1>1, <1>2, <1>3, <1>4 DEF ManagerStep

LEMMA StepTyped ==
  ASSUME TypesRight, AskedInTurn, [Next]_vars
  PROVE  TypesRight'
<1>1. CASE UNCHANGED vars
  BY <1>1, Typed, Retyped DEF vars, processVars, managerVars
<1>2. CASE ManagerDies
  BY <1>2, Typed, Retyped DEF ManagerDies, processVars, managerVars
<1>3. ASSUME NEW r \in Ranks, ProcessStep(r) \/ ManagerStep(r) \/ LinesLost(r)
      PROVE  TypesRight'
  BY <1>3, OwnStepTyped, AnswerStepTyped, ManagerStepTyped DEF ProcessStep
<1> QED BY <1>1, <1>2, <1>3 DEF Next

-----------------------------------------------------------------------------
(* A process of a job that does not move. *)

Unmoved(s) ==
    /\ pc'[s] = pc[s] /\ state'[s] = state[s] /\ size'[s] = size[s] /\ rank'[s] = rank[s]
    /\ kvsname'[s] = kvsname[s] /\ getting'[s] = getting[s] /\ table'[s] = table[s]
    /\ asked'[s] = asked[s] /\ lines'[s] = lines[s]

SameKeys(s) == \A name \in {"ip", "port"} : kvs'[0][<<name, s>>] = kvs[0][<<name, s>>]

LEMMA DueTyped ==
  ASSUME TypesRight, NEW s \in Ranks, OnItsWay(s)
  PROVE  Due(s) \in Seq(AnyLine)
<1>1. Size \in Values /\ s \in Values /\ 0 \in Values /\ None \in Values /\ Address(getting[s]) \in Values
  <2>1. getting[s] \in Keys
    BY Typed
  <2> QED BY <2>1, Addresses, Numbers DEF Values
<1>2. /\ Line("initack", 0, None) \in AnyLine /\ Line("set", 0, Size) \in AnyLine
      /\ Line("set", 0, s) \in AnyLine /\ Line("set", 0, 0) \in AnyLine
      /\ Line("barrier_out", 0, None) \in AnyLine
      /\ Line("get_result", 0, Address(getting[s])) \in AnyLine
  <2>1. /\ "initack" \in Commands /\ "set" \in Commands /\ "barrier_out" \in Commands
        /\ "get_result" \in Commands /\ 0 \in {0, 1}
    BY DEF Commands
  <2> QED BY <1>1, <2>1, LineTyped, Zenon
<1>3. asked[s] # "no" => Line(Expected(pc[s]), 0, None) \in AnyLine
  <2>1. asked[s] # "no" => pc[s] \in Asking
    BY DEF OnItsWay
  <2>2. asked[s] # "no" => Expected(pc[s]) \in Commands
    BY <2>1, ExpectedTyped
  <2> QED BY <1>1, <2>2, LineTyped
<1>4. \A a, b, c, d \in AnyLine :
        <<>> \in Seq(AnyLine) /\ <<a>> \in Seq(AnyLine) /\ <<c, d>> \in Seq(AnyLine)
        /\ <<b, c, d>> \in Seq(AnyLine) /\ <<a, b, c, d>> \in Seq(AnyLine)
  OBVIOUS
<1> HIDE DEF Line, AnyLine
<1>5. CASE asked[s] = "served"
  BY <1>2, <1>3, <1>4, <1>5 DEF Due
<1>6. CASE asked[s] # "served"
  BY <1>2, <1>4, <1>6 DEF Due
<1> QED BY <1>5, <1>6

LEMMA JobSame ==
  ASSUME TypesRight, TypesRight', NEW s \in Ranks, JobInv(s), Unmoved(s), SameKeys(s),
         inBarrier' = inBarrier, up' = up \/ ~up'
  PROVE  JobInv(s)'
<1>1. up \in BOOLEAN /\ up' \in BOOLEAN
  BY DEF TypesRight, TypeOK
<1>2. Due(s)' = Due(s)
  BY DEF Due, Unmoved
<1>3. LeftOf(lines[s], Due(s), up)'
  <2>1. LeftOf(lines[s], Due(s), up)
    BY DEF JobInv
  <2>2. lines[s] \in Seq(AnyLine) /\ Due(s) \in Seq(AnyLine)
    BY Typed, DueTyped DEF JobInv
  <2>3. LeftOf(lines[s], Due(s), up')
    <3>1. CASE up' = up
      BY <2>1, <3>1
    <3>2. CASE up = TRUE /\ up' = FALSE
      <4>1. LeftOf(lines[s], Due(s), TRUE)
        BY <2>1, <3>2
      <4>2. LeftOf(lines[s], Due(s), FALSE)
        BY <2>2, <4>1, LeftSimply
      <4> QED BY <3>2, <4>2
    <3> QED BY <1>1, <3>1, <3>2
  <2> QED BY <1>2, <2>3 DEF Unmoved
<1>4. OnItsWay(s)'
  BY <1>1 DEF OnItsWay, Unmoved, JobInv
<1>5. IdentityFollows(s)'
  BY <1>1 DEF IdentityFollows, Unmoved, JobInv, Lost, Known
<1>6. PutsInTurn(s)'
  BY DEF PutsInTurn, Unmoved, JobInv, Readable, SameKeys, NotYetPut, AlreadyPut
<1>7. WaitsForAll(s)'
  BY <1>1 DEF WaitsForAll, Unmoved, JobInv, Readable, SameKeys
<1>8. ReadInOrder(s)'
  <2>1. NextKeys(s)' = NextKeys(s)
    BY DEF NextKeys, Wanted, Unmoved
  <2> QED BY <1>1, <2>1 DEF ReadInOrder, Unmoved, JobInv, Lost
<1> QED BY <1>3, <1>4, <1>5, <1>6, <1>7, <1>8 DEF JobInv

-----------------------------------------------------------------------------
(* A process of a job that moves. *)

\* What is not said of it before it writes a request.
LEMMA DueSimply ==
  ASSUME TypesRight, NEW s \in Ranks, JobInv(s), asked[s] = "no", pc[s] \notin Unasked
  PROVE  Due(s) = <<>> /\ lines[s] = <<>>
<1>1. Due(s) = <<>>
  BY DEF Due, Unasked
<1>2. lines[s] \in Seq(AnyLine) /\ up \in BOOLEAN
  BY Typed
<1>3. LeftOf(lines[s], <<>>, up)
  BY <1>1 DEF JobInv
<1>4. <<>> \in Seq(AnyLine)
  OBVIOUS
<1>5. lines[s] = <<>>
  BY <1>2, <1>3, <1>4, LeftSimply
<1> QED BY <1>1, <1>5

\* The first line due is the one that is expected.
LEMMA DueExpected ==
  ASSUME TypesRight, NEW s \in Ranks, JobInv(s), Due(s) # <<>>
  PROVE  /\ Head(Due(s)).cmd = Expected(pc[s]) /\ Head(Due(s)).rc = 0
         /\ asked[s] = "served" \/ pc[s] \in {"size", "rank", "debug"}
         /\ pc[s] = "barrier" => inBarrier = Ranks
<1>1. asked[s] # "no" => pc[s] \in Asking
  BY DEF JobInv, OnItsWay
<1>2. \A a, b, c, d : Head(<<a>>) = a /\ Head(<<c, d>>) = c /\ Head(<<b, c, d>>) = b /\ Head(<<a, b, c, d>>) = a
  OBVIOUS
<1>3. CASE asked[s] = "served"
  <2>1. pc[s] \in Asking
    BY <1>1, <1>3
  <2>2. CASE pc[s] = "initack"
    BY <1>2, <1>3, <2>2 DEF Due, Expected, Line
  <2>3. CASE pc[s] = "barrier"
    BY <1>2, <1>3, <2>3 DEF Due, Expected, Line, AllEntered
  <2>4. CASE pc[s] = "get"
    BY <1>2, <1>3, <2>4 DEF Due, Expected, Line
  <2>5. CASE pc[s] \notin {"initack", "barrier", "get"}
    <3>1. Due(s) = <<Line(Expected(pc[s]), 0, None)>>
      BY <1>3, <2>5 DEF Due
    <3>2. Head(Due(s)) = Line(Expected(pc[s]), 0, None)
      BY <3>1
    <3> QED BY <1>3, <2>5, <3>2 DEF Line
  <2> QED BY <2>2, <2>3, <2>4, <2>5
<1>4. CASE asked[s] # "served"
  <2>1. pc[s] \in {"size", "rank", "debug"}
    BY <1>4 DEF Due
  <2>2. CASE pc[s] = "size"
    BY <1>2, <1>4, <2>2 DEF Due, Expected, Line
  <2>3. CASE pc[s] = "rank"
    BY <1>2, <1>4, <2>3 DEF Due, Expected, Line
  <2>4. CASE pc[s] = "debug"
    BY <1>2, <1>4, <2>4 DEF Due, Expected, Line
  <2> QED BY <2>1, <2>2, <2>3, <2>4
<1> QED BY <1>3, <1>4

\* What a process of a job reads is what is due, or a cut of it, the last line.
Heard(s) ==
    /\ Due(s) # <<>>
    /\ LeftOf(Tail(lines[s]), Tail(Due(s)), up)
    /\ \/ Head(lines[s]) = Head(Due(s)) /\ ~Refused(s, Head(lines[s]))
       \/ ~up /\ Tail(lines[s]) = <<>> /\ Answer(s) = Empty
    /\ asked[s] = "served" \/ pc[s] \in {"size", "rank", "debug"}
    /\ pc[s] = "barrier" => inBarrier = Ranks

LEMMA JobHears ==
  ASSUME TypesRight, NEW s \in Ranks, JobInv(s), lines[s] # <<>>
  PROVE  Heard(s)
<1>1. lines[s] \in Seq(AnyLine) /\ Due(s) \in Seq(AnyLine) /\ up \in BOOLEAN /\ LeftOf(lines[s], Due(s), up)
  BY Typed, DueTyped DEF JobInv
<1>2. /\ Due(s) # <<>> /\ Head(lines[s]) \in AnyLine /\ Head(Due(s)) \in AnyLine
      /\ LeftOf(Tail(lines[s]), Tail(Due(s)), up)
      /\ \/ Head(lines[s]) = Head(Due(s))
         \/ ~up /\ Tail(lines[s]) = <<>> /\ Head(lines[s]) \in Cuts(Head(Due(s)))
  BY <1>1, LineTakenOff
<1>3. /\ Head(Due(s)).cmd = Expected(pc[s]) /\ Head(Due(s)).rc = 0
      /\ asked[s] = "served" \/ pc[s] \in {"size", "rank", "debug"}
      /\ pc[s] = "barrier" => inBarrier = Ranks
  BY <1>2, DueExpected
<1>4. CASE Head(lines[s]) = Head(Due(s))
  <2>1. ~Refused(s, Head(lines[s]))
    BY <1>3, <1>4 DEF Refused
  <2> QED BY <1>2, <1>3, <1>4, <2>1 DEF Heard
<1>5. CASE ~up /\ Tail(lines[s]) = <<>> /\ Head(lines[s]) \in Cuts(Head(Due(s)))
  <2>1. Head(lines[s]).val = Empty
    BY <1>2, <1>5, CutTyped
  <2> QED BY <1>2, <1>3, <1>5, <2>1 DEF Heard, Answer
<1> QED BY <1>2, <1>4, <1>5

\* A request that failed: the manager is dead and nothing is left to read.
Broken(r) ==
    /\ ~up' /\ lines'[r] = <<>> /\ asked'[r] = "no"
    /\ \/ pc'[r] = "aborted"
       \/ pc[r] \in Early /\ pc'[r] \in {"init", "name"}
    /\ state'[r] \in {"uninitialized", "normal"}
    /\ size'[r] = size[r] /\ rank'[r] = rank[r] /\ kvsname'[r] = kvsname[r]
    /\ getting'[r] = getting[r] /\ table'[r] = table[r]

LEMMA JobBreaks ==
  ASSUME TypesRight, TypesRight', NEW r \in Ranks, JobInv(r), Broken(r), SameKeys(r), inBarrier' = inBarrier
  PROVE  JobInv(r)'
<1>1. pc'[r] \in {"aborted", "init", "name"} /\ asked'[r] = "no" /\ ~up' /\ lines'[r] = <<>>
  BY DEF Broken
<1>2. Due(r)' = <<>>
  BY <1>1 DEF Due
<1>3. LeftOf(lines[r], Due(r), up)'
  <2>1. LeftOf(<<>>, <<>>, FALSE)
    <3>1. <<>> \in Seq(AnyLine)
      OBVIOUS
    <3> QED BY <3>1, LeftSimply
  <2>2. up' = FALSE
    BY <1>1 DEF TypesRight, TypeOK
  <2> QED BY <1>1, <1>2, <2>1, <2>2
<1>4. OnItsWay(r)'
  BY <1>1 DEF OnItsWay, Broken, Publishing
<1>5. IdentityFollows(r)'
  BY <1>1 DEF IdentityFollows, Lost, Publishing
<1>6. PutsInTurn(r)'
  <2>1. pc'[r] \in {"init", "name"} => pc[r] \in Early
    BY DEF Broken
  <2> QED BY <1>1, <2>1 DEF PutsInTurn, JobInv, Readable, SameKeys, NotYetPut, AlreadyPut, Early
<1>7. WaitsForAll(r)'
  <2>1. pc'[r] = "aborted" \/ pc[r] \in Early
    BY DEF Broken
  <2> QED BY <1>1, <2>1 DEF WaitsForAll, JobInv, Readable, SameKeys, Early
<1>8. ReadInOrder(r)'
  <2>1. table'[r] = table[r]
    BY DEF Broken
  <2> QED BY <1>1, <2>1 DEF ReadInOrder, JobInv, Lost
<1> QED BY <1>3, <1>4, <1>5, <1>6, <1>7, <1>8 DEF JobInv

-----------------------------------------------------------------------------
(* The steps of a process of a job: starting, asking, failing. *)

\* All other processes, the manager and its tables stay as they are.
Alone(r) ==
    /\ \A s \in Ranks \ {r} : Unmoved(s)
    /\ UNCHANGED <<env, kvs, inBarrier, up>>

LEMMA JobStarts ==
  ASSUME TypesRight, TypesRight', env # "alone", NEW r \in Ranks, JobInv(r), StartStep(r)
  PROVE  JobInv(r)' /\ Alone(r)
<1> USE DEF processVars, managerVars
<1>1. /\ pc[r] = "start" /\ pc' = [pc EXCEPT ![r] = pc'[r]]
      /\ pc'[r] \in {"init", "initack", "noInterface", "aborted"}
      /\ pc'[r] = "init" => size'[r] = Size /\ rank'[r] = r
      /\ pc'[r] = "aborted" => ~up
      /\ \A s \in Ranks \ {r} : size'[s] = size[s] /\ rank'[s] = rank[s]
      /\ UNCHANGED <<env, state, kvsname, cached, getting, table, asked, lines, kvs, inBarrier, up>>
  <2>1. CASE NoInterface(r) \/ StartFromPort(r) \/ ConnectFails(r)
    BY <2>1, Typed DEF NoInterface, StartFromPort, ConnectFails
  <2>2. CASE StartFromEnvironment(r)
    BY <2>2, Typed DEF StartFromEnvironment
  <2>3. ~StartAlone(r)
    BY DEF StartAlone
  <2> QED BY <2>1, <2>2, <2>3 DEF StartStep
<1>2. asked[r] = "no" /\ asked' = asked /\ lines' = lines
  <2>1. asked[r] # "no" => pc[r] \in Asking
    BY DEF JobInv, OnItsWay
  <2> QED BY <1>1, <2>1 DEF Asking
<1>3. lines[r] = <<>>
  BY <1>1, <1>2, DueSimply DEF Unasked
<1>4. Due(r)' = <<>>
  BY <1>1, <1>2 DEF Due
<1>5. LeftOf(lines[r], Due(r), up)'
  <2>1. <<>> \in Seq(AnyLine) /\ up \in BOOLEAN
    BY Typed
  <2>2. LeftOf(<<>>, <<>>, up)
    BY <2>1, LeftSimply
  <2> QED BY <1>1, <1>2, <1>3, <1>4, <2>2
<1>6. OnItsWay(r)'
  BY <1>1, <1>2 DEF OnItsWay, Publishing, JobInv
<1>7. IdentityFollows(r)'
  BY <1>1 DEF IdentityFollows, Publishing, Known
<1>8. PutsInTurn(r)'
  BY <1>1 DEF PutsInTurn, JobInv, Readable, NotYetPut, AlreadyPut, Early
<1>9. WaitsForAll(r)'
  <2>1. r \notin inBarrier
    BY <1>1 DEF JobInv, WaitsForAll
  <2> QED BY <1>1, <2>1 DEF WaitsForAll
<1>10. ReadInOrder(r)'
  BY <1>1 DEF ReadInOrder, JobInv, Lost
<1>11. Alone(r)
  BY <1>1, Typed DEF Alone, Unmoved
<1> QED BY <1>5, <1>6, <1>7, <1>8, <1>9, <1>10, <1>11 DEF JobInv

LEMMA JobAsks ==
  ASSUME TypesRight, TypesRight', env # "alone", NEW r \in Ranks, JobInv(r), Ask(r)
  PROVE  JobInv(r)' /\ Alone(r)
<1>1. /\ asked[r] = "no" /\ pc[r] \in Asking /\ asked' = [asked EXCEPT ![r] = "sent"]
      /\ UNCHANGED <<env, pc, state, size, rank, kvsname, cached, table, lines, kvs, inBarrier, up>>
  BY DEF Ask, Writing, managerVars
<1>2. /\ \A s \in Ranks \ {r} : getting'[s] = getting[s]
      /\ pc[r] = "get" => getting'[r] \in NextKeys(r)
  <2>1. CASE pc[r] = "get"
    <3>1. PICK k \in NextKeys(r) : getting' = [getting EXCEPT ![r] = k]
      BY <2>1 DEF Ask
    <3> QED BY <3>1, Typed
  <2>2. CASE pc[r] # "get"
    BY <2>2 DEF Ask
  <2> QED BY <2>1, <2>2
<1>3. Due(r) = <<>> /\ lines[r] = <<>>
  BY <1>1, DueSimply DEF Asking, Unasked
<1>4. asked'[r] = "sent"
  BY <1>1, Typed
<1>5. Due(r)' = <<>>
  BY <1>1, <1>4 DEF Due, Asking
<1>6. LeftOf(lines[r], Due(r), up)'
  BY <1>1, <1>3, <1>5 DEF JobInv
<1>7. OnItsWay(r)'
  BY <1>1 DEF OnItsWay, JobInv
<1>8. IdentityFollows(r)'
  BY <1>1 DEF IdentityFollows, JobInv, Known, Lost
<1>9. PutsInTurn(r)'
  BY <1>1, <1>4 DEF PutsInTurn, JobInv, Readable, NotYetPut, AlreadyPut
<1>10. WaitsForAll(r)'
  BY <1>1, <1>4 DEF WaitsForAll, JobInv, Readable
<1>11. ReadInOrder(r)'
  <2>1. NextKeys(r)' = NextKeys(r)
    BY <1>1 DEF NextKeys, Wanted
  <2> QED BY <1>1, <1>2, <2>1 DEF ReadInOrder, JobInv, Lost
<1>12. Alone(r)
  BY <1>1, <1>2, Typed DEF Alone, Unmoved
<1> QED BY <1>6, <1>7, <1>8, <1>9, <1>10, <1>11, <1>12 DEF JobInv

\* Where a failure leads a process of a job.
LEMMA JobFailsTo ==
  ASSUME NEW r \in Ranks, OnItsWay(r)
  PROVE  /\ AfterFailure(r) = "aborted" \/ (pc[r] \in Early /\ AfterFailure(r) \in {"init", "name"})
         /\ \A next : StateAfter(r, next) \in {"uninitialized", "normal"}
<1>1. state[r] \in {"uninitialized", "normal"} /\ pc[r] # "putCached"
  BY DEF OnItsWay
<1>2. ASSUME NEW next PROVE StateAfter(r, next) \in {"uninitialized", "normal"}
  <2>1. StateAfter(r, next) \in {"normal", state[r]}
    BY DEF StateAfter
  <2> QED BY <1>1, <2>1
<1>3. AfterFailure(r) = "aborted" \/ (pc[r] \in Early /\ AfterFailure(r) \in {"init", "name"})
  <2>1. CASE pc[r] \in {"initack", "size", "rank", "debug"}
    BY <2>1 DEF AfterFailure, Early
  <2>2. CASE pc[r] = "maxes"
    <3>1. AfterFailure(r) = "name"
      BY <1>1, <2>2 DEF AfterFailure
    <3> QED BY <2>2, <3>1 DEF Early
  <2>3. CASE pc[r] \notin {"initack", "size", "rank", "debug", "maxes"}
    BY <1>1, <2>3 DEF AfterFailure
  <2> QED BY <2>1, <2>2, <2>3
<1> QED BY <1>2, <1>3

LEMMA JobFails ==
  ASSUME TypesRight, TypesRight', env # "alone", NEW r \in Ranks, JobInv(r),
         WriteFails(r) \/ ReadFails(r) \/ AnswerRefused(r)
  PROVE  JobInv(r)' /\ Alone(r)
<1>1. OnItsWay(r)
  BY DEF JobInv
<1>2. PICK next : /\ Fail(r, next)
                  /\ next = "aborted" \/ (pc[r] \in Early /\ next \in {"init", "name"})
  <2>1. CASE WriteFails(r)
    <3>1. state[r] # "promoted"
      BY <1>1 DEF OnItsWay
    <3>2. CASE pc[r] = "init"
      <4>1. Fail(r, "aborted") \/ Fail(r, "name")
        BY <2>1, <3>1, <3>2 DEF WriteFails
      <4> QED BY <3>2, <4>1 DEF Early
    <3>3. CASE pc[r] # "init"
      <4>1. Fail(r, "aborted") \/ Fail(r, AfterFailure(r))
        BY <2>1, <3>3 DEF WriteFails
      <4> QED BY <1>1, <4>1, JobFailsTo
    <3> QED BY <3>2, <3>3
  <2>2. CASE ReadFails(r)
    BY <1>1, <2>2, JobFailsTo DEF ReadFails
  <2>3. CASE AnswerRefused(r)
    BY <1>1, <2>3, JobFailsTo DEF AnswerRefused
  <2> QED BY <2>1, <2>2, <2>3
<1>3. ~up /\ lines'[r] = <<>> /\ \A s \in Ranks \ {r} : lines'[s] = lines[s]
  <2>1. CASE WriteFails(r)
    <3>1. ~up /\ lines' = lines /\ asked[r] = "no" /\ pc[r] \notin Unasked
      BY <2>1 DEF WriteFails, Writing, Asking, Unasked
    <3> QED BY <3>1, DueSimply
  <2>2. CASE ReadFails(r)
    BY <2>2 DEF ReadFails, EndOfFile
  <2>3. CASE AnswerRefused(r)
    <3>1. lines[r] # <<>> /\ Refused(r, Head(lines[r])) /\ lines' = [lines EXCEPT ![r] = Tail(lines[r])]
      BY <2>3 DEF AnswerRefused
    <3>2. Heard(r)
      BY <3>1, JobHears
    <3>3. ~up /\ Tail(lines[r]) = <<>>
      BY <3>1, <3>2 DEF Heard
    <3> QED BY <3>1, <3>3, Typed
  <2> QED BY <2>1, <2>2, <2>3
<1>4. /\ pc' = [pc EXCEPT ![r] = next] /\ state' = [state EXCEPT ![r] = StateAfter(r, next)]
      /\ asked' = [asked EXCEPT ![r] = "no"]
      /\ UNCHANGED <<env, size, rank, kvsname, cached, getting, table, kvs, inBarrier, up>>
  BY <1>2 DEF Fail, managerVars
<1>5. StateAfter(r, next) \in {"uninitialized", "normal"}
  BY <1>1, JobFailsTo
<1>6. pc'[r] = next /\ asked'[r] = "no" /\ state'[r] = StateAfter(r, next)
  BY <1>4, Typed
<1>7. Broken(r)
  BY <1>2, <1>3, <1>4, <1>5, <1>6 DEF Broken
<1>8. Alone(r)
  BY <1>3, <1>4, Typed DEF Alone, Unmoved
<1>9. SameKeys(r) /\ inBarrier' = inBarrier
  BY <1>4 DEF SameKeys
<1> QED BY <1>7, <1>8, <1>9, JobBreaks

-----------------------------------------------------------------------------
(* The answers a process of a job reads. *)

\* What an answer that was expected changes in all cases.
Taken(r, next) ==
    /\ pc'[r] = next /\ asked'[r] = "no" /\ lines'[r] = Tail(lines[r])
    /\ lines[r] # <<>>
    /\ \A s \in Ranks \ {r} : pc'[s] = pc[s] /\ asked'[s] = asked[s] /\ lines'[s] = lines[s]
    /\ UNCHANGED <<env, kvs, inBarrier, up>>

LEMMA AnswerTaken ==
  ASSUME TypesRight, NEW r \in Ranks, NEW next, JobInv(r), Answered(r, next)
  PROVE  Taken(r, next) /\ Heard(r)
<1>1. /\ lines[r] # <<>> /\ pc' = [pc EXCEPT ![r] = next] /\ asked' = [asked EXCEPT ![r] = "no"]
      /\ lines' = [lines EXCEPT ![r] = Tail(lines[r])]
      /\ UNCHANGED <<env, kvs, inBarrier, up>>
  BY DEF Answered, managerVars
<1>2. Taken(r, next)
  BY <1>1, Typed DEF Taken
<1> QED BY <1>1, <1>2, JobHears

\* The line was the next one due, and those that follow remain.
LEMMA AnswerLeaves ==
  ASSUME TypesRight, NEW r \in Ranks, NEW next, JobInv(r), Taken(r, next), Heard(r),
         next # "size" => pc[r] # "initack",
         next = "size" => pc[r] = "initack",
         next = "rank" <=> pc[r] = "size",
         next = "debug" <=> pc[r] = "rank"
  PROVE  LeftOf(lines[r], Due(r), up)'
<1>1. Due(r)' = Tail(Due(r))
  <2>1. pc'[r] = next /\ asked'[r] = "no"
    BY DEF Taken
  <2>2. asked[r] = "served" \/ pc[r] \in {"size", "rank", "debug"}
    BY DEF Heard
  <2>3. asked[r] # "no" => pc[r] \in Asking
    BY DEF JobInv, OnItsWay
  <2>4. \A a, b, c, d : Tail(<<a>>) = <<>> /\ Tail(<<c, d>>) = <<d>> /\ Tail(<<b, c, d>>) = <<c, d>>
                        /\ Tail(<<a, b, c, d>>) = <<b, c, d>>
    OBVIOUS
  <2>5. CASE pc[r] = "initack"
    <3>1. next = "size" /\ asked[r] = "served"
      BY <2>2, <2>5
    <3> QED BY <2>1, <2>4, <2>5, <3>1 DEF Due
  <2>6. CASE pc[r] = "size"
    <3>1. next = "rank" /\ asked[r] = "no"
      BY <2>3, <2>6, Typed DEF Asking
    <3> QED BY <2>1, <2>4, <2>6, <3>1 DEF Due
  <2>7. CASE pc[r] = "rank"
    <3>1. next = "debug" /\ asked[r] = "no"
      BY <2>3, <2>7, Typed DEF Asking
    <3> QED BY <2>1, <2>4, <2>7, <3>1 DEF Due
  <2>8. CASE pc[r] = "debug"
    <3>1. next \notin {"size", "rank", "debug"} /\ asked[r] = "no"
      BY <2>3, <2>8, Typed DEF Asking
    <3> QED BY <2>1, <2>4, <2>8, <3>1 DEF Due
  <2>9. CASE pc[r] \notin {"initack", "size", "rank", "debug"}
    <3>1. next \notin {"size", "rank", "debug"} /\ asked[r] = "served"
      BY <2>2, <2>9
    <3>2. Due(r)' = <<>>
      BY <2>1, <3>1 DEF Due
    <3>3. pc[r] = "barrier" => AllEntered(inBarrier)
      BY DEF Heard, AllEntered
    <3>4. PICK line : Due(r) = <<line>>
      BY <2>9, <3>1, <3>3 DEF Due
    <3>5. Tail(<<line>>) = <<>>
      OBVIOUS
    <3> QED BY <3>2, <3>4, <3>5
  <2> QED BY <2>5, <2>6, <2>7, <2>8, <2>9
<1>2. lines'[r] = Tail(lines[r]) /\ up' = up
  BY DEF Taken
<1> QED BY <1>1, <1>2 DEF Heard

LEMMA JobShakesHands ==
  ASSUME TypesRight, TypesRight', env # "alone", NEW r \in Ranks, JobInv(r),
         HandshakeAnswered(r) \/ MaxesAnswered(r)
  PROVE  JobInv(r)' /\ Alone(r)
<1>1. PICK next : /\ Answered(r, next)
                  /\ \/ pc[r] = "initack" /\ next = "size"
                     \/ pc[r] = "size" /\ next = "rank"
                     \/ pc[r] = "rank" /\ next = "debug"
                     \/ pc[r] = "debug" /\ next = "init"
                     \/ pc[r] = "init" /\ next = "maxes"
                     \/ pc[r] = "maxes" /\ next = "name"
  <2>1. CASE HandshakeAnswered(r)
    BY <2>1 DEF HandshakeAnswered
  <2>2. CASE MaxesAnswered(r)
    <3>1. pc[r] = "maxes" => AfterFailure(r) = "name"
      BY DEF JobInv, OnItsWay, AfterFailure
    <3> QED BY <2>2, <3>1 DEF MaxesAnswered
  <2> QED BY <2>1, <2>2
<1>2. Taken(r, next) /\ Heard(r)
  BY <1>1, AnswerTaken
<1>3. /\ pc[r] # "size" => size' = size
      /\ pc[r] = "size" => size'[r] = Number(Answer(r))
      /\ pc[r] # "rank" => rank' = rank
      /\ pc[r] = "rank" => rank'[r] = Number(Answer(r))
      /\ \A s \in Ranks \ {r} : size'[s] = size[s] /\ rank'[s] = rank[s] /\ state'[s] = state[s]
      /\ state'[r] \in {"uninitialized", "normal"}
      /\ UNCHANGED <<kvsname, getting, table>>
  <2>1. OnItsWay(r)
    BY DEF JobInv
  <2>2. state[r] \in {"uninitialized", "normal"} /\ \A n : StateAfter(r, n) \in {"uninitialized", "normal"}
    BY <2>1, JobFailsTo DEF OnItsWay
  <2>3. CASE HandshakeAnswered(r)
    BY <2>2, <2>3, Typed DEF HandshakeAnswered, RankSent
  <2>4. CASE MaxesAnswered(r)
    BY <2>2, <2>4, Typed DEF MaxesAnswered
  <2> QED BY <2>3, <2>4
<1>4. pc'[r] = next /\ asked'[r] = "no" /\ lines'[r] = Tail(lines[r]) /\ lines[r] # <<>>
      /\ UNCHANGED <<env, kvs, inBarrier, up>>
  BY <1>2 DEF Taken
<1>5. LeftOf(lines[r], Due(r), up)'
  <2>1. /\ next # "size" => pc[r] # "initack"
        /\ next = "size" => pc[r] = "initack"
        /\ next = "rank" <=> pc[r] = "size"
        /\ next = "debug" <=> pc[r] = "rank"
    BY <1>1
  <2> QED BY <1>2, <2>1, AnswerLeaves
<1>6. OnItsWay(r)'
  BY <1>1, <1>3, <1>4 DEF OnItsWay, Publishing
<1>7. IdentityFollows(r)'
  <2>1. ~Lost(r)
    BY <1>4 DEF Lost
  <2>2. asked[r] # "no" => pc[r] \in Asking
    BY DEF JobInv, OnItsWay
  <2>3. Lost(r)' \/ Head(lines[r]) = Head(Due(r))
    BY <1>2, <1>4 DEF Heard, Lost
  <2>4. CASE pc[r] = "size"
    <3>1. Due(r) = <<Line("set", 0, Size), Line("set", 0, r), Line("set", 0, 0)>>
      BY <2>2, <2>4 DEF Due, Asking
    <3>2. Head(Due(r)).val = Size
      BY <3>1 DEF Line
    <3>3. Lost(r)' \/ size'[r] = Size
      BY <1>3, <2>3, <2>4, <3>2, Numbers DEF Answer
    <3> QED BY <1>1, <1>4, <2>4, <3>3 DEF IdentityFollows, Publishing
  <2>5. CASE pc[r] = "rank"
    <3>1. Due(r) = <<Line("set", 0, r), Line("set", 0, 0)>>
      BY <2>2, <2>5 DEF Due, Asking
    <3>2. Head(Due(r)).val = r
      BY <3>1 DEF Line
    <3>3. Lost(r)' \/ rank'[r] = r
      BY <1>3, <2>3, <2>5, <3>2, Numbers DEF Answer
    <3>4. size'[r] = Size
      BY <1>3, <2>1, <2>5 DEF JobInv, IdentityFollows
    <3> QED BY <1>1, <1>4, <2>5, <3>3, <3>4 DEF IdentityFollows, Publishing, Known
  <2>6. CASE pc[r] \in {"debug", "init", "maxes"}
    <3>1. Known(r)
      BY <2>1, <2>6 DEF JobInv, IdentityFollows
    <3>2. Known(r)'
      BY <1>3, <2>6, <3>1 DEF Known
    <3> QED BY <1>1, <1>4, <2>6, <3>2 DEF IdentityFollows, Publishing, Known
  <2>7. CASE pc[r] = "initack"
    BY <1>1, <1>4, <2>7 DEF IdentityFollows, Publishing
  <2> QED BY <1>1, <2>4, <2>5, <2>6, <2>7
<1>8. PutsInTurn(r)'
  BY <1>1, <1>4 DEF PutsInTurn, JobInv, Readable, NotYetPut, AlreadyPut, Early
<1>9. WaitsForAll(r)'
  BY <1>1, <1>4 DEF WaitsForAll, JobInv, Readable
<1>10. ReadInOrder(r)'
  <2>1. pc'[r] # "get" /\ pc'[r] # "ready" /\ table'[r] = table[r] /\ ~Lost(r)
    BY <1>1, <1>3, <1>4 DEF Lost
  <2> QED BY <2>1 DEF ReadInOrder, JobInv
<1>11. Alone(r)
  BY <1>2, <1>3, <1>4 DEF Alone, Unmoved, Taken
<1> QED BY <1>5, <1>6, <1>7, <1>8, <1>9, <1>10, <1>11 DEF JobInv

LEMMA JobPublishes ==
  ASSUME TypesRight, TypesRight', env # "alone", NEW r \in Ranks, JobInv(r),
         NameAnswered(r) \/ PutAnswered(r) \/ BarrierAnswered(r)
  PROVE  JobInv(r)' /\ Alone(r)
<1>1. PICK next : /\ Answered(r, next)
                  /\ \/ pc[r] = "name" /\ next = "ip"
                     \/ pc[r] = "ip" /\ next = "port"
                     \/ pc[r] = "port" /\ next = "barrier"
                     \/ pc[r] = "barrier" /\ next = "get"
  <2>1. pc[r] # "putCached"
    BY DEF JobInv, OnItsWay
  <2> QED BY <2>1 DEF NameAnswered, PutAnswered, BarrierAnswered
<1>2. Taken(r, next) /\ Heard(r)
  BY <1>1, AnswerTaken
<1>3. /\ UNCHANGED <<state, size, rank, getting, table>>
      /\ kvsname'[r] = "job"
      /\ \A s \in Ranks \ {r} : kvsname'[s] = kvsname[s]
  <2>1. CASE NameAnswered(r)
    BY <2>1, Typed DEF NameAnswered
  <2>2. CASE PutAnswered(r) \/ BarrierAnswered(r)
    <3>1. pc[r] \in {"ip", "port", "putCached", "barrier"}
      BY <2>2 DEF PutAnswered, BarrierAnswered
    <3>2. kvsname[r] = "job"
      BY <3>1 DEF JobInv, OnItsWay, Publishing
    <3> QED BY <2>2, <3>2 DEF PutAnswered, BarrierAnswered, processVars
  <2> QED BY <2>1, <2>2
<1>4. pc'[r] = next /\ asked'[r] = "no" /\ lines'[r] = Tail(lines[r]) /\ lines[r] # <<>>
      /\ UNCHANGED <<env, kvs, inBarrier, up>>
  BY <1>2 DEF Taken
<1>5. LeftOf(lines[r], Due(r), up)'
  <2>1. /\ next # "size" => pc[r] # "initack"
        /\ next = "size" => pc[r] = "initack"
        /\ next = "rank" <=> pc[r] = "size"
        /\ next = "debug" <=> pc[r] = "rank"
    BY <1>1
  <2> QED BY <1>2, <2>1, AnswerLeaves
<1>6. ~Lost(r) /\ asked[r] = "served"
  BY <1>1, <1>2, <1>4 DEF Lost, Heard
<1>7. OnItsWay(r)'
  BY <1>1, <1>3, <1>4 DEF OnItsWay, JobInv
<1>8. IdentityFollows(r)'
  <2>1. Known(r)
    BY <1>1, <1>6 DEF JobInv, IdentityFollows, Publishing
  <2>2. Known(r)'
    BY <1>3, <2>1 DEF Known
  <2> QED BY <1>1, <1>4, <2>2 DEF IdentityFollows
<1>9. PutsInTurn(r)'
  BY <1>1, <1>4, <1>6 DEF PutsInTurn, JobInv, Readable, NotYetPut, AlreadyPut, Early
<1>10. WaitsForAll(r)'
  <2>1. pc[r] = "barrier" => inBarrier = Ranks
    BY <1>2 DEF Heard
  <2> QED BY <1>1, <1>4, <2>1 DEF WaitsForAll, JobInv, Readable
<1>11. ReadInOrder(r)'
  <2>1. asked'[r] = "no" /\ pc'[r] # "ready" /\ table'[r] = table[r] /\ ~Lost(r)
    BY <1>1, <1>3, <1>4, <1>6
  <2> QED BY <2>1 DEF ReadInOrder, JobInv
<1>12. Alone(r)
  BY <1>2, <1>3, <1>4 DEF Alone, Unmoved, Taken
<1> QED BY <1>5, <1>7, <1>8, <1>9, <1>10, <1>11, <1>12 DEF JobInv

LEMMA JobGets ==
  ASSUME TypesRight, TypesRight', env # "alone", NEW r \in Ranks, JobInv(r), GetAnswered(r)
  PROVE  JobInv(r)' /\ Alone(r)
<1> DEFINE g == getting[r]
<1>1. PICK next \in {"ready", "get"} :
        /\ Answered(r, next)
        /\ next = "ready" => Wanted(r) = {g}
  BY DEF GetAnswered
<1>2. Taken(r, next) /\ Heard(r)
  BY <1>1, AnswerTaken
<1>3. /\ pc[r] = "get" /\ table' = [table EXCEPT ![r][g] = Answer(r)]
      /\ UNCHANGED <<state, size, rank, kvsname, getting>>
  BY DEF GetAnswered
<1>4. /\ pc'[r] = next /\ asked'[r] = "no" /\ lines'[r] = Tail(lines[r]) /\ lines[r] # <<>>
      /\ UNCHANGED <<env, kvs, inBarrier, up>>
  BY <1>2 DEF Taken
<1>5. ~Lost(r) /\ asked[r] = "served" /\ Known(r)
  BY <1>2, <1>3, <1>4 DEF Lost, Heard, JobInv, IdentityFollows, Publishing
<1>6. g \in NextKeys(r) /\ g \in Keys /\ g[2] \in Ranks
  <2>1. g \in NextKeys(r)
    BY <1>3, <1>5 DEF JobInv, ReadInOrder
  <2>2. g \in Keys
    BY <2>1 DEF NextKeys, Wanted
  <2> QED BY <2>1, <2>2, Addresses
<1>7. /\ \A k \in Keys : table'[r][k] = IF k = g THEN Answer(r) ELSE table[r][k]
      /\ \A s \in Ranks \ {r} : table'[s] = table[s]
  <2>1. table \in [Ranks -> [Keys -> Values]]
    BY Typed
  <2> QED BY <1>3, <2>1
<1>8. \/ Answer(r) = Address(g)
      \/ Answer(r) = Empty /\ Lost(r)'
  <2>1. Due(r) = <<Line("get_result", 0, Address(g))>>
    BY <1>3, <1>5 DEF Due
  <2>2. Head(Due(r)).val = Address(g)
    BY <2>1 DEF Line
  <2>3. CASE Head(lines[r]) = Head(Due(r))
    BY <2>2, <2>3 DEF Answer
  <2>4. CASE ~up /\ Tail(lines[r]) = <<>> /\ Answer(r) = Empty
    BY <1>4, <2>4 DEF Lost
  <2> QED BY <1>2, <2>3, <2>4 DEF Heard
<1>9. \A k \in Keys : /\ Address(k) # None /\ Address(k) # Empty /\ k[2] \in Ranks
                      /\ Empty # None
                      /\ table[r][k] \in {None, Address(k)}
  BY <1>5, Addresses, Numbers DEF JobInv, ReadInOrder
<1>10. table[r][g] = None /\ \A k \in Keys : table[r][k] = None => g[2] <= k[2]
  <2>1. size[r] = Size
    BY <1>5 DEF Known
  <2>2. \A k \in Keys : k[2] < Size
    <3>1. \A k \in Keys : k[2] \in 0 .. Size - 1
      BY <1>9 DEF Ranks
    <3> QED BY <3>1, Numbers
  <2>3. \A k \in Keys : table[r][k] = None => k \in Wanted(r)
    BY <2>1, <2>2 DEF Wanted
  <2> QED BY <1>6, <2>3 DEF NextKeys, Wanted
<1> HIDE DEF g
<1>11. ReadInOrder(r)'
  <2>1. ASSUME NEW k \in Keys
        PROVE  table'[r][k] \in {None, Address(k)} \/ (table'[r][k] = Empty /\ Lost(r)')
    BY <1>7, <1>8, <1>9
  <2>2. ASSUME NEW k \in Keys, NEW l \in Keys, table'[r][k] = Empty, table'[r][l] = Empty
        PROVE  k = l
    BY <1>7, <1>9, <2>2
  <2>3. ASSUME NEW k \in Keys, NEW l \in Keys, table'[r][k] = None, table'[r][l] # None
        PROVE  l[2] <= k[2]
    <3>1. k # g
      BY <1>6, <1>7, <1>8, <1>9, <2>3
    <3>2. CASE l = g
      BY <1>7, <1>10, <2>3, <3>1, <3>2
    <3>3. CASE l # g
      BY <1>7, <2>3, <3>1, <3>3 DEF JobInv, ReadInOrder
    <3> QED BY <3>2, <3>3
  <2>4. ASSUME next = "ready", NEW k \in Keys
        PROVE  table'[r][k] # None /\ (table'[r][k] = Empty => k[2] = Size - 1)
    <3>1. \A l \in Keys : l # g => table[r][l] # None
      <4>1. \A l \in Keys : l[2] < size[r]
        <5>1. \A l \in Keys : l[2] \in 0 .. Size - 1
          BY <1>9 DEF Ranks
        <5> QED BY <1>5, <5>1, Numbers DEF Known
      <4> QED BY <1>1, <2>4, <4>1 DEF Wanted
    <3>2. CASE k = g
      <4>1. PICK l \in Keys : (l[2] = Size - 1 /\ l # g) \/ g[2] = Size - 1
        <5>1. <<"ip", Size - 1>> \in Keys /\ <<"ip", Size - 1>>[2] = Size - 1
          BY Numbers DEF Keys
        <5> QED BY <5>1
      <4>2. CASE l[2] = Size - 1 /\ l # g
        <5>1. l[2] <= g[2]
          BY <1>6, <1>10, <3>1, <4>2 DEF JobInv, ReadInOrder
        <5>2. g[2] = Size - 1
          BY <1>6, <4>2, <5>1, Numbers DEF Ranks
        <5> QED BY <1>6, <1>7, <1>8, <1>9, <3>2, <5>2
      <4>3. CASE g[2] = Size - 1
        BY <1>6, <1>7, <1>8, <1>9, <3>2, <4>3
      <4> QED BY <4>1, <4>2, <4>3
    <3>3. CASE k # g
      BY <1>7, <1>9, <3>1, <3>3
    <3> QED BY <3>2, <3>3
  <2> QED BY <1>1, <1>4, <2>1, <2>2, <2>3, <2>4 DEF ReadInOrder
<1>12. LeftOf(lines[r], Due(r), up)'
  <2>1. /\ next # "size" => pc[r] # "initack"
        /\ next = "size" => pc[r] = "initack"
        /\ next = "rank" <=> pc[r] = "size"
        /\ next = "debug" <=> pc[r] = "rank"
    BY <1>1, <1>3
  <2> QED BY <1>2, <2>1, AnswerLeaves
<1>13. OnItsWay(r)'
  BY <1>1, <1>3, <1>4 DEF OnItsWay, JobInv, Publishing
<1>14. IdentityFollows(r)'
  BY <1>1, <1>3, <1>4, <1>5 DEF IdentityFollows, Known
<1>15. PutsInTurn(r)'
  BY <1>1, <1>3, <1>4 DEF PutsInTurn, JobInv, Readable, NotYetPut, AlreadyPut, Early
<1>16. WaitsForAll(r)'
  BY <1>1, <1>3, <1>4 DEF WaitsForAll, JobInv, Readable
<1>17. Alone(r)
  BY <1>2, <1>3, <1>4, <1>7 DEF Alone, Unmoved, Taken
<1> QED BY <1>11, <1>12, <1>13, <1>14, <1>15, <1>16, <1>17 DEF JobInv

-----------------------------------------------------------------------------
(* The steps of the manager of a job. *)

LEMMA AllReadable ==
  ASSUME \A r \in Ranks : JobInv(r), KeysRight, inBarrier = Ranks, NEW k \in Keys
  PROVE  kvs[0][k] = Address(k)
<1>1. k[1] \in {"ip", "port"} /\ k[2] \in Ranks /\ k = <<k[1], k[2]>>
  BY Addresses
<1>2. WaitsForAll(k[2])
  BY <1>1 DEF JobInv
<1>3. Readable(k[2], k[1])
  BY <1>1, <1>2 DEF WaitsForAll
<1> QED BY <1>1, <1>3 DEF Readable, KeysRight

LEMMA JobServed ==
  ASSUME TypesRight, TypesRight', env # "alone", KeysRight, \A s \in Ranks : JobInv(s), NEW r \in Ranks, Serve(r)
  PROVE  /\ KeysRight' /\ \A s \in Ranks : JobInv(s)'
         /\ \A k \in Keys : kvs'[0][k] = kvs[0][k] \/ (k[2] = r /\ kvs'[0][k] = Address(k))
<1>0. JobInv(r) /\ Space(r) = 0 /\ 0 \in Ranks
  BY Numbers DEF Space
<1>1. /\ up /\ asked[r] = "sent" /\ pc[r] # "barrier" /\ asked' = [asked EXCEPT ![r] = "served"]
      /\ lines' = [lines EXCEPT ![r] = lines[r] \o Reply(r)]
      /\ UNCHANGED <<env, pc, state, size, rank, kvsname, cached, getting, table, inBarrier, up>>
      /\ up' = TRUE
  BY Typed DEF Serve, processVars
<1>2. pc[r] \in Asking \ {"putCached", "singinit"}
  BY <1>0, <1>1 DEF JobInv, OnItsWay
<1>3. pc[r] \in {"ip", "port"} =>
        /\ PutRc(r) = 0 /\ PutKey(r) = <<pc[r], r>> /\ PutVal(r) = Address(<<pc[r], r>>)
        /\ <<pc[r], r>> \in Keys
  <2> SUFFICES ASSUME pc[r] \in {"ip", "port"}
               PROVE  /\ PutRc(r) = 0 /\ PutKey(r) = <<pc[r], r>> /\ PutVal(r) = Address(<<pc[r], r>>)
                      /\ <<pc[r], r>> \in Keys
    OBVIOUS
  <2>1. rank[r] = r
    BY <1>0 DEF JobInv, IdentityFollows, Known, Publishing
  <2>2. PutKey(r) = <<pc[r], r>>
    BY <2>1 DEF PutKey
  <2>3. ~Readable(r, pc[r])
    BY <1>0, <1>1 DEF JobInv, PutsInTurn, NotYetPut
  <2>4. PutRc(r) = 0
    BY <1>0, <2>2, <2>3 DEF PutRc, Readable
  <2>5. PutVal(r) = Address(<<pc[r], r>>)
    BY <2>1 DEF PutVal, Published, Address
  <2> QED BY <2>2, <2>4, <2>5 DEF Keys
<1>4. /\ pc[r] \in {"ip", "port"} => kvs' = [kvs EXCEPT ![0][<<pc[r], r>>] = Address(<<pc[r], r>>)]
      /\ pc[r] \notin {"ip", "port"} => kvs' = kvs
  BY <1>0, <1>2, <1>3 DEF Serve
<1>5. \A k \in Keys : kvs'[0][k] = IF pc[r] \in {"ip", "port"} /\ k = <<pc[r], r>> THEN Address(k) ELSE kvs[0][k]
  <2>1. kvs \in [Ranks -> [Keys -> Values]]
    BY Typed
  <2> QED BY <1>0, <1>3, <1>4, <2>1
<1>6. KeysRight'
  BY <1>5 DEF KeysRight
<1>7. ASSUME NEW s \in Ranks \ {r} PROVE JobInv(s)'
  <2>1. Unmoved(s)
    BY <1>1, Typed DEF Unmoved
  <2>2. SameKeys(s)
    <3>1. \A name \in {"ip", "port"} : <<name, s>> \in Keys /\ <<name, s>> # <<pc[r], r>>
      BY DEF Keys
    <3> QED BY <1>5, <3>1 DEF SameKeys
  <2>3. JobInv(s) /\ s \in Ranks /\ inBarrier' = inBarrier /\ up' = up
    BY <1>1
  <2> QED BY <2>1, <2>2, <2>3, JobSame
<1>8. asked'[r] = "served" /\ pc'[r] = pc[r]
  BY <1>1, Typed
<1>9. Reply(r) = Due(r)'
  <2>1. CASE pc[r] = "initack"
    BY <1>8, <2>1 DEF Due, Reply
  <2>2. CASE pc[r] \in {"ip", "port"}
    BY <1>3, <1>8, <2>2 DEF Due, Reply, Expected
  <2>3. CASE pc[r] = "get"
    <3>1. inBarrier = Ranks /\ kvsname[r] = "job" /\ getting[r] \in Keys
      BY <1>0, <2>3, Typed DEF JobInv, WaitsForAll, OnItsWay, Publishing
    <3>2. kvs[0][getting[r]] = Address(getting[r]) /\ Address(getting[r]) # None
      BY <3>1, AllReadable, Addresses
    <3>3. Reply(r) = <<Line("get_result", 0, Address(getting[r]))>>
      BY <1>0, <2>3, <3>1, <3>2 DEF Reply, Got, GetKey
    <3> QED BY <1>1, <1>8, <2>3, <3>3 DEF Due
  <2>4. CASE pc[r] \notin {"initack", "ip", "port", "get"}
    BY <1>1, <1>2, <1>8, <2>4 DEF Due, Reply
  <2> QED BY <2>1, <2>2, <2>3, <2>4
<1>10. lines'[r] = Due(r)' /\ Due(r)' \in Seq(AnyLine)
  <2>1. Due(r) = <<>>
    BY <1>1, <1>2 DEF Due, Asking
  <2>2. lines[r] = <<>>
    <3>1. lines[r] \in Seq(AnyLine) /\ <<>> \in Seq(AnyLine) /\ up \in BOOLEAN
      BY Typed
    <3>2. LeftOf(lines[r], <<>>, up)
      BY <1>0, <2>1 DEF JobInv
    <3> QED BY <3>1, <3>2, LeftSimply
  <2>3. Reply(r) \in Seq(AnyLine)
    BY <1>2, ReplyTyped
  <2>4. lines[r] \o Reply(r) = Reply(r)
    BY <2>2, <2>3
  <2> QED BY <1>1, <1>9, <2>3, <2>4, Typed
<1>11. LeftOf(lines[r], Due(r), up)'
  BY <1>1, <1>10, LeftSimply
<1>12. OnItsWay(r)'
  BY <1>0, <1>1, <1>2, <1>8 DEF OnItsWay, JobInv
<1>13. IdentityFollows(r)'
  BY <1>0, <1>1 DEF IdentityFollows, JobInv, Known, Lost
<1>14. PutsInTurn(r)' /\ \A name \in {"ip", "port"} : Readable(r, name) => Readable(r, name)'
  <2>1. \A name \in {"ip", "port"} :
          Readable(r, name)' <=> (pc[r] = name \/ Readable(r, name))
    <3>1. \A name \in {"ip", "port"} : <<name, r>> \in Keys /\ Address(<<name, r>>) # None
      BY Addresses DEF Keys
    <3>2. \A name \in {"ip", "port"} : <<name, r>> = <<pc[r], r>> <=> name = pc[r]
      OBVIOUS
    <3> QED BY <1>5, <3>1, <3>2 DEF Readable
  <2> QED BY <1>0, <1>1, <1>8, <2>1 DEF PutsInTurn, JobInv, NotYetPut, AlreadyPut, Early
<1>15. WaitsForAll(r)'
  BY <1>0, <1>1, <1>8, <1>14 DEF WaitsForAll, JobInv
<1>16. ReadInOrder(r)'
  <2>1. NextKeys(r)' = NextKeys(r)
    BY <1>1 DEF NextKeys, Wanted
  <2> QED BY <1>0, <1>1, <1>8, <2>1 DEF ReadInOrder, JobInv, Lost
<1>17. JobInv(r)'
  BY <1>11, <1>12, <1>13, <1>14, <1>15, <1>16 DEF JobInv
<1>18. \A k \in Keys : kvs'[0][k] = kvs[0][k] \/ (k[2] = r /\ kvs'[0][k] = Address(k))
  BY <1>5
<1> QED BY <1>6, <1>7, <1>17, <1>18

LEMMA JobEnters ==
  ASSUME TypesRight, TypesRight', env # "alone", \A s \in Ranks : JobInv(s), NEW r \in Ranks, ServeBarrier(r)
  PROVE  \A s \in Ranks : JobInv(s)'
<1> DEFINE out == Line("barrier_out", 0, None)
<1>1. /\ up /\ asked[r] = "sent" /\ pc[r] = "barrier"
      /\ asked' = [asked EXCEPT ![r] = "served"] /\ inBarrier' = inBarrier \cup {r}
      /\ lines' = [s \in Ranks |->
                     IF s \in inBarrier' /\ AllEntered(inBarrier') THEN Append(lines[s], out) ELSE lines[s]]
      /\ UNCHANGED <<env, pc, state, size, rank, kvsname, cached, getting, table, kvs, up>>
  BY DEF ServeBarrier, processVars
<1>2. JobInv(r) /\ r \notin inBarrier /\ Readable(r, "ip") /\ Readable(r, "port")
  <2>1. JobInv(r)
    OBVIOUS
  <2>2. r \notin inBarrier
    BY <1>1, <2>1 DEF JobInv, WaitsForAll
  <2>3. Readable(r, "ip") /\ Readable(r, "port")
    BY <1>1, <2>1 DEF JobInv, PutsInTurn, AlreadyPut
  <2> QED BY <2>1, <2>2, <2>3
<1>3. asked'[r] = "served" /\ \A s \in Ranks \ {r} : asked'[s] = asked[s]
  BY <1>1, Typed
<1>4. out \in AnyLine
  BY LineTyped, Numbers DEF Commands
<1>5. ASSUME NEW s \in Ranks PROVE JobInv(s)'
  <2>1. JobInv(s)
    OBVIOUS
  <2>2. pc[s] \notin {"get", "ready"}
    BY <1>2, <2>1 DEF JobInv, WaitsForAll
  <2>3. s \in inBarrier => pc[s] = "barrier" /\ asked[s] = "served"
    <3>1. pc[s] # "aborted"
      BY <1>1, <2>1 DEF JobInv, OnItsWay
    <3> QED BY <2>1, <2>2, <3>1 DEF JobInv, WaitsForAll
  <2>4. /\ s \in inBarrier' => pc[s] = "barrier" /\ asked'[s] = "served"
        /\ pc[s] = "barrier" => (s \in inBarrier' <=> asked'[s] = "served")
    <3>1. pc[s] = "barrier" => (s \in inBarrier <=> asked[s] = "served")
      BY <2>1 DEF JobInv, WaitsForAll
    <3> QED BY <1>1, <1>3, <2>3, <3>1
  <2>5. lines'[s] = Due(s)' /\ Due(s)' \in Seq(AnyLine)
    <3>1. lines[s] \in Seq(AnyLine) /\ Due(s) \in Seq(AnyLine) /\ <<>> \in Seq(AnyLine) /\ <<out>> \in Seq(AnyLine)
      BY <1>4, <2>1, Typed, DueTyped DEF JobInv
    <3>2. pc[s] = "barrier" => Due(s) = <<>>
      BY <1>2 DEF Due, AllEntered
    <3>3. LeftOf(lines[s], Due(s), TRUE)
      <4>1. up = TRUE
        BY <1>1, Typed
      <4> QED BY <2>1, <4>1 DEF JobInv
    <3>4. lines[s] = Due(s)
      <4>1. Len(lines[s]) = Len(Due(s)) /\ \A k \in 1 .. Len(lines[s]) : lines[s][k] = Due(s)[k]
        BY <3>3 DEF LeftOf
      <4> QED BY <3>1, <4>1
    <3>5. CASE s \in inBarrier' /\ AllEntered(inBarrier')
      <4>1. pc[s] = "barrier" /\ asked'[s] = "served"
        BY <2>4, <3>5
      <4>2. lines'[s] = Append(<<>>, out)
        BY <1>1, <3>2, <3>4, <3>5, <4>1
      <4>3. Due(s)' = <<out>>
        BY <1>1, <3>5, <4>1 DEF Due
      <4>4. Append(<<>>, out) = <<out>>
        OBVIOUS
      <4> QED BY <3>1, <4>2, <4>3, <4>4
    <3>6. CASE ~(s \in inBarrier' /\ AllEntered(inBarrier'))
      <4>1. lines'[s] = lines[s]
        BY <1>1, <3>6
      <4>2. CASE pc[s] = "barrier"
        <5>1. Due(s)' = <<>>
          BY <1>1, <2>4, <3>6, <4>2 DEF Due
        <5> QED BY <3>1, <3>2, <3>4, <4>1, <4>2, <5>1
      <4>3. CASE pc[s] # "barrier"
        <5>1. s # r
          BY <1>1, <4>3
        <5>2. asked'[s] = asked[s]
          BY <1>3, <5>1
        <5>3. Due(s)' = Due(s)
          BY <1>1, <4>3, <5>2 DEF Due
        <5> QED BY <3>1, <3>4, <4>1, <5>3
      <4> QED BY <4>2, <4>3
    <3> QED BY <3>5, <3>6
  <2>6. LeftOf(lines[s], Due(s), up)'
    <3>1. up' \in BOOLEAN
      BY <1>1, Typed
    <3> QED BY <2>5, <3>1, LeftSimply
  <2>7. OnItsWay(s)'
    <3>1. asked'[s] # "no" => pc[s] \in Asking
      <4>1. asked[s] # "no" => pc[s] \in Asking
        BY <2>1 DEF JobInv, OnItsWay
      <4> QED BY <1>1, <1>3, <4>1 DEF Asking
    <3> QED BY <1>1, <2>1, <3>1 DEF JobInv, OnItsWay
  <2>8. IdentityFollows(s)'
    <3>1. ~Lost(s)
      BY <1>1 DEF Lost
    <3> QED BY <1>1, <2>1, <3>1 DEF IdentityFollows, JobInv, Known
  <2>9. PutsInTurn(s)'
    <3>1. pc[s] = "barrier" \/ asked'[s] = asked[s]
      BY <1>1, <1>3
    <3> QED BY <1>1, <2>1, <3>1 DEF PutsInTurn, JobInv, Readable, NotYetPut, AlreadyPut, Early
  <2>10. WaitsForAll(s)'
    <3>1. s \in inBarrier' => Readable(s, "ip") /\ Readable(s, "port")
      BY <1>1, <1>2, <2>1 DEF JobInv, WaitsForAll
    <3> QED BY <1>1, <2>2, <2>4, <3>1 DEF WaitsForAll, Readable
  <2>11. ReadInOrder(s)'
    <3>1. ~Lost(s)
      BY <1>1 DEF Lost
    <3> QED BY <1>1, <2>1, <2>2, <3>1 DEF ReadInOrder, JobInv
  <2> QED BY <2>6, <2>7, <2>8, <2>9, <2>10, <2>11 DEF JobInv
<1> QED BY <1>5

LEMMA JobLoses ==
  ASSUME TypesRight, TypesRight', env # "alone", \A s \in Ranks : JobInv(s), NEW r \in Ranks, LinesLost(r)
  PROVE  \A s \in Ranks : JobInv(s)'
<1>1. PICK less \in Remains(lines[r]) : lines' = [lines EXCEPT ![r] = less]
  BY DEF LinesLost
<1>2. /\ up = FALSE /\ up' = FALSE
      /\ UNCHANGED <<env, pc, state, size, rank, kvsname, cached, getting, table, asked, kvs, inBarrier, up>>
  BY Typed DEF LinesLost, processVars, managerVars
<1>3. ASSUME NEW s \in Ranks \ {r} PROVE JobInv(s)'
  <2>1. Unmoved(s) /\ SameKeys(s)
    BY <1>1, <1>2, Typed DEF Unmoved, SameKeys
  <2>2. JobInv(s) /\ inBarrier' = inBarrier /\ up' = up
    BY <1>2
  <2> QED BY <2>1, <2>2, JobSame
<1>4. JobInv(r)
  OBVIOUS
<1>5. lines[r] \in Seq(AnyLine) /\ Due(r) \in Seq(AnyLine) /\ LeftOf(lines[r], Due(r), FALSE)
  BY <1>2, <1>4, Typed, DueTyped DEF JobInv
<1>6. LeftOf(less, Due(r), FALSE) /\ (lines[r] = <<>> => less = <<>>)
  BY <1>1, <1>5, LineLost
<1>7. Due(r)' = Due(r)
  BY <1>2 DEF Due
<1>8. lines'[r] = less
  BY <1>1, Typed
<1>9. LeftOf(lines[r], Due(r), up)'
  BY <1>2, <1>6, <1>7, <1>8
<1>10. Lost(r) => Lost(r)'
  BY <1>2, <1>6, <1>8 DEF Lost
<1>11. OnItsWay(r)' /\ PutsInTurn(r)' /\ WaitsForAll(r)'
  BY <1>2, <1>4 DEF JobInv, OnItsWay, PutsInTurn, WaitsForAll, Readable, NotYetPut, AlreadyPut
<1>12. IdentityFollows(r)'
  BY <1>2, <1>4, <1>10 DEF JobInv, IdentityFollows, Known
<1>13. ReadInOrder(r)'
  <2>1. NextKeys(r)' = NextKeys(r)
    BY <1>2 DEF NextKeys, Wanted
  <2> QED BY <1>2, <1>4, <1>10, <2>1 DEF JobInv, ReadInOrder
<1>14. JobInv(r)'
  BY <1>9, <1>11, <1>12, <1>13 DEF JobInv
<1> QED BY <1>3, <1>14

LEMMA JobStays ==
  ASSUME TypesRight, TypesRight', KeysRight, \A s \in Ranks : JobInv(s), up' = up \/ ~up',
         UNCHANGED <<env, pc, state, size, rank, kvsname, getting, table, asked, lines, kvs, inBarrier>>
  PROVE  KeysRight' /\ \A s \in Ranks : JobInv(s)'
<1>1. KeysRight'
  BY DEF KeysRight
<1>2. \A s \in Ranks : Unmoved(s) /\ SameKeys(s) /\ inBarrier' = inBarrier
  BY DEF Unmoved, SameKeys
<1>3. ASSUME NEW s \in Ranks PROVE JobInv(s)'
  <2>1. JobInv(s) /\ Unmoved(s) /\ SameKeys(s) /\ inBarrier' = inBarrier
    BY <1>2
  <2> QED BY <2>1, JobSame
<1> QED BY <1>1, <1>3

LEMMA JobMoves ==
  ASSUME TypesRight, TypesRight', env # "alone", KeysRight, \A s \in Ranks : JobInv(s), NEW r \in Ranks, ProcessStep(r)
  PROVE  env' = env /\ KeysRight' /\ Alone(r) /\ \A s \in Ranks : JobInv(s)'
<1>1. JobInv(r)
  OBVIOUS
<1>2. state[r] # "alone" /\ pc[r] \notin {"hello", "singinit"}
  BY <1>1 DEF JobInv, OnItsWay
<1>3. ~AloneStep(r) /\ ~SinginitAnswered(r)
  BY <1>2 DEF AloneStep, NameAlone, PutAlone, BarrierAlone, Fork, SinginitAnswered
<1>6. JobInv(r)' /\ Alone(r)
  <2>1. CASE HandshakeAnswered(r) \/ MaxesAnswered(r)
    BY <1>1, <2>1, JobShakesHands
  <2>2. CASE NameAnswered(r) \/ PutAnswered(r) \/ BarrierAnswered(r)
    BY <1>1, <2>2, JobPublishes
  <2>3. CASE GetAnswered(r)
    BY <1>1, <2>3, JobGets
  <2>4. CASE WriteFails(r) \/ AnswerRefused(r) \/ ReadFails(r)
    BY <1>1, <2>4, JobFails
  <2>5. CASE StartStep(r)
    BY <1>1, <2>5, JobStarts
  <2>6. CASE Ask(r)
    BY <1>1, <2>6, JobAsks
  <2> QED BY <1>3, <2>1, <2>2, <2>3, <2>4, <2>5, <2>6 DEF ProcessStep, AnswerStep
<1>7. ASSUME NEW s \in Ranks \ {r} PROVE JobInv(s)'
  <2>1. JobInv(s) /\ Unmoved(s) /\ inBarrier' = inBarrier /\ up' = up /\ SameKeys(s)
    BY <1>6 DEF Alone, SameKeys
  <2> QED BY <2>1, JobSame
<1>8. env' = env /\ KeysRight'
  BY <1>6 DEF Alone, KeysRight
<1> QED BY <1>6, <1>7, <1>8

LEMMA JobStep ==
  ASSUME TypesRight, TypesRight', env # "alone", KeysRight, \A s \in Ranks : JobInv(s), [Next]_vars
  PROVE  env' = env /\ KeysRight' /\ \A s \in Ranks : JobInv(s)'
<1>1. CASE UNCHANGED vars
  BY <1>1, JobStays DEF vars, processVars, managerVars
<1>2. CASE ManagerDies
  BY <1>2, JobStays DEF ManagerDies, processVars, managerVars
<1>3. ASSUME NEW r \in Ranks, ProcessStep(r) PROVE env' = env /\ KeysRight' /\ \A s \in Ranks : JobInv(s)'
  BY <1>3, JobMoves
<1>4. ASSUME NEW r \in Ranks, ManagerStep(r) PROVE env' = env /\ KeysRight' /\ \A s \in Ranks : JobInv(s)'
  <2>1. ~CallBack(r)
    <3>1. JobInv(r)
      OBVIOUS
    <3> QED BY <3>1 DEF JobInv, OnItsWay, CallBack
  <2>2. CASE Serve(r)
    BY <2>2, JobServed DEF Serve
  <2>3. CASE ServeBarrier(r)
    <3>1. env' = env /\ kvs' = kvs
      BY <2>3 DEF ServeBarrier
    <3> QED BY <2>3, <3>1, JobEnters DEF KeysRight
  <2> QED BY <1>4, <2>1, <2>2, <2>3 DEF ManagerStep
<1>5. ASSUME NEW r \in Ranks, LinesLost(r) PROVE env' = env /\ KeysRight' /\ \A s \in Ranks : JobInv(s)'
  <2>1. env' = env /\ kvs' = kvs
    BY <1>5 DEF LinesLost, managerVars
  <2> QED BY <1>5, <2>1, JobLoses DEF KeysRight
<1> QED BY <1>1, <1>2, <1>3, <1>4, <1>5 DEF Next

-----------------------------------------------------------------------------
(* A process that was started alone. *)

LEMMA AloneSame ==
  ASSUME NEW s \in Ranks, AloneInv(s), Unmoved(s), up' = up \/ ~up'
  PROVE  AloneInv(s)'
<1>1. Lost(s) => Lost(s)'
  BY DEF Lost, Unmoved
<1> QED BY <1>1 DEF AloneInv, Unmoved, Lost

\* Nothing is read before something was asked, or the manager called back.
LEMMA AloneSilent ==
  ASSUME NEW r \in Ranks, AloneInv(r), pc[r] # "hello"
  PROVE  /\ asked[r] = "no" => lines[r] = <<>>
         /\ pc[r] \in {"start", "name", "ip", "port", "barrier", "accept"} => asked[r] = "no"
         /\ pc[r] = "get" /\ state[r] = "alone" => asked[r] = "no"
BY DEF AloneInv, Unpromoted, Asking

\* A step after which nothing is left to read, and no request under way.
Quiet(r) ==
    /\ asked'[r] = "no" /\ lines'[r] = <<>>
    /\ size'[r] = 1 /\ kvsname'[r] # "job"
    /\ \/ pc'[r] \in Unpromoted /\ state'[r] = "alone"
       \/ pc'[r] \in {"init", "maxes", "putCached"} /\ state'[r] = "promoted"
       \/ pc'[r] = "get" /\ state'[r] \in {"alone", "promoted"}
       \/ pc'[r] \in {"aborted", "noInterface"}
    /\ (\A k \in Keys : table'[r][k] = None) \/ ~up'

LEMMA AloneQuiet ==
  ASSUME NEW r \in Ranks, Quiet(r)
  PROVE  AloneInv(r)'
<1>1. (\A k \in Keys : table'[r][k] = None) \/ Lost(r)'
  BY DEF Quiet, Lost
<1>2. Len(<<>>) = 0
  OBVIOUS
<1> QED BY <1>1, <1>2 DEF Quiet, AloneInv, Unpromoted

LEMMA AloneStarts ==
  ASSUME TypesRight, env = "alone", NEW r \in Ranks, AloneInv(r), StartStep(r) \/ AloneStep(r)
  PROVE  AloneInv(r)' /\ \A s \in Ranks \ {r} : Unmoved(s)
<1>1. ~ConnectFails(r) /\ ~StartFromEnvironment(r) /\ ~StartFromPort(r)
  BY DEF ConnectFails, StartFromEnvironment, StartFromPort
<1>2. /\ \/ pc[r] \in {"start", "name", "ip", "port", "barrier"}
         \/ pc[r] = "get" /\ state[r] = "alone"
      /\ UNCHANGED <<getting, table, asked, lines, up>>
      /\ pc' = [pc EXCEPT ![r] = pc'[r]] /\ state' = [state EXCEPT ![r] = state'[r]]
      /\ \A s \in Ranks \ {r} : size'[s] = size[s] /\ rank'[s] = rank[s] /\ kvsname'[s] = kvsname[s]
      /\ pc'[r] = "noInterface" \/ state'[r] = "alone"
      /\ pc'[r] \in {"noInterface", "name", "ip", "port", "barrier", "get", "accept"}
      /\ size'[r] = 1 /\ kvsname'[r] # "job"
  <2>1. size[r] = 1 /\ kvsname[r] # "job"
    BY DEF AloneInv
  <2>2. CASE NoInterface(r)
    BY <2>1, <2>2, Typed DEF NoInterface, processVars
  <2>3. CASE StartAlone(r)
    BY <2>1, <2>3, Typed DEF StartAlone
  <2>4. CASE NameAlone(r)
    BY <2>1, <2>4, Typed DEF NameAlone
  <2>5. CASE PutAlone(r)
    BY <2>1, <2>5, Typed DEF PutAlone
  <2>6. CASE BarrierAlone(r)
    BY <2>1, <2>6, Typed DEF BarrierAlone, processVars
  <2>7. CASE Fork(r)
    BY <2>1, <2>7, Typed DEF Fork, processVars
  <2> QED BY <1>1, <2>2, <2>3, <2>4, <2>5, <2>6, <2>7 DEF StartStep, AloneStep
<1>3. asked[r] = "no" /\ lines[r] = <<>>
  <2>1. pc[r] # "hello"
    BY <1>2
  <2> QED BY <1>2, <2>1, AloneSilent
<1>4. (\A k \in Keys : table[r][k] = None) \/ ~up
  BY DEF AloneInv, Lost
<1>5. Quiet(r)
  BY <1>2, <1>3, <1>4 DEF Quiet, Unpromoted
<1>6. \A s \in Ranks \ {r} : Unmoved(s)
  BY <1>2, Typed DEF Unmoved
<1> QED BY <1>5, <1>6, AloneQuiet

LEMMA AloneAsks ==
  ASSUME TypesRight, env = "alone", NEW r \in Ranks, AloneInv(r), Ask(r)
  PROVE  AloneInv(r)' /\ \A s \in Ranks \ {r} : Unmoved(s)
<1>1. /\ pc[r] \in Asking /\ (state[r] = "alone" => pc[r] = "singinit") /\ asked[r] = "no"
      /\ asked' = [asked EXCEPT ![r] = "sent"]
      /\ UNCHANGED <<env, pc, state, size, rank, kvsname, table, lines, up>>
      /\ \A s \in Ranks \ {r} : getting'[s] = getting[s]
  <2>1. \A s \in Ranks \ {r} : getting'[s] = getting[s]
    <3>1. CASE pc[r] = "get"
      <4>1. PICK k : getting' = [getting EXCEPT ![r] = k]
        BY <3>1 DEF Ask
      <4> QED BY <4>1, Typed
    <3>2. CASE pc[r] # "get"
      BY <3>2 DEF Ask
    <3> QED BY <3>1, <3>2
  <2> QED BY <2>1 DEF Ask, Writing, managerVars
<1>2. pc[r] # "hello" /\ lines[r] = <<>>
  <2>1. pc[r] # "hello"
    BY <1>1 DEF Asking
  <2> QED BY <1>1, <2>1, AloneSilent
<1>3. state[r] = "promoted" \/ pc[r] = "singinit"
  BY <1>1 DEF AloneInv, Unpromoted, Asking
<1>4. \A s \in Ranks \ {r} : Unmoved(s)
  BY <1>1, Typed DEF Unmoved
<1> QED BY <1>1, <1>2, <1>3, <1>4 DEF AloneInv, Lost

LEMMA AloneFails ==
  ASSUME TypesRight, env = "alone", NEW r \in Ranks, AloneInv(r),
         WriteFails(r) \/ ReadFails(r) \/ AnswerRefused(r)
  PROVE  AloneInv(r)' /\ \A s \in Ranks \ {r} : Unmoved(s)
<1>1. PICK next : /\ Fail(r, next)
                  /\ \/ next = "aborted"
                     \/ next \in {"putCached", "get"} /\ state[r] = "promoted"
  <2>1. AfterFailure(r) = "aborted" \/ (AfterFailure(r) \in {"putCached", "get"} /\ state[r] = "promoted")
    <3>1. CASE pc[r] \in {"maxes", "putCached"}
      <4>1. state[r] = "promoted"
        BY <3>1 DEF AloneInv
      <4> QED BY <3>1, <4>1 DEF AfterFailure
    <3>2. CASE pc[r] \notin {"maxes", "putCached"}
      <4>1. pc[r] \notin {"initack", "size", "rank", "debug"}
        BY DEF AloneInv, Unpromoted
      <4>2. AfterFailure(r) = "aborted"
        BY <3>2, <4>1 DEF AfterFailure
      <4> QED BY <4>2
    <3> QED BY <3>1, <3>2
  <2>2. CASE WriteFails(r)
    <3>1. CASE pc[r] = "init"
      <4>1. state[r] = "promoted"
        BY <3>1 DEF AloneInv
      <4>2. Fail(r, "aborted") \/ Fail(r, "putCached")
        BY <2>2, <3>1, <4>1 DEF WriteFails
      <4> QED BY <4>1, <4>2
    <3>2. CASE pc[r] # "init"
      <4>1. Fail(r, "aborted") \/ Fail(r, AfterFailure(r))
        BY <2>2, <3>2 DEF WriteFails
      <4> QED BY <2>1, <4>1
    <3> QED BY <3>1, <3>2
  <2>3. CASE ReadFails(r) \/ AnswerRefused(r)
    BY <2>1, <2>3 DEF ReadFails, AnswerRefused
  <2> QED BY <2>2, <2>3
<1>2. lines'[r] = <<>> /\ \A s \in Ranks \ {r} : lines'[s] = lines[s]
  <2>1. CASE WriteFails(r)
    <3>1. lines' = lines /\ asked[r] = "no" /\ pc[r] # "hello"
      BY <2>1 DEF WriteFails, Writing, Asking
    <3> QED BY <3>1, AloneSilent
  <2>2. CASE ReadFails(r)
    BY <2>2 DEF ReadFails, EndOfFile
  <2>3. CASE AnswerRefused(r)
    <3>1. lines[r] # <<>> /\ lines' = [lines EXCEPT ![r] = Tail(lines[r])]
      BY <2>3 DEF AnswerRefused
    <3>2. lines[r] \in Seq(AnyLine) /\ Len(lines[r]) <= 1
      BY Typed DEF AloneInv
    <3>3. Tail(lines[r]) = <<>>
      BY <3>1, <3>2
    <3> QED BY <3>1, <3>3, Typed
  <2> QED BY <2>1, <2>2, <2>3
<1>3. /\ pc'[r] = next /\ asked'[r] = "no" /\ state'[r] = state[r]
      /\ \A s \in Ranks \ {r} : pc'[s] = pc[s] /\ state'[s] = state[s] /\ asked'[s] = asked[s]
      /\ UNCHANGED <<env, size, rank, kvsname, getting, table, up>>
  <2>1. StateAfter(r, next) = state[r]
    BY <1>1 DEF StateAfter
  <2> QED BY <1>1, <2>1, Typed DEF Fail
<1>4. Quiet(r)
  BY <1>1, <1>2, <1>3 DEF Quiet, AloneInv, Lost
<1>5. \A s \in Ranks \ {r} : Unmoved(s)
  BY <1>2, <1>3 DEF Unmoved
<1> QED BY <1>4, <1>5, AloneQuiet

\* What an answer that was expected changes in all cases.
LEMMA AloneTaken ==
  ASSUME TypesRight, NEW r \in Ranks, NEW next, AloneInv(r), Answered(r, next)
  PROVE  /\ pc'[r] = next /\ asked'[r] = "no" /\ lines'[r] = <<>> /\ up' = up
         /\ \A s \in Ranks \ {r} : pc'[s] = pc[s] /\ asked'[s] = asked[s] /\ lines'[s] = lines[s]
         /\ lines[r] # <<>> /\ \A k \in Keys : table[r][k] = None
         /\ asked[r] # "no" \/ pc[r] = "hello"
<1>1. /\ lines[r] # <<>> /\ pc' = [pc EXCEPT ![r] = next] /\ asked' = [asked EXCEPT ![r] = "no"]
      /\ lines' = [lines EXCEPT ![r] = Tail(lines[r])] /\ up' = up
  BY DEF Answered
<1>2. lines[r] \in Seq(AnyLine) /\ Len(lines[r]) <= 1
  BY Typed DEF AloneInv
<1>3. Tail(lines[r]) = <<>>
  BY <1>1, <1>2
<1>4. asked[r] # "no" \/ pc[r] = "hello"
  BY <1>1, AloneSilent
<1>5. \A k \in Keys : table[r][k] = None
  BY <1>1 DEF AloneInv, Lost
<1> QED BY <1>1, <1>3, <1>4, <1>5, Typed

LEMMA AloneAnswered ==
  ASSUME TypesRight, env = "alone", NEW r \in Ranks, AloneInv(r), AnswerStep(r), ~AnswerRefused(r)
  PROVE  AloneInv(r)' /\ \A s \in Ranks \ {r} : Unmoved(s)
<1>1. ~HandshakeAnswered(r) /\ ~NameAnswered(r) /\ ~BarrierAnswered(r)
  <2>1. pc[r] \notin {"initack", "size", "rank", "debug"}
    BY DEF AloneInv, Unpromoted
  <2>2. ASSUME NEW next, Answered(r, next) PROVE pc[r] \notin {"name", "ip", "port", "barrier"}
    <3>1. asked[r] # "no" \/ pc[r] = "hello"
      BY <2>2, AloneTaken
    <3> QED BY <3>1, AloneSilent
  <2> QED BY <2>1, <2>2 DEF HandshakeAnswered, NameAnswered, BarrierAnswered
<1>2. CASE MaxesAnswered(r) \/ PutAnswered(r)
  <2>1. PICK next : /\ Answered(r, next)
                    /\ next \in {"maxes", "putCached", "get"} /\ state[r] = "promoted" /\ state' = state
                    /\ UNCHANGED <<size, rank, kvsname, getting, table>>
    <3>1. CASE MaxesAnswered(r)
      <4>1. pc[r] \in {"init", "maxes"} /\ state[r] = "promoted"
        BY <3>1 DEF MaxesAnswered, AloneInv
      <4>2. pc[r] = "maxes" => AfterFailure(r) = "putCached"
        BY <4>1 DEF AfterFailure
      <4>3. StateAfter(r, "putCached") = state[r]
        BY DEF StateAfter
      <4>4. CASE pc[r] = "init"
        BY <3>1, <4>1, <4>4 DEF MaxesAnswered
      <4>5. CASE pc[r] = "maxes"
        <5>1. Answered(r, "putCached") /\ state' = [state EXCEPT ![r] = state[r]]
              /\ UNCHANGED <<size, rank, kvsname, getting, table>>
          BY <3>1, <4>2, <4>3, <4>5 DEF MaxesAnswered
        <5>2. state' = state
          BY <5>1, Typed
        <5> QED BY <4>1, <5>1, <5>2
      <4> QED BY <4>1, <4>4, <4>5
    <3>2. CASE PutAnswered(r)
      <4>1. pc[r] \in {"ip", "port", "putCached"} /\ \E next : Answered(r, next)
        BY <3>2 DEF PutAnswered
      <4>2. asked[r] # "no" \/ pc[r] = "hello"
        BY <4>1, AloneTaken
      <4>3. pc[r] = "putCached" /\ state[r] = "promoted"
        BY <4>1, <4>2, AloneSilent DEF AloneInv
      <4> QED BY <3>2, <4>3 DEF PutAnswered, processVars
    <3> QED BY <1>2, <3>1, <3>2
  <2>2. /\ pc'[r] = next /\ asked'[r] = "no" /\ lines'[r] = <<>> /\ up' = up
        /\ \A s \in Ranks \ {r} : pc'[s] = pc[s] /\ asked'[s] = asked[s] /\ lines'[s] = lines[s]
        /\ \A k \in Keys : table[r][k] = None
    BY <2>1, AloneTaken
  <2>3. Quiet(r)
    BY <2>1, <2>2 DEF Quiet, AloneInv
  <2>4. \A s \in Ranks \ {r} : Unmoved(s)
    BY <2>1, <2>2 DEF Unmoved
  <2> QED BY <2>3, <2>4, AloneQuiet
<1>3. CASE GetAnswered(r)
  <2>1. PICK next : /\ Answered(r, next) /\ next = IF Wanted(r) = {getting[r]} THEN "ready" ELSE "get"
    BY <1>3 DEF GetAnswered
  <2>2. /\ pc[r] = "get" /\ table' = [table EXCEPT ![r][getting[r]] = Answer(r)]
        /\ UNCHANGED <<state, size, rank, kvsname, getting>>
    BY <1>3 DEF GetAnswered
  <2>3. /\ pc'[r] = next /\ asked'[r] = "no" /\ lines'[r] = <<>> /\ up' = up
        /\ \A s \in Ranks \ {r} : pc'[s] = pc[s] /\ asked'[s] = asked[s] /\ lines'[s] = lines[s]
        /\ lines[r] # <<>> /\ \A k \in Keys : table[r][k] = None
        /\ asked[r] # "no" \/ pc[r] = "hello"
    BY <2>1, AloneTaken
  <2>4. state[r] = "promoted"
    BY <2>2, <2>3 DEF AloneInv
  <2>5. next = "get"
    <3>1. <<"ip", 0>> \in Wanted(r) /\ <<"port", 0>> \in Wanted(r)
      <4>1. size[r] = 1
        BY DEF AloneInv
      <4>2. <<"ip", 0>> \in Keys /\ <<"port", 0>> \in Keys
        BY Numbers DEF Keys
      <4> QED BY <2>3, <4>1, <4>2 DEF Wanted
    <3>2. <<"ip", 0>> # <<"port", 0>>
      OBVIOUS
    <3> QED BY <2>1, <3>1, <3>2
  <2>6. ~up
    <3>1. lines[r] \in Seq(AnyLine)
      BY Typed
    <3>2. Head(lines[r]) = lines[r][1]
      BY <2>3, <3>1, LineTail
    <3>3. lines[r][1].rc = 0
      BY <2>1, <2>2, <3>2 DEF Answered, Refused
    <3> QED BY <2>2, <2>3, <3>3 DEF AloneInv
  <2>7. Quiet(r)
    BY <2>2, <2>3, <2>4, <2>5, <2>6 DEF Quiet, AloneInv
  <2>8. \A s \in Ranks \ {r} : table'[s] = table[s]
    BY <2>2, Typed
  <2>9. \A s \in Ranks \ {r} : Unmoved(s)
    BY <2>2, <2>3, <2>8 DEF Unmoved
  <2> QED BY <2>7, <2>9, AloneQuiet
<1>4. CASE SinginitAnswered(r)
  <2>1. PICK next : /\ Answered(r, next)
                    /\ \/ pc[r] = "hello" /\ next = "singinit" /\ UNCHANGED <<state, size, rank>>
                       \/ /\ next = "init" /\ state' = [state EXCEPT ![r] = "promoted"]
                          /\ size' = [size EXCEPT ![r] = 1] /\ rank' = [rank EXCEPT ![r] = 0]
                    /\ UNCHANGED <<kvsname, getting, table>>
    BY <1>4 DEF SinginitAnswered
  <2>2. /\ pc'[r] = next /\ asked'[r] = "no" /\ lines'[r] = <<>> /\ up' = up
        /\ \A s \in Ranks \ {r} : pc'[s] = pc[s] /\ asked'[s] = asked[s] /\ lines'[s] = lines[s]
        /\ \A k \in Keys : table[r][k] = None
    BY <2>1, AloneTaken
  <2>3. size'[r] = 1 /\ (next = "singinit" => state'[r] = "alone") /\ (next = "init" => state'[r] = "promoted")
    <3>1. size[r] = 1 /\ (pc[r] = "hello" => state[r] = "alone")
      BY DEF AloneInv, Unpromoted
    <3> QED BY <2>1, <3>1, Typed
  <2>4. Quiet(r)
    BY <2>1, <2>2, <2>3 DEF Quiet, AloneInv, Unpromoted
  <2>5. \A s \in Ranks \ {r} : state'[s] = state[s] /\ size'[s] = size[s] /\ rank'[s] = rank[s]
    BY <2>1, Typed
  <2>6. \A s \in Ranks \ {r} : Unmoved(s)
    BY <2>1, <2>2, <2>5 DEF Unmoved
  <2> QED BY <2>4, <2>6, AloneQuiet
<1> QED BY <1>1, <1>2, <1>3, <1>4 DEF AnswerStep

LEMMA AloneServed ==
  ASSUME TypesRight, env = "alone", NEW r \in Ranks, AloneInv(r), ManagerStep(r) \/ LinesLost(r)
  PROVE  AloneInv(r)' /\ \A s \in Ranks \ {r} : Unmoved(s)
<1> USE DEF processVars, managerVars
<1>1. CASE Serve(r)
  <2>1. /\ asked[r] = "sent" /\ asked' = [asked EXCEPT ![r] = "served"]
        /\ lines' = [lines EXCEPT ![r] = lines[r] \o Reply(r)]
        /\ UNCHANGED <<env, pc, state, size, rank, kvsname, getting, table, up>>
        /\ up
    BY <1>1 DEF Serve
  <2>2. pc[r] \in Asking /\ lines[r] = <<>> /\ pc[r] # "initack"
    BY <2>1 DEF AloneInv, Asking, Unpromoted
  <2>3. PICK line \in AnyLine : Reply(r) = <<line>> /\ (pc[r] = "get" => line.rc = 1)
    <3>1. Got(r) = None
      BY DEF AloneInv, Got
    <3>2. Reply(r) \in Seq(AnyLine)
      BY <2>2, ReplyTyped
    <3>3. \A line : <<line>> \in Seq(AnyLine) => line \in AnyLine
      <4>1. ASSUME NEW line, <<line>> \in Seq(AnyLine) PROVE line \in AnyLine
        <5>1. Len(<<line>>) = 1 /\ <<line>>[1] = line
          OBVIOUS
        <5>2. \A s \in Seq(AnyLine) : Len(s) = 1 => s[1] \in AnyLine
          OBVIOUS
        <5> QED BY <4>1, <5>1, <5>2
      <4> QED BY <4>1
    <3>4. CASE pc[r] = "get"
      <4>1. Reply(r) = <<Line("get_result", 1, Empty)>>
        BY <3>1, <3>4 DEF Reply
      <4>2. Line("get_result", 1, Empty).rc = 1
        BY DEF Line
      <4> QED BY <3>2, <3>3, <4>1, <4>2
    <3>5. CASE pc[r] # "get"
      <4>1. \E line : Reply(r) = <<line>>
        BY <2>2, <3>5 DEF Reply
      <4> QED BY <3>2, <3>3, <3>5, <4>1
    <3> QED BY <3>4, <3>5
  <2>4. lines'[r] = <<line>> /\ asked'[r] = "served"
    <3>1. <<>> \o <<line>> = <<line>>
      OBVIOUS
    <3> QED BY <2>1, <2>2, <2>3, <3>1, Typed
  <2>5. Len(<<line>>) = 1 /\ <<line>>[1] = line
    OBVIOUS
  <2>6. ~Lost(r)
    BY <2>1 DEF Lost
  <2>7. state[r] = "promoted" \/ pc[r] = "singinit"
    BY <2>1 DEF AloneInv
  <2>8. AloneInv(r)'
    <3>1. (\A k \in Keys : table'[r][k] = None)
      BY <2>1, <2>6 DEF AloneInv
    <3> QED BY <2>1, <2>2, <2>3, <2>4, <2>5, <2>7, <3>1 DEF AloneInv
  <2>9. \A s \in Ranks \ {r} : Unmoved(s)
    BY <2>1, Typed DEF Unmoved
  <2> QED BY <2>8, <2>9
<1>2. ~ServeBarrier(r)
  BY DEF ServeBarrier, AloneInv, Unpromoted
<1>3. CASE CallBack(r)
  <2>1. /\ pc[r] = "accept" /\ pc' = [pc EXCEPT ![r] = "hello"]
        /\ lines' = [lines EXCEPT ![r] = <<Line("singinit", 0, None)>>]
        /\ UNCHANGED <<env, state, size, rank, kvsname, getting, table, asked, up>>
        /\ up
    BY <1>3 DEF CallBack
  <2>2. pc'[r] = "hello" /\ lines'[r] = <<Line("singinit", 0, None)>> /\ asked[r] = "no"
    BY <2>1, Typed, AloneSilent
  <2>3. Len(<<Line("singinit", 0, None)>>) = 1
    OBVIOUS
  <2>4. AloneInv(r)'
    <3>1. \A k \in Keys : table'[r][k] = None
      BY <2>1 DEF AloneInv, Lost
    <3>2. state[r] = "alone"
      BY <2>1 DEF AloneInv, Unpromoted
    <3> QED BY <2>1, <2>2, <2>3, <3>1, <3>2 DEF AloneInv, Unpromoted
  <2>5. \A s \in Ranks \ {r} : Unmoved(s)
    BY <2>1, Typed DEF Unmoved
  <2> QED BY <2>4, <2>5
<1>4. CASE LinesLost(r)
  <2>1. PICK less \in Remains(lines[r]) : lines' = [lines EXCEPT ![r] = less]
    BY <1>4 DEF LinesLost
  <2>2. /\ ~up
        /\ UNCHANGED <<env, pc, state, size, rank, kvsname, getting, table, asked, up>>
    BY <1>4 DEF LinesLost
  <2>3. lines[r] \in Seq(AnyLine) /\ LeftOf(lines[r], lines[r], FALSE)
    BY Typed, LeftSimply
  <2>4. /\ less \in Seq(AnyLine) /\ LeftOf(less, lines[r], FALSE)
        /\ Len(less) <= Len(lines[r]) /\ (lines[r] = <<>> => less = <<>>)
    BY <2>1, <2>3, LineLost
  <2>5. lines'[r] = less
    BY <2>1, Typed
  <2>6. Len(less) <= 1
    <3>1. Len(lines[r]) <= 1 /\ Len(lines[r]) \in Nat /\ Len(less) \in Nat
      BY <2>3, <2>4 DEF AloneInv
    <3> QED BY <2>4, <3>1
  <2>7. less # <<>> => less[1] = lines[r][1] \/ less[1].val = Empty
    <3>1. SUFFICES ASSUME less # <<>> PROVE less[1] = lines[r][1] \/ less[1].val = Empty
      OBVIOUS
    <3>2. Len(less) \in Nat /\ Len(less) # 0 /\ Len(lines[r]) \in Nat
      BY <2>3, <2>4, <3>1
    <3>3. 1 \in 1 .. Len(less) /\ 1 \in 1 .. Len(lines[r])
      BY <2>4, <3>2
    <3>4. less[1] = lines[r][1] \/ less[1] \in Cuts(lines[r][1])
      BY <2>4, <3>3 DEF LeftOf
    <3>5. lines[r][1] \in AnyLine
      BY <2>3, <3>3
    <3> QED BY <3>4, <3>5, CutTyped
  <2>8. Lost(r) => Lost(r)'
    BY <2>2, <2>4, <2>5 DEF Lost
  <2>9. lines[r] # <<>> \/ less = <<>>
    BY <2>4
  <2>10. AloneInv(r)'
    BY <2>2, <2>5, <2>6, <2>7, <2>8, <2>9 DEF AloneInv
  <2>11. \A s \in Ranks \ {r} : Unmoved(s)
    BY <2>1, <2>2, Typed DEF Unmoved
  <2> QED BY <2>10, <2>11
<1> QED BY <1>1, <1>2, <1>3, <1>4 DEF ManagerStep

LEMMA AloneStepKept ==
  ASSUME TypesRight, TypesRight', env = "alone", \A s \in Ranks : AloneInv(s), [Next]_vars
  PROVE  env' = env /\ \A s \in Ranks : AloneInv(s)'
<1>1. up \in BOOLEAN /\ up' \in BOOLEAN
  BY DEF TypesRight, TypeOK
<1>2. ASSUME env' = env, \A s \in Ranks : Unmoved(s), up' = up \/ ~up'
      PROVE  env' = env /\ \A s \in Ranks : AloneInv(s)'
  BY <1>2, AloneSame
<1>3. CASE UNCHANGED vars
  BY <1>2, <1>3 DEF vars, processVars, managerVars, Unmoved
<1>4. CASE ManagerDies
  BY <1>2, <1>4 DEF ManagerDies, processVars, managerVars, Unmoved
<1>5. ASSUME NEW r \in Ranks, ProcessStep(r) \/ ManagerStep(r) \/ LinesLost(r)
      PROVE  env' = env /\ \A s \in Ranks : AloneInv(s)'
  <2>1. AloneInv(r)
    OBVIOUS
  <2>2. AloneInv(r)' /\ \A s \in Ranks \ {r} : Unmoved(s)
    <3>1. CASE StartStep(r) \/ AloneStep(r)
      BY <2>1, <3>1, AloneStarts
    <3>2. CASE Ask(r)
      BY <2>1, <3>2, AloneAsks
    <3>3. CASE WriteFails(r) \/ ReadFails(r) \/ AnswerRefused(r)
      BY <2>1, <3>3, AloneFails
    <3>4. CASE AnswerStep(r) /\ ~AnswerRefused(r)
      BY <2>1, <3>4, AloneAnswered
    <3>5. CASE ManagerStep(r) \/ LinesLost(r)
      BY <2>1, <3>5, AloneServed
    <3> QED BY <1>5, <3>1, <3>2, <3>3, <3>4, <3>5 DEF ProcessStep
  <2>3. env' = env /\ up' = up
    <3>1. CASE StartStep(r) \/ AloneStep(r) \/ Ask(r)
      BY <3>1 DEF StartStep, NoInterface, ConnectFails, StartFromEnvironment, StartFromPort, StartAlone,
                  AloneStep, NameAlone, PutAlone, BarrierAlone, Fork, Ask
    <3>2. CASE WriteFails(r) \/ ReadFails(r) \/ AnswerRefused(r)
      BY <3>2 DEF WriteFails, ReadFails, AnswerRefused, Fail
    <3>3. CASE AnswerStep(r) /\ ~AnswerRefused(r)
      <4>1. \E next : Answered(r, next)
        BY <3>3 DEF AnswerStep, HandshakeAnswered, MaxesAnswered, NameAnswered, PutAnswered,
                    BarrierAnswered, GetAnswered, SinginitAnswered
      <4> QED BY <4>1 DEF Answered
    <3>4. CASE ManagerStep(r) \/ LinesLost(r)
      BY <3>4 DEF ManagerStep, Serve, ServeBarrier, CallBack, LinesLost
    <3> QED BY <1>5, <3>1, <3>2, <3>3, <3>4 DEF ProcessStep
  <2>4. ASSUME NEW s \in Ranks \ {r} PROVE AloneInv(s)'
    <3>1. AloneInv(s) /\ Unmoved(s)
      BY <2>2
    <3> QED BY <2>3, <3>1, AloneSame
  <2> QED BY <2>2, <2>3, <2>4
<1> QED BY <1>3, <1>4, <1>5 DEF Next

-----------------------------------------------------------------------------
(* The theorems. *)

LEMMA BootInit == Init => BootInv
<1> SUFFICES ASSUME Init PROVE BootInv
  OBVIOUS
<1>1. /\ env \in Envs /\ pc = [r \in Ranks |-> "start"] /\ state = [r \in Ranks |-> "uninitialized"]
      /\ size = [r \in Ranks |-> 1] /\ rank = [r \in Ranks |-> 0] /\ kvsname = [r \in Ranks |-> "none"]
      /\ cached = [r \in Ranks |-> NoPut] /\ getting = [r \in Ranks |-> <<"ip", 0>>]
      /\ table = [r \in Ranks |-> [k \in Keys |-> None]]
      /\ asked = [r \in Ranks |-> "no"] /\ lines = [r \in Ranks |-> <<>>]
      /\ kvs = [r \in Ranks |-> [k \in Keys |-> None]]
      /\ inBarrier = {} /\ up = TRUE
  BY DEF Init
<1>2. TypesRight
  <2>1. env \in Env
    BY <1>1, EnvAssumption
  <2>2. pc \in [Ranks -> Steps]
    BY <1>1 DEF Steps
  <2>3. table \in [Ranks -> [Keys -> Values]] /\ kvs \in [Ranks -> [Keys -> Values]]
    <3>1. [k \in Keys |-> None] \in [Keys -> Values]
      BY Numbers
    <3> QED BY <1>1, <3>1
  <2>4. getting \in [Ranks -> Keys]
    <3>1. <<"ip", 0>> \in Keys
      BY Numbers DEF Keys
    <3> QED BY <1>1, <3>1
  <2>5. cached \in [Ranks -> [key : {"ip", "port"} \X Nat, val : Values]]
    <3>1. NoPut \in [key : {"ip", "port"} \X Nat, val : Values]
      BY Numbers DEF NoPut
    <3> QED BY <1>1, <3>1
  <2>6. lines \in [Ranks -> Seq(AnyLine)]
    <3>1. <<>> \in Seq(AnyLine)
      OBVIOUS
    <3> QED BY <1>1, <3>1
  <2>7. size \in [Ranks -> Nat] /\ rank \in [Ranks -> Nat]
    BY <1>1
  <2>8. /\ state \in [Ranks -> {"uninitialized", "alone", "normal", "promoted"}]
        /\ kvsname \in [Ranks -> {"none", "job", "dummy"}]
        /\ asked \in [Ranks -> {"no", "sent", "served"}]
    BY <1>1
  <2> QED BY <1>1, <2>1, <2>2, <2>3, <2>4, <2>5, <2>6, <2>7, <2>8 DEF TypesRight, TypeOK
<1>3. KeysRight
  BY <1>1, Numbers DEF KeysRight
<1>4. ASSUME NEW r \in Ranks PROVE JobInv(r) /\ AloneInv(r)
  <2>1. /\ pc[r] = "start" /\ state[r] = "uninitialized" /\ size[r] = 1 /\ kvsname[r] = "none"
        /\ asked[r] = "no" /\ lines[r] = <<>> /\ inBarrier = {}
        /\ \A k \in Keys : table[r][k] = None /\ kvs[0][k] = None
    BY <1>1, Numbers
  <2>2. Due(r) = <<>>
    BY <2>1 DEF Due
  <2>3. LeftOf(lines[r], Due(r), up)
    <3>1. <<>> \in Seq(AnyLine) /\ up \in BOOLEAN
      BY <1>1
    <3>2. LeftOf(<<>>, <<>>, up)
      BY <3>1, LeftSimply
    <3> QED BY <2>1, <2>2, <3>2
  <2>4. OnItsWay(r) /\ IdentityFollows(r) /\ WaitsForAll(r)
    BY <2>1 DEF OnItsWay, IdentityFollows, WaitsForAll, Publishing
  <2>5. PutsInTurn(r)
    <3>1. \A name \in {"ip", "port"} : <<name, r>> \in Keys
      BY DEF Keys
    <3> QED BY <2>1, <3>1 DEF PutsInTurn, NotYetPut, AlreadyPut, Early, Readable
  <2>6. ReadInOrder(r)
    BY <2>1, Numbers DEF ReadInOrder
  <2>7. AloneInv(r)
    <3>1. Len(<<>>) = 0
      OBVIOUS
    <3> QED BY <2>1, <3>1 DEF AloneInv, Unpromoted
  <2> QED BY <2>3, <2>4, <2>5, <2>6, <2>7 DEF JobInv
<1> QED BY <1>2, <1>3, <1>4 DEF BootInv

\* The inductive invariant of the start of a job.
THEOREM BootInvariant == Spec => []BootInv
<1>1. BootInv /\ [Next]_vars => BootInv'
  <2> SUFFICES ASSUME BootInv, [Next]_vars PROVE BootInv'
    OBVIOUS
  <2>1. TypesRight
    BY DEF BootInv
  <2>2. AskedInTurn
    <3>1. ASSUME NEW r \in Ranks, asked[r] # "no" PROVE pc[r] \in Asking
      <4>1. CASE env = "alone"
        BY <3>1, <4>1 DEF BootInv, AloneInv
      <4>2. CASE env # "alone"
        BY <3>1, <4>2 DEF BootInv, JobInv, OnItsWay
      <4> QED BY <4>1, <4>2
    <3> QED BY <3>1 DEF AskedInTurn
  <2>3. TypesRight'
    BY <2>1, <2>2, StepTyped
  <2>4. CASE env = "alone"
    <3>1. env' = env /\ \A s \in Ranks : AloneInv(s)'
      BY <2>1, <2>3, <2>4, AloneStepKept DEF BootInv
    <3> QED BY <2>3, <2>4, <3>1 DEF BootInv
  <2>5. CASE env # "alone"
    <3>1. env' = env /\ KeysRight' /\ \A s \in Ranks : JobInv(s)'
      BY <2>1, <2>3, <2>5, JobStep DEF BootInv
    <3> QED BY <2>3, <2>5, <3>1 DEF BootInv
  <2> QED BY <2>4, <2>5
<1> QED BY <1>1, BootInit, PTL DEF Spec

\* Whatever is lost, cut or ignored, a process of a job that publishes has the
\* rank and the size it was given (simple_pmi.c:204, 1349).
THEOREM JobIdentityKept == Spec => []IdentityKept
<1>1. BootInv => IdentityKept
  <2> SUFFICES ASSUME BootInv, NEW r \in Ranks, env # "alone",
                      pc[r] \in {"ip", "port", "barrier", "get", "ready"}
               PROVE  rank[r] = r /\ size[r] = Size
    BY DEF IdentityKept
  <2>1. IdentityFollows(r)
    BY DEF BootInv, JobInv
  <2> QED BY <2>1 DEF IdentityFollows, Known, Publishing
<1> QED BY <1>1, BootInvariant, PTL

\* Who starts to connect has the address of every process, but for one value
\* that the death of the manager may have cut (simple_pmiutil.c:139).
THEOREM ReadyTablesRight == Spec => []TablesRight
<1>1. BootInv => TablesRight
  <2> SUFFICES ASSUME BootInv, NEW r \in Ranks, pc[r] = "ready"
               PROVE  LET wrong == {k \in Keys : table[r][k] # Address(k)}
                      IN  /\ \A k, l \in wrong : k = l
                          /\ \A k \in wrong : ~up /\ k[2] = Size - 1 /\ table[r][k] = Empty
    BY DEF TablesRight
  <2>1. env # "alone"
    BY DEF BootInv, AloneInv, Unpromoted
  <2>2. ReadInOrder(r)
    BY <2>1 DEF BootInv, JobInv
  <2>3. ASSUME NEW k \in Keys, table[r][k] # Address(k)
        PROVE  ~up /\ k[2] = Size - 1 /\ table[r][k] = Empty
    BY <2>2, <2>3 DEF ReadInOrder, Lost
  <2>4. ASSUME NEW k \in Keys, NEW l \in Keys, table[r][k] # Address(k), table[r][l] # Address(l)
        PROVE  k = l
    <3>1. table[r][k] = Empty /\ table[r][l] = Empty
      BY <2>3, <2>4
    <3> QED BY <2>2, <3>1 DEF ReadInOrder
  <2> QED BY <2>3, <2>4
<1> QED BY <1>1, BootInvariant, PTL

\* No two builder units are told to listen at the same address (main.cpp:127):
\* by the placement of the processes, those of a host have ports of their own.
THEOREM ReadyEndpointsDistinct == Spec => []EndpointsDistinct
<1>1. BootInv => EndpointsDistinct
  <2> SUFFICES ASSUME BootInv, NEW r \in Ranks, NEW s \in Ranks, NEW t \in Ranks,
                      pc[r] = "ready", s # t, \A k \in Keys : table[r][k] # Empty
               PROVE  <<table[r][<<"ip", s>>], table[r][<<"port", s>>]>>
                        # <<table[r][<<"ip", t>>], table[r][<<"port", t>>]>>
    BY DEF EndpointsDistinct
  <2>1. env # "alone"
    BY DEF BootInv, AloneInv, Unpromoted
  <2>2. \A k \in Keys : table[r][k] = Address(k)
    BY <2>1 DEF BootInv, JobInv, ReadInOrder
  <2>3. ASSUME NEW q \in Ranks
        PROVE  table[r][<<"ip", q>>] = Host[q] /\ table[r][<<"port", q>>] = BasePort + (q % Range)
    <3>1. <<"ip", q>> \in Keys /\ <<"port", q>> \in Keys
      BY DEF Keys
    <3>2. Address(<<"ip", q>>) = Host[q] /\ Address(<<"port", q>>) = Port(q)
      BY DEF Address
    <3> QED BY <2>2, <3>1, <3>2 DEF Port
  <2>4. Host[s] # Host[t] \/ BasePort + (s % Range) # BasePort + (t % Range)
    <3>1. PICK m \in Nat, n \in Nat, base \in Nat : m = s % Range /\ n = t % Range /\ base = BasePort
      BY Numbers, Ports, NetworkAssumption
    <3>2. m # n => base + m # base + n
      OBVIOUS
    <3>3. Host[s] = Host[t] => m # n
      BY <3>1, PlacementAssumption
    <3> QED BY <3>1, <3>2, <3>3, Zenon
  <2> QED BY <2>3, <2>4
<1> QED BY <1>1, BootInvariant, PTL

\* PMI_CHECK_STATUS ends no process of a job whose manager lives
\* (hydra_launcher.cpp:29).
THEOREM JobAbortsOnlyIfManagerLost == Spec => []AbortOnlyIfManagerLost
<1>1. BootInv => AbortOnlyIfManagerLost
  BY DEF BootInv, JobInv, OnItsWay, AbortOnlyIfManagerLost
<1> QED BY <1>1, BootInvariant, PTL

\* A process started without mpiexec never gets its table (simple_pmi.c:388,
\* 346, 1250), also if the manager it forks dies and lines of its are lost or
\* cut.
THEOREM NeverReadyAlone == Spec => []AloneNeverReady
<1>1. BootInv => AloneNeverReady
  BY DEF BootInv, AloneInv, Unpromoted, AloneNeverReady
<1> QED BY <1>1, BootInvariant, PTL

\* The processes of a job whose address can be read, and those past the barrier.
PublishedBy == {r \in Ranks : env # "alone" /\ \A n \in {"ip", "port"} : kvs[0][<<n, r>>] # None}
PastBarrier == {r \in Ranks : env # "alone" /\ pc[r] \in {"get", "ready"}}

LEMMA ExchangeMapping ==
  /\ Exchange!Ranks = Ranks
  /\ \A r : Exchange!Publish(r) <=> PublishedBy' = PublishedBy \cup {r} /\ PastBarrier' = PastBarrier
  /\ \A r : Exchange!Pass(r) <=>
       PublishedBy = Ranks /\ PastBarrier' = PastBarrier \cup {r} /\ PublishedBy' = PublishedBy
  /\ \A r : Exchange!End(r) <=> PastBarrier' = PastBarrier \ {r} /\ PublishedBy' = PublishedBy
  /\ UNCHANGED Exchange!exchangeVars <=> PublishedBy' = PublishedBy /\ PastBarrier' = PastBarrier
  /\ Exchange!Init <=> PublishedBy = {} /\ PastBarrier = {}
BY DEF Exchange!Ranks, Ranks, Exchange!Publish, Exchange!Pass, Exchange!End, Exchange!exchangeVars,
       Exchange!Init, PublishedBy, PastBarrier

\* A step of a process of a job is one of the exchange, or none.
LEMMA ProcessExchanges ==
  ASSUME BootInv, BootInv', env # "alone", NEW r \in Ranks, ProcessStep(r)
  PROVE  [Exchange!Next]_(Exchange!exchangeVars)
<1>1. env' = env /\ kvs' = kvs /\ \A s \in Ranks \ {r} : pc'[s] = pc[s]
  <2>1. Alone(r) /\ env' = env
    BY JobMoves DEF BootInv
  <2> QED BY <2>1 DEF Alone, Unmoved
<1>2. PublishedBy' = PublishedBy
  BY <1>1 DEF PublishedBy
<1>3. CASE pc'[r] \in {"get", "ready"}
  <2>1. PastBarrier' = PastBarrier \cup {r}
    BY <1>1, <1>3 DEF PastBarrier
  <2>2. \A s \in Ranks : JobInv(s)'
    BY <1>1 DEF BootInv
  <2>3. inBarrier' = Ranks
    BY <1>3, <2>2 DEF JobInv, WaitsForAll
  <2>4. \A s \in Ranks : Readable(s, "ip")' /\ Readable(s, "port")'
    BY <2>2, <2>3 DEF JobInv, WaitsForAll
  <2>5. PublishedBy = Ranks
    BY <1>1, <2>4 DEF PublishedBy, Readable
  <2> QED BY <1>2, <2>1, <2>5, ExchangeMapping DEF Exchange!Next
<1>4. CASE pc'[r] \notin {"get", "ready"}
  <2>1. PastBarrier' = PastBarrier \ {r}
    BY <1>1, <1>4 DEF PastBarrier
  <2> QED BY <1>2, <2>1, ExchangeMapping DEF Exchange!Next
<1> QED BY <1>3, <1>4

LEMMA ManagerExchanges ==
  ASSUME BootInv, BootInv', env # "alone", NEW r \in Ranks, ManagerStep(r) \/ LinesLost(r)
  PROVE  [Exchange!Next]_(Exchange!exchangeVars)
<1>1. ~CallBack(r)
  BY DEF BootInv, JobInv, OnItsWay, CallBack
<1>2. CASE Serve(r)
  <2>1. env' = env /\ pc' = pc
    BY <1>2 DEF Serve
  <2>2. \A k \in Keys : kvs'[0][k] = kvs[0][k] \/ (k[2] = r /\ kvs'[0][k] = Address(k))
    BY <1>2, JobServed DEF BootInv
  <2>3. PastBarrier' = PastBarrier
    BY <2>1 DEF PastBarrier
  <2>4. \A n \in {"ip", "port"}, s \in Ranks :
          /\ s # r => kvs'[0][<<n, s>>] = kvs[0][<<n, s>>]
          /\ kvs[0][<<n, s>>] # None => kvs'[0][<<n, s>>] # None
    <3>1. \A n \in {"ip", "port"}, s \in Ranks :
            <<n, s>> \in Keys /\ <<n, s>>[2] = s /\ Address(<<n, s>>) # None
      BY Addresses DEF Keys
    <3> QED BY <2>2, <3>1
  <2>5. PublishedBy' = PublishedBy \/ PublishedBy' = PublishedBy \cup {r}
    BY <2>1, <2>4 DEF PublishedBy
  <2> QED BY <2>3, <2>5, ExchangeMapping DEF Exchange!Next
<1>3. CASE ServeBarrier(r) \/ LinesLost(r)
  <2>1. env' = env /\ pc' = pc /\ kvs' = kvs
    BY <1>3 DEF ServeBarrier, LinesLost, managerVars
  <2> QED BY <2>1, ExchangeMapping DEF PublishedBy, PastBarrier
<1> QED BY <1>1, <1>2, <1>3 DEF ManagerStep

\* The launcher keeps the promise of AddressExchange: nobody is past the barrier
\* before all addresses can be read (main.cpp:124-131).
THEOREM BootstrapExchanges == Spec => ImplementsExchange
<1>1. Init => Exchange!Init
  <2> SUFFICES ASSUME Init PROVE PublishedBy = {} /\ PastBarrier = {}
    BY ExchangeMapping
  <2>1. \A r \in Ranks : pc[r] = "start" /\ <<"ip", r>> \in Keys /\ kvs[0][<<"ip", r>>] = None
    BY Numbers DEF Init, Keys
  <2> QED BY <2>1 DEF PublishedBy, PastBarrier
<1>2. BootInv /\ BootInv' /\ [Next]_vars => [Exchange!Next]_(Exchange!exchangeVars)
  <2> SUFFICES ASSUME BootInv, BootInv', [Next]_vars PROVE [Exchange!Next]_(Exchange!exchangeVars)
    OBVIOUS
  <2>1. CASE env = "alone"
    <3>1. env' = env
      BY <2>1, AloneStepKept DEF BootInv, TypesRight
    <3> QED BY <2>1, <3>1, ExchangeMapping DEF PublishedBy, PastBarrier
  <2>2. CASE env # "alone" /\ (UNCHANGED vars \/ ManagerDies)
    <3>1. env' = env /\ pc' = pc /\ kvs' = kvs
      BY <2>2 DEF vars, ManagerDies, managerVars
    <3> QED BY <3>1, ExchangeMapping DEF PublishedBy, PastBarrier
  <2>3. CASE env # "alone" /\ \E r \in Ranks : ProcessStep(r) \/ ManagerStep(r) \/ LinesLost(r)
    BY <2>3, ProcessExchanges, ManagerExchanges
  <2> QED BY <2>1, <2>2, <2>3 DEF Next
<1> QED BY <1>1, <1>2, BootInvariant, PTL DEF ImplementsExchange, Spec, Exchange!Spec
=============================================================================
