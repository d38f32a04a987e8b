----------------------------- MODULE Bootstrap ------------------------------
(***************************************************************************)
(* The start of a job with Hydra: main.cpp publishes an address for its    *)
(* rank and reads those of all others, through HydraLauncher and the PMI   *)
(* client, which talks to the process manager (mpiexec or its proxy, not   *)
(* part of the repository) over one connection for each process.           *)
(*                                                                         *)
(* A request is a line the client writes, and each answer a line it reads: *)
(* one step each, and one for the manager.  The manager may die at any     *)
(* time; what it had written can then be lost, or be cut in the middle of  *)
(* a line, which PMIU_readline does not notice.                            *)
(***************************************************************************)
EXTENDS Integers, Sequences

CONSTANTS Size,      \* number of processes of the job
          Host,      \* address of the host of each process
          BasePort,  \* NETWORK.PORT
          Range,     \* NETWORK.RANGE
          Envs       \* how a job can be started, see Env

Ranks == 0 .. Size - 1

\* PMI_FD is set; PMI_PORT and PMI_ID are set; only PMI_PORT is; none is, so
\* that each process believes to be alone.
Env == {"fd", "port", "portOnly", "alone"}

ASSUME SizeAssumption == Size \in Nat \ {0}
ASSUME EnvAssumption == Envs \subseteq Env
ASSUME NetworkAssumption ==
    /\ Host \in [Ranks -> Nat \ {0}]
    /\ BasePort \in Nat \ {0}
    /\ Range \in Nat \ {0}
\* The configuration has a port for each process of a host.
ASSUME PlacementAssumption ==
    \A r, s \in Ranks : r # s /\ Host[r] = Host[s] => r % Range # s % Range

Keys == {"ip", "port"} \X Ranks
None == 0        \* no value under a key
Empty == -1      \* a cut value: what is left of it, at worst nothing
Values == Nat \cup {Empty}

VARIABLES
    \* The process.
    env,       \* how the job was started
    pc,        \* the request it is at, or where it ended
    state,     \* PMI_initialized
    size,      \* PMI_size
    rank,      \* PMI_rank
    kvsname,   \* HydraLauncher::kvsName: the job's space, or a dummy
    cached,    \* cached_singinit_key and cached_singinit_val
    getting,   \* the key of the HydraLauncher::get under way
    table,     \* what HydraLauncher::get returned for each key
    \* The connection and the manager.
    asked,     \* whether a request is "sent", or "served" by the manager
    lines,     \* the lines written by the manager and not read
    kvs,       \* the key-value spaces
    inBarrier, \* the processes that entered the barrier
    up         \* whether the manager lives

processVars == <<state, size, rank, kvsname, cached, getting, table>>
managerVars == <<kvs, inBarrier>>
vars == <<env, pc, processVars, asked, lines, managerVars, up>>

\* A process without a manager starts one of its own, with a space of its own.
Space(r) == IF env = "alone" THEN r ELSE 0

NoPut == [key |-> <<"ip", 0>>, val |-> None]

Init ==
    /\ env \in Envs
    /\ pc = [r \in Ranks |-> "start"]
    /\ state = [r \in Ranks |-> "uninitialized"]
    /\ size = [r \in Ranks |-> 1]
    /\ rank = [r \in Ranks |-> 0]
    /\ kvsname = [r \in Ranks |-> "none"]
    /\ cached = [r \in Ranks |-> NoPut]
    /\ getting = [r \in Ranks |-> <<"ip", 0>>]
    /\ table = [r \in Ranks |-> [k \in Keys |-> None]]
    /\ asked = [r \in Ranks |-> "no"]
    /\ lines = [r \in Ranks |-> <<>>]
    /\ kvs = [r \in Ranks |-> [k \in Keys |-> None]]
    /\ inBarrier = {}
    /\ up = TRUE
-----------------------------------------------------------------------------
(* What is said. *)

\* Mutant: the port is the quotient.
PortOfQuotient(n) == BasePort + (n \div Range)

\* The port a process of rank n listens on.
Port(n) == BasePort + (n % Range)

\* What process r publishes under a name.
Published(r, name) == IF name = "ip" THEN Host[r] ELSE Port(rank[r])

\* The value every process should read under a key.
Address(k) == IF k[1] = "ip" THEN Host[k[2]] ELSE Port(k[2])

Line(cmd, rc, val) == [cmd |-> cmd, rc |-> rc, val |-> val]

\* The command each request expects in its answer.
Expected(at) ==
    CASE at = "initack" -> "initack"
      [] at \in {"size", "rank", "debug"} -> "set"
      [] at = "init" -> "response_to_init"
      [] at = "maxes" -> "maxes"
      [] at = "name" -> "my_kvsname"
      [] at \in {"ip", "port", "putCached"} -> "put_result"
      [] at = "barrier" -> "barrier_out"
      [] at = "get" -> "get_result"
      [] at = "hello" -> "singinit"
      [] at = "singinit" -> "singinit_info"

Asking == {"initack", "init", "maxes", "name", "ip", "port", "putCached",
           "barrier", "get", "singinit"}
\* Lines the manager sends without having been asked.
Unasked == {"size", "rank", "debug", "hello"}
Ended == {"ready", "aborted", "noInterface"}
Steps == Asking \cup Unasked \cup Ended \cup {"start", "accept"}

\* The key and the value of the put under way.
PutKey(r) == IF pc[r] = "putCached" THEN cached[r].key ELSE <<pc[r], rank[r]>>
PutVal(r) == IF pc[r] = "putCached" THEN cached[r].val ELSE Published(r, pc[r])

\* Mutant: get reads under the process's own rank.
OwnKey(r, k) == <<k[1], rank[r]>>

\* The key HydraLauncher::get asks for.
GetKey(r, k) == k

\* What the keys of an address table are; those of smaller ranks come first,
\* the two of one rank in the order the compiler evaluates them in.
Wanted(r) == {k \in Keys : k[2] < size[r] /\ table[r][k] = None}
NextKeys(r) == {k \in Wanted(r) : \A l \in Wanted(r) : k[2] <= l[2]}
-----------------------------------------------------------------------------
(* Starting, and running alone. *)

\* get_local_ip finds no address for the interface: main aborts.
NoInterface(r) ==
    /\ pc[r] = "start"
    /\ pc' = [pc EXCEPT ![r] = "noInterface"]
    /\ UNCHANGED <<env, processVars, asked, lines, managerVars, up>>

\* PMI_FD is set, or the environment gives size and rank with PMI_PORT.
StartFromEnvironment(r) ==
    /\ pc[r] = "start" /\ env \in {"fd", "portOnly"}
    /\ pc' = [pc EXCEPT ![r] = "init"]
    /\ size' = [size EXCEPT ![r] = Size]
    /\ rank' = [rank EXCEPT ![r] = r]
    /\ UNCHANGED <<env, state, kvsname, cached, getting, table, asked, lines, managerVars, up>>

\* Connected to PMI_PORT; size and rank will come from the manager.
StartFromPort(r) ==
    /\ pc[r] = "start" /\ env = "port"
    /\ pc' = [pc EXCEPT ![r] = "initack"]
    /\ UNCHANGED <<env, processVars, asked, lines, managerVars, up>>

\* PMI_PORT can not be connected to.
ConnectFails(r) ==
    /\ pc[r] = "start" /\ env \in {"port", "portOnly"} /\ ~up
    /\ pc' = [pc EXCEPT ![r] = "aborted"]
    /\ UNCHANGED <<env, processVars, asked, lines, managerVars, up>>

\* Singleton init: the only process of a job without manager.
StartAlone(r) ==
    /\ pc[r] = "start" /\ env = "alone"
    /\ pc' = [pc EXCEPT ![r] = "name"]
    /\ state' = [state EXCEPT ![r] = "alone"]
    /\ size' = [size EXCEPT ![r] = 1]
    /\ rank' = [rank EXCEPT ![r] = 0]
    /\ UNCHANGED <<env, kvsname, cached, getting, table, asked, lines, managerVars, up>>

\* Without a manager the name of the space is made up.
NameAlone(r) ==
    /\ pc[r] = "name" /\ state[r] = "alone"
    /\ pc' = [pc EXCEPT ![r] = "ip"]
    /\ kvsname' = [kvsname EXCEPT ![r] = "dummy"]
    /\ UNCHANGED <<env, state, size, rank, cached, getting, table, asked, lines, managerVars, up>>

\* Without a manager a put replaces the one cached before.
PutAlone(r) ==
    /\ pc[r] \in {"ip", "port"} /\ state[r] = "alone"
    /\ cached' = [cached EXCEPT ![r] = [key |-> PutKey(r), val |-> PutVal(r)]]
    /\ pc' = [pc EXCEPT ![r] = IF @ = "ip" THEN "port" ELSE "barrier"]
    /\ UNCHANGED <<env, state, size, rank, kvsname, getting, table, asked, lines, managerVars, up>>

\* Without a manager the barrier is no obstacle.
BarrierAlone(r) ==
    /\ pc[r] = "barrier" /\ state[r] = "alone"
    /\ pc' = [pc EXCEPT ![r] = "get"]
    /\ UNCHANGED <<env, processVars, asked, lines, managerVars, up>>

\* The first get without a manager forks an mpiexec and waits for it to call
\* back, forever if there is none to execute.
Fork(r) ==
    /\ pc[r] = "get" /\ state[r] = "alone"
    /\ pc' = [pc EXCEPT ![r] = "accept"]
    /\ UNCHANGED <<env, processVars, asked, lines, managerVars, up>>
-----------------------------------------------------------------------------
(* Requests and answers. *)

\* Ready to write a request.
Writing(r) ==
    /\ pc[r] \in Asking
    /\ state[r] = "alone" => pc[r] = "singinit"
    /\ asked[r] = "no"

\* Write the request.
Ask(r) ==
    /\ Writing(r)
    /\ asked' = [asked EXCEPT ![r] = "sent"]
    /\ IF pc[r] = "get"
       THEN \E k \in NextKeys(r) : getting' = [getting EXCEPT ![r] = k]
       ELSE UNCHANGED getting
    /\ UNCHANGED <<env, pc, state, size, rank, kvsname, cached, table, lines, managerVars, up>>

\* Where a request that got no proper answer leads: PMI_Init ignores what
\* PMII_Set_from_port and PMII_getmaxes return, PMIi_InitIfSingleton the put;
\* in all other cases the launcher, or PMII_getmaxes itself, aborts.
AfterFailure(r) ==
    CASE pc[r] \in {"initack", "size", "rank", "debug"} -> "init"
      [] pc[r] = "maxes" -> IF state[r] = "promoted" THEN "putCached" ELSE "name"
      [] pc[r] = "putCached" -> "get"
      [] OTHER -> "aborted"

\* PMI_Init ends with getmaxes, whatever became of it.
StateAfter(r, next) ==
    IF next = "name" /\ state[r] = "uninitialized" THEN "normal" ELSE state[r]

Fail(r, next) ==
    /\ pc' = [pc EXCEPT ![r] = next]
    /\ state' = [state EXCEPT ![r] = StateAfter(r, next)]
    /\ asked' = [asked EXCEPT ![r] = "no"]
    /\ UNCHANGED <<env, size, rank, kvsname, cached, getting, table, managerVars, up>>

\* The write fails, with an error or with SIGPIPE.  A failed write of the first
\* line of getmaxes ends it without an abort.
WriteFails(r) ==
    /\ ~up
    /\ Writing(r)
    /\ \/ Fail(r, "aborted")
       \/ Fail(r, IF pc[r] # "init" THEN AfterFailure(r)
                  ELSE IF state[r] = "promoted" THEN "putCached" ELSE "name")
    /\ UNCHANGED lines

\* Waiting for a line.
Reading(r) == asked[r] # "no" \/ pc[r] \in Unasked

\* Mutant: PMIU_readline tries again.
NoEndOfFile(r) == FALSE

\* The connection is closed and there is nothing left to read.
EndOfFile(r) == ~up /\ lines[r] = <<>>

ReadFails(r) ==
    /\ Reading(r)
    /\ EndOfFile(r)
    /\ Fail(r, AfterFailure(r))
    /\ UNCHANGED lines

\* Mutant: what rc says is not looked at.
NeverRefused(r, line) == FALSE

\* The answer is not the one expected, or a put or get did not succeed.
Refused(r, line) ==
    \/ line.cmd # Expected(pc[r])
    \/ pc[r] \in {"ip", "port", "putCached", "get"} /\ line.rc # 0

AnswerRefused(r) ==
    /\ Reading(r) /\ lines[r] # <<>>
    /\ Refused(r, Head(lines[r]))
    /\ Fail(r, AfterFailure(r))
    /\ lines' = [lines EXCEPT ![r] = Tail(@)]

\* The line that was expected, which leads to the next step.
Answered(r, next) ==
    /\ Reading(r) /\ lines[r] # <<>>
    /\ ~Refused(r, Head(lines[r]))
    /\ pc' = [pc EXCEPT ![r] = next]
    /\ asked' = [asked EXCEPT ![r] = "no"]
    /\ lines' = [lines EXCEPT ![r] = Tail(@)]
    /\ UNCHANGED <<env, cached, managerVars, up>>

Answer(r) == Head(lines[r]).val

\* Mutant: an empty string is an error code.
NumberOrError(val) == val

Number(val) == IF val = Empty THEN 0 ELSE val   \* atoi

\* Mutant: the rank that was sent is not stored.
RankNotSet(r) == rank[r]

RankSent(r) == Number(Answer(r))

\* PMII_Set_from_port: the acknowledgement, then size, rank and debug.
HandshakeAnswered(r) ==
    /\ \/ pc[r] = "initack" /\ Answered(r, "size") /\ UNCHANGED <<size, rank>>
       \/ /\ pc[r] = "size" /\ Answered(r, "rank") /\ UNCHANGED rank
          /\ size' = [size EXCEPT ![r] = Number(Answer(r))]
       \/ /\ pc[r] = "rank" /\ Answered(r, "debug") /\ UNCHANGED size
          /\ rank' = [rank EXCEPT ![r] = RankSent(r)]
       \/ pc[r] = "debug" /\ Answered(r, "init") /\ UNCHANGED <<size, rank>>
    /\ UNCHANGED <<state, kvsname, getting, table>>

\* PMII_getmaxes, and what follows it in PMI_Init or PMIi_InitIfSingleton.
MaxesAnswered(r) ==
    /\ \/ pc[r] = "init" /\ Answered(r, "maxes") /\ UNCHANGED state
       \/ /\ pc[r] = "maxes" /\ Answered(r, AfterFailure(r))
          /\ state' = [state EXCEPT ![r] = StateAfter(r, AfterFailure(r))]
    /\ UNCHANGED <<size, rank, kvsname, getting, table>>

\* PMI_KVS_Get_my_name.
NameAnswered(r) ==
    /\ pc[r] = "name" /\ Answered(r, "ip")
    /\ kvsname' = [kvsname EXCEPT ![r] = "job"]
    /\ UNCHANGED <<state, size, rank, getting, table>>

\* PMI_KVS_Put; PMI_KVS_Commit does nothing.
PutAnswered(r) ==
    /\ \/ pc[r] = "ip" /\ Answered(r, "port")
       \/ pc[r] = "port" /\ Answered(r, "barrier")
       \/ pc[r] = "putCached" /\ Answered(r, "get")
    /\ UNCHANGED processVars

BarrierAnswered(r) ==
    /\ pc[r] = "barrier" /\ Answered(r, "get")
    /\ UNCHANGED processVars

\* PMI_KVS_Get, and the end of get_endpoints.
GetAnswered(r) ==
    /\ pc[r] = "get"
    /\ Answered(r, IF Wanted(r) = {getting[r]} THEN "ready" ELSE "get")
    /\ table' = [table EXCEPT ![r][getting[r]] = Answer(r)]
    /\ UNCHANGED <<state, size, rank, kvsname, getting>>

\* The manager that was forked says hello, and agrees to serve.
SinginitAnswered(r) ==
    /\ \/ pc[r] = "hello" /\ Answered(r, "singinit") /\ UNCHANGED <<state, size, rank>>
       \/ /\ pc[r] = "singinit" /\ Answered(r, "init")
          /\ state' = [state EXCEPT ![r] = "promoted"]
          /\ size' = [size EXCEPT ![r] = 1]
          /\ rank' = [rank EXCEPT ![r] = 0]
    /\ UNCHANGED <<kvsname, getting, table>>
-----------------------------------------------------------------------------
(* The process manager. *)

\* A put succeeds unless the key is there, a get if the key is there; the dummy
\* name of a process that was alone is not the name of a space.
PutRc(r) == IF kvs[Space(r)][PutKey(r)] = None THEN 0 ELSE 1
Got(r) == IF kvsname[r] = "job" THEN kvs[Space(r)][GetKey(r, getting[r])] ELSE None

Reply(r) ==
    CASE pc[r] = "initack" ->
           <<Line("initack", 0, None), Line("set", 0, Size), Line("set", 0, r), Line("set", 0, 0)>>
      [] pc[r] \in {"ip", "port", "putCached"} -> <<Line("put_result", PutRc(r), None)>>
      [] pc[r] = "get" ->
           <<IF Got(r) = None THEN Line("get_result", 1, Empty) ELSE Line("get_result", 0, Got(r))>>
      [] OTHER -> <<Line(Expected(pc[r]), 0, None)>>

\* Read a request and answer it.
Serve(r) ==
    /\ up /\ asked[r] = "sent" /\ pc[r] # "barrier"
    /\ asked' = [asked EXCEPT ![r] = "served"]
    /\ lines' = [lines EXCEPT ![r] = @ \o Reply(r)]
    /\ IF pc[r] \in {"ip", "port", "putCached"} /\ PutRc(r) = 0
       THEN kvs' = [kvs EXCEPT ![Space(r)][PutKey(r)] = PutVal(r)]
       ELSE UNCHANGED kvs
    /\ UNCHANGED <<env, pc, processVars, inBarrier, up>>

\* Mutant: the last process is not waited for.
AllButOne(entered) == \A r, s \in Ranks : r \in entered \/ s \in entered \/ r = s

AllEntered(entered) == entered = Ranks

\* Read a barrier_in, and answer all of them when the last one has come.
ServeBarrier(r) ==
    /\ up /\ asked[r] = "sent" /\ pc[r] = "barrier"
    /\ asked' = [asked EXCEPT ![r] = "served"]
    /\ inBarrier' = inBarrier \cup {r}
    /\ lines' = [s \in Ranks |->
                   IF s \in inBarrier' /\ AllEntered(inBarrier')
                   THEN Append(lines[s], Line("barrier_out", 0, None)) ELSE lines[s]]
    /\ UNCHANGED <<env, pc, processVars, kvs, up>>

\* The mpiexec that was forked calls back, and is accepted.
CallBack(r) ==
    /\ up /\ pc[r] = "accept"
    /\ pc' = [pc EXCEPT ![r] = "hello"]
    /\ lines' = [lines EXCEPT ![r] = <<Line("singinit", 0, None)>>]
    /\ UNCHANGED <<env, processVars, asked, managerVars, up>>

\* The manager dies; mpiexec also ends the job when a process dies.
ManagerDies ==
    /\ up
    /\ up' = FALSE
    /\ UNCHANGED <<env, pc, processVars, asked, lines, managerVars>>

\* What a line may be cut to: within the command, or before the values.
Cuts(line) == {Line("", 0, Empty), Line(line.cmd, 0, Empty)}

\* What can be left of the lines a dead manager has written: some of them, the
\* last of which may be cut.
Remains(ls) ==
    {SubSeq(ls, 1, n) : n \in 0 .. Len(ls)}
      \cup UNION {{Append(SubSeq(ls, 1, n - 1), cut) : cut \in Cuts(ls[n])} : n \in DOMAIN ls}

LinesLost(r) ==
    /\ ~up
    /\ \E ls \in Remains(lines[r]) : lines' = [lines EXCEPT ![r] = ls]
    /\ UNCHANGED <<env, pc, processVars, asked, managerVars, up>>
-----------------------------------------------------------------------------
StartStep(r) ==
    \/ NoInterface(r) \/ ConnectFails(r)
    \/ StartFromEnvironment(r) \/ StartFromPort(r) \/ StartAlone(r)

AloneStep(r) == NameAlone(r) \/ PutAlone(r) \/ BarrierAlone(r) \/ Fork(r)

AnswerStep(r) ==
    \/ HandshakeAnswered(r) \/ MaxesAnswered(r) \/ NameAnswered(r) \/ PutAnswered(r)
    \/ BarrierAnswered(r) \/ GetAnswered(r) \/ SinginitAnswered(r) \/ AnswerRefused(r)

\* A step of the program, and one of the manager for a process.
ProcessStep(r) ==
    StartStep(r) \/ AloneStep(r) \/ Ask(r) \/ WriteFails(r) \/ AnswerStep(r) \/ ReadFails(r)

ManagerStep(r) == Serve(r) \/ ServeBarrier(r) \/ CallBack(r)

Next ==
    \/ \E r \in Ranks : ProcessStep(r) \/ ManagerStep(r) \/ LinesLost(r)
    \/ ManagerDies

Spec == Init /\ [][Next]_vars

\* The processes run, the manager serves while it lives, and it does not
\* outlive a process that died.
FairSpec ==
    /\ Spec
    /\ \A r \in Ranks : WF_vars(ProcessStep(r)) /\ WF_vars(ManagerStep(r))
    /\ WF_vars(ManagerDies /\ \E r \in Ranks : pc[r] \in {"aborted", "noInterface"})
-----------------------------------------------------------------------------
TypeOK ==
    /\ env \in Env
    /\ pc \in [Ranks -> Steps]
    /\ state \in [Ranks -> {"uninitialized", "alone", "normal", "promoted"}]
    /\ size \in [Ranks -> Nat]
    /\ rank \in [Ranks -> Nat]
    /\ kvsname \in [Ranks -> {"none", "job", "dummy"}]
    /\ getting \in [Ranks -> Keys]
    /\ table \in [Ranks -> [Keys -> Values]]
    /\ asked \in [Ranks -> {"no", "sent", "served"}]
    /\ kvs \in [Ranks -> [Keys -> Values]]
    /\ inBarrier \subseteq Ranks
    /\ up \in BOOLEAN

\* Whatever is lost, cut or ignored on the way, a process that gets as far as
\* publishing runs under the rank and the size its manager gave it
\* (simple_pmi.c:204 and 1349 ignore the failures of the handshakes).
IdentityKept ==
    \A r \in Ranks :
      env # "alone" /\ pc[r] \in {"ip", "port", "barrier", "get", "ready"} =>
        rank[r] = r /\ size[r] = Size

\* A process that starts to connect has the address every other process
\* published, under the right rank, with one exception: the last line a manager
\* wrote may have been cut, and a cut value is taken for the whole
\* (simple_pmiutil.c:139).
TablesRight ==
    \A r \in Ranks :
      pc[r] = "ready" =>
        LET wrong == {k \in Keys : table[r][k] # Address(k)}
        IN  /\ \A k, l \in wrong : k = l
            /\ \A k \in wrong : ~up /\ k[2] = Size - 1 /\ table[r][k] = Empty

\* No two builder units are told to listen at the same address (main.cpp:127).
EndpointsDistinct ==
    \A r, s, t \in Ranks :
      pc[r] = "ready" /\ s # t /\ (\A k \in Keys : table[r][k] # Empty) =>
        <<table[r][<<"ip", s>>], table[r][<<"port", s>>]>>
          # <<table[r][<<"ip", t>>], table[r][<<"port", t>>]>>

\* PMI_CHECK_STATUS never ends a process of a job whose manager lives
\* (hydra_launcher.cpp:29): nobody reads a key before it was put, or puts one
\* that is there.
AbortOnlyIfManagerLost ==
    \A r \in Ranks : env # "alone" /\ pc[r] = "aborted" => ~up

\* A process that was started without mpiexec never gets its table, though it
\* only needs its own address: only the last put is kept (simple_pmi.c:388), and
\* the name of the space has changed when it is read (simple_pmi.c:346, 1250).
AloneNeverReady == \A r \in Ranks : env = "alone" => pc[r] # "ready"

\* Every process of a job ends up with its table, or ends.
Resolved == env # "alone" => <>(\A r \in Ranks : pc[r] \in Ended)

Exchange == INSTANCE AddressExchange WITH
    published <- {r \in Ranks : env # "alone" /\ \A n \in {"ip", "port"} : kvs[0][<<n, r>>] # None},
    passed <- {r \in Ranks : env # "alone" /\ pc[r] \in {"get", "ready"}}

\* The launcher keeps the promise of AddressExchange: nobody is past the barrier
\* before all addresses can be read (main.cpp:124-131).
ImplementsExchange == Exchange!Spec
=============================================================================
