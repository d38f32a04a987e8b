# A TLA+ model of LSEB

LSEB (`README.md` of the repository) builds events for a particle-physics
experiment: every node reads out one fragment of each event, and each event is
built on one node, which needs its fragment from all the nodes.  This directory
holds a specification of that program in TLA+, model-checked with TLC on small
instances, and theorems about it that TLAPS has proved for every value of the
constants.  File names below are relative to the repository.

## 1. Inventory of the system

One process per node.  Its main thread (`main.cpp`) reads the configuration,
allocates two pieces of memory, connects, and starts two threads that share
nothing but the process: the *Readout Unit* and the *Builder Unit*.  There is a
reliable connection from every readout unit to every builder unit, the local
one included.

| Component | State | Operations | Correct if |
|---|---|---|---|
| Generator (`generator/`) | the layout of the events in the data buffer (fixed by the constructor), two `Buffer`s | constructor, `generateEvents`, `releaseEvents` | the layout fits and is contiguous; the metadata ring never overflows or underflows |
| Controller (`ru/controller.cpp`) | a cursor in the metadata ring, the clock | `read`, `release` | hands out each slot of the ring once per turn |
| Accumulator (`ru/accumulator.cpp`) | two cursors, a count, the deque of multievents lent | `get_multievent`, `release_multievents` | a multievent's memory is not reused while it is lent; whatever order they come back in, the ring keeps turning |
| Readout Unit (`ru/readout_unit.cpp`) | the multievents of the current cycle, the place in its sequence of nodes | `connect`, `run` | node *j* gets multievent *j* of each cycle; never sends without a credit; keeps going |
| Socket (`transport/*/socket.cpp`) | pending sends and receives by address, completion queues | `post_send`, `post_recv`, `poll_completed_*` | at most `CREDITS` messages pending on each side, no address twice |
| Builder Unit (`bu/builder_unit.cpp`) | for each connection, what was received and not built | `connect`, `run` | builds each event of its share once, in order, from fragments of *that* event; posts each receive buffer again exactly once |
| Connection setup (`connector.cpp`, `acceptor.cpp`, the two `connect`) | the map of connections on each side, the backlog of the listener | `connect` with retries, `listen`, `accept`, `register_memory` | ends with one connection per pair, however the nodes start; a failure that is tried again costs no peer its place |
| Hydra launcher (`launcher/hydra_launcher.cpp`) | the name of the key-value space | `initialize`, `set`, `commit`, `barrier`, `get` | nobody reads an address before it is there, or takes a wrong one for right |
| PMI client (`launcher/hydra-simple/`) | size, rank, how it was started, one cached put | handshakes, put, barrier, get, promotion of a process that was started alone | what it ignores does no harm; it never waits for ever |
| Configuration and process (`main.cpp`) | - | sizes, checks, exchange of addresses, threads, timeout | addresses of different nodes differ; the units start when both sides are connected |
| Memory pool and test programs (`common/memory_pool.h`, `test/t_client*.cpp`, `t_server*.cpp`) | free chunks, keys pending in each direction | alloc, free, loops that poll and post | no chunk is lost or used twice; neither direction starves the other |
| Logging, metering, tools | - | - | no influence on the rest |

The life of a node: read the configuration; with Hydra, publish its address, enter
the barrier, read the addresses of all (`Bootstrap`); connect to all builder units
and accept all readout units (`ConnectionSetup`); run both units (`EventBuilder`),
until a timeout or for ever.

Interactions.  In the thread of the readout unit calls go down
Readout Unit → Accumulator → Controller → Generator; the data are never copied:
what is sent is a range of the Generator's data buffer, so its memory must stay
untouched until the send has completed.  Between nodes there are only messages,
with credits at both ends: a sender may have `CREDITS` sends whose completion it
has not polled, a receiver has `CREDITS` buffers posted or waiting to be built.

What is hard here:

* sends to different nodes complete in any order, but a ring can only be freed
  in order;
* every unit walks the nodes in an order of its own (it starts after itself), and
  needs *all* multievents up to the one it sends next: memory that is too small
  for a cycle makes everyone wait for everyone;
* four counters and cursors walk one ring by different strides, and a whole turn
  of it is indistinguishable from none (`range.h:31`, `utility.h:74`);
* the only check that fragments belong together (`builder_unit.cpp:45`) compares
  ids that repeat every `2 * CREDITS + 1` multievents, and only those of the
  oldest fragments;
* the code has many asserts and exceptions and little recovery: each one ends the
  process, and the others wait for it forever;
* the two sides of a connection learn of it at different times: a request may be
  given up while it waits to be accepted, and a connection lost after it was;
* the launcher's client ignores the failure of its handshakes and takes a line that
  was cut for a whole one.

`PROJECT.json` lists the hazards one by one, each at its line and with the
properties that are about it.

## 2. Modules

| Module | Models | Remarks |
|---|---|---|
| `RangeOps` | `common/range.h`: sub-ranges of a ring | pure operators |
| `CircularBuffer` | `common/utility.h`: class template `Buffer` | pure operators, asserts as `CanReserve`, `CanRelease` |
| `StoreOps` | the deque of multievents in `accumulator.cpp` | pure operators, shared by the next three |
| `MultieventStore` | what the Accumulator promises | abstract: a ring of slots, lent in order, returned in any order |
| `Accumulator`, `MCAccumulator` | Accumulator + Controller + Generator over one ring | one action per outcome of each call; implements `MultieventStore` |
| `GeneratorLayout` | the constructor of the Generator, with the LengthGenerator | one step per event laid out |
| `EventBuilding` | what the whole system promises | abstract: fragments read out, events built, bounded distance |
| `EventBuilder`, `MCEventBuilder` | all nodes: both `run` loops, sockets, network | implements `MultieventStore` (for each unit) and `EventBuilding` |
| `AddressExchange` | what the launcher promises `main.cpp` | abstract: nobody is past the barrier before all addresses can be read |
| `Bootstrap`, `MCBootstrap` | the exchange of addresses in `main.cpp`, the launcher, the PMI client, and the process manager as they see it | implements `AddressExchange` |
| `ConnectionSetup` | `ReadoutUnit::connect`, `BuilderUnit::connect`, Connector and Acceptor, the threads of `main.cpp` | a node that is `"running"` is where `EventBuilder` starts |
| `TestPeers` | the two pairs of test programs, the memory pool, the libfabric Socket with its error completions | one process may be killed |
| `DataLemmas` | lemmas on rings, sequences and the deque | |
| `MultieventStoreProofs`, `GeneratorLayoutProofs`, `AccumulatorProofs`, `EventBuilderProofs`, `BootstrapProofs`, `ConnectionSetupProofs`, `TestPeersProofs` | theorems | one module for each component |

They fit together like this.  `GeneratorLayout` establishes what `Accumulator`
assumes of the layout (`LayoutAssumption`, except for the empty events of
section 5).  `Accumulator` implements `MultieventStore`.  `EventBuilder` uses the
same deque operators, with only the slot for each multievent, and shows that each
readout unit uses them as `MultieventStore` allows: the iovecs, events and
cursors below need not be repeated there.  `Bootstrap` ends where a node knows the
addresses of all, which is where `ConnectionSetup` begins; when all nodes run there
(`RunningIsConnected`), every builder unit is connected to every readout unit, with
all its receive buffers posted: `Init` of `EventBuilder`.

### How the code appears in `EventBuilder`

* **One action per loop iteration.** `RunRU(i, k, n)` is a whole iteration of
  `ReadoutUnit::run`: it acquires `k` multievents (however many events the clock
  makes due, up to what the ring has room for and the loop asks for), polls
  `n[j]` completions of each connection, releases them, and sends at most one
  multievent.  `RunBU(j, n)` is an iteration of `BuilderUnit::run`.  The step
  stands for the end of the iteration.  Connections are polled one after the
  other while messages keep arriving, so what an iteration saw of each queue is
  an arbitrary first part of what is in it by then, chosen for each connection on
  its own (`Polls`); nothing else an iteration reads is written by anyone else.
* **Messages are numbers**, the order of acquisition.  The code sees only the
  address, which is the slot of the ring (`Addr`), and the header where the slot
  begins (`Header`: an id and a length, which the Generator of each node wrote once).
  Whatever the code compares is compared through these; properties may use the number
  itself.  A message stands for a multievent, that is `BULKED_EVENTS` fragments.
  `Header` is any function: the Generators of different nodes draw different lengths,
  and with empty events (section 5) the headers of one slot need not agree.
* **Receive buffers** are pending from the post until the completion is polled, as
  in `m_pending_recv`: `PendingRecv` has the posted ones and those that are received
  and lie in the completion queue.  `CanPostRecv` counts and compares all of them.
* **The network** (`Deliver`, `Ack`) is a reliable connected queue pair, as
  `connector.cpp` and `acceptor.cpp` configure it: messages of one connection
  arrive in order, each into the oldest receive buffer; one that finds none waits
  (receiver-not-ready retries are unlimited: `RNR_RETRY_COUNT`); a send
  completes some time after its delivery.
* **Asserts and exceptions** are in force (the build does not define `NDEBUG`):
  a step that would fail one puts its node in `dead`, which then does nothing
  more.  What another node awaits of it may then complete with an error, which ends
  that node too (`CompletesWithError`).  Modelled are `check_data` with both its
  comparisons, the credits and duplicate keys of both posts, error completions, and the
  asserts of the Accumulator and the Readout Unit; failures of the `ibv_*` calls
  themselves are not.
* **Renaming.**  A builder unit numbers its connections in the order it accepted
  them; the model gives them the number of the readout unit at the other end.
  `run` treats them all alike but for connection 0, to whose id it compares the
  others.

In `Accumulator` the clock is the number of events that are due when
`Controller::read` is called, any number; it is taken never to go backwards.
`aborted` is an assert that failed.  In `GeneratorLayout` the normal distribution
yields any value; after the clamping of `LengthGenerator::generate` this is any
length between the two limits, which also covers the undefined conversion of a
negative `double` to `size_t`.

### How the code appears in `Bootstrap`

* **A request is three steps**: the client writes a line (`Ask`), the manager
  serves it (`Serve`, `ServeBarrier`), the client reads the answer (an action for
  each kind, `AnswerRefused`, `ReadFails`).  `pc` is the request the process is at,
  in the order in which `main.cpp:122-131`, the launcher and `PMI_Init` make them.
* **Four ways to start** (`Env`): `PMI_FD`; `PMI_PORT` with `PMI_ID`, where size and
  rank come from a handshake; `PMI_PORT` alone, where they come from the
  environment; none of these, where the process believes to be alone, runs
  everything locally until its first get, and then forks an `mpiexec` of its own.
* **The manager is not part of the repository.**  It is modelled from what the
  client expects of it, and dies at any time (`ManagerDies`); of what it wrote some
  may then be lost, and the last line cut (`LinesLost`): `PMIU_readline` returns
  what it has at the end of the file as if it were a line (`simple_pmiutil.c:139`).
* What the client ignores is in `AfterFailure`: `PMI_Init` does not look at what
  `PMII_getmaxes` returns, nor `getPMIFD` at what `PMII_Set_from_port` returns.
* `commit` changes nothing, in the code and in the model, although a comment
  (`hydra_launcher.cpp:145`, `pmi.h:355`) says a value can not be seen before it.
* The two gets for one rank (`endpoints.h:45`) are evaluated in either order.

### How the code appears in `ConnectionSetup`

* Each node has two threads, at `ru[n]` and `bu[n]`, and a listener whose requests
  wait in `backlog[n]`.  A connection, or the request for one, is the node it comes
  from and the number of the attempt; the code has no such number, and a builder
  unit does not even know the node.
* Every library call may fail.  What the readout unit tries again before a request
  was sent (`ConnectFails`, nobody listens) or because the listener has gone
  (`Rejected`) costs nothing.  The other failures (`TimesOut`, `SetupFails`,
  `RegisterFails`, `Throws`) are counted in `faults`, because each of them can
  cost a node: the other side may have accepted already, or will find the request
  dead.
* `Accept` is the one step both sides take together; then each goes on by itself.
* Both transports fit: `connector.cpp` and `acceptor.cpp` of `verbs` and of
  `libfabric` make the same calls in the same order.

### How the code appears in `TestPeers`

* One action per half of a loop: poll one direction, free what was polled, post one
  chunk.  The pool is a set, from which the last chunk in the buffer is taken: the
  code has a stack, but chunks only differ in their address.
* A poll takes the completions before the first error; an error at the head is
  thrown (`socket.cpp:72` of libfabric).  What is posted to a process that ended
  completes with an error; a receive from it may also never complete.

## 3. Runs

| Run | Instance | Shows |
|---|---|---|
| `store` | 7 slots | `TypeOK`, `HeldInRingOrder` of the abstract ring |
| `layout` | 12 events, `MAX_FRAGMENT_SIZE` 24 | `NoAssertFails`, `EventsFollow`, `HeadersFit`: the layout fits for all lengths |
| `empty_event` | 6 events, `MAX_FRAGMENT_SIZE` 96 | a finding, see section 5 |
| `accumulator` | 10 events in 5 slots, 4 of which can be lent | `NoAssertFails`, `EventsAccountedFor`, `LentMemoryDisjoint`, `ImplementsStore`, and with fairness `EverySlotReused` |
| `event_builder` | 2 nodes, 1 credit, 3 cycles, headers that match | six invariants of `EventBuilder`, both refinements, and with fairness `EveryEventBuilt` |
| `credits` | 2 nodes, 2 credits, 2 cycles, headers of two slots that do not match | `EndsOnlyByHeader`, `CheckedBuilds`: several messages in flight, several events built at once, and what empty events do to the system |
| `wall` | 3 nodes, 1 credit, 2 cycles | `CapacityWall`: what is reached when a cycle does not fit in the ring |
| `stall` | 3 nodes, 1 credit, 1 cycle | a finding, see section 5 |
| `bootstrap` | 2 processes on one host, all four ways to start | `IdentityKept`, `TablesRight`, `EndpointsDistinct`, `AbortOnlyIfManagerLost`, `AloneNeverReady`, `ImplementsExchange`, and with fairness `Resolved` |
| `setup` | 2 nodes, 2 faults | `TypeOK`, `EachNodeOnce`, `EndsNeedFault`, `RunningIsConnected`, and with fairness `AllRun` |
| `already_present` | 2 nodes, 1 fault | a finding, see section 5 |
| `peers` | 2 credits, one way and both ways | `ChunksConserved`, `ThrowsOnlyAlone`, `NeitherStarves`, and with fairness `SendsCompleteOrEnds` |

**Bounds.**  `MaxCycles` is the only bound of `EventBuilder`: a readout unit
acquires no multievent of a later cycle.  All else (the ring, the queues, the
number of messages in flight) is bounded by the code itself, and the invariants
say so.

* `event_builder`: six multievents per unit in a ring of three slots, so every
  slot is used twice, the ring is full at times, ids repeat, and with a single
  receive buffer per connection messages have to wait.
* `credits`: two messages in flight per connection, completions polled in parts,
  and `min_wrs` up to 2, so more than one fragment is erased, and more than one
  buffer is posted again, in one iteration.  The ring (five slots) does not turn
  here; the other run is for that.  One slot has a wrong id on one node, another one a
  length of 0 on the other node, so each of the two comparisons of `check_data` is the
  one that fails in some behaviour; the other slots match, so events are built
  before and after the first process ends, and what awaits an ended process fails or not.
* `accumulator`: two events in a multievent, so one can be left over between
  calls; five multievents, so the deque has inner elements, and slot boundaries do
  not coincide with any cursor's wraparound.  Sizes differ between events.
* `layout`: with 24 bytes per event there is no payload to plan for, so lengths
  are limited by the mean only: of all accepted configurations it is the one in
  which the lengths drawn can exceed the memory and the fallback to a mere header
  (`generator.cpp:38`) is taken.  Wherever a maximum payload is in force each
  event fits in its share.
* `store`: capacity 6 is that of three credits.
* `bootstrap`: two processes on one host are what it takes for one to be ahead of
  the other at the barrier, and for their ports to be able to collide.  A get of the
  first process can meet a put of the second one that is not there yet; the manager
  may die before, between and after any of the requests.
* `setup`: with two nodes each thread meets its own node and another one, in both
  orders.  Two faults let one side lose a connection and the other one end.  The
  number of attempts is bounded by them: without a fault no request is sent twice.
* `peers`: with two credits a poll may return more than the one chunk that is posted
  after it, which is what could let one direction take the chunks of the other.

`CHECK_DEADLOCK` is off where the system really may stop: the constructor ends
(`layout`, `empty_event`), processes end or are all ready (`bootstrap`), nodes end
after a fault (`setup`, `already_present`) or after headers that do not match
(`credits`), and both test programs may end (`peers`).

**Fairness.**  `EventBuilder!FairSpec`: every thread keeps iterating (`while
(true)`, no blocking call), the network keeps moving, and the clock keeps making
events due, so of what can be acquired some is.  An iteration can miss what
arrives while it runs; since finitely much arrives in all (`MaxCycles`), those
that miss nothing recur.  `Accumulator!FairSpec`: the readout unit keeps asking,
events become due, and every send completes.  Nothing is assumed of the order of
iterations, deliveries and completions.

`Bootstrap!FairSpec`: processes run, the manager serves while it lives, and does
not outlive a process that died (`mpiexec` ends the job).  `ConnectionSetup!FairSpec`:
both threads and main run; the strong fairness of `Request` says that of the
attempts to connect to a node that listens, again and again, one gets through.
Without that nothing can be said of a loop that tries for ever.  No failure is ever
assumed to happen.  `TestPeers!FairSpec`: the processes run, the network moves
messages and tells a sender that its peer is gone; that a receiver is told is not
assumed, since the transport does not promise it.

**Properties.**

* `NoReuseInFlight` (with `HeldInRingOrder` and, in bytes, `LentMemoryDisjoint`):
  the memory of a send that may still be read by the network is not lent again.
* `FragmentsAligned`: the fragments in the same place of all queues of a builder
  unit have the same number, although only the ids of the first ones are compared
  and ids repeat.
* `CreditsKept`, `ReceiveBuffersKept`: nothing is posted beyond the credits, no
  receive buffer is lost or posted twice.
* `EndsOnlyByHeader`: whatever the headers, a process ends in its loops only because
  `check_data` fails, or after another one did.  No credit is ever missing, no key
  pending twice, and no assert false.
* `NoFailure`: if the headers of each slot match on all nodes (`HeadersMatch`), no
  process ends.  `HeadersKept` says when they keep their place in the layout.
* `CheckedBuilds`: the first event that an iteration builds is one whose headers match:
  `check_data` sees fragments of one multievent.  It says nothing of those behind it.
* `ImplementsStore`, `ImplementsEventBuilding`: each unit uses its memory as the
  abstract ring allows, and the system as a whole builds each event once and in
  order, with a bounded distance between readout and building.
* `EverySlotReused`, `EveryEventBuilt`: everything that is read out is built in
  the end, and the ring keeps turning.
* `IdentityKept`, `TablesRight`, `EndpointsDistinct`: whatever is lost, cut or
  ignored, a node that begins to connect has the right number and the right table,
  but for a cut last value: the one place where a cut line is not noticed.
* `AbortOnlyIfManagerLost`, `ImplementsExchange`, `Resolved`: nobody reads too
  early, and nobody waits for ever for a manager that is gone.
* `EachNodeOnce`, `RunningIsConnected`, `EndsNeedFault`, `AllRun`: a builder unit
  counts connections, not nodes; as long as nothing is lost after it was accepted
  the two are the same, and even after that a node that runs is connected to all.
* `ChunksConserved`, `NeitherStarves`, `SendsCompleteOrEnds`, `ThrowsOnlyAlone`: a
  chunk is in one place, the two directions share one pool without starving each
  other, and a sender notices that its peer is gone.
* `EventsAccountedFor`: what the `Buffer` counts as in use is what is left over
  plus what is lent, so no cursor laps another.

Each property of a passing run has a mutant in `PROJECT.json`: a definition
changed as a plausible bug would change the code (`Mutant:` in the modules), with
which TLC finds the property violated.

One observation: with two or more nodes the sender's credits never stop a send.
A unit that has `CREDITS` sends pending to one node would have to hold
`CREDITS * NumNodes + 1` multievents to want another one, and the ring has room for
`2 * CREDITS` only; the limit that holds a readout unit back is the ring.

## 4. Theorems

Proved by TLAPS for every number of nodes, credits and cycles, and for all values of
the other constants that the `ASSUME`s of the modules allow, from no other assumption.
The `ASSUME`s are the conditions `main.cpp` and the constructors check, plus these,
which nothing in the code checks: sizes do not overflow, no two ranks of a host are a multiple
of `RANGE` apart (`PlacementAssumption` of `Bootstrap`), and no event is empty
(`LayoutAssumption` of `Accumulator`).

**`MultieventStoreProofs`.**  `StoreInvariant`: `TypeOK`, `HeldInRingOrder` and
`FrontInUse` (the oldest slot lent is still in use) are inductive together.  `HeldInRingOrder` says that the *p*-th entry
of the deque is the slot `Len(held) + 1 - p` before the next one; lending appends
consecutive slots (`LentInRingOrder`, which needs `RingShift`), marking changes
no address (`MarkKeeps`), and dropping the front keeps the distance to the next
slot of all that stay (`DropReleasedKeeps`).  `StoreTypeCorrect`,
`HeldSlotsInRingOrder` and `OldestInUse` state the three parts one by one.

**`GeneratorLayoutProofs`.**  `LayoutInvariant`, and from it `LayoutTypeCorrect`, `LayoutNeverFails`,
`LayoutContiguous`, `HeadersInsideBuffer` and `HeadersKept`.  That the reservations succeed does not
follow from the invariants that are checked: the strengthening is
`RoomForHeaders`, that from the current offset on there is room for the headers of
all slots not yet written, and that the offset is a multiple of 8.  The condition
in `EventSize` is exactly what keeps it.  `HeadersKept` has a hypothesis on the
constants, that no payload below 8 bytes can be drawn: then no event is empty
(`HeadersFit`), an event lies behind all earlier ones (`OffsetsGrow`), and no header is
written over.  Without it the run `empty_event` refutes the conclusion.

**`AccumulatorProofs`.**  `RingInvariant`, and from it `AccumulatorTypes`,
`AccumulatorNeverAborts`, `EventsAccounted`, `LentMemoryApart` and
`AccumulatorUsesStore`, for every number of credits, every number of events in a
multievent and every layout in which the events follow each other
(`LayoutAssumption`; `LayoutContiguous` proves of the constructor that they do, and section 5
has the one exception, empty events).  None of what is checked is inductive:
the asserts of `Buffer` compare counts, those of the Accumulator addresses, and each
only holds because of the others.  `RingInv` adds where everything is.
`CursorsInRing`: the next event to lend is the first of a slot; the Controller is at
the write cursor of the `Buffer`, the events left over after it; the release cursor
is at the read cursor, as many slots before it as the deque is long.  `LentInRing`: the
deque holds these slots in order, at the addresses the layout gives, and
at most `2 * Credits` of them, which leaves the slot that tells a full ring from an
empty one.  `FrontInUse`: its front was not given back.  With that, an assert is arithmetic
on a ring (`RingPlus`, `RingRange` and the others of `DataLemmas`), and that no byte is
lent twice follows from the slots being different, through the layout.  The
refinement adds only the mapping: an address stands for its slot, and in a ring that
is never full it stands for one entry of the deque.

**`TestPeersProofs`.**  `PeersInvariant`, and from it `ChunksAreConserved`,
`ThrownOnlyAlone` and the action property `NoneStarves`, for every number of credits
and both pairs of programs.  That nothing is thrown depends on all parts at once: a
poll throws if a key is not pending, so what is completed or with the network must be
pending and all different (`KeysApart`), and a post throws if its key is, so
the pool and the pending keys must be disjoint (`ChunksApart`), within the credits
(`PollFacts`, `PostFacts`).  Errors come only from the end of the other process
(`ErrorsAlone`).  Before the loop nothing is sent (`NothingSentYet`): that is why
there is a chunk for each of the receives posted in advance, which are counted and
do not ask for one (`t_server2.cpp:74`).  `NoneStarves` needs only that a poll that empties a
direction gives back a chunk and a credit to the post that follows it.

**`EventBuilderProofs`, the stream.**  `StreamInvariant`, and from it `TypeCorrect`,
`CreditsAreKept` and `FragmentsAreAligned`.  The strengthening follows one
connection from end to end: what unit *i* has sent to unit *j* and *j* has not
built is, in order, `dataVect`, `recvCQ` and `wire`, and the *p*-th of them is the
multievent *j* of cycle `built[j] + p - 1` (`Stream`).  It needs that the
multievents of the current cycle are numbered by their place (`IovNumbered`), and
how many were sent, which depends on the place of *j* in the sequence of *i*
(`Sent`, `PosOf`; `IdSequencePermutes`).  The proof is one lemma per action.  The
theorem holds whatever a thread polls, whatever the headers are, and whether the ring
has room or not: it does not use that no process fails.

**`EventBuilderProofs`, safety.**  `SafeInvariant`, and from it `EndsByHeaders`,
`NoProcessFails`, `NeverReusedInFlight`, `BuffersAreKept` and `WallAtCapacity`.  None of these is
inductive; the invariant is `SafeInv`, the one above with the following parts.

* `AckedNumbered`: the completions of a connection, polled or not, are
  consecutive multievents of the destination.  The oldest one that was not
  polled is `FirstOut(i, j)`.
* `HeldNumbered`: the deque holds the multievents from `Oldest(i)` to the last one
  acquired, in this order, each with the slot its number gives.
* `OutstandingHeld`: what has not come back (from `FirstOut(i, j)` on, sent or not)
  is in the deque and not marked.
* `CycleBounded`: no cycle has more multievents than nodes, and all that was sent of
  it was acquired.
* `BuffersOnce`: the buffers posted, waiting to be built and received make one
  sequence in which each occurs once.  A delivery rotates it, an iteration of the
  builder unit leaves it as it is.

* `EndsOnlyByHeader`, which is needed of the processes that ended already.

`EndsByHeaders` is that a readout unit never fails (`RunRUNoFailure`), and a builder unit only
in `check_data` (`RunBUEnds`): what is pending after a poll, `PendingRecv`, is the
sequence of all buffers of the connection without those read and waiting to be built,
and what is posted again is among these, so that neither a credit is missing nor a key
there twice.  `NoProcessFails` follows with `HeadersMatch`: the fragments `check_data` compares are
of one multievent (`FrontNumbered`), so they are of one slot, and there the headers match.
`BuildsAreChecked` follows in the same way from the other side: what `check_data` let
pass is the first multievent that is built.

The argument for the readout unit and for `NoReuseInFlight` is this.  The numbers in the
deque fit in a window that is smaller than the ring, so different numbers there have
different slots (`WindowInjective`, from `AddrInjective`).  Hence the
`find_if` of `accumulator.cpp:115` finds for a completion the entry it is about, it
is not marked yet (`CanMarkCompleted`), and a slot that is lent anew belongs to
nothing outstanding.  For `WallAtCapacity` one more invariant says that multievent 0
is never sent (`FirstNeverSent`); so it stays in the deque, nothing behind it is
dropped, and no more than `Capacity` are ever acquired.

The same module has the refinements.  `UsesStore` is `ImplementsStore`: an iteration of a
readout unit is a step of `MultieventStore` and all other actions stutter
(`StoreStep`; the position of the cursor follows from the numbers, `AddrPlus`).
`BuildsEvents` is `ImplementsEventBuilding`: what is erased is one fragment of each
unit, of the same events, the next ones in order (`WholeBuild`), and readout never
gets further ahead than the credits at both ends allow (`OldestBounded`).

So all invariants and both refinements of `EventBuilder` hold for any number of
nodes and credits, and for any number of cycles.

**`BootstrapProofs`.**  `BootInvariant`, and from it `JobIdentityKept`,
`ReadyTablesRight`, `ReadyEndpointsDistinct`, `JobAbortsOnlyIfManagerLost`,
`NeverReadyAlone` and `BootstrapExchanges`, for every number of processes, every
placement on hosts and every way to start.  What is checked speaks of the end (a
table, an abort); the invariant follows each process on its way there.

* `LeftOf`, `Due`: what a process of a job has not read is what its manager owes it at
  the place it is at, or, when the manager is dead, a first part of that whose last line
  may be cut.  So an answer is the expected one, or a cut of it that nothing follows
  (`Heard`): a request of a job fails only when the manager is dead and nothing is left
  to read (`JobFails`), and of the values a process reads only the last can be wrong.
* `IdentityFollows`: the client ignores that its handshake failed, but then nothing is
  left to read (`Lost`), and the next request fails: it can not publish.
* `PutsInTurn`: a key is in the space exactly from the moment its owner's put was
  served, so no put is refused.  `WaitsForAll`: who is in the barrier has put
  both; who is past it finds everybody there, so no get is refused.
* `ReadInOrder`: the table is read in the order of the ranks, which is why a cut value,
  after which nothing can be read, can only be in the last entry of the last rank.
* `AloneInv`: a process that was started alone asks for nothing before the manager it
  forked has accepted it, and then gets no value from it, whole, because the name of
  the space is not the manager's; and a cut one ends what can be read, while it wants two.

`ReadyEndpointsDistinct` uses `PlacementAssumption`: the processes of a host differ
modulo `NETWORK.RANGE`.  For `BootstrapExchanges` the addresses published are
the keys of the space, those past the barrier are the live ones at `get` or beyond, and
a step of one process, or of the manager for one, publishes one address, lets one
process pass, or ends it.

**`ConnectionSetupProofs`.**  `SetupInvariant`, and from it `SetupTypeCorrect`,
`OnceEach`, `NoEndWithoutFault` and `RunsConnected`, for every number of nodes and
of faults.  What is checked is not inductive; the invariant has four more parts.
`Places` ties the counters to the places of the threads.  `Requests` says that a
request that is still awaited waits at the node its sender is at.  `Past` and
`Matched` follow a connection: a readout unit keeps one to every node it is past,
and what it keeps was accepted there (`SeqIdPermutes` makes "every node it is past"
all nodes in the end).  `Undisturbed` is about the time before the first fault: each
request is awaited, none is in a backlog twice, and a builder unit has no connection
the readout unit has not made, which is why `accept` never meets a request that was
given up and `emplace` never an entry.

**Only model-checked** are the liveness properties `EverySlotReused`,
`EveryEventBuilt`, `AllRun`, `Resolved` and `SendsCompleteOrEnds`, which TLAPS cannot
prove: it has no rules for fairness and `ENABLED`.  All invariants, refinements and
action properties of the passing runs are theorems.  Nothing is proved by induction
over data.

## 5. Findings

**A cycle that does not fit in the ring (`stall`).**  A readout unit has to
acquire the multievents `0 .. j` of a cycle before it sends multievent `j`
(`readout_unit.cpp:86`, `120`).  All units but the last begin with a node other
than 0 and come to node 0 only after the last node, so they hold a whole cycle
before multievent 0 is sent.  `main.cpp:183` sizes the ring for `2 * CREDITS + 1`
multievents, of which `2 * CREDITS` can be held.  With more nodes than that
nothing moves any more; `main.cpp:176` accepts any number of credits from 1 on.
`configuration.json` has 20 credits, so this takes 41 nodes; `README.md:8` speaks
of hundreds.  `CapacityWall` describes the state in which such a system stays.  The
liveness run therefore has no more nodes than `2 * CREDITS`.

**Empty events (`empty_event`).**  A length below 8 bytes, which `STD_DEV > 0`
makes possible, gives a size that is rounded down to 0 (`generator.cpp:34-36`).
The header of that event is overwritten by the next one's, and a fragment that
begins with such an event shows a wrong id to `check_data`; or, if it is the last of
the ring, whose header nothing overwrites, a length of 0.  What follows for the system is the
run `credits`: a builder unit that has it at the front ends with its process, and
those that wait for that one may end after it (`EndsOnlyByHeader`).  Behind the front, when
several events are ready in one iteration, it is built unseen (`CheckedBuilds`).  If no payload below 8 bytes can be drawn (`STD_DEV` 0 and a
`MEAN` of at least 8) no header is overwritten (`HeadersKept`).

**A connection made twice (`already_present`).**  The loop of
`readout_unit.cpp:39-50` tries `connect`, `emplace` and `register_memory` again
after any exception.  If `register_memory` throws, the entry stays, the builder unit
accepts a second connection as if it came from another node, and the assert of line
43 ends the process.

Smaller things that were met on the way, none of which a run is about:

* `PMI_KVS_Get` takes an answer without `rc` for a success; `PMI_CHECK_STATUS`
  indexes its table of messages with the negative status (`hydra_launcher.cpp:29`).
* A process without a manager can only fail (`AloneNeverReady`): one cached put, and
  the dummy name of a space that is not the one it is read from.  If `execvp` fails
  in the child it forked, the child goes on as the program, and the parent waits in
  `accept` for ever.
* After a fault a builder unit may have counted a connection that is dead; the
  readout unit that made it then tries for ever, because the listener is gone.  That
  is why `AllRun` says "or a fault".
* A node may begin to send before its peer has posted its receive buffers; the
  unlimited receiver-not-ready retry covers it.
* `Acceptor::listen` of `verbs` destroys its endpoint on an error, and the
  destructor does so again.
* The timeout of `main.cpp` ends the process by `std::terminate` (`TimeIsUp`).
* In the one-way test programs the server only receives, and may never notice that
  the client is gone.
* `memory_pool.h:25` does not end with a chunk size of 0.

## 6. Not modelled

* **Logging** (`log/`): a flag under a mutex in front of Boost.Log, and
  **metering**: statistics that nothing reads back.  **Unit tests and tools**:
  stand-alone programs.
* **The PMI client beyond what the launcher calls**: `PMI_Finalize` (nobody calls
  `finalize`), the name service, `PMI_Spawn_multiple`, the universe size and the
  application number; what the promoted process forwards of its standard streams.
* **In `EventBuilder`** a process ends by what its own loops do, or after another one
  that did; none is killed from outside (in `TestPeers` one is).  Failures of the `ibv_*` calls
  themselves and of `find_mr`, and the asynchronous events of a connection, are left out.
* **Empty multievents**: `EventBuilder` has headers of empty events, but takes each
  multievent to have some bytes, or two slots would have one address; and `Accumulator`
  takes each event to have some.
* **Ports that collide** (`main.cpp:127`): the ranks of a host are taken not to be a multiple of
  `RANGE` apart.  `EndpointsDistinct` says that then no endpoints collide; nothing in
  the code sees to the condition.
* **A process manager that breaks the protocol**: it may die, and what it wrote be lost or
  cut, at any time, but what it says is right.
* **32-bit sizes**: the products of `main.cpp:184` and `builder_unit.cpp:28` are
  assumed to fit.
* **The clock**: it is never set back (`controller.cpp:32` asserts that).
* **Parsing** of options and of the configuration.
* `accumulate_in_range` and `select_randomly`, which nothing calls, and `iovec_length`,
  whose sums are for the log.

Left to do: sizes of 32 bits.
