# Formal models of the PulsarOS network stack

TLA+ specifications of the user-space network stack in this repository: what
its threads, tables and protocols do, checked by TLC on small instances, and
theorems about them that TLAPS proves for every instance. `PROJECT.json` maps
each definition to the lines it models and lists the runs, the mutants (bugs
planted on purpose, each of which must break the property it names), the
hazards and the theorems. Paths below are relative to the repository.

## The system

One process runs three threads.

* The **worker** owns the packet plane (`app_runtime`): ports, the packet
  graph, sockets, neighbours, the published configuration. Its loop
  (`src/main.c`) executes requests of applications (`daemon_progress`), then at
  most one job of the administrator (`admin_progress`), then one burst of packets
  and the timers (`app_step`).
* The **application control thread** (`src/daemon/control.c`) owns the Unix
  socket of the applications, their sessions and their handle tables.
* The **management control thread** (`src/admin_control.c`) owns the
  administrator's socket and connections.

Between applications and worker there are two single-producer single-consumer
rings and an eventfd; between management and worker there is one mailbox.
Configuration is a chain of immutable snapshots.

### Inventory

| part | state | operations | what is hard |
|---|---|---|---|
| rings (`src/daemon/queue.c`) | two wrapping atomic indices, slots | push, pop, room | a slot reused while it is read; full and empty after a wrap; a room check that is stale when used |
| application control (`src/daemon/control.c`) | sessions, handles, identities, flags | accept, read, submit, collect, write, disconnect, stop | answers for dead or reused slots, cleanup racing an outstanding request, a lost wakeup, shutdown that waits for the worker |
| dispatch (`src/daemon/dispatch.c`) | socket owners | every IPC operation, cleanup | a response that finds no room; sockets nobody can close |
| TCP (`src/tcp*.c`) | connection entries, listener, timers | open, accept, close, send, receive, input, tick | loss, duplication, reordering, old incarnations, zero windows, wrapping numbers, slots without a timer |
| packet graph (`src/graph.c`, `src/nodes/`) | frame slots, queue, outputs, mbufs | submit, enqueue, flush, run of each node | exhausted pool, frame reuse while it is read, double free, order, termination |
| neighbour table (`src/neighbour.c`) | open-addressed table | learn, look up, set, delete, flush | broken probe chains after deletions that wrap; a flush that moves what it scans |
| neighbour resolution (`src/neighbour_resolution.c`) | pending entries, parked packets | park, release, tick, cancel | re-entrance through the graph, errors parked by the tick itself, unsigned time, packets that stay |
| management (`src/admin_control.c`, `src/admin_worker.c`) | mailbox, connections, snapshots | read, change (two jobs), hardware job, events, stop | a client that leaves with its job in flight, stale snapshots, a snapshot freed twice or in use, starvation, stop with a job in flight |
| events (`src/network_events.c`, `events` of `src/admin_control.c`) | numbered ring, position of each subscriber | emit, copy, tell | losses that nobody is told of, a filter that leaves nothing to tell, a message still being sent |
| socket table, ports (`src/socket.c`) | entries, generations, next port | allocate, bind, connect, listen, accept, deliver, close | stale handles, wrapping generations and ports, two sockets for one packet |
| UDP, ICMP errors (`src/udp.c`, `src/icmp_error.c`) | receive ring, token bucket | deliver, receive, send; rate limit | truth of the send result, clock arithmetic |
| addresses, routes, rules (`src/net_config.c`, `src/admin_state.c`, `src/policy_route.c`) | immutable snapshot with an index | every change, activation, lookup | index against definition, gateways left behind, an address taken from a bound socket |
| packet filter (`src/net_config.c`, `src/admin_state.c`) | rules in order, counters by position | every change, activation, classification | counters that stay with the position instead of the rule |
| client library (`src/client.c`) | one session per process | session, request with deadline, batches | late replies, ids used again, fork, sockets of abandoned calls |
| text and wire formats, start-up, statistics | none shared | parse, print, initialise | I/O and conversions only |

## Modules

| module | models | extends / instantiates |
|---|---|---|
| `BoundedFifo` | what a ring promises | |
| `SpscQueue` | `src/daemon/queue.c` | implements `BoundedFifo` |
| `DaemonSession` | `src/daemon/control.c`, `src/daemon/dispatch.c` and the ownership of sockets | uses FIFOs for the rings |
| `TcpConnection` | `src/tcp.c`, `src/tcp_output.c`, `src/tcp_timer.c` | |
| `PacketGraph` | `src/graph.c`, the nodes, the ways into the graph | |
| `NeighbourMap` | what the neighbour table promises | |
| `NeighbourTable` | `src/neighbour.c`, flush of `src/admin_worker.c` | implements `NeighbourMap` |
| `NeighbourPending` | `src/neighbour_resolution.c` | uses the table as a bounded set of keys |
| `AdminMailbox` | `src/admin_control.c`, `src/admin_worker.c`, snapshots | |
| `EventRing` | `src/network_events.c`, `events` and subscription of `src/admin_control.c` | the mailbox of `AdminMailbox`, reduced to its owner |
| `ClientLibrary` | `src/client.c` | the daemon as the library sees it |
| `SocketTable` | `src/socket.c`, with the parts of `src/udp.c` and `src/tcp.c` that use the table | |
| `RouteConfig` | addresses, routes and rules: `src/net_config.c`, `src/admin_state.c`, `src/policy_route.c`, `src/net_prefix.c` | |
| `AccessList` | the packet filter of `src/net_config.c` and `src/admin_state.c` | |
| `IcmpRate` | the token bucket of `src/icmp_error.c` | |
| `ModularArithmetic` | lemmas on `%` and `\div` for the proofs | |
| `IpcProofs` | theorems about the ring and the client library | `SpscQueue`, `ClientLibrary`, `ModularArithmetic` |
| `DaemonSessionProofs` | theorems about sessions, messages and descriptors | `DaemonSession` |
| `AdminMailboxProofs` | theorems about the mailbox and the snapshots | `AdminMailbox` |
| `TablesProofs` | theorems about sockets, ports, handles and the token bucket | `SocketTable`, `IcmpRate`, `ModularArithmetic` |
| `ConfigProofs` | theorems about bound addresses and the filter's counters | `RouteConfig`, `AccessList` |
| `TcpConnectionProofs` | theorems about flight, buffers and timers | `TcpConnection`, `ModularArithmetic` |
| `NeighbourPendingProofs` | theorems about parked packets | `NeighbourPending` |
| `MCIpc` | `SpscQueue`, `ClientLibrary` and `EventRing` for TLC | |
| `MCTables` | `SocketTable`, `RouteConfig`, `AccessList` and `IcmpRate` for TLC | |
| other `MC*` | instances for TLC, symmetry sets | the module named |

`BoundedFifo` and `NeighbourMap` are the interfaces along which the models are
composed: `DaemonSession` uses sequences with the FIFO's rules where the code
uses rings, `NeighbourPending` a bounded set of keys where the code uses the
table; that the implementations keep these promises is checked (and for the
ring proved) separately.

`MCIpc` and `MCTables` check components that share no state in one run: the variable
`part` says which of them a behaviour runs, and the others stay as they start.

### SpscQueue

`write`, `read` and `entries` are the fields of `struct daemon_queue`. The
indices count modulo `Wrap` (2^32 in the code), a slot is the index modulo
`Size`. A push loads both indices and tests for room (`PushFull`,
`PushBegin`), copies the item one word per step (`PushWord`) and publishes it
with the store of `write` (`PushPublish`); a pop is symmetric.
Acquire and release make the other thread's copy visible with the index, so a
step sees memory as the interleaving semantics has it; what the memory order
could break is the order of these steps, and that is what the steps are.

### DaemonSession

The control thread goes through `control_run` with a program counter `cpc`:
drain the eventfd, collect responses, load `stopping`, visit each session
(`Visit`, `Submit*`), poll, accept, serve each polled client. The worker goes
through `daemon_progress` with `wpc`: pop while there is room, execute, respond,
and notify. Handles of a client map to socket slots; the generation inside a
descriptor is taken to wrap at once, the worst case, so that a stale handle
would hit the next socket of the slot. `Disconnect` resets the fields of a dead session
that no code reads before `accept_client` writes them again. Sockets are free, open, listening, or
queued on a listener; TCP may free or queue them at any time
(`PassiveOpen`, `TransportEnds`). A frame is read or written in one step.
`ClientsFitQueue` and `SocketsFitHandles` state the relation of the code's
limits (64 clients and 64 slots; at most 256 sockets and 256 handles).

### TcpConnection

Both ends run the code. `conn[e]` is the socket entry; `net` is the set of all
segments ever sent, any of which may arrive at any time, again or never, so that
loss, delay, reordering and duplication are all present. Timers are armed or
not, and an armed one may fire at any time, which contains every behaviour of
the clock. Each branch of `tcp_input` is an action. A byte carries the
incarnation and position it was sent with. The history variables `sent` and
`received` are used by properties and to number bytes.

### PacketGraph

A step is one `node_enqueue` with what its caller does around it. A node may take
every edge its code has for a packet; the headers that select the edge are
abstracted. The frame pool, the queue, the output's pending slots and the
ownership of every mbuf are exact. Free mbufs are alike, so the first free one is
handed out. The history variables `joined` (the order in which the packets of this
submission came) and `trail` (the nodes they went through) serve `InOrder`. `FlushFull` and `FlushAll` keep the branch for
a full ring; `OwnedOnce` shows that it cannot be taken, because the ring has
as many places as there are slots.

### NeighbourTable, NeighbourPending

`call` is the last operation, its argument and its result, by which `NeighbourMap`
judges it. `home` is any assignment of keys to home slots, chosen in `Init`, so that all
hash functions are covered. `Closing` is the loop of `neighbour_delete`, written
as a recursive function.
In `NeighbourPending` the worker alternates between the administrator (`idle`),
a burst (`graph`) and the tick. Time is what
`now - last_request` will yield: `fresh`, `due`, or `ahead` for an entry made
while the tick was running, whose request time is later than the tick's clock,
so that the unsigned difference is huge.

### AdminMailbox

`state` is the ownership word of the mailbox. The control thread goes through
`run` with `pc`; the worker takes one step per job. `heap` holds the allocated
snapshots, each a generation and the list of changes that made it, so that
"freed twice", "used after free" and "told the wrong generation" can be stated.
Changes are numbered in the order of the requests.

### EventRing

The worker numbers events and keeps the last `RingSize`; every job, whoever asked for
it, brings a copy of the ring back (`Capture`), and `Complete` tells each subscriber
what is new, unless its last message is still being sent. `lost` goes with the first
record, or alone when the filter leaves none. A message holds all records of a copy: 128
of them stay well below `ADMIN_RESPONSE_MAX`. `emitted`, `told` and `since` are history
for the property.

### ClientLibrary

`client` is the static structure of each process, `call` the `request()` under way, `wire`
the connections. A process may fork between calls; the child has the structure and the
descriptor. `Begin`, `WriteRequest` and `Take` are a request, `Broken` what follows
anything unexpected, `Deadline` the end of its time, which may come at any point.
"socket" stands for the calls whose answer is only checked for its id and its sign
(`ps_bind`, `ps_connect`, `ps_listen`, `ps_accept`, `ps_close` are the same to the
library). The daemon answers late or never and may exceed what was asked for, since the
library checks it. Ids are counted modulo `Ids`. Assumed: the process number of a dead
parent is not given to a descendant that still has the parent's structure.

### SocketTable

Entries with handle, binding, peer and the states of a stream that the table depends on;
the established and closing ones are one (`UP`). A handle is
`generation * SocketMax + slot + 1`, and `NextGeneration` wraps below `IntMax`.
`Bindings` is `socket_bind`, with the search for a port from `next_port` on. `issued`
(handles given out) and `held` (handles applications may use) are history. Queued
datagrams are counted; `TcpConnection` has what happens to streams, `PacketGraph` what
happens to sent datagrams.

### RouteConfig, AccessList

The control thread builds a candidate from a copy (`Propose`, `ProposeAcl`) and the worker
activates or refuses it later; in between it binds and closes sockets and counts packets.
Addresses are numbers of `Width` bits, so that masks are `%`. `TableLookup` has both
searches of `table_lookup`: the loop over all routes, and above two routes the index with
its binary search. `Meant` is the definition they are compared with: of the first policy
that has an answer, the usable route with the longest prefix. In `AccessList` a rule tests
a protocol and a range of ports; the other tests have the same form and no state.

### IcmpRate

The bucket of `take_token` and its place in `icmp_send_error`: a packet that must not be
answered costs nothing, a failure after the bucket does. The clock advances by any amount
between calls; `granted` is history.

## Runs

Times are for two cores. A run marked † does not check deadlock because the
system may stop there: a service that was told to stop ends, and applications
that have sent all they may are done. The other runs check it.

| run | instance | distinct states | shows |
|---|---|---|---|
| `ipc` † | ring: 2 slots, counters modulo 4, items of 2 words; client: 2 processes, 2 connections, 3 requests, ids modulo 3; events: ring of 2, 3 events, 1 subscriber | 104 270 | room that was seen stays and the ring implements the FIFO; calls return their own answers and in time, abandoned sockets go; every event is told or counted as lost |
| `tables` † | sockets: 3 slots, 2 ports, 2 addresses, handles up to 7, 4 allocations; routes: 3-bit addresses, 2 interfaces, up to 5 routes in 2 tables, 2 rules; filter: 4 rules, list of 3, 3 packets; bucket of 2, interval of 3 ticks, 12 ticks | 262 363 | handles name their sockets, a packet means one socket, a free port is found; the longest prefix wins, next hops are reachable, bound addresses stay; counters follow their rules; the rate is kept |
| `one_slot` † | 1 client slot, 2 sessions in turn, 2 sockets, all operations | 553 350 | handles name the session's own sockets, no socket is left without an owner or a listener, answers fit |
| `two_clients` † | 2 clients, 1 socket, rings of 2 | 987 313 | one outstanding request each, identities name the session, no lost wakeup |
| `daemon_live` † | 1 client slot, 2 sessions | 26 427 | sessions end, stop completes and leaves nothing |
| `tcp_window` † | client sends 2 bytes in segments of up to 2, buffers of 2 | 206 851 | exact stream, end of file only after all bytes, partial acceptance and acknowledgement |
| `tcp_incarnations` † | server opens twice, buffers of 1, 1 retry, routes may fail | 250 147 | old segments do no harm, no byte twice, every sender that waits has a timer |
| `tcp_live` † | client sends 1 byte, 1 retry, fair timers | 79 325 | slots come back |
| `admin` † | 2 connections, 2 changes, 2 heap blocks | 380 254 | ownership of snapshots and slots, truth of answers, no starvation, stop completes |
| `neighbour_table` | 3 slots, 4 keys, every hash | 27 477 | the table is a bounded map |
| `neighbour_pending` | 2 entries of 2 packets, 2 next hops, 3 buffers, 3 requests | 166 152 | ownership, one entry per next hop, pacing, parked packets leave |
| `graph` | 3 slots, frames of 2, 4 packets | 142 988 | slots and packets are accounted for, order, truth of `udp_send`, `graph_submit` returns drained |

`TypeOK` has no line of its own: where it is not implied by a property it is a conjunct
of one (`OneOutstanding`, `StreamTrue`, `SnapshotsOwned`, `OwnedOnce`), and for the ring
it is proved. The two runs of several components stop where their bounds on requests,
events, sockets and time are reached.

### Why the bounds are enough to be interesting

* Ring: two slots and counters modulo four let the indices wrap several times
  with the ring empty, half full and full; two words make torn copies visible.
* Sessions: a slot serves two sessions, so that anything left over from the first
  meets the second; one socket slot for two clients makes reuse immediate.
* TCP: initial sequence numbers lie just before the wrap of a 4-bit space, so that the
  handshake and the data cross it. The buffer is smaller than what is sent, so the window
  closes. `SomeEnd` stops exploration once both connections are gone for good.
* Table: four keys for three slots, all of which may have one home slot, so that a
  chain wraps and the table is full.
* Resolution: two next hops and a table for one, so that learning fails when the other is
  known; a burst and the tick's own errors compete for three buffers.
* Symmetry is used for message ids in the safety runs of `DaemonSession`, and for
  interfaces and addresses in `NeighbourTable`; both are only compared.
* Graph: three slots for fifteen nodes run out within one burst; frames of two
  fill up and are flushed early; `MaxEmits` lets a TCP segment cause two replies.
* Client: two connections, so that a second session meets what the first has left; the
  buffers of a batch do not fit into one request; answers are as large as allowed, or
  larger by one. Ids modulo three wrap within the requests that are made.
* Events: one more than the ring holds, for a subscriber with each filter.
* Sockets: each slot has two or three generations and four handles are given out, so that they
  wrap; two ports for three sockets run out. `FewSockets` keeps three sockets to streams,
  where listener, child and a third one interact; without it the run has 1 069 930 states
  and takes eight minutes, with the same result.
* Routes: the table grows past the two routes up to which there is no index; an address may
  shrink its network so that a gateway falls out of it; either interface may be down.
* Filter: rules overlap, two have one preference, and rules move when others go. Bucket: up
  to four intervals pass, in any steps.
* The addresses in `SocketTable` are symmetric: they are only compared.

## Fairness

* `DaemonSession`: both threads keep running (weak fairness); `main` calls
  `daemon_progress` until the control thread is done. Strong fairness of `Poll`
  says that signals do not interrupt `poll` for ever. Clients owe nothing.
* `TcpConnection`: only `tcp_tick`, which `app_step` calls in every turn. The
  network may lose everything.
* `AdminMailbox`: both threads keep running; `poll` has a timeout of 10 ms.
* `NeighbourPending`: the worker's loop goes on, and time passes (strong
  fairness, as the clock only counts outside the tick in the model).
* `PacketGraph`: `graph_submit` is a plain loop. Nobody owes it new packets.
* `ClientLibrary`: time passes (`wait_socket` has a deadline for the whole request), and
  the daemon notices that a connection has ended (`poll` reports it). That it answers is
  not assumed.
* `EventRing`: worker and control thread keep running, a scan for the subscribers is due
  every 100 ms, and a subscriber that stays reads what it is sent.

`MCIpc` assumes the fairness of a part only for the behaviours that run it: an action of
another part is enabled but never a step there, so that assuming it fair would leave no
behaviour to check.

## Proofs

TLAPS proves the following for every value of the constants that satisfies the
assumptions named, not only for the instances of the runs. Each theorem rests on an
inductive invariant, since none of the properties is inductive as it stands; what
the invariant adds is the content of the argument. Every proof about a step has one
part per action, and the handlers share lemmas that say what a piece of code does to
the invariant.

| theorem | property | inductive invariant |
|---|---|---|
| `RoomCannotDisappear`, `NoSlotRace`, `RingImplementsFifo` | `RoomStays`, `ImplementsFifo` | `RingInv` (`IpcProofs`) |
| `CallsGetTheirAnswers` | `AnswersOwn` | `ClientInv` (`IpcProofs`) |
| `EachSessionHasOneRequest`, `HandlesNameOwnSockets`, `SocketsHaveSessions`, `AnswersFitRequests`, `WakeupsAreKept` | `OneOutstanding`, `HandlesValid`, `NoOrphans`, `AnswersFit`, `NoLostWakeup` | `DaemonInv` (`DaemonSessionProofs`) |
| `SnapshotsAreOwned`, `AnswersAreTrue` | `SnapshotsOwned`, `AnswersTrue` | `AdminInv` (`AdminMailboxProofs`) |
| `HandlesStayWithSockets`, `PacketsMeanOneSocket`, `AutomaticBindFindsPort` | `HandlesNameSockets`, `PacketsFindSockets`, `AutomaticPortFound` | `SocketInv` (`TablesProofs`) |
| `ErrorsKeepTheRate` | `RateKept` | `RateInv` (`TablesProofs`) |
| `AddressesOfSocketsStay` | `BoundAddressesStay` | itself (`ConfigProofs`) |
| `CountersStayWithRules` | `CountersFollowRules` | `AclInv` (`ConfigProofs`) |
| `FlightIsFrontOfBuffer`, `ConnectionsDoNotStall`, `TcpTypeCorrect` | `FlightCovers`, `NoStall` | `TcpInv` (`TcpConnectionProofs`) |
| `BuffersHaveOneOwner`, `NobodyWaitsLonger`, `RequestsKeepPace` | `OwnedOnce`, `NobodyWaitsForKnown`, `RequestsPaced` | `PendingInv` (`NeighbourPendingProofs`) |

* **Ring** (`SizeAssumption`, `WrapAssumption`: the counters wrap at a multiple of the
  size). Type correctness does not say that the indices stay within `Size` of each other
  (`Window`); for that the space that was checked before a copy must still be there when
  the index is published (`Producing`, `Consuming`), and the words copied so far must be
  the item's. For the refinement, `Contents`, the entries between `read` and `write`, maps
  to the FIFO: `PublishAppends` and `PublishRemoves` say what the two publications do to
  it, `ContentsUnchanged` that no other step changes it.
* **Client library** (`ClientAssumption`: at least two ids; `CallsAssumption`: shapes of
  the calls). Ids start again with every session and are copied by `fork`, so they cannot
  be what tells answers apart. The invariant says what does: a session is used only by the
  process that made it (`HolderInv`), carries at most one request or answer, and that is
  the one its owner waits for (`FlowInv`).
* **Sessions** (`ClientsFitQueue`, `SocketsFitHandles`: the relations of the code's
  limits, without which a push could fail). The queues are looked at as sets of
  messages. No two messages have one owner and a slot is pending exactly while there is one
  with its owner (`QueueInv`, `SlotInv`), so that neither ring can be full when something
  is pushed: a counting argument over the slots. What the one message of a session says
  must fit the state of the session (`FitInv`), or the handle table could not be known to
  be right after the answer; a listener's queued children have the listener's owner
  (`ChildInv`), or closing it would orphan them. A wakeup is pending or about to be written
  whenever responses wait past `collect_responses` (`WakeInv`).
* **Mailbox** (`ConnectionsAssumption`, `ChangesAssumption`, `BlocksAssumption`,
  `NoneAssumption`). `MailInv` says who may touch the mailbox, `HeapInv` that
  the heap is the published snapshot and the candidate on its way, which is the published
  one with the request's change. Changes have numbers; one that a client waits for was told
  to nobody and is not yet in the configuration unless the worker has just published it
  (`IdInv`).
* **Sockets** (`TableAssumption`). A slot's generations go round: its n-th handle is
  determined by n (`HandleInv`), so the handles repeat only after all others. That two
  entries never clash (`TableInv`) needs what each state of a stream says about its
  binding and its parent (`EntryInv`). For the port search, any free port is at some
  distance from `next_port`, and the search stops no later than there.
* **Token bucket** (`RateAssumption`). The tokens are bounded from above by the grants of
  every past window and from below by those since the bucket was last full; both bounds
  are needed, one for "not too many", one for "refused only when used up".
* **Configuration** (`RouteAssumption`, `AclAssumption`). That a candidate has been
  prepared long ago does not matter, because the activation looks again. For the counters,
  published and candidate lists must be valid, so that a preference names one rule and a
  rule has one position.
* **TCP** (`TcpAssumption`: the sequence space exceeds twice the buffer). `Sound` holds of
  an entry between the steps of a handler, `Watched` at its end: it is what `tcp_kick`
  restores. What arrives is any segment at all, so that nothing is assumed of the network.
* **Resolution** (`BoundsAssumption`). Ownership is proved on sets: the buffers of output,
  burst, pool, detached queue and of each entry are a partition (`Parts`), and no queue
  holds one twice.

The arithmetic of wrapped numbers is in `ModularArithmetic`; the solvers do the rest of
the arithmetic.

Only model-checked:

* all liveness (`CallsReturn`, `AbandonedReleased`, `EventsReach`, `SessionsEnd`,
  `StopCompletes`, `SlotsComeBack`, `RequestsServed`, `ParkedLeave`, `GraphDrains`): the
  prover has no rules for fairness;
* `EventsAccounted`, `LongestPrefixWins`, `NextHopReachable`, the refinement of `NeighbourMap`, and
  `OwnedOnce`, `InOrder` and `SendTruthful` of `PacketGraph`: they are about what filters,
  folds and searches over sequences compute, which takes induction over the data;
* `StreamTrue`: it does not hold for all constants. A segment that is delayed until the
  sequence numbers have gone round is taken for a new one; that the network does not keep
  one for so long is an assumption about time. In the instances the numbers do not go round
  within one behaviour.

## What the models showed

All properties hold. Some behaviour worth knowing:

* An entry that a tick's own ICMP error creates at a higher index has a request
  time later than the tick's `now`; the unsigned difference is huge, and a second
  ARP request follows at once (`src/neighbour_resolution.c:105`). `RequestsPaced`
  therefore allows one request more than one per second.
* Answers to zero-window probes do not reset the retry counter, so a peer that
  keeps its window closed is given up after `TCP_MAX_RETRIES` probes although it
  answers.
* An ACK that comes with data or a FIN is ignored while the receive buffer is full
  (`src/tcp.c:360`); the sender's timer repairs this.
* The branch of `graph_drop` without an active output is never taken, and the
  full-ring branch of `flush_pending` cannot be; nor can the branch of `tcp_tick` that
  disarms a timer (`src/tcp_timer.c:39`, `NoStall`).

* `ps_init` in a forked child, or after a failure, starts again with id 1; ids alone would
  not tell late answers from new ones. What does is that every failure closes the
  connection (`broken`) and that a child never goes on with its parent's (`src/client.c:63`):
  `AnswersOwn` fails without either.
* A subscriber whose filter matches nothing that is left in the ring is still told of the
  loss, by a record without an event (`src/admin_control.c:55`).
* The loss that is told counts all events the ring has dropped, wanted or not, so it is
  at most too high (`EventsAccounted`).

## Not modelled

* Parsing, printing and wire formats (`src/admin_parse.c`, `src/admin_format.c`,
  `src/admin_wire.c`, `src/ipc.c` but for the framing of batches, `src/config.c`), the
  command line programs (`src/admin_client.c`, `src/pulsar.c`), DPDK port set-up
  (`src/dpdk_port.c`), socket files and locks, statistics: conversions and I/O without
  shared state. What TLC could check of them is the layout of bytes, not behaviour.
* Partial reads and writes of a frame, in the daemon and in the client library.
* The contents of datagrams and segments beyond the bytes' identity, checksums, and which
  edge of a node a header selects.
* The order of datagrams in a socket's receive ring: one thread, one index and a count.
* The benchmarks under `bench/`, which measure the stack from outside.

## Plan

1. Shutdown: both services and the worker's loop in one module.
2. Proofs: ownership in `PacketGraph`, the refinement of `NeighbourMap`, `EventsAccounted`.
