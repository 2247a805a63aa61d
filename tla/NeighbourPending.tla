-------------------------- MODULE NeighbourPending --------------------------
(***************************************************************************)
(* Address resolution (src/neighbour_resolution.c): packets whose next hop *)
(* has no hardware address yet are parked in a pending entry while ARP     *)
(* requests are sent, and leave it when the address is learned, when the   *)
(* last request is not answered, or when the entry is cancelled.           *)
(*                                                                         *)
(* One worker does everything.  It alternates between a burst, in which    *)
(* the packet graph runs (graph), the timer that visits every entry (tick) *)
(* and the administrator's requests (idle).  Packets handed to the graph   *)
(* wait in `output' for the eth-output node (src/nodes/output.c); outside  *)
(* a burst the graph is drained before the worker goes on.  A packet that  *)
(* was forwarded (transit) and timed out is answered with an ICMP error,   *)
(* itself a packet that may have to be parked while the tick is under way. *)
(*                                                                         *)
(* The neighbour table is the bounded map that NeighbourTable implements,  *)
(* abstracted to its keys; one interface stands for all of them.           *)
(***************************************************************************)
EXTENDS Integers, Sequences, FiniteSets, FiniteSetsExt

CONSTANTS
    PendingMax,      \* NEIGHBOUR_PENDING_MAX, entries
    QueueMax,        \* NEIGHBOUR_PENDING_QUEUE_MAX, packets of an entry
    MaxRequests,     \* ARP_MAX_REQUESTS
    Capacity,        \* NEIGHBOUR_CAPACITY
    Keys,            \* next hops
    PacketPool,      \* buffers of the pool
    BurstSize        \* GRAPH_FRAME_SIZE

ASSUME BoundsAssumption ==
    {PendingMax, QueueMax, MaxRequests, Capacity, PacketPool, BurstSize} \subseteq Nat \ {0}

Index == 1 .. PendingMax
Packets == 1 .. PacketPool

VARIABLES
    pending,    \* the pending entries
    known,      \* the keys in the neighbour table
    up,         \* the interface is started and not administratively down
    burst,      \* the buffers of the burst that the graph has not come to
    output,     \* packets in the graph, on their way to eth-output
    pool,       \* free buffers
    pc,         \* what the worker does
    visit,      \* the entry the tick is at
    detached    \* the packets of a timed out entry that are not yet freed

vars == <<pending, known, up, burst, output, pool, pc, visit, detached>>

\* A packet in flight: its buffer, its next hop and whether it is forwarded.
InFlight == [buffer : Packets, key : Keys, transit : BOOLEAN]

\* A pending entry.  age says what now - last_request will give: less than a
\* second (fresh), at least a second (due), or, when the entry was made after
\* the tick under way had read the clock, a huge unsigned number (ahead).
\* seconds counts how often the entry became due, up to MaxRequests, and early
\* remembers an entry that was made ahead of the clock.
Ages == {"fresh", "due", "ahead"}

\* count = 0
Empty == [packets |-> <<>>]

Entry == [packets : Seq(InFlight) \ {<<>>}, key : Keys, requests : 1 .. MaxRequests,
          age : Ages, seconds : 0 .. MaxRequests, early : BOOLEAN]

Free(i) == pending[i].packets = <<>>

Init ==
    /\ pending = [i \in Index |-> Empty]
    /\ known = {} /\ up = TRUE
    /\ burst = {} /\ output = <<>> /\ pool = Packets
    /\ pc = "idle" /\ visit = 0 /\ detached = <<>>

-----------------------------------------------------------------------------
Buffers(packets) == {packets[n].buffer : n \in DOMAIN packets}

\* The graph has drained: nothing submitted is left to process.
Drained == output = <<>> /\ detached = <<>>

\* The entry neighbour_queue() uses: the key's own, else the first free one.
EntryFor(key) ==
    LET own == {i \in Index : ~Free(i) /\ pending[i].key = key}
        free == {i \in Index : Free(i) /\ \A j \in 1 .. i - 1 : ~Free(j)}
    IN IF own # {} THEN own ELSE free

\* The entry with one packet more; the first packet starts the resolution.
Queued(entry, packet, age) ==
    IF entry.packets = <<>>
    THEN [packets |-> <<packet>>, key |-> packet.key, requests |-> 1, age |-> age, seconds |-> 0,
          early |-> age = "ahead"]
    ELSE [entry EXCEPT !.packets = Append(@, packet)]

HasRoom(i) == Len(pending[i].packets) < QueueMax

\* neighbour_queue() succeeds: the packet now belongs to the entry.
Park(packet) ==
    /\ \E i \in EntryFor(packet.key), age \in (IF pc = "tick" THEN {"fresh", "ahead"} ELSE {"fresh"}) :
           /\ HasRoom(i)
           /\ pending' = [pending EXCEPT ![i] = Queued(pending[i], packet, age)]
    /\ UNCHANGED pool

\* neighbour_queue() fails: no entry, or a full one.
Refused(packet) == \A i \in EntryFor(packet.key) : ~HasRoom(i)

\* The packet leaves: transmitted or dropped, its buffer is free again.
Leave(packet) == pool' = pool \cup {packet.buffer} /\ UNCHANGED pending

\* eth_output_node_run(), one packet.  (A packet longer than the interface's
\* MTU is dropped as if the interface were down.)
EthOutput ==
    /\ output # <<>>
    /\ LET packet == Head(output) IN
           \/ ~up /\ Leave(packet)
           \/ up /\ packet.key \in known /\ Leave(packet)
           \/ up /\ packet.key \notin known /\ Refused(packet) /\ Leave(packet)
           \/ up /\ packet.key \notin known /\ Park(packet)
    /\ output' = Tail(output)
    /\ UNCHANGED <<known, up, burst, pc, visit, detached>>

-----------------------------------------------------------------------------
(* The burst. *)

\* Buffers are alike, and the pool (external) hands out the first that are
\* free, as many of n as there are.
Fresh(n) == {m \in pool : Cardinality({k \in pool : k < m}) < n}

\* app_step() receives a burst, or the sockets send one.
BurstBegin ==
    /\ pc = "idle"
    /\ Drained
    /\ \E n \in 0 .. BurstSize : burst' = Fresh(n)
    /\ pool' = pool \ burst'
    /\ pc' = "graph"
    /\ UNCHANGED <<pending, known, up, output, visit, detached>>

\* A packet of the burst reaches eth-output, forwarded or sent by a socket,
\* or is consumed or dropped before.
Arrive ==
    /\ pc = "graph"
    /\ burst # {}
    /\ LET buffer == Min(burst) IN
           /\ burst' = burst \ {buffer}
           /\ \/ pool' = pool \cup {buffer} /\ UNCHANGED output
              \/ /\ UNCHANGED pool
                 /\ \E key \in Keys, transit \in BOOLEAN :
                        output' = Append(output, [buffer |-> buffer, key |-> key, transit |-> transit])
    /\ UNCHANGED <<pending, known, up, pc, visit, detached>>

\* neighbour_learn() succeeds.
Learnable(key) == key \in known \/ Cardinality(known) < Capacity

\* A mutant: release_pending() hands the packets over and keeps the entry.
ReleasedKept(i) == pending

\* The entries once release_pending() has detached entry i.
Released(i) == [pending EXCEPT ![i] = Empty]

\* What is left of a queue when some of its packets are lost: those at
\* increasing positions.
Thinned(packets) ==
    UNION {{[m \in 1 .. n |-> packets[at[m]]] :
                at \in {f \in [1 .. n -> DOMAIN packets] : \A k, m \in 1 .. n : k < m => f[k] < f[m]}} :
           n \in 0 .. Len(packets)}

\* release_pending(): the packets go back to eth-output.  The graph may have
\* no frame left for some of them; node_enqueue() frees those.
Release(i) ==
    /\ pending' = Released(i)
    /\ \E rest \in Thinned(pending[i].packets) :
           /\ output' = output \o rest
           /\ pool' = pool \cup (Buffers(pending[i].packets) \ Buffers(rest))

\* A mutant: the packets wait for the next tick.
AwaitedLater(key) == {}

\* The entry whose packets wait for the address.
Awaited(key) == {i \in Index : ~Free(i) /\ pending[i].key = key}

\* neighbour_update(): learn the address, release the packets waiting for it.
Update(key) ==
    /\ Learnable(key)
    /\ known' = known \cup {key}
    /\ IF Awaited(key) = {} THEN UNCHANGED <<pending, output, pool>>
                            ELSE \E i \in Awaited(key) : Release(i)
    /\ UNCHANGED <<up, burst, pc, visit, detached>>

\* arp_input_node_run(): a request or a reply names its sender.
ArpInput == pc = "graph" /\ \E key \in Keys : Update(key)

\* The graph has drained; neighbour_tick() begins.
BurstEnd ==
    /\ pc = "graph"
    /\ burst = {} /\ Drained
    /\ pc' = "tick" /\ visit' = 1
    /\ UNCHANGED <<pending, known, up, burst, output, pool, detached>>

-----------------------------------------------------------------------------
(* neighbour_tick() *)

\* A second has passed since the entry's last request.
SecondPasses(i) ==
    /\ pc # "tick"
    /\ ~Free(i)
    /\ pending[i].age = "fresh"
    /\ pending' = [pending EXCEPT ![i].age = "due", ![i].seconds = Min({@ + 1, MaxRequests})]
    /\ UNCHANGED <<known, up, burst, output, pool, pc, visit, detached>>

Visiting == pc = "tick" /\ Drained /\ visit <= PendingMax

\* A mutant: the time since the last request is not looked at.
ElapsedAlways(entry) == TRUE

\* now - last_request, unsigned, is at least a second.
Elapsed(entry) == entry.age \in {"due", "ahead"}

Skipped == visit' = visit + 1

\* The entry has nothing to wait for, or is not due.
TickSkip ==
    /\ Visiting
    /\ \/ Free(visit)
       \/ ~Free(visit) /\ up /\ pending[visit].key \notin known /\ ~Elapsed(pending[visit])
    /\ Skipped
    /\ UNCHANGED <<pending, known, up, burst, output, pool, pc, detached>>

\* discard_pending() for any reason but a timeout.
Discard(entries) ==
    /\ pending' = [i \in Index |-> IF i \in entries THEN Empty ELSE pending[i]]
    /\ pool' = pool \cup UNION {Buffers(pending[i].packets) : i \in entries}

\* The interface went down without the entries being cancelled, or the
\* address is known after all.
TickEnds ==
    /\ Visiting
    /\ ~Free(visit)
    /\ ~up \/ pending[visit].key \in known
    /\ IF up THEN Release(visit) ELSE Discard({visit}) /\ UNCHANGED output
    /\ visit' = visit + 1
    /\ UNCHANGED <<known, up, burst, pc, detached>>

\* The entry still waits for an answer and its last request is old enough.
Waiting ==
    /\ Visiting
    /\ ~Free(visit) /\ up
    /\ pending[visit].key \notin known
    /\ Elapsed(pending[visit])

\* A mutant: the request is not counted.
RequestedUncounted(entry) == [entry EXCEPT !.age = "fresh"]

Requested(entry) == [entry EXCEPT !.requests = @ + 1, !.age = "fresh"]

\* Another ARP request.
TickRequest ==
    /\ Waiting
    /\ pending[visit].requests < MaxRequests
    /\ pending' = [pending EXCEPT ![visit] = Requested(@)]
    /\ visit' = visit + 1
    /\ UNCHANGED <<known, up, burst, output, pool, pc, detached>>

\* The last request was not answered: the entry is detached, so that the
\* errors sent for its packets may use it.
TickTimeout ==
    /\ Waiting
    /\ pending[visit].requests = MaxRequests
    /\ detached' = pending[visit].packets
    /\ pending' = [pending EXCEPT ![visit] = Empty]
    /\ visit' = visit + 1
    /\ UNCHANGED <<known, up, burst, output, pool, pc>>

\* discard_pending() of a timeout, one packet: icmp_send_error() may send an
\* error (a forwarded packet, a free buffer, a route, a token), and the
\* packet is freed.  No error answers an error: it is not in transit.
FreeDetached ==
    /\ output = <<>>
    /\ detached # <<>>
    /\ LET packet == Head(detached) IN
           \/ pool' = pool \cup {packet.buffer} /\ UNCHANGED output
           \/ /\ packet.transit
              /\ \E buffer \in Fresh(1), key \in Keys :
                     /\ output' = <<[buffer |-> buffer, key |-> key, transit |-> FALSE]>>
                     /\ pool' = (pool \ {buffer}) \cup {packet.buffer}
    /\ detached' = Tail(detached)
    /\ UNCHANGED <<pending, known, up, burst, pc, visit>>

\* The next tick reads the clock after every entry of this one was made.
TickEnd ==
    /\ pc = "tick" /\ Drained /\ visit > PendingMax
    /\ pc' = "idle" /\ visit' = 0
    /\ pending' = [i \in Index |-> IF ~Free(i) /\ pending[i].age = "ahead"
                                   THEN [pending[i] EXCEPT !.age = "fresh"] ELSE pending[i]]
    /\ UNCHANGED <<known, up, burst, output, pool, detached>>

-----------------------------------------------------------------------------
(* Requests of the administrator, executed between two bursts. *)

AdminTurn == pc = "idle" /\ Drained

\* neighbour_set()
AdminSet == AdminTurn /\ \E key \in Keys : Update(key)

\* The entries neighbour_cancel(dev, ip) discards.
Cancelled(keys) == {i \in Index : ~Free(i) /\ pending[i].key \in keys}

\* neighbour_delete(), and the flush of every neighbour.
AdminDelete ==
    /\ AdminTurn
    /\ \E keys \in {{key} : key \in known} \cup {Keys} :
           known' = known \ keys /\ Discard(Cancelled(keys))
    /\ UNCHANGED <<up, burst, output, pc, visit, detached>>

\* The link is set up or down: every entry is cancelled.
AdminLink ==
    /\ AdminTurn
    /\ up' = ~up
    /\ Discard(Cancelled(Keys))
    /\ UNCHANGED <<known, burst, output, pc, visit, detached>>

\* mtu_set() stops the port and fails to start it again: nothing is cancelled.
AdminMtuFails ==
    /\ AdminTurn
    /\ up' = FALSE
    /\ UNCHANGED <<pending, known, burst, output, pool, pc, visit, detached>>

\* neighbour_fini(), when the addresses, routes or rules changed, and the
\* neighbour_cancel() that follows a new MTU: every entry is discarded.
AdminReconfigure ==
    /\ AdminTurn
    /\ Discard(Index)
    /\ UNCHANGED <<known, up, burst, output, pc, visit, detached>>

-----------------------------------------------------------------------------
(* Connections that fail. *)

\* What may be left of a queue without the segments of one connection.  Which
\* packets are its segments is open, but none of them is forwarded.
Kept(packets) ==
    {rest \in Thinned(packets) :
        \A n \in DOMAIN packets : packets[n].transit => packets[n].buffer \in Buffers(rest)}

\* An entry is cleared with its last packet.
Left(entry, packets) == IF packets = <<>> THEN Empty ELSE [entry EXCEPT !.packets = packets]

\* What may be left of the queues of all entries.
Remainders ==
    {left \in [Index -> UNION {Kept(pending[i].packets) : i \in Index}] :
        \A i \in Index : left[i] \in Kept(pending[i].packets)}

\* tcp_fail() calls cancel_queued(): a segment arrives and ends its connection, or, with
\* the graph drained, a timer or a call of the application does.
TcpFails ==
    /\ pc = "graph" \/ AdminTurn
    /\ \E left \in Remainders :
           /\ pending' = [i \in Index |-> Left(pending[i], left[i])]
           /\ pool' = pool \cup UNION {Buffers(pending[i].packets) \ Buffers(left[i]) : i \in Index}
    /\ UNCHANGED <<known, up, burst, output, pc, visit, detached>>

Burst == BurstBegin \/ Arrive \/ ArpInput \/ BurstEnd
Tick == TickSkip \/ TickEnds \/ TickRequest \/ TickTimeout \/ FreeDetached \/ TickEnd
Admin == AdminSet \/ AdminDelete \/ AdminLink \/ AdminMtuFails \/ AdminReconfigure

Next == EthOutput \/ Burst \/ Tick \/ Admin \/ TcpFails \/ \E i \in Index : SecondPasses(i)

Spec == Init /\ [][Next]_vars

\* What the worker does by itself: a burst ends and begins again, what is in
\* the graph is processed, and the tick goes through.
Work == EthOutput \/ BurstBegin \/ Arrive \/ BurstEnd \/ Tick

\* The worker never stops, and time passes.
FairSpec == Spec /\ WF_vars(Work) /\ \A i \in Index : SF_vars(SecondPasses(i))

-----------------------------------------------------------------------------
(* Properties. *)

\* Every variable has its type; in particular no queue is longer than its
\* array.
TypeOK ==
    /\ pending \in [Index -> {Empty} \cup Entry]
    /\ \A i \in Index : Len(pending[i].packets) <= QueueMax
    /\ known \subseteq Keys /\ Cardinality(known) <= Capacity /\ up \in BOOLEAN
    /\ output \in Seq(InFlight) /\ detached \in Seq(InFlight)
    /\ pool \subseteq Packets /\ burst \subseteq Packets /\ Cardinality(burst) <= BurstSize
    /\ pc \in {"idle", "graph", "tick"} /\ visit \in 0 .. PendingMax + 1

\* The queues in which packets are: the graph's, the one of each entry, and
\* the one that is being freed.
Queues == 0 .. PendingMax + 1
Queue(q) ==
    CASE q = 0 -> output
      [] q \in Index -> pending[q].packets
      [] q = PendingMax + 1 -> detached

InQueues == UNION {Buffers(Queue(q)) : q \in Queues}

\* Every buffer has one owner: it is free, received, in the graph, parked in one
\* position of one entry or about to be freed, and never in two of these or
\* in none ("Success transfers ownership to the pending queue; failure
\* retains caller ownership").  There is one entry per next hop, so that one
\* answer releases all its packets.
OwnedOnce ==
    /\ TypeOK
    /\ \A i, j \in Index : ~Free(i) /\ ~Free(j) /\ pending[i].key = pending[j].key => i = j
    /\ \A p, q \in Queues : \A m \in DOMAIN Queue(p), n \in DOMAIN Queue(q) :
           Queue(p)[m].buffer = Queue(q)[n].buffer => p = q /\ m = n
    /\ InQueues \cap (pool \cup burst) = {} /\ pool \cap burst = {}
    /\ InQueues \cup pool \cup burst = Packets

\* No packet waits for an address that is in the table: learning releases
\* the entry in the same step, parking looks the address up first, deleting
\* an address does not bring an old entry back.
NobodyWaitsForKnown == \A i \in Index : Free(i) \/ pending[i].key \notin known

\* Requests are paced by seconds: after n seconds at most n + 1 of them were
\* sent, the first at once.  An entry made while a tick was under way, whose
\* request time is later than the tick's clock, is asked for twice at once, and
\* from then on paced like the others.
Extra(entry) == IF entry.early THEN 1 ELSE 0
RequestsPaced ==
    \A i \in Index : Free(i) \/ pending[i].requests <= pending[i].seconds + 1 + Extra(pending[i])

\* Parked packets do not stay, however many come after them: every entry is
\* empty again in the end, because its next hop answers, the requests run out,
\* or it is cancelled.
ParkedLeave == \A i \in Index : ~Free(i) ~> Free(i)
=============================================================================
