----------------------------- MODULE PacketGraph -----------------------------
(***************************************************************************)
(* The packet graph of the data plane (src/graph.c, include/graph.h) and   *)
(* the nodes it runs (src/nodes/).  graph_submit seeds a frame of packets  *)
(* for one node and then runs queued frames until none is left.  A node    *)
(* passes each packet of its frame on, consumes it, parks it, or hands it  *)
(* to the driver, and may add packets of its own through the output that   *)
(* is active.  Frames live in a fixed pool of slots.                       *)
(*                                                                         *)
(* The graph belongs to the worker thread alone, so a step is one          *)
(* node_enqueue with what its caller does around it.  What a packet says   *)
(* decides where it goes; the model lets it take every edge that the node  *)
(* has.  The slots of the ring behind q_head, q_tail and q_count appear as *)
(* a sequence, and a free slot holds an empty frame for NODE_DROP, since   *)
(* slot_alloc clears it before it is used again.                           *)
(***************************************************************************)
EXTENDS Naturals, Sequences, FiniteSets, Functions, FiniteSetsExt

CONSTANTS PoolSize,   \* GRAPH_FRAME_POOL_SIZE (16)
          FrameSize,  \* GRAPH_FRAME_SIZE (64)
          PacketPool, \* the number of mbufs in the packet pool
          Ports,      \* port_count
          MaxEmits    \* bound: packets that one handled packet gives rise to

ASSUME SizesAssumption == {PoolSize, FrameSize, Ports} \subseteq Nat \ {0}
ASSUME BoundsAssumption == PacketPool \in Nat /\ MaxEmits \in Nat

\* enum node_id, in the order in which graph_submit flushes the output.
NodeOrder == << "drop", "eth_input", "arp_input", "ipv4_input", "icmp_input",
                "udp_input", "tcp_input", "ipv4_route", "udp_output",
                "ipv4_output", "eth_output", "arp_output", "tx",
                "ipv4_forward", "ipv4_acl" >>

Nodes == Range(NodeOrder)
Slots == 1 .. PoolSize
Packets == 1 .. PacketPool
None == 0             \* no packet
NoSlot == 0           \* UINT16_MAX in node_output.pending

VARIABLES frames,     \* slots[i].frame
          owner,      \* slots[i].node
          used,       \* the slots in use
          queue,      \* the queued slots, oldest first
          pending,    \* node_output.pending of the seed or of the running node
          phase,      \* where graph_submit is: idle (not called), seed, loop, run
          input,      \* what is left of the submitted frame
          active,     \* the slot whose node runs
          at,         \* the packet of its frame that is handled next
          emits,      \* packets added so far while handling it
          outgoing,   \* the packets that tx_node_run is about to hand to the driver
          unsent,     \* those of the last burst that the driver did not take
          pool,       \* free mbufs
          parked,     \* packets waiting for a neighbour
          driver,     \* packets that the driver accepted and has not freed yet
          sending,    \* the datagram of the last udp_send, if it was the last call
          reporting,  \* packets whose context has report_acceptance set
          accepted,   \* accepted_sends has moved since that udp_send began
          joined,     \* history: the packets under way, in the order in which they came
          trail       \* history: the nodes each of them was passed to

slotVars == << frames, owner, used, queue, pending >>
runVars == << phase, input, active, at, emits >>
txVars == << outgoing, unsent >>
packetVars == << pool, parked, driver >>
sendVars == << sending, reporting, accepted >>
historyVars == << joined, trail >>
vars == << slotVars, runVars, txVars, packetVars, sendVars, historyVars >>

NoPending == [n \in Nodes |-> NoSlot]
NoInput == [node |-> "drop", packets |-> << >>]

Init ==
    /\ frames = [s \in Slots |-> << >>]
    /\ owner = [s \in Slots |-> "drop"]
    /\ used = {}
    /\ queue = << >>
    /\ pending = NoPending
    /\ phase = "idle"
    /\ input = NoInput
    /\ active = NoSlot
    /\ at = 1
    /\ emits = 0
    /\ outgoing = << >>
    /\ unsent = << >>
    /\ pool = Packets
    /\ parked = {}
    /\ driver = {}
    /\ sending = None
    /\ reporting = {}
    /\ accepted = FALSE
    /\ joined = << >>
    /\ trail = [m \in Packets |-> << >>]

-----------------------------------------------------------------------------
(* Slots, frames and the queue: slot_alloc, queue_slot, flush_pending,      *)
(* node_enqueue.                                                            *)

FreeSlots == Slots \ used

\* slot_alloc takes the first slot that is not in use.
SlotAlloc == Min(FreeSlots)

\* queue_slot refuses a slot when the ring is full.
RingFull == Len(queue) = PoolSize

\* Freed packets lose what their contexts said.
Freed(ms) ==
    /\ reporting' = reporting \ ms
    /\ joined' = SelectSeq(joined, LAMBDA m : m \notin ms)
    /\ trail' = [m \in Packets |-> IF m \in ms THEN << >> ELSE trail[m]]

\* A mutant: the packet that found no slot is not freed.
LostWithoutSlot(m, rest) ==
    /\ pool' = rest
    /\ Freed({m})
    /\ UNCHANGED slotVars

\* node_enqueue found no slot: the packet is counted as dropped and freed.
WithoutSlot(m, rest) ==
    /\ pool' = rest \cup {m}
    /\ Freed({m})
    /\ UNCHANGED slotVars

\* The packet moves on to the frame of a node.
Passed(m, node) ==
    /\ joined' = IF m \in Range(joined) THEN joined ELSE Append(joined, m)
    /\ trail' = [trail EXCEPT ![m] = Append(@, node)]
    /\ reporting' = reporting

\* The frame that node_enqueue has just filled is flushed at once.
FlushFull(slot, node, m, rest) ==
    LET frame == Append(frames[slot], m)
    IN  /\ pending' = [pending EXCEPT ![node] = NoSlot]
        /\ IF RingFull
           THEN /\ frames' = [frames EXCEPT ![slot] = << >>]
                /\ owner' = [owner EXCEPT ![slot] = "drop"]
                /\ used' = used \ {slot}
                /\ queue' = queue
                /\ pool' = rest \cup Range(frame)
                /\ Freed(Range(frame))
           ELSE /\ frames' = [frames EXCEPT ![slot] = frame]
                /\ owner' = [owner EXCEPT ![slot] = node]
                /\ used' = used \cup {slot}
                /\ queue' = Append(queue, slot)
                /\ pool' = rest
                /\ Passed(m, node)

\* A frame with room left stays with the output.
KeepPending(slot, node, m, rest) ==
    /\ pending' = [pending EXCEPT ![node] = slot]
    /\ frames' = [frames EXCEPT ![slot] = Append(@, m)]
    /\ owner' = [owner EXCEPT ![slot] = node]
    /\ used' = used \cup {slot}
    /\ queue' = queue
    /\ pool' = rest
    /\ Passed(m, node)

\* One more packet fills the frame.
Fills(slot) == Len(frames[slot]) + 1 = FrameSize

\* node_enqueue: rest is the pool without the packet m.
NodeEnqueue(node, m, rest) ==
    IF pending[node] = NoSlot /\ FreeSlots = {}
    THEN WithoutSlot(m, rest)
    ELSE LET slot == IF pending[node] = NoSlot THEN SlotAlloc ELSE pending[node]
         IN  IF Fills(slot) THEN FlushFull(slot, node, m, rest)
                            ELSE KeepPending(slot, node, m, rest)

\* The slots that the output still holds, in the order of the flush.
Outstanding ==
    LET nodes == SelectSeq(NodeOrder, LAMBDA n : pending[n] # NoSlot)
    IN  [i \in 1 .. Len(nodes) |-> pending[nodes[i]]]

\* flush_pending for every node: kept are the slots in use when it begins,
\* done those given back before.  What the ring does not take is freed.
FlushAll(kept, done) ==
    LET room == Min({PoolSize - Len(queue), Len(Outstanding)})
        refused == {Outstanding[i] : i \in room + 1 .. Len(Outstanding)}
        lost == UNION {Range(frames[s]) : s \in refused}
        gone == done \cup refused
    IN  /\ queue' = queue \o SubSeq(Outstanding, 1, room)
        /\ pending' = NoPending
        /\ used' = kept \ refused
        /\ frames' = [s \in Slots |-> IF s \in gone THEN << >> ELSE frames[s]]
        /\ owner' = [s \in Slots |-> IF s \in gone THEN "drop" ELSE owner[s]]
        /\ pool' = pool \cup lost
        /\ Freed(lost)

-----------------------------------------------------------------------------
(* graph_submit.                                                            *)

\* The call, with packets of the pool or with parked ones that are released.
\* graph_submit begins with an output that holds nothing.
Submit(node, frame) ==
    /\ phase = "idle"
    /\ phase' = "seed"
    /\ input' = [node |-> node, packets |-> frame]
    /\ pool' = pool \ Range(frame)
    /\ parked' = parked \ Range(frame)
    /\ joined' = frame
    /\ UNCHANGED << slotVars, active, at, emits, txVars, driver, trail >>

\* Packets are alike, and the pool (external) hands out the first that are free.
Fresh(n) ==
    CHOOSE frame \in [1 .. n -> pool] :
        \A i \in 1 .. n : {m \in pool : m < frame[i]} = {frame[j] : j \in 1 .. i - 1}

Bursts(ms) == UNION {{f \in [1 .. n -> ms] : IsInjective(f)} : n \in 1 .. FrameSize}

\* app_step submits what it received.
SubmitReceived ==
    \E n \in 1 .. FrameSize :
        /\ n <= Cardinality(pool)
        /\ Submit("eth_input", Fresh(n))
        /\ sending' = None
        /\ accepted' = FALSE
        /\ UNCHANGED reporting

\* udp_send submits one datagram that reports whether it was accepted.
SubmitDatagram ==
    /\ pool # {}
    /\ Submit("ipv4_route", Fresh(1))
    /\ sending' = Min(pool)
    /\ reporting' = reporting \cup {Min(pool)}
    /\ accepted' = FALSE

\* tcp_emit and icmp_send_error outside a run, and neighbour_tick's request.
SubmitOwn ==
    /\ pool # {}
    /\ \E node \in {"ipv4_output", "arp_output"} : Submit(node, Fresh(1))
    /\ sending' = None
    /\ accepted' = FALSE
    /\ UNCHANGED reporting

\* release_pending outside a run.
SubmitReleased ==
    \E frame \in Bursts(parked) :
        /\ Submit("eth_output", frame)
        /\ sending' = None
        /\ accepted' = FALSE
        /\ UNCHANGED reporting

\* One turn of the seeding loop; a packet without a slot is gone.
Seed ==
    /\ phase = "seed"
    /\ input.packets # << >>
    /\ NodeEnqueue(input.node, Head(input.packets), pool)
    /\ input' = [input EXCEPT !.packets = Tail(@)]
    /\ UNCHANGED << phase, active, at, emits, txVars, parked, driver, sending, accepted >>

\* The seed is flushed and the queue is run.
SeedEnd ==
    /\ phase = "seed"
    /\ input.packets = << >>
    /\ FlushAll(used, {})
    /\ phase' = "loop"
    /\ input' = NoInput
    /\ UNCHANGED << active, at, emits, txVars, parked, driver, sending, accepted >>

\* A mutant: the newest frame is run first.
Newest == queue[Len(queue)]

\* The oldest frame is run next.
Oldest == queue[1]

\* The loop takes a frame and calls its node; the slot stays in use meanwhile.
Take ==
    /\ phase = "loop"
    /\ queue # << >>
    /\ phase' = "run"
    /\ active' = Oldest
    /\ queue' = SelectSeq(queue, LAMBDA s : s # Oldest)
    /\ at' = 1
    /\ emits' = 0
    /\ UNCHANGED << frames, owner, used, pending, input, txVars, packetVars, sendVars, historyVars >>

\* The slot of the frame that ran is given back.
ReleasedSlot(slot) == used \ {slot}

\* The node returns: its slot is free before its output is flushed.
RunEnd ==
    /\ phase = "run"
    /\ at > Len(frames[active])
    /\ outgoing = << >> /\ unsent = << >>
    /\ FlushAll(ReleasedSlot(active), {active})
    /\ phase' = "loop"
    /\ active' = NoSlot
    /\ at' = 1
    /\ emits' = 0
    /\ UNCHANGED << input, txVars, parked, driver, sending, accepted >>

\* The queue is empty: graph_submit returns to its caller.
Return ==
    /\ phase = "loop"
    /\ queue = << >>
    /\ phase' = "idle"
    /\ UNCHANGED << slotVars, input, active, at, emits, txVars, packetVars, sendVars, historyVars >>

-----------------------------------------------------------------------------
(* The nodes.  Each handles the packets of its frame one by one.            *)

Current == frames[active][at]

At(node) == phase = "run" /\ owner[active] = node /\ at <= Len(frames[active])

\* The node is done with the current packet.
NextPacket ==
    /\ at' = at + 1
    /\ emits' = 0
    /\ UNCHANGED << phase, input, active, unsent, driver, sending >>

\* The current packet goes to another node: node_enqueue or node_drop.
Pass(nodes) ==
    /\ \E n \in nodes : NodeEnqueue(n, Current, pool)
    /\ NextPacket
    /\ UNCHANGED << outgoing, parked, accepted >>

\* The node frees the current packet.
Consume ==
    /\ pool' = pool \cup {Current}
    /\ Freed({Current})
    /\ NextPacket
    /\ UNCHANGED << slotVars, outgoing, parked, accepted >>

\* The node adds a packet of its own to the active output: icmp_send_error,
\* tcp_emit.  Without a free mbuf nothing happens.
Emit(node) ==
    /\ emits < MaxEmits
    /\ emits' = emits + 1
    /\ pool # {}
    /\ NodeEnqueue(node, Min(pool), pool \ {Min(pool)})
    /\ UNCHANGED << phase, input, active, at, txVars, parked, driver, sending, accepted >>

EthInput == At("eth_input") /\ Pass({"arp_input", "ipv4_input", "drop"})

\* neighbour_update releases the packets that waited for the sender, one by
\* one, to eth_output.
Release ==
    /\ \E m \in parked : /\ NodeEnqueue("eth_output", m, pool)
                         /\ parked' = parked \ {m}
    /\ UNCHANGED << runVars, txVars, driver, sending, accepted >>

ArpInput == At("arp_input") /\ (Release \/ Pass({"tx", "drop"}) \/ Consume)

Ipv4Input == At("ipv4_input") /\ Pass({"ipv4_acl", "drop"})

Ipv4Acl ==
    /\ At("ipv4_acl")
    /\ Pass({"ipv4_forward", "icmp_input", "udp_input", "tcp_input", "drop"})

\* An error is sent for a packet that is then dropped.
Ipv4Forward ==
    /\ At("ipv4_forward")
    /\ \/ emits = 0 /\ Emit("ipv4_output")
       \/ Pass({"drop"})
       \/ emits = 0 /\ Pass({"eth_output"})

IcmpInput == At("icmp_input") /\ Pass({"tx", "eth_output", "drop"})

UdpInput ==
    /\ At("udp_input")
    /\ \/ emits = 0 /\ Emit("ipv4_output")
       \/ Pass({"drop"})
       \/ emits = 0 /\ Consume

TcpInput == At("tcp_input") /\ (Emit("ipv4_output") \/ Pass({"drop"}) \/ Consume)

Ipv4Route == At("ipv4_route") /\ Pass({"udp_output", "drop"})

UdpOutput == At("udp_output") /\ Pass({"ipv4_output", "drop"})

Ipv4Output == At("ipv4_output") /\ Pass({"eth_output", "drop"})

\* A mutant: a datagram that is parked does not count as accepted.
ParkedUnreported(m) == accepted

\* neighbour_queue counts a parked datagram as accepted.
Reported(m) == accepted \/ m \in reporting

\* neighbour_queue takes the packet and clears its report_acceptance.
Park ==
    /\ parked' = parked \cup {Current}
    /\ accepted' = Reported(Current)
    /\ Freed({Current})
    /\ NextPacket
    /\ UNCHANGED << slotVars, outgoing, pool >>

\* The first packet for a neighbour also requests its address.  The request
\* goes to another frame than the packet, so it may come first here.
EthOutput ==
    /\ At("eth_output")
    /\ \/ emits = 0 /\ Emit("arp_output")
       \/ emits = 0 /\ Pass({"tx", "drop"})
       \/ Park

ArpOutput == At("arp_output") /\ Pass({"tx", "drop"})

\* tx_node_run, first pass: the packet is kept for the burst of its port.
Keep ==
    /\ \E port \in 1 .. Ports : outgoing' = Append(outgoing, [packet |-> Current, port |-> port])
    /\ NextPacket
    /\ UNCHANGED << slotVars, pool, parked, reporting, accepted, historyVars >>

\* First pass: no port, one that is down, or no room to pad the packet.
Tx == At("tx") /\ (Keep \/ Pass({"drop"}))

\* Second pass, the next port with packets: the driver (external) takes the first few
\* of its burst.
Transmit ==
    /\ phase = "run" /\ at > Len(frames[active])
    /\ outgoing # << >> /\ unsent = << >>
    /\ LET port == Min({outgoing[i].port : i \in DOMAIN outgoing})
           batch == SelectSeq(outgoing, LAMBDA k : k.port = port)
       IN  \E count \in 0 .. Len(batch) :
               LET sent == {batch[i].packet : i \in 1 .. count}
               IN  /\ driver' = driver \cup sent
                   /\ accepted' = (accepted \/ sent \cap reporting # {})
                   /\ Freed(sent)
                   /\ unsent' = [i \in 1 .. Len(batch) - count |-> batch[count + i].packet]
                   /\ outgoing' = SelectSeq(outgoing, LAMBDA k : k.port # port)
    /\ UNCHANGED << slotVars, runVars, pool, parked, sending >>

\* Second pass: a packet that the driver did not take is dropped.
DropUnsent ==
    /\ unsent # << >>
    /\ NodeEnqueue("drop", Head(unsent), pool)
    /\ unsent' = Tail(unsent)
    /\ UNCHANGED << runVars, outgoing, parked, driver, sending, accepted >>

\* A mutant: a dropped packet provokes an error message of its own.
DropAnswers == At("drop") /\ (Emit("ipv4_output") \/ Consume)

Drop == At("drop") /\ Consume

-----------------------------------------------------------------------------
(* Between two calls of graph_submit.                                       *)

\* The driver frees a packet once it is on the wire (external).
TxComplete ==
    /\ phase = "idle"
    /\ \E m \in driver : driver' = driver \ {m} /\ pool' = pool \cup {m}
    /\ sending' = None
    /\ accepted' = FALSE
    /\ UNCHANGED << slotVars, runVars, txVars, parked, reporting, historyVars >>

\* discard_pending frees packets whose neighbour did not answer.
Discard ==
    /\ phase = "idle"
    /\ \E m \in parked : parked' = parked \ {m} /\ pool' = pool \cup {m}
    /\ sending' = None
    /\ accepted' = FALSE
    /\ UNCHANGED << slotVars, runVars, txVars, driver, reporting, historyVars >>

NodeRun ==
    \/ EthInput \/ ArpInput \/ Ipv4Input \/ Ipv4Acl \/ Ipv4Forward \/ IcmpInput
    \/ UdpInput \/ TcpInput \/ Ipv4Route \/ UdpOutput \/ Ipv4Output \/ EthOutput
    \/ ArpOutput \/ Tx \/ Transmit \/ DropUnsent \/ Drop

GraphRun == Seed \/ SeedEnd \/ Take \/ NodeRun \/ RunEnd \/ Return

Next ==
    \/ SubmitReceived \/ SubmitDatagram \/ SubmitOwn \/ SubmitReleased
    \/ GraphRun
    \/ TxComplete \/ Discard

Spec == Init /\ [][Next]_vars

\* graph_submit is a plain loop on the worker's thread.
FairSpec == Spec /\ WF_vars(GraphRun)

-----------------------------------------------------------------------------
(* Properties.                                                              *)

\* The slots that hold packets, in the order in which they are handled.
Line == (IF active = NoSlot THEN << >> ELSE << active >>) \o queue \o Outstanding

\* The packets of a slot that are still to be handled.
Waiting(s) == IF s = active THEN SubSeq(frames[s], at, Len(frames[s])) ELSE frames[s]

\* Types; a frame never outgrows its array, and one that the output still
\* holds has room (node_enqueue writes pkts[count] without a check).
TypeOK ==
    /\ \A s \in Slots : frames[s] \in Seq(Packets) /\ Len(frames[s]) <= FrameSize
    /\ owner \in [Slots -> Nodes]
    /\ used \subseteq Slots
    /\ queue \in Seq(Slots)
    /\ pending \in [Nodes -> Slots \cup {NoSlot}]
    /\ \A n \in Nodes : pending[n] # NoSlot => Len(frames[pending[n]]) < FrameSize
    /\ phase \in {"idle", "seed", "loop", "run"}
    /\ input.node \in Nodes /\ input.packets \in Seq(Packets)
    /\ active \in Slots \cup {NoSlot}
    /\ at \in 1 .. FrameSize + 1
    /\ emits \in 0 .. MaxEmits
    /\ outgoing \in Seq([packet : Packets, port : 1 .. Ports]) /\ unsent \in Seq(Packets)
    /\ pool \subseteq Packets /\ parked \subseteq Packets /\ driver \subseteq Packets
    /\ sending \in Packets \cup {None} /\ reporting \subseteq Packets
    /\ accepted \in BOOLEAN

\* Where a packet is.
Holders(m) ==
    {s \in {"pool"} : m \in pool} \cup {s \in {"parked"} : m \in parked}
    \cup {s \in {"driver"} : m \in driver}
    \cup {<< "input", i >> : i \in {i \in DOMAIN input.packets : input.packets[i] = m}}
    \cup {<< "outgoing", i >> : i \in {i \in DOMAIN outgoing : outgoing[i].packet = m}}
    \cup {<< "unsent", i >> : i \in {i \in DOMAIN unsent : unsent[i] = m}}
    \cup UNION {{<< "slot", s, i >> : i \in {i \in DOMAIN Waiting(s) : Waiting(s)[i] = m}}
                    : s \in Slots}

\* Every mbuf has exactly one owner in every step of a run: none leaks when
\* slots or mbufs run out, and none is freed, sent or parked twice.  Every slot
\* in use has exactly one of three roles: queued, running, or held by an
\* output.  So no slot leaks from the pool of src/graph.c, a node's output is
\* never written into the frame that the node is reading, the ring of
\* queue_slot always has room for a slot that is flushed, and none is in use
\* when graph_submit returns.
OwnedOnce ==
    /\ TypeOK
    /\ \A m \in Packets : Cardinality(Holders(m)) = 1
    /\ used = Range(Line)
    /\ IsInjective(Line)
    /\ phase = "idle" => used = {}

Dropped(m) == trail[m] # << >> /\ trail[m][Len(trail[m])] = "drop"

Precedes(x, y) ==
    \E i, j \in DOMAIN joined : i < j /\ joined[i] = x /\ joined[j] = y

\* No packet overtakes one that joined the run before it and takes the same
\* way: neither those of a submitted frame nor the segments, errors and
\* released packets that nodes add, also when a frame fills up and is flushed
\* in between, so that the run's output is in several frames.  (Packets that
\* were dropped are exempt: tx_node_run drops some in its first pass and the
\* unsent ones port by port in its second.)
InOrder ==
    \A i, j \in DOMAIN Line :
        \A a \in DOMAIN Waiting(Line[i]), b \in DOMAIN Waiting(Line[j]) :
            LET x == Waiting(Line[i])[a]
                y == Waiting(Line[j])[b]
                sameWay == /\ Len(trail[x]) <= Len(trail[y])
                           /\ SubSeq(trail[y], 1, Len(trail[x])) = trail[x]
            IN  Precedes(x, y) /\ sameWay /\ ~Dropped(x)
                => trail[x] = trail[y] /\ (i < j \/ (i = j /\ a < b))

\* udp_send reports success exactly when its datagram was handed to the
\* driver or parked for its neighbour, and EIO exactly when it was dropped.
SendTruthful ==
    phase = "idle" /\ sending # None => (accepted <=> sending \in driver \cup parked)

\* graph_submit returns, with the graph drained ("the graph is completely
\* drained before this returns", include/runtime.h).
GraphDrains == phase # "idle" ~> phase = "idle" /\ used = {}

=============================================================================
