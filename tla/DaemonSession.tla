--------------------------- MODULE DaemonSession ---------------------------
(***************************************************************************)
(* Client sessions of the daemon: the control thread (src/daemon/control.c)*)
(* serves client connections and forwards their requests, the worker       *)
(* (daemon_progress, src/daemon/dispatch.c) executes them on the socket    *)
(* table, and two SPSC queues and an eventfd connect the threads.          *)
(*                                                                         *)
(* The queues are the bounded FIFOs that SpscQueue is shown to implement.  *)
(* A message is its operation, id and descriptor; a frame is received and  *)
(* sent in one step (a partial frame changes nothing but the time it       *)
(* takes).  A core descriptor is the index of its socket slot: as if the   *)
(* generation in it wrapped at once, so a stale descriptor would alias the *)
(* slot's next socket.  A socket is modelled by who owns it and whether    *)
(* its owner can still use it; TcpConnection models what TCP does.         *)
(***************************************************************************)
EXTENDS Integers, Sequences

CONSTANTS MaxClients,  \* service->max_clients
          QueueSize,   \* DAEMON_QUEUE_SIZE
          Batch,       \* requests executed by one daemon_progress: 16 in the code
          MaxSockets,  \* rt->sockets.capacity
          MaxHandles,  \* DAEMON_SOCKET_MAX: entries of a client's handle array
          MaxLocal,    \* INT_MAX: the largest client-side descriptor
          MaxOwner,    \* bound of the model: sessions accepted; UINT64_MAX in the code
          Ids,         \* bound of the model: message ids other than 0
          Ops          \* bound of the model: the operations that clients ask for

NoId == 0

ASSUME SessionAssumption ==
    /\ MaxClients \in Nat \ {0} /\ QueueSize \in Nat /\ Batch \in Nat \ {0}
    /\ MaxSockets \in Nat \ {0} /\ MaxHandles \in Nat /\ MaxLocal \in Nat
    /\ MaxOwner \in Nat /\ NoId \notin Ids
ASSUME ClientsFitQueue == MaxClients <= QueueSize
ASSUME SocketsFitHandles == MaxSockets <= MaxHandles /\ MaxHandles <= MaxLocal

Clients == 1..MaxClients
Fds == 1..MaxSockets
Locals == 1..MaxLocal
Owners == 1..MaxOwner
None == 0

\* What a loop over an array finds first.
IsFirst(i, S) == i \in S /\ \A j \in S : i <= j

\* "OTHER" stands for the operations that neither create nor end a socket:
\* BIND, CONNECT, SEND, RECV, SENDTO, RECVFROM, SENDMMSG, RECVMMSG.
ClientOps == {"HELLO", "SOCKET", "LISTEN", "ACCEPT", "CLOSE", "OTHER"}
ASSUME OpsAssumption == Ops \subseteq ClientOps

Requests == [owner : Owners, op : ClientOps \cup {"CLEANUP"}, id : Ids \cup {NoId},
             fd : 0..MaxSockets]
\* ok: the result is not negative; fd: the descriptor it is, for SOCKET and ACCEPT.
Responses == [owner : Owners, op : ClientOps \cup {"CLEANUP"}, id : Ids \cup {NoId},
              ok : BOOLEAN, fd : 0..MaxSockets]
NoRequest == [owner |-> None, op |-> "none", id |-> NoId, fd |-> None]

VARIABLES clients,     \* service->clients
          nextOwner,   \* service->next_owner
          requests,    \* service->requests
          responses,   \* service->responses
          event,       \* the eventfd service->response_fd is readable
          stopping, done,
          listening,   \* service->listener >= 0
          cpc,         \* where the control thread is in control_run
          index,       \* the loop variable of control_run
          live, stop,  \* its locals: sessions seen, value of stopping loaded
          polled,      \* clients in fds[], and those whose hang-up poll reported
          sockets,     \* rt->sockets.entries: state, owner, parent of each slot
          wpc,         \* where the worker is in daemon_progress
          hand,        \* the request it has popped
          count        \* requests it has executed in this call

sessionVars == <<clients, nextOwner, listening>>
loopVars == <<cpc, index, live, stop, polled>>
controlVars == <<sessionVars, loopVars>>
workerVars == <<sockets, wpc, hand, count>>
queueVars == <<requests, responses, event>>
flagVars == <<stopping, done>>
vars == <<controlVars, workerVars, queueVars, flagVars>>

-----------------------------------------------------------------------------
(* struct daemon_client.  fd is "none" (-1), "up", or "hup" once the peer  *)
(* has closed or its process has exited; ready is have == target; input.id *)
(* is also last_id, which is set whenever the input is.                    *)

NoInput == [op |-> "none", id |-> NoId, fd |-> 0]
NoClient == [owner |-> None, fd |-> "none", dead |-> FALSE, pending |-> FALSE,
             cleanup |-> FALSE, hello |-> FALSE, ready |-> FALSE, output |-> FALSE,
             next |-> 0, handles |-> [l \in Locals |-> None], input |-> NoInput]

ClientType ==
    [owner : 0..MaxOwner, fd : {"none", "up", "hup"}, dead : BOOLEAN, pending : BOOLEAN,
     cleanup : BOOLEAN, hello : BOOLEAN, ready : BOOLEAN, output : BOOLEAN,
     next : 0..MaxLocal, handles : [Locals -> 0..MaxSockets],
     input : [op : ClientOps \cup {"none"}, id : Ids \cup {NoId}, fd : 0..MaxLocal]]

\* What a dead session has read and its handles are not looked at again.
Disconnect(c) ==
    [NoClient EXCEPT !.owner = c.owner, !.dead = TRUE, !.pending = c.pending, !.cleanup = c.cleanup]
\* The request that is answered is not looked at again: only its id stays, as last_id.
Reply(c) == [c EXCEPT !.output = TRUE, !.ready = FALSE,
                      !.input = [NoInput EXCEPT !.id = c.input.id]]

UsedHandles(c) == {l \in Locals : c.handles[l] # None}

\* No entry of the handle array is unused: each holds a descriptor of its own.
Full(c) ==
    \E entries \in [1 .. MaxHandles -> UsedHandles(c)] :
        \A i, j \in 1 .. MaxHandles : entries[i] = entries[j] => i = j

\* The first unused client-side descriptor from next_handle on, cyclically.
FreshHandle(c) ==
    CHOOSE l \in Locals \ UsedHandles(c) :
        \A k \in Locals \ UsedHandles(c) : (l - c.next) % MaxLocal <= (k - c.next) % MaxLocal

AddHandle(c, fd) ==
    LET l == FreshHandle(c)
    IN  [c EXCEPT !.handles[l] = fd, !.next = (l % MaxLocal) + 1]

\* Types; queues, handle tables and batches stay within their sizes.
TypeOK ==
    /\ clients \in [Clients -> ClientType]
    /\ nextOwner \in 0..MaxOwner
    /\ requests \in Seq(Requests)
    /\ responses \in Seq(Responses)
    /\ event \in BOOLEAN /\ stopping \in BOOLEAN /\ done \in BOOLEAN /\ listening \in BOOLEAN
    /\ cpc \in {"drain", "collect", "scan", "poll", "accept", "serve", "exit"}
    /\ index \in 1..(MaxClients + 1)
    /\ live \in 0..MaxClients
    /\ stop \in BOOLEAN
    /\ polled \in [fds : SUBSET Clients, hup : SUBSET Clients]
    /\ sockets \in [Fds -> [state : {"free", "open", "listen", "child", "linger"},
                            owner : 0..MaxOwner, parent : 0..MaxSockets]]
    /\ wpc \in {"loop", "push", "notify"}
    /\ hand \in Requests \cup {NoRequest}
    /\ count \in 0..Batch

NothingPolled == [fds |-> {}, hup |-> {}]
FreeSocket == [state |-> "free", owner |-> None, parent |-> None]

\* daemon_prepare and socket_subsystem_init
Init ==
    /\ clients = [c \in Clients |-> NoClient]
    /\ nextOwner = 0
    /\ requests = <<>> /\ responses = <<>> /\ event = FALSE
    /\ stopping = FALSE /\ done = FALSE /\ listening = TRUE
    /\ cpc = "drain" /\ index = 1 /\ live = 0 /\ stop = FALSE
    /\ polled = NothingPolled
    /\ sockets = [f \in Fds |-> FreeSocket]
    /\ wpc = "loop" /\ hand = NoRequest /\ count = 0

-----------------------------------------------------------------------------
(* The control thread: one turn of the loop of control_run.  A local that  *)
(* goes out of scope is set back to its first value.                       *)

\* The eventfd is drained before the queue, so a later response wakes again.
DrainEvent ==
    /\ cpc = "drain"
    /\ event' = FALSE
    /\ cpc' = "collect"
    /\ UNCHANGED <<index, live, stop, polled, requests, responses, sessionVars, workerVars, flagVars>>

\* A mutant: the request of a dead client never counts as answered.
AnsweredUnlessDead(c) == [c EXCEPT !.pending = c.pending /\ c.dead]
Answered(c) == [c EXCEPT !.pending = FALSE]

\* A mutant: a closed descriptor stays in the handle array.
DropNoHandle(c) == c
DropHandle(c) == [c EXCEPT !.handles[c.input.fd] = None]

\* collect_responses: the effect of response m on the client it belongs to.
Collected(client, m) ==
    LET c == Answered(client)
    IN  CASE m.op = "CLEANUP" /\ c.cleanup -> NoClient
          [] ~(m.op = "CLEANUP" /\ c.cleanup) /\ c.dead -> c
          [] ~c.dead /\ (m.id # c.input.id \/ m.op # c.input.op) -> Disconnect(c)
          [] ~c.dead /\ m.id = c.input.id /\ m.op = c.input.op ->
               IF m.ok /\ m.op \in {"SOCKET", "ACCEPT"}
               THEN IF Full(c)
                    THEN Disconnect(c)
                    ELSE Reply(AddHandle(c, m.fd))
               ELSE IF m.ok /\ m.op = "CLOSE"
               THEN Reply(DropHandle(c))
               ELSE Reply(c)

CollectResponse ==
    /\ cpc = "collect"
    /\ responses # <<>>
    /\ LET m == Head(responses)
           matching == {c \in Clients : clients[c].owner = m.owner}
       IN  clients' = [c \in Clients |->
               IF IsFirst(c, matching) THEN Collected(clients[c], m) ELSE clients[c]]
    /\ responses' = Tail(responses)
    /\ UNCHANGED <<nextOwner, listening, requests, event, loopVars, workerVars, flagVars>>

\* The queue is empty; stopping is loaded and the listener closed.
CollectEnd ==
    /\ cpc = "collect"
    /\ responses = <<>>
    /\ stop' = stopping
    /\ listening' = (listening /\ ~stopping)
    /\ cpc' = "scan"
    /\ UNCHANGED <<clients, nextOwner, index, live, polled, workerVars, queueVars, flagVars>>

SkipSlot ==
    /\ cpc = "scan"
    /\ index \in Clients
    /\ clients[index].owner = None
    /\ index' = index + 1
    /\ UNCHANGED <<cpc, live, stop, polled, sessionVars, workerVars, queueVars, flagVars>>

\* A mutant: clients are not disconnected when the daemon stops.
SeenWhenStopping(c) == clients[c]

\* A session as submit_client finds it, and the bookkeeping of the loop around it.
Seen(c) == IF stop /\ ~clients[c].dead THEN Disconnect(clients[c]) ELSE clients[c]

Visit(c) ==
    /\ cpc = "scan"
    /\ index = c
    /\ clients[c].owner # None
    /\ index' = index + 1
    /\ live' = live + 1
    /\ UNCHANGED <<nextOwner, listening, cpc, stop, polled, responses, event, workerVars, flagVars>>

\* daemon_queue_push of a request; the client is marked only when it fits.
Submit(c, item, marked) ==
    IF Len(requests) < QueueSize
    THEN /\ requests' = Append(requests, item)
         /\ clients' = [clients EXCEPT ![c] = marked]
    ELSE /\ clients' = [clients EXCEPT ![c] = Seen(c)]
         /\ UNCHANGED requests

SubmitNothing(c) ==
    /\ Visit(c)
    /\ \/ Seen(c).pending
       \/ ~Seen(c).dead /\ (Seen(c).output \/ ~Seen(c).ready)
    /\ clients' = [clients EXCEPT ![c] = Seen(c)]
    /\ UNCHANGED requests

\* A mutant: the cleanup does not wait for the answer to the request in flight.
SubmitCleanupEarly(c) ==
    /\ Visit(c)
    /\ Seen(c).dead
    /\ Submit(c, [owner |-> clients[c].owner, op |-> "CLEANUP", id |-> NoId, fd |-> None],
              [Seen(c) EXCEPT !.pending = TRUE, !.cleanup = TRUE])

SubmitCleanup(c) ==
    /\ Visit(c)
    /\ ~Seen(c).pending
    /\ Seen(c).dead
    /\ Submit(c, [owner |-> clients[c].owner, op |-> "CLEANUP", id |-> NoId, fd |-> None],
              [Seen(c) EXCEPT !.pending = TRUE, !.cleanup = TRUE])

\* A complete frame is waiting and nothing is in its way.
Waiting(c) == Visit(c) /\ ~Seen(c).pending /\ ~Seen(c).dead /\ ~Seen(c).output /\ Seen(c).ready

SubmitHello(c) ==
    /\ Waiting(c)
    /\ \/ /\ ~Seen(c).hello
          /\ clients' = [clients EXCEPT ![c] = IF Seen(c).input.op = "HELLO"
                                               THEN Reply([Seen(c) EXCEPT !.hello = TRUE])
                                               ELSE Disconnect(Seen(c))]
       \/ /\ Seen(c).hello
          /\ Seen(c).input.op = "HELLO"
          /\ clients' = [clients EXCEPT ![c] = Reply(Seen(c))]
    /\ UNCHANGED requests

NeedsHandle(c) == Seen(c).input.op # "SOCKET"
KnownHandle(c) == Seen(c).input.fd \in UsedHandles(Seen(c))

SubmitBadHandle(c) ==
    /\ Waiting(c)
    /\ Seen(c).hello
    /\ Seen(c).input.op # "HELLO"
    /\ NeedsHandle(c)
    /\ ~KnownHandle(c)
    /\ clients' = [clients EXCEPT ![c] = Reply(Seen(c))]
    /\ UNCHANGED requests

SubmitRequest(c) ==
    /\ Waiting(c)
    /\ Seen(c).hello
    /\ Seen(c).input.op # "HELLO"
    /\ NeedsHandle(c) => KnownHandle(c)
    /\ Submit(c, [owner |-> clients[c].owner, op |-> Seen(c).input.op, id |-> Seen(c).input.id,
                  fd |-> IF NeedsHandle(c) THEN Seen(c).handles[Seen(c).input.fd] ELSE None],
              [Seen(c) EXCEPT !.pending = TRUE])

AllGone == stop /\ live = 0

\* A mutant: the eventfd is drained just before the thread sleeps on it.
ScanEndDrains ==
    /\ cpc = "scan"
    /\ index = MaxClients + 1
    /\ cpc' = IF AllGone THEN "exit" ELSE "poll"
    /\ done' = AllGone
    /\ index' = 1 /\ live' = 0
    /\ event' = FALSE
    /\ UNCHANGED <<stop, polled, stopping, requests, responses, sessionVars, workerVars>>

ScanEnd ==
    /\ cpc = "scan"
    /\ index = MaxClients + 1
    /\ cpc' = IF AllGone THEN "exit" ELSE "poll"
    /\ done' = AllGone
    /\ index' = 1 /\ live' = 0
    /\ UNCHANGED <<stop, polled, stopping, sessionVars, workerVars, queueVars>>

Poll ==
    /\ cpc = "poll"
    /\ polled' = [fds |-> {c \in Clients : clients[c].fd # "none"},
                  hup |-> {c \in Clients : clients[c].fd = "hup"}]
    /\ cpc' = "accept"
    /\ UNCHANGED <<index, live, stop, sessionVars, workerVars, queueVars, flagVars>>

\* poll is interrupted or fails: a failure stops the daemon; the loop starts over.
PollFails ==
    /\ cpc = "poll"
    /\ stopping' \in {stopping, TRUE}
    /\ cpc' = "drain"
    /\ stop' = FALSE
    /\ UNCHANGED <<index, live, polled, done, sessionVars, workerVars, queueVars>>

\* accept_clients; without a free slot the connection is closed, which changes nothing.
\* The identity that it publishes for the management thread is in Identities.
AcceptClient ==
    /\ cpc = "accept"
    /\ listening /\ ~stop
    /\ nextOwner < MaxOwner
    /\ \E c \in Clients :
           /\ IsFirst(c, {d \in Clients : clients[d].owner = None})
           /\ clients' = [clients EXCEPT ![c] =
                  [NoClient EXCEPT !.owner = nextOwner + 1, !.fd = "up", !.next = 1]]
    /\ nextOwner' = nextOwner + 1
    /\ UNCHANGED <<listening, loopVars, workerVars, queueVars, flagVars>>

AcceptEnd ==
    /\ cpc = "accept"
    /\ cpc' = "serve"
    /\ UNCHANGED <<index, live, stop, polled, sessionVars, workerVars, queueVars, flagVars>>

\* The turn of client c in the loop over the descriptors that poll was given.
Serve(c) ==
    /\ cpc = "serve"
    /\ index = c
    /\ IF c = MaxClients
       THEN cpc' = "drain" /\ index' = 1 /\ stop' = FALSE /\ polled' = NothingPolled
       ELSE index' = c + 1 /\ UNCHANGED <<cpc, stop, polled>>
    /\ UNCHANGED <<nextOwner, listening, live, workerVars, queueVars, flagVars>>

Served(c) == c \in polled.fds /\ clients[c].fd # "none"
Writable(c) == clients[c].output
Readable(c) == ~clients[c].output /\ ~clients[c].pending /\ ~clients[c].ready

\* Not in fds, no event, or a frame moved only in part.
ServeNothing(c) ==
    /\ Serve(c)
    /\ Served(c) => c \notin polled.hup
    /\ UNCHANGED clients

\* A reported hang-up, or an I/O error when the connection is used.
ServeHangUp(c) ==
    /\ Serve(c)
    /\ Served(c)
    /\ c \in polled.hup \/ (clients[c].fd = "hup" /\ (Writable(c) \/ Readable(c)))
    /\ clients' = [clients EXCEPT ![c] = Disconnect(@)]

WriteClient(c) ==
    /\ Serve(c)
    /\ Served(c)
    /\ c \notin polled.hup
    /\ Writable(c)
    /\ clients' = [clients EXCEPT ![c].output = FALSE]

\* A valid request; descriptor None stands for every one the client does not have.
ReadClient(c) ==
    /\ Serve(c)
    /\ Served(c)
    /\ c \notin polled.hup
    /\ Readable(c)
    /\ \E op \in Ops, id \in Ids, fd \in UsedHandles(clients[c]) \cup {None} :
          /\ id # clients[c].input.id
          /\ op \in {"HELLO", "SOCKET"} => fd = None
          /\ clients' = [clients EXCEPT ![c].input = [op |-> op, id |-> id, fd |-> fd],
                                        ![c].ready = TRUE]

\* A header that does not decode, is not a valid request or repeats the last id.
ReadInvalid(c) ==
    /\ Serve(c)
    /\ Served(c)
    /\ c \notin polled.hup
    /\ Readable(c)
    /\ clients' = [clients EXCEPT ![c] = Disconnect(@)]

-----------------------------------------------------------------------------
(* The worker: daemon_progress and the execution of one request.           *)

BatchGoesOn == count < Batch

WorkerPop ==
    /\ wpc = "loop"
    /\ BatchGoesOn
    /\ Len(responses) < QueueSize
    /\ requests # <<>>
    /\ hand' = Head(requests)
    /\ requests' = Tail(requests)
    /\ wpc' = "push"
    /\ UNCHANGED <<sockets, count, responses, event, controlVars, flagVars>>

\* A mutant: the response does not carry the id of its request.
ResponseWithoutId(ok, fd) ==
    [owner |-> hand.owner, op |-> hand.op, id |-> NoId, ok |-> ok, fd |-> fd]

\* The response to the request in hand.
Response(ok, fd) ==
    [owner |-> hand.owner, op |-> hand.op, id |-> hand.id, ok |-> ok, fd |-> fd]

\* The response is pushed whether or not there is room: its result is not looked at.
Respond(ok, fd) ==
    /\ wpc = "push"
    /\ responses' = IF Len(responses) < QueueSize THEN Append(responses, Response(ok, fd))
                                                  ELSE responses
    /\ hand' = NoRequest
    /\ count' = count + 1
    /\ wpc' = "loop"
    /\ UNCHANGED <<requests, event, controlVars, flagVars>>

FreeSlots == {f \in Fds : sockets[f].state = "free"}
Owned(f) == sockets[f].state \in {"open", "listen"} /\ sockets[f].owner = hand.owner
Children(fs) == {f \in Fds : sockets[f].state = "child" /\ sockets[f].parent \in fs}

\* A mutant: closing a listener forgets the connections queued on it.
OnlyClosed(fs) == fs
Closed(fs) == fs \cup Children(fs)

\* core_close of the sockets fs: the listeners and what is queued on them go at once, the
\* others now or, when the transport still has to finish, later.
CloseAll(fs) ==
    \E lingering \in SUBSET {f \in fs : sockets[f].state = "open"} :
        sockets' = [f \in Fds |->
            CASE f \in lingering -> [sockets[f] EXCEPT !.state = "linger"]
              [] f \in Closed(fs) \ lingering -> FreeSocket
              [] OTHER -> sockets[f]]

ExecuteCleanup ==
    /\ hand.op = "CLEANUP"
    /\ Respond(TRUE, None)
    /\ CloseAll({f \in Fds : Owned(f)})

ExecuteSocket ==
    /\ hand.op = "SOCKET"
    /\ \E f \in Fds :
           /\ IsFirst(f, FreeSlots)
           /\ Respond(TRUE, f)
           /\ sockets' = [sockets EXCEPT ![f] =
                            [state |-> "open", owner |-> hand.owner, parent |-> None]]

\* Any request may be refused: arguments, state, a full table, another's descriptor.
ExecuteRefused ==
    /\ hand.op \in ClientOps
    /\ hand.op = "CLOSE" => ~(hand.fd \in Fds /\ Owned(hand.fd))
    /\ Respond(FALSE, None)
    /\ UNCHANGED sockets

\* A descriptor that socket_lookup finds, open and the caller's.
Looked(op) == hand.op = op /\ hand.fd \in Fds /\ Owned(hand.fd)

ExecuteListen ==
    /\ Looked("LISTEN")
    /\ Respond(TRUE, None)
    /\ sockets' = [sockets EXCEPT ![hand.fd].state = "listen"]

ExecuteAccept ==
    /\ Looked("ACCEPT")
    /\ \E f \in Children({hand.fd}) :
          /\ Respond(TRUE, f)
          /\ sockets' = [sockets EXCEPT ![f].state = "open", ![f].parent = None]

ExecuteClose ==
    /\ Looked("CLOSE")
    /\ Respond(TRUE, None)
    /\ CloseAll({hand.fd})

ExecuteOther ==
    /\ Looked("OTHER")
    /\ Respond(TRUE, None)
    /\ UNCHANGED sockets

\* The loop ends: a full batch, no room for a response or no request.
WorkerBatchEnd ==
    /\ wpc = "loop"
    /\ count > 0
    /\ ~BatchGoesOn \/ Len(responses) >= QueueSize \/ requests = <<>>
    /\ wpc' = "notify"
    /\ UNCHANGED <<sockets, hand, count, controlVars, queueVars, flagVars>>

\* A write to a saturated eventfd fails with EAGAIN, and it is readable anyway.
Notify ==
    /\ wpc = "notify"
    /\ event' = TRUE
    /\ count' = 0
    /\ wpc' = "loop"
    /\ UNCHANGED <<sockets, hand, requests, responses, controlVars, flagVars>>

(* What app_step changes of the socket table between two calls.            *)

\* passive_open: a connection request finds a listener and a free slot.
PassiveOpen(l) ==
    /\ wpc = "loop" /\ count = 0
    /\ sockets[l].state = "listen"
    /\ \E f \in Fds :
           /\ IsFirst(f, FreeSlots)
           /\ sockets' = [sockets EXCEPT ![f] =
                            [state |-> "child", owner |-> sockets[l].owner, parent |-> l]]
    /\ UNCHANGED <<wpc, hand, count, controlVars, queueVars, flagVars>>

\* tcp_fail of a socket nobody has open: a queued child, or a closed one that has finished.
TransportEnds(f) ==
    /\ wpc = "loop" /\ count = 0
    /\ sockets[f].state \in {"child", "linger"}
    /\ sockets' = [sockets EXCEPT ![f] = FreeSocket]
    /\ UNCHANGED <<wpc, hand, count, controlVars, queueVars, flagVars>>

(* The environment.                                                        *)

\* The peer closes its connection or its process exits.
PeerCloses(c) ==
    /\ clients[c].fd = "up"
    /\ clients' = [clients EXCEPT ![c].fd = "hup"]
    /\ UNCHANGED <<nextOwner, listening, loopVars, workerVars, queueVars, flagVars>>

\* main is told to stop, or the listener or the eventfd fails.
RequestStop ==
    /\ ~stopping
    /\ stopping' = TRUE
    /\ UNCHANGED <<done, controlVars, workerVars, queueVars>>

-----------------------------------------------------------------------------
Control ==
    \/ DrainEvent \/ CollectResponse \/ CollectEnd \/ SkipSlot
    \/ \E c \in Clients : \/ SubmitNothing(c) \/ SubmitCleanup(c) \/ SubmitHello(c)
                          \/ SubmitBadHandle(c) \/ SubmitRequest(c)
    \/ ScanEnd \/ Poll \/ PollFails \/ AcceptClient \/ AcceptEnd
    \/ \E c \in Clients : \/ ServeNothing(c) \/ ServeHangUp(c) \/ WriteClient(c)
                          \/ ReadClient(c) \/ ReadInvalid(c)

Execute ==
    \/ ExecuteCleanup \/ ExecuteSocket \/ ExecuteRefused \/ ExecuteListen
    \/ ExecuteAccept \/ ExecuteClose \/ ExecuteOther

Worker == WorkerPop \/ Execute \/ WorkerBatchEnd \/ Notify

Next ==
    \/ Control
    \/ Worker
    \/ \E f \in Fds : PassiveOpen(f) \/ TransportEnds(f)
    \/ \E c \in Clients : PeerCloses(c)
    \/ RequestStop

Spec == Init /\ [][Next]_vars

\* Each thread keeps running: the control thread until it breaks out of its loop, the
\* worker because main calls daemon_progress until the control thread is done.  Signals do
\* not interrupt poll forever.
FairSpec == Spec /\ WF_vars(Control) /\ WF_vars(Worker) /\ SF_vars(Poll)

-----------------------------------------------------------------------------
Items == {requests[i] : i \in DOMAIN requests} \cup {responses[i] : i \in DOMAIN responses}
             \cup (IF hand = NoRequest THEN {} ELSE {hand})

\* Where the messages of a session are: positions of the queues, and the worker's hand.
InFlight(o) ==
    {<<"requests", i>> : i \in {j \in DOMAIN requests : requests[j].owner = o}}
        \cup {<<"responses", i>> : i \in {j \in DOMAIN responses : responses[j].owner = o}}
        \cup (IF hand.owner = o THEN {<<"hand", 1>>} ELSE {})

Sessions == {clients[c].owner : c \in Clients} \ {None}
Answers(o) == {m \in {responses[i] : i \in DOMAIN responses} : m.owner = o}
Alive(c) == clients[c].owner # None /\ ~clients[c].dead

\* A session has exactly one request in the queues or in the worker's hands while it is
\* pending and none otherwise, and every request in them belongs to a session.  This is
\* why the pushes of both threads always find room and why no response is unclaimed.
OneOutstanding ==
    /\ TypeOK
    /\ \A c \in Clients : clients[c].owner # None =>
          LET places == InFlight(clients[c].owner)
          IN  IF clients[c].pending THEN \E at \in places : places = {at} ELSE places = {}
    /\ \A m \in Items : m.owner \in Sessions
    /\ \A c, d \in Clients : clients[c].owner = clients[d].owner /\ clients[c].owner # None => c = d

\* A descriptor of a live client names a socket that is open and the client's own, until the
\* answer to its CLOSE is on the way, and two descriptors name two sockets: a request is
\* never executed on a socket the client did not mean.
HandlesValid ==
    \A c \in Clients : Alive(c) =>
        /\ \A l \in UsedHandles(clients[c]) :
              \/ LET s == sockets[clients[c].handles[l]]
                 IN  s.state \in {"open", "listen"} /\ s.owner = clients[c].owner
              \/ \E m \in Answers(clients[c].owner) :
                    m.op = "CLOSE" /\ m.ok /\ clients[c].input.fd = l
        /\ \A k, l \in UsedHandles(clients[c]) :
              clients[c].handles[k] = clients[c].handles[l] => k = l

\* No socket leaks: an open socket, listener or queued child belongs to a session that is
\* still there, and while that session lives it has a descriptor for what it has open or is
\* about to be told one.  A queued child has its listener: closing that takes its queue along.
NoOrphans ==
    /\ \A f \in Fds : sockets[f].state \in {"open", "listen", "child"} => sockets[f].owner \in Sessions
    /\ \A f \in Fds, c \in Clients :
          (Alive(c) /\ sockets[f].owner = clients[c].owner /\ sockets[f].state \in {"open", "listen"}) =>
              \/ \E l \in UsedHandles(clients[c]) : clients[c].handles[l] = f
              \/ \E m \in Answers(clients[c].owner) : m.op \in {"SOCKET", "ACCEPT"} /\ m.ok /\ m.fd = f
    /\ \A f \in Fds : sockets[f].state = "child" =>
          LET listener == sockets[sockets[f].parent]
          IN  listener.state = "listen" /\ listener.owner = sockets[f].owner

\* collect_responses never has to drop a live client: the answer it finds is to the client's
\* current request, and the handle array has an entry for a new descriptor.
AnswersFit ==
    \A c \in Clients : Alive(c) =>
        \A m \in Answers(clients[c].owner) :
            /\ m.id = clients[c].input.id /\ m.op = clients[c].input.op
            /\ m.ok /\ m.op \in {"SOCKET", "ACCEPT"} => ~Full(clients[c])

\* When the control thread goes to wait in poll, an answer that the worker has finished
\* announcing leaves the eventfd readable: the wake-up is not lost.
NoLostWakeup == cpc = "poll" /\ responses # <<>> /\ wpc = "loop" /\ count = 0 => event

\* A session whose peer is gone, or that the daemon gave up, ends and frees its slot.
SessionsEnd ==
    \A o \in Owners :
        (\E c \in Clients : clients[c].owner = o /\ (clients[c].dead \/ clients[c].fd = "hup"))
            ~> (o \notin Sessions)

\* A daemon that is told to stop comes to its end, and then nothing is left in the queues
\* and no session or open socket exists, so that main can stop serving and release everything.
Drained ==
    /\ requests = <<>> /\ responses = <<>> /\ hand = NoRequest
    /\ Sessions = {}
    /\ \A f \in Fds : sockets[f].state \in {"free", "linger"}
StopCompletes == (stopping ~> done) /\ [](done => Drained)
=============================================================================
