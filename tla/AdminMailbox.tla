---------------------------- MODULE AdminMailbox ----------------------------
(***************************************************************************)
(* The management service: one control thread that serves administrative   *)
(* clients (src/admin_control.c), the packet worker that executes their    *)
(* jobs between two packet bursts (admin_progress, src/admin_worker.c)     *)
(* and the one-job mailbox between them.  `state' says who owns the job:   *)
(* Idle, the control thread fills it; Asked, the worker executes it;       *)
(* Replied, the control thread reads the reply.                            *)
(*                                                                         *)
(* A change of the configuration takes two jobs.  The first reads the      *)
(* published snapshot; the control thread copies it, applies the change    *)
(* and hands the candidate over in a second job, in which the worker       *)
(* publishes it and returns the snapshot it replaces to be freed.          *)
(*                                                                         *)
(* A snapshot is abstracted to its generation and to the sequence of       *)
(* changes it holds; a request to its kind and, for a change, an identity. *)
(***************************************************************************)
EXTENDS Naturals, Sequences, FiniteSets

CONSTANTS
    MaxConnections,   \* ADMIN_CLIENT_MAX
    MaxChanges,       \* bound: the changes clients ask for, numbered as they do
    Blocks,           \* heap blocks a snapshot may be allocated in
    None              \* no client (-1), no message, no block (NULL)

ASSUME ConnectionsAssumption == MaxConnections \in Nat \ {0}
ASSUME ChangesAssumption == MaxChanges \in Nat
ASSUME BlocksAssumption == IsFiniteSet(Blocks) /\ Blocks # {}

Connections == 0 .. MaxConnections - 1
Changes == 1 .. MaxChanges

VARIABLES
    state, stopping, done,
    clients, current, phase, cursor, job,
    network, heap,
    pc, polled,
    asked, answers

mailbox == <<current, phase, cursor, job>>
config == <<network, heap>>
place == <<pc, polled>>
history == <<asked, answers>>
vars == <<state, stopping, done, clients, mailbox, config, place, history>>

Idle == 0
Asked == 1
Replied == 2

\* What clients ask: to see something, once or from now on as a subscriber to
\* the events, to change the configuration (software), to operate on a link
\* or a neighbour.
Kinds == {"view", "change", "hardware"}
Requests == [kind : {"change"}, id : Changes]
              \cup [kind : Kinds \ {"change"}, id : {None}]

\* The worker's scan on behalf of the subscribers carries this request.
Scan == [kind |-> "view", id |-> None]

ASSUME NoneAssumption == None \notin Connections \cup Blocks \cup Requests

Snapshots == [generation : Nat, changes : Seq(Changes)]
Results == {"ok", "stale", "busy", "error"}

\* The job.  Its view and result are the worker's reply; what the control
\* thread leaves in an idle mailbox is never read and is not kept.
Job(type, request) ==
    [type |-> type, request |-> request, next |-> None, retired |-> None,
     view |-> None, result |-> "ok"]
NoJob == Job("read", Scan)

\* One admin_connection.  input is the request once have = target; output says
\* that a response is being sent (length > 0).
Connection == [open : BOOLEAN, pending : BOOLEAN, subscribed : BOOLEAN,
               input : Requests \cup {None}, output : BOOLEAN]

Closed == [open |-> FALSE, pending |-> FALSE, subscribed |-> FALSE,
           input |-> None, output |-> FALSE]
Accepted == [Closed EXCEPT !.open = TRUE]

Init ==
    /\ state = Idle /\ stopping = FALSE /\ done = FALSE
    /\ clients = [c \in Connections |-> Closed]
    /\ current = None /\ phase = 0 /\ cursor = 0
    /\ network = CHOOSE b \in Blocks : TRUE
    /\ heap = [b \in {network} |-> [generation |-> 1, changes |-> <<>>]]
    /\ job = NoJob
    /\ pc = "test" /\ polled = {}
    /\ asked = 0 /\ answers = {}

-----------------------------------------------------------------------------
(* The control thread's helpers. *)

\* disconnect(): a slot whose job is in flight keeps its request and stays
\* reserved until the job completes.
Disconnected(c) ==
    IF c.pending THEN [c EXCEPT !.open = FALSE, !.subscribed = FALSE]
                 ELSE Closed

DisconnectAll == clients' = [c \in Connections |-> Disconnected(clients[c])]

\* response(): the reply replaces the request.
Response(c) == [c EXCEPT !.output = TRUE, !.input = None]

\* The condition under which schedule() takes a client's request.
Ready(c) ==
    c.open /\ ~c.subscribed /\ ~c.pending /\ ~c.output /\ c.input # None

-----------------------------------------------------------------------------
(* The control thread: run(). *)

\* The loop's test: the service stops only when no job is in flight.
Test ==
    /\ pc = "test"
    /\ IF ~stopping \/ state # Idle
       THEN pc' = "complete" /\ UNCHANGED <<clients, done>>
       ELSE pc' = "exit" /\ DisconnectAll /\ done' = TRUE
    /\ UNCHANGED <<state, stopping, mailbox, config, polled, history>>

CompleteNothing ==
    /\ pc = "complete"
    /\ state # Replied
    /\ pc' = "stopcheck"
    /\ UNCHANGED <<state, stopping, done, clients, mailbox, config, polled, history>>

Software == current # None /\ phase = 0 /\ clients[current].input.kind = "change"

\* admin_mutate(): the copy of the view with the change applied.
Mutated(view, request) ==
    [generation |-> view.generation + 1, changes |-> Append(view.changes, request.id)]

\* complete() on the first reply to a change: build the candidate and hand
\* it to the worker.
CompleteMutate ==
    /\ pc = "complete"
    /\ state = Replied
    /\ Software
    /\ \E next \in Blocks \ DOMAIN heap :
           /\ heap' = [b \in DOMAIN heap \cup {next} |->
                          IF b = next THEN Mutated(job.view, clients[current].input)
                                      ELSE heap[b]]
           /\ job' = [Job("activate", job.request) EXCEPT !.next = next]
    /\ phase' = 1
    /\ state' = Asked
    /\ pc' = "stopcheck"
    /\ UNCHANGED <<stopping, done, clients, current, cursor, network, polled, history>>

\* A mutant: the replaced snapshot is never given back.
ReclaimedNever(result) == {}

\* The snapshot complete() frees: a refused candidate, or the one replaced.
Reclaimed(result) ==
    IF phase = 0 THEN {} ELSE IF result = "ok" THEN {job.retired} ELSE {job.next}

\* A mutant: a change is reported applied once the worker has seen it.
ToldApplied(request, result) == IF request.kind = "change" THEN {TRUE} ELSE BOOLEAN

\* The result a client is told.  Formatting a view may fail, and so may a
\* subscription; a change or an operation reports what the worker did.
Told(request, result) ==
    IF result # "ok" THEN {FALSE}
    ELSE IF request.kind \in {"change", "hardware"} THEN {TRUE}
    ELSE BOOLEAN

\* The connection of the job's client once it is answered.
Completed(c, follows) ==
    IF ~c.open THEN Closed
    ELSE [Response(c) EXCEPT !.pending = FALSE, !.subscribed = follows]

\* Whether the client becomes a subscriber: that is what it asked, and it is granted.
Follows(ok) == IF ok /\ current # None /\ clients[current].input.kind = "view" THEN BOOLEAN ELSE {FALSE}

\* events() sends nothing to a subscriber that has not read the last ones.
Listening(c) == c.open /\ c.subscribed /\ ~c.output

\* What is recorded of the answer to a change: what the client was told.
Answer(ok) ==
    IF current # None /\ clients[current].open /\ clients[current].input.kind = "change"
    THEN {[id |-> clients[current].input.id, ok |-> ok, generation |-> job.view.generation]}
    ELSE {}

\* complete() in every other case: free what the activation left over,
\* answer the client if it is still there, inform the subscribers.
CompleteReply(ok) ==
    /\ pc = "complete"
    /\ state = Replied
    /\ \E result \in (IF Software THEN {"error"} ELSE {job.result}) :
           /\ heap' = [b \in DOMAIN heap \ Reclaimed(result) |-> heap[b]]
           /\ current # None => ok \in Told(clients[current].input, result)
    /\ job' = NoJob
    /\ \E follows \in Follows(ok) :
           LET replied == [c \in Connections |->
                              IF c = current THEN Completed(clients[c], follows) ELSE clients[c]]
           IN \E news \in SUBSET {c \in Connections : Listening(replied[c])} :
                  clients' = [c \in Connections |->
                                 IF c \in news THEN Response(replied[c])
                                               ELSE replied[c]]
    /\ answers' = answers \cup Answer(ok)
    /\ current' = None /\ phase' = 0
    /\ state' = Idle
    /\ pc' = "stopcheck"
    /\ UNCHANGED <<stopping, done, cursor, network, polled, asked>>

\* A mutant: clients are served while the service is stopping.
StopCheckServes ==
    /\ pc = "stopcheck"
    /\ pc' = "schedule"
    /\ UNCHANGED <<state, stopping, done, clients, mailbox, config, polled, history>>

\* run() between complete() and schedule(): no more clients when stopping.
StopCheck ==
    /\ pc = "stopcheck"
    /\ IF stopping THEN pc' = "test" /\ DisconnectAll
                   ELSE pc' = "schedule" /\ UNCHANGED clients
    /\ UNCHANGED <<state, stopping, done, mailbox, config, polled, history>>

\* schedule() looks at each client once.
Turns == 1 .. MaxConnections

\* A mutant: the search begins with the first client every time.
TurnFromFirst(n) == n - 1

\* The search begins with the client after the last one served.
Turn(n) == (cursor + n) % MaxConnections

NobodyReady == \A n \in Turns : ~Ready(clients[Turn(n)])

Take(c) ==
    /\ cursor' = c /\ current' = c /\ phase' = 0
    /\ job' = Job(IF clients[c].input.kind = "hardware" THEN "hardware" ELSE "read",
                  clients[c].input)
    /\ clients' = [clients EXCEPT ![c].pending = TRUE]
    /\ state' = Asked

\* schedule(), a client's request: the first ready one in turn.
ScheduleClient ==
    /\ pc = "schedule"
    /\ state = Idle
    /\ \E n \in Turns :
           /\ Ready(clients[Turn(n)])
           /\ \A m \in 1 .. n - 1 : ~Ready(clients[Turn(m)])
           /\ Take(Turn(n))
    /\ pc' = "poll"
    /\ UNCHANGED <<stopping, done, config, polled, history>>

\* schedule(), nobody is ready: every 100 ms a scan for the subscribers.
ScheduleScan ==
    /\ pc = "schedule"
    /\ state = Idle
    /\ NobodyReady
    /\ \E c \in Connections : clients[c].subscribed
    /\ current' = None /\ phase' = 0
    /\ job' = Job("read", Scan)
    /\ state' = Asked
    /\ pc' = "poll"
    /\ UNCHANGED <<stopping, done, clients, cursor, config, polled, history>>

ScheduleNothing ==
    /\ pc = "schedule"
    /\ state # Idle \/ NobodyReady
    /\ pc' = "poll"
    /\ UNCHANGED <<state, stopping, done, clients, mailbox, config, polled, history>>

\* poll() watches the connections that are open now.
Poll ==
    /\ pc = "poll"
    /\ polled' = {c \in Connections : clients[c].open}
    /\ pc' = "accept"
    /\ UNCHANGED <<state, stopping, done, clients, mailbox, config, history>>

\* poll() fails: interrupted by a signal, or for good.  (failed, which tells
\* main() why the service is stopping, is set together with stopping.)
PollFails ==
    /\ pc = "poll"
    /\ stopping' \in {stopping, TRUE}
    /\ pc' = "test"
    /\ UNCHANGED <<state, done, clients, mailbox, config, polled, history>>

\* accept_clients(), one connection: the first slot that is neither open nor
\* reserved by a job in flight.
AcceptClient ==
    /\ pc = "accept"
    /\ \E c \in Connections :
           /\ ~clients[c].open /\ ~clients[c].pending
           /\ \A d \in 0 .. c - 1 : clients[d].open \/ clients[d].pending
           /\ clients' = [clients EXCEPT ![c] = Accepted]
    /\ UNCHANGED <<state, stopping, done, mailbox, config, place, history>>

AcceptEnd ==
    /\ pc = "accept"
    /\ pc' = IF polled = {} THEN "test" ELSE "serve"
    /\ UNCHANGED <<state, stopping, done, clients, mailbox, config, polled, history>>

\* The loop over the connections has come to c; polled are those still to come.
At(c) == pc = "serve" /\ c \in polled /\ \A d \in polled : c <= d

\* Where the loop goes after c.
ServeNext(c) ==
    /\ polled' = polled \ {c}
    /\ pc' = IF polled = {c} THEN "test" ELSE "serve"

\* Nothing happened on the connection, or less than a whole message moved.
ServeNothing(c) ==
    /\ At(c)
    /\ ServeNext(c)
    /\ UNCHANGED <<state, stopping, done, clients, mailbox, config, history>>

\* The client hung up, its connection failed, or it sent a bad header.
ServeDisconnect(c) ==
    /\ At(c)
    /\ clients' = [clients EXCEPT ![c] = Disconnected(clients[c])]
    /\ ServeNext(c)
    /\ UNCHANGED <<state, stopping, done, mailbox, config, history>>

\* write_client(), the last byte of the response.
ServeWrite(c) ==
    /\ At(c)
    /\ clients[c].output
    /\ clients' = [clients EXCEPT ![c].output = FALSE]
    /\ ServeNext(c)
    /\ UNCHANGED <<state, stopping, done, mailbox, config, history>>

\* The interest run() registers for reading.
Readable(c) == ~c.output /\ ~c.pending /\ ~c.subscribed /\ c.input = None

\* read_client(), the last byte of a request that decodes.
ServeRead(c) ==
    /\ At(c)
    /\ Readable(clients[c])
    /\ \E request \in Requests :
           /\ request.kind = "change" => request.id = asked + 1
           /\ clients' = [clients EXCEPT ![c].input = request]
           /\ asked' = IF request.kind = "change" THEN request.id ELSE asked
    /\ ServeNext(c)
    /\ UNCHANGED <<state, stopping, done, mailbox, config, answers>>

\* read_client(), the last byte of a request that does not decode.
ServeReject(c) ==
    /\ At(c)
    /\ Readable(clients[c])
    /\ clients' = [clients EXCEPT ![c] = Response(clients[c])]
    /\ ServeNext(c)
    /\ UNCHANGED <<state, stopping, done, mailbox, config, history>>

-----------------------------------------------------------------------------
(* The worker: admin_progress(), which owns the job while state = Asked.  *)
(* It runs between two bursts, when no packet holds the old snapshot.     *)

WorkerReplies(result) ==
    /\ job' = [job EXCEPT !.result = result, !.view = heap[network]]
    /\ state' = Replied
    /\ UNCHANGED <<stopping, done, clients, current, phase, cursor, config, place, history>>

\* ADMIN_READ: only capture().
WorkerRead ==
    /\ state = Asked
    /\ job.type = "read"
    /\ WorkerReplies("ok")

\* ADMIN_HARDWARE: admin_worker_operation() on a port or a neighbour.
WorkerHardware ==
    /\ state = Asked
    /\ job.type = "hardware"
    /\ \E result \in {"ok", "error"} : WorkerReplies(result)

\* The check that the candidate was made from the published snapshot.
Succeeds ==
    job.next # None /\ heap[job.next].generation = heap[network].generation + 1

\* ADMIN_ACTIVATE refused: a stale candidate, or an address that a socket is
\* still bound to would disappear (removed_binding).
WorkerRefuse ==
    /\ state = Asked
    /\ job.type = "activate"
    /\ WorkerReplies(IF Succeeds THEN "busy" ELSE "stale")

\* ADMIN_ACTIVATE: publish the candidate and return the old snapshot.
WorkerActivate ==
    /\ state = Asked
    /\ job.type = "activate"
    /\ Succeeds
    /\ network' = job.next
    /\ job' = [job EXCEPT !.retired = network, !.result = "ok", !.view = heap[job.next]]
    /\ state' = Replied
    /\ UNCHANGED <<stopping, done, clients, current, phase, cursor, heap, place, history>>

\* main(): a signal, or one of the services failed.
RequestStop ==
    /\ ~stopping
    /\ stopping' = TRUE
    /\ UNCHANGED <<state, done, clients, mailbox, config, place, history>>

-----------------------------------------------------------------------------
Complete == CompleteNothing \/ CompleteMutate \/ \E ok \in BOOLEAN : CompleteReply(ok)
Schedule == ScheduleClient \/ ScheduleScan \/ ScheduleNothing
Accept == AcceptClient \/ AcceptEnd
Serve ==
    \E c \in Connections :
        ServeNothing(c) \/ ServeDisconnect(c) \/ ServeWrite(c) \/ ServeRead(c) \/ ServeReject(c)

Control == Test \/ Complete \/ StopCheck \/ Schedule \/ Poll \/ PollFails \/ Accept \/ Serve
Worker == WorkerRead \/ WorkerHardware \/ WorkerRefuse \/ WorkerActivate

Next == Control \/ Worker \/ RequestStop

Spec == Init /\ [][Next]_vars

\* Both threads keep running: the worker polls the mailbox between bursts,
\* also while main() waits for the service to stop, and no step of the
\* control thread blocks (poll returns after 10 ms).
FairSpec == Spec /\ WF_vars(Control) /\ WF_vars(Worker)

-----------------------------------------------------------------------------
(* Properties. *)

\* Every variable has its type.
TypeOK ==
    /\ state \in {Idle, Asked, Replied}
    /\ {stopping, done} \subseteq BOOLEAN
    /\ clients \in [Connections -> Connection]
    /\ current \in Connections \cup {None} /\ phase \in {0, 1} /\ cursor \in Connections
    /\ job \in [type : {"read", "activate", "hardware"}, request : Requests,
                next : Blocks \cup {None}, retired : Blocks \cup {None},
                view : Snapshots \cup {None}, result : Results]
    /\ network \in Blocks
    /\ DOMAIN heap \subseteq Blocks /\ \A b \in DOMAIN heap : heap[b] \in Snapshots
    /\ pc \in {"test", "complete", "stopcheck", "schedule", "poll", "accept", "serve", "exit"}
    /\ polled \subseteq Connections
    /\ asked \in 0 .. MaxChanges
    /\ answers \subseteq [id : Changes, ok : BOOLEAN, generation : Nat]

\* The snapshot the mailbox is carrying, besides the published one.
Carried ==
    IF state = Idle \/ phase = 0 THEN {}
    ELSE IF state = Replied /\ job.result = "ok" THEN {job.retired} ELSE {job.next}

\* Snapshots are freed exactly once and never while in use: the published
\* one is allocated, the one carried by the mailbox is another one, and there
\* is no third (complete() frees the refused or the replaced one).
SnapshotsOwned ==
    /\ TypeOK
    /\ DOMAIN heap = {network} \cup Carried
    /\ network \notin Carried

\* A slot is reserved exactly while its job is in flight, and the request in the slot
\* is the one the worker executes, so that the reply (which complete() takes from the
\* slot) answers the client that asked, even when it has left and another one has been
\* accepted in the meantime.  A client told "applied generation g" has its change as the
\* one that made generation g; a change that was refused is not in the configuration.
\* None is ever refused as stale: between the reading of the published snapshot and the
\* activation of its changed copy nobody else changes the configuration.
AnswersTrue ==
    /\ \A c \in Connections : clients[c].pending <=> (state # Idle /\ current = c)
    /\ state # Idle /\ current # None => clients[current].input = job.request
    /\ \A a \in answers :
           LET changes == heap[network].changes IN
           IF a.ok THEN /\ a.generation \in 2 .. Len(changes) + 1
                        /\ changes[a.generation - 1] = a.id
           ELSE \A i \in DOMAIN changes : changes[i] # a.id
    /\ state = Replied => job.result # "stale"

\* Round robin: a request that was read completely is handed to the worker and
\* completed, or its client leaves, whatever the other clients keep asking.
RequestsServed ==
    \A c \in Connections :
        Ready(clients[c]) \/ clients[c].pending ~> ~Ready(clients[c]) /\ ~clients[c].pending

\* Once told to stop, the service finishes the job in flight and ends, so
\* that main() can join it.
StopCompletes == stopping ~> done
=============================================================================
