------------------------- MODULE AdminMailboxProofs -------------------------
(***************************************************************************)
(* Proofs about the management mailbox: snapshots are freed exactly once   *)
(* and never while in use, and every answer is about the request that the  *)
(* client made and true of the published configuration, for any number of  *)
(* connections, changes and heap blocks.                                   *)
(***************************************************************************)
EXTENDS AdminMailbox, Integers, TLAPS

(* The mailbox.  An idle one carries nothing; a job in flight reserves its *)
(* client's slot and holds the request of that slot; only a change has a   *)
(* second phase, and only the second phase activates.  A reply shows the   *)
(* published snapshot.                                                     *)
MailInv ==
    /\ state = Idle => current = None /\ phase = 0
    /\ \A c \in Connections : clients[c].pending <=> (state # Idle /\ current = c)
    /\ state # Idle /\ current # None => clients[current].input = job.request
    /\ phase = 1 => current # None /\ job.type = "activate" /\ job.request.kind = "change"
    /\ state # Idle /\ phase = 0 => job.type # "activate"
    /\ state = Replied => job.view = heap[network] /\ job.result # "stale"

(* The heap.  The candidate on its way is the published snapshot with the  *)
(* request's change, so that it is never stale; once it is published, that *)
(* change is the last one.                                                 *)
HeapInv ==
    /\ DOMAIN heap = {network} \cup Carried
    /\ network \notin Carried
    /\ heap[network].generation = Len(heap[network].changes) + 1
    /\ state = Asked /\ phase = 1 => heap[job.next] = Mutated(heap[network], job.request)
    /\ state = Replied /\ phase = 1 /\ job.result = "ok" =>
           LET changes == heap[network].changes IN
           Len(changes) > 0 /\ changes[Len(changes)] = job.request.id

(* A change is published and its client has not been told yet.             *)
Untold(id) ==
    state = Replied /\ phase = 1 /\ job.result = "ok" /\ job.request.id = id

(* Changes are told apart by their numbers: one that a client still waits  *)
(* for is waited for by no other, was answered to nobody, and is not in    *)
(* the configuration unless the worker has just published it.              *)
Waits(c, id) == clients[c].input = [kind |-> "change", id |-> id]

IdInv ==
    LET changes == heap[network].changes IN
    /\ \A i \in DOMAIN changes : changes[i] <= asked
    /\ \A a \in answers : a.id <= asked
    /\ \A c \in Connections, id \in Changes : Waits(c, id) =>
           /\ id <= asked
           /\ \A a \in answers : a.id # id
           /\ \A i \in DOMAIN changes : changes[i] = id => Untold(id)
           /\ \A d \in Connections : Waits(d, id) => c = d

(* What clients were told.                                                 *)
ToldTruth ==
    LET changes == heap[network].changes IN
    \A a \in answers :
        IF a.ok THEN /\ a.generation \in 2 .. Len(changes) + 1
                     /\ changes[a.generation - 1] = a.id
        ELSE \A i \in DOMAIN changes : changes[i] # a.id

(* The inductive invariant. *)
AdminInv == TypeOK /\ MailInv /\ HeapInv /\ IdInv /\ ToldTruth

-----------------------------------------------------------------------------
(* Requests and connections. *)

(* A request that is a change is one of the numbered changes.              *)
LEMMA ChangeRequest ==
    ASSUME NEW r \in Requests, r.kind = "change"
    PROVE  r.id \in Changes /\ r = [kind |-> "change", id |-> r.id]
  BY Zenon DEF Requests, Kinds

(* What disconnect(), response() and accept_clients() leave in a slot.     *)
LEMMA ConnectionTypes ==
    /\ Closed \in Connection /\ Accepted \in Connection
    /\ \A c \in Connection : Disconnected(c) \in Connection /\ Response(c) \in Connection
  BY Zenon DEF Closed, Accepted, Disconnected, Response, Connection

(* One field of a connection is written. *)
LEMMA FieldTypes ==
    ASSUME NEW c \in Connection
    PROVE  /\ [c EXCEPT !.output = FALSE] \in Connection
           /\ [c EXCEPT !.pending = TRUE] \in Connection
           /\ \A request \in Requests : [c EXCEPT !.input = request] \in Connection
  BY Zenon DEF Connection

(* The type of a job. *)
JobType == [type : {"read", "activate", "hardware"}, request : Requests,
            next : Blocks \cup {None}, retired : Blocks \cup {None},
            view : Snapshots \cup {None}, result : Results]

(* schedule() and complete() fill in a job. *)
LEMMA JobTypes ==
    ASSUME NEW type \in {"read", "activate", "hardware"}, NEW request \in Requests
    PROVE  Job(type, request) \in JobType
  BY Zenon DEF Job, JobType, Results

(* The scan for the subscribers is a request like any other. *)
LEMMA ScanRequest == Scan \in Requests
  BY Zenon DEF Scan, Requests, Kinds

(* The turns of schedule() are connections. *)
LEMMA TurnRange ==
    ASSUME cursor \in Connections, NEW n \in Turns
    PROVE  Turn(n) \in Connections
  <1>1. cursor + n \in Int /\ MaxConnections \in Nat \ {0}
    BY ConnectionsAssumption DEF Connections, Turns
  <1>2. (cursor + n) % MaxConnections \in 0 .. MaxConnections - 1
    BY <1>1
  <1> QED
    BY <1>2, Zenon DEF Turn, Connections

-----------------------------------------------------------------------------
(* Type correctness. *)

(* The service starts with closed slots and one snapshot. *)
LEMMA InitType == Init => TypeOK
  <1> SUFFICES ASSUME Init PROVE TypeOK
    BY Zenon
  <1>1. network \in Blocks
    BY BlocksAssumption, Zenon DEF Init
  <1>2. heap[network] \in Snapshots /\ DOMAIN heap = {network}
    BY DEF Init, Snapshots
  <1>3. NoJob \in JobType
    BY JobTypes, ScanRequest, Zenon DEF NoJob
  <1>4. 0 \in Connections /\ 0 \in 0 .. MaxChanges
    BY ConnectionsAssumption, ChangesAssumption DEF Connections
  <1>5. clients \in [Connections -> Connection]
    BY ConnectionTypes, Zenon DEF Init
  <1> QED
    BY <1>1, <1>2, <1>3, <1>4, <1>5, Zenon DEF Init, TypeOK, JobType, Idle

(* The control thread's steps that touch neither mailbox nor heap. *)
LEMMA ControlType ==
    ASSUME AdminInv,
           Test \/ CompleteNothing \/ StopCheck \/ ScheduleNothing \/ Poll \/ PollFails \/ Accept \/ Serve
    PROVE  TypeOK'
  <1> USE DEF AdminInv, TypeOK, place, mailbox, config, history
  <1>1. ASSUME DisconnectAll PROVE clients' \in [Connections -> Connection]
    BY <1>1, ConnectionTypes, Zenon DEF DisconnectAll
  <1>2. CASE Test
    BY <1>1, <1>2, Zenon DEF Test
  <1>3. CASE CompleteNothing
    BY <1>3, Zenon DEF CompleteNothing
  <1>4. CASE StopCheck
    BY <1>1, <1>4 DEF StopCheck
  <1>5. CASE ScheduleNothing
    BY <1>5, Zenon DEF ScheduleNothing
  <1>6. CASE Poll
    BY <1>6 DEF Poll
  <1>7. CASE PollFails
    BY <1>7, Zenon DEF PollFails
  <1>8. CASE AcceptClient
    BY <1>8, ConnectionTypes DEF AcceptClient
  <1>9. CASE AcceptEnd
    BY <1>9, Zenon DEF AcceptEnd
  <1>10. CASE Serve
    <2>1. PICK c \in Connections : ServeNothing(c) \/ ServeDisconnect(c) \/ ServeWrite(c) \/ ServeRead(c) \/ ServeReject(c)
      BY <1>10, Zenon DEF Serve
    <2>2. ASSUME ServeNext(c)
          PROVE  /\ pc' \in {"test", "complete", "stopcheck", "schedule", "poll", "accept", "serve", "exit"}
                 /\ polled' \subseteq Connections
      BY <2>2, Zenon DEF ServeNext
    <2>3. CASE ServeNothing(c)
      BY <2>2, <2>3, Zenon DEF ServeNothing
    <2>4. CASE ServeDisconnect(c)
      BY <2>2, <2>4, ConnectionTypes, Zenon DEF ServeDisconnect
    <2>5. CASE ServeWrite(c)
      <3>1. clients' \in [Connections -> Connection]
        BY <2>5, FieldTypes, Zenon DEF ServeWrite
      <3> QED
        BY <2>2, <2>5, <3>1, Zenon DEF ServeWrite
    <2>6. CASE ServeRead(c)
      <3>1. PICK request \in Requests :
                /\ request.kind = "change" => request.id = asked + 1
                /\ clients' = [clients EXCEPT ![c].input = request]
                /\ asked' = IF request.kind = "change" THEN request.id ELSE asked
        BY <2>6, Zenon DEF ServeRead
      <3>2. clients' \in [Connections -> Connection]
        BY <3>1, FieldTypes, Zenon
      <3>3. asked' \in 0 .. MaxChanges
        BY <3>1, ChangeRequest DEF Changes
      <3> QED
        BY <2>2, <2>6, <3>2, <3>3, Zenon DEF ServeRead
    <2>7. CASE ServeReject(c)
      BY <2>2, <2>7, ConnectionTypes, Zenon DEF ServeReject
    <2> QED
      BY <2>1, <2>3, <2>4, <2>5, <2>6, <2>7, Zenon
  <1> QED
    BY <1>2, <1>3, <1>4, <1>5, <1>6, <1>7, <1>8, <1>9, <1>10, Zenon DEF Accept

(* The client of a job in flight has asked for it. *)
LEMMA CurrentAsked ==
    ASSUME AdminInv, state # Idle, current # None
    PROVE  /\ current \in Connections /\ clients[current] \in Connection
           /\ clients[current].input = job.request /\ job.request \in Requests
  BY Zenon DEF AdminInv, TypeOK, MailInv

(* The published snapshot. *)
LEMMA Published ==
    ASSUME AdminInv
    PROVE  /\ network \in DOMAIN heap /\ heap[network] \in Snapshots
           /\ heap[network].generation \in Nat /\ heap[network].changes \in Seq(Changes)
  <1>1. network \in DOMAIN heap /\ heap[network] \in Snapshots
    BY Zenon DEF AdminInv, TypeOK, HeapInv
  <1> QED
    BY <1>1, Zenon DEF Snapshots

(* complete() builds a candidate from a snapshot. *)
LEMMA CompleteMutateType == AdminInv /\ CompleteMutate => TypeOK'
  <1> SUFFICES ASSUME AdminInv, CompleteMutate PROVE TypeOK'
    BY Zenon
  <1> USE DEF config, place, history, mailbox
  <1>1. state # Idle /\ current # None /\ job.view = heap[network]
    BY Zenon DEF CompleteMutate, Software, AdminInv, MailInv, Replied, Idle
  <1>2. job.request \in Requests /\ job.request.id \in Changes /\ clients[current].input = job.request
    BY <1>1, CurrentAsked, ChangeRequest, Zenon DEF CompleteMutate, Software
  <1> DEFINE new == Mutated(job.view, clients[current].input)
  <1>3. new \in Snapshots
    BY <1>1, <1>2, Published DEF Mutated, Snapshots
  <1> HIDE DEF new
  <1>4. PICK next \in Blocks \ DOMAIN heap :
            /\ heap' = [b \in DOMAIN heap \cup {next} |-> IF b = next THEN new ELSE heap[b]]
            /\ job' = [Job("activate", job.request) EXCEPT !.next = next]
    BY Zenon DEF CompleteMutate, new
  <1>5. DOMAIN heap' \subseteq Blocks /\ \A b \in DOMAIN heap' : heap'[b] \in Snapshots
    BY <1>3, <1>4, Zenon DEF AdminInv, TypeOK
  <1>6. job' \in JobType
    BY <1>2, <1>4, JobTypes DEF JobType
  <1> QED
    BY <1>5, <1>6, Zenon DEF CompleteMutate, AdminInv, TypeOK, JobType

(* complete() answers with the generation of a snapshot. *)
LEMMA CompleteReplyType ==
    ASSUME AdminInv, NEW ok \in BOOLEAN, CompleteReply(ok)
    PROVE  TypeOK'
  <1> USE DEF config, place, history, mailbox
  <1>1. DOMAIN heap' \subseteq Blocks /\ \A b \in DOMAIN heap' : heap'[b] \in Snapshots
    BY DEF CompleteReply, AdminInv, TypeOK
  <1>2. job' \in JobType
    BY JobTypes, ScanRequest, Zenon DEF CompleteReply, NoJob
  <1>2a. PICK follows \in Follows(ok) :
           LET replied == [c \in Connections |->
                              IF c = current THEN Completed(clients[c], follows) ELSE clients[c]]
           IN \E news \in SUBSET {c \in Connections : Listening(replied[c])} :
                  clients' = [c \in Connections |->
                                 IF c \in news THEN Response(replied[c]) ELSE replied[c]]
    BY Zenon DEF CompleteReply
  <1>2b. follows \in BOOLEAN
    BY DEF Follows
  <1> DEFINE replied == [c \in Connections |-> IF c = current THEN Completed(clients[c], follows) ELSE clients[c]]
  <1>3. \A c \in Connections : clients[c] \in Connection /\ Completed(clients[c], follows) \in Connection
    <2>1. \A c \in Connections : clients[c] \in Connection
      BY Zenon DEF AdminInv, TypeOK
    <2>2. ASSUME NEW c \in Connection PROVE Completed(c, follows) \in Connection
      <3>1. Response(c) \in Connection /\ Closed \in Connection
        BY <2>2, ConnectionTypes, Zenon
      <3> QED
        BY <1>2b, <3>1, Zenon DEF Completed, Connection
    <2> QED
      BY <2>1, <2>2, Zenon
  <1>4. replied \in [Connections -> Connection]
    BY <1>3, Zenon
  <1>5. PICK news \in SUBSET {c \in Connections : Listening(replied[c])} :
            clients' = [c \in Connections |-> IF c \in news THEN Response(replied[c]) ELSE replied[c]]
    BY <1>2a, Zenon
  <1> HIDE DEF replied
  <1>6. clients' \in [Connections -> Connection]
    BY <1>4, <1>5, ConnectionTypes, Zenon
  <1>7. Answer(ok) \subseteq [id : Changes, ok : BOOLEAN, generation : Nat]
    <2> SUFFICES ASSUME current # None, clients[current].input.kind = "change"
                 PROVE  /\ clients[current].input.id \in Changes
                        /\ job.view.generation \in Nat
      BY DEF Answer
    <2>1. state # Idle /\ job.view = heap[network]
      BY Zenon DEF CompleteReply, AdminInv, MailInv, Replied, Idle
    <2> QED
      BY <2>1, CurrentAsked, ChangeRequest, Published, Zenon
  <1>8. answers' \subseteq [id : Changes, ok : BOOLEAN, generation : Nat]
    BY <1>7, Zenon DEF CompleteReply, AdminInv, TypeOK
  <1> QED
    BY <1>1, <1>2, <1>6, <1>8, Zenon DEF CompleteReply, AdminInv, TypeOK, JobType

(* schedule() takes a request that is there. *)
LEMMA ScheduleType == AdminInv /\ (ScheduleClient \/ ScheduleScan) => TypeOK'
  <1> SUFFICES ASSUME AdminInv, ScheduleClient \/ ScheduleScan PROVE TypeOK'
    BY Zenon
  <1> USE DEF config, place, history, mailbox
  <1>1. CASE ScheduleClient
    <2>1. PICK n \in Turns : Ready(clients[Turn(n)]) /\ Take(Turn(n))
      BY <1>1, Zenon DEF ScheduleClient
    <2> DEFINE c == Turn(n)
    <2>2. c \in Connections
      BY TurnRange, Zenon DEF AdminInv, TypeOK
    <2> HIDE DEF c
    <2>3. Ready(clients[c]) /\ Take(c)
      BY <2>1, Zenon DEF c
    <2>4. clients[c] \in Connection /\ clients[c].input \in Requests
      BY <2>2, <2>3, Zenon DEF Ready, AdminInv, TypeOK, Connection
    <2>5. clients' \in [Connections -> Connection]
      BY <2>2, <2>3, <2>4, FieldTypes, Zenon DEF Take, AdminInv, TypeOK
    <2>6. job' \in JobType
      BY <2>3, <2>4, JobTypes, Zenon DEF Take
    <2> QED
      BY <1>1, <2>2, <2>3, <2>5, <2>6, Zenon DEF ScheduleClient, Take, AdminInv, TypeOK, JobType
  <1>2. CASE ScheduleScan
    <2>1. job' \in JobType
      BY <1>2, JobTypes, ScanRequest, Zenon DEF ScheduleScan
    <2> QED
      BY <1>2, <2>1, Zenon DEF ScheduleScan, AdminInv, TypeOK, JobType
  <1> QED
    BY <1>1, <1>2, Zenon

(* admin_progress() returns the view of a snapshot. *)
LEMMA WorkerType == AdminInv /\ Worker => TypeOK'
  <1> SUFFICES ASSUME AdminInv, Worker PROVE TypeOK'
    BY Zenon
  <1> USE DEF config, place, history, mailbox
  <1>1. ASSUME NEW result \in Results, WorkerReplies(result) PROVE TypeOK'
    <2>1. job' \in JobType
      BY <1>1, Published, Zenon DEF WorkerReplies, JobType, AdminInv, TypeOK
    <2> QED
      BY <1>1, <2>1, Zenon DEF WorkerReplies, JobType, AdminInv, TypeOK
  <1>2. CASE WorkerActivate
    <2>1. job.next \in Blocks
      BY <1>2, Zenon DEF WorkerActivate, Succeeds, AdminInv, TypeOK
    <2>2. heap[job.next] \in Snapshots
      BY <1>2 DEF WorkerActivate, AdminInv, TypeOK, MailInv, HeapInv, Carried, Asked, Idle, Replied
    <2>3. job' \in JobType
      BY <1>2, <2>2, Zenon DEF WorkerActivate, JobType, AdminInv, TypeOK, Results
    <2> QED
      BY <1>2, <2>1, <2>3, Zenon DEF WorkerActivate, JobType, AdminInv, TypeOK
  <1> QED
    BY <1>1, <1>2, Zenon DEF Worker, WorkerRead, WorkerHardware, WorkerRefuse, Results

-----------------------------------------------------------------------------
(* The invariants. *)

(* The invariant holds before the first client connects. *)
LEMMA InitAdmin == Init => AdminInv
  <1> SUFFICES ASSUME Init PROVE AdminInv
    BY Zenon
  <1>1. \A c \in Connections : clients[c].pending = FALSE /\ clients[c].input = None
    BY Zenon DEF Init, Closed
  <1>2. MailInv
    BY <1>1 DEF Init, MailInv, Idle, Replied
  <1>3. heap[network] = [generation |-> 1, changes |-> <<>>] /\ DOMAIN heap = {network}
    BY Zenon DEF Init
  <1>4. HeapInv
    BY <1>3 DEF Init, HeapInv, Carried, Idle, Asked, Replied
  <1>5. \A c \in Connections, id \in Changes : ~Waits(c, id)
    BY <1>1, NoneAssumption DEF Waits, Requests
  <1>6. IdInv /\ ToldTruth
    BY <1>3, <1>5 DEF Init, IdInv, ToldTruth
  <1> QED
    BY InitType, <1>2, <1>4, <1>6, Zenon DEF AdminInv

(* A step that leaves the mailbox, the heap and the histories alone and    *)
(* forgets at most requests whose job is not in flight keeps everything.   *)
LEMMA ForgettingKeeps ==
    ASSUME AdminInv, UNCHANGED <<state, mailbox, config, history>>,
           \A c \in Connections :
               /\ clients'[c].pending = clients[c].pending
               /\ \/ clients'[c].input = clients[c].input
                  \/ clients'[c].input = None /\ ~clients[c].pending
    PROVE  MailInv' /\ HeapInv' /\ IdInv' /\ ToldTruth'
  <1> USE DEF mailbox, config, history
  <1>1. MailInv'
    BY Zenon DEF AdminInv, TypeOK, MailInv
  <1>2. HeapInv' /\ ToldTruth'
    BY Zenon DEF AdminInv, HeapInv, Carried, ToldTruth
  <1>3. \A c \in Connections, id \in Changes : Waits(c, id)' => Waits(c, id)
    BY NoneAssumption DEF Waits, Requests
  <1>4. \A id \in Changes : Untold(id)' <=> Untold(id)
    BY Zenon DEF Untold
  <1>5. IdInv'
    BY <1>3, <1>4, Zenon DEF AdminInv, IdInv
  <1> QED
    BY <1>1, <1>2, <1>5, Zenon

(* disconnect() forgets no request in flight. *)
LEMMA DisconnectForgets ==
    ASSUME NEW c \in Connection
    PROVE  /\ Disconnected(c).pending = c.pending
           /\ \/ Disconnected(c).input = c.input
              \/ Disconnected(c).input = None /\ ~c.pending
  BY Zenon DEF Disconnected, Closed, Connection

(* The steps of the loop over the connections that read no request. *)
Served ==
    \E c \in Connections : ServeNothing(c) \/ ServeDisconnect(c) \/ ServeWrite(c) \/ ServeReject(c)

(* Connecting, disconnecting, sending and polling disturb nothing. *)
LEMMA ControlKeeps ==
    ASSUME AdminInv,
           Test \/ CompleteNothing \/ StopCheck \/ ScheduleNothing \/ Poll \/ PollFails \/ Accept
             \/ Served \/ RequestStop
    PROVE  MailInv' /\ HeapInv' /\ IdInv' /\ ToldTruth'
  <1>1. UNCHANGED <<state, mailbox, config, history>>
    BY Zenon DEF Test, CompleteNothing, StopCheck, ScheduleNothing, Poll, PollFails, Accept, AcceptClient,
           AcceptEnd, Served, ServeNothing, ServeDisconnect, ServeWrite, ServeReject, RequestStop
  <1>2. \A c \in Connections :
               /\ clients'[c].pending = clients[c].pending
               /\ \/ clients'[c].input = clients[c].input
                  \/ clients'[c].input = None /\ ~clients[c].pending
    <2>1. clients \in [Connections -> Connection]
      BY Zenon DEF AdminInv, TypeOK
    <2>2. CASE clients' = clients
      BY <2>2, Zenon
    <2>3. CASE DisconnectAll
      BY <2>1, <2>3, DisconnectForgets, Zenon DEF DisconnectAll
    <2>4. CASE AcceptClient
      <3>1. PICK c \in Connections : ~clients[c].pending /\ clients' = [clients EXCEPT ![c] = Accepted]
        BY <2>4, Zenon DEF AcceptClient
      <3> QED
        BY <2>1, <3>1, Zenon DEF Accepted, Closed, Connection
    <2>5. ASSUME NEW c \in Connections, ServeDisconnect(c)
          PROVE  \A d \in Connections :
                     /\ clients'[d].pending = clients[d].pending
                     /\ \/ clients'[d].input = clients[d].input
                        \/ clients'[d].input = None /\ ~clients[d].pending
      BY <2>1, <2>5, DisconnectForgets, Zenon DEF ServeDisconnect
    <2>6. ASSUME NEW c \in Connections, ServeWrite(c)
          PROVE  \A d \in Connections :
                     clients'[d].pending = clients[d].pending /\ clients'[d].input = clients[d].input
      BY <2>1, <2>6, Zenon DEF ServeWrite, Connection
    <2>7. ASSUME NEW c \in Connections, ServeReject(c)
          PROVE  \A d \in Connections :
                     /\ clients'[d].pending = clients[d].pending
                     /\ \/ clients'[d].input = clients[d].input
                        \/ clients'[d].input = None /\ ~clients[d].pending
      BY <2>1, <2>7, Zenon DEF ServeReject, Response, Readable, Connection
    <2>8. CASE Served
      BY <2>2, <2>5, <2>6, <2>7, <2>8, Zenon DEF Served, ServeNothing
    <2> QED
      BY <2>2, <2>3, <2>4, <2>8, Zenon
         DEF Test, CompleteNothing, StopCheck, ScheduleNothing, Poll, PollFails, Accept,
             AcceptEnd, RequestStop
  <1> QED
    BY <1>1, <1>2, ForgettingKeeps, Zenon

(* A request that is read, from the connection at index, gets a number of its own. *)
LEMMA ServeReadKeeps ==
    ASSUME AdminInv, NEW index \in Connections, ServeRead(index)
    PROVE  MailInv' /\ HeapInv' /\ IdInv' /\ ToldTruth'
  <1> USE DEF mailbox, config, history
  <1>1. PICK request \in Requests :
            /\ request.kind = "change" => request.id = asked + 1
            /\ clients' = [clients EXCEPT ![index].input = request]
            /\ asked' = IF request.kind = "change" THEN request.id ELSE asked
    BY Zenon DEF ServeRead
  <1>2. /\ clients \in [Connections -> Connection] /\ asked \in Nat
        /\ ~clients[index].pending /\ UNCHANGED <<state, mailbox, config, answers>>
    BY DEF ServeRead, Readable, AdminInv, TypeOK
  <1>3. \A c \in Connections : /\ clients'[c].pending = clients[c].pending
                               /\ clients'[c].input = IF c = index THEN request ELSE clients[c].input
    BY <1>1, <1>2, Zenon DEF Connection
  <1>4. MailInv'
    BY <1>2, <1>3, Zenon DEF AdminInv, TypeOK, MailInv
  <1>5. HeapInv' /\ ToldTruth'
    BY <1>2, Zenon DEF AdminInv, HeapInv, Carried, ToldTruth
  <1>6. asked' \in Nat /\ asked <= asked' /\ (request.kind = "change" => asked' = asked + 1)
    BY <1>1, <1>2
  <1>7. \A c \in Connections, id \in Changes :
            Waits(c, id)' => (Waits(c, id) /\ c # index) \/ (c = index /\ id = asked + 1 /\ asked' = asked + 1)
    <2> SUFFICES ASSUME NEW c \in Connections, NEW id \in Changes, Waits(c, id)'
                 PROVE  (Waits(c, id) /\ c # index) \/ (c = index /\ id = asked + 1 /\ asked' = asked + 1)
      BY Zenon
    <2>1. CASE c # index
      BY <1>3, <2>1, Zenon DEF Waits
    <2>2. CASE c = index
      <3>1. request = [kind |-> "change", id |-> id]
        BY <1>3, <2>2, Zenon DEF Waits
      <3> QED
        BY <1>1, <1>6, <2>2, <3>1, Zenon
    <2> QED
      BY <2>1, <2>2, Zenon
  <1>8. \A id \in Changes : Untold(id)' <=> Untold(id)
    BY <1>2, Zenon DEF Untold
  <1> DEFINE changes == heap[network].changes
  <1>9. /\ \A i \in DOMAIN changes : changes[i] \in Nat /\ changes[i] <= asked
        /\ \A a \in answers : a.id \in Nat /\ a.id <= asked
        /\ changes' = changes
    <2>1. changes \in Seq(Changes) /\ \A a \in answers : a.id \in Changes
      BY Published, Zenon DEF AdminInv, TypeOK
    <2>2. \A i \in DOMAIN changes : changes[i] \in Changes
      BY <2>1
    <2> QED
      BY <1>2, <2>1, <2>2 DEF AdminInv, IdInv, Changes
  <1>10. \A c \in Connections, id \in Changes : Waits(c, id) =>
           /\ id <= asked
           /\ \A a \in answers : a.id # id
           /\ \A i \in DOMAIN changes : changes[i] = id => Untold(id)
           /\ \A d \in Connections : Waits(d, id) => c = d
    BY Zenon DEF AdminInv, IdInv
  <1> HIDE DEF changes
  <1>11. IdInv'
    <2>1. /\ \A i \in DOMAIN changes' : changes'[i] <= asked'
          /\ \A a \in answers' : a.id <= asked'
      BY <1>2, <1>6, <1>9
    <2>2. ASSUME NEW c \in Connections, NEW id \in Changes, Waits(c, id)'
          PROVE  /\ id <= asked'
                 /\ \A a \in answers' : a.id # id
                 /\ \A i \in DOMAIN changes' : changes'[i] = id => Untold(id)'
                 /\ \A d \in Connections : Waits(d, id)' => c = d
      <3>1. id \in Nat
        BY DEF Changes
      <3>2. CASE Waits(c, id) /\ c # index
        BY <1>2, <1>6, <1>7, <1>8, <1>9, <1>10, <3>1, <3>2
      <3>3. CASE c = index /\ id = asked + 1 /\ asked' = asked + 1
        BY <1>2, <1>6, <1>7, <1>9, <1>10, <3>1, <3>3
      <3> QED
        BY <1>7, <2>2, <3>2, <3>3, Zenon
    <2> QED
      BY <2>1, <2>2, Zenon DEF IdInv, changes
  <1> QED
    BY <1>4, <1>5, <1>11, Zenon

(* schedule() puts a job into an idle mailbox. *)
LEMMA ScheduleKeeps ==
    ASSUME AdminInv, ScheduleClient \/ ScheduleScan
    PROVE  MailInv' /\ HeapInv' /\ IdInv' /\ ToldTruth'
  <1> USE DEF mailbox, config, history
  <1>1. /\ state = Idle /\ state' = Asked /\ phase = 0 /\ phase' = 0 /\ current = None
        /\ UNCHANGED <<config, history>>
        /\ clients \in [Connections -> Connection]
    BY Zenon DEF ScheduleClient, ScheduleScan, Take, AdminInv, MailInv, TypeOK
  <1>2. \A c \in Connections : ~clients[c].pending
    BY <1>1, Zenon DEF AdminInv, MailInv
  <1>3. /\ \A c \in Connections : clients'[c].input = clients[c].input
        /\ MailInv'
    <2>1. CASE ScheduleClient
      <3>1. PICK n \in Turns : Ready(clients[Turn(n)]) /\ Take(Turn(n))
        BY <2>1, Zenon DEF ScheduleClient
      <3> DEFINE c == Turn(n)
      <3>2. c \in Connections
        BY TurnRange, Zenon DEF AdminInv, TypeOK
      <3> HIDE DEF c
      <3>3. Take(c)
        BY <3>1, Zenon DEF c
      <3>4. \A d \in Connections : /\ clients'[d].pending <=> d = c
                                   /\ clients'[d].input = clients[d].input
        BY <1>1, <1>2, <3>2, <3>3, Zenon DEF Take, Connection
      <3>5. /\ job'.request = clients[c].input /\ job'.type \in {"hardware", "read"}
            /\ current' = c
        BY <3>3, Zenon DEF Take, Job
      <3> QED
        BY <1>1, <1>2, <3>2, <3>4, <3>5 DEF MailInv, Idle, Asked, Replied
    <2>2. CASE ScheduleScan
      <3>1. job'.type = "read" /\ current' = None /\ clients' = clients
        BY <2>2, Zenon DEF ScheduleScan, Job
      <3> QED
        BY <1>1, <1>2, <3>1, NoneAssumption DEF MailInv, Idle, Asked, Replied
    <2> QED
      BY <2>1, <2>2, Zenon
  <1>4. HeapInv' /\ ToldTruth'
    BY <1>1 DEF AdminInv, HeapInv, Carried, ToldTruth, Idle, Asked, Replied
  <1>5. \A c \in Connections, id \in Changes : Waits(c, id)' <=> Waits(c, id)
    BY <1>3, Zenon DEF Waits
  <1>6. \A id \in Changes : ~Untold(id)
    BY <1>1 DEF Untold
  <1>7. IdInv'
    BY <1>1, <1>5, <1>6, Zenon DEF AdminInv, IdInv
  <1> QED
    BY <1>3, <1>4, <1>7, Zenon

(* complete() builds the candidate from what is still the published        *)
(* snapshot: nothing is published while the reply waits.                   *)
LEMMA CompleteMutateKeeps == AdminInv /\ CompleteMutate => MailInv' /\ HeapInv' /\ IdInv' /\ ToldTruth'
  <1> SUFFICES ASSUME AdminInv, CompleteMutate PROVE MailInv' /\ HeapInv' /\ IdInv' /\ ToldTruth'
    BY Zenon
  <1> USE DEF mailbox, config, history
  <1>1. /\ state = Replied /\ state' = Asked /\ phase = 0 /\ phase' = 1 /\ current # None
        /\ UNCHANGED <<clients, current, network, history>> /\ job.view = heap[network]
        /\ clients[current].input.kind = "change"
    BY Zenon DEF CompleteMutate, Software, AdminInv, MailInv
  <1>2. clients[current].input = job.request /\ job.request \in Requests
    BY <1>1, CurrentAsked DEF Replied, Idle
  <1>3. PICK next \in Blocks \ DOMAIN heap :
            /\ heap' = [b \in DOMAIN heap \cup {next} |->
                           IF b = next THEN Mutated(job.view, clients[current].input) ELSE heap[b]]
            /\ job' = [Job("activate", job.request) EXCEPT !.next = next]
    BY Zenon DEF CompleteMutate
  <1>4. job'.type = "activate" /\ job'.request = job.request /\ job'.next = next
    BY <1>3, Zenon DEF Job
  <1>5. /\ DOMAIN heap = {network} /\ network # next
        /\ DOMAIN heap' = {network, next}
        /\ heap'[network] = heap[network]
        /\ heap'[next] = Mutated(heap[network], job.request)
    BY <1>1, <1>2, <1>3, Zenon DEF AdminInv, HeapInv, Carried
  <1>6. MailInv'
    BY <1>1, <1>2, <1>4 DEF AdminInv, MailInv, Idle, Asked, Replied
  <1>7. HeapInv'
    BY <1>1, <1>4, <1>5 DEF AdminInv, HeapInv, Carried, Idle, Asked, Replied
  <1>8. ToldTruth'
    BY <1>1, <1>5, Zenon DEF AdminInv, ToldTruth
  <1>9. IdInv'
    <2>1. \A c \in Connections, id \in Changes : Waits(c, id)' <=> Waits(c, id)
      BY <1>1, Zenon DEF Waits
    <2>2. \A id \in Changes : ~Untold(id)
      BY <1>1 DEF Untold
    <2> QED
      BY <1>1, <1>5, <2>1, <2>2, Zenon DEF AdminInv, IdInv
  <1> QED
    BY <1>6, <1>7, <1>8, <1>9, Zenon

(* The worker's replies that publish nothing; a candidate is not stale. *)
LEMMA WorkerReplyKeeps ==
    ASSUME AdminInv, state = Asked,
           NEW result \in Results, WorkerReplies(result), result # "stale",
           phase = 1 => result # "ok"
    PROVE  MailInv' /\ HeapInv' /\ IdInv' /\ ToldTruth'
  <1> USE DEF mailbox, config, history
  <1>1. /\ state' = Replied /\ UNCHANGED <<clients, current, phase, config, history>>
        /\ job' = [job EXCEPT !.result = result, !.view = heap[network]]
        /\ job \in JobType /\ phase \in {0, 1}
    BY Zenon DEF WorkerReplies, AdminInv, TypeOK, JobType
  <1>2. /\ job'.type = job.type /\ job'.request = job.request /\ job'.next = job.next
        /\ job'.result = result /\ job'.view = heap[network]
    BY <1>1, Zenon DEF JobType
  <1>3. MailInv'
    BY <1>1, <1>2 DEF AdminInv, MailInv, Idle, Asked, Replied
  <1>4. HeapInv'
    <2>1. Carried' = Carried
      BY <1>1, <1>2 DEF Carried, Idle, Asked, Replied
    <2>2. ~(state' = Asked) /\ ~(phase' = 1 /\ job'.result = "ok")
      BY <1>1, <1>2 DEF Asked, Replied
    <2> QED
      BY <1>1, <2>1, <2>2, Zenon DEF AdminInv, HeapInv
  <1>5. ToldTruth'
    BY <1>1, Zenon DEF AdminInv, ToldTruth
  <1>6. IdInv'
    <2>1. \A c \in Connections, id \in Changes : Waits(c, id)' <=> Waits(c, id)
      BY <1>1, Zenon DEF Waits
    <2>2. \A id \in Changes : ~Untold(id)
      BY DEF Untold, Asked, Replied
    <2> QED
      BY <1>1, <2>1, <2>2, Zenon DEF AdminInv, IdInv
  <1> QED
    BY <1>3, <1>4, <1>5, <1>6, Zenon

(* The worker publishes the candidate: its change, asked for once, becomes *)
(* the last one of the configuration.                                      *)
LEMMA WorkerActivateKeeps == AdminInv /\ WorkerActivate => MailInv' /\ HeapInv' /\ IdInv' /\ ToldTruth'
  <1> SUFFICES ASSUME AdminInv, WorkerActivate PROVE MailInv' /\ HeapInv' /\ IdInv' /\ ToldTruth'
    BY Zenon
  <1> USE DEF mailbox, config, history
  <1>1. /\ state = Asked /\ state' = Replied /\ job.type = "activate" /\ job \in JobType
        /\ UNCHANGED <<clients, current, phase, heap, history>> /\ network' = job.next
        /\ job' = [job EXCEPT !.retired = network, !.result = "ok", !.view = heap[job.next]]
    BY Zenon DEF WorkerActivate, AdminInv, TypeOK, JobType
  <1>2. /\ job'.type = job.type /\ job'.request = job.request /\ job'.retired = network
        /\ job'.result = "ok" /\ job'.view = heap[job.next]
    BY <1>1, Zenon DEF JobType
  <1>3. phase = 1 /\ current # None /\ job.request.kind = "change"
    BY <1>1, Zenon DEF AdminInv, TypeOK, MailInv, Asked, Idle
  <1>4. job.request.id \in Changes /\ job.request = [kind |-> "change", id |-> job.request.id]
    BY <1>1, <1>3, ChangeRequest, Zenon DEF JobType
  <1>5. /\ DOMAIN heap = {network, job.next} /\ network # job.next
        /\ heap[job.next] = Mutated(heap[network], job.request)
        /\ heap[network].generation = Len(heap[network].changes) + 1
    BY <1>1, <1>3 DEF AdminInv, HeapInv, Carried, Asked, Idle, Replied
  <1> DEFINE old == heap[network].changes
             new == heap[job.next].changes
             id == job.request.id
  <1>6. /\ old \in Seq(Changes) /\ new = Append(old, id) /\ id \in Changes
        /\ heap[job.next].generation = Len(old) + 2
    BY <1>4, <1>5, Published DEF Mutated
  <1> HIDE DEF old, new, id
  <1>7. /\ Len(new) = Len(old) + 1 /\ Len(old) \in Nat /\ new[Len(new)] = id
        /\ DOMAIN old = 1 .. Len(old) /\ DOMAIN new = 1 .. Len(old) + 1
        /\ \A i \in 1 .. Len(old) : new[i] = old[i]
    BY <1>6
  <1>8. heap'[network'].changes = new /\ heap'[network'].generation = Len(old) + 2
    BY <1>1, <1>6, Zenon DEF new
  <1>9. MailInv'
    BY <1>1, <1>2, <1>3 DEF AdminInv, MailInv, Idle, Asked, Replied
  <1>10. HeapInv'
    BY <1>1, <1>2, <1>3, <1>5, <1>7, <1>8 DEF HeapInv, Carried, Idle, Asked, Replied, id
  <1>11. \A c \in Connections, n \in Changes : /\ Waits(c, n)' <=> Waits(c, n)
                                               /\ ~Untold(n) /\ (Untold(n)' <=> n = id)
    BY <1>1, <1>2, <1>3 DEF Waits, Untold, Asked, Replied, id
  <1>12. Waits(current, id) /\ current \in Connections
    BY <1>1, <1>3, <1>4, CurrentAsked DEF Waits, Asked, Idle, id
  <1>13. /\ \A a \in answers : a.id # id
         /\ id <= asked
    BY <1>6, <1>12, Zenon DEF AdminInv, IdInv
  <1>14. ToldTruth'
    <2> SUFFICES ASSUME NEW a \in answers
                 PROVE  IF a.ok THEN a.generation \in 2 .. Len(new) + 1 /\ new[a.generation - 1] = a.id
                        ELSE \A i \in DOMAIN new : new[i] # a.id
      BY <1>1, <1>8, Zenon DEF ToldTruth
    <2>1. IF a.ok THEN a.generation \in 2 .. Len(old) + 1 /\ old[a.generation - 1] = a.id
                  ELSE \A i \in DOMAIN old : old[i] # a.id
      BY Zenon DEF AdminInv, ToldTruth, old
    <2> QED
      BY <1>7, <1>13, <2>1
  <1>15. IdInv'
    <2>1. \A i \in DOMAIN old : old[i] <= asked
      BY Zenon DEF AdminInv, IdInv, old
    <2>2. \A i \in DOMAIN new : new[i] <= asked
      BY <1>7, <1>13, <2>1
    <2>3. ASSUME NEW c \in Connections, NEW n \in Changes, Waits(c, n)
          PROVE  /\ n <= asked
                 /\ \A a \in answers : a.id # n
                 /\ \A i \in DOMAIN old : old[i] # n
                 /\ \A d \in Connections : Waits(d, n) => c = d
      BY <1>11, <2>3, Zenon DEF AdminInv, IdInv, old
    <2>4. ASSUME NEW c \in Connections, NEW n \in Changes, Waits(c, n),
                 NEW i \in DOMAIN new, new[i] = n
          PROVE  n = id
      BY <1>7, <2>3, <2>4
    <2> QED
      BY <1>1, <1>8, <1>11, <2>2, <2>3, <2>4 DEF AdminInv, IdInv
  <1> QED
    BY <1>9, <1>10, <1>14, <1>15, Zenon

(* complete() frees what the job left over and tells the client what       *)
(* became of its request.                                                  *)
LEMMA CompleteReplyKeeps ==
    ASSUME AdminInv, NEW ok \in BOOLEAN, CompleteReply(ok)
    PROVE  MailInv' /\ HeapInv' /\ IdInv' /\ ToldTruth'
  <1> USE DEF mailbox, config, history
  <1>1. /\ state = Replied /\ state' = Idle /\ phase' = 0 /\ current' = None
        /\ UNCHANGED <<network, asked>> /\ answers' = answers \cup Answer(ok)
        /\ phase \in {0, 1} /\ job \in JobType /\ job.view = heap[network]
        /\ clients \in [Connections -> Connection]
    BY Zenon DEF CompleteReply, AdminInv, MailInv, TypeOK, JobType
  <1>2. PICK result \in (IF Software THEN {"error"} ELSE {job.result}) :
            /\ heap' = [b \in DOMAIN heap \ Reclaimed(result) |-> heap[b]]
            /\ current # None => ok \in Told(clients[current].input, result)
    BY Zenon DEF CompleteReply
  (* The heap. *)
  <1>3. Reclaimed(result) = Carried
    BY <1>1, <1>2 DEF Reclaimed, Carried, Software, Idle, Replied
  <1>4. DOMAIN heap' = {network} /\ heap'[network] = heap[network]
    BY <1>2, <1>3, Zenon DEF AdminInv, HeapInv
  <1>5. HeapInv'
    BY <1>1, <1>4 DEF AdminInv, HeapInv, Carried, Idle, Asked, Replied
  (* The connections: only the job's client loses a request. *)
  <1>6. \A c \in Connections :
            /\ ~clients'[c].pending
            /\ clients'[c].input = None \/ (clients'[c].input = clients[c].input /\ c # current)
    <2>1a. PICK follows \in Follows(ok) :
             LET replied == [c \in Connections |->
                                IF c = current THEN Completed(clients[c], follows) ELSE clients[c]]
             IN \E news \in SUBSET {c \in Connections : Listening(replied[c])} :
                    clients' = [c \in Connections |->
                                   IF c \in news THEN Response(replied[c]) ELSE replied[c]]
      BY Zenon DEF CompleteReply
    <2>1b. follows \in BOOLEAN
      BY DEF Follows
    <2> DEFINE replied == [c \in Connections |-> IF c = current THEN Completed(clients[c], follows) ELSE clients[c]]
    <2>1c. PICK news \in SUBSET {c \in Connections : Listening(replied[c])} :
              clients' = [c \in Connections |-> IF c \in news THEN Response(replied[c]) ELSE replied[c]]
      BY <2>1a, Zenon
    <2>2. \A c \in Connections : /\ replied[c] \in Connection /\ ~replied[c].pending
                                 /\ replied[c].input = None \/ (replied[c].input = clients[c].input /\ c # current)
      <3> SUFFICES ASSUME NEW c \in Connections
                   PROVE  /\ replied[c] \in Connection /\ ~replied[c].pending
                          /\ replied[c].input = None \/ (replied[c].input = clients[c].input /\ c # current)
        BY Zenon
      <3>1. CASE c # current
        BY <1>1, <3>1, Zenon DEF AdminInv, MailInv
      <3>2. CASE c = current
        <4>1. follows \in BOOLEAN /\ Response(clients[c]) \in Connection /\ Closed \in Connection
          BY <1>1, <2>1b, ConnectionTypes, Zenon
        <4>2. replied[c] = IF ~clients[c].open THEN Closed
                ELSE [Response(clients[c]) EXCEPT !.pending = FALSE, !.subscribed = follows]
          BY <3>2, Zenon DEF Completed
        <4>3. Response(clients[c]).input = None /\ Closed.input = None /\ ~Closed.pending
          BY <1>1, Zenon DEF Response, Closed, Connection
        <4> HIDE DEF replied
        <4> QED
          BY <4>1, <4>2, <4>3, Zenon DEF Connection
      <3> QED
        BY <3>1, <3>2, Zenon
    <2> HIDE DEF replied
    <2> QED
      BY <2>1c, <2>2, Zenon DEF Response, Connection
  <1>7. MailInv'
    BY <1>1, <1>6, NoneAssumption DEF MailInv, Idle, Replied
  <1>8. \A c \in Connections, id \in Changes :
            Waits(c, id)' => Waits(c, id) /\ c # current /\ ~Untold(id)'
    BY <1>1, <1>6, NoneAssumption DEF Waits, Requests, Untold, Idle, Replied
  (* The answer: the request was waited for by this client alone. *)
  <1> DEFINE changes == heap[network].changes
             told == clients[current].input
  <1>9. changes \in Seq(Changes) /\ heap'[network'].changes = changes
    BY <1>1, <1>4, Published, Zenon
  <1> HIDE DEF changes
  <1>10. ASSUME NEW a \in Answer(ok)
         PROVE  /\ current \in Connections /\ told.id \in Changes /\ Waits(current, told.id)
                /\ a.id = told.id /\ a.ok = ok /\ a.generation = heap[network].generation
                /\ current # None /\ told = job.request /\ told.kind = "change"
    <2>1. current # None /\ told.kind = "change"
      BY <1>10, Zenon DEF Answer
    <2>2. a = [id |-> told.id, ok |-> ok, generation |-> job.view.generation]
      BY <1>10, Zenon DEF Answer
    <2>3. current \in Connections /\ told = job.request /\ told \in Requests
      BY <1>1, <2>1, CurrentAsked DEF Replied, Idle
    <2>4. told.id \in Changes /\ Waits(current, told.id)
      BY <2>1, <2>3, ChangeRequest, Zenon DEF Waits
    <2> QED
      BY <1>1, <2>1, <2>2, <2>3, <2>4, Zenon
  <1>11. IdInv'
    <2>1. \A a \in answers' : a.id <= asked'
      BY <1>1, <1>10, Zenon DEF AdminInv, IdInv
    <2>2. \A i \in DOMAIN changes : changes[i] <= asked'
      BY <1>1, Zenon DEF AdminInv, IdInv, changes
    <2>3. ASSUME NEW c \in Connections, NEW id \in Changes, Waits(c, id)'
          PROVE  /\ id <= asked'
                 /\ \A a \in answers' : a.id # id
                 /\ \A i \in DOMAIN changes : changes[i] # id
                 /\ \A d \in Connections : Waits(d, id)' => c = d
      <3>1. Waits(c, id) /\ c # current
        BY <1>8, <2>3, Zenon
      <3>2. /\ id <= asked /\ \A a \in answers : a.id # id
            /\ \A i \in DOMAIN changes : changes[i] = id => Untold(id)
            /\ \A d \in Connections : Waits(d, id) => c = d
        BY <3>1, Zenon DEF AdminInv, IdInv, changes
      <3>3. \A a \in Answer(ok) : a.id # id
        BY <1>10, <3>1, <3>2, Zenon
      <3>4. ~Untold(id)
        <4> SUFFICES ASSUME Untold(id) PROVE FALSE
          BY Zenon
        <4>1. current # None /\ job.request.kind = "change" /\ job.request.id = id
          BY Zenon DEF Untold, AdminInv, MailInv
        <4>2. current \in Connections /\ told = job.request /\ told \in Requests
          BY <1>1, <4>1, CurrentAsked DEF Replied, Idle
        <4>3. Waits(current, id)
          BY <4>1, <4>2, ChangeRequest, Zenon DEF Waits
        <4> QED
          BY <3>1, <3>2, <4>2, <4>3, Zenon
      <3> QED
        BY <1>1, <1>8, <3>2, <3>3, <3>4, Zenon
    <2> QED
      BY <1>9, <2>1, <2>2, <2>3, Zenon DEF IdInv
  <1>12. ToldTruth'
    <2> SUFFICES ASSUME NEW a \in answers'
                 PROVE  IF a.ok THEN a.generation \in 2 .. Len(changes) + 1 /\ changes[a.generation - 1] = a.id
                        ELSE \A i \in DOMAIN changes : changes[i] # a.id
      BY <1>9, Zenon DEF ToldTruth
    <2>1. CASE a \in answers
      BY <2>1, Zenon DEF AdminInv, ToldTruth, changes
    <2>2. CASE a \in Answer(ok)
      <3>1. \A i \in DOMAIN changes : changes[i] = told.id => Untold(told.id)
        BY <1>10, <2>2, Zenon DEF AdminInv, IdInv, changes
      <3>2. CASE ok
        <4>1. result = "ok" /\ ~Software
          BY <1>2, <1>10, <2>2, <3>2, Zenon DEF Told
        <4>2. phase = 1 /\ job.result = "ok"
          BY <1>1, <1>2, <1>10, <2>2, <4>1, Zenon DEF Software
        <4>3. /\ Len(changes) > 0 /\ changes[Len(changes)] = job.request.id
              /\ heap[network].generation = Len(changes) + 1 /\ Len(changes) \in Nat
          <5>1. Len(changes) > 0 /\ changes[Len(changes)] = job.request.id
            BY <1>1, <4>2, Zenon DEF AdminInv, HeapInv, changes
          <5>2. heap[network].generation = Len(changes) + 1
            BY Zenon DEF AdminInv, HeapInv, changes
          <5> QED
            BY <1>9, <5>1, <5>2
        <4>4. a.ok /\ a.generation = Len(changes) + 1 /\ a.id = job.request.id
          BY <1>10, <2>2, <3>2, <4>3, Zenon
        <4>5. a.generation - 1 = Len(changes) /\ a.generation \in 2 .. Len(changes) + 1
          BY <4>3, <4>4
        <4> QED
          BY <4>3, <4>4, <4>5, Zenon
      <3>3. CASE ~ok
        <4>1. result # "ok"
          BY <1>2, <1>10, <2>2, <3>3, Zenon DEF Told
        <4>2. ~(phase = 1 /\ job.result = "ok")
          BY <1>2, <4>1 DEF Software
        <4>3. ~Untold(told.id)
          BY <4>2, Zenon DEF Untold
        <4> QED
          BY <1>10, <2>2, <3>1, <3>3, <4>3, Zenon
      <3> QED
        BY <3>2, <3>3, Zenon
    <2> QED
      BY <1>1, <2>1, <2>2, Zenon
  <1> QED
    BY <1>5, <1>7, <1>11, <1>12, Zenon

-----------------------------------------------------------------------------
(* The theorems. *)

(* Every step of the control thread and of the worker keeps the invariant. *)
LEMMA AdminStep == AdminInv /\ [Next]_vars => AdminInv'
  <1> SUFFICES ASSUME AdminInv, [Next]_vars PROVE AdminInv'
    BY Zenon
  <1>1. CASE UNCHANGED vars
    <2>1. /\ state' = state /\ stopping' = stopping /\ done' = done
          /\ clients' = clients /\ current' = current /\ phase' = phase /\ cursor' = cursor
          /\ job' = job /\ network' = network /\ heap' = heap /\ pc' = pc
          /\ polled' = polled /\ asked' = asked /\ answers' = answers
      BY <1>1, Zenon DEF vars, mailbox, config, place, history
    <2>2. TypeOK'
      BY <2>1 DEF AdminInv, TypeOK
    <2>3. MailInv'
      BY <2>1, Zenon DEF AdminInv, MailInv
    <2>4. HeapInv'
      BY <2>1, Zenon DEF AdminInv, HeapInv, Carried
    <2>5. IdInv'
      BY <2>1 DEF AdminInv, IdInv, Untold, Waits
    <2>6. ToldTruth'
      BY <2>1, Zenon DEF AdminInv, ToldTruth, Untold, Waits
    <2> QED
      BY <2>2, <2>3, <2>4, <2>5, <2>6, Zenon DEF AdminInv
  <1>2. CASE Test \/ CompleteNothing \/ StopCheck \/ ScheduleNothing \/ Poll \/ PollFails
             \/ Accept \/ Served \/ RequestStop
    <2>1. CASE RequestStop
      <3>1. MailInv' /\ HeapInv' /\ IdInv' /\ ToldTruth'
        BY <2>1, ControlKeeps, Zenon
      <3>2. /\ stopping' = TRUE /\ state' = state /\ done' = done
            /\ clients' = clients /\ current' = current /\ phase' = phase /\ cursor' = cursor
            /\ job' = job /\ network' = network /\ heap' = heap /\ pc' = pc
            /\ polled' = polled /\ asked' = asked /\ answers' = answers
        BY <2>1, Zenon DEF RequestStop, mailbox, config, place, history
      <3>3. TypeOK'
        BY <3>2 DEF AdminInv, TypeOK
      <3> QED
        BY <3>1, <3>3, Zenon DEF AdminInv
    <2> QED
      BY <1>2, <2>1, ControlType, ControlKeeps, Zenon DEF AdminInv, Serve, Served
  <1>3. CASE \E c \in Connections : ServeRead(c)
    BY <1>3, ControlType, ServeReadKeeps, Zenon DEF AdminInv, Serve
  <1>4. CASE ScheduleClient \/ ScheduleScan
    BY <1>4, ScheduleType, ScheduleKeeps, Zenon DEF AdminInv
  <1>5. CASE CompleteMutate
    BY <1>5, CompleteMutateType, CompleteMutateKeeps, Zenon DEF AdminInv
  <1>6. CASE \E ok \in BOOLEAN : CompleteReply(ok)
    BY <1>6, CompleteReplyType, CompleteReplyKeeps, Zenon DEF AdminInv
  <1>7. CASE Worker
    <2>1. TypeOK'
      BY <1>7, WorkerType, Zenon
    <2>2. CASE WorkerActivate
      BY <2>1, <2>2, WorkerActivateKeeps, Zenon DEF AdminInv
    <2>3. CASE WorkerRead \/ WorkerHardware
      <3>1. state = Asked /\ phase # 1
        BY <2>3, Zenon DEF WorkerRead, WorkerHardware, AdminInv, MailInv
      <3>2. \E result \in Results : WorkerReplies(result) /\ result # "stale"
        BY <2>3, Zenon DEF WorkerRead, WorkerHardware, Results
      <3> QED
        BY <2>1, <3>1, <3>2, WorkerReplyKeeps, Zenon DEF AdminInv
    <2>4. CASE WorkerRefuse
      <3>1. state = Asked /\ phase = 1
        BY <2>4, Zenon DEF WorkerRefuse, AdminInv, MailInv, TypeOK, Asked, Idle
      <3>2. job.next \in DOMAIN heap /\ heap[job.next] = Mutated(heap[network], job.request)
        BY <3>1 DEF AdminInv, HeapInv, Carried, Asked, Idle, Replied
      <3>3. Succeeds
        BY <3>2, NoneAssumption DEF Succeeds, Mutated, AdminInv, TypeOK
      <3>4. WorkerReplies("busy") /\ "busy" \in Results
        BY <2>4, <3>3, Zenon DEF WorkerRefuse, Results
      <3> QED
        BY <2>1, <3>1, <3>4, WorkerReplyKeeps, Zenon DEF AdminInv
    <2> QED
      BY <1>7, <2>2, <2>3, <2>4, Zenon DEF Worker
  <1> QED
    BY <1>1, <1>2, <1>3, <1>4, <1>5, <1>6, <1>7, Zenon DEF Next, Control, Complete, Schedule, Serve, Served

(* The inductive invariant holds in every state of the service. *)
THEOREM AdminInvariant == Spec => []AdminInv
  BY InitAdmin, AdminStep, PTL DEF Spec

(* Every snapshot that complete() and the worker pass between them is      *)
(* freed exactly once and never while it is published: nothing but the     *)
(* published snapshot and the one in the mailbox is allocated.             *)
THEOREM SnapshotsAreOwned == Spec => []SnapshotsOwned
  <1>1. AdminInv => SnapshotsOwned
    BY Zenon DEF AdminInv, HeapInv, SnapshotsOwned
  <1> QED
    BY <1>1, AdminInvariant, PTL

(* The reply of a job goes to the client that asked, and what a client is  *)
(* told of its change is true of the configuration, then and later.        *)
THEOREM AnswersAreTrue == Spec => []AnswersTrue
  <1>1. AdminInv => AnswersTrue
    BY Zenon DEF AdminInv, MailInv, ToldTruth, AnswersTrue
  <1> QED
    BY <1>1, AdminInvariant, PTL
=============================================================================
