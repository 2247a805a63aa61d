------------------------- MODULE DaemonSessionProofs -------------------------
(***************************************************************************)
(* Proofs about the sessions of the daemon, for any number of clients,     *)
(* sessions and sockets and any size of the queues and of a batch: each    *)
(* session has at most one message on its way, a descriptor names a socket *)
(* of its client, no socket is orphaned, every answer fits the request it  *)
(* answers and no wake-up is lost.                                         *)
(*                                                                         *)
(* The argument looks at the queues as sets of messages.  Two messages     *)
(* never have the same owner, so a message that is taken from a queue      *)
(* leaves the set, and what a session is waiting for is the one message    *)
(* with its owner, wherever that is.                                       *)
(***************************************************************************)
EXTENDS DaemonSession, TLAPS

(* The messages of a queue, their owners, and that no two have the same.   *)
Messages(q) == {q[i] : i \in DOMAIN q}
OwnersIn(q) == {q[i].owner : i \in DOMAIN q}
Distinct(q) == \A i, j \in DOMAIN q : q[i].owner = q[j].owner => i = j

(* Socket f is open and belongs to session o. *)
Mine(f, o) == sockets[f].state \in {"open", "listen"} /\ sockets[f].owner = o

(* Where the threads are: the locals of their loops. *)
LoopInv ==
    /\ cpc \notin {"scan", "serve"} => index = 1
    /\ cpc = "serve" => index \in Clients
    /\ live < index /\ (cpc # "scan" => live = 0)
    /\ wpc = "push" <=> hand # NoRequest
    /\ wpc = "push" => Len(responses) < QueueSize /\ count < Batch

(* Nothing is in the response queue past collect_responses unless the      *)
(* worker has announced it or is about to.                                 *)
WakeInv == cpc \notin {"drain", "collect"} /\ responses # <<>> => event \/ count # 0

(* A session is pending while one message with its owner is on the way. *)
QueueInv ==
    /\ Distinct(requests) /\ Distinct(responses)
    /\ OwnersIn(requests) \cap OwnersIn(responses) = {}
    /\ hand.owner \notin OwnersIn(requests) \cup OwnersIn(responses)
    /\ OwnersIn(requests) \cup OwnersIn(responses) \subseteq Sessions
    /\ hand # NoRequest => hand.owner \in Sessions
    /\ \A c \in Clients : clients[c].owner # None =>
          (clients[c].pending <=> clients[c].owner \in OwnersIn(requests) \cup OwnersIn(responses)
                                                         \cup {hand.owner})

(* The slots: owners are unique and were given out; a session that is      *)
(* being cleaned up is dead and pending.                                   *)
SlotInv ==
    /\ \A c, d \in Clients : clients[c].owner = clients[d].owner /\ clients[c].owner # None => c = d
    /\ \A c \in Clients :
          /\ clients[c].owner <= nextOwner
          /\ clients[c].cleanup => clients[c].dead /\ clients[c].pending
          /\ clients[c].ready => clients[c].input.op \in ClientOps

(* A request carries what its live client asks for, or is the cleanup of a *)
(* dead one.                                                               *)
RequestFits(c, r) ==
    /\ r.op = "CLEANUP" <=> c.cleanup
    /\ ~c.dead =>
          /\ r.op = c.input.op /\ r.id = c.input.id
          /\ r.op # "SOCKET" => c.input.fd \in UsedHandles(c) /\ r.fd = c.handles[c.input.fd]

(* An answer is to what its live client asks for.  A descriptor that it    *)
(* brings is a socket of the client's that has no handle yet, and what was *)
(* closed is not the client's any more; after a cleanup nothing is left.   *)
AnswerFits(c, m) ==
    /\ m.op = "CLEANUP" <=> c.cleanup
    /\ m.op = "CLEANUP" =>
          \A f \in Fds : sockets[f].state \in {"open", "listen", "child"} => sockets[f].owner # m.owner
    /\ ~c.dead =>
          /\ m.op = c.input.op /\ m.id = c.input.id
          /\ m.ok /\ m.op \in {"SOCKET", "ACCEPT"} =>
                /\ m.fd \in Fds /\ Mine(m.fd, m.owner)
                /\ \A l \in UsedHandles(c) : c.handles[l] # m.fd
          /\ m.ok /\ m.op = "CLOSE" =>
                c.input.fd \in UsedHandles(c) /\ ~Mine(c.handles[c.input.fd], m.owner)

FitInv ==
    \A c \in Clients : clients[c].owner # None =>
        /\ \A r \in Messages(requests) : r.owner = clients[c].owner => RequestFits(clients[c], r)
        /\ hand.owner = clients[c].owner => RequestFits(clients[c], hand)
        /\ \A m \in Messages(responses) : m.owner = clients[c].owner => AnswerFits(clients[c], m)

(* The sockets: a queued child has a listener of its owner. *)
ChildInv ==
    \A f \in Fds : sockets[f].state = "child" =>
        LET p == sockets[f].parent
        IN  p \in Fds /\ sockets[p].state = "listen" /\ sockets[p].owner = sockets[f].owner

SocketInv == HandlesValid /\ NoOrphans /\ ChildInv

(* The inductive invariant. *)
DaemonInv ==
    TypeOK /\ LoopInv /\ WakeInv /\ QueueInv /\ SlotInv /\ FitInv /\ SocketInv

-----------------------------------------------------------------------------
(* Queues, searches and handle arrays. *)

(* Messages and their owners. *)
LEMMA OwnersOfMessages ==
    ASSUME NEW q, NEW o
    PROVE  o \in OwnersIn(q) <=> \E m \in Messages(q) : m.owner = o
  BY Zenon DEF OwnersIn, Messages

(* The places of an owner in a queue: one if the owners there differ.      *)
Places(q, o) == {j \in DOMAIN q : q[j].owner = o}

LEMMA OneMessage ==
    ASSUME NEW q, NEW o, Distinct(q), o \in OwnersIn(q)
    PROVE  \E i : Places(q, o) = {i}
  <1>1. PICK i \in DOMAIN q : q[i].owner = o
    BY Zenon DEF OwnersIn
  <1>2. \A j \in DOMAIN q : q[j].owner = o => j = i
    BY <1>1, Zenon DEF Distinct
  <1>3. Places(q, o) = {i}
    BY <1>1, <1>2, Zenon DEF Places
  <1> QED
    BY <1>3, Zenon

(* daemon_queue_pop takes one message away. *)
LEMMA PopMessage ==
    ASSUME NEW S, NEW q \in Seq(S), q # <<>>, Distinct(q)
    PROVE  /\ Head(q) \in S /\ Tail(q) \in Seq(S) /\ Len(Tail(q)) < Len(q)
           /\ Distinct(Tail(q))
           /\ Head(q) \in Messages(q) /\ Head(q).owner \in OwnersIn(q)
           /\ Messages(Tail(q)) = Messages(q) \ {Head(q)}
           /\ OwnersIn(Tail(q)) = OwnersIn(q) \ {Head(q).owner}
  <1>1. /\ Len(q) \in Nat \ {0} /\ DOMAIN q = 1 .. Len(q) /\ Head(q) = q[1]
        /\ \A i \in 1 .. Len(q) : q[i] \in S
    OBVIOUS
  <1>2. /\ Tail(q) \in Seq(S) /\ Len(Tail(q)) = Len(q) - 1 /\ DOMAIN Tail(q) = 1 .. Len(q) - 1
        /\ \A i \in 1 .. Len(q) - 1 : Tail(q)[i] = q[i + 1]
    BY <1>1
  <1>3. \A i \in 2 .. Len(q) : i - 1 \in DOMAIN Tail(q) /\ Tail(q)[i - 1] = q[i]
    BY <1>1, <1>2
  <1>4. \A i \in DOMAIN Tail(q) : i + 1 \in 2 .. Len(q) /\ Tail(q)[i] = q[i + 1]
    BY <1>1, <1>2
  <1>5. \A i \in 2 .. Len(q) : q[i].owner # q[1].owner
    BY <1>1 DEF Distinct
  <1>6. Distinct(Tail(q))
    <2> SUFFICES ASSUME NEW i \in DOMAIN Tail(q), NEW j \in DOMAIN Tail(q),
                        Tail(q)[i].owner = Tail(q)[j].owner
                 PROVE  i = j
      BY Zenon DEF Distinct
    <2>1. i + 1 \in DOMAIN q /\ j + 1 \in DOMAIN q /\ q[i + 1].owner = q[j + 1].owner
      BY <1>1, <1>4
    <2>2. i + 1 = j + 1 /\ i \in Nat /\ j \in Nat
      BY <1>2, <2>1 DEF Distinct
    <2> QED
      BY <2>2
  <1>7. \A i \in DOMAIN q : i = 1 \/ i \in 2 .. Len(q)
    BY <1>1
  <1>8. \A i \in DOMAIN q : i = 1 \/ \E j \in DOMAIN Tail(q) : Tail(q)[j] = q[i]
    BY <1>3, <1>7, Zenon
  <1>9. \A j \in DOMAIN Tail(q) :
            /\ Tail(q)[j].owner # Head(q).owner
            /\ \E i \in DOMAIN q : Tail(q)[j] = q[i]
    BY <1>1, <1>4, <1>5
  <1>10. Messages(Tail(q)) = Messages(q) \ {Head(q)}
    <2>1. ASSUME NEW m \in Messages(Tail(q)) PROVE m \in Messages(q) /\ m # Head(q)
      BY <1>9, Zenon DEF Messages
    <2>2. ASSUME NEW m \in Messages(q), m # Head(q) PROVE m \in Messages(Tail(q))
      BY <1>1, <1>8, <2>2 DEF Messages
    <2> QED
      BY <2>1, <2>2, Zenon
  <1>11. OwnersIn(Tail(q)) = OwnersIn(q) \ {Head(q).owner}
    <2>1. ASSUME NEW o \in OwnersIn(Tail(q)) PROVE o \in OwnersIn(q) /\ o # Head(q).owner
      BY <1>9, Zenon DEF OwnersIn
    <2>2. ASSUME NEW o \in OwnersIn(q), o # Head(q).owner PROVE o \in OwnersIn(Tail(q))
      <3>1. PICK i \in DOMAIN q : o = q[i].owner
        BY Zenon DEF OwnersIn
      <3> QED
        BY <1>1, <1>8, <2>2, <3>1, Zenon DEF OwnersIn
    <2> QED
      BY <2>1, <2>2, Zenon
  <1>12. Head(q) \in Messages(q) /\ Head(q).owner \in OwnersIn(q)
    BY <1>1 DEF Messages, OwnersIn
  <1> QED
    BY <1>1, <1>2, <1>6, <1>10, <1>11, <1>12

(* daemon_queue_push adds one message. *)
LEMMA PushMessage ==
    ASSUME NEW S, NEW q \in Seq(S), NEW m \in S, Distinct(q), m.owner \notin OwnersIn(q)
    PROVE  /\ Append(q, m) \in Seq(S) /\ Len(Append(q, m)) = Len(q) + 1
           /\ Distinct(Append(q, m))
           /\ Messages(Append(q, m)) = Messages(q) \cup {m}
           /\ OwnersIn(Append(q, m)) = OwnersIn(q) \cup {m.owner}
  <1> DEFINE a == Append(q, m)
             n == Len(q) + 1
  <1>1. /\ a \in Seq(S) /\ Len(a) = n /\ n \in Nat /\ DOMAIN q = 1 .. Len(q) /\ DOMAIN a = 1 .. n
        /\ a[n] = m /\ \A i \in 1 .. Len(q) : a[i] = q[i]
    OBVIOUS
  <1>2. \A i \in DOMAIN a : i = n \/ i \in DOMAIN q
    BY <1>1
  <1>3. n \in DOMAIN a /\ \A i \in DOMAIN q : i \in DOMAIN a /\ a[i] = q[i]
    BY <1>1
  <1>4. a \in Seq(S) /\ Len(a) = n /\ a[n] = m
    BY <1>1, Zenon
  <1>5. \A i \in DOMAIN q : q[i].owner # m.owner
    BY Zenon DEF OwnersIn
  <1> HIDE DEF a, n
  <1>6. Messages(a) = Messages(q) \cup {m} /\ OwnersIn(a) = OwnersIn(q) \cup {m.owner}
    BY <1>2, <1>3, <1>4 DEF Messages, OwnersIn
  <1>7. Distinct(a)
    BY <1>2, <1>3, <1>4, <1>5 DEF Distinct
  <1> QED
    BY <1>4, <1>6, <1>7, Zenon DEF a, n

-----------------------------------------------------------------------------
(* Types, and where the threads are. *)

LocalInv == TypeOK /\ LoopInv /\ WakeInv

(* What is left in a slot by disconnect_client, by a reply and by an       *)
(* answer that is collected.                                               *)
LEMMA ClientTypes ==
    ASSUME NEW c \in ClientType
    PROVE  /\ NoClient \in ClientType /\ Disconnect(c) \in ClientType /\ Reply(c) \in ClientType
           /\ Answered(c) \in ClientType /\ DropHandle(c) \in ClientType
           /\ [c EXCEPT !.pending = TRUE] \in ClientType
           /\ [c EXCEPT !.pending = TRUE, !.cleanup = TRUE] \in ClientType
           /\ [c EXCEPT !.hello = TRUE] \in ClientType
           /\ [c EXCEPT !.output = FALSE] \in ClientType
           /\ [c EXCEPT !.fd = "hup"] \in ClientType
  <1>1. NoInput \in [op : ClientOps \cup {"none"}, id : Ids \cup {NoId}, fd : 0..MaxLocal]
        /\ [l \in Locals |-> None] \in [Locals -> 0..MaxSockets]
        /\ [NoInput EXCEPT !.id = c.input.id] \in [op : ClientOps \cup {"none"}, id : Ids \cup {NoId}, fd : 0..MaxLocal]
    BY SessionAssumption DEF NoInput, None, ClientType
  <1>2. NoClient \in ClientType
    BY <1>1, SessionAssumption DEF NoClient, ClientType, None
  <1>3. Disconnect(c) \in ClientType
    BY <1>2, Zenon DEF Disconnect, ClientType
  <1>4. Reply(c) \in ClientType
    BY <1>1, Zenon DEF Reply, ClientType
  <1>5. DropHandle(c) \in ClientType
    BY SessionAssumption DEF DropHandle, ClientType, None
  <1>6. Answered(c) \in ClientType
    BY Zenon DEF Answered, ClientType
  <1>7. /\ [c EXCEPT !.pending = TRUE] \in ClientType
        /\ [c EXCEPT !.pending = TRUE, !.cleanup = TRUE] \in ClientType
    BY Zenon DEF ClientType
  <1>8. /\ [c EXCEPT !.hello = TRUE] \in ClientType /\ [c EXCEPT !.output = FALSE] \in ClientType
        /\ [c EXCEPT !.fd = "hup"] \in ClientType
    BY Zenon DEF ClientType
  <1> QED
    BY <1>2, <1>3, <1>4, <1>5, <1>6, <1>7, <1>8, Zenon

(* The fields of a client that is disconnected or answered. *)
LEMMA ClientFields ==
    ASSUME NEW c \in ClientType
    PROVE  /\ Disconnect(c).owner = c.owner /\ Disconnect(c).dead /\ Disconnect(c).pending = c.pending
           /\ Disconnect(c).cleanup = c.cleanup /\ ~Disconnect(c).ready
           /\ Reply(c).owner = c.owner /\ Reply(c).dead = c.dead /\ Reply(c).pending = c.pending
           /\ Reply(c).cleanup = c.cleanup /\ Reply(c).handles = c.handles /\ ~Reply(c).ready
           /\ Answered(c) = [c EXCEPT !.pending = FALSE]
           /\ NoClient.owner = None /\ ~NoClient.cleanup /\ ~NoClient.ready
  BY Zenon DEF Disconnect, Reply, Answered, NoClient, ClientType

(* What an answer leaves as it was. *)
LEMMA AnsweredFields ==
    ASSUME NEW c \in ClientType
    PROVE  /\ Answered(c).owner = c.owner /\ Answered(c).dead = c.dead /\ ~Answered(c).pending
           /\ Answered(c).cleanup = c.cleanup /\ Answered(c).ready = c.ready
           /\ Answered(c).input = c.input /\ Answered(c).handles = c.handles
           /\ DropHandle(c).owner = c.owner /\ DropHandle(c).dead = c.dead
           /\ DropHandle(c).pending = c.pending /\ DropHandle(c).cleanup = c.cleanup
           /\ DropHandle(c).handles = [c.handles EXCEPT ![c.input.fd] = None]
  BY Zenon DEF Answered, DropHandle, ClientType

(* The initial state. *)
LEMMA InitLocal == Init => LocalInv
  <1> SUFFICES ASSUME Init PROVE LocalInv
    BY Zenon
  <1>1. NoClient \in ClientType
    <2>1. NoInput \in [op : ClientOps \cup {"none"}, id : Ids \cup {NoId}, fd : 0..MaxLocal]
      BY SessionAssumption DEF NoInput
    <2>2. [l \in Locals |-> None] \in [Locals -> 0..MaxSockets]
      BY SessionAssumption DEF None
    <2> QED
      BY <2>1, <2>2, SessionAssumption DEF NoClient, ClientType, None
  <1>2. /\ clients \in [Clients -> ClientType]
        /\ sockets \in [Fds -> [state : {"free", "open", "listen", "child", "linger"},
                                owner : 0..MaxOwner, parent : 0..MaxSockets]]
    BY <1>1, SessionAssumption DEF Init, None, FreeSocket
  <1>3. requests \in Seq(Requests) /\ responses \in Seq(Responses) /\ 1 \in Clients
    BY SessionAssumption DEF Init, Clients
  <1>4. TypeOK
    <2>1. polled \in [fds : SUBSET Clients, hup : SUBSET Clients] /\ hand \in Requests \cup {NoRequest}
      BY Zenon DEF Init, NothingPolled
    <2>2. nextOwner \in 0..MaxOwner /\ index \in 1..(MaxClients + 1) /\ live \in 0..MaxClients /\ count \in 0..Batch
      BY SessionAssumption DEF Init
    <2> QED
      BY <1>2, <1>3, <2>1, <2>2, Zenon DEF Init, TypeOK
  <1>5. LoopInv /\ WakeInv
    BY <1>3 DEF Init, LoopInv, WakeInv
  <1> QED
    BY <1>4, <1>5, Zenon DEF LocalInv

(* A session as the scan finds it, with its frame turned into a request. *)
LEMMA SeenTypes ==
    ASSUME TypeOK, NEW c \in Clients
    PROVE  /\ Seen(c) \in ClientType /\ clients[c] \in ClientType
           /\ Seen(c).owner = clients[c].owner
  <1>1. clients[c] \in ClientType
    BY Zenon DEF TypeOK
  <1>2. Disconnect(clients[c]) \in ClientType /\ Disconnect(clients[c]).owner = clients[c].owner
    BY <1>1, ClientTypes, ClientFields, Zenon
  <1> QED
    BY <1>1, <1>2, Zenon DEF Seen

(* The requests that the scan makes. *)
LEMMA SubmittedTypes ==
    ASSUME LocalInv, SlotInv, NEW c \in Clients, clients[c].owner # None
    PROVE  /\ [owner |-> clients[c].owner, op |-> "CLEANUP", id |-> NoId, fd |-> None] \in Requests
           /\ Seen(c).ready =>
                 [owner |-> clients[c].owner, op |-> Seen(c).input.op, id |-> Seen(c).input.id,
                  fd |-> IF NeedsHandle(c) THEN Seen(c).handles[Seen(c).input.fd] ELSE None] \in Requests
                 \/ (NeedsHandle(c) /\ ~KnownHandle(c))
  <1>1. clients[c].owner \in Owners /\ None \in 0..MaxSockets
    BY SessionAssumption DEF LocalInv, TypeOK, ClientType, Owners, None
  <1>2. ASSUME Seen(c).ready
        PROVE  Seen(c) = clients[c] /\ Seen(c).input.op \in ClientOps /\ Seen(c).input.id \in Ids \cup {NoId}
    <2>1. Seen(c) = clients[c]
      BY <1>2, ClientFields, Zenon DEF Seen, LocalInv, TypeOK
    <2> QED
      BY <1>2, <2>1, Zenon DEF SlotInv, LocalInv, TypeOK, ClientType
  <1>3. KnownHandle(c) => Seen(c).handles[Seen(c).input.fd] \in 0..MaxSockets
    BY SeenTypes DEF KnownHandle, UsedHandles, ClientType, LocalInv
  <1> QED
    BY <1>1, <1>2, <1>3, Zenon DEF Requests

(* One visit of the scan. *)
LEMMA VisitLocal ==
    ASSUME LocalInv, NEW c \in Clients, Visit(c),
           clients' \in [Clients -> ClientType], requests' \in Seq(Requests)
    PROVE  LocalInv'
  <1> USE DEF loopVars, workerVars, flagVars
  <1>1. /\ cpc = "scan" /\ index = c /\ index' = index + 1 /\ live' = live + 1
        /\ UNCHANGED <<nextOwner, listening, cpc, stop, polled, responses, event, workerVars, flagVars>>
    BY Zenon DEF Visit
  <1>2. /\ index' \in 1..(MaxClients + 1) /\ live' \in 0..MaxClients /\ live' < index'
    BY <1>1, SessionAssumption DEF LocalInv, TypeOK, LoopInv, Clients
  <1>3. TypeOK'
    BY <1>1, <1>2, Zenon DEF LocalInv, TypeOK
  <1>4. LoopInv' /\ WakeInv'
    BY <1>1, <1>2, Zenon DEF LocalInv, LoopInv, WakeInv
  <1> QED
    BY <1>3, <1>4, Zenon DEF LocalInv

(* control_run apart from collect_responses keeps its locals in range. *)
LEMMA ScanLocal ==
    ASSUME LocalInv, SlotInv, NEW c \in Clients,
           SubmitNothing(c) \/ SubmitCleanup(c) \/ SubmitHello(c) \/ SubmitBadHandle(c) \/ SubmitRequest(c)
    PROVE  LocalInv'
  <1>1. Visit(c) /\ clients[c].owner # None
    BY Zenon DEF SubmitNothing, SubmitCleanup, SubmitHello, SubmitBadHandle, SubmitRequest, Waiting, Visit
  <1>2. Seen(c) \in ClientType /\ clients \in [Clients -> ClientType] /\ requests \in Seq(Requests)
    BY SeenTypes, Zenon DEF LocalInv, TypeOK
  <1>3. ASSUME NEW item \in Requests, NEW marked \in ClientType, Submit(c, item, marked)
        PROVE  clients' \in [Clients -> ClientType] /\ requests' \in Seq(Requests)
    <2>0. requests' = requests \/ requests' = Append(requests, item)
      BY <1>3, Zenon DEF Submit
    <2>1. requests' \in Seq(Requests)
      BY <1>2, <2>0
    <2> QED
      BY <1>2, <1>3, <2>1, Zenon DEF Submit
  <1>4. clients' \in [Clients -> ClientType] /\ requests' \in Seq(Requests)
    <2>1. CASE SubmitNothing(c) \/ SubmitBadHandle(c)
      BY <1>2, <2>1, ClientTypes, Zenon DEF SubmitNothing, SubmitBadHandle
    <2>2. CASE SubmitHello(c)
      <3>1. Reply([Seen(c) EXCEPT !.hello = TRUE]) \in ClientType
        BY <1>2, ClientTypes, Zenon
      <3>2. Reply(Seen(c)) \in ClientType /\ Disconnect(Seen(c)) \in ClientType
        BY <1>2, ClientTypes, Zenon
      <3> QED
        BY <1>2, <2>2, <3>1, <3>2, Zenon DEF SubmitHello
    <2>3. CASE SubmitCleanup(c)
      BY <1>1, <1>2, <1>3, <2>3, ClientTypes, SubmittedTypes, Zenon DEF SubmitCleanup
    <2>4. CASE SubmitRequest(c)
      <3> DEFINE item == [owner |-> clients[c].owner, op |-> Seen(c).input.op, id |-> Seen(c).input.id,
                          fd |-> IF NeedsHandle(c) THEN Seen(c).handles[Seen(c).input.fd] ELSE None]
      <3>1. item \in Requests
        BY <1>1, <2>4, SubmittedTypes, Zenon DEF SubmitRequest, Waiting
      <3>2. Submit(c, item, [Seen(c) EXCEPT !.pending = TRUE])
        BY <2>4, Zenon DEF SubmitRequest
      <3> HIDE DEF item
      <3> QED
        BY <1>2, <1>3, <3>1, <3>2, ClientTypes, Zenon
    <2> QED
      BY <2>1, <2>2, <2>3, <2>4, Zenon
  <1> QED
    BY <1>1, <1>4, VisitLocal, Zenon

(* The rest of the loop of control_run, and what the peers do. *)
LEMMA LoopLocal ==
    ASSUME LocalInv,
           \/ DrainEvent \/ CollectEnd \/ SkipSlot \/ ScanEnd \/ Poll \/ PollFails \/ AcceptClient \/ AcceptEnd
           \/ RequestStop \/ \E c \in Clients : PeerCloses(c)
    PROVE  LocalInv'
  <1> USE DEF sessionVars, loopVars, controlVars, workerVars, queueVars, flagVars, LocalInv
  <1>1. CASE DrainEvent
    BY <1>1, Zenon DEF DrainEvent, TypeOK, LoopInv, WakeInv
  <1>2. CASE CollectEnd
    BY <1>2, Zenon DEF CollectEnd, TypeOK, LoopInv, WakeInv
  <1>3. CASE SkipSlot
    <2>1. index' \in 1..(MaxClients + 1) /\ live' < index' /\ cpc = "scan"
      BY <1>3, SessionAssumption DEF SkipSlot, TypeOK, LoopInv, Clients
    <2> QED
      BY <1>3, <2>1 DEF SkipSlot, TypeOK, LoopInv, WakeInv
  <1>4. CASE ScanEnd
    <2>1. 1 \in 1..(MaxClients + 1) /\ 0 \in 0..MaxClients /\ 0 < 1
      BY SessionAssumption
    <2>2. AllGone \in BOOLEAN
      BY Zenon DEF AllGone, TypeOK
    <2> QED
      BY <1>4, <2>1, <2>2, Zenon DEF ScanEnd, TypeOK, LoopInv, WakeInv
  <1>5. CASE Poll
    BY <1>5 DEF Poll, TypeOK, LoopInv, WakeInv
  <1>6. CASE PollFails
    BY <1>6, Zenon DEF PollFails, TypeOK, LoopInv, WakeInv
  <1>7. CASE AcceptClient
    <2> DEFINE session == [NoClient EXCEPT !.owner = nextOwner + 1, !.fd = "up", !.next = 1]
    <2>2. PICK c \in Clients : clients' = [clients EXCEPT ![c] = session]
      BY <1>7, Zenon DEF AcceptClient
    <2>3. nextOwner + 1 \in 0..MaxOwner /\ 1 \in 0..MaxLocal
      <3>1. nextOwner \in 0..MaxOwner /\ nextOwner < MaxOwner
        BY <1>7, Zenon DEF AcceptClient, TypeOK
      <3> QED
        BY <3>1, SessionAssumption, SocketsFitHandles
    <2>4. NoClient \in ClientType
      BY <2>2, ClientTypes, Zenon DEF TypeOK
    <2>5. session \in ClientType
      BY <2>3, <2>4, Zenon DEF ClientType
    <2>6. /\ nextOwner' = nextOwner + 1
          /\ UNCHANGED <<listening, loopVars, workerVars, queueVars, flagVars>>
      BY <1>7, Zenon DEF AcceptClient
    <2> HIDE DEF session
    <2>7. clients' \in [Clients -> ClientType]
      BY <2>2, <2>3, <2>5, <2>6, Zenon DEF TypeOK
    <2>8. TypeOK'
      <3>1. nextOwner' \in 0..MaxOwner
        BY <2>3, <2>6, Zenon
      <3>2. /\ UNCHANGED <<requests, responses, event, stopping, done, listening, cpc, index, live>>
            /\ UNCHANGED <<stop, polled, sockets, wpc, hand, count>>
        BY <2>6, Zenon
      <3> QED
        BY <2>7, <3>1, <3>2 DEF TypeOK
    <2>9. LoopInv' /\ WakeInv'
      BY <2>6, Zenon DEF LoopInv, WakeInv
    <2> QED
      BY <2>8, <2>9, Zenon
  <1>8. CASE AcceptEnd
    <2>1. 1 \in Clients
      BY SessionAssumption DEF Clients
    <2> QED
      BY <1>8, <2>1, Zenon DEF AcceptEnd, TypeOK, LoopInv, WakeInv
  <1>9. CASE RequestStop
    BY <1>9 DEF RequestStop, TypeOK, LoopInv, WakeInv
  <1>10. ASSUME NEW c \in Clients, PeerCloses(c) PROVE LocalInv'
    <2>1. [clients[c] EXCEPT !.fd = "hup"] \in ClientType
      BY ClientTypes, Zenon DEF TypeOK
    <2>2. clients' \in [Clients -> ClientType]
      BY <1>10, <2>1, Zenon DEF PeerCloses, TypeOK
    <2> QED
      BY <1>10, <2>2 DEF PeerCloses, TypeOK, LoopInv, WakeInv
  <1> QED
    BY <1>1, <1>2, <1>3, <1>4, <1>5, <1>6, <1>7, <1>8, <1>9, <1>10, Zenon

(* The turn of one client in the loop over the descriptors. *)
LEMMA ServeLocal ==
    ASSUME LocalInv, NEW c \in Clients,
           ServeNothing(c) \/ ServeHangUp(c) \/ WriteClient(c) \/ ReadClient(c) \/ ReadInvalid(c)
    PROVE  LocalInv'
  <1> USE DEF sessionVars, loopVars, controlVars, workerVars, queueVars, flagVars, LocalInv
  <1>1. Serve(c) /\ clients[c] \in ClientType /\ clients \in [Clients -> ClientType]
    BY Zenon DEF ServeNothing, ServeHangUp, WriteClient, ReadClient, ReadInvalid, TypeOK
  <1>2. clients' \in [Clients -> ClientType]
    <2>1. CASE ServeNothing(c)
      BY <1>1, <2>1, Zenon DEF ServeNothing
    <2>2. CASE ServeHangUp(c) \/ ReadInvalid(c)
      BY <1>1, <2>2, ClientTypes, Zenon DEF ServeHangUp, ReadInvalid
    <2>3. CASE WriteClient(c)
      <3>1. [clients[c] EXCEPT !.output = FALSE] \in ClientType
        BY <1>1, ClientTypes, Zenon
      <3> QED
        BY <1>1, <2>3, <3>1, Zenon DEF WriteClient
    <2>4. CASE ReadClient(c)
      <3>1. PICK op \in Ops, id \in Ids, fd \in UsedHandles(clients[c]) \cup {None} :
                clients' = [clients EXCEPT ![c].input = [op |-> op, id |-> id, fd |-> fd], ![c].ready = TRUE]
        BY <2>4, Zenon DEF ReadClient
      <3>2. op \in ClientOps /\ fd \in 0..MaxLocal
        BY OpsAssumption, SessionAssumption DEF UsedHandles, Locals, None
      <3>3. [clients[c] EXCEPT !.input = [op |-> op, id |-> id, fd |-> fd], !.ready = TRUE] \in ClientType
        BY <1>1, <3>2, Zenon DEF ClientType
      <3>4. clients' = [clients EXCEPT ![c] =
                           [clients[c] EXCEPT !.input = [op |-> op, id |-> id, fd |-> fd], !.ready = TRUE]]
        BY <1>1, <3>1, Zenon
      <3> QED
        BY <1>1, <3>3, <3>4, Zenon
    <2> QED
      BY <2>1, <2>2, <2>3, <2>4, Zenon
  <1>3. /\ cpc' \in {"serve", "drain"} /\ index' \in Clients /\ (cpc' = "drain" => index' = 1)
        /\ stop' \in BOOLEAN /\ polled' \in [fds : SUBSET Clients, hup : SUBSET Clients]
        /\ cpc = "serve"
    <2>1. index' \in Clients
      BY <1>1, SessionAssumption DEF Serve, Clients
    <2>2. NothingPolled \in [fds : SUBSET Clients, hup : SUBSET Clients]
      BY Zenon DEF NothingPolled
    <2> QED
      BY <1>1, <2>1, <2>2, Zenon DEF Serve, TypeOK
  <1>4. live' = 0 /\ live' < index' /\ index' \in 1..(MaxClients + 1)
    BY <1>1, <1>3, SessionAssumption DEF Serve, LoopInv, Clients
  <1>5. TypeOK'
    BY <1>1, <1>2, <1>3, <1>4, Zenon DEF Serve, TypeOK
  <1>6. LoopInv'
    BY <1>1, <1>3, <1>4, Zenon DEF Serve, LoopInv
  <1>7. WakeInv'
    BY <1>1, <1>3, Zenon DEF Serve, WakeInv
  <1> QED
    BY <1>5, <1>6, <1>7, Zenon

(* The worker pushes its response: there is room for it. *)
LEMMA RespondStep ==
    ASSUME DaemonInv, NEW ok \in BOOLEAN, NEW fd \in 0..MaxSockets, Respond(ok, fd)
    PROVE  /\ hand \in Requests /\ Response(ok, fd) \in Responses
           /\ responses' = Append(responses, Response(ok, fd)) /\ responses' \in Seq(Responses)
           /\ hand' = NoRequest /\ wpc' = "loop" /\ count' \in 1..Batch
           /\ UNCHANGED <<requests, event, controlVars, flagVars>>
  <1>1. wpc = "push" /\ hand # NoRequest /\ Len(responses) < QueueSize /\ count < Batch
    BY Zenon DEF Respond, DaemonInv, LoopInv
  <1>2. hand \in Requests /\ responses \in Seq(Responses) /\ count \in 0..Batch
    BY <1>1, Zenon DEF DaemonInv, TypeOK
  <1>3. Response(ok, fd) \in Responses
    BY <1>2, Zenon DEF Response, Requests, Responses
  <1>4. count + 1 \in 1..Batch
    BY <1>1, <1>2, SessionAssumption
  <1> QED
    BY <1>1, <1>2, <1>3, <1>4 DEF Respond

(* A state of the socket table. *)
SocketType == [state : {"free", "open", "listen", "child", "linger"},
               owner : 0..MaxOwner, parent : 0..MaxSockets]

(* core_close leaves sockets. *)
LEMMA CloseType ==
    ASSUME TypeOK, NEW fs, CloseAll(fs)
    PROVE  sockets' \in [Fds -> SocketType]
  <1>1. FreeSocket \in SocketType
    BY SessionAssumption DEF FreeSocket, SocketType, None
  <1>2. \A f \in Fds : sockets[f] \in SocketType /\ [sockets[f] EXCEPT !.state = "linger"] \in SocketType
    BY Zenon DEF TypeOK, SocketType
  <1>3. PICK lingering \in SUBSET {f \in fs : sockets[f].state = "open"} :
        sockets' = [f \in Fds |->
            CASE f \in lingering -> [sockets[f] EXCEPT !.state = "linger"]
              [] f \in Closed(fs) \ lingering -> FreeSocket
              [] OTHER -> sockets[f]]
    BY Zenon DEF CloseAll
  <1>4. \A f \in Fds : sockets'[f] \in SocketType
    BY <1>1, <1>2, <1>3, Zenon
  <1> QED
    BY <1>3, <1>4, Zenon

(* The execution of a request, as the rest of the proof sees it: a response *)
(* and what happens to the sockets.                                         *)
LEMMA ExecuteStep ==
    ASSUME DaemonInv, Execute
    PROVE  /\ \E ok \in BOOLEAN, fd \in 0..MaxSockets : Respond(ok, fd)
           /\ sockets' \in [Fds -> SocketType]
  <1>1. sockets \in [Fds -> SocketType] /\ None \in 0..MaxSockets /\ TypeOK
    BY SessionAssumption DEF DaemonInv, TypeOK, SocketType, None
  <1>2. CASE ExecuteCleanup
    BY <1>1, <1>2, CloseType, Zenon DEF ExecuteCleanup
  <1>3. CASE ExecuteSocket
    <2>2. PICK f \in Fds :
             /\ Respond(TRUE, f)
             /\ sockets' = [sockets EXCEPT ![f] = [state |-> "open", owner |-> hand.owner, parent |-> None]]
      BY <1>3, Zenon DEF ExecuteSocket
    <2>1. f \in 0..MaxSockets
      BY DEF Fds
    <2>3. hand \in Requests
      BY <2>1, <2>2, RespondStep, Zenon
    <2>4. [state |-> "open", owner |-> hand.owner, parent |-> None] \in SocketType
      BY <1>1, <2>3, SessionAssumption DEF SocketType, Requests, Owners
    <2> QED
      BY <1>1, <2>1, <2>2, <2>4, Zenon
  <1>4. CASE ExecuteRefused \/ ExecuteOther
    BY <1>1, <1>4, Zenon DEF ExecuteRefused, ExecuteOther
  <1>5. CASE ExecuteListen
    BY <1>1, <1>5, Zenon DEF ExecuteListen, Looked, SocketType
  <1>6. CASE ExecuteAccept
    <2>1. PICK f \in Fds : /\ Respond(TRUE, f)
                           /\ sockets' = [sockets EXCEPT ![f].state = "open", ![f].parent = None]
      BY <1>6, Zenon DEF ExecuteAccept, Children
    <2>2. f \in 0..MaxSockets /\ [sockets[f] EXCEPT !.state = "open", !.parent = None] \in SocketType
      <3>1. f \in 0..MaxSockets
        BY DEF Fds
      <3> QED
        BY <1>1, <3>1, Zenon DEF SocketType
    <2>3. sockets' = [sockets EXCEPT ![f] = [sockets[f] EXCEPT !.state = "open", !.parent = None]]
      BY <1>1, <2>1, Zenon
    <2> QED
      BY <1>1, <2>1, <2>2, <2>3, Zenon
  <1>7. CASE ExecuteClose
    BY <1>1, <1>7, CloseType, Zenon DEF ExecuteClose
  <1> QED
    BY <1>2, <1>3, <1>4, <1>5, <1>6, <1>7, Zenon DEF Execute

(* daemon_progress and the transport keep the types. *)
LEMMA WorkerLocal ==
    ASSUME DaemonInv, Worker \/ \E f \in Fds : PassiveOpen(f) \/ TransportEnds(f)
    PROVE  LocalInv'
  <1> USE DEF sessionVars, loopVars, controlVars, workerVars, queueVars, flagVars
  <1>1. CASE WorkerPop
    <2>1. Head(requests) \in Requests /\ Tail(requests) \in Seq(Requests) /\ count < Batch
      BY <1>1, PopMessage, Zenon DEF WorkerPop, BatchGoesOn, DaemonInv, TypeOK, QueueInv
    <2>2. Head(requests) # NoRequest
      BY <2>1 DEF Requests, NoRequest, Owners, None
    <2>3. TypeOK'
      BY <1>1, <2>1, Zenon DEF WorkerPop, DaemonInv, TypeOK
    <2> QED
      BY <1>1, <2>1, <2>2, <2>3, Zenon DEF WorkerPop, DaemonInv, LocalInv, LoopInv, WakeInv
  <1>2. CASE Execute
    <2>1. PICK ok \in BOOLEAN, fd \in 0..MaxSockets : Respond(ok, fd)
      BY <1>2, ExecuteStep, Zenon
    <2>2. /\ responses' \in Seq(Responses) /\ hand' = NoRequest /\ wpc' = "loop"
          /\ count' \in 1..Batch /\ UNCHANGED <<requests, event, controlVars, flagVars>>
      BY <2>1, RespondStep, Zenon
    <2>3. count' \in 0..Batch /\ count' # 0
      BY <2>2, SessionAssumption
    <2>4. sockets' \in [Fds -> SocketType]
      BY <1>2, ExecuteStep, Zenon
    <2>5. hand' \in Requests \cup {NoRequest} /\ wpc' \in {"loop", "push"}
      BY <2>2, Zenon
    <2>6. TypeOK'
      BY <2>2, <2>3, <2>4, <2>5, Zenon DEF DaemonInv, TypeOK, SocketType
    <2> QED
      BY <2>2, <2>3, <2>6, Zenon DEF DaemonInv, LocalInv, LoopInv, WakeInv
  <1>3. CASE WorkerBatchEnd
    BY <1>3 DEF WorkerBatchEnd, DaemonInv, LocalInv, TypeOK, LoopInv, WakeInv
  <1>4. CASE Notify
    BY <1>4, SessionAssumption DEF Notify, DaemonInv, LocalInv, TypeOK, LoopInv, WakeInv
  <1>5. ASSUME NEW f \in Fds, PassiveOpen(f) PROVE LocalInv'
    <2>1. f \in 0..MaxSockets
      BY DEF Fds
    <2>2. [state |-> "child", owner |-> sockets[f].owner, parent |-> f] \in SocketType
      BY <2>1, Zenon DEF DaemonInv, TypeOK, SocketType
    <2>3. sockets' \in [Fds -> SocketType]
      BY <1>5, <2>1, <2>2, Zenon DEF PassiveOpen, DaemonInv, TypeOK, SocketType
    <2>4. UNCHANGED <<wpc, hand, count, controlVars, queueVars, flagVars>>
      BY <1>5, Zenon DEF PassiveOpen
    <2>5. TypeOK'
      BY <2>3, <2>4 DEF DaemonInv, TypeOK, SocketType
    <2> QED
      BY <2>4, <2>5, Zenon DEF DaemonInv, LocalInv, LoopInv, WakeInv
  <1>6. ASSUME NEW f \in Fds, TransportEnds(f) PROVE LocalInv'
    <2>1. FreeSocket \in SocketType
      BY SessionAssumption DEF FreeSocket, SocketType, None
    <2>2. sockets' \in [Fds -> SocketType]
      BY <1>6, <2>1, Zenon DEF TransportEnds, DaemonInv, TypeOK, SocketType
    <2>3. UNCHANGED <<wpc, hand, count, controlVars, queueVars, flagVars>>
      BY <1>6, Zenon DEF TransportEnds
    <2>4. TypeOK'
      BY <2>2, <2>3 DEF DaemonInv, TypeOK, SocketType
    <2> QED
      BY <2>3, <2>4, Zenon DEF DaemonInv, LocalInv, LoopInv, WakeInv
  <1> QED
    BY <1>1, <1>2, <1>3, <1>4, <1>5, <1>6, Zenon DEF Worker

-----------------------------------------------------------------------------
(* Messages, handles and sockets. *)

SessionInv == QueueInv /\ SlotInv /\ FitInv /\ SocketInv

(* Every owner in the queues is a session's. *)
LEMMA OwnersTyped ==
    ASSUME TypeOK
    PROVE  /\ OwnersIn(requests) \subseteq Owners /\ OwnersIn(responses) \subseteq Owners
           /\ None \notin Owners /\ NoRequest.owner = None
           /\ \A c \in Clients : clients[c].owner # None => clients[c].owner \in Owners
           /\ hand # NoRequest => hand.owner \in Owners
  <1>1. /\ \A i \in DOMAIN requests : requests[i].owner \in Owners
        /\ \A i \in DOMAIN responses : responses[i].owner \in Owners
        /\ hand # NoRequest => hand.owner \in Owners
    <2>1. /\ \A i \in DOMAIN requests : requests[i] \in Requests
          /\ \A i \in DOMAIN responses : responses[i] \in Responses
          /\ hand # NoRequest => hand \in Requests
      BY DEF TypeOK
    <2> QED
      BY <2>1, Zenon DEF Requests, Responses
  <1>2. \A c \in Clients : clients[c].owner # None => clients[c].owner \in Owners
    BY SessionAssumption DEF TypeOK, ClientType, Owners, None
  <1> QED
    BY <1>1, <1>2 DEF OwnersIn, Owners, None, NoRequest

(* The answers of a session are its messages in the response queue. *)
LEMMA AnswersAreMessages ==
    ASSUME NEW o
    PROVE  /\ Answers(o) = {m \in Messages(responses) : m.owner = o}
           /\ Answers(o)' = {m \in Messages(responses)' : m.owner = o'}
           /\ Answers(o) # {} <=> o \in OwnersIn(responses)
  BY Zenon DEF Answers, Messages, OwnersIn

(* A handle is the index of a slot. *)
LEMMA HandlesName ==
    ASSUME TypeOK, NEW c \in Clients, NEW l \in UsedHandles(clients[c])
    PROVE  clients[c].handles[l] \in Fds
  <1>1. clients[c].handles \in [Locals -> 0..MaxSockets] /\ l \in Locals /\ clients[c].handles[l] # 0
    BY Zenon DEF TypeOK, ClientType, UsedHandles, None
  <1> QED
    BY <1>1, SessionAssumption DEF Fds

(* A step that leaves messages and sockets alone and changes of a client   *)
(* only what its message does not depend on.                               *)
LEMMA QuietKeeps ==
    ASSUME DaemonInv, UNCHANGED <<requests, responses, hand, sockets, nextOwner>>,
           \A c \in Clients :
              /\ clients'[c].owner = clients[c].owner /\ clients'[c].pending = clients[c].pending
              /\ clients'[c].cleanup = clients[c].cleanup
              /\ clients[c].dead => clients'[c].dead
              /\ ~clients'[c].dead => clients'[c].handles = clients[c].handles
              /\ ~clients'[c].dead /\ clients[c].pending => clients'[c].input = clients[c].input
              /\ clients'[c].ready => clients'[c].input.op \in ClientOps
    PROVE  SessionInv'
  <1>1. Sessions' = Sessions
    BY DEF Sessions
  <1>2. QueueInv'
    <2>1. /\ OwnersIn(requests)' = OwnersIn(requests) /\ OwnersIn(responses)' = OwnersIn(responses)
          /\ Distinct(requests)' = Distinct(requests) /\ Distinct(responses)' = Distinct(responses)
      BY DEF OwnersIn, Distinct
    <2>2. QueueInv /\ hand' = hand
      BY Zenon DEF DaemonInv
    <2> QED
      BY <1>1, <2>1, <2>2, Zenon DEF QueueInv
  <1>3. SlotInv'
    <2>1. SlotInv
      BY Zenon DEF DaemonInv
    <2> QED
      BY <2>1 DEF SlotInv
  <1>4. \A c \in Clients : ~clients'[c].dead => UsedHandles(clients'[c]) = UsedHandles(clients[c])
    BY DEF UsedHandles
  <1>5. \A c \in Clients : clients[c].owner # None =>
            /\ \A r \in Messages(requests) : r.owner = clients[c].owner => clients[c].pending
            /\ \A m \in Messages(responses) : m.owner = clients[c].owner => clients[c].pending
            /\ hand.owner = clients[c].owner => clients[c].pending
    BY OwnersOfMessages DEF DaemonInv, QueueInv
  <1>6. FitInv'
    <2>1. ASSUME NEW c \in Clients, clients[c].pending, NEW r, RequestFits(clients[c], r)
          PROVE  RequestFits(clients'[c], r)
      BY <1>4, <2>1, Zenon DEF RequestFits
    <2>2. ASSUME NEW c \in Clients, clients[c].pending, NEW m, AnswerFits(clients[c], m)
          PROVE  AnswerFits(clients[c], m)'
      <3>1. CASE clients'[c].dead
        BY <2>2, <3>1, Zenon DEF AnswerFits
      <3>2. CASE ~clients'[c].dead
        <4>1. /\ ~clients[c].dead /\ clients'[c].input = clients[c].input /\ clients'[c].handles = clients[c].handles
              /\ UsedHandles(clients'[c]) = UsedHandles(clients[c]) /\ clients'[c].cleanup = clients[c].cleanup
          BY <1>4, <2>2, <3>2, Zenon
        <4>2. \A f, o : Mine(f, o)' <=> Mine(f, o)
          BY Zenon DEF Mine
        <4> QED
          BY <2>2, <4>1, <4>2, Zenon DEF AnswerFits
      <3> QED
        BY <3>1, <3>2, Zenon
    <2> QED
      BY <1>5, <2>1, <2>2 DEF DaemonInv, FitInv, Messages
  <1>7. \A o : Answers(o)' = Answers(o)
    BY Zenon DEF Answers
  <1>8. \A c \in Clients : Alive(c)' =>
            /\ Alive(c) /\ clients'[c].owner = clients[c].owner /\ ~clients'[c].dead
            /\ \A m \in Answers(clients[c].owner) : clients'[c].input = clients[c].input
    BY <1>5, Zenon DEF Alive, Answers, Messages
  <1>9. SocketInv'
    <2>1. HandlesValid'
      BY <1>4, <1>7, <1>8 DEF DaemonInv, SocketInv, HandlesValid
    <2>2. NoOrphans'
      BY <1>1, <1>4, <1>7, <1>8 DEF DaemonInv, SocketInv, NoOrphans
    <2> QED
      BY <2>1, <2>2, Zenon DEF DaemonInv, SocketInv, ChildInv
  <1> QED
    BY <1>2, <1>3, <1>6, <1>9, Zenon DEF SessionInv

(* The steps of the control thread that move no message. *)
LEMMA LoopKeeps ==
    ASSUME DaemonInv,
           \/ DrainEvent \/ CollectEnd \/ SkipSlot \/ ScanEnd \/ Poll \/ PollFails \/ AcceptEnd
           \/ RequestStop \/ WorkerBatchEnd \/ Notify
    PROVE  SessionInv'
  <1> USE DEF sessionVars, loopVars, controlVars, workerVars, queueVars, flagVars
  <1>1. UNCHANGED <<requests, responses, hand, sockets, nextOwner, clients>>
    BY Zenon DEF DrainEvent, CollectEnd, SkipSlot, ScanEnd, Poll, PollFails, AcceptEnd, RequestStop,
           WorkerBatchEnd, Notify
  <1>2. \A c \in Clients : clients[c].ready => clients[c].input.op \in ClientOps
    BY Zenon DEF DaemonInv, SlotInv
  <1> QED
    BY <1>1, <1>2, QuietKeeps, Zenon

(* What a client sends or receives, and how its connection ends, leaves a  *)
(* request that is on its way alone.                                       *)
LEMMA ServeKeeps ==
    ASSUME DaemonInv, NEW c \in Clients,
           \/ ServeNothing(c) \/ ServeHangUp(c) \/ WriteClient(c) \/ ReadClient(c) \/ ReadInvalid(c)
           \/ PeerCloses(c)
    PROVE  SessionInv'
  <1> USE DEF sessionVars, loopVars, controlVars, workerVars, queueVars, flagVars
  <1>1. UNCHANGED <<requests, responses, hand, sockets, nextOwner>>
    BY Zenon DEF ServeNothing, ServeHangUp, WriteClient, ReadClient, ReadInvalid, Serve, PeerCloses
  <1>2. clients \in [Clients -> ClientType] /\ clients[c] \in ClientType
    BY Zenon DEF DaemonInv, TypeOK
  <1>3. \A d \in Clients : clients[d].ready => clients[d].input.op \in ClientOps
    BY Zenon DEF DaemonInv, SlotInv
  <1> DEFINE new == clients'[c]
  <1>4. /\ \A d \in Clients : d # c => clients'[d] = clients[d]
        /\ new.owner = clients[c].owner /\ new.pending = clients[c].pending
        /\ new.cleanup = clients[c].cleanup /\ (clients[c].dead => new.dead)
        /\ ~new.dead => new.handles = clients[c].handles
        /\ ~new.dead /\ clients[c].pending => new.input = clients[c].input
        /\ new.ready => new.input.op \in ClientOps
    <2>1. CASE ServeNothing(c)
      BY <1>3, <2>1, Zenon DEF ServeNothing
    <2>2. CASE ServeHangUp(c) \/ ReadInvalid(c)
      <3>1. clients' = [clients EXCEPT ![c] = Disconnect(clients[c])]
        BY <2>2, Zenon DEF ServeHangUp, ReadInvalid
      <3>2. new = Disconnect(clients[c]) /\ \A d \in Clients : d # c => clients'[d] = clients[d]
        BY <1>2, <3>1, Zenon
      <3> HIDE DEF new
      <3> QED
        BY <1>2, <3>2, ClientFields, Zenon
    <2>3. CASE WriteClient(c) \/ PeerCloses(c)
      <3>1. /\ new = [clients[c] EXCEPT !.output = FALSE] \/ new = [clients[c] EXCEPT !.fd = "hup"]
            /\ \A d \in Clients : d # c => clients'[d] = clients[d]
        BY <1>2, <2>3, Zenon DEF WriteClient, PeerCloses
      <3> HIDE DEF new
      <3> QED
        BY <1>2, <1>3, <3>1 DEF ClientType
    <2>4. CASE ReadClient(c)
      <3>1. PICK op \in Ops, id \in Ids, fd \in UsedHandles(clients[c]) \cup {None} :
                clients' = [clients EXCEPT ![c].input = [op |-> op, id |-> id, fd |-> fd], ![c].ready = TRUE]
        BY <2>4, Zenon DEF ReadClient
      <3>2. ~clients[c].pending /\ op \in ClientOps
        BY <2>4, OpsAssumption, Zenon DEF ReadClient, Readable
      <3> DEFINE asks == [op |-> op, id |-> id, fd |-> fd]
      <3>3. new = [clients[c] EXCEPT !.input = asks, !.ready = TRUE] /\ asks.op = op
            /\ \A d \in Clients : d # c => clients'[d] = clients[d]
        BY <1>2, <3>1, Zenon
      <3> HIDE DEF new, asks
      <3> QED
        BY <1>2, <3>2, <3>3, Zenon DEF ClientType
    <2> QED
      BY <2>1, <2>2, <2>3, <2>4, Zenon
  <1> HIDE DEF new
  <1> QED
    BY <1>1, <1>3, <1>4, QuietKeeps, Zenon DEF new

(* A session that the scan visits and that submits nothing. *)
LEMMA VisitKeeps ==
    ASSUME DaemonInv, NEW c \in Clients, Visit(c), UNCHANGED requests,
           \A d \in Clients : d # c => clients'[d] = clients[d],
           clients'[c].owner = clients[c].owner, clients'[c].pending = clients[c].pending,
           clients'[c].cleanup = clients[c].cleanup, clients[c].dead => clients'[c].dead,
           ~clients'[c].dead => clients'[c].handles = clients[c].handles,
           ~clients'[c].dead /\ clients[c].pending => clients'[c].input = clients[c].input,
           clients'[c].ready => clients'[c].input.op \in ClientOps
    PROVE  SessionInv'
  <1> USE DEF workerVars, flagVars
  <1>1. UNCHANGED <<requests, responses, hand, sockets, nextOwner>>
    BY Zenon DEF Visit
  <1>2. \A d \in Clients : clients[d].ready => clients[d].input.op \in ClientOps
    BY Zenon DEF DaemonInv, SlotInv
  <1> QED
    BY <1>1, <1>2, QuietKeeps, Zenon

(* What the scan finds in a session. *)
LEMMA SeenFields ==
    ASSUME DaemonInv, NEW c \in Clients
    PROVE  /\ Seen(c) \in ClientType /\ Seen(c).owner = clients[c].owner
           /\ Seen(c).pending = clients[c].pending /\ Seen(c).cleanup = clients[c].cleanup
           /\ clients[c].dead => Seen(c).dead
           /\ ~Seen(c).dead => Seen(c) = clients[c]
           /\ Seen(c).ready => Seen(c).input.op \in ClientOps
  <1>1. clients[c] \in ClientType /\ (clients[c].ready => clients[c].input.op \in ClientOps)
    BY Zenon DEF DaemonInv, TypeOK, SlotInv
  <1>2. CASE stop /\ ~clients[c].dead
    BY <1>1, <1>2, ClientTypes, ClientFields, Zenon DEF Seen
  <1>3. CASE ~(stop /\ ~clients[c].dead)
    BY <1>1, <1>3, Zenon DEF Seen
  <1> QED
    BY <1>2, <1>3, Zenon

(* The scan answers HELLO and bad descriptors itself. *)
LEMMA ScanKeeps ==
    ASSUME DaemonInv, NEW c \in Clients, SubmitNothing(c) \/ SubmitHello(c) \/ SubmitBadHandle(c)
    PROVE  SessionInv'
  <1>1. Visit(c) /\ UNCHANGED requests
    BY Zenon DEF SubmitNothing, SubmitHello, SubmitBadHandle, Waiting
  <1>2. clients \in [Clients -> ClientType] /\ clients[c] \in ClientType
    BY Zenon DEF DaemonInv, TypeOK
  <1> DEFINE new == clients'[c]
             h == [clients[c] EXCEPT !.hello = TRUE]
  <1>3. CASE SubmitNothing(c)
    <2>1. new = Seen(c) /\ \A d \in Clients : d # c => clients'[d] = clients[d]
      BY <1>2, <1>3, Zenon DEF SubmitNothing
    <2> QED
      BY <1>1, <2>1, SeenFields, VisitKeeps
  <1>4. CASE SubmitHello(c) \/ SubmitBadHandle(c)
    <2>1. ~Seen(c).pending /\ ~Seen(c).dead
      BY <1>4, Zenon DEF SubmitHello, SubmitBadHandle, Waiting
    <2>2. Seen(c) = clients[c] /\ ~clients[c].dead /\ ~clients[c].pending
      BY <2>1, SeenFields, Zenon
    <2>3. /\ new \in {Reply(clients[c]), Disconnect(clients[c]), Reply(h)}
          /\ \A d \in Clients : d # c => clients'[d] = clients[d]
      BY <1>2, <1>4, <2>2, Zenon DEF SubmitHello, SubmitBadHandle
    <2>4. h \in ClientType
      BY <1>2, ClientTypes, Zenon
    <2>5. /\ h.owner = clients[c].owner /\ h.dead = clients[c].dead /\ h.pending = clients[c].pending
          /\ h.cleanup = clients[c].cleanup /\ h.handles = clients[c].handles
      BY <1>2, Zenon DEF ClientType
    <2> HIDE DEF h, new
    <2>6. /\ new.owner = clients[c].owner /\ new.pending = clients[c].pending
          /\ new.cleanup = clients[c].cleanup /\ (~new.dead => new.handles = clients[c].handles)
          /\ ~new.ready
      BY <1>2, <2>3, <2>4, <2>5, ClientFields
    <2> QED
      BY <1>1, <2>2, <2>3, <2>6, VisitKeeps, Zenon DEF new
  <1> QED
    BY <1>3, <1>4, Zenon

(* Client c, with nothing on its way, submits a message: what changes in   *)
(* its slot.                                                               *)
Submits(c, item) ==
    /\ Visit(c) /\ ~clients[c].pending
    /\ item.owner = clients[c].owner /\ requests' = Append(requests, item)
    /\ \A d \in Clients : d # c => clients'[d] = clients[d]
    /\ clients'[c].owner = clients[c].owner /\ clients'[c].pending
    /\ clients[c].dead => clients'[c].dead
    /\ clients'[c].cleanup => clients'[c].dead /\ Seen(c).dead
    /\ ~clients'[c].dead => clients'[c].handles = clients[c].handles /\ clients'[c].input = clients[c].input
    /\ clients'[c].ready => clients'[c].input.op \in ClientOps
    /\ RequestFits(clients'[c], item)

(* A session that has nothing on its way submits a message. *)
LEMMA PushKeeps ==
    ASSUME DaemonInv, NEW c \in Clients, NEW item \in Requests, Submits(c, item)
    PROVE  SessionInv'
  <1> USE DEF workerVars, flagVars
  <1>1. /\ UNCHANGED <<responses, hand, sockets, nextOwner>> /\ clients[c].owner # None
    BY Zenon DEF Submits, Visit, DaemonInv, TypeOK
  <1> DEFINE o == clients[c].owner
  <1>a. item.owner = o /\ requests' = Append(requests, item) /\ ~clients[c].pending
    BY Zenon DEF Submits
  <1>b. /\ \A d \in Clients : d # c => clients'[d] = clients[d]
        /\ clients'[c].owner = o /\ clients'[c].pending /\ (clients[c].dead => clients'[c].dead)
    BY Zenon DEF Submits
  <1>c. \A d \in Clients : clients'[d].owner = clients[d].owner
    BY <1>b, Zenon
  <1>3. o \notin OwnersIn(requests) /\ o \notin OwnersIn(responses) /\ o # hand.owner
    BY <1>1, <1>a, Zenon DEF DaemonInv, QueueInv
  <1>4. /\ Distinct(requests') /\ Messages(requests') = Messages(requests) \cup {item}
        /\ OwnersIn(requests') = OwnersIn(requests) \cup {o}
    <2>1. requests \in Seq(Requests) /\ Distinct(requests) /\ item.owner \notin OwnersIn(requests)
      BY <1>3, <1>a, Zenon DEF DaemonInv, TypeOK, QueueInv
    <2> QED
      BY <1>a, <2>1, PushMessage
  <1>5. Sessions' = Sessions /\ o \in Sessions
    BY <1>1, <1>c, Zenon DEF Sessions
  <1>6. \A d \in Clients : d # c => clients[d].owner # o
    BY <1>1, Zenon DEF DaemonInv, SlotInv
  <1>7. QueueInv'
    <2>1. \A d \in Clients : clients'[d].owner # None =>
             (clients'[d].pending <=> clients'[d].owner \in OwnersIn(requests') \cup OwnersIn(responses)
                                                           \cup {hand.owner})
      <3>1. QueueInv
        BY Zenon DEF DaemonInv
      <3>2. ASSUME NEW d \in Clients, d # c, clients'[d].owner # None
            PROVE  clients'[d].pending <=> clients'[d].owner \in OwnersIn(requests') \cup OwnersIn(responses)
                                                                     \cup {hand.owner}
        BY <1>4, <1>6, <1>b, <3>1, <3>2, Zenon DEF QueueInv
      <3> QED
        BY <1>4, <1>b, <3>2, Zenon
    <2>2. /\ OwnersIn(requests') \cap OwnersIn(responses) = {}
          /\ hand.owner \notin OwnersIn(requests') \cup OwnersIn(responses)
          /\ OwnersIn(requests') \cup OwnersIn(responses) \subseteq Sessions
      <3>1. QueueInv
        BY Zenon DEF DaemonInv
      <3> QED
        BY <1>3, <1>4, <1>5, <3>1, Zenon DEF QueueInv
    <2>3. OwnersIn(requests)' = OwnersIn(requests') /\ OwnersIn(responses)' = OwnersIn(responses)
          /\ Distinct(requests)' /\ Distinct(responses)'
      BY <1>1, <1>4 DEF OwnersIn, Distinct, DaemonInv, QueueInv
    <2>4. hand' = hand /\ (hand # NoRequest => hand.owner \in Sessions)
      BY <1>1, Zenon DEF DaemonInv, QueueInv
    <2> QED
      BY <1>5, <2>1, <2>2, <2>3, <2>4, Zenon DEF QueueInv
  <1>8. SlotInv'
    <2>1. SlotInv
      BY Zenon DEF DaemonInv
    <2>2. \A d, e \in Clients : clients'[d].owner = clients'[e].owner /\ clients'[d].owner # None => d = e
      <3>1. \A d, e \in Clients : clients[d].owner = clients[e].owner /\ clients[d].owner # None => d = e
        BY <2>1, Zenon DEF SlotInv
      <3> QED
        BY <1>c, <3>1
    <2>3. ASSUME NEW d \in Clients
          PROVE  /\ clients'[d].owner <= nextOwner
                 /\ clients'[d].cleanup => clients'[d].dead /\ clients'[d].pending
                 /\ clients'[d].ready => clients'[d].input.op \in ClientOps
      <3>1. CASE d = c
        BY <1>b, <2>1, <3>1, Zenon DEF SlotInv, Submits
      <3>2. CASE d # c
        BY <1>b, <2>1, <3>2, Zenon DEF SlotInv
      <3> QED
        BY <3>1, <3>2, Zenon
    <2> QED
      BY <1>1, <2>2, <2>3, Zenon DEF SlotInv
  <1>9. \A d \in Clients : clients[d].owner # None =>
           /\ \A m \in Messages(responses) : m.owner = clients[d].owner => d # c
           /\ \A r \in Messages(requests) : r.owner = clients[d].owner => d # c
           /\ hand.owner = clients[d].owner => d # c
    BY <1>3, OwnersOfMessages, Zenon
  <1>10. FitInv'
    <2>1. Messages(requests)' = Messages(requests) \cup {item} /\ Messages(responses)' = Messages(responses)
      <3>1. Messages(requests)' = Messages(requests')
        BY Zenon DEF Messages
      <3>2. Messages(responses)' = Messages(responses)
        BY <1>1, Zenon DEF Messages
      <3> QED
        BY <1>4, <3>1, <3>2, Zenon
    <2>2. ASSUME NEW d \in Clients, NEW m, d # c, AnswerFits(clients[d], m)
          PROVE  AnswerFits(clients[d], m)'
      <3>1. clients'[d] = clients[d]
        BY <1>b, <2>2, Zenon
      <3> QED
        BY <1>1, <2>2, <3>1, Zenon DEF AnswerFits, Mine
    <2>3. \A d \in Clients : item.owner = clients[d].owner => d = c
      BY <1>6, <1>a, Zenon
    <2>4. ASSUME NEW d \in Clients, clients'[d].owner # None, d # c
          PROVE  /\ \A r \in Messages(requests)' : r.owner = clients'[d].owner => RequestFits(clients'[d], r)
                 /\ hand'.owner = clients'[d].owner => RequestFits(clients'[d], hand')
                 /\ \A m \in Messages(responses)' : m.owner = clients'[d].owner => AnswerFits(clients[d], m)'
      BY <1>1, <1>b, <2>1, <2>2, <2>3, <2>4, Zenon DEF DaemonInv, FitInv
    <2>5. /\ \A r \in Messages(requests)' : r.owner = clients'[c].owner => RequestFits(clients'[c], r)
          /\ hand'.owner # clients'[c].owner
          /\ \A m \in Messages(responses)' : m.owner # clients'[c].owner
      <3>1. RequestFits(clients'[c], item)
        BY Zenon DEF Submits
      <3> QED
        BY <1>1, <1>9, <1>b, <2>1, <3>1, Zenon
    <2> QED
      BY <2>4, <2>5, Zenon DEF FitInv
  <1>12. \A p : Answers(p)' = Answers(p)
    BY <1>1, Zenon DEF Answers
  <1>13. ASSUME NEW d \in Clients, Alive(d)'
         PROVE  /\ Alive(d) /\ clients'[d].owner = clients[d].owner /\ clients'[d].input = clients[d].input
                /\ clients'[d].handles = clients[d].handles /\ UsedHandles(clients'[d]) = UsedHandles(clients[d])
    <2>1. CASE d = c
      BY <1>b, <1>13, <2>1, Zenon DEF Submits, Alive, UsedHandles
    <2>2. CASE d # c
      BY <1>b, <1>13, <2>2, Zenon DEF Alive
    <2> QED
      BY <2>1, <2>2, Zenon
  <1>14. HandlesValid /\ NoOrphans /\ sockets' = sockets
    BY <1>1, Zenon DEF DaemonInv, SocketInv
  <1>15. HandlesValid'
    <2>1. ASSUME NEW d \in Clients, Alive(d)', NEW l \in UsedHandles(clients'[d])
          PROVE  \/ /\ sockets[clients'[d].handles[l]].state \in {"open", "listen"}
                    /\ sockets[clients'[d].handles[l]].owner = clients'[d].owner
                 \/ \E m \in Answers(clients'[d].owner) : m.op = "CLOSE" /\ m.ok /\ clients'[d].input.fd = l
      <3>1. /\ Alive(d) /\ clients'[d].owner = clients[d].owner /\ clients'[d].input = clients[d].input
            /\ clients'[d].handles = clients[d].handles /\ l \in UsedHandles(clients[d])
        BY <1>13, <2>1, Zenon
      <3>2. \/ /\ sockets[clients[d].handles[l]].state \in {"open", "listen"}
               /\ sockets[clients[d].handles[l]].owner = clients[d].owner
            \/ \E m \in Answers(clients[d].owner) : m.op = "CLOSE" /\ m.ok /\ clients[d].input.fd = l
        BY <1>14, <3>1, Zenon DEF HandlesValid
      <3> QED
        BY <3>1, <3>2, Zenon
    <2>2. ASSUME NEW d \in Clients, Alive(d)', NEW k \in UsedHandles(clients'[d]),
                 NEW l \in UsedHandles(clients'[d]), clients'[d].handles[k] = clients'[d].handles[l]
          PROVE  k = l
      <3>1. /\ Alive(d) /\ clients[d].handles[k] = clients[d].handles[l]
            /\ k \in UsedHandles(clients[d]) /\ l \in UsedHandles(clients[d])
        BY <1>13, <2>2, Zenon
      <3> QED
        BY <1>14, <3>1, Zenon DEF HandlesValid
    <2> QED
      BY <1>12, <1>14, <2>1, <2>2, Zenon DEF HandlesValid
  <1>16. NoOrphans'
    <2>1. ASSUME NEW f \in Fds, NEW d \in Clients, Alive(d)', sockets[f].owner = clients'[d].owner,
                 sockets[f].state \in {"open", "listen"}
          PROVE  \/ \E l \in UsedHandles(clients'[d]) : clients'[d].handles[l] = f
                 \/ \E m \in Answers(clients'[d].owner) : m.op \in {"SOCKET", "ACCEPT"} /\ m.ok /\ m.fd = f
      <3>1. /\ Alive(d) /\ clients'[d].owner = clients[d].owner
            /\ clients'[d].handles = clients[d].handles /\ UsedHandles(clients'[d]) = UsedHandles(clients[d])
        BY <1>13, <2>1, Zenon
      <3>2. \/ \E l \in UsedHandles(clients[d]) : clients[d].handles[l] = f
            \/ \E m \in Answers(clients[d].owner) : m.op \in {"SOCKET", "ACCEPT"} /\ m.ok /\ m.fd = f
        BY <1>14, <2>1, <3>1 DEF NoOrphans
      <3> QED
        BY <3>1, <3>2, Zenon
    <2> QED
      BY <1>5, <1>12, <1>14, <2>1, Zenon DEF NoOrphans
  <1> QED
    BY <1>1, <1>7, <1>8, <1>10, <1>15, <1>16, Zenon DEF DaemonInv, SessionInv, SocketInv, ChildInv

(* submit_client: the cleanup of a dead session, or what a live one asks. *)
LEMMA SubmitKeeps ==
    ASSUME DaemonInv, NEW c \in Clients, SubmitCleanup(c) \/ SubmitRequest(c)
    PROVE  SessionInv'
  <1>1. Visit(c) /\ ~Seen(c).pending /\ clients[c].owner # None
    BY Zenon DEF SubmitCleanup, SubmitRequest, Waiting, Visit
  <1>2. /\ clients \in [Clients -> ClientType] /\ clients[c] \in ClientType /\ ~clients[c].pending
        /\ ~clients[c].cleanup
    BY <1>1, SeenFields, Zenon DEF DaemonInv, TypeOK, SlotInv
  <1>3. CASE UNCHANGED requests
    <2>2. \A item : item \in Requests => Append(requests, item) # requests
      BY DEF DaemonInv, TypeOK
    <2>3. LocalInv /\ SlotInv
      BY Zenon DEF DaemonInv, LocalInv
    <2>4. clients' = [clients EXCEPT ![c] = Seen(c)]
      <3>1. CASE SubmitCleanup(c)
        BY <1>1, <1>3, <2>2, <2>3, <3>1, SubmittedTypes, Zenon DEF SubmitCleanup, Submit
      <3>2. CASE SubmitRequest(c)
        <4> DEFINE item == [owner |-> clients[c].owner, op |-> Seen(c).input.op, id |-> Seen(c).input.id,
                            fd |-> IF NeedsHandle(c) THEN Seen(c).handles[Seen(c).input.fd] ELSE None]
        <4>1. item \in Requests
          BY <1>1, <2>3, <3>2, SubmittedTypes, Zenon DEF SubmitRequest, Waiting
        <4>2. Submit(c, item, [Seen(c) EXCEPT !.pending = TRUE])
          BY <3>2, Zenon DEF SubmitRequest
        <4> HIDE DEF item
        <4> QED
          BY <1>3, <2>2, <4>1, <4>2, Zenon DEF Submit
      <3> QED
        BY <3>1, <3>2, Zenon
    <2>5. clients'[c] = Seen(c) /\ \A d \in Clients : d # c => clients'[d] = clients[d]
      BY <1>2, <2>4, Zenon
    <2> QED
      BY <1>1, <1>3, <2>5, SeenFields, VisitKeeps, Zenon
  <1>4. CASE requests' # requests
    <2>1. LocalInv /\ SlotInv
      BY Zenon DEF DaemonInv, LocalInv
    <2>2. CASE SubmitCleanup(c)
      <3> DEFINE item == [owner |-> clients[c].owner, op |-> "CLEANUP", id |-> NoId, fd |-> None]
                 new == [Seen(c) EXCEPT !.pending = TRUE, !.cleanup = TRUE]
      <3>1. /\ item \in Requests /\ item.owner = clients[c].owner /\ item.op = "CLEANUP"
            /\ requests' = Append(requests, item) /\ clients' = [clients EXCEPT ![c] = new] /\ Seen(c).dead
        BY <1>1, <1>4, <2>1, <2>2, SubmittedTypes, Zenon DEF SubmitCleanup, Submit
      <3>2. /\ new.owner = clients[c].owner /\ new.pending /\ new.dead /\ new.cleanup
            /\ new.ready = Seen(c).ready /\ new.input = Seen(c).input
        BY <3>1, SeenFields DEF ClientType
      <3> HIDE DEF item, new
      <3>3. clients'[c] = new /\ \A d \in Clients : d # c => clients'[d] = clients[d]
        BY <1>2, <3>1, Zenon
      <3>4. RequestFits(clients'[c], item)
        BY <3>1, <3>2, <3>3, Zenon DEF RequestFits
      <3> QED
        <4>1. Submits(c, item)
          BY <1>1, <1>2, <3>1, <3>2, <3>3, <3>4, SeenFields, Zenon DEF Submits
        <4> QED
          BY <3>1, <4>1, PushKeeps, Zenon
    <2>3. CASE SubmitRequest(c)
      <3>1. Seen(c) = clients[c] /\ ~clients[c].dead /\ clients[c].ready
        BY <2>3, SeenFields, Zenon DEF SubmitRequest, Waiting
      <3> DEFINE item == [owner |-> clients[c].owner, op |-> Seen(c).input.op, id |-> Seen(c).input.id,
                          fd |-> IF NeedsHandle(c) THEN Seen(c).handles[Seen(c).input.fd] ELSE None]
                 new == [clients[c] EXCEPT !.pending = TRUE]
      <3>2. item \in Requests
        BY <1>1, <2>1, <2>3, <3>1, SubmittedTypes, Zenon DEF SubmitRequest
      <3>3. requests' = Append(requests, item) /\ clients' = [clients EXCEPT ![c] = new]
        BY <1>4, <2>3, <3>1, Zenon DEF SubmitRequest, Submit
      <3>4. /\ item.owner = clients[c].owner /\ item.op = clients[c].input.op /\ item.id = clients[c].input.id
            /\ item.op # "SOCKET" =>
                  /\ clients[c].input.fd \in UsedHandles(clients[c])
                  /\ item.fd = clients[c].handles[clients[c].input.fd]
        BY <2>3, <3>1, Zenon DEF SubmitRequest, NeedsHandle, KnownHandle
      <3>5. item.op # "CLEANUP" /\ item.op \in ClientOps
        BY <3>1, <3>4, Zenon DEF DaemonInv, SlotInv, ClientOps
      <3>6. /\ new.owner = clients[c].owner /\ new.pending /\ ~new.dead /\ ~new.cleanup
            /\ new.ready /\ new.input = clients[c].input /\ new.handles = clients[c].handles
        BY <1>2, <3>1, Zenon DEF ClientType
      <3> HIDE DEF item, new
      <3>7. clients'[c] = new /\ \A d \in Clients : d # c => clients'[d] = clients[d]
        BY <1>2, <3>3, Zenon
      <3>8. RequestFits(clients'[c], item)
        BY <3>4, <3>5, <3>6, <3>7, Zenon DEF RequestFits, UsedHandles
      <3> QED
        <4>1. Submits(c, item)
          BY <1>1, <1>2, <3>1, <3>3, <3>4, <3>5, <3>6, <3>7, <3>8, Zenon DEF Submits
        <4> QED
          BY <3>2, <4>1, PushKeeps, Zenon
    <2> QED
      BY <2>2, <2>3, Zenon
  <1> QED
    BY <1>3, <1>4, Zenon

(* Steps that leave the sessions, the sockets and the responses alone.     *)
LEMMA SocketsStay ==
    ASSUME SlotInv, SocketInv, UNCHANGED <<clients, nextOwner, sockets, responses>>
    PROVE  SlotInv' /\ SocketInv'
  <1>1. SlotInv'
    BY Zenon DEF SlotInv
  <1>2. \A o : Answers(o)' = Answers(o)
    BY Zenon DEF Answers
  <1>3. (\A c \in Clients : Alive(c)' <=> Alive(c)) /\ Sessions' = Sessions
    BY Zenon DEF Alive, Sessions
  <1>4. HandlesValid'
    BY <1>2, <1>3, Zenon DEF SocketInv, HandlesValid
  <1>5. NoOrphans'
    <2>1. NoOrphans
      BY Zenon DEF SocketInv
    <2>2. \A f \in Fds : sockets[f].state \in {"open", "listen", "child"} => sockets[f].owner \in Sessions'
      BY <1>3, <2>1, Zenon DEF NoOrphans
    <2>3. \A f \in Fds, c \in Clients :
             (Alive(c)' /\ sockets[f].owner = clients[c].owner /\ sockets[f].state \in {"open", "listen"}) =>
                 \/ \E l \in UsedHandles(clients[c]) : clients[c].handles[l] = f
                 \/ \E m \in Answers(clients[c].owner)' : m.op \in {"SOCKET", "ACCEPT"} /\ m.ok /\ m.fd = f
      BY <1>2, <1>3, <2>1, Zenon DEF NoOrphans
    <2>4. \A f \in Fds : sockets[f].state = "child" =>
             LET listener == sockets[sockets[f].parent]
             IN  listener.state = "listen" /\ listener.owner = sockets[f].owner
      BY <2>1, Zenon DEF NoOrphans
    <2>5. sockets' = sockets /\ clients' = clients
      BY Zenon
    <2> QED
      BY <2>2, <2>3, <2>4, <2>5 DEF NoOrphans
  <1>6. ChildInv'
    BY Zenon DEF SocketInv, ChildInv
  <1> QED
    BY <1>1, <1>4, <1>5, <1>6, Zenon DEF SocketInv

(* The worker takes a request in hand. *)
LEMMA PopKeeps == DaemonInv /\ WorkerPop => SessionInv'
  <1> SUFFICES ASSUME DaemonInv, WorkerPop PROVE SessionInv'
    BY Zenon
  <1> USE DEF sessionVars, controlVars, flagVars
  <1>1. /\ UNCHANGED <<clients, nextOwner, responses, sockets>> /\ requests # <<>>
        /\ hand = NoRequest /\ hand' = Head(requests) /\ requests' = Tail(requests)
    BY Zenon DEF WorkerPop, DaemonInv, LoopInv
  <1>2. /\ Head(requests) \in Messages(requests) /\ Head(requests).owner \in OwnersIn(requests)
        /\ Distinct(requests') /\ Messages(requests') = Messages(requests) \ {Head(requests)}
        /\ OwnersIn(requests') = OwnersIn(requests) \ {Head(requests).owner}
    BY <1>1, PopMessage, Zenon DEF DaemonInv, TypeOK, QueueInv
  <1>3. /\ OwnersIn(requests)' = OwnersIn(requests') /\ OwnersIn(responses)' = OwnersIn(responses)
        /\ Distinct(requests)' /\ Distinct(responses)' /\ Sessions' = Sessions
        /\ Messages(requests)' = Messages(requests') /\ Messages(responses)' = Messages(responses)
    <2>1. OwnersIn(requests)' = OwnersIn(requests') /\ OwnersIn(responses)' = OwnersIn(responses)
      BY <1>1 DEF OwnersIn
    <2>2. Messages(requests)' = Messages(requests') /\ Messages(responses)' = Messages(responses)
      BY <1>1 DEF Messages
    <2>3. Sessions' = Sessions
      BY <1>1 DEF Sessions
    <2>4. Distinct(responses)
      BY Zenon DEF DaemonInv, QueueInv
    <2>5. Distinct(requests)' /\ Distinct(responses)'
      BY <1>1, <1>2, <2>4 DEF Distinct
    <2> QED
      BY <2>1, <2>2, <2>3, <2>5, Zenon
  <1>4. None \notin OwnersIn(requests) /\ hand.owner = None
    BY <1>1, OwnersTyped, Zenon DEF DaemonInv
  <1>5. QueueInv'
    <2>1. OwnersIn(requests) = OwnersIn(requests') \cup {hand'.owner}
      BY <1>1, <1>2, Zenon
    <2>2. \A c \in Clients : clients[c].owner # None =>
             (clients[c].pending <=> clients[c].owner \in OwnersIn(requests') \cup OwnersIn(responses) \cup {hand'.owner})
      BY <1>4, <2>1, Zenon DEF DaemonInv, QueueInv
    <2>3. /\ OwnersIn(requests') \cap OwnersIn(responses) = {}
          /\ hand'.owner \notin OwnersIn(requests') \cup OwnersIn(responses)
          /\ OwnersIn(requests') \cup OwnersIn(responses) \subseteq Sessions /\ hand'.owner \in Sessions
      BY <1>1, <1>2, <2>1, Zenon DEF DaemonInv, QueueInv
    <2> QED
      BY <1>1, <1>3, <2>2, <2>3, Zenon DEF QueueInv
  <1>6. FitInv'
    <2>1. ASSUME NEW c \in Clients, NEW m, AnswerFits(clients[c], m) PROVE AnswerFits(clients[c], m)'
      BY <1>1, <2>1, Zenon DEF AnswerFits, Mine
    <2>2. FitInv
      BY Zenon DEF DaemonInv
    <2>3. ASSUME NEW c \in Clients, clients[c].owner # None
          PROVE  /\ \A r \in Messages(requests') : r.owner = clients[c].owner => RequestFits(clients[c], r)
                 /\ hand'.owner = clients[c].owner => RequestFits(clients[c], hand')
                 /\ \A m \in Messages(responses) : m.owner = clients[c].owner => AnswerFits(clients[c], m)'
      <3>1. \A r \in Messages(requests) : r.owner = clients[c].owner => RequestFits(clients[c], r)
        BY <2>2, <2>3, Zenon DEF FitInv
      <3>2. \A m \in Messages(responses) : m.owner = clients[c].owner => AnswerFits(clients[c], m)
        BY <2>2, <2>3, Zenon DEF FitInv
      <3> QED
        BY <1>1, <1>2, <2>1, <3>1, <3>2, Zenon
    <2> QED
      BY <1>1, <1>3, <2>3, Zenon DEF FitInv
  <1>7. SlotInv' /\ SocketInv'
    <2>1. SlotInv /\ SocketInv
      BY Zenon DEF DaemonInv
    <2> QED
      BY <1>1, <2>1, SocketsStay, Zenon
  <1> QED
    BY <1>5, <1>6, <1>7, Zenon DEF SessionInv

(* Steps of the transport: what the clients have open stays, and a child   *)
(* is queued on a listener.                                                *)
LEMMA TransportKeeps ==
    ASSUME DaemonInv, UNCHANGED <<clients, nextOwner, requests, responses, hand>>,
           \A f \in Fds : \A o \in 0..MaxOwner : Mine(f, o)' <=> Mine(f, o),
           ChildInv', TypeOK'
    PROVE  SessionInv'
  <1>1. \A f \in Fds : sockets[f].owner \in 0..MaxOwner /\ sockets'[f].owner \in 0..MaxOwner
    BY Zenon DEF DaemonInv, TypeOK
  <1>2. \A f \in Fds : sockets'[f].state = "child" =>
           \E p \in Fds : Mine(p, sockets'[f].owner)
    BY <1>1 DEF ChildInv, Mine
  <1>3. QueueInv' /\ SlotInv' /\ Sessions' = Sessions
    <2>1. /\ OwnersIn(requests)' = OwnersIn(requests) /\ OwnersIn(responses)' = OwnersIn(responses)
          /\ Distinct(requests)' = Distinct(requests) /\ Distinct(responses)' = Distinct(responses)
          /\ Sessions' = Sessions
      BY Zenon DEF OwnersIn, Distinct, Sessions
    <2> QED
      BY <2>1, Zenon DEF DaemonInv, QueueInv, SlotInv
  <1>4. \A c \in Clients : clients[c].owner \in 0..MaxOwner
    BY Zenon DEF DaemonInv, TypeOK, ClientType
  <1>5. \A f \in Fds : \A o : /\ Mine(f, o) => sockets[f].state \in {"open", "listen", "child"} /\ sockets[f].owner = o
                              /\ sockets[f].state \in {"open", "listen"} <=> Mine(f, sockets[f].owner)
                              /\ sockets'[f].state \in {"open", "listen"} <=> Mine(f, sockets[f].owner)'
    BY Zenon DEF Mine
  <1>6. FitInv'
    <2>1. ASSUME NEW c \in Clients, NEW m \in Messages(responses), m.owner = clients[c].owner,
                 AnswerFits(clients[c], m)
          PROVE  AnswerFits(clients[c], m)'
      <3>1. ASSUME m.op = "CLEANUP", NEW f \in Fds, sockets'[f].state \in {"open", "listen", "child"}
            PROVE  sockets'[f].owner # m.owner
        <4>1. CASE sockets'[f].state = "child"
          BY <1>2, <1>5, <2>1, <3>1, <4>1 DEF AnswerFits
        <4>2. CASE sockets'[f].state \in {"open", "listen"}
          BY <1>1, <1>5, <2>1, <3>1, <4>2 DEF AnswerFits
        <4> QED
          BY <3>1, <4>1, <4>2, Zenon
      <3>2. m.fd \in Fds => (Mine(m.fd, m.owner)' <=> Mine(m.fd, m.owner))
        BY <1>4, <2>1, Zenon
      <3>3. clients[c].input.fd \in UsedHandles(clients[c]) =>
               LET f == clients[c].handles[clients[c].input.fd]
               IN  f \in Fds /\ (Mine(f, m.owner)' <=> Mine(f, m.owner))
        BY <1>4, <2>1, HandlesName, Zenon DEF DaemonInv
      <3> QED
        BY <2>1, <3>1, <3>2, <3>3, Zenon DEF AnswerFits
    <2>2. Messages(requests)' = Messages(requests) /\ Messages(responses)' = Messages(responses)
      BY Zenon DEF Messages
    <2> QED
      BY <2>1, <2>2, Zenon DEF DaemonInv, FitInv
  <1>7. HandlesValid'
    <2>1. \A c \in Clients : \A l \in UsedHandles(clients[c]) : clients[c].handles[l] \in Fds
      BY HandlesName, Zenon DEF DaemonInv
    <2>2. ASSUME NEW c \in Clients, Alive(c)', NEW l \in UsedHandles(clients[c])
          PROVE  \/ Mine(clients[c].handles[l], clients[c].owner)'
                 \/ \E m \in Answers(clients[c].owner) : m.op = "CLOSE" /\ m.ok /\ clients[c].input.fd = l
      <3>1. \/ Mine(clients[c].handles[l], clients[c].owner)
            \/ \E m \in Answers(clients[c].owner) : m.op = "CLOSE" /\ m.ok /\ clients[c].input.fd = l
        BY <2>2, Zenon DEF Alive, DaemonInv, SocketInv, HandlesValid, Mine
      <3>2. Mine(clients[c].handles[l], clients[c].owner)' <=> Mine(clients[c].handles[l], clients[c].owner)
        BY <1>4, <2>1, Zenon
      <3> QED
        BY <3>1, <3>2, Zenon
    <2> QED
      BY <2>2 DEF Alive, DaemonInv, SocketInv, HandlesValid, Mine, Answers
  <1>8. NoOrphans'
    <2>1. \A f \in Fds : sockets'[f].state \in {"open", "listen", "child"} => sockets'[f].owner \in Sessions
      BY <1>1, <1>2, <1>5 DEF DaemonInv, SocketInv, NoOrphans
    <2>2. \A f \in Fds, c \in Clients :
             sockets'[f].owner = clients[c].owner /\ sockets'[f].state \in {"open", "listen"} =>
             sockets[f].owner = clients[c].owner /\ sockets[f].state \in {"open", "listen"}
      BY <1>1, Zenon DEF Mine
    <2>3. \A o : Answers(o)' = Answers(o)
      BY Zenon DEF Answers
    <2>4. \A c \in Clients : Alive(c)' <=> Alive(c)
      BY Zenon DEF Alive
    <2>5. \A f \in Fds, c \in Clients :
          (Alive(c)' /\ sockets'[f].owner = clients[c].owner /\ sockets'[f].state \in {"open", "listen"}) =>
              \/ \E l \in UsedHandles(clients[c]) : clients[c].handles[l] = f
              \/ \E m \in Answers(clients[c].owner) : m.op \in {"SOCKET", "ACCEPT"} /\ m.ok /\ m.fd = f
      BY <2>2, <2>4 DEF DaemonInv, SocketInv, NoOrphans
    <2> QED
      BY <1>3, <2>1, <2>3, <2>5 DEF NoOrphans, ChildInv
  <1> QED
    BY <1>3, <1>6, <1>7, <1>8, Zenon DEF SessionInv, SocketInv

(* passive_open and tcp_fail. *)
LEMMA TransportStepKeeps ==
    ASSUME DaemonInv, NEW f \in Fds, PassiveOpen(f) \/ TransportEnds(f)
    PROVE  SessionInv'
  <1> USE DEF sessionVars, controlVars, queueVars, flagVars
  <1>1. UNCHANGED <<clients, nextOwner, requests, responses, hand>> /\ TypeOK'
    BY WorkerLocal, Zenon DEF PassiveOpen, TransportEnds, LocalInv
  <1>2. sockets \in [Fds -> SocketType]
    BY Zenon DEF DaemonInv, TypeOK, SocketType
  <1>3. CASE PassiveOpen(f)
    <2> DEFINE child == [state |-> "child", owner |-> sockets[f].owner, parent |-> f]
    <2>2. PICK g \in Fds : g \in FreeSlots /\ sockets' = [sockets EXCEPT ![g] = child]
      BY <1>3, Zenon DEF PassiveOpen, IsFirst
    <2>1. sockets[g].state = "free" /\ sockets[f].state = "listen"
      BY <1>3, <2>2, Zenon DEF PassiveOpen, FreeSlots
    <2>3. child.state = "child" /\ child.owner = sockets[f].owner /\ child.parent = f
      BY Zenon
    <2> HIDE DEF child
    <2>4. sockets'[g] = child /\ \A h \in Fds : h # g => sockets'[h] = sockets[h]
      BY <1>2, <2>1, <2>2, Zenon
    <2>5. \A h \in Fds : \A o \in 0..MaxOwner : Mine(h, o)' <=> Mine(h, o)
      BY <2>1, <2>3, <2>4, Zenon DEF Mine
    <2>6. ChildInv'
      BY <2>1, <2>3, <2>4 DEF ChildInv, DaemonInv, SocketInv
    <2> QED
      BY <1>1, <2>5, <2>6, TransportKeeps, Zenon
  <1>4. CASE TransportEnds(f)
    <2>1. sockets[f].state \in {"child", "linger"} /\ sockets' = [sockets EXCEPT ![f] = FreeSocket]
      BY <1>4, Zenon DEF TransportEnds
    <2>2. sockets'[f].state = "free" /\ \A h \in Fds : h # f => sockets'[h] = sockets[h]
      BY <1>2, <2>1, Zenon DEF FreeSocket
    <2>3. \A h \in Fds : \A o \in 0..MaxOwner : Mine(h, o)' <=> Mine(h, o)
      BY <2>1, <2>2, Zenon DEF Mine
    <2>4. ChildInv'
      BY <2>1, <2>2 DEF ChildInv, DaemonInv, SocketInv
    <2> QED
      BY <1>1, <2>3, <2>4, TransportKeeps, Zenon
  <1> QED
    BY <1>3, <1>4, Zenon

(* What the request in hand, answered with ok and fd, does to the sockets  *)
(* of its owner o: those of other owners stay.                             *)
Executed(ok, fd, o) ==
    /\ \A f \in Fds, q \in 0..MaxOwner : q # o => (Mine(f, q)' <=> Mine(f, q))
    /\ hand.op = "CLEANUP" => \A f \in Fds : ~Mine(f, o)'
    /\ ok /\ hand.op \in {"SOCKET", "ACCEPT"} =>
          /\ fd \in Fds /\ ~Mine(fd, o)
          /\ \A f \in Fds : Mine(f, o)' <=> Mine(f, o) \/ f = fd
    /\ ok /\ hand.op = "CLOSE" =>
          \A f \in Fds : Mine(f, o)' <=> Mine(f, o) /\ f # hand.fd
    /\ ~(hand.op = "CLEANUP" \/ (ok /\ hand.op \in {"SOCKET", "ACCEPT", "CLOSE"})) =>
          \A f \in Fds : Mine(f, o)' <=> Mine(f, o)

(* The execution of a request by the worker: the response carries what the *)
(* request asked, and only the requester's sockets change: one that is     *)
(* made or accepted appears, one that is closed disappears, and a cleanup  *)
(* leaves none.                                                            *)
LEMMA ExecuteKeeps ==
    ASSUME DaemonInv, NEW ok \in BOOLEAN, NEW fd \in 0..MaxSockets, Respond(ok, fd),
           NEW o, o = hand.owner, ChildInv', TypeOK', Executed(ok, fd, o)
    PROVE  SessionInv'
  <1> USE DEF sessionVars, controlVars, flagVars
  <1> SUFFICES ASSUME NEW n, n = Response(ok, fd) PROVE SessionInv'
    BY Zenon
  <1>a. \A f \in Fds, q \in 0..MaxOwner : q # o => (Mine(f, q)' <=> Mine(f, q))
    BY Zenon DEF Executed
  <1>1. /\ UNCHANGED <<clients, nextOwner, requests>> /\ hand \in Requests /\ n \in Responses
        /\ responses' = Append(responses, n) /\ hand' = NoRequest
    BY RespondStep, Zenon
  <1>2. /\ n.owner = o /\ n.op = hand.op /\ n.id = hand.id /\ n.ok = ok /\ n.fd = fd
    BY Zenon DEF Response
  <1>3. hand # NoRequest /\ o \in Owners /\ None \notin Owners /\ NoRequest.owner = None
    BY OwnersTyped, Zenon DEF DaemonInv, LoopInv, Respond
  <1>4. o \notin OwnersIn(responses) /\ o \notin OwnersIn(requests) /\ o \in Sessions
    BY <1>3, Zenon DEF DaemonInv, QueueInv
  <1>5. /\ Distinct(responses') /\ Messages(responses') = Messages(responses) \cup {n}
        /\ OwnersIn(responses') = OwnersIn(responses) \cup {o}
    <2>1. responses \in Seq(Responses) /\ Distinct(responses)
      BY Zenon DEF DaemonInv, TypeOK, QueueInv
    <2>2. n.owner \notin OwnersIn(responses) /\ n \in Responses /\ responses' = Append(responses, n)
      BY <1>1, <1>2, <1>4, Zenon
    <2>3. /\ Distinct(responses') /\ Messages(responses') = Messages(responses) \cup {n}
          /\ OwnersIn(responses') = OwnersIn(responses) \cup {n.owner}
      BY <2>1, <2>2, PushMessage
    <2> QED
      BY <1>2, <2>3, Zenon
  <1>6. /\ OwnersIn(requests)' = OwnersIn(requests) /\ OwnersIn(responses)' = OwnersIn(responses')
        /\ Distinct(requests)' /\ Distinct(responses)' /\ Sessions' = Sessions
        /\ Messages(requests)' = Messages(requests) /\ Messages(responses)' = Messages(responses')
    <2>1. OwnersIn(requests)' = OwnersIn(requests) /\ OwnersIn(responses)' = OwnersIn(responses')
      BY <1>1, Zenon DEF OwnersIn
    <2>2. Messages(requests)' = Messages(requests) /\ Messages(responses)' = Messages(responses')
      BY <1>1, Zenon DEF Messages
    <2>3. Sessions' = Sessions
      BY <1>1, Zenon DEF Sessions
    <2>4. Distinct(requests)
      BY Zenon DEF DaemonInv, QueueInv
    <2>5. Distinct(requests)' /\ Distinct(responses)'
      BY <1>1, <1>5, <2>4, Zenon DEF Distinct
    <2> QED
      BY <2>1, <2>2, <2>3, <2>5, Zenon
  <1>7. QueueInv'
    <2>1. \A c \in Clients : clients[c].owner # None =>
             (clients[c].pending <=> clients[c].owner \in OwnersIn(requests) \cup OwnersIn(responses') \cup {hand'.owner})
      BY <1>1, <1>3, <1>5, Zenon DEF DaemonInv, QueueInv
    <2>2. /\ OwnersIn(requests) \cap OwnersIn(responses') = {}
          /\ hand'.owner \notin OwnersIn(requests) \cup OwnersIn(responses')
          /\ OwnersIn(requests) \cup OwnersIn(responses') \subseteq Sessions
      <3>1. None \notin OwnersIn(requests) /\ None \notin OwnersIn(responses)
        BY OwnersTyped, Zenon DEF DaemonInv
      <3> QED
        BY <1>1, <1>3, <1>4, <1>5, <3>1 DEF DaemonInv, QueueInv
    <2> QED
      BY <1>1, <1>6, <2>1, <2>2, Zenon DEF QueueInv
  <1>8. SlotInv'
    BY <1>1, Zenon DEF DaemonInv, SlotInv
  (* The sockets. *)
  <1>9. \A f \in Fds : sockets[f].owner \in 0..MaxOwner /\ sockets'[f].owner \in 0..MaxOwner
    BY Zenon DEF DaemonInv, TypeOK
  <1>10. \A f \in Fds : sockets'[f].state = "child" => \E p \in Fds : Mine(p, sockets[f].owner)'
    BY Zenon DEF ChildInv, Mine
  <1>11. \A f \in Fds : sockets'[f].state \in {"open", "listen"} <=> Mine(f, sockets[f].owner)'
    BY Zenon DEF Mine
  <1>12. \A c \in Clients : clients[c].owner \in 0..MaxOwner
    BY Zenon DEF DaemonInv, TypeOK, ClientType
  <1>13. \A c \in Clients : \A l \in UsedHandles(clients[c]) : clients[c].handles[l] \in Fds
    BY HandlesName, Zenon DEF DaemonInv
  <1>14. \A p : Answers(p)' = IF p = o THEN Answers(o) \cup {n} ELSE Answers(p)
    BY <1>2, <1>5, Zenon DEF Answers, Messages
  <1>15. Answers(o) = {}
    BY <1>4, AnswersAreMessages, Zenon
  <1>16. \A c \in Clients : Alive(c)' <=> Alive(c)
    BY <1>1, Zenon DEF Alive
  (* What a live requester asked for, and its descriptors. *)
  <1>17. ASSUME NEW c \in Clients, clients[c].owner = o
         PROVE  RequestFits(clients[c], hand)
    BY <1>3, <1>17, Zenon DEF DaemonInv, FitInv
  <1>18. ASSUME NEW c \in Clients, clients[c].owner = o, ~clients[c].dead
         PROVE  /\ hand.op # "CLEANUP" /\ Alive(c)
                /\ \A l \in UsedHandles(clients[c]) : Mine(clients[c].handles[l], o)
                /\ \A k, l \in UsedHandles(clients[c]) : clients[c].handles[k] = clients[c].handles[l] => k = l
    <2>1. Alive(c)
      BY <1>3, <1>18, Zenon DEF Alive
    <2>2. hand.op # "CLEANUP"
      BY <1>17, <1>18, Zenon DEF RequestFits, DaemonInv, SlotInv
    <2> QED
      BY <1>15, <1>18, <2>1, <2>2, Zenon DEF DaemonInv, SocketInv, HandlesValid, Mine
  <1>19. FitInv'
    <2>1. ASSUME NEW c \in Clients, NEW m \in Messages(responses), m.owner = clients[c].owner,
                 clients[c].owner # o, AnswerFits(clients[c], m)
          PROVE  AnswerFits(clients[c], m)'
      <3>1. \A f \in Fds : Mine(f, m.owner)' <=> Mine(f, m.owner)
        BY <1>12, <1>a, <2>1, Zenon
      <3>2. ASSUME m.op = "CLEANUP", NEW f \in Fds, sockets'[f].state \in {"open", "listen", "child"}
            PROVE  sockets'[f].owner # m.owner
        <4>1. \A p \in Fds : ~Mine(p, m.owner)
          BY <2>1, <3>2, Zenon DEF AnswerFits, Mine
        <4>2. \A p \in Fds : ~Mine(p, m.owner)'
          BY <3>1, <4>1, Zenon
        <4> QED
          BY <1>10, <1>11, <3>2, <4>2, Zenon DEF Mine
      <3>3. clients[c].input.fd \in UsedHandles(clients[c]) => clients[c].handles[clients[c].input.fd] \in Fds
        BY <1>13, Zenon
      <3> QED
        BY <1>1, <2>1, <3>1, <3>2, <3>3, Zenon DEF AnswerFits
    <2>2. ASSUME NEW c \in Clients, clients[c].owner = o
          PROVE  AnswerFits(clients[c], n)'
      <3>1. ASSUME hand.op = "CLEANUP", NEW f \in Fds, sockets'[f].state \in {"open", "listen", "child"}
            PROVE  sockets'[f].owner # o
        <4>1. \A p \in Fds : ~Mine(p, o)'
          BY <3>1, Zenon DEF Executed
        <4> QED
          BY <1>10, <1>11, <3>1, <4>1, Zenon DEF Mine
      <3>2. ASSUME ~clients[c].dead
            PROVE  /\ n.op = clients[c].input.op /\ n.id = clients[c].input.id
                   /\ n.ok /\ n.op \in {"SOCKET", "ACCEPT"} =>
                         n.fd \in Fds /\ Mine(n.fd, n.owner)' /\ \A l \in UsedHandles(clients[c]) : clients[c].handles[l] # n.fd
                   /\ n.ok /\ n.op = "CLOSE" =>
                         /\ clients[c].input.fd \in UsedHandles(clients[c])
                         /\ ~Mine(clients[c].handles[clients[c].input.fd], n.owner)'
        <4>1. RequestFits(clients[c], hand) /\ \A l \in UsedHandles(clients[c]) : Mine(clients[c].handles[l], o)
          BY <1>17, <1>18, <2>2, <3>2, Zenon
        <4>2. n.op = clients[c].input.op /\ n.id = clients[c].input.id
          BY <1>2, <3>2, <4>1, Zenon DEF RequestFits
        <4>3. ASSUME ok, hand.op \in {"SOCKET", "ACCEPT"}
              PROVE  fd \in Fds /\ Mine(fd, o)' /\ \A l \in UsedHandles(clients[c]) : clients[c].handles[l] # fd
          <5>1. /\ fd \in Fds /\ ~Mine(fd, o)
                /\ \A f \in Fds : Mine(f, o)' <=> Mine(f, o) \/ f = fd
            BY <4>3, Zenon DEF Executed
          <5> QED
            BY <4>1, <5>1, Zenon
        <4>4. ASSUME ok, hand.op = "CLOSE"
              PROVE  /\ clients[c].input.fd \in UsedHandles(clients[c])
                     /\ ~Mine(clients[c].handles[clients[c].input.fd], o)'
          <5>1. clients[c].input.fd \in UsedHandles(clients[c]) /\ hand.fd = clients[c].handles[clients[c].input.fd]
            BY <3>2, <4>1, <4>4, Zenon DEF RequestFits
          <5> QED
            BY <1>1, <1>13, <4>4, <5>1, Zenon DEF Executed
        <4> QED
          BY <1>2, <4>2, <4>3, <4>4, Zenon
      <3>3. hand.op = "CLEANUP" <=> clients[c].cleanup
        BY <1>17, <2>2, Zenon DEF RequestFits
      <3> QED
        BY <1>1, <1>2, <3>1, <3>2, <3>3, Zenon DEF AnswerFits
    <2>3. ASSUME NEW c \in Clients, clients[c].owner # None, NEW m \in Messages(responses'),
                 m.owner = clients[c].owner
          PROVE  AnswerFits(clients[c], m)'
      <3>1. CASE m = n
        BY <1>2, <2>2, <2>3, <3>1, Zenon
      <3>2. CASE m \in Messages(responses)
        <4>1. AnswerFits(clients[c], m)
          BY <2>3, <3>2, Zenon DEF DaemonInv, FitInv
        <4>2. m.owner # o
          BY <1>4, <3>2, OwnersOfMessages, Zenon
        <4> QED
          BY <2>1, <2>3, <3>2, <4>1, <4>2, Zenon
      <3> QED
        BY <1>5, <3>1, <3>2, Zenon
    <2>4. ASSUME NEW c \in Clients, clients[c].owner # None
          PROVE  /\ \A r \in Messages(requests) : r.owner = clients[c].owner => RequestFits(clients[c], r)
                 /\ hand'.owner # clients[c].owner
      BY <1>1, <1>3, <2>4, Zenon DEF DaemonInv, FitInv
    <2> QED
      BY <1>1, <1>6, <2>3, <2>4, Zenon DEF FitInv
  <1>20. HandlesValid'
    <2>1. ASSUME NEW c \in Clients, Alive(c), NEW l \in UsedHandles(clients[c])
          PROVE  \/ Mine(clients[c].handles[l], clients[c].owner)'
                 \/ \E m \in Answers(clients[c].owner)' : m.op = "CLOSE" /\ m.ok /\ clients[c].input.fd = l
      <3>1. CASE clients[c].owner # o
        <4>1. \/ Mine(clients[c].handles[l], clients[c].owner)
              \/ \E m \in Answers(clients[c].owner) : m.op = "CLOSE" /\ m.ok /\ clients[c].input.fd = l
          BY <2>1, Zenon DEF DaemonInv, SocketInv, HandlesValid, Mine
        <4>2. Mine(clients[c].handles[l], clients[c].owner) <=> Mine(clients[c].handles[l], clients[c].owner)'
          BY <1>1, <1>12, <1>13, <1>a, <3>1, Zenon
        <4> QED
          BY <1>1, <1>14, <3>1, <4>1, <4>2, Zenon
      <3>2. CASE clients[c].owner = o
        <4>1. ~clients[c].dead
          BY <2>1, Zenon DEF Alive
        <4>2. hand.op # "CLEANUP" /\ Mine(clients[c].handles[l], o) /\ clients[c].handles[l] \in Fds
          BY <1>13, <1>18, <3>2, <4>1, Zenon
        <4>3. CASE ok /\ hand.op = "CLOSE" /\ clients[c].handles[l] = hand.fd
          <5>1. clients[c].input.fd \in UsedHandles(clients[c]) /\ hand.fd = clients[c].handles[clients[c].input.fd]
            BY <1>17, <3>2, <4>1, <4>3, Zenon DEF RequestFits
          <5>2. clients[c].input.fd = l
            BY <1>18, <3>2, <4>1, <4>3, <5>1, Zenon
          <5>3. n \in Answers(o)'
            BY <1>14, Zenon
          <5> QED
            BY <1>1, <1>2, <3>2, <4>3, <5>2, <5>3, Zenon
        <4>4. CASE ~(ok /\ hand.op = "CLOSE" /\ clients[c].handles[l] = hand.fd)
          <5>1. Mine(clients[c].handles[l], o)'
            BY <1>1, <4>2, <4>4, Zenon DEF Executed
          <5> QED
            BY <1>1, <3>2, <5>1, Zenon
        <4> QED
          BY <4>3, <4>4, Zenon
      <3> QED
        BY <3>1, <3>2, Zenon
    <2>2. \A c \in Clients : Alive(c) => \A k, l \in UsedHandles(clients[c]) :
              clients[c].handles[k] = clients[c].handles[l] => k = l
      BY Zenon DEF DaemonInv, SocketInv, HandlesValid
    <2>3. ASSUME NEW c \in Clients, Alive(c), NEW l \in UsedHandles(clients[c])
          PROVE  \/ /\ sockets'[clients[c].handles[l]].state \in {"open", "listen"}
                    /\ sockets'[clients[c].handles[l]].owner = clients[c].owner
                 \/ \E m \in Answers(clients[c].owner)' : m.op = "CLOSE" /\ m.ok /\ clients[c].input.fd = l
      BY <1>1, <2>1, <2>3, Zenon DEF Mine
    <2>4. clients' = clients
      BY <1>1, Zenon
    <2> QED
      BY <1>16, <2>2, <2>3, <2>4, Zenon DEF HandlesValid
  <1>21. NoOrphans'
    <2>1. \A f \in Fds, q \in 0..MaxOwner : Mine(f, q)' => q \in Sessions
      <3>1. \A f \in Fds : sockets[f].state \in {"open", "listen", "child"} => sockets[f].owner \in Sessions
        BY Zenon DEF DaemonInv, SocketInv, NoOrphans
      <3>2. \A f \in Fds, q \in 0..MaxOwner : Mine(f, q) => q \in Sessions
        BY <3>1, Zenon DEF Mine
      <3> QED
        BY <1>4, <1>a, <3>2, Zenon
    <2>2. \A f \in Fds : sockets'[f].state \in {"open", "listen", "child"} => sockets'[f].owner \in Sessions
      BY <1>9, <1>10, <1>11, <2>1, Zenon DEF Mine
    <2>3. ASSUME NEW f \in Fds, NEW c \in Clients, Alive(c), Mine(f, clients[c].owner)'
          PROVE  \/ \E l \in UsedHandles(clients[c]) : clients[c].handles[l] = f
                 \/ \E m \in Answers(clients[c].owner)' : m.op \in {"SOCKET", "ACCEPT"} /\ m.ok /\ m.fd = f
      <3>1. CASE Mine(f, clients[c].owner)
        <4>1. \/ \E l \in UsedHandles(clients[c]) : clients[c].handles[l] = f
              \/ \E m \in Answers(clients[c].owner) : m.op \in {"SOCKET", "ACCEPT"} /\ m.ok /\ m.fd = f
          <5>1. NoOrphans
            BY Zenon DEF DaemonInv, SocketInv
          <5> QED
            BY <2>3, <3>1, <5>1, Zenon DEF NoOrphans, Mine
        <4>2. Answers(clients[c].owner) \subseteq Answers(clients[c].owner)'
          BY <1>1, <1>14, Zenon
        <4> QED
          BY <4>1, <4>2, Zenon
      <3>2. CASE ~Mine(f, clients[c].owner)
        <4>1. clients[c].owner = o
          BY <1>1, <1>12, <1>a, <2>3, <3>2, Zenon
        <4>2. hand.op # "CLEANUP"
          BY <1>18, <2>3, <4>1, Zenon DEF Alive
        <4>3. ok /\ hand.op \in {"SOCKET", "ACCEPT"} /\ f = fd
          BY <1>1, <2>3, <3>2, <4>1, <4>2, Zenon DEF Executed
        <4>4. n \in Answers(o)'
          BY <1>14, Zenon
        <4> QED
          BY <1>1, <1>2, <4>1, <4>3, <4>4, Zenon
      <3> QED
        BY <3>1, <3>2, Zenon
    <2> QED
      BY <1>1, <1>6, <1>16, <2>2, <2>3 DEF NoOrphans, ChildInv, Mine
  <1> QED
    BY <1>7, <1>8, <1>19, <1>20, <1>21, Zenon DEF SessionInv, SocketInv

(* core_close takes the sockets it is given away from their owner, and the *)
(* children queued on them.                                                *)
LEMMA CloseKeeps ==
    ASSUME DaemonInv, NEW fs \in SUBSET Fds, \A f \in fs : sockets[f].state \in {"open", "listen"},
           CloseAll(fs)
    PROVE  /\ \A f \in Fds, q \in 0..MaxOwner : Mine(f, q)' <=> Mine(f, q) /\ f \notin fs
           /\ ChildInv'
  <1>1. PICK lingering \in SUBSET {f \in fs : sockets[f].state = "open"} :
        sockets' = [f \in Fds |->
            CASE f \in lingering -> [sockets[f] EXCEPT !.state = "linger"]
              [] f \in Closed(fs) \ lingering -> FreeSocket
              [] OTHER -> sockets[f]]
    BY Zenon DEF CloseAll
  <1>2. sockets \in [Fds -> SocketType]
    BY Zenon DEF DaemonInv, TypeOK, SocketType
  <1>3. \A f \in Fds : f \notin Closed(fs) => sockets'[f] = sockets[f]
    BY <1>1, Zenon DEF Closed
  <1>4. \A f \in Fds : f \in Closed(fs) => sockets'[f].state \in {"linger", "free"}
    <2> SUFFICES ASSUME NEW f \in Fds, f \in Closed(fs) PROVE sockets'[f].state \in {"linger", "free"}
      BY Zenon
    <2>1. CASE f \in lingering
      <3>1. sockets'[f] = [sockets[f] EXCEPT !.state = "linger"]
        BY <1>1, <2>1, Zenon
      <3> QED
        BY <1>2, <3>1, Zenon DEF SocketType
    <2>2. CASE f \notin lingering
      BY <1>1, <2>2, Zenon DEF FreeSocket
    <2> QED
      BY <2>1, <2>2, Zenon
  <1>5. \A f \in Closed(fs) : f \in fs \/ sockets[f].state = "child"
    BY Zenon DEF Closed, Children
  <1>6. \A f \in Fds, q \in 0..MaxOwner : Mine(f, q)' <=> Mine(f, q) /\ f \notin fs
    <2> SUFFICES ASSUME NEW f \in Fds, NEW q \in 0..MaxOwner
                 PROVE  Mine(f, q)' <=> Mine(f, q) /\ f \notin fs
      BY Zenon
    <2>1. CASE f \in Closed(fs)
      BY <1>4, <1>5, <2>1, Zenon DEF Mine
    <2>2. CASE f \notin Closed(fs)
      BY <1>3, <2>2, Zenon DEF Mine, Closed
    <2> QED
      BY <2>1, <2>2, Zenon
  <1>7. ChildInv'
    <2> SUFFICES ASSUME NEW f \in Fds, sockets'[f].state = "child"
                 PROVE  /\ sockets'[f].parent \in Fds
                        /\ sockets'[sockets'[f].parent].state = "listen"
                        /\ sockets'[sockets'[f].parent].owner = sockets'[f].owner
      BY Zenon DEF ChildInv
    <2>1. f \notin Closed(fs) /\ sockets'[f] = sockets[f]
      BY <1>3, <1>4, Zenon
    <2> DEFINE p == sockets[f].parent
    <2>2. p \in Fds /\ sockets[p].state = "listen" /\ sockets[p].owner = sockets[f].owner
      BY <2>1, Zenon DEF DaemonInv, SocketInv, ChildInv
    <2>3. p \notin Closed(fs)
      BY <1>5, <2>1, <2>2, Zenon DEF Closed, Children
    <2> QED
      BY <1>3, <2>1, <2>2, <2>3, Zenon
  <1> QED
    BY <1>6, <1>7, Zenon

(* daemon_dispatch for every operation. *)
LEMMA DispatchKeeps == DaemonInv /\ Execute => SessionInv'
  <1> SUFFICES ASSUME DaemonInv, Execute PROVE SessionInv'
    BY Zenon
  <1>1. TypeOK' /\ sockets \in [Fds -> SocketType] /\ None \in 0..MaxSockets
    <2>1. TypeOK'
      BY WorkerLocal, Zenon DEF Worker, LocalInv
    <2> QED
      BY <2>1, SessionAssumption DEF DaemonInv, TypeOK, SocketType, None
  <1>2. PICK o : o = hand.owner
    BY Zenon
  <1>3. hand \in Requests /\ o \in 0..MaxOwner /\ hand.op \in ClientOps \cup {"CLEANUP"}
    <2>1. hand \in Requests
      BY ExecuteStep, RespondStep, Zenon
    <2> QED
      BY <1>2, <2>1, SessionAssumption DEF Requests, Owners
  <1>4. \A f \in Fds : Owned(f) <=> Mine(f, o)
    BY <1>2, Zenon DEF Owned, Mine
  <1>5. "CLEANUP" \notin ClientOps
    BY Zenon DEF ClientOps
  <1>6. ASSUME UNCHANGED sockets
        PROVE  ChildInv' /\ \A f \in Fds, q \in 0..MaxOwner : Mine(f, q)' <=> Mine(f, q)
    BY <1>6, Zenon DEF Mine, ChildInv, DaemonInv, SocketInv
  <1>7. CASE ExecuteCleanup
    <2> DEFINE fs == {f \in Fds : Owned(f)}
    <2>1. Respond(TRUE, None) /\ CloseAll(fs) /\ hand.op = "CLEANUP" /\ fs \in SUBSET Fds
      BY <1>7, Zenon DEF ExecuteCleanup
    <2>2. \A f \in fs : sockets[f].state \in {"open", "listen"}
      BY Zenon DEF Owned
    <2> HIDE DEF fs
    <2>3. ChildInv' /\ \A f \in Fds, q \in 0..MaxOwner : Mine(f, q)' <=> Mine(f, q) /\ f \notin fs
      BY <2>1, <2>2, CloseKeeps, Zenon
    <2>4. \A f \in Fds : ~Mine(f, o)'
      BY <1>3, <1>4, <2>3, Zenon DEF fs
    <2>5. \A f \in Fds, q \in 0..MaxOwner : q # o => (Mine(f, q)' <=> Mine(f, q))
      BY <1>4, <2>3 DEF fs, Mine
    <2> QED
      BY <1>1, <1>2, <2>1, <2>3, <2>4, <2>5, ExecuteKeeps, Zenon DEF Executed
  <1>8. CASE ExecuteSocket
    <2>1. PICK f \in Fds : /\ sockets[f].state = "free" /\ Respond(TRUE, f)
                           /\ sockets' = [sockets EXCEPT ![f] = [state |-> "open", owner |-> o, parent |-> None]]
      BY <1>2, <1>8, Zenon DEF ExecuteSocket, IsFirst, FreeSlots
    <2>2. /\ sockets'[f].state = "open" /\ sockets'[f].owner = o /\ f \in 0..MaxSockets
          /\ \A g \in Fds : g # f => sockets'[g] = sockets[g]
      BY <1>1, <2>1 DEF Fds
    <2>3. ~Mine(f, o) /\ \A g \in Fds : Mine(g, o)' <=> Mine(g, o) \/ g = f
      BY <2>1, <2>2, Zenon DEF Mine
    <2>4. \A g \in Fds, q \in 0..MaxOwner : q # o => (Mine(g, q)' <=> Mine(g, q))
      BY <2>1, <2>2, Zenon DEF Mine
    <2>5. ChildInv'
      BY <2>1, <2>2 DEF ChildInv, DaemonInv, SocketInv
    <2> QED
      <3>1. hand.op = "SOCKET" /\ Respond(TRUE, f)
        BY <1>8, <2>1, Zenon DEF ExecuteSocket
      <3> QED
        BY <1>1, <1>2, <2>2, <2>3, <2>4, <2>5, <3>1, ExecuteKeeps, Zenon DEF Executed
  <1>9. CASE ExecuteRefused
    <2>1. Respond(FALSE, None) /\ hand.op # "CLEANUP" /\ UNCHANGED sockets
      BY <1>5, <1>9, Zenon DEF ExecuteRefused
    <2> QED
      BY <1>1, <1>2, <1>3, <1>6, <2>1, ExecuteKeeps, Zenon DEF Executed
  <1>10. CASE ExecuteOther
    <2>1. Respond(TRUE, None) /\ hand.op = "OTHER" /\ UNCHANGED sockets
      BY <1>10, Zenon DEF ExecuteOther, Looked
    <2> QED
      BY <1>1, <1>2, <1>3, <1>6, <2>1, ExecuteKeeps, Zenon DEF Executed
  <1>11. CASE ExecuteListen
    <2>1. /\ Respond(TRUE, None) /\ hand.op = "LISTEN" /\ hand.fd \in Fds /\ Mine(hand.fd, o)
          /\ sockets' = [sockets EXCEPT ![hand.fd].state = "listen"]
      BY <1>4, <1>11, Zenon DEF ExecuteListen, Looked
    <2>2. /\ sockets'[hand.fd].state = "listen" /\ sockets'[hand.fd].owner = sockets[hand.fd].owner
          /\ \A g \in Fds : g # hand.fd => sockets'[g] = sockets[g]
      BY <1>1, <2>1, Zenon DEF SocketType
    <2>3. \A g \in Fds, q \in 0..MaxOwner : Mine(g, q)' <=> Mine(g, q)
      BY <2>1, <2>2, Zenon DEF Mine
    <2>4. ChildInv'
      BY <2>1, <2>2 DEF ChildInv, DaemonInv, SocketInv
    <2> QED
      BY <1>1, <1>2, <1>3, <2>1, <2>3, <2>4, ExecuteKeeps, Zenon DEF Executed
  <1>12. CASE ExecuteAccept
    <2>1. PICK f \in Fds :
              /\ sockets[f].state = "child" /\ sockets[f].parent = hand.fd /\ Respond(TRUE, f)
              /\ sockets' = [sockets EXCEPT ![f].state = "open", ![f].parent = None]
      BY <1>12, Zenon DEF ExecuteAccept, Children
    <2>2. hand.op = "ACCEPT" /\ Mine(hand.fd, o)
      BY <1>4, <1>12, Zenon DEF ExecuteAccept, Looked
    <2>3. sockets[f].owner = o
      BY <2>1, <2>2, Zenon DEF DaemonInv, SocketInv, ChildInv, Mine
    <2>4. /\ sockets'[f].state = "open" /\ sockets'[f].owner = o /\ f \in 0..MaxSockets
          /\ \A g \in Fds : g # f => sockets'[g] = sockets[g]
      BY <1>1, <2>1, <2>3 DEF Fds, SocketType
    <2>5. ~Mine(f, o) /\ \A g \in Fds : Mine(g, o)' <=> Mine(g, o) \/ g = f
      BY <2>1, <2>4, Zenon DEF Mine
    <2>6. \A g \in Fds, q \in 0..MaxOwner : q # o => (Mine(g, q)' <=> Mine(g, q))
      BY <2>1, <2>4, Zenon DEF Mine
    <2>7. ChildInv'
      <3>1. sockets[f].state = "child" /\ ChildInv
        BY <2>1, Zenon DEF DaemonInv, SocketInv
      <3>2. \A g \in Fds : sockets'[g].state = "child" => g # f /\ sockets[g].parent # f
        BY <2>4, <3>1, Zenon DEF ChildInv
      <3> SUFFICES ASSUME NEW g \in Fds, sockets'[g].state = "child"
                   PROVE  /\ sockets'[g].parent \in Fds
                          /\ sockets'[sockets'[g].parent].state = "listen"
                          /\ sockets'[sockets'[g].parent].owner = sockets'[g].owner
        BY Zenon DEF ChildInv
      <3>3. sockets'[g] = sockets[g] /\ sockets[g].parent \in Fds /\ sockets[g].parent # f
        BY <2>4, <3>1, <3>2, Zenon DEF ChildInv
      <3>4. sockets'[sockets[g].parent] = sockets[sockets[g].parent]
        BY <2>4, <3>3, Zenon
      <3> QED
        BY <3>1, <3>3, <3>4 DEF ChildInv
    <2> QED
      <3>1. hand.op = "ACCEPT" /\ Respond(TRUE, f)
        BY <2>1, <2>2, Zenon
      <3> QED
        BY <1>1, <1>2, <2>4, <2>5, <2>6, <2>7, <3>1, ExecuteKeeps, Zenon DEF Executed
  <1>13. CASE ExecuteClose
    <2>1. Respond(TRUE, None) /\ CloseAll({hand.fd}) /\ hand.op = "CLOSE" /\ hand.fd \in Fds /\ Mine(hand.fd, o)
      BY <1>4, <1>13, Zenon DEF ExecuteClose, Looked
    <2>2. ChildInv' /\ \A f \in Fds, q \in 0..MaxOwner : Mine(f, q)' <=> Mine(f, q) /\ f \notin {hand.fd}
      BY <2>1, CloseKeeps DEF Mine
    <2>3. \A f \in Fds, q \in 0..MaxOwner : q # o => (Mine(f, q)' <=> Mine(f, q))
      BY <2>1, <2>2 DEF Mine
    <2>4. \A f \in Fds : Mine(f, o)' <=> Mine(f, o) /\ f # hand.fd
      BY <1>3, <2>2, Zenon
    <2> QED
      BY <1>1, <1>2, <2>1, <2>2, <2>3, <2>4, ExecuteKeeps, Zenon DEF Executed
  <1> QED
    BY <1>7, <1>8, <1>9, <1>10, <1>11, <1>12, <1>13, Zenon DEF Execute

(* accept_clients: a new session has an owner that no message and no open  *)
(* socket carries.                                                         *)
LEMMA AcceptKeeps == DaemonInv /\ AcceptClient => SessionInv'
  <1> SUFFICES ASSUME DaemonInv, AcceptClient PROVE SessionInv'
    BY Zenon
  <1> USE DEF sessionVars, loopVars, controlVars, workerVars, queueVars, flagVars
  <1>1. PICK o : o = nextOwner + 1
    BY Zenon
  <1>2. PICK n : n = [NoClient EXCEPT !.owner = o, !.fd = "up", !.next = 1]
    BY Zenon
  <1>3. PICK c \in Clients : /\ clients[c].owner = None
                             /\ clients' = [clients EXCEPT ![c] = n]
    BY <1>1, <1>2, Zenon DEF AcceptClient, IsFirst
  <1>4. UNCHANGED <<requests, responses, hand, sockets>> /\ nextOwner' = o
    BY <1>1, Zenon DEF AcceptClient
  <1>5. /\ n.owner = o /\ ~n.dead /\ ~n.pending /\ ~n.cleanup /\ ~n.ready
        /\ n.handles = [l \in Locals |-> None]
    BY <1>2, Zenon DEF NoClient
  <1>6. UsedHandles(n) = {}
    BY <1>5, Zenon DEF UsedHandles
  <1>7. /\ clients'[c] = n /\ \A d \in Clients : d # c => clients'[d] = clients[d]
    BY <1>3, Zenon DEF DaemonInv, TypeOK
  <1>8. /\ nextOwner \in Nat /\ o \in Nat /\ nextOwner < o /\ o # None
        /\ \A d \in Clients : clients[d].owner \in Nat /\ clients[d].owner <= nextOwner
    <2>1. nextOwner \in Nat /\ \A d \in Clients : clients[d].owner \in Nat
      BY SessionAssumption DEF DaemonInv, TypeOK, ClientType
    <2> QED
      BY <1>1, <2>1 DEF DaemonInv, SlotInv, None
  <1>9. \A d \in Clients : clients[d].owner # o /\ clients'[d].owner <= o
    BY <1>5, <1>7, <1>8
  <1>10. o \notin Sessions
    BY <1>9, Zenon DEF Sessions
  <1>11. Sessions' = Sessions \cup {o}
    <2>1. \A q : q \in Sessions' <=> q # None /\ ((\E d \in Clients : d # c /\ clients[d].owner = q) \/ o = q)
      BY <1>5, <1>7 DEF Sessions
    <2>2. \A q : q \in Sessions <=> q # None /\ (\E d \in Clients : d # c /\ clients[d].owner = q)
      BY <1>3, Zenon DEF Sessions
    <2> QED
      BY <1>8, <2>1, <2>2, Zenon
  <1>12. /\ OwnersIn(requests)' = OwnersIn(requests) /\ OwnersIn(responses)' = OwnersIn(responses)
         /\ Distinct(requests)' /\ Distinct(responses)'
         /\ Messages(requests)' = Messages(requests) /\ Messages(responses)' = Messages(responses)
    BY <1>4 DEF OwnersIn, Distinct, Messages, DaemonInv, QueueInv
  <1>13. o \notin OwnersIn(requests) \cup OwnersIn(responses) /\ o # hand.owner
    BY <1>8, <1>10, OwnersTyped, Zenon DEF DaemonInv, QueueInv
  <1>14. QueueInv'
    <2>1. ASSUME NEW d \in Clients, clients'[d].owner # None
          PROVE  clients'[d].pending <=> clients'[d].owner \in OwnersIn(requests) \cup OwnersIn(responses) \cup {hand.owner}
      <3>1. CASE d = c
        BY <1>5, <1>7, <1>13, <3>1, Zenon
      <3>2. CASE d # c
        BY <1>7, <2>1, <3>2, Zenon DEF DaemonInv, QueueInv
      <3> QED
        BY <3>1, <3>2, Zenon
    <2>2. /\ OwnersIn(requests) \cup OwnersIn(responses) \subseteq Sessions'
          /\ hand # NoRequest => hand.owner \in Sessions'
          /\ OwnersIn(requests) \cap OwnersIn(responses) = {}
          /\ hand.owner \notin OwnersIn(requests) \cup OwnersIn(responses)
      BY <1>11, Zenon DEF DaemonInv, QueueInv
    <2> QED
      BY <1>4, <1>12, <2>1, <2>2, Zenon DEF QueueInv
  <1>15. SlotInv'
    <2>1. ASSUME NEW d \in Clients, NEW e \in Clients, clients'[d].owner = clients'[e].owner, clients'[d].owner # None
          PROVE  d = e
      BY <1>5, <1>7, <1>9, <2>1 DEF DaemonInv, SlotInv
    <2>2. ASSUME NEW d \in Clients
          PROVE  /\ clients'[d].cleanup => clients'[d].dead /\ clients'[d].pending
                 /\ clients'[d].ready => clients'[d].input.op \in ClientOps
      BY <1>5, <1>7 DEF DaemonInv, SlotInv
    <2> QED
      BY <1>4, <1>9, <2>1, <2>2, Zenon DEF SlotInv
  <1>16. FitInv'
    <2> SUFFICES ASSUME NEW d \in Clients, clients'[d].owner # None
                 PROVE  /\ \A r \in Messages(requests) : r.owner = clients'[d].owner => RequestFits(clients'[d], r)
                        /\ hand.owner = clients'[d].owner => RequestFits(clients'[d], hand)
                        /\ \A a \in Messages(responses) : a.owner = clients'[d].owner => AnswerFits(clients[d], a)'
      BY <1>4, <1>12, Zenon DEF FitInv
    <2>1. CASE d = c
      BY <1>5, <1>7, <1>13, <2>1, OwnersOfMessages
    <2>2. CASE d # c
      <3>1. clients'[d] = clients[d]
        BY <1>7, <2>2, Zenon
      <3>2. \A a : AnswerFits(clients[d], a)' <=> AnswerFits(clients[d], a)
        BY <1>4, <3>1 DEF AnswerFits, Mine
      <3> QED
        BY <3>1, <3>2, Zenon DEF DaemonInv, FitInv
    <2> QED
      BY <2>1, <2>2, Zenon
  <1>17. ASSUME NEW d \in Clients PROVE Answers(clients[d].owner)' = Answers(clients'[d].owner)
    BY <1>4, Zenon DEF Answers
  <1>18. HandlesValid'
    <2> SUFFICES ASSUME NEW d \in Clients, Alive(d)'
                 PROVE  /\ \A l \in UsedHandles(clients'[d]) :
                              \/ Mine(clients'[d].handles[l], clients'[d].owner)
                              \/ \E a \in Answers(clients'[d].owner) :
                                    a.op = "CLOSE" /\ a.ok /\ clients'[d].input.fd = l
                        /\ \A k, l \in UsedHandles(clients'[d]) :
                              clients'[d].handles[k] = clients'[d].handles[l] => k = l
      BY <1>4, <1>17 DEF HandlesValid, Mine
    <2>1. CASE d = c
      BY <1>6, <1>7, <2>1, Zenon
    <2>2. CASE d # c
      <3>1. clients'[d] = clients[d] /\ Alive(d)
        BY <1>7, <2>2, Zenon DEF Alive
      <3> QED
        BY <3>1 DEF DaemonInv, SocketInv, HandlesValid, Mine
    <2> QED
      BY <2>1, <2>2, Zenon
  <1>19. NoOrphans'
    <2>1. \A f \in Fds : sockets[f].state \in {"open", "listen", "child"} =>
             sockets[f].owner \in Sessions' /\ sockets[f].owner # o
      BY <1>10, <1>11, Zenon DEF DaemonInv, SocketInv, NoOrphans
    <2>2. ASSUME NEW f \in Fds, NEW d \in Clients, Alive(d)', Mine(f, clients'[d].owner)
          PROVE  \/ \E l \in UsedHandles(clients'[d]) : clients'[d].handles[l] = f
                 \/ \E a \in Answers(clients'[d].owner) : a.op \in {"SOCKET", "ACCEPT"} /\ a.ok /\ a.fd = f
      <3>1. d # c
        BY <1>5, <1>7, <2>1, <2>2, Zenon DEF Mine
      <3>2. clients'[d] = clients[d] /\ Alive(d)
        BY <1>7, <2>2, <3>1, Zenon DEF Alive
      <3> QED
        BY <2>2, <3>2 DEF DaemonInv, SocketInv, NoOrphans, Mine
    <2>3. \A f \in Fds : sockets[f].state = "child" =>
              LET listener == sockets[sockets[f].parent]
              IN  listener.state = "listen" /\ listener.owner = sockets[f].owner
      BY Zenon DEF DaemonInv, SocketInv, NoOrphans
    <2>4. sockets' = sockets
      BY <1>4, Zenon
    <2>5. ASSUME NEW f \in Fds, NEW d \in Clients, Alive(d)', sockets'[f].owner = clients'[d].owner,
                 sockets'[f].state \in {"open", "listen"}
          PROVE  \/ \E l \in UsedHandles(clients'[d]) : clients'[d].handles[l] = f
                 \/ \E a \in Answers(clients[d].owner)' : a.op \in {"SOCKET", "ACCEPT"} /\ a.ok /\ a.fd = f
      <3>1. Mine(f, clients'[d].owner)
        BY <2>4, <2>5, Zenon DEF Mine
      <3> QED
        BY <1>17, <2>2, <2>5, <3>1
    <2> QED
      BY <2>1, <2>3, <2>4, <2>5, Zenon DEF NoOrphans
  <1>20. ChildInv'
    BY <1>4, Zenon DEF DaemonInv, SocketInv, ChildInv
  <1> QED
    BY <1>14, <1>15, <1>16, <1>18, <1>19, <1>20, Zenon DEF SessionInv, SocketInv

(* daemon_prepare. *)
LEMMA InitSession == Init => SessionInv
  <1> SUFFICES ASSUME Init PROVE SessionInv
    BY Zenon
  <1>1. /\ \A c \in Clients : clients[c] = NoClient
        /\ \A f \in Fds : sockets[f].state = "free"
        /\ nextOwner = 0 /\ requests = <<>> /\ responses = <<>> /\ hand = NoRequest
    BY Zenon DEF Init, FreeSocket
  <1>2. NoClient.owner = None /\ ~NoClient.cleanup /\ ~NoClient.ready /\ NoRequest.owner = None /\ None = 0
    BY Zenon DEF NoClient, NoRequest, None
  <1>3. OwnersIn(requests) = {} /\ OwnersIn(responses) = {} /\ Distinct(requests) /\ Distinct(responses)
    BY <1>1 DEF OwnersIn, Distinct
  <1>4. QueueInv
    BY <1>1, <1>2, <1>3, Zenon DEF QueueInv
  <1>5. SlotInv
    BY <1>1, <1>2 DEF SlotInv
  <1>6. FitInv
    BY <1>1, <1>2, Zenon DEF FitInv
  <1>7. \A c \in Clients : ~Alive(c)
    BY <1>1, <1>2, Zenon DEF Alive
  <1>8. SocketInv
    BY <1>1, <1>7, Zenon DEF SocketInv, HandlesValid, NoOrphans, ChildInv
  <1> QED
    BY <1>4, <1>5, <1>6, <1>8, Zenon DEF SessionInv

-----------------------------------------------------------------------------
(* Collecting an answer: the handle array, and what the session gets. *)

INSTANCE WellFoundedInduction

(* A set of natural numbers has a least element: what a search from below  *)
(* finds first.                                                            *)
LEMMA LeastNumber ==
    ASSUME NEW S \in SUBSET Nat, S # {}
    PROVE  \E x \in S : \A y \in S : x <= y
  <1>1. PICK x \in S : \A y \in S : ~(<<y, x>> \in OpToRel(<, Nat))
    BY NatLessThanWellFounded, WFMin, Zenon
  <1>2. \A y \in S : ~(y < x)
    BY <1>1, Zenon DEF OpToRel
  <1> QED
    BY <1>2

(* There is an unused client-side descriptor, and AddHandle takes one. *)
LEMMA FreshHandleExists ==
    ASSUME NEW c \in ClientType, UsedHandles(c) # Locals
    PROVE  FreshHandle(c) \in Locals \ UsedHandles(c)
  <1> DEFINE Free == Locals \ UsedHandles(c)
             Distance(l) == (l - c.next) % MaxLocal
             Distances == {Distance(l) : l \in Free}
  <1>1. Free # {} /\ Free \subseteq Locals /\ MaxLocal \in Nat /\ c.next \in Nat
    BY SessionAssumption DEF UsedHandles, ClientType
  <1>2. \A l \in Free : l - c.next \in Int /\ MaxLocal \in Nat \ {0}
    BY <1>1 DEF Locals
  <1>3. \A l \in Free : Distance(l) \in Nat
    <2> SUFFICES ASSUME NEW l \in Free PROVE Distance(l) \in Nat
      BY Zenon
    <2>1. Distance(l) \in 0 .. MaxLocal - 1
      BY <1>2
    <2> QED
      BY <1>2, <2>1
  <1> HIDE DEF Distance
  <1>4. PICK d \in Distances : \A e \in Distances : d <= e
    BY <1>1, <1>3, LeastNumber, Zenon
  <1>5. \E l \in Free : \A k \in Free : Distance(l) <= Distance(k)
    BY <1>4, Zenon
  <1> QED
    BY <1>5, Zenon DEF FreshHandle, Distance

(* Distinct numbers below n, one for each number below n, leave none out.  *)
(* From the least n for which one is left out, swapping the missing number *)
(* with the largest gives a smaller one.                                   *)
Misses(n) == \E g \in [1 .. n -> 1 .. n], f \in 1 .. n :
                 /\ \A i \in 1 .. n : g[i] # f
                 /\ \A i, j \in 1 .. n : g[i] = g[j] => i = j

LEMMA Pigeonhole ==
    ASSUME NEW n \in Nat
    PROVE  ~Misses(n)
  <1> SUFFICES ASSUME Misses(n) PROVE FALSE
    BY Zenon
  <1> DEFINE S == {k \in Nat : Misses(k)}
  <1>1. PICK m \in S : \A k \in S : m <= k
    <2>1. S \in SUBSET Nat /\ S # {}
      BY Zenon
    <2> HIDE DEF S
    <2> QED
      BY <2>1, LeastNumber, Zenon
  <1>2. m \in Nat /\ Misses(m)
    BY <1>1, Zenon
  <1>3. PICK g \in [1 .. m -> 1 .. m], f \in 1 .. m :
            /\ \A i \in 1 .. m : g[i] # f
            /\ \A i, j \in 1 .. m : g[i] = g[j] => i = j
    BY <1>2, Zenon DEF Misses
  <1> DEFINE h == [i \in 1 .. m |-> IF g[i] = m THEN f ELSE g[i]]
             small == [i \in 1 .. m - 1 |-> h[i]]
  <1>4. m - 1 \in Nat /\ \A i \in 1 .. m - 1 : i \in 1 .. m
    BY <1>2
  <1>5. \A i \in 1 .. m : h[i] \in 1 .. m - 1
    BY <1>2, <1>3
  <1>6. \A i, j \in 1 .. m : h[i] = h[j] => i = j
    BY <1>3, Zenon
  <1>7. m \in 1 .. m /\ h[m] \in 1 .. m - 1
    BY <1>2, <1>5
  <1> HIDE DEF h
  <1>8. small \in [1 .. m - 1 -> 1 .. m - 1]
    BY <1>4, <1>5, Zenon
  <1>9. \A i \in 1 .. m - 1 : small[i] # h[m]
    BY <1>4, <1>6, <1>7
  <1>10. \A i, j \in 1 .. m - 1 : small[i] = small[j] => i = j
    BY <1>4, <1>6, Zenon
  <1>11. Misses(m - 1)
    BY <1>7, <1>8, <1>9, <1>10, Zenon DEF Misses
  <1> QED
    BY <1>1, <1>4, <1>11

(* The descriptors of a client that names distinct sockets of which one is *)
(* missing fill neither the handle array nor the descriptors.              *)
LEMMA HandlesLeft ==
    ASSUME NEW c \in ClientType, NEW f \in Fds,
           \A l \in UsedHandles(c) : c.handles[l] # f,
           \A k, l \in UsedHandles(c) : c.handles[k] = c.handles[l] => k = l
    PROVE  ~Full(c) /\ UsedHandles(c) # Locals
  <1>1. \A l \in UsedHandles(c) : c.handles[l] \in Fds \ {f}
    BY SessionAssumption DEF UsedHandles, ClientType, Fds, None
  <1>2. MaxSockets \in Nat /\ MaxHandles \in Nat /\ MaxLocal \in Nat
        /\ MaxSockets <= MaxHandles /\ MaxSockets <= MaxLocal
    BY SessionAssumption, SocketsFitHandles
  <1>3. ASSUME NEW n \in Nat, MaxSockets <= n, NEW e \in [1 .. n -> UsedHandles(c)],
               \A i, j \in 1 .. n : e[i] = e[j] => i = j
        PROVE  FALSE
    <2> DEFINE g == [i \in 1 .. MaxSockets |-> c.handles[e[i]]]
    <2>1. \A i \in 1 .. MaxSockets : i \in 1 .. n /\ e[i] \in UsedHandles(c)
      BY <1>2, <1>3
    <2>2. g \in [1 .. MaxSockets -> 1 .. MaxSockets]
      BY <1>1, <2>1, Zenon DEF Fds
    <2>3. \A i \in 1 .. MaxSockets : g[i] # f
      BY <2>1, Zenon
    <2>4. \A i, j \in 1 .. MaxSockets : g[i] = g[j] => i = j
      BY <1>3, <2>1, Zenon
    <2>5. f \in 1 .. MaxSockets
      BY Zenon DEF Fds
    <2> HIDE DEF g
    <2>6. Misses(MaxSockets)
      BY <2>2, <2>3, <2>4, <2>5, Zenon DEF Misses
    <2> QED
      BY <1>2, <2>6, Pigeonhole, Zenon
  <1>4. ~Full(c)
    <2> SUFFICES ASSUME Full(c) PROVE FALSE
      BY Zenon
    <2>1. PICK e \in [1 .. MaxHandles -> UsedHandles(c)] :
              \A i, j \in 1 .. MaxHandles : e[i] = e[j] => i = j
      BY Zenon DEF Full
    <2> QED
      BY <1>2, <1>3, <2>1, Zenon
  <1>5. UsedHandles(c) # Locals
    <2> DEFINE e == [i \in 1 .. MaxLocal |-> i]
    <2> SUFFICES ASSUME UsedHandles(c) = Locals PROVE FALSE
      BY Zenon
    <2>1. e \in [1 .. MaxLocal -> UsedHandles(c)] /\ \A i, j \in 1 .. MaxLocal : e[i] = e[j] => i = j
      BY Zenon DEF Locals
    <2> HIDE DEF e
    <2> QED
      BY <1>2, <1>3, <2>1, Zenon
  <1> QED
    BY <1>4, <1>5, Zenon

(* AddHandle gives an unused descriptor to a socket. *)
LEMMA AddHandleFields ==
    ASSUME NEW c \in ClientType, NEW fd \in 0..MaxSockets, UsedHandles(c) # Locals
    PROVE  /\ AddHandle(c, fd) \in ClientType
           /\ AddHandle(c, fd).owner = c.owner /\ AddHandle(c, fd).dead = c.dead
           /\ AddHandle(c, fd).pending = c.pending /\ AddHandle(c, fd).cleanup = c.cleanup
           /\ AddHandle(c, fd).handles = [c.handles EXCEPT ![FreshHandle(c)] = fd]
           /\ FreshHandle(c) \in Locals \ UsedHandles(c)
  <1> DEFINE l == FreshHandle(c)
  <1>1. l \in Locals \ UsedHandles(c)
    BY FreshHandleExists, Zenon
  <1>2. MaxLocal \in Nat \ {0} /\ l \in Int
    BY <1>1, SessionAssumption DEF Locals
  <1>3. l % MaxLocal \in 0 .. MaxLocal - 1
    BY <1>2
  <1>4. (l % MaxLocal) + 1 \in 0 .. MaxLocal
    BY <1>2, <1>3
  <1>5. AddHandle(c, fd) = [c EXCEPT !.handles[l] = fd, !.next = (l % MaxLocal) + 1]
    BY Zenon DEF AddHandle
  <1> HIDE DEF l
  <1>6. [c.handles EXCEPT ![l] = fd] \in [Locals -> 0..MaxSockets]
    BY <1>1, Zenon DEF ClientType
  <1> QED
    BY <1>1, <1>4, <1>5, <1>6, Zenon DEF l, ClientType

(* What an answer makes of the slot and of the descriptors of its client. *)
SlotAfter(old, m, new) ==
    IF m.op = "CLEANUP" THEN new = NoClient
    ELSE /\ new.owner = old.owner /\ new.dead = old.dead /\ ~new.pending /\ ~new.cleanup
         /\ new.ready => old.ready /\ new.input = old.input

HandlesAfter(old, m, new) ==
    \/ /\ m.ok /\ m.op \in {"SOCKET", "ACCEPT"}
       /\ \E l \in Locals \ UsedHandles(old) : new.handles = [old.handles EXCEPT ![l] = m.fd]
    \/ /\ m.ok /\ m.op = "CLOSE" /\ old.input.fd \in UsedHandles(old)
       /\ new.handles = [old.handles EXCEPT ![old.input.fd] = None]
    \/ ~(m.ok /\ m.op \in {"SOCKET", "ACCEPT", "CLOSE"}) /\ new.handles = old.handles

(* collect_responses finds the answer to what the client asks for, and     *)
(* room in its handle array.                                               *)
LEMMA AnswerCollected ==
    ASSUME DaemonInv, NEW c \in Clients, NEW m \in Messages(responses),
           clients[c].owner # None, m.owner = clients[c].owner
    PROVE  /\ Collected(clients[c], m) \in ClientType
           /\ SlotAfter(clients[c], m, Collected(clients[c], m))
           /\ m.op # "CLEANUP" /\ ~clients[c].dead =>
                 HandlesAfter(clients[c], m, Collected(clients[c], m))
  <1> DEFINE old == clients[c]
             mid == Answered(old)
             new == Collected(old, m)
  <1>1. old \in ClientType /\ m \in Responses
    BY DEF DaemonInv, TypeOK, Messages
  <1>2. /\ mid \in ClientType /\ mid.owner = old.owner /\ mid.dead = old.dead /\ ~mid.pending
        /\ mid.cleanup = old.cleanup /\ mid.ready = old.ready /\ mid.input = old.input
        /\ mid.handles = old.handles
    BY <1>1, ClientTypes, AnsweredFields, Zenon
  <1>3. AnswerFits(old, m) /\ (old.cleanup => old.dead)
    BY Zenon DEF DaemonInv, FitInv, SlotInv
  <1>4. UsedHandles(mid) = UsedHandles(old)
    BY <1>2, Zenon DEF UsedHandles
  <1> HIDE DEF mid, old
  <1>5. CASE m.op = "CLEANUP"
    <2>1. new = NoClient
      BY <1>2, <1>3, <1>5, Zenon DEF Collected, AnswerFits, mid
    <2> QED
      BY <1>1, <1>5, <2>1, ClientTypes, Zenon DEF SlotAfter, new, old
  <1>6. CASE m.op # "CLEANUP" /\ old.dead
    <2>1. new = mid
      BY <1>2, <1>3, <1>6, Zenon DEF Collected, AnswerFits, mid
    <2> QED
      BY <1>1, <1>2, <1>3, <1>6, <2>1, Zenon DEF AnswerFits, SlotAfter, new, old
  <1>7. CASE m.op # "CLEANUP" /\ ~old.dead
    <2>1. m.op = mid.input.op /\ m.id = mid.input.id /\ ~mid.dead /\ ~mid.cleanup
      BY <1>2, <1>3, <1>7, Zenon DEF AnswerFits
    <2>2. CASE m.ok /\ m.op \in {"SOCKET", "ACCEPT"}
      <3>1. m.fd \in Fds /\ \A l \in UsedHandles(mid) : mid.handles[l] # m.fd
        BY <1>2, <1>3, <1>4, <1>7, <2>2, Zenon DEF AnswerFits
      <3>2. \A k, l \in UsedHandles(mid) : mid.handles[k] = mid.handles[l] => k = l
        <4>1. Alive(c) /\ HandlesValid
          BY <1>7, Zenon DEF DaemonInv, SocketInv, Alive, old
        <4>2. \A k, l \in UsedHandles(old) : old.handles[k] = old.handles[l] => k = l
          BY <4>1, Zenon DEF HandlesValid, old
        <4> QED
          BY <1>2, <1>4, <4>2, Zenon
      <3>4. ~Full(mid) /\ UsedHandles(mid) # Locals
        BY <1>2, <3>1, <3>2, HandlesLeft, Zenon
      <3>5. new = Reply(AddHandle(mid, m.fd))
        BY <2>1, <2>2, <3>4, Zenon DEF Collected, mid
      <3>6. m.fd \in 0..MaxSockets
        BY <1>1, Zenon DEF Responses
      <3> DEFINE added == AddHandle(mid, m.fd)
      <3>7. /\ added \in ClientType /\ added.owner = mid.owner /\ added.dead = mid.dead
            /\ added.pending = mid.pending /\ added.cleanup = mid.cleanup
            /\ added.handles = [mid.handles EXCEPT ![FreshHandle(mid)] = m.fd]
            /\ FreshHandle(mid) \in Locals \ UsedHandles(mid)
        BY <1>2, <3>4, <3>6, AddHandleFields, Zenon
      <3> HIDE DEF added
      <3>8. /\ Reply(added) \in ClientType /\ Reply(added).owner = added.owner
            /\ Reply(added).dead = added.dead /\ Reply(added).pending = added.pending
            /\ Reply(added).cleanup = added.cleanup /\ Reply(added).handles = added.handles
            /\ ~Reply(added).ready
        BY <3>7, ClientTypes, ClientFields, Zenon
      <3>9. new = Reply(added)
        BY <3>5, Zenon DEF added
      <3> HIDE DEF new
      <3>10. new.handles = [old.handles EXCEPT ![FreshHandle(mid)] = m.fd]
        BY <1>2, <3>7, <3>8, <3>9, Zenon
      <3>11. HandlesAfter(old, m, new)
        BY <1>4, <2>2, <3>7, <3>10, Zenon DEF HandlesAfter
      <3>12. SlotAfter(old, m, new) /\ new \in ClientType
        BY <1>2, <1>7, <2>1, <3>7, <3>8, <3>9, Zenon DEF SlotAfter
      <3> QED
        BY <3>11, <3>12, Zenon DEF new, old
    <2>3. CASE m.ok /\ m.op = "CLOSE"
      <3>1. new = Reply(DropHandle(mid)) /\ old.input.fd \in UsedHandles(old)
        BY <1>3, <1>7, <2>1, <2>3, Zenon DEF Collected, mid, AnswerFits
      <3> DEFINE dropped == DropHandle(mid)
      <3>2. /\ dropped \in ClientType /\ dropped.owner = mid.owner /\ dropped.dead = mid.dead
            /\ dropped.pending = mid.pending /\ dropped.cleanup = mid.cleanup
            /\ dropped.handles = [mid.handles EXCEPT ![mid.input.fd] = None]
        BY <1>2, ClientTypes, AnsweredFields, Zenon
      <3> HIDE DEF new, dropped
      <3>3. Reply(dropped) \in ClientType
        BY <3>2, ClientTypes, Zenon
      <3>4. /\ new \in ClientType /\ new.owner = mid.owner /\ new.dead = mid.dead
            /\ new.pending = mid.pending /\ new.cleanup = mid.cleanup
            /\ new.handles = dropped.handles /\ ~new.ready
        BY <3>1, <3>2, <3>3, ClientFields, Zenon DEF dropped
      <3>5. HandlesAfter(old, m, new)
        BY <1>2, <2>3, <3>1, <3>2, <3>4, Zenon DEF HandlesAfter
      <3>6. SlotAfter(old, m, new)
        BY <1>2, <1>7, <2>1, <3>4, Zenon DEF SlotAfter
      <3> QED
        BY <3>4, <3>5, <3>6, Zenon DEF new, old
    <2>4. CASE ~(m.ok /\ m.op \in {"SOCKET", "ACCEPT", "CLOSE"})
      <3>1. new = Reply(mid)
        BY <2>1, <2>4, Zenon DEF Collected, mid
      <3> HIDE DEF new
      <3>2. /\ new \in ClientType /\ new.owner = mid.owner /\ new.dead = mid.dead
            /\ new.pending = mid.pending /\ new.cleanup = mid.cleanup
            /\ new.handles = mid.handles /\ ~new.ready
        <4>1. Reply(mid) \in ClientType
          BY <1>2, ClientTypes, Zenon
        <4> QED
          BY <1>2, <3>1, <4>1, ClientFields, Zenon
      <3>3. HandlesAfter(old, m, new) /\ SlotAfter(old, m, new)
        BY <1>2, <1>7, <2>1, <2>4, <3>2, Zenon DEF HandlesAfter, SlotAfter
      <3> QED
        BY <3>2, <3>3, Zenon DEF new, old
    <2> QED
      BY <2>2, <2>3, <2>4, Zenon
  <1> QED
    BY <1>5, <1>6, <1>7, Zenon

(* The answer at the head of the queue belongs to one session. *)
LEMMA CollectStep ==
    ASSUME DaemonInv, CollectResponse
    PROVE  \E c \in Clients :
              /\ Head(responses).owner = clients[c].owner /\ clients[c].owner # None
              /\ clients' = [clients EXCEPT ![c] = Collected(clients[c], Head(responses))]
  <1> DEFINE m == Head(responses)
             matching == {c \in Clients : clients[c].owner = m.owner}
  <1>1. m.owner \in OwnersIn(responses)
    BY PopMessage, Zenon DEF CollectResponse, DaemonInv, TypeOK, QueueInv
  <1>2. PICK c \in Clients : clients[c].owner = m.owner /\ m.owner # None
    BY <1>1, Zenon DEF DaemonInv, QueueInv, Sessions
  <1>3. matching = {c}
    BY <1>2, Zenon DEF DaemonInv, SlotInv
  <1>4. c <= c
    BY DEF Clients
  <1>5. \A d : IsFirst(d, matching) <=> d = c
    BY <1>3, <1>4, Zenon DEF IsFirst
  <1>6. clients' = [d \in Clients |->
                       IF IsFirst(d, matching) THEN Collected(clients[d], m) ELSE clients[d]]
    BY Zenon DEF CollectResponse
  <1> HIDE DEF m, matching
  <1>7. clients' = [clients EXCEPT ![c] = Collected(clients[c], m)]
    BY <1>3, <1>5, <1>6, Zenon DEF DaemonInv, TypeOK
  <1> QED
    BY <1>2, <1>7, Zenon DEF m

(* collect_responses keeps the types. *)
LEMMA CollectLocal == DaemonInv /\ CollectResponse => LocalInv'
  <1> SUFFICES ASSUME DaemonInv, CollectResponse PROVE LocalInv'
    BY Zenon
  <1> USE DEF sessionVars, loopVars, controlVars, workerVars, queueVars, flagVars
  <1>1. PICK c \in Clients :
              /\ Head(responses).owner = clients[c].owner /\ clients[c].owner # None
              /\ clients' = [clients EXCEPT ![c] = Collected(clients[c], Head(responses))]
    BY CollectStep, Zenon
  <1>2. /\ responses' = Tail(responses) /\ cpc = "collect"
        /\ UNCHANGED <<nextOwner, listening, requests, event, loopVars, workerVars, flagVars>>
    BY Zenon DEF CollectResponse
  <1>3. /\ Head(responses) \in Messages(responses) /\ responses' \in Seq(Responses)
        /\ Len(responses') < Len(responses)
    <2>1. responses \in Seq(Responses) /\ responses # <<>> /\ Distinct(responses)
      BY Zenon DEF CollectResponse, DaemonInv, TypeOK, QueueInv
    <2> QED
      BY <1>2, <2>1, PopMessage, Zenon
  <1>4. clients' \in [Clients -> ClientType]
    BY <1>1, <1>3, AnswerCollected, Zenon DEF DaemonInv, TypeOK
  <1>5. TypeOK'
    BY <1>2, <1>3, <1>4, Zenon DEF DaemonInv, TypeOK
  <1>6. Len(responses) \in Nat /\ Len(responses') \in Nat /\ QueueSize \in Nat
    BY <1>3, SessionAssumption DEF DaemonInv, TypeOK
  <1>7. LoopInv' /\ WakeInv'
    BY <1>2, <1>3, <1>6 DEF DaemonInv, LoopInv, WakeInv
  <1> QED
    BY <1>5, <1>7, Zenon DEF LocalInv

(* The descriptors of a client n name exactly the sockets that session o   *)
(* has open.                                                               *)
NamesOwn(n, o) ==
    /\ \A l \in UsedHandles(n) : Mine(n.handles[l], o)
    /\ \A k, l \in UsedHandles(n) : n.handles[k] = n.handles[l] => k = l
    /\ \A f \in Fds : Mine(f, o) => \E l \in UsedHandles(n) : n.handles[l] = f

(* A live client's descriptors after its answer is collected name what it  *)
(* has open.                                                               *)
LEMMA HandlesAfterAnswer ==
    ASSUME DaemonInv, NEW c \in Clients, NEW m \in Messages(responses),
           NEW o \in Owners, clients[c].owner = o, m.owner = o, ~clients[c].dead, m.op # "CLEANUP",
           NEW n, n = Collected(clients[c], m)
    PROVE  NamesOwn(n, o)
  <1>1. o # None /\ Alive(c) /\ clients[c] \in ClientType
    BY DEF Owners, None, Alive, DaemonInv, TypeOK
  <1>2. Answers(o) = {m}
    <2>1. \A a \in Messages(responses) : a.owner = o => a = m
      <3>1. Distinct(responses)
        BY Zenon DEF DaemonInv, QueueInv
      <3> QED
        BY <3>1, Zenon DEF Messages, Distinct
    <2>2. Answers(o) = {a \in Messages(responses) : a.owner = o}
      BY AnswersAreMessages, Zenon
    <2> QED
      BY <2>1, <2>2, Zenon
  <1> DEFINE u == UsedHandles(clients[c])
             h == clients[c].handles
             i == clients[c].input.fd
  <1>3. AnswerFits(clients[c], m)
    BY <1>1, Zenon DEF DaemonInv, FitInv
  <1>4. /\ \A l \in u : Mine(h[l], o) \/ (m.op = "CLOSE" /\ m.ok /\ i = l)
        /\ \A k, l \in u : h[k] = h[l] => k = l
    <2>1. HandlesValid /\ \A a \in Answers(clients[c].owner) : a = m
      BY <1>2, Zenon DEF DaemonInv, SocketInv
    <2>2. Alive(c) /\ clients[c].owner = o
      BY <1>1, Zenon DEF Alive
    <2>3. /\ \A l \in UsedHandles(clients[c]) :
                \/ Mine(clients[c].handles[l], clients[c].owner)
                \/ \E a \in Answers(clients[c].owner) : a.op = "CLOSE" /\ a.ok /\ clients[c].input.fd = l
          /\ \A k, l \in UsedHandles(clients[c]) :
                clients[c].handles[k] = clients[c].handles[l] => k = l
      BY <2>1, <2>2, Zenon DEF HandlesValid, Mine
    <2> QED
      BY <2>1, <2>2, <2>3, Zenon
  <1>5. \A f \in Fds : Mine(f, o) =>
            (\E l \in u : h[l] = f) \/ (m.op \in {"SOCKET", "ACCEPT"} /\ m.ok /\ m.fd = f)
    <2>1. NoOrphans /\ \A a \in Answers(clients[c].owner) : a = m
      BY <1>2, Zenon DEF DaemonInv, SocketInv
    <2> QED
      BY <1>1, <2>1 DEF NoOrphans, Mine
  <1>6. h \in [Locals -> 0..MaxSockets] /\ u = {l \in Locals : h[l] # None}
    BY <1>1, Zenon DEF ClientType, UsedHandles
  <1>7. UsedHandles(n) = {l \in Locals : n.handles[l] # None}
    BY Zenon DEF UsedHandles
  <1>8. \/ m.ok /\ m.op \in {"SOCKET", "ACCEPT"} /\ \E l \in Locals \ u : n.handles = [h EXCEPT ![l] = m.fd]
        \/ m.ok /\ m.op = "CLOSE" /\ i \in u /\ n.handles = [h EXCEPT ![i] = None]
        \/ ~(m.ok /\ m.op \in {"SOCKET", "ACCEPT", "CLOSE"}) /\ n.handles = h
    <2>1. HandlesAfter(clients[c], m, n)
      BY <1>1, AnswerCollected, Zenon
    <2> QED
      BY <2>1, Zenon DEF HandlesAfter
  <1>9. CASE m.ok /\ m.op \in {"SOCKET", "ACCEPT"} /\ \E l \in Locals \ u : n.handles = [h EXCEPT ![l] = m.fd]
    <2>1. PICK l \in Locals \ u : n.handles = [h EXCEPT ![l] = m.fd]
      BY <1>9, Zenon
    <2>2. m.fd \in Fds /\ Mine(m.fd, o) /\ (\A k \in u : h[k] # m.fd) /\ m.fd # None
      BY <1>3, <1>9 DEF AnswerFits, Fds, None
    <2> HIDE DEF h, u, i
    <2>3. n.handles[l] = m.fd /\ \A k \in Locals : k # l => n.handles[k] = h[k]
      BY <1>6, <2>1, Zenon
    <2>4. UsedHandles(n) = u \cup {l}
      BY <1>6, <1>7, <2>2, <2>3, Zenon
    <2>5. \A k \in u : k # l /\ k \in Locals /\ n.handles[k] = h[k] /\ Mine(h[k], o)
      BY <1>4, <1>6, <1>9, <2>3, Zenon
    <2> QED
      <3>1. \A k \in UsedHandles(n) : Mine(n.handles[k], o)
        BY <2>2, <2>3, <2>4, <2>5, Zenon
      <3>2. \A k, j \in UsedHandles(n) : n.handles[k] = n.handles[j] => k = j
        <4>1. \A k, j \in u : n.handles[k] = n.handles[j] => k = j
          BY <1>4, <2>5
        <4>2. \A k \in u : n.handles[k] # n.handles[l]
          BY <2>2, <2>3, <2>5, Zenon
        <4> QED
          BY <2>4, <4>1, <4>2, Zenon
      <3>3. \A f \in Fds : Mine(f, o) => \E k \in UsedHandles(n) : n.handles[k] = f
        BY <1>5, <2>3, <2>4, <2>5
      <3> QED
        BY <3>1, <3>2, <3>3, Zenon DEF NamesOwn
  <1>10. CASE m.ok /\ m.op = "CLOSE" /\ i \in u /\ n.handles = [h EXCEPT ![i] = None]
    <2>1. ~Mine(h[i], o)
      BY <1>3, <1>10, Zenon DEF AnswerFits
    <2> HIDE DEF h, u, i
    <2>2. n.handles[i] = None /\ \A k \in Locals : k # i => n.handles[k] = h[k]
      BY <1>6, <1>10, Zenon
    <2>3. UsedHandles(n) = u \ {i}
      BY <1>6, <1>7, <2>2, Zenon
    <2>4. \A k \in UsedHandles(n) : k \in u /\ k # i /\ n.handles[k] = h[k] /\ Mine(h[k], o)
      BY <1>4, <1>6, <2>2, <2>3, Zenon
    <2>5. ASSUME NEW f \in Fds, Mine(f, o) PROVE \E l \in UsedHandles(n) : n.handles[l] = f
      <3>1. PICK l \in u : h[l] = f
        BY <1>5, <1>10, <2>5, Zenon
      <3>2. l # i
        BY <2>1, <2>5, <3>1, Zenon
      <3> QED
        BY <2>3, <2>4, <3>1, <3>2, Zenon
    <2>6. \A k, l \in UsedHandles(n) : n.handles[k] = n.handles[l] => k = l
      BY <1>4, <2>4
    <2>7. \A k \in UsedHandles(n) : Mine(n.handles[k], o)
      BY <2>4, Zenon
    <2> QED
      BY <2>5, <2>6, <2>7, Zenon DEF NamesOwn
  <1>11. CASE ~(m.ok /\ m.op \in {"SOCKET", "ACCEPT", "CLOSE"}) /\ n.handles = h
    <2>1. UsedHandles(n) = u
      BY <1>6, <1>7, <1>11, Zenon
    <2> HIDE DEF h, u, i
    <2> QED
      BY <1>4, <1>5, <1>11, <2>1 DEF NamesOwn
  <1> QED
    BY <1>8, <1>9, <1>10, <1>11, Zenon

(* collect_responses: the one message of a session leaves the queue, and   *)
(* the session is over or is left with descriptors for what it has open.   *)
LEMMA CollectKeeps == DaemonInv /\ CollectResponse => SessionInv'
  <1> SUFFICES ASSUME DaemonInv, CollectResponse PROVE SessionInv'
    BY Zenon
  <1> USE DEF sessionVars, loopVars, controlVars, workerVars, queueVars, flagVars
  <1>1. PICK c \in Clients :
              /\ Head(responses).owner = clients[c].owner /\ clients[c].owner # None
              /\ clients' = [clients EXCEPT ![c] = Collected(clients[c], Head(responses))]
    BY CollectStep, Zenon
  <1>2. PICK m : m = Head(responses)
    BY Zenon
  <1>3. PICK o : o = clients[c].owner
    BY Zenon
  <1>4. PICK n : n = Collected(clients[c], m)
    BY Zenon
  <1>5. /\ responses' = Tail(responses) /\ responses # <<>>
        /\ UNCHANGED <<nextOwner, requests, sockets, hand>>
    BY Zenon DEF CollectResponse
  <1>6. /\ m \in Messages(responses) /\ o \in OwnersIn(responses) /\ m.owner = o
        /\ Distinct(responses') /\ Messages(responses') = Messages(responses) \ {m}
        /\ OwnersIn(responses') = OwnersIn(responses) \ {o}
    BY <1>1, <1>2, <1>3, <1>5, PopMessage, Zenon DEF DaemonInv, TypeOK, QueueInv
  <1>7. clients'[c] = n /\ (\A d \in Clients : d # c => clients'[d] = clients[d])
    BY <1>1, <1>2, <1>4, Zenon DEF DaemonInv, TypeOK
  <1>8. /\ OwnersIn(requests)' = OwnersIn(requests) /\ OwnersIn(responses)' = OwnersIn(responses')
        /\ Distinct(requests)' /\ Distinct(responses)'
        /\ Messages(requests)' = Messages(requests) /\ Messages(responses)' = Messages(responses')
    <2>1. Distinct(requests) /\ requests' = requests
      BY <1>5, Zenon DEF DaemonInv, QueueInv
    <2>2. /\ OwnersIn(requests)' = OwnersIn(requests) /\ Distinct(requests)'
          /\ Messages(requests)' = Messages(requests)
      BY <2>1, Zenon DEF OwnersIn, Distinct, Messages
    <2>3. OwnersIn(responses)' = OwnersIn(responses') /\ Messages(responses)' = Messages(responses')
      BY Zenon DEF OwnersIn, Messages
    <2>4. Distinct(responses)'
      BY <1>6, Zenon DEF Distinct
    <2> QED
      BY <2>2, <2>3, <2>4, Zenon
  <1>9. o \in Owners /\ None \notin Owners /\ o # None /\ o \notin OwnersIn(requests) /\ o # hand.owner
    BY <1>1, <1>3, <1>6, OwnersTyped, Zenon DEF DaemonInv, QueueInv
  <1>10. \A d \in Clients : d # c => clients[d].owner # o
    BY <1>3, <1>9, Zenon DEF DaemonInv, SlotInv
  <1>11. AnswerFits(clients[c], m)
    BY <1>3, <1>6, <1>9, Zenon DEF DaemonInv, FitInv
  (* What becomes of the client. *)
  <1>12. IF m.op = "CLEANUP" THEN n = NoClient
         ELSE /\ n.owner = o /\ n.dead = clients[c].dead /\ ~n.pending /\ ~n.cleanup
              /\ n.ready => clients[c].ready /\ n.input = clients[c].input
    <2>1. SlotAfter(clients[c], m, n)
      <3>1. m \in Messages(responses) /\ clients[c].owner # None /\ m.owner = clients[c].owner
        BY <1>3, <1>6, <1>9, Zenon
      <3> QED
        BY <1>4, <3>1, AnswerCollected, Zenon
    <2> QED
      BY <1>3, <2>1, Zenon DEF SlotAfter
  <1>13. /\ ~n.pending /\ ~n.cleanup /\ n.owner \in {None, o} /\ (n.owner = None <=> m.op = "CLEANUP")
         /\ n.ready => n.input.op \in ClientOps
    <2>1. CASE m.op = "CLEANUP"
      <3>1. n = NoClient
        BY <1>12, <2>1, Zenon
      <3> QED
        BY <1>9, <2>1, <3>1, ClientFields, Zenon DEF NoClient
    <2>2. CASE m.op # "CLEANUP"
      <3>1. clients[c].ready => clients[c].input.op \in ClientOps
        BY Zenon DEF DaemonInv, SlotInv
      <3> QED
        BY <1>9, <1>12, <2>2, <3>1, Zenon
    <2> QED
      BY <2>1, <2>2, Zenon
  <1>15. Sessions' = IF n.owner = None THEN Sessions \ {o} ELSE Sessions
    <2>1. Sessions' = {clients'[d].owner : d \in Clients} \ {None}
      BY Zenon DEF Sessions
    <2>2. \A q : q \in Sessions' <=> q # None /\ ((\E d \in Clients : d # c /\ clients[d].owner = q) \/ n.owner = q)
      BY <1>7, <2>1, Zenon
    <2>3. \A q : q \in Sessions <=> q # None /\ ((\E d \in Clients : d # c /\ clients[d].owner = q) \/ o = q)
      BY <1>3, Zenon DEF Sessions
    <2>4. CASE n.owner = None
      <3>1. \A q : q \in Sessions' <=> q \in Sessions /\ q # o
        BY <1>10, <2>2, <2>3, <2>4, Zenon
      <3> QED
        BY <2>4, <3>1, Zenon
    <2>5. CASE n.owner # None
      <3>1. n.owner = o
        BY <1>13, <2>5, Zenon
      <3>2. \A q : q \in Sessions' <=> q \in Sessions
        BY <2>2, <2>3, <3>1, Zenon
      <3> QED
        BY <2>5, <3>2
    <2> QED
      BY <2>4, <2>5, Zenon
  <1>16. QueueInv'
    <2>1. OwnersIn(requests) \cup OwnersIn(responses') \subseteq Sessions'
      BY <1>6, <1>9, <1>15, Zenon DEF DaemonInv, QueueInv
    <2>2. hand # NoRequest => hand.owner \in Sessions'
      BY <1>9, <1>15, Zenon DEF DaemonInv, QueueInv
    <2>3. ASSUME NEW d \in Clients, clients'[d].owner # None
          PROVE  clients'[d].pending <=> clients'[d].owner \in OwnersIn(requests) \cup OwnersIn(responses') \cup {hand.owner}
      <3>1. CASE d = c
        BY <1>6, <1>7, <1>9, <1>13, <2>3, <3>1, Zenon
      <3>2. CASE d # c
        BY <1>6, <1>7, <1>10, <2>3, <3>2, Zenon DEF DaemonInv, QueueInv
      <3> QED
        BY <3>1, <3>2, Zenon
    <2>4. /\ OwnersIn(requests) \cap OwnersIn(responses') = {}
          /\ hand.owner \notin OwnersIn(requests) \cup OwnersIn(responses')
      BY <1>6, Zenon DEF DaemonInv, QueueInv
    <2> QED
      BY <1>5, <1>8, <2>1, <2>2, <2>3, <2>4, Zenon DEF QueueInv
  <1>17. SlotInv'
    <2>1. ASSUME NEW d \in Clients, NEW e \in Clients, clients'[d].owner = clients'[e].owner, clients'[d].owner # None
          PROVE  d = e
      <3>1. SlotInv
        BY Zenon DEF DaemonInv
      <3>2. CASE d = c
        BY <1>7, <1>10, <1>13, <2>1, <3>2, Zenon
      <3>3. CASE e = c
        BY <1>7, <1>10, <1>13, <2>1, <3>3, Zenon
      <3>4. CASE d # c /\ e # c
        <4>1. clients'[d] = clients[d] /\ clients'[e] = clients[e]
          BY <1>7, <3>4, Zenon
        <4>2. clients[d].owner = clients[e].owner /\ clients[d].owner # None
          BY <2>1, <4>1
        <4> QED
          BY <3>1, <4>2, Zenon DEF SlotInv
      <3> QED
        BY <3>2, <3>3, <3>4, Zenon
    <2>2. n.owner <= nextOwner
      BY <1>3, <1>13, SessionAssumption DEF DaemonInv, SlotInv, TypeOK, None
    <2> QED
      BY <1>5, <1>7, <1>13, <2>1, <2>2, Zenon DEF DaemonInv, SlotInv
  <1>18. ASSUME NEW q, q # o
         PROVE  Answers(q)' = Answers(q)
    <2>1. Answers(q)' = {a \in Messages(responses') : a.owner = q}
      BY <1>8, AnswersAreMessages, Zenon
    <2>2. Answers(q) = {a \in Messages(responses) : a.owner = q}
      BY AnswersAreMessages, Zenon
    <2> QED
      BY <1>6, <1>18, <2>1, <2>2, Zenon
  <1>19. FitInv'
    <2> SUFFICES ASSUME NEW d \in Clients, clients'[d].owner # None
                 PROVE  /\ \A r \in Messages(requests) : r.owner = clients'[d].owner => RequestFits(clients'[d], r)
                        /\ hand.owner = clients'[d].owner => RequestFits(clients'[d], hand)
                        /\ \A a \in Messages(responses') : a.owner = clients'[d].owner => AnswerFits(clients[d], a)'
      BY <1>5, <1>8, Zenon DEF FitInv
    <2>1. CASE d = c
      <3>1. clients'[d].owner = o
        BY <1>7, <1>13, <2>1, Zenon
      <3>2. o \notin OwnersIn(responses')
        BY <1>6, Zenon
      <3> QED
        BY <1>9, <3>1, <3>2, OwnersOfMessages, Zenon
    <2>2. CASE d # c
      <3>1. clients'[d] = clients[d]
        BY <1>7, <2>2, Zenon
      <3>2. /\ \A r \in Messages(requests) : r.owner = clients[d].owner => RequestFits(clients[d], r)
            /\ hand.owner = clients[d].owner => RequestFits(clients[d], hand)
            /\ \A a \in Messages(responses') : a.owner = clients[d].owner => AnswerFits(clients[d], a)
        <4>1. FitInv /\ clients[d].owner # None
          BY <3>1, Zenon DEF DaemonInv
        <4>2. \A a \in Messages(responses) : a.owner = clients[d].owner => AnswerFits(clients[d], a)
          BY <4>1, Zenon DEF FitInv
        <4>3. \A r \in Messages(requests) : r.owner = clients[d].owner => RequestFits(clients[d], r)
          BY <4>1, Zenon DEF FitInv
        <4>4. hand.owner = clients[d].owner => RequestFits(clients[d], hand)
          BY <4>1, Zenon DEF FitInv
        <4> QED
          BY <1>6, <4>2, <4>3, <4>4, Zenon
      <3>3. \A a : AnswerFits(clients[d], a)' <=> AnswerFits(clients[d], a)
        BY <1>5, <3>1 DEF AnswerFits, Mine
      <3> QED
        BY <3>1, <3>2, <3>3, Zenon
    <2> QED
      BY <2>1, <2>2, Zenon
  <1>20. n.owner = o /\ ~n.dead => NamesOwn(n, o)
    <2> SUFFICES ASSUME n.owner = o, ~n.dead PROVE NamesOwn(n, o)
      BY Zenon
    <2>1. m.op # "CLEANUP"
      BY <1>9, <1>13, Zenon
    <2>2. ~clients[c].dead
      BY <1>12, <2>1, Zenon
    <2> QED
      BY <1>3, <1>4, <1>6, <1>9, <2>1, <2>2, HandlesAfterAnswer, Zenon
  <1>21. HandlesValid'
    <2> SUFFICES ASSUME NEW d \in Clients, Alive(d)'
                 PROVE  /\ \A l \in UsedHandles(clients'[d]) :
                              \/ Mine(clients'[d].handles[l], clients'[d].owner)
                              \/ \E a \in Answers(clients[d].owner)' :
                                    a.op = "CLOSE" /\ a.ok /\ clients'[d].input.fd = l
                        /\ \A k, l \in UsedHandles(clients'[d]) :
                              clients'[d].handles[k] = clients'[d].handles[l] => k = l
      BY <1>5, Zenon DEF HandlesValid, Mine
    <2>1. CASE d = c
      <3>1. clients'[d] = n /\ n.owner # None /\ ~n.dead
        BY <1>7, <2>1 DEF Alive
      <3>2. n.owner = o
        BY <1>13, <3>1, Zenon
      <3>3. NamesOwn(n, o)
        BY <1>20, <3>1, <3>2, Zenon
      <3> QED
        BY <3>1, <3>2, <3>3 DEF NamesOwn
    <2>2. CASE d # c
      <3>1. clients'[d] = clients[d] /\ clients[d].owner # o /\ Alive(d)
        BY <1>7, <1>10, <2>2, Zenon DEF Alive
      <3>2. Answers(clients[d].owner)' = Answers(clients[d].owner)
        BY <1>18, <3>1, Zenon DEF Answers
      <3>3. HandlesValid
        BY Zenon DEF DaemonInv, SocketInv
      <3>4. /\ \A l \in UsedHandles(clients[d]) :
                  \/ Mine(clients[d].handles[l], clients[d].owner)
                  \/ \E a \in Answers(clients[d].owner) :
                        a.op = "CLOSE" /\ a.ok /\ clients[d].input.fd = l
            /\ \A k, l \in UsedHandles(clients[d]) :
                  clients[d].handles[k] = clients[d].handles[l] => k = l
        BY <3>1, <3>3, Zenon DEF HandlesValid, Mine
      <3> QED
        BY <3>1, <3>2, <3>4
    <2> QED
      BY <2>1, <2>2, Zenon
  <1>22. NoOrphans'
    <2>1. ASSUME NEW f \in Fds, sockets[f].state \in {"open", "listen", "child"}
          PROVE  sockets[f].owner \in Sessions'
      <3>1. sockets[f].owner \in Sessions
        BY <2>1, Zenon DEF DaemonInv, SocketInv, NoOrphans
      <3>2. n.owner = None => sockets[f].owner # o
        BY <1>6, <1>11, <1>13, <2>1, Zenon DEF AnswerFits
      <3> QED
        BY <1>15, <3>1, <3>2, Zenon
    <2>2. ASSUME NEW f \in Fds, NEW d \in Clients, Alive(d)', Mine(f, clients'[d].owner)
          PROVE  \/ \E l \in UsedHandles(clients'[d]) : clients'[d].handles[l] = f
                 \/ \E a \in Answers(clients[d].owner)' : a.op \in {"SOCKET", "ACCEPT"} /\ a.ok /\ a.fd = f
      <3>1. CASE d = c
        <4>1. clients'[d] = n /\ n.owner # None /\ ~n.dead
          BY <1>7, <2>2, <3>1 DEF Alive
        <4>2. n.owner = o
          BY <1>13, <4>1, Zenon
        <4>3. NamesOwn(n, o)
          BY <1>20, <4>1, <4>2, Zenon
        <4> QED
          BY <2>2, <4>1, <4>2, <4>3 DEF NamesOwn
      <3>2. CASE d # c
        <4>1. clients'[d] = clients[d] /\ clients[d].owner # o /\ Alive(d)
          BY <1>7, <1>10, <2>2, <3>2, Zenon DEF Alive
        <4>2. Answers(clients[d].owner)' = Answers(clients[d].owner)
          BY <1>18, <4>1, Zenon DEF Answers
        <4>3. NoOrphans
          BY Zenon DEF DaemonInv, SocketInv
        <4>4. Mine(f, clients[d].owner)
          BY <2>2, <4>1
        <4>5. \/ \E l \in UsedHandles(clients[d]) : clients[d].handles[l] = f
              \/ \E a \in Answers(clients[d].owner) : a.op \in {"SOCKET", "ACCEPT"} /\ a.ok /\ a.fd = f
          BY <4>1, <4>3, <4>4, Zenon DEF NoOrphans, Mine
        <4> QED
          BY <4>1, <4>2, <4>5
      <3> QED
        BY <3>1, <3>2, Zenon
    <2> QED
      BY <1>5, <2>1, <2>2, Zenon DEF DaemonInv, SocketInv, NoOrphans, Mine
  <1>23. ChildInv'
    BY <1>5, Zenon DEF DaemonInv, SocketInv, ChildInv
  <1> QED
    BY <1>16, <1>17, <1>19, <1>21, <1>22, <1>23, Zenon DEF SessionInv, SocketInv

-----------------------------------------------------------------------------
(* All steps. *)

(* Every step of either thread and of the environment keeps the invariant. *)
LEMMA DaemonStep == DaemonInv /\ [Next]_vars => DaemonInv'
  <1> SUFFICES ASSUME DaemonInv, [Next]_vars PROVE DaemonInv'
    BY Zenon
  <1>1. LocalInv /\ SlotInv
    BY Zenon DEF DaemonInv, LocalInv
  <1> SUFFICES LocalInv' /\ SessionInv'
    BY Zenon DEF DaemonInv, LocalInv, SessionInv
  <1>2. CASE DrainEvent \/ CollectEnd \/ SkipSlot \/ ScanEnd \/ Poll \/ PollFails \/ AcceptEnd \/ RequestStop
    BY <1>1, <1>2, LoopLocal, LoopKeeps, Zenon
  <1>3. CASE CollectResponse
    BY <1>3, CollectLocal, CollectKeeps, Zenon
  <1>4. CASE AcceptClient
    BY <1>1, <1>4, LoopLocal, AcceptKeeps, Zenon
  <1>5. CASE \E c \in Clients : SubmitNothing(c) \/ SubmitHello(c) \/ SubmitBadHandle(c)
    BY <1>1, <1>5, ScanLocal, ScanKeeps, Zenon
  <1>6. CASE \E c \in Clients : SubmitCleanup(c) \/ SubmitRequest(c)
    BY <1>1, <1>6, ScanLocal, SubmitKeeps, Zenon
  <1>7. CASE \E c \in Clients : ServeNothing(c) \/ ServeHangUp(c) \/ WriteClient(c) \/ ReadClient(c) \/ ReadInvalid(c)
    BY <1>1, <1>7, ServeLocal, ServeKeeps, Zenon
  <1>8. CASE \E c \in Clients : PeerCloses(c)
    BY <1>1, <1>8, LoopLocal, ServeKeeps, Zenon
  <1>9. CASE WorkerPop
    BY <1>9, WorkerLocal, PopKeeps, Zenon DEF Worker
  <1>10. CASE Execute
    BY <1>10, WorkerLocal, DispatchKeeps, Zenon DEF Worker
  <1>11. CASE WorkerBatchEnd \/ Notify
    BY <1>11, WorkerLocal, LoopKeeps, Zenon DEF Worker
  <1>12. CASE \E f \in Fds : PassiveOpen(f) \/ TransportEnds(f)
    BY <1>12, WorkerLocal, TransportStepKeeps, Zenon
  <1>13. CASE UNCHANGED vars
    <2> USE DEF vars, sessionVars, loopVars, controlVars, workerVars, queueVars, flagVars
    <2>1. LocalInv'
      BY <1>1, <1>13 DEF LocalInv, TypeOK, LoopInv, WakeInv
    <2>2. /\ UNCHANGED <<requests, responses, hand, sockets, nextOwner, clients>>
          /\ \A c \in Clients : clients[c].ready => clients[c].input.op \in ClientOps
      BY <1>1, <1>13, Zenon DEF SlotInv
    <2>3. SessionInv'
      BY <2>2, QuietKeeps, Zenon
    <2> QED
      BY <2>1, <2>3, Zenon
  <1> QED
    BY <1>2, <1>3, <1>4, <1>5, <1>6, <1>7, <1>8, <1>9, <1>10, <1>11, <1>12, <1>13, Zenon
       DEF Next, Control, Worker

-----------------------------------------------------------------------------
(* What it means for the daemon. *)

(* The invariant of the two threads of the daemon holds in every reachable *)
(* state, whatever the clients send and whenever they go.                  *)
THEOREM DaemonInvariant == Spec => []DaemonInv
  <1>1. Init => DaemonInv
    BY InitLocal, InitSession, Zenon DEF DaemonInv, LocalInv, SessionInv
  <1> QED
    BY <1>1, DaemonStep, PTL DEF Spec

(* A pending session has one message on its way, another none, and every   *)
(* message belongs to a session: submit_client and daemon_progress never   *)
(* find a queue full, and collect_responses finds the client of a response.*)
THEOREM EachSessionHasOneRequest == Spec => []OneOutstanding
  <1>1. DaemonInv => OneOutstanding
    <2> SUFFICES ASSUME DaemonInv PROVE OneOutstanding
      BY Zenon
    <2>1. ASSUME NEW c \in Clients, clients[c].owner # None
          PROVE  LET places == InFlight(clients[c].owner)
                 IN  IF clients[c].pending THEN \E at \in places : places = {at} ELSE places = {}
      <3> DEFINE o == clients[c].owner
                 asked == Places(requests, o)
                 answered == Places(responses, o)
      <3>1. /\ ~(o \in OwnersIn(requests) /\ o \in OwnersIn(responses))
            /\ hand.owner = o => o \notin OwnersIn(requests) /\ o \notin OwnersIn(responses)
            /\ clients[c].pending <=> o \in OwnersIn(requests) \cup OwnersIn(responses) \cup {hand.owner}
            /\ Distinct(requests) /\ Distinct(responses)
        BY <2>1, Zenon DEF DaemonInv, QueueInv
      <3>2. o \notin OwnersIn(requests) => asked = {}
        BY Zenon DEF OwnersIn, Places
      <3>3. o \notin OwnersIn(responses) => answered = {}
        BY Zenon DEF OwnersIn, Places
      <3>4. o \in OwnersIn(requests) => \E i : asked = {i}
        BY <3>1, OneMessage, Zenon
      <3>5. o \in OwnersIn(responses) => \E i : answered = {i}
        BY <3>1, OneMessage, Zenon
      <3>6. InFlight(o) = {<<"requests", i>> : i \in asked} \cup {<<"responses", i>> : i \in answered}
                              \cup (IF hand.owner = o THEN {<<"hand", 1>>} ELSE {})
        BY Zenon DEF InFlight, Places
      <3> HIDE DEF asked, answered
      <3>7. CASE o \in OwnersIn(requests)
        <4>1. PICK i : asked = {i}
          BY <3>4, <3>7, Zenon
        <4>2. InFlight(o) = {<<"requests", i>>}
          BY <3>1, <3>3, <3>6, <3>7, <4>1, Zenon
        <4> QED
          BY <3>1, <3>7, <4>2, Zenon
      <3>8. CASE o \in OwnersIn(responses)
        <4>1. PICK i : answered = {i}
          BY <3>5, <3>8, Zenon
        <4>2. InFlight(o) = {<<"responses", i>>}
          BY <3>1, <3>2, <3>6, <3>8, <4>1, Zenon
        <4> QED
          BY <3>1, <3>8, <4>2, Zenon
      <3>9. CASE o \notin OwnersIn(requests) /\ o \notin OwnersIn(responses)
        <4>1. asked = {} /\ answered = {} /\ (clients[c].pending <=> hand.owner = o)
          BY <3>1, <3>2, <3>3, <3>9, Zenon
        <4>2. InFlight(o) = IF hand.owner = o THEN {<<"hand", 1>>} ELSE {}
          BY <3>6, <4>1, Zenon
        <4>3. CASE hand.owner = o
          <5>1. InFlight(o) = {<<"hand", 1>>} /\ clients[c].pending
            BY <4>1, <4>2, <4>3, Zenon
          <5> QED
            BY <5>1, Zenon
        <4>4. CASE hand.owner # o
          BY <4>1, <4>2, <4>4, Zenon
        <4> QED
          BY <4>3, <4>4, Zenon
      <3> QED
        BY <3>7, <3>8, <3>9, Zenon
    <2>2. \A m \in Items : m.owner \in Sessions
      BY Zenon DEF Items, OwnersIn, DaemonInv, QueueInv
    <2> QED
      BY <2>1, <2>2, Zenon DEF OneOutstanding, DaemonInv, SlotInv
  <1> QED
    BY <1>1, DaemonInvariant, PTL

(* The handles of a live client: daemon_dispatch never executes a request  *)
(* on a socket that the client did not mean.                               *)
THEOREM HandlesNameOwnSockets == Spec => []HandlesValid
  <1>1. DaemonInv => HandlesValid
    BY Zenon DEF DaemonInv, SocketInv
  <1> QED
    BY <1>1, DaemonInvariant, PTL

(* No socket that is open, listening or queued outlives its session or is  *)
(* unknown to it: the cleanup request of a session finds all it has.       *)
THEOREM SocketsHaveSessions == Spec => []NoOrphans
  <1>1. DaemonInv => NoOrphans
    BY Zenon DEF DaemonInv, SocketInv
  <1> QED
    BY <1>1, DaemonInvariant, PTL

(* collect_responses never takes the branches in which an answer does not  *)
(* fit its client or a new descriptor finds the handle array full.         *)
THEOREM AnswersFitRequests == Spec => []AnswersFit
  <1>1. DaemonInv => AnswersFit
    <2> SUFFICES ASSUME DaemonInv, NEW c \in Clients, Alive(c), NEW m \in Answers(clients[c].owner)
                 PROVE  /\ m.id = clients[c].input.id /\ m.op = clients[c].input.op
                        /\ m.ok /\ m.op \in {"SOCKET", "ACCEPT"} =>
                              ~Full(clients[c])
      BY Zenon DEF AnswersFit
    <2>1. AnswerFits(clients[c], m) /\ ~clients[c].dead /\ clients[c] \in ClientType
      <3>1. m \in Messages(responses) /\ m.owner = clients[c].owner
        BY AnswersAreMessages
      <3> QED
        BY <3>1, Zenon DEF DaemonInv, FitInv, Alive, TypeOK
    <2>2. ASSUME m.ok, m.op \in {"SOCKET", "ACCEPT"}
          PROVE  ~Full(clients[c])
      <3>1. m.fd \in Fds /\ \A l \in UsedHandles(clients[c]) : clients[c].handles[l] # m.fd
        BY <2>1, <2>2, Zenon DEF AnswerFits
      <3>2. \A k, l \in UsedHandles(clients[c]) : clients[c].handles[k] = clients[c].handles[l] => k = l
        BY Zenon DEF DaemonInv, SocketInv, HandlesValid
      <3> QED
        BY <2>1, <3>1, <3>2, HandlesLeft, Zenon
    <2> QED
      BY <2>1, <2>2, Zenon DEF AnswerFits
  <1> QED
    BY <1>1, DaemonInvariant, PTL

(* The control thread drains the eventfd before the queue, so it never     *)
(* sleeps in poll on an answer that was announced.                         *)
THEOREM WakeupsAreKept == Spec => []NoLostWakeup
  <1>1. DaemonInv => NoLostWakeup
    BY Zenon DEF DaemonInv, WakeInv, NoLostWakeup
  <1> QED
    BY <1>1, DaemonInvariant, PTL
=============================================================================
