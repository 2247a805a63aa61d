--------------------------- MODULE ClientLibrary ---------------------------
(***************************************************************************)
(* The application's side of the socket service, src/client.c: one session *)
(* per process, one request at a time with a deadline, and a session that  *)
(* is given up at the first thing that goes wrong.                         *)
(*                                                                         *)
(* A process may fork between calls: the child has a copy of the client    *)
(* structure and of the descriptor.  The daemon is what the library sees   *)
(* of it: it answers requests in their order, late or never, with results  *)
(* the library must not rely on, and it may close the connection.          *)
(*                                                                         *)
(* A message is its fields that are compared or checked; an answer's       *)
(* payload is the lengths of its data.                                     *)
(***************************************************************************)
EXTENDS Integers, Sequences, FiniteSetsExt

CONSTANTS Processes,    \* the application and its children
          First,        \* the process that runs at the start
          Ids,          \* 2^32: the number of values of a request's id
          PayloadMax,   \* IPC_PAYLOAD_MAX
          DatagramHeader, \* IPC_DGRAM_HEADER
          Calls,        \* the calls of applications: an operation, and the buffers' lengths
          MaxSessions,  \* bound on the connections made
          MaxRequests   \* bound on the requests made

ASSUME ClientAssumption ==
    /\ First \in Processes /\ "none" \notin Processes
    /\ Ids \in Nat /\ Ids >= 2
    /\ PayloadMax \in Nat /\ DatagramHeader \in Nat
    /\ MaxSessions \in Nat /\ MaxRequests \in Nat

\* An application passes buffers, one for each datagram or one for a stream.
ASSUME CallsAssumption ==
    \A c \in Calls :
        /\ c.op \in {"socket", "send", "recv", "sendmmsg", "recvmmsg"}
        /\ c.lens \in Seq(Nat)
        /\ c.op \in {"send", "recv"} => c.lens # <<>>

NoFd == 0
NoCall == [phase |-> "none"]
Sessions == 1 .. MaxSessions
Batches == {"sendmmsg", "recvmmsg"}

VARIABLES client,    \* the client structure of each process; pid 0 for no process
          call,      \* the request() under way in each process
          wire,      \* the connections
          requested  \* requests made so far

clientVars == <<client, call, wire, requested>>

NoProcess == [fd |-> NoFd, error |-> FALSE, next_id |-> 0, features |-> FALSE, pid |-> "none"]

\* What ps_fini() leaves.
Fresh(p) == [NoProcess EXCEPT !.pid = p]

\* A connection: requests and answers in transit, the processes that have it open,
\* whether the daemon has, and the sockets that belong to it there.
NoSession == [requests |-> <<>>, answers |-> <<>>, holders |-> {}, open |-> FALSE, sockets |-> {}]

ClientInit ==
    /\ client = [p \in Processes |-> IF p = First THEN Fresh(p) ELSE NoProcess]
    /\ call = [p \in Processes |-> NoCall]
    /\ wire = [s \in Sessions |-> NoSession]
    /\ requested = 0

Unused(s) == wire[s].holders = {} /\ ~wire[s].open
Alive(p) == client[p].pid # "none"
Ready(p) == Alive(p) /\ call[p] = NoCall

\* close(client.fd), if it is open; answers that nobody can read any more are lost.
Released(p) ==
    [s \in Sessions |->
        LET holders == wire[s].holders \ {p} IN
        IF s # client[p].fd THEN wire[s]
        ELSE [wire[s] EXCEPT !.holders = holders, !.answers = IF holders = {} THEN <<>> ELSE @]]

\* A mutant: the descriptor is forgotten but not closed.
Forgotten(p) ==
    /\ client' = [client EXCEPT ![p].fd = NoFd, ![p].error = TRUE]
    /\ call' = [call EXCEPT ![p] = NoCall]
    /\ UNCHANGED <<wire, requested>>

\* broken(): the session is given up and the call returns an error.
Broken(p) ==
    /\ wire' = Released(p)
    /\ client' = [client EXCEPT ![p].fd = NoFd, ![p].error = TRUE]
    /\ call' = [call EXCEPT ![p] = NoCall]
    /\ UNCHANGED requested

-----------------------------------------------------------------------------
(* Sessions. *)

\* ++client.next_id, without 0
NextId(id) == IF (id + 1) % Ids = 0 THEN 1 ELSE (id + 1) % Ids

\* request(): what it is about to send.
Message(id, op, lens, limits) ==
    [phase |-> "write", tag |-> requested + 1, id |-> id, op |-> op, lens |-> lens,
     limits |-> limits]

\* ps_init(): a session that this process has already is left alone; otherwise it
\* starts afresh, connects and asks for the features.
PsInit(p) ==
    /\ Ready(p)
    /\ ~(client[p].pid = p /\ client[p].fd # NoFd)
    /\ requested < MaxRequests
    /\ \E s \in Sessions :
           /\ Unused(s) /\ \A t \in Sessions : t < s => ~Unused(t)
           /\ wire' = [Released(p) EXCEPT ![s] = [NoSession EXCEPT !.holders = {p}, !.open = TRUE]]
           /\ client' = [client EXCEPT ![p] = [Fresh(p) EXCEPT !.fd = s, !.next_id = 1]]
           /\ call' = [call EXCEPT ![p] = Message(1, "hello", <<>>, <<>>)]
    /\ requested' = requested + 1

\* ps_init() when nobody listens at the path.
PsInitFails(p) ==
    /\ Ready(p)
    /\ ~(client[p].pid = p /\ client[p].fd # NoFd)
    /\ wire' = Released(p)
    /\ client' = [client EXCEPT ![p] = [Fresh(p) EXCEPT !.error = TRUE]]
    /\ UNCHANGED <<call, requested>>

PsFini(p) ==
    /\ Ready(p)
    /\ wire' = Released(p)
    /\ client' = [client EXCEPT ![p] = Fresh(p)]
    /\ UNCHANGED <<call, requested>>

-----------------------------------------------------------------------------
(* Requests. *)

\* A mutant: a child goes on with its parent's session.
InheritedNever(p) == FALSE

\* The structure is a copy of the parent's.
Inherited(p) == client[p].pid # p

\* request() and batch_valid() in a child: the copied session is dropped, and the call
\* fails.
DropInherited(p) ==
    /\ Ready(p) /\ Inherited(p)
    /\ wire' = Released(p)
    /\ client' = [client EXCEPT ![p].fd = NoFd, ![p].error = FALSE, ![p].pid = p]
    /\ UNCHANGED <<call, requested>>

DropInheritedBatch(p) ==
    /\ Ready(p) /\ Inherited(p)
    /\ wire' = Released(p)
    /\ client' = [client EXCEPT ![p] = Fresh(p)]
    /\ UNCHANGED <<call, requested>>

\* ps_sendmmsg(): the messages that fit into one request, from the first on.
Encoded(lens) ==
    LET size(n) == SumFunction([i \in 1 .. n |-> DatagramHeader + lens[i]])
    IN  SubSeq(lens, 1, Max({0} \cup {n \in 1 .. Len(lens) : size(n) <= PayloadMax}))

\* send_request(), recv_request(), ps_sendmmsg(), ps_recvmmsg(): the most the answer
\* may be about.
Limits(c) ==
    CASE c.op \in {"send", "recv"} -> <<Min({c.lens[1], PayloadMax})>>
      [] c.op = "sendmmsg" -> Encoded(c.lens)
      [] OTHER -> c.lens

\* request() in a process that has a session.
Begin(p, c) ==
    /\ Ready(p) /\ ~Inherited(p) /\ client[p].fd # NoFd
    /\ c.op \in Batches => client[p].features
    /\ requested < MaxRequests
    /\ call' = [call EXCEPT ![p] = Message(NextId(client[p].next_id), c.op, c.lens, Limits(c))]
    /\ client' = [client EXCEPT ![p].next_id = NextId(@)]
    /\ requested' = requested + 1
    /\ UNCHANGED wire

\* transfer(), writing
WriteRequest(p) ==
    /\ call[p].phase = "write"
    /\ IF wire[client[p].fd].open
       THEN /\ wire' = [wire EXCEPT ![client[p].fd].requests = Append(@, call[p])]
            /\ call' = [call EXCEPT ![p].phase = "read"]
            /\ UNCHANGED <<client, requested>>
       ELSE Broken(p)

\* The checks of the callers of request() on an answer that is no error.
Fits(m, a) ==
    CASE m.op = "hello" -> a.result = 0
      [] m.op = "socket" -> TRUE
      [] m.op = "send" -> a.result <= m.limits[1]
      [] m.op = "recv" -> a.lens = <<a.result>> /\ a.result <= m.limits[1]
      [] m.op = "sendmmsg" -> a.result \in 1 .. Len(m.limits) /\ a.lens = <<>>
      [] m.op = "recvmmsg" -> /\ a.result \in 1 .. Len(m.limits) /\ Len(a.lens) = a.result
                              /\ \A i \in 1 .. a.result : a.lens[i] <= m.limits[i]

\* request() and its callers: the answers that are taken.
Accepted(m, a) ==
    /\ a.id = m.id /\ a.op = m.op
    /\ IF a.result < 0 THEN a.lens = <<>> /\ m.op # "hello" ELSE Fits(m, a)

\* transfer(), reading, and what request() and its caller do with the answer.
Take(p) ==
    LET s == client[p].fd
        a == Head(wire[s].answers)
    IN  /\ call[p].phase = "read" /\ wire[s].answers # <<>>
        /\ IF Accepted(call[p], a)
           THEN /\ wire' = [wire EXCEPT ![s].answers = Tail(@)]
                /\ client' = [client EXCEPT ![p].features = IF a.op = "hello" THEN a.feature ELSE @]
                /\ call' = [call EXCEPT ![p] = NoCall]
                /\ UNCHANGED requested
           ELSE Broken(p)

\* The daemon has closed the connection and all its answers are read.
Reset(p) ==
    /\ call[p].phase = "read"
    /\ wire[client[p].fd].answers = <<>> /\ ~wire[client[p].fd].open
    /\ Broken(p)

\* wait_socket() gives up, at some moment of the request: time, the pieces in which a
\* message moves and the signals that interrupt it are in Transfer.
Deadline(p) ==
    /\ call[p] # NoCall
    /\ Broken(p)

-----------------------------------------------------------------------------
(* The operating system: fork() between calls, and the end of a process. *)

\* The child's pid is not one that a copied structure still has: pids are assumed not
\* to come round that soon.
Fork(p, q) ==
    /\ Ready(p) /\ ~Alive(q) /\ \A r \in Processes : client[r].pid # q
    /\ client' = [client EXCEPT ![q] = client[p]]
    /\ wire' = [s \in Sessions |->
                   IF s = client[p].fd THEN [wire[s] EXCEPT !.holders = @ \cup {q}] ELSE wire[s]]
    /\ UNCHANGED <<call, requested>>

Exit(p) ==
    /\ Alive(p)
    /\ client' = [client EXCEPT ![p] = NoProcess]
    /\ call' = [call EXCEPT ![p] = NoCall]
    /\ wire' = Released(p)
    /\ UNCHANGED requested

-----------------------------------------------------------------------------
(* The daemon. *)

\* The datagrams that may come back for the buffers: full ones, one that is too long,
\* one that was not asked for.
Lengths(limits) ==
    {SubSeq(limits, 1, n) : n \in 1 .. Len(limits)}
    \cup {[limits EXCEPT ![1] = @ + 1], Append(limits, 0)}

\* What may come back for a request: an error, what it allows at most, and more.
Replies(m) ==
    {[result |-> -1, lens |-> <<>>]} \cup
    CASE m.op \in {"hello", "socket"} -> {[result |-> 0, lens |-> <<>>]}
      [] m.op = "send" -> {[result |-> n, lens |-> <<>>] : n \in m.limits[1] .. m.limits[1] + 1}
      [] m.op = "recv" -> {[result |-> n, lens |-> <<n>>] : n \in m.limits[1] .. m.limits[1] + 1}
      [] m.op = "sendmmsg" -> {[result |-> n, lens |-> <<>>] : n \in Len(m.limits) .. Len(m.limits) + 1}
      [] m.op = "recvmmsg" -> {[result |-> Len(ls), lens |-> ls] : ls \in Lengths(m.limits)}

Answer(m, r, feature) ==
    [tag |-> m.tag, id |-> m.id, op |-> m.op, result |-> r.result, lens |-> r.lens,
     feature |-> feature]

\* The next request of a connection is executed and answered, whether or not
\* somebody still waits for it.
Serve(s) ==
    /\ wire[s].open /\ wire[s].requests # <<>>
    /\ LET m == Head(wire[s].requests) IN
       \E r \in Replies(m), feature \in (IF m.op = "hello" THEN BOOLEAN ELSE {FALSE}) :
           wire' = [wire EXCEPT ![s].requests = Tail(@),
                                ![s].answers = IF wire[s].holders = {} THEN @
                                               ELSE Append(@, Answer(m, r, feature)),
                                ![s].sockets = IF m.op = "socket" /\ r.result >= 0
                                               THEN @ \cup {m.tag} ELSE @]
    /\ UNCHANGED <<client, call, requested>>

\* The end of a connection in the daemon: its sockets are closed.
Ended(s) == [wire EXCEPT ![s].open = FALSE, ![s].sockets = {}, ![s].requests = <<>>]

\* Nobody has the connection open any more, or the daemon gives it up.
Hangup(s) ==
    /\ wire[s].open /\ wire[s].holders = {}
    /\ wire' = Ended(s)
    /\ UNCHANGED <<client, call, requested>>

Abort(s) ==
    /\ wire[s].open /\ wire[s].holders # {}
    /\ wire' = Ended(s)
    /\ UNCHANGED <<client, call, requested>>

-----------------------------------------------------------------------------
ClientNext ==
    \/ \E p \in Processes :
           \/ PsInit(p) \/ PsInitFails(p) \/ PsFini(p)
           \/ DropInherited(p) \/ DropInheritedBatch(p)
           \/ \E c \in Calls : Begin(p, c)
           \/ WriteRequest(p) \/ Take(p) \/ Reset(p) \/ Deadline(p)
           \/ \E q \in Processes : Fork(p, q)
           \/ Exit(p)
    \/ \E s \in Sessions : Serve(s) \/ Hangup(s) \/ Abort(s)

\* A call that is not answered gives up in the end (CallsReturn of Transfer), and the
\* daemon notices that a connection has ended.  That it answers is not assumed.
ClientFairness ==
    /\ \A p \in Processes : WF_clientVars(Deadline(p))
    /\ \A s \in Sessions : WF_clientVars(Hangup(s))

ClientSpec == ClientInit /\ [][ClientNext]_clientVars /\ ClientFairness

-----------------------------------------------------------------------------
(* Properties. *)

\* What is told of a request, or copied, is within the caller's buffers.
WithinBuffers(m, a) ==
    CASE m.op \in {"send", "recv"} -> a.result <= m.lens[1]
      [] m.op \in Batches -> /\ a.result <= Len(m.lens)
                             /\ \A i \in DOMAIN a.lens : a.lens[i] <= m.lens[i]
      [] OTHER -> TRUE

\* A call returns what the daemon answered to this very request, within the caller's
\* buffers; and a call starts with nothing under way on its session, so that no late
\* answer is taken for a later one, although ids start again in every session and a
\* child starts with its parent's ids (request, broken).
AnswersOwn ==
    [][\A p \in Processes :
           LET session == wire[client[p].fd]
               answer == Head(session.answers)
           IN  /\ call[p] = NoCall /\ call'[p] # NoCall /\ client[p].fd # NoFd /\ ~Inherited(p) =>
                      session.requests = <<>> /\ session.answers = <<>>
               /\ call[p].phase = "read" /\ call'[p] = NoCall /\ client'[p].fd # NoFd =>
                      /\ session.answers # <<>> /\ answer.tag = call[p].tag
                      /\ WithinBuffers(call[p], answer)]_clientVars

\* A socket that the daemon made for a call which gave up is not left behind: once no
\* process goes on with the session, the daemon ends it and closes its sockets.
AbandonedReleased ==
    \A s \in Sessions : (\A p \in Processes : client[p].fd # s) ~> wire[s].sockets = {}
=============================================================================
