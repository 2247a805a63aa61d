----------------------------- MODULE SocketTable -----------------------------
(***************************************************************************)
(* The socket table of the worker (src/socket.c), with what it needs of    *)
(* the protocols that use it: the fill of a datagram socket's receive ring *)
(* (src/udp.c), and which streams listen, connect, wait to be accepted,    *)
(* are up or have failed (src/tcp.c).  Several sockets share the slots,    *)
(* the handles, the ports and the addresses.                               *)
(*                                                                         *)
(* A handle holds its slot and the slot's generation, which wraps.  The    *)
(* states in which a stream is established or being closed are one state   *)
(* here; TcpConnection has them all.                                       *)
(***************************************************************************)
EXTENDS Integers, Sequences, FiniteSets, FiniteSetsExt

CONSTANTS SocketMax,        \* PS_SOCKET_MAX
          IntMax,          \* INT_MAX
          LastPort,        \* 65535
          FirstEphemeral,  \* 49152
          LocalIps,        \* addresses of the interfaces
          Peers,           \* addresses and ports of remote sockets
          Backlog,         \* backlog of every listener
          QueueSize,       \* PS_DGRAM_QUEUE_SIZE
          Types,           \* types of sockets: "dgram", "stream"
          MaxSockets       \* bound of the model: entries allocated

ASSUME TableAssumption ==
    /\ SocketMax \in Nat \ {0} /\ IntMax \in Nat /\ IntMax >= SocketMax
    /\ FirstEphemeral \in 1 .. LastPort /\ LastPort \in Nat
    /\ Backlog \in Nat \ {0} /\ QueueSize \in Nat \ {0}

Positions == 0 .. SocketMax - 1
Ports == 1 .. LastPort
Ephemeral == FirstEphemeral .. LastPort
AnyIp == "any"          \* ip_be = 0
NoPeer == "no peer"     \* remote.port = 0
Nobody == -1            \* NULL

VARIABLES table,        \* sockets.entries
          generations,  \* sockets.generations
          next_port,    \* sockets.next_port
          issued,       \* history: the handles of each slot, in order
          held          \* history: handles that applications got and did not close

socketVars == <<table, generations, next_port, issued, held>>

Unused ==
    [allocated |-> FALSE, open |-> FALSE, type |-> "none", fd |-> 0, error |-> FALSE,
     ip |-> AnyIp, port |-> 0, remote |-> NoPeer,
     state |-> "CLOSED", parent |-> 0, count |-> 0]

\* socket_subsystem_init()
SocketInit ==
    /\ table = [i \in Positions |-> Unused]
    /\ generations = [i \in Positions |-> 0]
    /\ next_port = FirstEphemeral
    /\ issued = [i \in Positions |-> <<>>]
    /\ held = {}

-----------------------------------------------------------------------------
(* Handles. *)

\* The first slot of a set, in the order of the code's loops.
FirstOf(slots) == IF slots = {} THEN Nobody ELSE Min(slots)

\* socket_lookup()
SocketLookup(fd) ==
    LET slot == (fd - 1) % SocketMax
    IN  IF table[slot].allocated /\ table[slot].fd = fd THEN slot ELSE Nobody

\* get()
Get(fd) == IF SocketLookup(fd) # Nobody /\ table[SocketLookup(fd)].open THEN SocketLookup(fd) ELSE Nobody

\* A mutant: the last generation is one too many.
GenerationTooLong(i) ==
    IF generations[i] = (IntMax - i - 1) \div SocketMax + 1 THEN 0 ELSE generations[i] + 1
NextGeneration(i) ==
    IF generations[i] = (IntMax - i - 1) \div SocketMax THEN 0 ELSE generations[i] + 1

Vacant == {i \in Positions : ~table[i].allocated}
Issued == MapThenSumSet(LAMBDA i : Len(issued[i]), Positions)

\* socket_allocate() for slot i, the first one that is vacant.
Allocated(i, type) ==
    [Unused EXCEPT !.allocated = TRUE, !.open = TRUE, !.type = type,
                   !.fd = generations[i] * SocketMax + i + 1]

Allocate(i, entry) ==
    /\ Issued < MaxSockets
    /\ i = FirstOf(Vacant) /\ i # Nobody
    /\ table' = [table EXCEPT ![i] = entry]
    /\ generations' = [generations EXCEPT ![i] = NextGeneration(i)]
    /\ issued' = [issued EXCEPT ![i] = Append(@, entry.fd)]

-----------------------------------------------------------------------------
(* Ports. *)

Overlap(ip, other) == ip = AnyIp \/ other = AnyIp \/ ip = other

\* port_available()
PortAvailable(i, ip, port) ==
    \A j \in Positions \ {i} :
        ~(table[j].allocated /\ table[j].type = table[i].type /\ table[j].port = port
             /\ Overlap(ip, table[j].ip))

\* next_port++ of a uint16_t, which skips to the first ephemeral port.
Advance(port) ==
    LET next == (port + 1) % (LastPort + 1)
    IN  IF next < FirstEphemeral THEN FirstEphemeral ELSE next

\* The port that the n-th try of an automatic bind looks at.
Tried == LET tried[n \in 0 .. LastPort] == IF n = 0 THEN next_port ELSE Advance(tried[n - 1])
         IN tried

Tries == 0 .. LastPort - FirstEphemeral

\* socket_bind(): the bindings that it may leave for a requested address, with the
\* next port to try; none when it fails.  Port 0 asks for an ephemeral port.
Bindings(i, ip, port) ==
    LET fit == {n \in Tries : PortAvailable(i, ip, Tried[n])}
    IN  IF table[i].port # 0 THEN {}
        ELSE IF port # 0
        THEN {[ip |-> ip, port |-> p, next |-> next_port] :
                  p \in {q \in {port} : PortAvailable(i, ip, q)}}
        ELSE {[ip |-> ip, port |-> Tried[n], next |-> Tried[n + 1]] :
                  n \in {m \in fit : m = Min(fit)}}

\* A call on a bound socket leaves the binding; one on an unbound socket first binds
\* it to any address and an ephemeral port, or fails.
AutoBindings(i) ==
    IF table[i].port # 0
    THEN {[ip |-> table[i].ip, port |-> table[i].port, next |-> next_port]}
    ELSE Bindings(i, AnyIp, 0)

Bound(e, b) == [e EXCEPT !.ip = b.ip, !.port = b.port]

-----------------------------------------------------------------------------
(* The calls of applications, on a handle fd. *)

\* core_socket()
Socket(type) ==
    LET i == FirstOf(Vacant) IN
    /\ i # Nobody
    /\ Allocate(i, Allocated(i, type))
    /\ held' = held \cup {Allocated(i, type).fd}
    /\ UNCHANGED next_port

\* core_bind(); netif_is_local_ip() lets only local addresses pass.
Bind(fd, ip, port) ==
    LET i == Get(fd) IN
    /\ i # Nobody
    /\ \E b \in Bindings(i, ip, port) :
           table' = [table EXCEPT ![i] = Bound(@, b)] /\ next_port' = b.next
    /\ UNCHANGED <<generations, issued, held>>

\* core_sendto() as far as it binds; the datagram itself enters the packet graph.
SendTo(fd) ==
    LET i == Get(fd) IN
    /\ i # Nobody /\ table[i].type = "dgram" /\ table[i].port = 0
    /\ \E b \in AutoBindings(i) :
           table' = [table EXCEPT ![i] = Bound(@, b)] /\ next_port' = b.next
    /\ UNCHANGED <<generations, issued, held>>

\* core_connect() of a datagram socket: the peer is also the filter.
ConnectDatagram(fd, peer) ==
    LET i == Get(fd) IN
    /\ i # Nobody /\ table[i].type = "dgram"
    /\ \E b \in AutoBindings(i) :
           /\ table' = [table EXCEPT ![i] = [Bound(@, b) EXCEPT !.remote = peer]]
           /\ next_port' = b.next
    /\ UNCHANGED <<generations, issued, held>>

\* tcp_connect(): the route gives a source address to a socket bound to any.
ConnectStream(fd, peer, source) ==
    LET i == Get(fd) IN
    /\ i # Nobody /\ table[i].type = "stream"
    /\ ~table[i].error /\ table[i].state = "CLOSED"
    /\ \E b \in AutoBindings(i) :
           /\ table' = [table EXCEPT ![i] =
                            [Bound(@, b) EXCEPT !.ip = IF b.ip = AnyIp THEN source ELSE b.ip,
                                                !.remote = peer, !.state = "SYN_SENT"]]
           /\ next_port' = b.next
    /\ UNCHANGED <<generations, issued, held>>

\* core_listen(), tcp_listen()
Listen(fd) ==
    LET i == Get(fd) IN
    /\ i # Nobody /\ table[i].type = "stream"
    /\ table[i].port # 0 /\ table[i].state = "CLOSED"
    /\ table' = [table EXCEPT ![i].state = "LISTEN"]
    /\ UNCHANGED <<generations, next_port, issued, held>>

\* The streams that a listener has not given to an application yet.
Children(fd) ==
    {j \in Positions : table[j].allocated /\ table[j].type = "stream" /\ table[j].parent = fd}

\* core_accept(), tcp_accept()
Accept(fd) ==
    LET i == Get(fd)
        child == FirstOf({j \in Children(fd) : table[j].state = "UP"})
    IN  /\ i # Nobody /\ table[i].type = "stream" /\ table[i].state = "LISTEN"
        /\ child # Nobody
        /\ table' = [table EXCEPT ![child].open = TRUE, ![child].parent = 0]
        /\ held' = held \cup {table[child].fd}
        /\ UNCHANGED <<generations, next_port, issued>>

\* tcp_fail(): an entry nobody has open is freed, an open one keeps its binding.
Failed(e) ==
    IF e.open THEN [e EXCEPT !.error = TRUE, !.state = "CLOSED", !.parent = 0] ELSE Unused

\* A mutant: the connections that wait to be accepted survive their listener.
ClosedAlone(i) ==
    LET e == [table[i] EXCEPT !.open = FALSE]
    IN  [table EXCEPT ![i] = IF e.type = "stream" /\ e.state = "UP" THEN e ELSE Unused]

\* core_close(), tcp_close(): the table it leaves.  A listener takes its children
\* along; a stream that is up keeps its slot until it has ended.
ClosedTable(i) ==
    LET e == [table[i] EXCEPT !.open = FALSE]
    IN  IF e.type = "stream" /\ e.state = "UP"
        THEN [table EXCEPT ![i] = e]
        ELSE [j \in Positions |->
                 CASE j = i -> Unused
                   [] j # i /\ e.state = "LISTEN" /\ j \in Children(e.fd) -> Failed(table[j])
                   [] OTHER -> table[j]]

Close(fd) ==
    /\ Get(fd) # Nobody
    /\ table' = ClosedTable(Get(fd))
    /\ held' = held \ {fd}
    /\ UNCHANGED <<generations, next_port, issued>>

\* core_recvfrom(), udp_recv() into a buffer that is large enough; into a smaller
\* one it returns an error and leaves the datagram.
Receive(fd) ==
    LET i == Get(fd) IN
    /\ i # Nobody /\ table[i].type = "dgram" /\ table[i].count > 0
    /\ table' = [table EXCEPT ![i].count = @ - 1]
    /\ UNCHANGED <<generations, next_port, issued, held>>

-----------------------------------------------------------------------------
(* What packets do to the table. *)

\* socket_bound(): the sockets of one type that an address and port may mean.
Matches(type, ip, port) ==
    {i \in Positions : /\ table[i].allocated /\ table[i].type = type /\ table[i].port = port
                       /\ table[i].ip \in {AnyIp, ip}}

\* udp_deliver(): a datagram for a full socket, or not from its peer, is dropped.
Deliver(ip, port, peer) ==
    LET i == FirstOf(Matches("dgram", ip, port)) IN
    /\ i # Nobody /\ table[i].remote \in {NoPeer, peer}
    /\ table[i].count < QueueSize
    /\ table' = [table EXCEPT ![i].count = @ + 1]
    /\ UNCHANGED <<generations, next_port, issued, held>>

Connected(e) == e.allocated /\ e.type = "stream" /\ e.state \in {"SYN_SENT", "SYN_RECEIVED", "UP"}

\* connection()
Connection(ip, port, peer) ==
    {i \in Positions : /\ Connected(table[i]) /\ table[i].ip = ip /\ table[i].port = port
                       /\ table[i].remote = peer}

\* listener()
Listeners(ip, port) ==
    {i \in Matches("stream", ip, port) : table[i].open /\ table[i].state = "LISTEN"}

\* passive_open(), from a SYN that belongs to no connection
PassiveOpen(ip, port, peer) ==
    LET listener == FirstOf(Listeners(ip, port))
        i == FirstOf(Vacant)
    IN  /\ Connection(ip, port, peer) = {} /\ listener # Nobody
        /\ Cardinality(Children(table[listener].fd)) < Backlog
        /\ i # Nobody
        /\ Allocate(i, [Allocated(i, "stream") EXCEPT
                            !.open = FALSE, !.ip = ip, !.port = port, !.remote = peer,
                            !.parent = table[listener].fd, !.state = "SYN_RECEIVED"])
        /\ UNCHANGED <<next_port, held>>

\* tcp_input(): the handshake completes.
Establish(i) ==
    /\ table[i].state \in {"SYN_SENT", "SYN_RECEIVED"}
    /\ table' = [table EXCEPT ![i].state = "UP"]
    /\ UNCHANGED <<generations, next_port, issued, held>>

\* tcp_input() and tcp_tick(): a reset, a lost route, too many retries, or the end
\* of a stream that the application has closed.
Fail(i) ==
    /\ Connected(table[i])
    /\ table' = [table EXCEPT ![i] = Failed(@)]
    /\ UNCHANGED <<generations, next_port, issued, held>>

SocketNext ==
    \/ \E type \in Types : Socket(type)
    \/ \E fd \in 1 .. IntMax :
           \/ \E ip \in LocalIps \cup {AnyIp}, port \in Ports \cup {0} : Bind(fd, ip, port)
           \/ \E peer \in Peers :
                  ConnectDatagram(fd, peer) \/ \E source \in LocalIps : ConnectStream(fd, peer, source)
           \/ SendTo(fd) \/ Listen(fd) \/ Accept(fd) \/ Close(fd) \/ Receive(fd)
    \/ \E ip \in LocalIps, port \in Ports, peer \in Peers :
           Deliver(ip, port, peer) \/ PassiveOpen(ip, port, peer)
    \/ \E i \in Positions : Establish(i) \/ Fail(i)

SocketSpec == SocketInit /\ [][SocketNext]_socketVars

-----------------------------------------------------------------------------
(* Properties. *)

\* The handles that work are exactly those that applications have, each for its
\* own socket, and a slot gives a handle out again only after all its others: a
\* handle used after its close means no socket until the generations wrap.
HandlesNameSockets ==
    /\ \A fd \in 1 .. IntMax : Get(fd) # Nobody <=> fd \in held
    /\ \A i \in Positions :
           /\ table[i].allocated => table[i].fd = issued[i][Len(issued[i])]
           /\ \A m, n \in DOMAIN issued[i] :
                  /\ issued[i][n] \in 1 .. IntMax
                  /\ issued[i][m] = issued[i][n] /\ m < n => n - m > (IntMax - i - 1) \div SocketMax

\* A packet means one socket, whatever the order of the slots: at most one datagram
\* socket for an address and port, at most one connection for a pair of endpoints
\* (socket_bind, tcp_connect and passive_open each add bindings).  And a connection
\* that waits to be accepted waits for a listener that is there: it can be accepted,
\* and goes when the listener is closed (tcp_close; handles are compared, and they are
\* used again).
PacketsFindSockets ==
    /\ \A ip \in LocalIps, port \in Ports :
           /\ \A i, j \in Matches("dgram", ip, port) : i = j
           /\ \A peer \in Peers : \A i, j \in Connection(ip, port, peer) : i = j
    /\ \A i \in Positions : table[i].parent # 0 =>
           LET l == Get(table[i].parent)
           IN  /\ l # Nobody /\ table[l].state = "LISTEN" /\ table[l].port = table[i].port
               /\ ~table[i].open /\ Connected(table[i])

\* An automatic bind finds a port whenever one is free, wherever the search begins
\* (the loop of socket_bind), and finds an ephemeral one.
AutomaticPortFound ==
    \A i \in Positions, ip \in LocalIps \cup {AnyIp} :
        table[i].allocated /\ table[i].port = 0 =>
            LET found == {b.port : b \in Bindings(i, ip, 0)}
            IN  /\ found \subseteq {p \in Ephemeral : PortAvailable(i, ip, p)}
                /\ found = {} => \A p \in Ephemeral : ~PortAvailable(i, ip, p)
=============================================================================
