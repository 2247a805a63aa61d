--------------------------- MODULE TcpConnection ---------------------------
(***************************************************************************)
(* One TCP connection between two hosts that both run this stack           *)
(* (src/tcp.c, src/tcp_output.c, src/tcp_timer.c): the client opens it     *)
(* actively, the server has a listener that queues and accepts it.  The    *)
(* network may lose, delay, reorder and duplicate every segment: net holds *)
(* the segments ever sent, and one of them may arrive at any time, again,  *)
(* or never.                                                               *)
(*                                                                         *)
(* The n-th byte that the application sends in the k-th incarnation of its *)
(* end is <<k, n>>, so that the receiver can tell every byte from every    *)
(* other one.  Clock values are abstracted to whether a timer is armed: an *)
(* armed timer may fire at any time.  A segment that tcp_emit cannot build *)
(* or route is one that is lost.                                           *)
(***************************************************************************)
EXTENDS Integers, Sequences, FiniteSets, FiniteSetsExt

CONSTANTS BufferSize,  \* TCP_BUFFER_SIZE
          MaxRetries,  \* TCP_MAX_RETRIES
          Mss,         \* payload that the peer's option and the route allow
          SeqMod,      \* 2^32: sequence numbers wrap here
          InitialSeq,  \* initial sequence numbers of an end's incarnations
          MaxSend,     \* bound of the model: bytes each application sends
          RouteFails   \* bound of the model: may the route to the peer disappear

Ends == {"client", "server"}
Peer(e) == IF e = "client" THEN "server" ELSE "client"
SeqNumbers == 0..(SeqMod - 1)

ASSUME TcpAssumption ==
    /\ BufferSize \in Nat \ {0} /\ MaxRetries \in Nat /\ Mss \in Nat \ {0}
    /\ SeqMod \in Nat /\ SeqMod > 2 * BufferSize + 2
    /\ InitialSeq \in [Ends -> Seq(SeqNumbers)]
    /\ MaxSend \in [Ends -> Nat]
    /\ RouteFails \in BOOLEAN

VARIABLES conn,       \* the socket entry of each end
          listening,  \* the server's listener is open
          net,        \* segments sent so far
          sent,       \* number of bytes each incarnation's application has sent
          received    \* the bytes each incarnation's application has been given

vars == <<conn, listening, net, sent, received>>

-----------------------------------------------------------------------------
(* Sequence numbers and the socket entry.                                  *)

\* Addition of uint32_t
Add(a, n) == (a + n) % SeqMod

\* (int32_t)(a - b) < 0
Before(a, b) == 2 * ((a - b) % SeqMod) >= SeqMod

Bytes == (Nat \ {0}) \X (Nat \ {0})
Flags == {"SYN", "ACK", "FIN", "RST", "PSH"}
States == {"CLOSED", "SYN_SENT", "SYN_RECEIVED", "ESTABLISHED", "FIN_WAIT_1",
           "FIN_WAIT_2", "CLOSE_WAIT", "LAST_ACK", "TIME_WAIT"}
Errors == {"none", "refused", "reset", "timeout", "aborted", "noroute"}

\* struct ps_socket_entry and its struct tcp_connection; queued is parent != 0, wnd is
\* peer_window, fin is peer_fin, deadline and expires tell whether they are not 0.
Entries ==
    [allocated : BOOLEAN, open : BOOLEAN, error : Errors, queued : BOOLEAN,
     state : States, snd_una : SeqNumbers, snd_nxt : SeqNumbers, rcv_nxt : SeqNumbers,
     snd_wl1 : SeqNumbers, snd_wl2 : SeqNumbers, wnd : Nat, rx : Seq(Bytes), tx : Seq(Bytes),
     flight : SUBSET Flags, flight_len : Nat, retries : 0..MaxRetries,
     closing : BOOLEAN, fin : BOOLEAN, deadline : BOOLEAN, expires : BOOLEAN]

Free ==
    [allocated |-> FALSE, open |-> FALSE, error |-> "none", queued |-> FALSE,
     state |-> "CLOSED", snd_una |-> 0, snd_nxt |-> 0, rcv_nxt |-> 0,
     snd_wl1 |-> 0, snd_wl2 |-> 0, wnd |-> 0, rx |-> <<>>, tx |-> <<>>,
     flight |-> {}, flight_len |-> 0, retries |-> 0,
     closing |-> FALSE, fin |-> FALSE, deadline |-> FALSE, expires |-> FALSE]

Segments ==
    [to : Ends, seq : SeqNumbers, ack : SeqNumbers, flags : SUBSET Flags,
     win : Nat, data : Seq(Bytes)]

\* tcp_emit; the window is what is free of the receive buffer.
Segment(e, seq, ack, flags, win, data) ==
    [to |-> Peer(e), seq |-> seq, ack |-> ack, flags |-> flags, win |-> win, data |-> data]
Window(c) == BufferSize - Len(c.rx)
Flight(e, c) ==
    Segment(e, c.snd_una, c.rcv_nxt, c.flight, Window(c), SubSeq(c.tx, 1, c.flight_len))
Ack(e, c) == Segment(e, c.snd_nxt, c.rcv_nxt, {"ACK"}, Window(c), <<>>)

\* A mutant: the FIN takes no sequence number.
OnlySynCounts(flags) == IF "SYN" \in flags THEN 1 ELSE 0
ControlLength(flags) == IF flags \cap {"SYN", "FIN"} # {} THEN 1 ELSE 0

\* start_flight
StartFlight(c, flags, length) ==
    [c EXCEPT !.flight = flags, !.flight_len = length,
              !.snd_nxt = Add(c.snd_una, length + ControlLength(flags)),
              !.deadline = TRUE, !.retries = 0]

\* tcp_fail: an entry that nobody has open is freed, an open one keeps the error.
Fail(c, error) ==
    IF c.open THEN [Free EXCEPT !.allocated = TRUE, !.open = TRUE, !.error = error] ELSE Free

\* A mutant: the connection stays in TIME_WAIT without a timer.
TimeWaitForever(c) == [c EXCEPT !.state = "TIME_WAIT", !.flight = {}, !.deadline = FALSE]

\* tcp_time_wait
TimeWait(c) ==
    [c EXCEPT !.state = "TIME_WAIT", !.flight = {}, !.deadline = FALSE, !.expires = TRUE]

Least(a, b) == IF a <= b THEN a ELSE b

\* Has something to send or to close, and no flight under way.
Idle(c) == c.flight = {} /\ c.state \in {"ESTABLISHED", "CLOSE_WAIT"}
Wants(c) == c.tx # <<>> \/ c.closing

\* A mutant: the FIN overtakes what is still in the send buffer.
DataUnlessClosing(c) == c.tx # <<>> /\ ~c.closing
DataFirst(c) == c.tx # <<>>

\* A mutant: no timer watches a closed window.
NoPersist(c) == c
Persist(c) == [c EXCEPT !.deadline = TRUE, !.retries = IF c.deadline THEN @ ELSE 0]

\* tcp_kick: the entry it leaves and the segments it sends.
Kick(e, c, routed) ==
    LET data == StartFlight(c, {"ACK", "PSH"}, Least(Len(c.tx), Least(c.wnd, Mss)))
        last == StartFlight([c EXCEPT !.state = IF @ = "CLOSE_WAIT" THEN "LAST_ACK" ELSE "FIN_WAIT_1"],
                            {"FIN", "ACK"}, 0)
    IN  CASE ~Idle(c) \/ ~Wants(c) -> [entry |-> c, out |-> {}]
          [] Idle(c) /\ Wants(c) /\ c.wnd = 0 ->
               [entry |-> Persist(c), out |-> {}]
          [] Idle(c) /\ DataFirst(c) /\ c.wnd > 0 ->
               IF routed THEN [entry |-> data, out |-> {Flight(e, data)}]
                         ELSE [entry |-> Fail(c, "noroute"), out |-> {}]
          [] Idle(c) /\ Wants(c) /\ ~DataFirst(c) /\ c.wnd > 0 ->
               [entry |-> last, out |-> {Flight(e, last)}]

\* acknowledge
Acknowledge(c, ack) ==
    LET bytes == (ack - c.snd_una) % SeqMod
        some == [c EXCEPT !.snd_una = ack, !.deadline = TRUE,
                          !.tx = IF c.flight_len > 0 THEN SubSeq(@, bytes + 1, Len(@)) ELSE @,
                          !.flight_len = IF @ > 0 THEN @ - bytes ELSE @]
        all == [some EXCEPT !.flight = {}, !.deadline = FALSE, !.retries = 0]
    IN  CASE ~Before(c.snd_una, ack) -> c
          [] Before(c.snd_una, ack) /\ ack # c.snd_nxt -> some
          [] Before(c.snd_una, ack) /\ ack = c.snd_nxt ->
               IF "FIN" \notin c.flight THEN all
               ELSE IF c.state = "LAST_ACK" THEN Fail(all, "none")
               ELSE IF c.fin THEN TimeWait(all)
               ELSE [all EXCEPT !.state = "FIN_WAIT_2", !.expires = TRUE]

\* What tcp_input does with the window, the payload and the FIN of an acceptable segment.
TakeWindow(c, g) ==
    IF ~Before(g.seq, c.snd_wl1) /\ (g.seq # c.snd_wl1 \/ ~Before(g.ack, c.snd_wl2))
    THEN [c EXCEPT !.wnd = g.win, !.snd_wl1 = g.seq, !.snd_wl2 = g.ack]
    ELSE c
Taken(c, g) == IF c.fin THEN 0 ELSE Least(Len(g.data), Window(c))
TakeData(c, g) ==
    [c EXCEPT !.rx = @ \o SubSeq(g.data, 1, Taken(c, g)), !.rcv_nxt = Add(@, Taken(c, g))]
TakeFin(c) ==
    LET d == [c EXCEPT !.fin = TRUE, !.rcv_nxt = Add(@, 1)]
    IN  CASE c.state = "ESTABLISHED" -> [d EXCEPT !.state = "CLOSE_WAIT"]
          [] c.state = "FIN_WAIT_2" -> TimeWait(d)
          [] OTHER -> d

-----------------------------------------------------------------------------
Init ==
    /\ conn = [e \in Ends |-> IF e = "client" THEN [Free EXCEPT !.allocated = TRUE, !.open = TRUE]
                                              ELSE Free]
    /\ listening = TRUE
    /\ net = {}
    /\ sent = [e \in Ends |-> <<>>]
    /\ received = [e \in Ends |-> <<>>]

\* A handler leaves entry c at end e and sends the segments out.
Becomes(e, c, out) ==
    /\ conn' = [conn EXCEPT ![e] = c]
    /\ net' = net \cup out

Incarnation(e) == Len(sent[e])
MayOpen(e) == Incarnation(e) < Len(InitialSeq[e])
NextIss(e) == InitialSeq[e][Incarnation(e) + 1]
Opened(e) ==
    /\ sent' = [sent EXCEPT ![e] = Append(@, 0)]
    /\ received' = [received EXCEPT ![e] = Append(@, <<>>)]

(* The calls of the applications.                                          *)

\* tcp_connect, where a route exists; without one nothing changes.
Connect ==
    LET c == conn["client"]
        d == StartFlight([c EXCEPT !.snd_una = NextIss("client"), !.snd_nxt = NextIss("client"),
                                   !.wnd = 65535, !.state = "SYN_SENT"], {"SYN"}, 0)
    IN  /\ c.open /\ c.error = "none" /\ c.state = "CLOSED"
        /\ MayOpen("client")
        /\ Becomes("client", d, {Flight("client", d)})
        /\ Opened("client")
        /\ UNCHANGED listening

\* tcp_accept
Accept ==
    LET c == conn["server"]
    IN  /\ listening
        /\ c.allocated /\ c.queued /\ c.state \in {"ESTABLISHED", "CLOSE_WAIT"}
        /\ Becomes("server", [c EXCEPT !.open = TRUE, !.queued = FALSE, !.expires = FALSE], {})
        /\ UNCHANGED <<listening, sent, received>>

\* tcp_close of the listener: a queued connection is reset.
CloseListener ==
    LET c == conn["server"]
    IN  /\ listening
        /\ listening' = FALSE
        /\ IF c.allocated /\ c.queued
           THEN Becomes("server", Fail(c, "reset"),
                        {Segment("server", c.snd_nxt, c.rcv_nxt, {"RST", "ACK"}, 0, <<>>)})
           ELSE UNCHANGED <<conn, net>>
        /\ UNCHANGED <<sent, received>>

\* tcp_close of a connection
Close(e) ==
    LET c == [conn[e] EXCEPT !.open = FALSE]
    IN  /\ conn[e].open
        /\ \/ /\ c.state \in {"CLOSED", "SYN_SENT", "SYN_RECEIVED"}
              /\ Becomes(e, Fail(c, "aborted"), {})
           \/ /\ c.state \notin {"CLOSED", "SYN_SENT", "SYN_RECEIVED"}
              /\ \E routed \in {TRUE, ~RouteFails} :
                    LET k == Kick(e, [c EXCEPT !.closing = TRUE], routed) IN Becomes(e, k.entry, k.out)
        /\ UNCHANGED <<listening, sent, received>>

\* tcp_send of n bytes, as many as the buffer takes
Send(e, n) ==
    LET c == conn[e]
        k == Incarnation(e)
        accepted == Least(n, BufferSize - Len(c.tx))
        bytes == [i \in 1..accepted |-> <<k, sent[e][k] + i>>]
    IN  /\ c.open /\ c.error = "none" /\ c.state \in {"ESTABLISHED", "CLOSE_WAIT"}
        /\ accepted > 0
        /\ sent[e][k] + n <= MaxSend[e]
        /\ \E routed \in {TRUE, ~RouteFails} :
              LET r == Kick(e, [c EXCEPT !.tx = @ \o bytes], routed) IN Becomes(e, r.entry, r.out)
        /\ sent' = [sent EXCEPT ![e][k] = @ + accepted]
        /\ UNCHANGED <<listening, received>>

\* tcp_recv into a buffer of n bytes; it always announces the new window
Recv(e, n) ==
    LET c == conn[e]
        d == [c EXCEPT !.rx = SubSeq(@, n + 1, Len(@))]
    IN  /\ c.open
        /\ n \in 1..Len(c.rx)
        /\ received' = [received EXCEPT ![e][Incarnation(e)] = @ \o SubSeq(c.rx, 1, n)]
        /\ Becomes(e, d, {Ack(e, d)})
        /\ UNCHANGED <<listening, sent>>

-----------------------------------------------------------------------------
(* tcp_input: the segment g arrives at end e.                              *)

Connected(e) == conn[e].allocated /\ conn[e].state # "CLOSED"
Arrives(e, g) == g \in net /\ g.to = e

\* reset_reply
ResetReply(e, g) ==
    IF "RST" \in g.flags THEN {}
    ELSE IF "ACK" \in g.flags THEN {Segment(e, g.ack, 0, {"RST"}, 0, <<>>)}
    ELSE {Segment(e, 0, Add(g.seq, Len(g.data) + (IF "SYN" \in g.flags THEN 1 ELSE 0)
                                               + (IF "FIN" \in g.flags THEN 1 ELSE 0)),
                  {"RST", "ACK"}, 0, <<>>)}

\* passive_open; the one slot of the server is the backlog.
PassiveOpen(g) ==
    LET d == StartFlight([Free EXCEPT !.allocated = TRUE, !.queued = TRUE, !.state = "SYN_RECEIVED",
                              !.snd_una = NextIss("server"), !.rcv_nxt = Add(g.seq, 1),
                              !.wnd = g.win, !.snd_wl1 = g.seq], {"SYN", "ACK"}, 0)
    IN  /\ Arrives("server", g)
        /\ listening
        /\ ~conn["server"].allocated
        /\ "SYN" \in g.flags /\ g.flags \cap {"RST", "ACK"} = {}
        /\ MayOpen("server")
        /\ Becomes("server", d, {Flight("server", d)})
        /\ Opened("server")
        /\ UNCHANGED listening

\* There is no connection, and no listener for a SYN.
NoConnection(e, g) ==
    /\ Arrives(e, g)
    /\ ~Connected(e)
    /\ ~(e = "server" /\ listening /\ "SYN" \in g.flags /\ g.flags \cap {"RST", "ACK"} = {})
    /\ Becomes(e, conn[e], ResetReply(e, g))
    /\ UNCHANGED <<listening, sent, received>>

Quiet == UNCHANGED <<listening, sent, received>>
BadAck(e, g) == "ACK" \in g.flags /\ g.ack # conn[e].snd_nxt

SynSentReply(e, g) ==
    LET c == conn[e]
        d == [c EXCEPT !.rcv_nxt = Add(g.seq, 1), !.snd_una = g.ack, !.flight = {}, !.deadline = FALSE,
                       !.wnd = g.win, !.snd_wl1 = g.seq, !.snd_wl2 = g.ack, !.state = "ESTABLISHED"]
    IN  /\ Arrives(e, g)
        /\ c.state = "SYN_SENT"
        /\ \/ BadAck(e, g) /\ Becomes(e, c, ResetReply(e, g))
           \/ ~BadAck(e, g) /\ {"RST", "ACK"} \subseteq g.flags /\ Becomes(e, Fail(c, "refused"), {})
           \/ /\ ~BadAck(e, g) /\ "RST" \notin g.flags /\ {"SYN", "ACK"} \subseteq g.flags
              /\ Becomes(e, d, {Ack(e, d)})
        /\ Quiet

\* The client's SYN again: the SYN and ACK are sent again.
Repeated(e, g) ==
    conn[e].state = "SYN_RECEIVED" /\ "SYN" \in g.flags /\ Add(g.seq, 1) = conn[e].rcv_nxt

SynAgain(e, g) ==
    /\ Arrives(e, g)
    /\ Repeated(e, g)
    /\ Becomes(e, conn[e], {Flight(e, conn[e])})
    /\ Quiet

TimeWaitInput(e, g) ==
    LET c == conn[e]
    IN  /\ Arrives(e, g)
        /\ c.state = "TIME_WAIT"
        /\ "RST" \notin g.flags
        /\ Becomes(e, IF "FIN" \in g.flags /\ Add(g.seq, Len(g.data) + 1) = c.rcv_nxt
                      THEN TimeWait(c) ELSE c,
                   {Ack(e, c)})
        /\ Quiet

\* The states in which the sequence number is looked at.
Synchronized(e, g) ==
    Connected(e) /\ conn[e].state \notin {"SYN_SENT", "TIME_WAIT"} /\ ~Repeated(e, g)

\* Not the next byte: answered with an ACK, a reset only when it lies in the window.
OutOfOrder(e, g) ==
    LET c == conn[e]
        inWindow == ~Before(g.seq, c.rcv_nxt) /\ Before(g.seq, Add(c.rcv_nxt, Window(c)))
    IN  /\ Arrives(e, g)
        /\ Synchronized(e, g)
        /\ g.seq # c.rcv_nxt
        /\ "RST" \in g.flags => inWindow
        /\ Becomes(e, c, {Ack(e, c)})
        /\ Quiet

InOrder(e, g) == Arrives(e, g) /\ Synchronized(e, g) /\ g.seq = conn[e].rcv_nxt

ResetInput(e, g) ==
    /\ InOrder(e, g)
    /\ "RST" \in g.flags
    /\ Becomes(e, Fail(conn[e], "reset"), {})
    /\ Quiet

\* A SYN, no room for what it carries, or an ACK of what was not sent: only an ACK is sent.
Unacceptable(e, g) ==
    LET c == conn[e]
    IN  \/ "SYN" \in g.flags
        \/ (g.data # <<>> \/ "FIN" \in g.flags) /\ Len(c.rx) = BufferSize
        \/ "ACK" \in g.flags /\ Before(c.snd_nxt, g.ack)

RefusedInput(e, g) ==
    /\ InOrder(e, g)
    /\ "RST" \notin g.flags
    /\ Unacceptable(e, g)
    /\ Becomes(e, conn[e], {Ack(e, conn[e])})
    /\ Quiet

Acceptable(e, g) ==
    InOrder(e, g) /\ "RST" \notin g.flags /\ ~Unacceptable(e, g) /\ "ACK" \in g.flags

\* A mutant: any ACK completes the handshake.
AnyAnswer(e, g) == TRUE
AnswersSyn(e, g) == conn[e].state = "SYN_RECEIVED" => g.ack = conn[e].snd_nxt

\* The ACK of another incarnation's SYN
SynReceivedBadAck(e, g) ==
    /\ Acceptable(e, g)
    /\ ~AnswersSyn(e, g)
    /\ Becomes(e, conn[e], ResetReply(e, g))
    /\ Quiet

AcceptedInput(e, g) ==
    LET c == conn[e]
        shaken == IF c.state = "SYN_RECEIVED" THEN [c EXCEPT !.state = "ESTABLISHED", !.expires = TRUE]
                                              ELSE c
        acked == Acknowledge(shaken, g.ack)
        data == TakeData(TakeWindow(acked, g), g)
        whole == acked.fin \/ Taken(acked, g) = Len(g.data)
        done == IF whole /\ ~data.fin /\ "FIN" \in g.flags /\ Len(data.rx) < BufferSize
                THEN TakeFin(data) ELSE data
        acks == IF g.data # <<>> \/ "FIN" \in g.flags THEN {Ack(e, done)} ELSE {}
    IN  /\ Acceptable(e, g)
        /\ AnswersSyn(e, g)
        /\ IF acked.state = "CLOSED"
           THEN Becomes(e, acked, {})
           ELSE \E routed \in {TRUE, ~RouteFails} :
                   LET k == Kick(e, done, routed) IN Becomes(e, k.entry, acks \cup k.out)
        /\ Quiet

-----------------------------------------------------------------------------
(* tcp_tick at end e: what an armed timer does when it fires.              *)

Expire(e) ==
    LET c == conn[e]
    IN  /\ c.expires
        /\ Becomes(e, Fail(c, IF c.state = "TIME_WAIT" THEN "none" ELSE "timeout"), {})
        /\ Quiet

GiveUp(e) ==
    /\ conn[e].deadline
    /\ conn[e].retries = MaxRetries
    /\ Becomes(e, Fail(conn[e], "timeout"), {})
    /\ Quiet

Retransmit(e) ==
    LET c == conn[e]
    IN  /\ c.deadline /\ c.retries < MaxRetries
        /\ c.flight # {}
        /\ Becomes(e, [c EXCEPT !.retries = @ + 1], {Flight(e, c)})
        /\ Quiet

\* The last branch, which would disarm the timer, is never taken (NoStall).
Probe(e) ==
    LET c == conn[e]
        probe == Segment(e, Add(c.snd_nxt, SeqMod - 1), c.rcv_nxt, {"ACK"}, Window(c), <<>>)
    IN  /\ c.deadline /\ c.retries < MaxRetries
        /\ c.flight = {}
        /\ IF Wants(c) /\ c.wnd = 0
           THEN Becomes(e, [c EXCEPT !.retries = @ + 1], {probe})
           ELSE Becomes(e, [c EXCEPT !.deadline = FALSE], {})
        /\ Quiet

-----------------------------------------------------------------------------
Input(e, g) ==
    \/ NoConnection(e, g) \/ SynSentReply(e, g) \/ SynAgain(e, g) \/ TimeWaitInput(e, g)
    \/ OutOfOrder(e, g) \/ ResetInput(e, g) \/ RefusedInput(e, g)
    \/ SynReceivedBadAck(e, g) \/ AcceptedInput(e, g)

Tick(e) == Expire(e) \/ GiveUp(e) \/ Retransmit(e) \/ Probe(e)

Calls ==
    \/ Connect \/ Accept \/ CloseListener
    \/ \E e \in Ends : Close(e) \/ (\E n \in 1..BufferSize : Send(e, n) \/ Recv(e, n))

Next ==
    \/ Calls
    \/ \E g \in net : PassiveOpen(g) \/ (\E e \in Ends : Input(e, g))
    \/ \E e \in Ends : Tick(e)

Spec == Init /\ [][Next]_vars

\* tcp_tick is called as long as the runtime runs; the network owes nothing.
FairSpec == Spec /\ \A e \in Ends : WF_vars(Tick(e))

-----------------------------------------------------------------------------
\* Types; the retry counter stays within its bound and sequence numbers wrap.
TypeOK ==
    /\ conn \in [Ends -> Entries]
    /\ listening \in BOOLEAN
    /\ net \subseteq Segments
    /\ sent \in [Ends -> Seq(Nat)]
    /\ received \in [Ends -> Seq(Seq(Bytes))]

\* The bytes that reached end e in this incarnation, in order.
Stream(e) == IF sent[e] = <<>> THEN <<>> ELSE received[e][Incarnation(e)] \o conn[e].rx

\* What arrives is a prefix of what one incarnation of the peer has sent: no byte is lost,
\* repeated, reordered or taken from another incarnation, whatever the network does.  End of
\* file is only seen after everything: when e has taken the peer's FIN, it has all the bytes
\* that the peer's application sent in the incarnation that closed.  And the bytes of one
\* incarnation are given to one connection of the peer: a delayed or repeated SYN does not
\* make the server accept the same connection, and take its bytes, twice.
StreamTrue ==
    /\ TypeOK
    /\ \A e \in Ends : Stream(e) # <<>> =>
           \E k \in DOMAIN sent[Peer(e)] :
               /\ Len(Stream(e)) <= sent[Peer(e)][k]
               /\ Stream(e) = [i \in 1..Len(Stream(e)) |-> <<k, i>>]
    /\ \A e \in Ends : conn[e].fin =>
           \E k \in DOMAIN sent[Peer(e)] : Len(Stream(e)) = sent[Peer(e)][k]
    /\ \A e \in Ends : \A k \in DOMAIN sent[Peer(e)] :
           Cardinality({j \in DOMAIN received[e] :
                           received[e][j] # <<>> /\ Head(received[e][j])[1] = k}) <= 1

\* snd_nxt is snd_una and the flight, and the flight is the front of the send buffer: the
\* subtractions of acknowledge never go below zero.
FlightCovers ==
    \A e \in Ends : LET c == conn[e] IN
        /\ c.flight_len <= Len(c.tx)
        /\ c.flight = {} => c.flight_len = 0
        /\ c.snd_nxt = Add(c.snd_una, c.flight_len
                              + (IF c.flight \cap {"SYN", "FIN"} # {} THEN 1 ELSE 0))

\* A connection that has something to send or to close is never left alone: a flight is
\* under way, or the window is closed and a timer will probe it.  A timer
\* without a flight watches a closed window, so tcp_tick never disarms one.
NoStall ==
    \A e \in Ends : LET c == conn[e] IN
        /\ Idle(c) /\ Wants(c) => c.wnd = 0 /\ c.deadline
        /\ c.flight # {} => c.deadline
        /\ c.deadline /\ c.flight = {} => Wants(c) /\ c.wnd = 0

\* The slot of a connection that its application has closed, or that was never accepted,
\* becomes free (or is accepted) in the end, even if the network delivers nothing more.
SlotsComeBack ==
    \A e \in Ends : (conn[e].allocated /\ ~conn[e].open) ~> (~conn[e].allocated \/ conn[e].open)
=============================================================================
