------------------------ MODULE TcpConnectionProofs ------------------------
(***************************************************************************)
(* Proofs about one TCP connection, for every buffer size, segment size,   *)
(* number of retries, modulus of the sequence numbers and choice of        *)
(* initial ones, and whatever the network loses, delays, repeats or        *)
(* reorders: every variable has its type, what is unacknowledged is the    *)
(* front of the send buffer, and nothing that waits to be sent is left     *)
(* without a flight or a timer.                                            *)
(*                                                                         *)
(* A handler is a composition of steps on one entry (acknowledge, the      *)
(* window, the payload, the FIN, tcp_kick).  Sound holds of the entry      *)
(* between the steps of a handler; Watched is what tcp_kick restores at    *)
(* its end.                                                                *)
(***************************************************************************)
EXTENDS TcpConnection, ModularArithmetic

Early == {"CLOSED", "SYN_SENT", "SYN_RECEIVED"}

\* The sequence numbers that the flight takes.
Flying(c) == c.flight_len + ControlLength(c.flight)

Sound(c) ==
    /\ c \in Entries
    /\ Len(c.rx) <= BufferSize /\ Len(c.tx) <= BufferSize
    /\ c.flight_len <= Len(c.tx)
    /\ c.flight = {} => c.flight_len = 0
    /\ c.flight_len > 0 => ControlLength(c.flight) = 0
    /\ c.snd_nxt = Add(c.snd_una, Flying(c))
    /\ c.state \in Early => c.tx = <<>> /\ ~c.closing
    /\ c.state = "CLOSED" => c.rx = <<>>
    /\ c.state \in {"FIN_WAIT_2", "TIME_WAIT"} => c.flight = {}
    /\ c.flight # {} => c.deadline
    /\ c.deadline /\ c.flight = {} => Idle(c) /\ Wants(c)

Watched(c) ==
    /\ Idle(c) /\ Wants(c) => c.wnd = 0 /\ c.deadline
    /\ c.deadline /\ c.flight = {} => c.wnd = 0

TcpInv ==
    /\ TypeOK
    /\ \A e \in Ends :
           /\ Sound(conn[e]) /\ Watched(conn[e])
           /\ Len(received[e]) = Len(sent[e])
           /\ conn[e].state # "CLOSED" => sent[e] # <<>>

-----------------------------------------------------------------------------
(* Sequence numbers. *)

(* Addition of less than the modulus wraps at most once.                   *)
LEMMA AddWraps ==
    ASSUME NEW a \in SeqNumbers, NEW n \in 0 .. SeqMod - 1
    PROVE  /\ Add(a, n) = IF a + n < SeqMod THEN a + n ELSE a + n - SeqMod
           /\ Add(a, n) \in SeqNumbers
  <1>1. SeqMod \in Nat \ {0} /\ a \in 0 .. SeqMod - 1
    BY TcpAssumption DEF SeqNumbers
  <1>2. CASE a + n < SeqMod
    <2>1. (a + n) % SeqMod = a + n
      BY <1>1, <1>2, ModSmall
    <2> QED
      BY <1>1, <1>2, <2>1 DEF Add, SeqNumbers
  <1>3. CASE ~(a + n < SeqMod)
    <2>1. a + n - SeqMod \in 0 .. SeqMod - 1 /\ a + n = SeqMod * 1 + (a + n - SeqMod) /\ 1 \in Int
      BY <1>1, <1>3
    <2>2. (a + n) % SeqMod = a + n - SeqMod
      BY <1>1, <2>1, ModUnique
    <2> QED
      BY <1>1, <1>3, <2>1, <2>2, Zenon DEF Add, SeqNumbers
  <1> QED
    BY <1>2, <1>3, Zenon

(* So does a difference of two sequence numbers.                           *)
LEMMA DifferenceWraps ==
    ASSUME NEW a \in SeqNumbers, NEW b \in SeqNumbers
    PROVE  (a - b) % SeqMod = IF a >= b THEN a - b ELSE a - b + SeqMod
  <1>1. SeqMod \in Nat \ {0} /\ a \in 0 .. SeqMod - 1 /\ b \in 0 .. SeqMod - 1
    BY TcpAssumption DEF SeqNumbers
  <1>2. CASE a >= b
    <2>1. a - b \in 0 .. SeqMod - 1
      BY <1>1, <1>2
    <2> QED
      BY <1>1, <1>2, <2>1, ModSmall, Zenon
  <1>3. CASE ~(a >= b)
    <2>1. PICK d \in Int, q \in Int, r \in 0 .. SeqMod - 1 :
              d = a - b /\ q = -1 /\ r = a - b + SeqMod /\ d = SeqMod * q + r
      BY <1>1, <1>3
    <2>2. d % SeqMod = r
      BY <1>1, <2>1, ModUnique, Zenon
    <2>3. (a - b) % SeqMod = a - b + SeqMod
      BY <2>1, <2>2, Zenon
    <2> QED
      BY <1>3, <2>3, Zenon
  <1> QED
    BY <1>2, <1>3, Zenon

(* acknowledge(): an acknowledgement of something new that is not ahead of *)
(* snd_nxt acknowledges a part of the flight, all of it only when it is    *)
(* snd_nxt.                                                                *)
LEMMA AcknowledgesFlight ==
    ASSUME NEW una \in SeqNumbers, NEW ack \in SeqNumbers, NEW n \in 0 .. BufferSize + 1,
           Before(una, ack), ~Before(Add(una, n), ack)
    PROVE  LET bytes == (ack - una) % SeqMod
           IN  /\ bytes \in 1 .. n /\ Add(una, n) = Add(ack, n - bytes)
               /\ ack = Add(una, n) <=> bytes = n
  <1>1. /\ SeqMod \in Nat /\ BufferSize \in Nat /\ SeqMod > 2 * BufferSize + 2
        /\ una \in 0 .. SeqMod - 1 /\ ack \in 0 .. SeqMod - 1
    BY TcpAssumption, Zenon DEF SeqNumbers
  <1>2. n \in 0 .. SeqMod - 1
    BY <1>1
  <1>3. PICK nxt \in SeqNumbers : nxt = Add(una, n)
    BY <1>2, AddWraps, Zenon
  <1>4. nxt = (IF una + n < SeqMod THEN una + n ELSE una + n - SeqMod) /\ nxt \in 0 .. SeqMod - 1
    BY <1>2, <1>3, AddWraps, Zenon DEF SeqNumbers
  <1>5. PICK b : b = (ack - una) % SeqMod
    BY Zenon
  <1>6. b = (IF ack >= una THEN ack - una ELSE ack - una + SeqMod)
    BY <1>5, DifferenceWraps, Zenon
  <1>7. 2 * (IF una >= ack THEN una - ack ELSE una - ack + SeqMod) >= SeqMod
    BY DifferenceWraps, Zenon DEF Before
  <1>8. ~(2 * (IF nxt >= ack THEN nxt - ack ELSE nxt - ack + SeqMod) >= SeqMod)
    BY <1>3, DifferenceWraps, Zenon DEF Before
  <1>9. b \in 1 .. n /\ (ack = nxt <=> b = n)
    BY <1>1, <1>4, <1>6, <1>7, <1>8
  <1>10. n - b \in 0 .. SeqMod - 1
    BY <1>1, <1>2, <1>6, <1>9
  <1>11. Add(ack, n - b) = IF ack + (n - b) < SeqMod THEN ack + (n - b) ELSE ack + (n - b) - SeqMod
    BY <1>10, AddWraps, Zenon
  <1>12. Add(ack, n - b) = nxt
    <2>1. ack + (n - b) = una + n \/ ack + (n - b) = una + n - SeqMod
      BY <1>1, <1>6, <1>9
    <2>2. ack + (n - b) = nxt \/ ack + (n - b) = nxt + SeqMod \/ ack + (n - b) = nxt - SeqMod
      BY <1>1, <1>4, <2>1
    <2> QED
      BY <1>1, <1>4, <1>9, <1>11, <2>2
  <1> QED
    BY <1>3, <1>5, <1>9, <1>12, Zenon

(* Adding nothing leaves a sequence number as it is.                       *)
LEMMA AddNothing ==
    ASSUME NEW a \in SeqNumbers
    PROVE  Add(a, 0) = a
  BY AddWraps, TcpAssumption DEF SeqNumbers

-----------------------------------------------------------------------------
(* The steps of the handlers, on one entry. *)

(* The control flags take at most one sequence number.                     *)
LEMMA ControlAtMostOne ==
    ASSUME NEW flags
    PROVE  ControlLength(flags) \in {0, 1}
  BY Zenon DEF ControlLength

(* A flight is within the send buffer and the modulus.                     *)
LEMMA FlyingFits ==
    ASSUME NEW c, Sound(c)
    PROVE  Flying(c) \in 0 .. BufferSize + 1 /\ Flying(c) \in 0 .. SeqMod - 1
  <1>1. /\ c.flight_len \in Nat /\ c.tx \in Seq(Bytes) /\ Len(c.tx) <= BufferSize
        /\ c.flight_len <= Len(c.tx)
    BY Zenon DEF Sound, Entries
  <1>2. ControlLength(c.flight) \in {0, 1}
    BY ControlAtMostOne, Zenon
  <1>3. BufferSize \in Nat /\ SeqMod \in Nat /\ SeqMod > 2 * BufferSize + 2 /\ Len(c.tx) \in Nat
    BY <1>1, TcpAssumption
  <1> QED
    BY <1>1, <1>2, <1>3 DEF Flying

-----------------------------------------------------------------------------
(* Sequences: the buffers and the bytes that are in them. *)

(* The length of a sequence and its elements.                              *)
LEMMA LenProperties ==
    ASSUME NEW S, NEW s \in Seq(S)
    PROVE  Len(s) \in Nat /\ DOMAIN s = 1 .. Len(s) /\ \A i \in 1 .. Len(s) : s[i] \in S
  OBVIOUS

(* An element is replaced.                                                 *)
LEMMA ExceptSeq ==
    ASSUME NEW S, NEW s \in Seq(S), NEW i \in 1 .. Len(s), NEW e \in S
    PROVE  [s EXCEPT ![i] = e] \in Seq(S) /\ Len([s EXCEPT ![i] = e]) = Len(s)
  OBVIOUS

(* Two sequences are joined.                                               *)
LEMMA ConcatProperties ==
    ASSUME NEW S, NEW s \in Seq(S), NEW t \in Seq(S)
    PROVE  s \o t \in Seq(S) /\ Len(s \o t) = Len(s) + Len(t)
  OBVIOUS

(* An element is added.                                                    *)
LEMMA AppendProperties ==
    ASSUME NEW S, NEW s \in Seq(S), NEW e \in S
    PROVE  Append(s, e) \in Seq(S) /\ Append(s, e) # <<>> /\ Len(Append(s, e)) = Len(s) + 1
  <1>1. Append(s, e) \in Seq(S)
    OBVIOUS
  <1>2. Len(Append(s, e)) = Len(s) + 1
    OBVIOUS
  <1> QED
    BY <1>1, <1>2, LenProperties

(* A part of a sequence.                                                   *)
LEMMA PartOf ==
    ASSUME NEW S, NEW s \in Seq(S), NEW m \in Nat \ {0}, NEW n \in 0 .. Len(s)
    PROVE  /\ SubSeq(s, m, n) \in Seq(S)
           /\ Len(SubSeq(s, m, n)) = IF m <= n THEN n - m + 1 ELSE 0
  OBVIOUS

-----------------------------------------------------------------------------
(* What a sound entry sends has the type of a segment.                     *)
LEMMA SegmentsTyped ==
    ASSUME NEW c, Sound(c), NEW e \in Ends
    PROVE  Flight(e, c) \in Segments /\ Ack(e, c) \in Segments /\ Window(c) \in Nat
  <1>1. /\ c.snd_una \in SeqNumbers /\ c.snd_nxt \in SeqNumbers /\ c.rcv_nxt \in SeqNumbers
        /\ c.flight \in SUBSET Flags /\ c.flight_len \in Nat
        /\ c.tx \in Seq(Bytes) /\ c.rx \in Seq(Bytes)
        /\ Len(c.rx) <= BufferSize /\ c.flight_len <= Len(c.tx)
    BY Zenon DEF Sound, Entries
  <1>2. Peer(e) \in Ends
    BY Zenon DEF Peer, Ends
  <1>3. Window(c) \in Nat
    BY <1>1, TcpAssumption DEF Window
  <1>4. SubSeq(c.tx, 1, c.flight_len) \in Seq(Bytes)
    BY <1>1, PartOf
  <1>5. {"ACK"} \in SUBSET Flags /\ <<>> \in Seq(Bytes)
    BY DEF Flags
  <1>6. Flight(e, c) \in Segments
    BY <1>1, <1>2, <1>3, <1>4, Zenon DEF Flight, Segment, Segments
  <1>7. Ack(e, c) \in Segments
    BY <1>1, <1>2, <1>3, <1>5, Zenon DEF Ack, Segment, Segments
  <1> QED
    BY <1>3, <1>6, <1>7, Zenon

(* start_flight()                                                          *)
LEMMA StartFlightSound ==
    ASSUME NEW c \in Entries, Len(c.rx) <= BufferSize, Len(c.tx) <= BufferSize,
           NEW flags \in SUBSET Flags, flags # {}, NEW length \in 0 .. Len(c.tx),
           length > 0 => ControlLength(flags) = 0,
           c.state \in Early => c.tx = <<>> /\ ~c.closing,
           c.state = "CLOSED" => c.rx = <<>>,
           c.state \notin {"FIN_WAIT_2", "TIME_WAIT"}
    PROVE  /\ Sound(StartFlight(c, flags, length)) /\ Watched(StartFlight(c, flags, length))
           /\ StartFlight(c, flags, length).state = c.state
  <1> DEFINE d == StartFlight(c, flags, length)
             n == length + ControlLength(flags)
  <1>1. c.snd_una \in SeqNumbers /\ c.tx \in Seq(Bytes) /\ length \in Nat
    BY DEF Entries
  <1>2. n \in 0 .. SeqMod - 1
    BY <1>1, ControlAtMostOne, TcpAssumption
  <1>3. PICK nxt \in SeqNumbers : nxt = Add(c.snd_una, n)
    BY <1>1, <1>2, AddWraps, Zenon
  <1>4. d = [c EXCEPT !.flight = flags, !.flight_len = length, !.snd_nxt = nxt,
                      !.deadline = TRUE, !.retries = 0]
    BY <1>3, Zenon DEF StartFlight
  <1>5. 0 \in 0 .. MaxRetries
    BY TcpAssumption
  <1> HIDE DEF d, n
  <1>6. d \in Entries
    BY <1>1, <1>4, <1>5, Zenon DEF Entries
  <1>7. /\ d.flight = flags /\ d.flight_len = length /\ d.snd_nxt = nxt /\ d.deadline = TRUE
        /\ d.snd_una = c.snd_una /\ d.rx = c.rx /\ d.tx = c.tx /\ d.state = c.state
        /\ d.closing = c.closing
    BY <1>4, Zenon DEF Entries
  <1>8. d.snd_nxt = Add(d.snd_una, Flying(d))
    BY <1>3, <1>7, Zenon DEF Flying, n
  <1>9. Sound(d)
    BY <1>1, <1>6, <1>7, <1>8 DEF Sound
  <1>10. Watched(d)
    BY <1>7, Zenon DEF Watched, Idle
  <1> QED
    BY <1>7, <1>9, <1>10, Zenon DEF d

(* tcp_fail(), and an entry that is free.                                  *)
LEMMA FailSound ==
    ASSUME NEW c, NEW error \in Errors
    PROVE  /\ Sound(Fail(c, error)) /\ Watched(Fail(c, error)) /\ Fail(c, error).state = "CLOSED"
           /\ Sound(Free) /\ Watched(Free)
           /\ Sound([Free EXCEPT !.allocated = TRUE, !.open = TRUE])
           /\ Watched([Free EXCEPT !.allocated = TRUE, !.open = TRUE])
  <1>1. /\ 0 \in SeqNumbers /\ 0 \in 0 .. MaxRetries /\ 0 \in Nat /\ <<>> \in Seq(Bytes)
        /\ Len(<<>>) = 0 /\ BufferSize \in Nat
    BY TcpAssumption DEF SeqNumbers
  <1>2. Add(0, 0) = 0
    BY <1>1, AddNothing, Zenon
  <1> DEFINE Zero(d) ==
               /\ d \in Entries /\ d.rx = <<>> /\ d.tx = <<>> /\ d.flight = {} /\ d.flight_len = 0
               /\ d.snd_una = 0 /\ d.snd_nxt = 0 /\ d.state = "CLOSED" /\ d.closing = FALSE
               /\ d.deadline = FALSE
  <1>3. ASSUME NEW d, Zero(d) PROVE Sound(d) /\ Watched(d)
    <2>1. Flying(d) = 0
      BY <1>3 DEF Flying, ControlLength
    <2> QED
      BY <1>1, <1>2, <1>3, <2>1 DEF Sound, Watched, Idle, Wants
  <1>4. Zero(Free)
    BY <1>1, Zenon DEF Free, Entries, Errors, States
  <1>5. Zero([Free EXCEPT !.allocated = TRUE, !.open = TRUE])
    BY <1>1, Zenon DEF Free, Entries, Errors, States
  <1>6. Zero([Free EXCEPT !.allocated = TRUE, !.open = TRUE, !.error = error])
    BY <1>1, Zenon DEF Free, Entries, Errors, States
  <1>7. Zero(Fail(c, error))
    BY <1>4, <1>6, Zenon DEF Fail
  <1> QED
    BY <1>3, <1>4, <1>5, <1>7, Zenon

(* tcp_time_wait(), of an entry without a flight.                          *)
LEMMA TimeWaitSound ==
    ASSUME NEW c, Sound(c), c.flight = {}
    PROVE  /\ Sound(TimeWait(c)) /\ Watched(TimeWait(c)) /\ TimeWait(c).state = "TIME_WAIT"
           /\ TimeWait(c).rx = c.rx /\ TimeWait(c).fin = c.fin
  <1>1. PICK d : d = TimeWait(c)
    BY Zenon
  <1>2. c \in Entries
    BY Zenon DEF Sound
  <1>3. d \in Entries
    BY <1>1, <1>2, Zenon DEF TimeWait, Entries, States
  <1>4. /\ d.flight = {} /\ d.flight_len = c.flight_len /\ d.snd_nxt = c.snd_nxt /\ d.deadline = FALSE
        /\ d.snd_una = c.snd_una /\ d.rx = c.rx /\ d.tx = c.tx /\ d.state = "TIME_WAIT"
        /\ d.closing = c.closing /\ d.fin = c.fin
    BY <1>1, <1>2, Zenon DEF TimeWait, Entries
  <1>5. Flying(d) = Flying(c)
    BY <1>4, Zenon DEF Flying
  <1>6. Sound(d)
    BY <1>3, <1>4, <1>5, Zenon DEF Sound, Early
  <1>7. Watched(d)
    BY <1>4, Zenon DEF Watched, Idle
  <1> QED
    BY <1>1, <1>4, <1>6, <1>7, Zenon

(* The persist timer of a closed window.                                   *)
LEMMA PersistSound ==
    ASSUME NEW c, Sound(c), Idle(c), Wants(c), c.wnd = 0
    PROVE  Sound(Persist(c)) /\ Watched(Persist(c)) /\ Persist(c).state = c.state
  <1>1. PICK d : d = Persist(c)
    BY Zenon
  <1>2. c \in Entries /\ 0 \in 0 .. MaxRetries
    BY TcpAssumption DEF Sound
  <1>3. d \in Entries
    BY <1>1, <1>2, Zenon DEF Persist, Entries
  <1>4. /\ d.flight = c.flight /\ d.flight_len = c.flight_len /\ d.snd_nxt = c.snd_nxt /\ d.deadline = TRUE
        /\ d.snd_una = c.snd_una /\ d.rx = c.rx /\ d.tx = c.tx /\ d.state = c.state
        /\ d.closing = c.closing /\ d.wnd = c.wnd
    BY <1>1, <1>2, Zenon DEF Persist, Entries
  <1>5. Flying(d) = Flying(c) /\ Idle(d) /\ Wants(d)
    BY <1>4, Zenon DEF Flying, Idle, Wants
  <1>6. Sound(d)
    BY <1>3, <1>4, <1>5, Zenon DEF Sound
  <1>7. Watched(d)
    BY <1>4, Zenon DEF Watched
  <1> QED
    BY <1>1, <1>4, <1>6, <1>7, Zenon

(* tcp_kick() leaves an entry that is watched.                             *)
LEMMA KickSound ==
    ASSUME NEW e \in Ends, NEW c, Sound(c), NEW routed \in BOOLEAN
    PROVE  /\ Sound(Kick(e, c, routed).entry) /\ Watched(Kick(e, c, routed).entry)
           /\ Kick(e, c, routed).out \subseteq Segments
           /\ c.state = "CLOSED" => Kick(e, c, routed).entry.state = "CLOSED"
  <1> DEFINE length == Least(Len(c.tx), Least(c.wnd, Mss))
             data == StartFlight(c, {"ACK", "PSH"}, length)
             moved == [c EXCEPT !.state = IF @ = "CLOSE_WAIT" THEN "LAST_ACK" ELSE "FIN_WAIT_1"]
             last == StartFlight(moved, {"FIN", "ACK"}, 0)
             r == Kick(e, c, routed)
  <1>1. /\ c \in Entries /\ c.wnd \in Nat /\ c.tx \in Seq(Bytes) /\ Mss \in Nat \ {0}
        /\ Len(c.rx) <= BufferSize /\ Len(c.tx) <= BufferSize
    BY TcpAssumption, Zenon DEF Sound, Entries
  <1>2. CASE ~Idle(c) \/ ~Wants(c)
    <2>1. r = [entry |-> c, out |-> {}]
      BY <1>2, Zenon DEF Kick, DataFirst, Wants
    <2>2. Watched(c)
      BY <1>2, Zenon DEF Sound, Watched
    <2> QED
      BY <2>1, <2>2
  <1>3. CASE Idle(c) /\ Wants(c) /\ c.wnd = 0
    <2>1. r = [entry |-> Persist(c), out |-> {}]
      BY <1>3 DEF Kick
    <2> QED
      BY <1>3, <2>1, PersistSound
  <1>4. CASE Idle(c) /\ DataFirst(c) /\ c.wnd > 0
    <2>1. Wants(c)
      BY <1>4, Zenon DEF Wants, DataFirst
    <2>2. r = IF routed THEN [entry |-> data, out |-> {Flight(e, data)}]
                        ELSE [entry |-> Fail(c, "noroute"), out |-> {}]
      BY <1>1, <1>4, <2>1 DEF Kick
    <2>3. length \in 0 .. Len(c.tx)
      BY <1>1 DEF Least
    <2>4. {"ACK", "PSH"} \in SUBSET Flags /\ ControlLength({"ACK", "PSH"}) = 0
      BY Zenon DEF Flags, ControlLength
    <2>5. c.state \notin Early /\ c.state \notin {"FIN_WAIT_2", "TIME_WAIT"} /\ c.state # "CLOSED"
      BY <1>4, Zenon DEF Idle, Early
    <2> HIDE DEF length
    <2>6. Sound(data) /\ Watched(data)
      BY <1>1, <2>3, <2>4, <2>5, StartFlightSound, Zenon
    <2> HIDE DEF data
    <2>7. Flight(e, data) \in Segments
      BY <2>6, SegmentsTyped, Zenon
    <2>8. "noroute" \in Errors
      BY Zenon DEF Errors
    <2>9. Sound(Fail(c, "noroute")) /\ Watched(Fail(c, "noroute"))
      BY <2>8, FailSound, Zenon
    <2> HIDE DEF r
    <2>10. Sound(r.entry) /\ Watched(r.entry) /\ r.out \subseteq Segments
      BY <2>2, <2>6, <2>7, <2>9, Zenon
    <2> QED
      BY <2>5, <2>10, Zenon DEF r
  <1>5. CASE Idle(c) /\ Wants(c) /\ ~DataFirst(c) /\ c.wnd > 0
    <2>1. r = [entry |-> last, out |-> {Flight(e, last)}]
      BY <1>1, <1>5 DEF Kick
    <2>2. /\ moved \in Entries /\ moved.rx = c.rx /\ moved.tx = c.tx
          /\ moved.state \in {"LAST_ACK", "FIN_WAIT_1"}
      BY <1>1, Zenon DEF Entries, States
    <2>3. {"FIN", "ACK"} \in SUBSET Flags /\ {"FIN", "ACK"} # {} /\ 0 \in 0 .. Len(c.tx)
      BY <1>1 DEF Flags
    <2>4. moved.state \notin Early /\ moved.state \notin {"FIN_WAIT_2", "TIME_WAIT"} /\ moved.state # "CLOSED"
      BY <2>2, Zenon DEF Early
    <2> HIDE DEF moved
    <2>5. Sound(last) /\ Watched(last)
      <3>1. PICK flags \in SUBSET Flags : flags = {"FIN", "ACK"} /\ flags # {}
        BY <2>3, Zenon
      <3>2. Len(moved.rx) <= BufferSize /\ Len(moved.tx) <= BufferSize /\ 0 \in 0 .. Len(moved.tx) /\ ~(0 > 0)
        BY <1>1, <2>2, <2>3
      <3>3. Sound(StartFlight(moved, flags, 0)) /\ Watched(StartFlight(moved, flags, 0))
        BY <2>2, <2>4, <3>1, <3>2, StartFlightSound, Zenon
      <3> QED
        BY <3>1, <3>3, Zenon
    <2> HIDE DEF last
    <2>6. Flight(e, last) \in Segments
      BY <2>5, SegmentsTyped, Zenon
    <2>7. c.state # "CLOSED"
      BY <1>5, Zenon DEF Idle
    <2> QED
      BY <2>1, <2>5, <2>6, <2>7
  <1>6. c.wnd = 0 \/ c.wnd > 0
    BY <1>1
  <1>7. \/ ~Idle(c) \/ ~Wants(c)
        \/ Idle(c) /\ Wants(c) /\ c.wnd = 0
        \/ Idle(c) /\ DataFirst(c) /\ c.wnd > 0
        \/ Idle(c) /\ Wants(c) /\ ~DataFirst(c) /\ c.wnd > 0
    BY <1>6, Zenon
  <1> HIDE DEF r
  <1> QED
    BY <1>2, <1>3, <1>4, <1>5, <1>7, Zenon DEF r

(* acknowledge(): what is acknowledged leaves the front of the send buffer *)
(* and of the flight, and the flight ends with its last byte.              *)
LEMMA AcknowledgeSound ==
    ASSUME NEW c, Sound(c), c.state \notin Early, NEW ack \in SeqNumbers, ~Before(c.snd_nxt, ack)
    PROVE  /\ Sound(Acknowledge(c, ack))
           /\ Acknowledge(c, ack).state \in Early => Acknowledge(c, ack).state = "CLOSED"
  <1> DEFINE bytes == (ack - c.snd_una) % SeqMod
             tx == IF c.flight_len > 0 THEN SubSeq(c.tx, bytes + 1, Len(c.tx)) ELSE c.tx
             left == IF c.flight_len > 0 THEN c.flight_len - bytes ELSE c.flight_len
             some == [c EXCEPT !.snd_una = ack, !.deadline = TRUE, !.tx = tx, !.flight_len = left]
             all == [some EXCEPT !.flight = {}, !.deadline = FALSE, !.retries = 0]
  <1>1. /\ c \in Entries /\ c.tx \in Seq(Bytes) /\ c.flight_len \in Nat /\ c.snd_una \in SeqNumbers
        /\ Len(c.tx) <= BufferSize /\ c.flight_len <= Len(c.tx) /\ c.snd_nxt \in SeqNumbers
        /\ c.flight = {} => c.flight_len = 0
        /\ c.flight_len > 0 => ControlLength(c.flight) = 0
        /\ c.snd_nxt = Add(c.snd_una, Flying(c))
    BY Zenon DEF Sound, Entries
  <1>2. CASE ~Before(c.snd_una, ack)
    <2>1. Acknowledge(c, ack) = c
      BY <1>2, Zenon DEF Acknowledge
    <2> QED
      BY <2>1, Zenon
  <1>3. CASE Before(c.snd_una, ack)
    <2>1. PICK n : n = Flying(c)
      BY Zenon
    <2>2. n \in 0 .. BufferSize + 1 /\ n = c.flight_len + ControlLength(c.flight)
      BY <2>1, FlyingFits, Zenon DEF Flying
    <2>3. /\ bytes \in 1 .. n /\ c.snd_nxt = Add(ack, n - bytes)
          /\ ack = c.snd_nxt <=> bytes = n
      BY <1>1, <1>3, <2>1, <2>2, AcknowledgesFlight
    <2> HIDE DEF bytes
    <2>4. ControlLength(c.flight) \in {0, 1}
      BY ControlAtMostOne, Zenon
    <2>5. c.flight # {}
      <3>1. c.flight = {} => ControlLength(c.flight) = 0
        BY Zenon DEF ControlLength
      <3> QED
        BY <1>1, <2>2, <2>3, <3>1
    <2>6. /\ tx \in Seq(Bytes) /\ Len(tx) <= BufferSize /\ left \in Nat /\ left <= Len(tx)
      <3>1. CASE c.flight_len > 0
        <4>1. bytes + 1 \in Nat \ {0} /\ Len(c.tx) \in 0 .. Len(c.tx) /\ bytes <= c.flight_len
          BY <1>1, <2>2, <2>3, <3>1
        <4>2. /\ SubSeq(c.tx, bytes + 1, Len(c.tx)) \in Seq(Bytes)
              /\ Len(SubSeq(c.tx, bytes + 1, Len(c.tx)))
                     = IF bytes + 1 <= Len(c.tx) THEN Len(c.tx) - (bytes + 1) + 1 ELSE 0
          BY <1>1, <4>1, PartOf
        <4>3. tx = SubSeq(c.tx, bytes + 1, Len(c.tx)) /\ left = c.flight_len - bytes
          BY <3>1, Zenon
        <4> HIDE DEF tx, left
        <4>4. bytes \in Nat
          BY <2>2, <2>3, TcpAssumption
        <4>5. PICK t \in Nat : t = Len(c.tx)
          BY <1>1
        <4>6. bytes + 1 <= t \/ bytes = t
          BY <1>1, <4>1, <4>4, <4>5
        <4>7. (IF bytes + 1 <= t THEN t - (bytes + 1) + 1 ELSE 0) = t - bytes
          BY <4>4, <4>6
        <4>8. Len(tx) = t - bytes
          BY <4>2, <4>3, <4>5, <4>7, Zenon
        <4> QED
          <5>1. tx \in Seq(Bytes)
            BY <4>2, <4>3, Zenon
          <5>2. t <= BufferSize /\ c.flight_len <= t /\ c.flight_len \in Nat /\ BufferSize \in Nat
            BY <1>1, <4>5, TcpAssumption, Zenon
          <5>3. left = c.flight_len - bytes /\ bytes <= c.flight_len
            BY <4>1, <4>3, Zenon
          <5> QED
            BY <4>4, <4>8, <5>1, <5>2, <5>3
      <3>2. CASE ~(c.flight_len > 0)
        BY <1>1, <3>2, Zenon
      <3> QED
        BY <3>1, <3>2, Zenon
    <2>7. ack = c.snd_nxt => left = 0
      BY <1>1, <2>2, <2>3
    <2>8. ack # c.snd_nxt => left + ControlLength(c.flight) = n - bytes /\ left > 0
      BY <1>1, <2>2, <2>3, <2>4
    <2> HIDE DEF tx, left
    <2>9. /\ some \in Entries /\ some.snd_una = ack /\ some.snd_nxt = c.snd_nxt /\ some.tx = tx
          /\ some.flight_len = left /\ some.flight = c.flight /\ some.deadline = TRUE
          /\ some.state = c.state /\ some.rx = c.rx /\ some.fin = c.fin
      BY <1>1, <2>6, Zenon DEF Entries
    <2>10. /\ all \in Entries /\ all.snd_una = ack /\ all.snd_nxt = c.snd_nxt /\ all.tx = tx
           /\ all.flight_len = left /\ all.flight = {} /\ all.deadline = FALSE
           /\ all.state = c.state /\ all.rx = c.rx /\ all.fin = c.fin
      <3>1. 0 \in 0 .. MaxRetries
        BY TcpAssumption
      <3> HIDE DEF some
      <3> QED
        BY <2>9, <3>1, Zenon DEF Entries
    <2>11. Acknowledge(c, ack) =
               IF ack # c.snd_nxt THEN some
               ELSE IF "FIN" \notin c.flight THEN all
               ELSE IF c.state = "LAST_ACK" THEN Fail(all, "none")
               ELSE IF c.fin THEN TimeWait(all)
               ELSE [all EXCEPT !.state = "FIN_WAIT_2", !.expires = TRUE]
      BY <1>3, Zenon DEF Acknowledge, bytes, tx, left
    <2> HIDE DEF some, all
    <2>12. c.state \notin {"FIN_WAIT_2", "TIME_WAIT"} /\ c.state # "CLOSED" /\ Len(c.rx) <= BufferSize
      BY <2>5, Zenon DEF Sound, Early
    <2>13. CASE ack # c.snd_nxt
      <3>1. some.snd_nxt = Add(some.snd_una, Flying(some))
        BY <2>3, <2>8, <2>9, <2>13, Zenon DEF Flying
      <3>2. some.flight_len > 0 => ControlLength(some.flight) = 0
        BY <1>1, <2>2, <2>3, <2>4, <2>8, <2>9, <2>13
      <3>3. Sound(some)
        BY <2>5, <2>6, <2>8, <2>9, <2>12, <2>13, <3>1, <3>2, Zenon DEF Sound
      <3> QED
        BY <2>9, <2>11, <2>13, <3>3, Zenon
    <2>14. CASE ack = c.snd_nxt
      <3>1. Flying(all) = 0
        BY <2>7, <2>10, <2>14 DEF Flying, ControlLength
      <3>2. all.snd_nxt = Add(all.snd_una, Flying(all))
        BY <2>10, <2>14, <3>1, AddNothing, Zenon
      <3>3. Sound(all)
        BY <2>6, <2>7, <2>10, <2>12, <2>14, <3>2 DEF Sound
      <3>4. CASE "FIN" \notin c.flight
        BY <2>10, <2>11, <2>14, <3>3, <3>4, Zenon
      <3>5. CASE "FIN" \in c.flight /\ c.state = "LAST_ACK"
        <4>1. "none" \in Errors
          BY Zenon DEF Errors
        <4> QED
          BY <2>11, <2>14, <3>5, <4>1, FailSound, Zenon
      <3>6. CASE "FIN" \in c.flight /\ c.state # "LAST_ACK" /\ c.fin
        BY <2>10, <2>11, <2>14, <3>3, <3>6, TimeWaitSound, Zenon DEF Early
      <3>7. CASE "FIN" \in c.flight /\ c.state # "LAST_ACK" /\ ~c.fin
        <4>1. PICK d : d = [all EXCEPT !.state = "FIN_WAIT_2", !.expires = TRUE]
          BY Zenon
        <4>2. /\ d \in Entries /\ d.snd_una = all.snd_una /\ d.snd_nxt = all.snd_nxt /\ d.tx = all.tx
              /\ d.flight_len = all.flight_len /\ d.flight = all.flight /\ d.deadline = all.deadline
              /\ d.state = "FIN_WAIT_2" /\ d.rx = all.rx
          BY <2>10, <4>1, Zenon DEF Entries, States
        <4>3. Flying(d) = Flying(all)
          BY <4>2, Zenon DEF Flying
        <4>4. Sound(d)
          BY <2>10, <3>3, <4>2, <4>3, Zenon DEF Sound, Early
        <4> QED
          BY <2>11, <2>14, <3>7, <4>1, <4>2, <4>4, Zenon DEF Early
      <3> QED
        BY <3>4, <3>5, <3>6, <3>7, Zenon
    <2> QED
      BY <2>13, <2>14, Zenon
  <1> QED
    BY <1>2, <1>3, Zenon

(* The window of an acceptable segment.                                    *)
LEMMA TakeWindowSound ==
    ASSUME NEW c, Sound(c), NEW g \in Segments
    PROVE  /\ Sound(TakeWindow(c, g)) /\ TakeWindow(c, g).state = c.state
           /\ TakeWindow(c, g).fin = c.fin /\ TakeWindow(c, g).rx = c.rx
  <1>1. CASE TakeWindow(c, g) = c
    BY <1>1, Zenon
  <1>2. CASE TakeWindow(c, g) # c
    <2>1. PICK d : d = [c EXCEPT !.wnd = g.win, !.snd_wl1 = g.seq, !.snd_wl2 = g.ack]
      BY Zenon
    <2>2. TakeWindow(c, g) = d
      BY <1>2, <2>1, Zenon DEF TakeWindow
    <2>3. c \in Entries /\ g.win \in Nat /\ g.seq \in SeqNumbers /\ g.ack \in SeqNumbers
      BY Zenon DEF Sound, Segments
    <2>4. /\ d \in Entries /\ d.snd_una = c.snd_una /\ d.snd_nxt = c.snd_nxt /\ d.tx = c.tx
          /\ d.flight_len = c.flight_len /\ d.flight = c.flight /\ d.deadline = c.deadline
          /\ d.state = c.state /\ d.rx = c.rx /\ d.fin = c.fin /\ d.closing = c.closing
      BY <2>1, <2>3, Zenon DEF Entries
    <2>5. Flying(d) = Flying(c) /\ (Idle(d) <=> Idle(c)) /\ (Wants(d) <=> Wants(c))
      BY <2>4, Zenon DEF Flying, Idle, Wants
    <2>6. Sound(d)
      BY <2>4, <2>5, Zenon DEF Sound
    <2> QED
      BY <2>2, <2>4, <2>6, Zenon
  <1> QED
    BY <1>1, <1>2, Zenon

(* The payload: no more than there is room for.                            *)
LEMMA TakeDataSound ==
    ASSUME NEW c, Sound(c), c.state # "CLOSED", NEW g \in Segments
    PROVE  Sound(TakeData(c, g)) /\ TakeData(c, g).state = c.state
  <1>1. PICK d : d = TakeData(c, g)
    BY Zenon
  <1>2. PICK n : n = Taken(c, g)
    BY Zenon
  <1>3. /\ c \in Entries /\ g.data \in Seq(Bytes) /\ c.rx \in Seq(Bytes) /\ c.rcv_nxt \in SeqNumbers
        /\ Len(c.rx) <= BufferSize /\ BufferSize \in Nat /\ SeqMod \in Nat /\ SeqMod > 2 * BufferSize + 2
    BY TcpAssumption, Zenon DEF Sound, Entries, Segments
  <1>4. n \in Nat /\ n \in 0 .. Len(g.data) /\ n <= BufferSize - Len(c.rx)
    <2>1. PICK room \in Nat : room = BufferSize - Len(c.rx)
      <3>1. Len(c.rx) \in Nat
        BY <1>3, LenProperties, Zenon
      <3>2. BufferSize - Len(c.rx) \in Nat
        BY <1>3, <3>1
      <3> QED
        BY <3>2, Zenon
    <2>2. PICK all \in Nat : all = Len(g.data)
      BY <1>3
    <2>3. n = IF c.fin THEN 0 ELSE IF all <= room THEN all ELSE room
      BY <1>2, <2>1, <2>2, Zenon DEF Taken, Least, Window
    <2>4. n \in 0 .. all /\ n <= room
      BY <2>3
    <2> QED
      BY <2>1, <2>2, <2>4
  <1>5. PICK part \in Seq(Bytes) : part = SubSeq(g.data, 1, n) /\ Len(part) = n
    <2>1. /\ SubSeq(g.data, 1, n) \in Seq(Bytes)
          /\ Len(SubSeq(g.data, 1, n)) = IF 1 <= n THEN n - 1 + 1 ELSE 0
      BY <1>3, <1>4, PartOf
    <2>2. Len(SubSeq(g.data, 1, n)) = n
      BY <1>3, <1>4, <2>1
    <2> QED
      BY <2>1, <2>2, Zenon
  <1>6. PICK rx \in Seq(Bytes) : rx = c.rx \o part /\ Len(rx) = Len(c.rx) + n
    <2>1. /\ c.rx \o part \in Seq(Bytes)
          /\ Len(c.rx \o part) = Len(c.rx) + Len(part)
      BY <1>3, ConcatProperties, Zenon
    <2> QED
      BY <1>5, <2>1, Zenon
  <1>7. Len(rx) <= BufferSize /\ n \in 0 .. SeqMod - 1
    <2>1. PICK r \in Nat : r = Len(c.rx)
      BY <1>3, LenProperties, Zenon
    <2>2. n <= BufferSize - r /\ Len(rx) = r + n
      BY <1>4, <1>6, <2>1, Zenon
    <2> QED
      BY <1>3, <1>4, <2>2
  <1>8. PICK nxt \in SeqNumbers : nxt = Add(c.rcv_nxt, n)
    BY <1>3, <1>7, AddWraps, Zenon
  <1>9. d = [c EXCEPT !.rx = rx, !.rcv_nxt = nxt]
    BY <1>1, <1>2, <1>5, <1>6, <1>8, Zenon DEF TakeData
  <1>10. /\ d \in Entries /\ d.snd_una = c.snd_una /\ d.snd_nxt = c.snd_nxt /\ d.tx = c.tx
         /\ d.flight_len = c.flight_len /\ d.flight = c.flight /\ d.deadline = c.deadline
         /\ d.state = c.state /\ d.rx = rx /\ d.closing = c.closing
    BY <1>3, <1>9, Zenon DEF Entries
  <1>11. Flying(d) = Flying(c) /\ (Idle(d) <=> Idle(c)) /\ (Wants(d) <=> Wants(c))
    BY <1>10, Zenon DEF Flying, Idle, Wants
  <1>12. Sound(d)
    BY <1>7, <1>10, <1>11, Zenon DEF Sound
  <1> QED
    BY <1>1, <1>10, <1>12, Zenon

(* The FIN.                                                                *)
LEMMA TakeFinSound ==
    ASSUME NEW c, Sound(c), c.state # "CLOSED"
    PROVE  Sound(TakeFin(c)) /\ TakeFin(c).state # "CLOSED"
  <1>1. c \in Entries /\ c.rcv_nxt \in SeqNumbers /\ 1 \in 0 .. SeqMod - 1
    BY TcpAssumption DEF Sound, Entries
  <1>2. PICK nxt \in SeqNumbers : nxt = Add(c.rcv_nxt, 1)
    BY <1>1, AddWraps, Zenon
  <1>3. PICK d : d = [c EXCEPT !.fin = TRUE, !.rcv_nxt = nxt]
    BY Zenon
  <1>4. /\ d \in Entries /\ d.snd_una = c.snd_una /\ d.snd_nxt = c.snd_nxt /\ d.tx = c.tx
        /\ d.flight_len = c.flight_len /\ d.flight = c.flight /\ d.deadline = c.deadline
        /\ d.state = c.state /\ d.rx = c.rx /\ d.closing = c.closing
    BY <1>1, <1>3, Zenon DEF Entries
  <1>5. Flying(d) = Flying(c) /\ (Idle(d) <=> Idle(c)) /\ (Wants(d) <=> Wants(c))
    BY <1>4, Zenon DEF Flying, Idle, Wants
  <1>6. Sound(d)
    BY <1>4, <1>5, Zenon DEF Sound
  <1>7. TakeFin(c) = CASE c.state = "ESTABLISHED" -> [d EXCEPT !.state = "CLOSE_WAIT"]
                       [] c.state = "FIN_WAIT_2" -> TimeWait(d)
                       [] OTHER -> d
    BY <1>2, <1>3, Zenon DEF TakeFin
  <1>8. CASE c.state = "ESTABLISHED"
    <2>1. PICK f : f = [d EXCEPT !.state = "CLOSE_WAIT"]
      BY Zenon
    <2>2. /\ f \in Entries /\ f.snd_una = d.snd_una /\ f.snd_nxt = d.snd_nxt /\ f.tx = d.tx
          /\ f.flight_len = d.flight_len /\ f.flight = d.flight /\ f.deadline = d.deadline
          /\ f.state = "CLOSE_WAIT" /\ f.rx = d.rx /\ f.closing = d.closing
      BY <1>4, <2>1, Zenon DEF Entries, States
    <2>3. Flying(f) = Flying(d) /\ (Idle(d) => Idle(f)) /\ (Wants(f) <=> Wants(d))
      BY <2>2, Zenon DEF Flying, Idle, Wants
    <2>4. Sound(f)
      BY <1>6, <2>2, <2>3, Zenon DEF Sound, Early
    <2>5. TakeFin(c) = f
      BY <1>7, <1>8, <2>1, Zenon
    <2> QED
      BY <2>2, <2>4, <2>5, Zenon
  <1>9. CASE c.state = "FIN_WAIT_2"
    <2>1. d.flight = {}
      BY <1>4, <1>9, Zenon DEF Sound
    <2>2. TakeFin(c) = TimeWait(d)
      BY <1>7, <1>9, Zenon
    <2> QED
      BY <1>6, <2>1, <2>2, TimeWaitSound, Zenon
  <1>10. CASE c.state \notin {"ESTABLISHED", "FIN_WAIT_2"}
    <2>1. TakeFin(c) = d
      BY <1>7, <1>10, Zenon
    <2> QED
      BY <1>4, <1>6, <2>1, Zenon
  <1> QED
    BY <1>8, <1>9, <1>10, Zenon

-----------------------------------------------------------------------------
(* The handlers. *)

(* What the invariant says of one end.                                     *)
LEMMA EndInv ==
    ASSUME TcpInv, NEW e \in Ends
    PROVE  /\ Sound(conn[e]) /\ Watched(conn[e]) /\ conn[e] \in Entries
           /\ conn[e].state # "CLOSED" => sent[e] # <<>>
           /\ sent[e] \in Seq(Nat) /\ received[e] \in Seq(Seq(Bytes))
           /\ Len(received[e]) = Len(sent[e])
  BY Zenon DEF TcpInv, TypeOK

(* A handler that leaves a sound and watched entry and sends segments      *)
(* keeps the invariant, unless it opens a connection.                      *)
LEMMA HistoryKeeps ==
    ASSUME TcpInv, NEW e \in Ends, NEW c, Sound(c), Watched(c),
           c.state # "CLOSED" => conn[e].state # "CLOSED",
           NEW out, out \subseteq Segments, Becomes(e, c, out), listening' \in BOOLEAN,
           sent' \in [Ends -> Seq(Nat)], received' \in [Ends -> Seq(Seq(Bytes))],
           \A f \in Ends : Len(sent'[f]) = Len(sent[f]) /\ Len(received'[f]) = Len(received[f])
    PROVE  TcpInv'
  <1>1. conn \in [Ends -> Entries] /\ net \subseteq Segments
    BY Zenon DEF TcpInv, TypeOK
  <1>2. conn' = [conn EXCEPT ![e] = c] /\ net' = net \cup out /\ c \in Entries
    BY Zenon DEF Becomes, Sound
  <1>3. conn' \in [Ends -> Entries] /\ net' \subseteq Segments
    BY <1>1, <1>2, Zenon
  <1>4. conn'[e] = c /\ \A f \in Ends : f # e => conn'[f] = conn[f]
    BY <1>1, <1>2, Zenon
  <1>5. TypeOK'
    BY <1>3, Zenon DEF TypeOK
  <1>6. ASSUME NEW f \in Ends
        PROVE  Sound(conn'[f]) /\ Watched(conn'[f])
    <2>1. CASE f = e
      BY <1>4, <2>1, Zenon
    <2>2. CASE f # e
      BY <1>4, <2>2, EndInv, Zenon
    <2> QED
      BY <2>1, <2>2, Zenon
  <1>7. ASSUME NEW f \in Ends
        PROVE  Len(received'[f]) = Len(sent'[f])
    BY EndInv, Zenon
  <1>8. ASSUME NEW f \in Ends, conn'[f].state # "CLOSED"
        PROVE  sent'[f] # <<>>
    <2>1. conn[f].state # "CLOSED"
      BY <1>4, <1>8, Zenon
    <2>2. sent[f] \in Seq(Nat) /\ sent[f] # <<>>
      BY <2>1, EndInv, Zenon
    <2>3. Len(sent[f]) # 0
      BY <2>2
    <2>4. Len(sent'[f]) # 0
      BY <2>3, Zenon
    <2> QED
      BY <2>4, Zenon
  <1> QED
    BY <1>5, <1>6, <1>7, <1>8, Zenon DEF TcpInv

(* The same for a handler that neither sends nor receives bytes.           *)
LEMMA BecomesKeeps ==
    ASSUME TcpInv, NEW e \in Ends, NEW c, Sound(c), Watched(c),
           c.state # "CLOSED" => conn[e].state # "CLOSED",
           NEW out, out \subseteq Segments, Becomes(e, c, out),
           listening' \in BOOLEAN, sent' = sent, received' = received
    PROVE  TcpInv'
  <1>1. /\ sent' \in [Ends -> Seq(Nat)] /\ received' \in [Ends -> Seq(Seq(Bytes))]
        /\ \A f \in Ends : Len(sent'[f]) = Len(sent[f]) /\ Len(received'[f]) = Len(received[f])
    BY Zenon DEF TcpInv, TypeOK
  <1> QED
    BY <1>1, HistoryKeeps, Zenon

(* A handler that opens a connection.                                      *)
LEMMA OpenedKeeps ==
    ASSUME TcpInv, NEW e \in Ends, NEW c, Sound(c), Watched(c),
           NEW out, out \subseteq Segments, Becomes(e, c, out),
           listening' \in BOOLEAN, Opened(e)
    PROVE  TcpInv'
  <1>1. /\ conn \in [Ends -> Entries] /\ net \subseteq Segments
        /\ sent \in [Ends -> Seq(Nat)] /\ received \in [Ends -> Seq(Seq(Bytes))]
    BY Zenon DEF TcpInv, TypeOK
  <1>2. conn' = [conn EXCEPT ![e] = c] /\ net' = net \cup out /\ c \in Entries
    BY Zenon DEF Becomes, Sound
  <1>3. conn' \in [Ends -> Entries] /\ net' \subseteq Segments
    BY <1>1, <1>2, Zenon
  <1>4. /\ conn'[e] = c /\ sent'[e] = Append(sent[e], 0) /\ received'[e] = Append(received[e], <<>>)
        /\ \A f \in Ends : f # e =>
               conn'[f] = conn[f] /\ sent'[f] = sent[f] /\ received'[f] = received[f]
    BY <1>1, <1>2, Zenon DEF Opened
  <1>5. /\ sent'[e] \in Seq(Nat) /\ received'[e] \in Seq(Seq(Bytes))
        /\ Len(sent'[e]) = Len(sent[e]) + 1 /\ Len(received'[e]) = Len(received[e]) + 1
        /\ sent'[e] # <<>>
    <2>1. <<>> \in Seq(Bytes) /\ 0 \in Nat /\ sent[e] \in Seq(Nat) /\ received[e] \in Seq(Seq(Bytes))
      BY <1>1
    <2>2. /\ Append(sent[e], 0) \in Seq(Nat) /\ Len(Append(sent[e], 0)) = Len(sent[e]) + 1
          /\ Append(sent[e], 0) # <<>>
      <3>1. PICK q \in Seq(Nat) : q = sent[e]
        BY <2>1, Zenon
      <3>2. Append(q, 0) \in Seq(Nat) /\ Len(Append(q, 0)) = Len(q) + 1
        OBVIOUS
      <3>3. Append(q, 0) # <<>>
        BY <3>2
      <3> QED
        BY <3>1, <3>2, <3>3, Zenon
    <2>3. /\ Append(received[e], <<>>) \in Seq(Seq(Bytes))
          /\ Len(Append(received[e], <<>>)) = Len(received[e]) + 1
      BY <2>1, AppendProperties, Zenon
    <2> QED
      BY <1>4, <2>2, <2>3, Zenon
  <1>6. sent' \in [Ends -> Seq(Nat)] /\ received' \in [Ends -> Seq(Seq(Bytes))]
    BY <1>1, <1>4, <1>5, Zenon DEF Opened
  <1>7. TypeOK'
    BY <1>3, <1>6, Zenon DEF TypeOK
  <1>8. ASSUME NEW f \in Ends
        PROVE  /\ Sound(conn'[f]) /\ Watched(conn'[f])
               /\ Len(received'[f]) = Len(sent'[f])
               /\ conn'[f].state # "CLOSED" => sent'[f] # <<>>
    <2>1. CASE f = e
      BY <1>4, <1>5, <2>1, EndInv, Zenon
    <2>2. CASE f # e
      BY <1>4, <2>2, EndInv, Zenon
    <2> QED
      BY <2>1, <2>2, Zenon
  <1> QED
    BY <1>7, <1>8, Zenon DEF TcpInv

(* A change that concerns neither what is sent nor the timer.              *)
LEMMA SideKeeps ==
    ASSUME NEW c, Sound(c), NEW d \in Entries,
           d.snd_una = c.snd_una, d.snd_nxt = c.snd_nxt, d.tx = c.tx, d.wnd = c.wnd,
           d.flight_len = c.flight_len, d.flight = c.flight, d.deadline = c.deadline,
           d.state = c.state, d.closing = c.closing, Len(d.rx) <= BufferSize,
           c.state = "CLOSED" => d.rx = <<>>
    PROVE  Sound(d) /\ (Watched(c) => Watched(d))
  <1>1. Flying(d) = Flying(c) /\ (Idle(d) <=> Idle(c)) /\ (Wants(d) <=> Wants(c))
    BY Zenon DEF Flying, Idle, Wants
  <1>2. Sound(d)
    BY <1>1, Zenon DEF Sound
  <1> QED
    BY <1>1, <1>2, Zenon DEF Watched

(* reset_reply()                                                           *)
LEMMA ResetTyped ==
    ASSUME NEW e \in Ends, NEW g \in Segments
    PROVE  ResetReply(e, g) \subseteq Segments
  <1>1. /\ g.ack \in SeqNumbers /\ g.seq \in SeqNumbers /\ g.data \in Seq(Bytes)
        /\ SeqMod \in Nat \ {0} /\ 0 \in SeqNumbers /\ Peer(e) \in Ends
    BY TcpAssumption DEF Segments, SeqNumbers, Peer, Ends
  <1>2. PICK n \in Nat : n = Len(g.data) + (IF "SYN" \in g.flags THEN 1 ELSE 0)
                                          + (IF "FIN" \in g.flags THEN 1 ELSE 0)
    <2>1. PICK l \in Nat : l = Len(g.data)
      BY <1>1, LenProperties, Zenon
    <2>2. PICK m \in {0, 1} : m = IF "SYN" \in g.flags THEN 1 ELSE 0
      BY Zenon
    <2>3. PICK k \in {0, 1} : k = IF "FIN" \in g.flags THEN 1 ELSE 0
      BY Zenon
    <2>4. l + m + k \in Nat
      OBVIOUS
    <2> QED
      BY <2>1, <2>2, <2>3, <2>4, Zenon
  <1>3. Add(g.seq, n) \in SeqNumbers
    <2>1. g.seq + n \in Int
      BY <1>1 DEF SeqNumbers
    <2>2. (g.seq + n) % SeqMod \in 0 .. SeqMod - 1
      BY <1>1, <2>1, ModRange, Zenon
    <2> QED
      BY <2>2, Zenon DEF Add, SeqNumbers
  <1>4. {"RST"} \in SUBSET Flags /\ {"RST", "ACK"} \in SUBSET Flags /\ <<>> \in Seq(Bytes) /\ 0 \in Nat
    BY DEF Flags
  <1>5. Segment(e, g.ack, 0, {"RST"}, 0, <<>>) \in Segments
    BY <1>1, <1>4, Zenon DEF Segment, Segments
  <1>6. Segment(e, 0, Add(g.seq, n), {"RST", "ACK"}, 0, <<>>) \in Segments
    BY <1>1, <1>3, <1>4, Zenon DEF Segment, Segments
  <1>7. \/ ResetReply(e, g) = {}
        \/ ResetReply(e, g) = {Segment(e, g.ack, 0, {"RST"}, 0, <<>>)}
        \/ ResetReply(e, g) = {Segment(e, 0, Add(g.seq, n), {"RST", "ACK"}, 0, <<>>)}
    BY <1>2, Zenon DEF ResetReply
  <1> QED
    BY <1>5, <1>6, <1>7, Zenon

(* tcp_connect()                                                           *)
LEMMA ConnectKeeps == TcpInv /\ Connect => TcpInv'
  <1> SUFFICES ASSUME TcpInv, Connect PROVE TcpInv'
    BY Zenon
  <1>1. PICK e \in Ends : e = "client"
    BY Zenon DEF Ends
  <1>2. PICK iss \in SeqNumbers : iss = NextIss("client")
    <2>1. MayOpen("client") /\ InitialSeq["client"] \in Seq(SeqNumbers) /\ sent["client"] \in Seq(Nat)
      BY <1>1, EndInv, TcpAssumption DEF Connect
    <2> QED
      BY <2>1 DEF MayOpen, NextIss, Incarnation
  <1> DEFINE c == conn[e]
             s == [c EXCEPT !.snd_una = iss, !.snd_nxt = iss, !.wnd = 65535, !.state = "SYN_SENT"]
             d == StartFlight(s, {"SYN"}, 0)
  <1>3. /\ c.state = "CLOSED" /\ Becomes(e, d, {Flight(e, d)}) /\ Opened(e) /\ listening' = listening
    BY <1>1, <1>2 DEF Connect
  <1>4. c \in Entries /\ c.rx = <<>> /\ c.tx = <<>> /\ ~c.closing
    BY <1>3, EndInv DEF Sound, Early
  <1>5. /\ s \in Entries /\ s.rx = <<>> /\ s.tx = <<>> /\ ~s.closing /\ s.state = "SYN_SENT"
    <2>1. PICK wnd \in Nat : wnd = 65535
      OBVIOUS
    <2>2. "SYN_SENT" \in States
      BY Zenon DEF States
    <2>3. s = [c EXCEPT !.snd_una = iss, !.snd_nxt = iss, !.wnd = wnd, !.state = "SYN_SENT"]
      BY <2>1
    <2> HIDE DEF s, c
    <2> QED
      BY <1>4, <2>2, <2>3, Zenon DEF Entries
  <1> HIDE DEF s
  <1>6. PICK flags \in SUBSET Flags : flags = {"SYN"} /\ flags # {}
    BY Zenon DEF Flags
  <1>7. Len(s.rx) <= BufferSize /\ Len(s.tx) <= BufferSize /\ 0 \in 0 .. Len(s.tx) /\ ~(0 > 0)
    BY <1>5, TcpAssumption
  <1>8. s.state # "CLOSED" /\ s.state \notin {"FIN_WAIT_2", "TIME_WAIT"}
    BY <1>5, Zenon
  <1>9. Sound(StartFlight(s, flags, 0)) /\ Watched(StartFlight(s, flags, 0))
    BY <1>5, <1>6, <1>7, <1>8, StartFlightSound, Zenon
  <1>10. Sound(d) /\ Watched(d)
    BY <1>6, <1>9, Zenon
  <1> HIDE DEF d
  <1>11. {Flight(e, d)} \subseteq Segments
    BY <1>10, SegmentsTyped, Zenon
  <1>12. listening' \in BOOLEAN
    BY <1>3, Zenon DEF TcpInv, TypeOK
  <1> QED
    BY <1>3, <1>10, <1>11, <1>12, OpenedKeeps, Zenon

(* passive_open()                                                          *)
LEMMA PassiveOpenKeeps ==
    ASSUME TcpInv, NEW g \in net, PassiveOpen(g)
    PROVE  TcpInv'
  <1>1. PICK e \in Ends : e = "server"
    BY Zenon DEF Ends
  <1>2. PICK iss \in SeqNumbers : iss = NextIss("server")
    <2>1. MayOpen("server") /\ InitialSeq["server"] \in Seq(SeqNumbers) /\ sent["server"] \in Seq(Nat)
      BY <1>1, EndInv, TcpAssumption, Zenon DEF PassiveOpen
    <2> QED
      BY <2>1 DEF MayOpen, NextIss, Incarnation
  <1>3. g.seq \in SeqNumbers /\ g.win \in Nat /\ 1 \in 0 .. SeqMod - 1 /\ 0 \in SeqNumbers
    BY TcpAssumption DEF TcpInv, TypeOK, Segments, SeqNumbers
  <1>4. PICK nxt \in SeqNumbers : nxt = Add(g.seq, 1)
    BY <1>3, AddWraps, Zenon
  <1> DEFINE s == [Free EXCEPT !.allocated = TRUE, !.queued = TRUE, !.state = "SYN_RECEIVED",
                               !.snd_una = iss, !.rcv_nxt = nxt, !.wnd = g.win, !.snd_wl1 = g.seq]
             d == StartFlight(s, {"SYN", "ACK"}, 0)
  <1>5. Becomes(e, d, {Flight(e, d)}) /\ Opened(e) /\ listening' = listening
    BY <1>1, <1>2, <1>4, Zenon DEF PassiveOpen
  <1>6. /\ s \in Entries /\ s.rx = <<>> /\ s.tx = <<>> /\ ~s.closing /\ s.state = "SYN_RECEIVED"
    <2>1. 0 \in 0 .. MaxRetries /\ <<>> \in Seq(Bytes)
      BY TcpAssumption
    <2> QED
      BY <1>3, <2>1 DEF Free, Entries, States, Errors
  <1> HIDE DEF s
  <1>7. PICK flags \in SUBSET Flags : flags = {"SYN", "ACK"} /\ flags # {}
    BY Zenon DEF Flags
  <1>8. Len(s.rx) <= BufferSize /\ Len(s.tx) <= BufferSize /\ 0 \in 0 .. Len(s.tx) /\ ~(0 > 0)
    BY <1>6, TcpAssumption
  <1>9. s.state # "CLOSED" /\ s.state \notin {"FIN_WAIT_2", "TIME_WAIT"}
    BY <1>6, Zenon
  <1>10. Sound(StartFlight(s, flags, 0)) /\ Watched(StartFlight(s, flags, 0))
    BY <1>6, <1>7, <1>8, <1>9, StartFlightSound, Zenon
  <1>11. Sound(d) /\ Watched(d)
    BY <1>7, <1>10, Zenon
  <1> HIDE DEF d
  <1>12. {Flight(e, d)} \subseteq Segments
    BY <1>11, SegmentsTyped, Zenon
  <1>13. listening' \in BOOLEAN
    BY <1>5, Zenon DEF TcpInv, TypeOK
  <1> QED
    BY <1>5, <1>11, <1>12, <1>13, OpenedKeeps, Zenon

(* tcp_accept(), and tcp_close() of the listener.                          *)
LEMMA ListenerKeeps == TcpInv /\ (Accept \/ CloseListener) => TcpInv'
  <1> SUFFICES ASSUME TcpInv, Accept \/ CloseListener PROVE TcpInv'
    BY Zenon
  <1>1. PICK e \in Ends : e = "server"
    BY Zenon DEF Ends
  <1>2. PICK c : c = conn[e]
    BY Zenon
  <1>3. Sound(c) /\ Watched(c) /\ c \in Entries
    BY <1>2, EndInv, Zenon
  <1>4. CASE Accept
    <2>1. PICK d : d = [c EXCEPT !.open = TRUE, !.queued = FALSE, !.expires = FALSE]
      BY Zenon
    <2>2. /\ Becomes(e, d, {}) /\ listening' = listening /\ sent' = sent /\ received' = received
      BY <1>1, <1>2, <1>4, <2>1, Zenon DEF Accept
    <2>3. /\ d \in Entries /\ d.snd_una = c.snd_una /\ d.snd_nxt = c.snd_nxt /\ d.tx = c.tx
          /\ d.flight_len = c.flight_len /\ d.flight = c.flight /\ d.deadline = c.deadline
          /\ d.state = c.state /\ d.rx = c.rx /\ d.closing = c.closing /\ d.wnd = c.wnd
      BY <1>3, <2>1, Zenon DEF Entries
    <2>4. Len(c.rx) <= BufferSize /\ (c.state = "CLOSED" => c.rx = <<>>)
      BY <1>3, Zenon DEF Sound
    <2>5. Sound(d) /\ Watched(d)
      BY <1>3, <2>3, <2>4, SideKeeps, Zenon
    <2>6. listening' \in BOOLEAN /\ {} \subseteq Segments
      BY <2>2, Zenon DEF TcpInv, TypeOK
    <2> QED
      BY <1>2, <2>2, <2>3, <2>5, <2>6, BecomesKeeps
  <1>5. CASE CloseListener
    <2>1. listening' \in BOOLEAN /\ sent' = sent /\ received' = received
      BY <1>5, Zenon DEF CloseListener
    <2>2. CASE c.allocated /\ c.queued
      <3>1. PICK g : g = Segment("server", c.snd_nxt, c.rcv_nxt, {"RST", "ACK"}, 0, <<>>)
        BY Zenon
      <3>2. Becomes(e, Fail(c, "reset"), {g})
        BY <1>1, <1>2, <1>5, <2>2, <3>1, Zenon DEF CloseListener
      <3>3. g \in Segments
        <4>1. /\ c.snd_nxt \in SeqNumbers /\ c.rcv_nxt \in SeqNumbers /\ Peer("server") \in Ends
              /\ {"RST", "ACK"} \in SUBSET Flags /\ <<>> \in Seq(Bytes) /\ 0 \in Nat
          BY <1>3 DEF Entries, Peer, Ends, Flags
        <4> QED
          BY <3>1, <4>1, Zenon DEF Segment, Segments
      <3>4. "reset" \in Errors
        BY Zenon DEF Errors
      <3>5. Sound(Fail(c, "reset")) /\ Watched(Fail(c, "reset")) /\ Fail(c, "reset").state = "CLOSED"
        BY <3>4, FailSound, Zenon
      <3>6. {g} \subseteq Segments
        BY <3>3, Zenon
      <3> QED
        BY <2>1, <3>2, <3>5, <3>6, BecomesKeeps, Zenon
    <2>3. CASE ~(c.allocated /\ c.queued)
      <3>1. conn' = conn /\ net' = net
        BY <1>1, <1>2, <1>5, <2>3, Zenon DEF CloseListener
      <3>2. TypeOK'
        BY <2>1, <3>1, Zenon DEF TcpInv, TypeOK
      <3> QED
        BY <2>1, <3>1, <3>2, Zenon DEF TcpInv
    <2> QED
      BY <2>2, <2>3, Zenon
  <1> QED
    BY <1>4, <1>5, Zenon

(* tcp_kick() at the end of a handler that changed the entry to c.         *)
LEMMA KickKeeps ==
    ASSUME TcpInv, NEW e \in Ends, NEW c, Sound(c), c.state # "CLOSED" => conn[e].state # "CLOSED",
           NEW routed \in BOOLEAN, NEW acks, acks \subseteq Segments,
           Becomes(e, Kick(e, c, routed).entry, acks \cup Kick(e, c, routed).out),
           listening' = listening, sent' = sent, received' = received
    PROVE  TcpInv'
  <1>1. /\ Sound(Kick(e, c, routed).entry) /\ Watched(Kick(e, c, routed).entry)
        /\ Kick(e, c, routed).out \subseteq Segments
        /\ c.state = "CLOSED" => Kick(e, c, routed).entry.state = "CLOSED"
    BY KickSound, Zenon
  <1>2. PICK k : k = Kick(e, c, routed)
    BY Zenon
  <1>3. acks \cup k.out \subseteq Segments
    BY <1>1, <1>2, Zenon
  <1>4. listening' \in BOOLEAN
    BY Zenon DEF TcpInv, TypeOK
  <1> QED
    BY <1>1, <1>2, <1>3, <1>4, BecomesKeeps, Zenon

(* tcp_close() of a connection.                                            *)
LEMMA CloseKeeps ==
    ASSUME TcpInv, NEW e \in Ends, Close(e)
    PROVE  TcpInv'
  <1> DEFINE c == [conn[e] EXCEPT !.open = FALSE]
             d == [c EXCEPT !.closing = TRUE]
  <1>1. Sound(conn[e]) /\ conn[e] \in Entries
    BY EndInv, Zenon
  <1>2. listening' = listening /\ listening \in BOOLEAN /\ sent' = sent /\ received' = received
    BY Zenon DEF Close, TcpInv, TypeOK
  <1>3. CASE Becomes(e, Fail(c, "aborted"), {})
    <2>1. "aborted" \in Errors /\ {} \subseteq Segments
      BY Zenon DEF Errors
    <2> HIDE DEF c
    <2>2. Sound(Fail(c, "aborted")) /\ Watched(Fail(c, "aborted")) /\ Fail(c, "aborted").state = "CLOSED"
      BY <2>1, FailSound, Zenon
    <2> QED
      BY <1>2, <1>3, <2>1, <2>2, BecomesKeeps
  <1>4. CASE c.state \notin Early /\ \E routed \in {TRUE, ~RouteFails} :
                 Becomes(e, Kick(e, d, routed).entry, Kick(e, d, routed).out)
    <2>1. PICK routed \in BOOLEAN : Becomes(e, Kick(e, d, routed).entry, Kick(e, d, routed).out)
      BY <1>4, TcpAssumption, Zenon
    <2>2. PICK f : f = d
      BY Zenon
    <2>3. /\ f \in Entries /\ f.snd_una = conn[e].snd_una /\ f.snd_nxt = conn[e].snd_nxt
          /\ f.tx = conn[e].tx /\ f.flight_len = conn[e].flight_len /\ f.flight = conn[e].flight
          /\ f.deadline = conn[e].deadline /\ f.state = conn[e].state /\ f.rx = conn[e].rx
          /\ f.closing = TRUE /\ c.state = conn[e].state
      BY <1>1, <2>2, Zenon DEF Entries
    <2>4. Becomes(e, Kick(e, f, routed).entry, {} \cup Kick(e, f, routed).out)
      <3>1. {} \cup Kick(e, f, routed).out = Kick(e, f, routed).out
        BY Zenon
      <3> QED
        BY <2>1, <2>2, <3>1, Zenon
    <2> HIDE DEF c, d
    <2>5. Flying(f) = Flying(conn[e]) /\ (Idle(f) <=> Idle(conn[e])) /\ Wants(f)
      BY <2>3, Zenon DEF Flying, Idle, Wants
    <2>6. Sound(f)
      BY <1>1, <1>4, <2>3, <2>5, Zenon DEF Sound
    <2>7. PICK acks : acks = {}
      BY Zenon
    <2>8. /\ acks \subseteq Segments
          /\ Becomes(e, Kick(e, f, routed).entry, acks \cup Kick(e, f, routed).out)
          /\ f.state # "CLOSED" => conn[e].state # "CLOSED"
      BY <2>3, <2>4, <2>7, Zenon
    <2> QED
      BY <1>2, <2>6, <2>7, <2>8, KickKeeps, Zenon
  <1> QED
    BY <1>3, <1>4, Zenon DEF Close, Early

(* tcp_recv(): the window that it announces is what is free.               *)
LEMMA RecvKeeps ==
    ASSUME TcpInv, NEW e \in Ends, NEW n \in 1 .. BufferSize, Recv(e, n)
    PROVE  TcpInv'
  <1>1. PICK c : c = conn[e]
    BY Zenon
  <1>2. /\ Sound(c) /\ Watched(c) /\ c \in Entries /\ c.rx \in Seq(Bytes) /\ n \in 1 .. Len(c.rx)
        /\ Len(c.rx) \in Nat /\ c.rx # <<>>
    <2>1. Sound(c) /\ Watched(c) /\ c \in Entries /\ n \in 1 .. Len(c.rx)
      BY <1>1, EndInv, Zenon DEF Recv
    <2>2. c.rx \in Seq(Bytes)
      BY <2>1, Zenon DEF Entries
    <2> QED
      BY <2>1, <2>2
  <1>3. PICK part \in Seq(Bytes) : part = SubSeq(c.rx, 1, n)
    <2>1. n \in 0 .. Len(c.rx) /\ 1 \in Nat \ {0}
      BY <1>2
    <2>2. SubSeq(c.rx, 1, n) \in Seq(Bytes)
      BY <1>2, <2>1, PartOf, Zenon
    <2> QED
      BY <2>2, Zenon
  <1>4. PICK rest \in Seq(Bytes) : rest = SubSeq(c.rx, n + 1, Len(c.rx)) /\ Len(rest) <= Len(c.rx)
    <2>1. n + 1 \in Nat \ {0} /\ Len(c.rx) \in 0 .. Len(c.rx)
      BY <1>2
    <2>2. /\ SubSeq(c.rx, n + 1, Len(c.rx)) \in Seq(Bytes)
          /\ Len(SubSeq(c.rx, n + 1, Len(c.rx)))
                 = IF n + 1 <= Len(c.rx) THEN Len(c.rx) - (n + 1) + 1 ELSE 0
      BY <1>2, <2>1, PartOf, Zenon
    <2>3. PICK l \in Nat : l = Len(c.rx)
      BY <1>2, Zenon
    <2>4. Len(SubSeq(c.rx, n + 1, Len(c.rx))) <= l
      BY <2>2, <2>3
    <2> QED
      BY <2>2, <2>3, <2>4, Zenon
  <1>5. PICK d : d = [c EXCEPT !.rx = rest]
    BY Zenon
  <1>6. /\ Becomes(e, d, {Ack(e, d)}) /\ listening' = listening /\ sent' = sent
        /\ received' = [received EXCEPT ![e][Incarnation(e)] = @ \o part]
    BY <1>1, <1>3, <1>4, <1>5, Zenon DEF Recv
  <1>7. /\ d \in Entries /\ d.snd_una = c.snd_una /\ d.snd_nxt = c.snd_nxt /\ d.tx = c.tx
        /\ d.flight_len = c.flight_len /\ d.flight = c.flight /\ d.deadline = c.deadline
        /\ d.state = c.state /\ d.rx = rest /\ d.closing = c.closing /\ d.wnd = c.wnd
    BY <1>2, <1>5, Zenon DEF Entries
  <1>8. c.state # "CLOSED" /\ Len(c.rx) <= BufferSize
    BY <1>2, Zenon DEF Sound
  <1>9. Len(rest) <= BufferSize
    BY <1>2, <1>4, <1>8, TcpAssumption
  <1>10. Sound(d) /\ Watched(d)
    BY <1>2, <1>7, <1>8, <1>9, SideKeeps, Zenon
  <1>11. Ack(e, d) \in Segments
    BY <1>10, SegmentsTyped, Zenon
  <1>12. PICK k : k = Incarnation(e)
    BY Zenon
  <1>13. k \in 1 .. Len(received[e]) /\ received[e] \in Seq(Seq(Bytes)) /\ k \in Nat
    <2>1. sent[e] \in Seq(Nat) /\ sent[e] # <<>> /\ Len(received[e]) = Len(sent[e]) /\ received[e] \in Seq(Seq(Bytes))
      BY <1>1, <1>8, EndInv, Zenon
    <2> QED
      BY <1>12, <2>1 DEF Incarnation
  <1>14. received[e][k] \in Seq(Bytes) /\ received[e][k] \o part \in Seq(Bytes)
    <2>1. received[e][k] \in Seq(Bytes)
      BY <1>13
    <2> QED
      BY <2>1, ConcatProperties, Zenon
  <1>15. PICK all \in Seq(Bytes) : all = received[e][k] \o part
    BY <1>14, Zenon
  <1>16. /\ conn \in [Ends -> Entries] /\ net \subseteq Segments /\ sent \in [Ends -> Seq(Nat)]
         /\ received \in [Ends -> Seq(Seq(Bytes))] /\ listening \in BOOLEAN
    BY Zenon DEF TcpInv, TypeOK
  <1>17. received' = [received EXCEPT ![e] = [received[e] EXCEPT ![k] = all]]
    BY <1>6, <1>12, <1>15, <1>16, Zenon
  <1>18. PICK q : q = [received[e] EXCEPT ![k] = all]
    BY Zenon
  <1>19. q \in Seq(Seq(Bytes)) /\ Len(q) = Len(received[e])
    BY <1>13, <1>18, ExceptSeq
  <1>20. /\ received'[e] = q /\ received' \in [Ends -> Seq(Seq(Bytes))]
         /\ \A f \in Ends : f # e => received'[f] = received[f]
    BY <1>16, <1>17, <1>18, <1>19, Zenon
  <1>21. \A f \in Ends : Len(sent'[f]) = Len(sent[f]) /\ Len(received'[f]) = Len(received[f])
    BY <1>6, <1>19, <1>20, Zenon
  <1>22. {Ack(e, d)} \subseteq Segments /\ listening' \in BOOLEAN /\ sent' \in [Ends -> Seq(Nat)]
    BY <1>6, <1>11, <1>16, Zenon
  <1>23. d.state # "CLOSED" => conn[e].state # "CLOSED"
    BY <1>1, <1>7, Zenon
  <1>24. PICK out : out = {Ack(e, d)}
    BY Zenon
  <1>25. Becomes(e, d, out) /\ out \subseteq Segments
    BY <1>6, <1>22, <1>24, Zenon
  <1> QED
    BY <1>10, <1>20, <1>21, <1>22, <1>23, <1>25, HistoryKeeps, Zenon

(* tcp_send(): no more than the buffer takes.                              *)
LEMMA SendKeeps ==
    ASSUME TcpInv, NEW e \in Ends, NEW n \in 1 .. BufferSize, Send(e, n)
    PROVE  TcpInv'
  <1>1. PICK c : c = conn[e]
    BY Zenon
  <1>2. PICK k : k = Incarnation(e)
    BY Zenon
  <1>3. PICK accepted : accepted = Least(n, BufferSize - Len(c.tx))
    BY Zenon
  <1>4. PICK bytes : bytes = [i \in 1 .. accepted |-> <<k, sent[e][k] + i>>]
    BY Zenon
  <1>5. PICK d : d = [c EXCEPT !.tx = @ \o bytes]
    BY Zenon
  <1>6. /\ c.state \in {"ESTABLISHED", "CLOSE_WAIT"} /\ accepted > 0
        /\ sent' = [sent EXCEPT ![e][k] = @ + accepted]
        /\ listening' = listening /\ received' = received
    BY <1>1, <1>2, <1>3, Zenon DEF Send
  <1>7. PICK routed \in BOOLEAN : Becomes(e, Kick(e, d, routed).entry, Kick(e, d, routed).out)
    BY <1>1, <1>2, <1>3, <1>4, <1>5, TcpAssumption, Zenon DEF Send
  <1>8. Sound(c) /\ c \in Entries /\ c.tx \in Seq(Bytes) /\ Len(c.tx) <= BufferSize
    <2>1. Sound(c)
      BY <1>1, EndInv, Zenon
    <2> QED
      BY <2>1, Zenon DEF Sound, Entries
  <1>9. accepted \in Nat /\ accepted <= BufferSize - Len(c.tx)
    <2>1. PICK l \in Nat : l = Len(c.tx)
      BY <1>8, LenProperties, Zenon
    <2>2. accepted = IF n <= BufferSize - l THEN n ELSE BufferSize - l
      BY <1>3, <2>1, Zenon DEF Least
    <2>3. l <= BufferSize /\ BufferSize \in Nat
      BY <1>8, <2>1, TcpAssumption, Zenon
    <2>4. accepted \in Nat /\ accepted <= BufferSize - l
      BY <1>6, <2>2, <2>3
    <2> QED
      BY <2>1, <2>4, Zenon
  <1>10. /\ sent[e] \in Seq(Nat) /\ k \in 1 .. Len(sent[e]) /\ k \in Nat \ {0} /\ sent[e][k] \in Nat
    <2>1. conn[e].state # "CLOSED"
      BY <1>1, <1>6, Zenon
    <2>2. sent[e] \in Seq(Nat) /\ sent[e] # <<>>
      BY <2>1, EndInv, Zenon
    <2>3. k = Len(sent[e])
      BY <1>2, Zenon DEF Incarnation
    <2> QED
      BY <2>2, <2>3
  <1>11. bytes \in Seq(Bytes) /\ Len(bytes) = accepted
    <2>1. ASSUME NEW i \in 1 .. accepted
          PROVE  <<k, sent[e][k] + i>> \in Bytes
      <3>1. PICK m \in Nat \ {0} : m = sent[e][k] + i
        BY <1>9, <1>10
      <3>2. <<k, m>> \in Bytes
        BY <1>10, Zenon DEF Bytes
      <3> QED
        BY <3>1, <3>2, Zenon
    <2>2. bytes \in Seq(Bytes)
      BY <1>4, <1>9, <2>1
    <2> QED
      BY <1>4, <1>9, <2>2
  <1>12. PICK tx \in Seq(Bytes) : tx = c.tx \o bytes /\ Len(tx) = Len(c.tx) + accepted
    <2>1. c.tx \o bytes \in Seq(Bytes) /\ Len(c.tx \o bytes) = Len(c.tx) + Len(bytes)
      BY <1>8, <1>11, ConcatProperties, Zenon
    <2> QED
      BY <1>11, <2>1, Zenon
  <1>13. /\ d \in Entries /\ d.snd_una = c.snd_una /\ d.snd_nxt = c.snd_nxt /\ d.tx = tx
         /\ d.flight_len = c.flight_len /\ d.flight = c.flight /\ d.deadline = c.deadline
         /\ d.state = c.state /\ d.rx = c.rx /\ d.closing = c.closing
    BY <1>5, <1>8, <1>12, Zenon DEF Entries
  <1>14. Len(tx) <= BufferSize /\ c.flight_len <= Len(tx) /\ tx # <<>>
    <2>1. PICK l \in Nat : l = Len(c.tx)
      BY <1>8, LenProperties, Zenon
    <2>2. c.flight_len \in Nat /\ c.flight_len <= l
      BY <1>8, <2>1, Zenon DEF Sound, Entries
    <2>3. Len(tx) = l + accepted /\ Len(tx) # 0
      BY <1>6, <1>9, <1>12, <2>1
    <2>4. tx # <<>>
      BY <2>3
    <2> QED
      BY <1>9, <2>1, <2>2, <2>3, <2>4, TcpAssumption
  <1>15. Flying(d) = Flying(c) /\ (Idle(d) <=> Idle(c)) /\ Wants(d)
    BY <1>13, <1>14, Zenon DEF Flying, Idle, Wants
  <1>16. Sound(d)
    BY <1>6, <1>8, <1>13, <1>14, <1>15, Zenon DEF Sound, Early
  <1>17. /\ Sound(Kick(e, d, routed).entry) /\ Watched(Kick(e, d, routed).entry)
         /\ Kick(e, d, routed).out \subseteq Segments
    BY <1>16, KickSound, Zenon
  <1>18. PICK m \in Nat : m = sent[e][k] + accepted
    BY <1>9, <1>10
  <1>19. PICK q : q = [sent[e] EXCEPT ![k] = m]
    BY Zenon
  <1>20. q \in Seq(Nat) /\ Len(q) = Len(sent[e])
    BY <1>10, <1>19, ExceptSeq
  <1>21. sent \in [Ends -> Seq(Nat)] /\ received \in [Ends -> Seq(Seq(Bytes))] /\ listening \in BOOLEAN
    BY Zenon DEF TcpInv, TypeOK
  <1>22. sent' = [sent EXCEPT ![e] = q]
    BY <1>6, <1>18, <1>19, <1>21, Zenon
  <1>23. /\ sent' \in [Ends -> Seq(Nat)]
         /\ \A f \in Ends : Len(sent'[f]) = Len(sent[f]) /\ Len(received'[f]) = Len(received[f])
    BY <1>6, <1>20, <1>21, <1>22, Zenon
  <1>24. conn[e].state # "CLOSED" /\ listening' \in BOOLEAN /\ received' \in [Ends -> Seq(Seq(Bytes))]
    BY <1>1, <1>6, <1>21, Zenon
  <1> QED
    BY <1>7, <1>17, <1>23, <1>24, HistoryKeeps, Zenon

(* A handler that only answers.                                            *)
LEMMA AnswerKeeps ==
    ASSUME TcpInv, NEW e \in Ends, NEW out, out \subseteq Segments, Becomes(e, conn[e], out), Quiet
    PROVE  TcpInv'
  <1>1. Sound(conn[e]) /\ Watched(conn[e])
    BY EndInv, Zenon
  <1>2. listening' \in BOOLEAN /\ sent' = sent /\ received' = received
    BY Zenon DEF Quiet, TcpInv, TypeOK
  <1> QED
    BY <1>1, <1>2, BecomesKeeps, Zenon

(* A connection that ends.                                                 *)
LEMMA EndKeeps ==
    ASSUME TcpInv, NEW e \in Ends, NEW error \in Errors, NEW c, Becomes(e, Fail(c, error), {}), Quiet
    PROVE  TcpInv'
  <1>1. Sound(Fail(c, error)) /\ Watched(Fail(c, error)) /\ Fail(c, error).state = "CLOSED"
    BY FailSound, Zenon
  <1>2. listening' \in BOOLEAN /\ sent' = sent /\ received' = received
    BY Zenon DEF Quiet, TcpInv, TypeOK
  <1>3. {} \subseteq Segments
    BY Zenon
  <1> QED
    BY <1>1, <1>2, <1>3, BecomesKeeps

(* An answer to a SYN.                                                     *)
LEMMA SynSentReplyKeeps ==
    ASSUME TcpInv, NEW e \in Ends, NEW g \in Segments, SynSentReply(e, g)
    PROVE  TcpInv'
  <1> DEFINE d == [conn[e] EXCEPT !.rcv_nxt = Add(g.seq, 1), !.snd_una = g.ack, !.flight = {},
                                  !.deadline = FALSE, !.wnd = g.win, !.snd_wl1 = g.seq,
                                  !.snd_wl2 = g.ack, !.state = "ESTABLISHED"]
  <1>1. conn[e].state = "SYN_SENT" /\ Quiet
    BY Zenon DEF SynSentReply
  <1>2. CASE Becomes(e, conn[e], ResetReply(e, g))
    BY <1>1, <1>2, ResetTyped, AnswerKeeps, Zenon
  <1>3. CASE Becomes(e, Fail(conn[e], "refused"), {})
    <2>1. "refused" \in Errors
      BY Zenon DEF Errors
    <2> QED
      BY <1>1, <1>3, <2>1, EndKeeps, Zenon
  <1>4. CASE ~BadAck(e, g) /\ {"SYN", "ACK"} \subseteq g.flags /\ Becomes(e, d, {Ack(e, d)})
    <2>1. PICK c : c = conn[e]
      BY Zenon
    <2>2. Sound(c) /\ c \in Entries /\ c.tx = <<>> /\ ~c.closing /\ Len(c.rx) <= BufferSize
      <3>1. Sound(c) /\ c.state \in Early
        BY <1>1, <2>1, EndInv, Zenon DEF Early
      <3> QED
        BY <3>1, Zenon DEF Sound
    <2>3. c.flight_len = 0
      <3>1. c.flight_len \in Nat /\ c.flight_len <= Len(c.tx) /\ Len(c.tx) = 0
        BY <2>2, Zenon DEF Sound, Entries
      <3> QED
        BY <3>1
    <2>4. g.ack = c.snd_nxt /\ g.ack \in SeqNumbers /\ g.seq \in SeqNumbers /\ g.win \in Nat
      BY <1>4, <2>1, Zenon DEF BadAck, Segments
    <2>5. PICK nxt \in SeqNumbers : nxt = Add(g.seq, 1)
      <3>1. 1 \in 0 .. SeqMod - 1
        BY TcpAssumption
      <3> QED
        BY <2>4, <3>1, AddWraps, Zenon
    <2>6. PICK f : f = d
      BY Zenon
    <2>7. f = [c EXCEPT !.rcv_nxt = nxt, !.snd_una = g.ack, !.flight = {},
                        !.deadline = FALSE, !.wnd = g.win, !.snd_wl1 = g.seq,
                        !.snd_wl2 = g.ack, !.state = "ESTABLISHED"]
      BY <2>1, <2>5, <2>6, Zenon
    <2>8. /\ f \in Entries /\ f.snd_una = g.ack /\ f.snd_nxt = c.snd_nxt /\ f.tx = <<>> /\ f.rx = c.rx
          /\ f.flight_len = 0 /\ f.flight = {} /\ f.deadline = FALSE /\ f.state = "ESTABLISHED"
          /\ f.closing = c.closing
      BY <2>2, <2>3, <2>4, <2>7, Zenon DEF Entries, States
    <2>9. Flying(f) = 0 /\ ~Wants(f)
      BY <2>2, <2>8 DEF Flying, ControlLength, Wants
    <2>10. f.snd_nxt = Add(f.snd_una, Flying(f))
      BY <2>4, <2>8, <2>9, AddNothing, Zenon
    <2>11. Sound(f)
      BY <2>2, <2>8, <2>10, TcpAssumption DEF Sound, Early
    <2>12. Watched(f)
      BY <2>8, <2>9, Zenon DEF Watched
    <2> HIDE DEF d
    <2>13. {Ack(e, f)} \subseteq Segments
      BY <2>11, SegmentsTyped, Zenon
    <2>14. Becomes(e, f, {Ack(e, f)})
      BY <1>4, <2>6, Zenon
    <2>15. listening' \in BOOLEAN /\ sent' = sent /\ received' = received /\ conn[e].state # "CLOSED"
      BY <1>1, Zenon DEF Quiet, TcpInv, TypeOK
    <2> QED
      BY <2>11, <2>12, <2>13, <2>14, <2>15, BecomesKeeps, Zenon
  <1> QED
    BY <1>2, <1>3, <1>4, Zenon DEF SynSentReply

(* Input that is answered and changes nothing, and the end of TIME_WAIT    *)
(* put off.                                                                *)
LEMMA AnsweredKeeps ==
    ASSUME TcpInv, NEW e \in Ends, NEW g \in Segments,
           \/ NoConnection(e, g) \/ SynAgain(e, g) \/ TimeWaitInput(e, g)
           \/ OutOfOrder(e, g) \/ RefusedInput(e, g) \/ SynReceivedBadAck(e, g)
    PROVE  TcpInv'
  <1>1. /\ {Flight(e, conn[e])} \subseteq Segments /\ {Ack(e, conn[e])} \subseteq Segments
        /\ ResetReply(e, g) \subseteq Segments
    BY EndInv, SegmentsTyped, ResetTyped, Zenon
  <1>2. CASE NoConnection(e, g)
    BY <1>1, <1>2, AnswerKeeps, Zenon DEF NoConnection, Quiet
  <1>3. CASE SynAgain(e, g)
    BY <1>1, <1>3, AnswerKeeps, Zenon DEF SynAgain
  <1>4. CASE TimeWaitInput(e, g)
    <2>1. Quiet /\ conn[e].state = "TIME_WAIT"
      BY <1>4, Zenon DEF TimeWaitInput
    <2>2. CASE Becomes(e, conn[e], {Ack(e, conn[e])})
      BY <1>1, <2>1, <2>2, AnswerKeeps, Zenon
    <2>3. CASE Becomes(e, TimeWait(conn[e]), {Ack(e, conn[e])})
      <3>1. Sound(conn[e]) /\ conn[e].flight = {}
        BY <2>1, EndInv, Zenon DEF Sound
      <3>2. Sound(TimeWait(conn[e])) /\ Watched(TimeWait(conn[e]))
        BY <3>1, TimeWaitSound, Zenon
      <3>3. listening' \in BOOLEAN /\ sent' = sent /\ received' = received /\ conn[e].state # "CLOSED"
        BY <2>1, Zenon DEF Quiet, TcpInv, TypeOK
      <3> QED
        BY <1>1, <2>3, <3>2, <3>3, BecomesKeeps, Zenon
    <2> QED
      BY <1>4, <2>2, <2>3, Zenon DEF TimeWaitInput
  <1>5. CASE OutOfOrder(e, g)
    BY <1>1, <1>5, AnswerKeeps, Zenon DEF OutOfOrder
  <1>6. CASE RefusedInput(e, g)
    BY <1>1, <1>6, AnswerKeeps, Zenon DEF RefusedInput
  <1>7. CASE SynReceivedBadAck(e, g)
    BY <1>1, <1>7, AnswerKeeps, Zenon DEF SynReceivedBadAck
  <1> QED
    BY <1>2, <1>3, <1>4, <1>5, <1>6, <1>7, Zenon

(* tcp_input() of an acceptable segment.                                   *)
LEMMA AcceptedInputKeeps ==
    ASSUME TcpInv, NEW e \in Ends, NEW g \in Segments, AcceptedInput(e, g)
    PROVE  TcpInv'
  <1> DEFINE c == conn[e]
             shaken == IF c.state = "SYN_RECEIVED"
                       THEN [c EXCEPT !.state = "ESTABLISHED", !.expires = TRUE] ELSE c
             acked == Acknowledge(shaken, g.ack)
             data == TakeData(TakeWindow(acked, g), g)
             whole == acked.fin \/ Taken(acked, g) = Len(g.data)
             done == IF whole /\ ~data.fin /\ "FIN" \in g.flags /\ Len(data.rx) < BufferSize
                     THEN TakeFin(data) ELSE data
             acks == IF g.data # <<>> \/ "FIN" \in g.flags THEN {Ack(e, done)} ELSE {}
  <1>1. /\ Acceptable(e, g) /\ Quiet
        /\ IF acked.state = "CLOSED"
           THEN Becomes(e, acked, {})
           ELSE \E routed \in {TRUE, ~RouteFails} :
                   Becomes(e, Kick(e, done, routed).entry, acks \cup Kick(e, done, routed).out)
    BY Zenon DEF AcceptedInput
  <1>2. /\ c.state \notin {"CLOSED", "SYN_SENT"} /\ ~Before(c.snd_nxt, g.ack) /\ g.ack \in SeqNumbers
    BY <1>1, Zenon DEF Acceptable, InOrder, Synchronized, Connected, Unacceptable, Segments
  <1>3. Sound(c) /\ c \in Entries
    BY EndInv, Zenon
  <1>4. Sound(shaken) /\ shaken.state \notin Early /\ shaken.snd_nxt = c.snd_nxt
    <2>1. CASE c.state = "SYN_RECEIVED"
      <3>1. PICK d : d = [c EXCEPT !.state = "ESTABLISHED", !.expires = TRUE]
        BY Zenon
      <3>2. /\ d \in Entries /\ d.snd_una = c.snd_una /\ d.snd_nxt = c.snd_nxt /\ d.tx = c.tx
            /\ d.flight_len = c.flight_len /\ d.flight = c.flight /\ d.deadline = c.deadline
            /\ d.state = "ESTABLISHED" /\ d.rx = c.rx /\ d.closing = c.closing
        BY <1>3, <3>1, Zenon DEF Entries, States
      <3>3. Flying(d) = Flying(c) /\ ~Idle(c)
        BY <2>1, <3>2, Zenon DEF Flying, Idle
      <3>4. Sound(d) /\ d.state \notin Early
        BY <1>3, <3>2, <3>3, Zenon DEF Sound, Early
      <3> QED
        BY <2>1, <3>1, <3>2, <3>4, Zenon
    <2>2. CASE c.state # "SYN_RECEIVED"
      BY <1>2, <1>3, <2>2, Zenon DEF Early
    <2> QED
      BY <2>1, <2>2, Zenon
  <1> HIDE DEF shaken
  <1>5. Sound(acked)
    BY <1>2, <1>4, AcknowledgeSound, Zenon
  <1> HIDE DEF acked
  <1>6. conn[e].state # "CLOSED"
    BY <1>2, Zenon
  <1>7. /\ listening' = listening /\ listening \in BOOLEAN /\ sent' = sent /\ received' = received
    BY <1>1, Zenon DEF Quiet, TcpInv, TypeOK
  <1>8. CASE acked.state = "CLOSED"
    <2>1. Watched(acked)
      BY <1>5, <1>8, Zenon DEF Sound, Watched, Idle
    <2>2. {} \subseteq Segments /\ Becomes(e, acked, {}) /\ listening' \in BOOLEAN
      BY <1>1, <1>7, <1>8, Zenon
    <2> HIDE DEF c
    <2> QED
      BY <1>5, <1>7, <1>8, <2>1, <2>2, BecomesKeeps
  <1>9. CASE acked.state # "CLOSED"
    <2>1. Sound(TakeWindow(acked, g)) /\ TakeWindow(acked, g).state # "CLOSED"
      BY <1>5, <1>9, TakeWindowSound, Zenon
    <2>2. Sound(data) /\ data.state # "CLOSED"
      BY <2>1, TakeDataSound, Zenon
    <2> HIDE DEF data
    <2>3. Sound(TakeFin(data))
      BY <2>2, TakeFinSound, Zenon
    <2>4. Sound(done)
      BY <2>2, <2>3, Zenon
    <2>5. PICK routed \in BOOLEAN :
              Becomes(e, Kick(e, done, routed).entry, acks \cup Kick(e, done, routed).out)
      BY <1>1, <1>9, TcpAssumption, Zenon
    <2> HIDE DEF done, c
    <2>6. Ack(e, done) \in Segments
      BY <2>4, SegmentsTyped, Zenon
    <2>7. acks \subseteq Segments
      BY <2>6, Zenon
    <2> HIDE DEF acks
    <2> QED
      BY <1>6, <1>7, <2>4, <2>5, <2>7, KickKeeps, Zenon
  <1> QED
    BY <1>8, <1>9, Zenon

(* The timers of tcp_tick().                                               *)
LEMMA TickKeeps ==
    ASSUME TcpInv, NEW e \in Ends, Tick(e)
    PROVE  TcpInv'
  <1>1. PICK c : c = conn[e]
    BY Zenon
  <1>2. Sound(c) /\ Watched(c) /\ c \in Entries /\ Len(c.rx) <= BufferSize /\ (c.state = "CLOSED" => c.rx = <<>>)
    <2>1. Sound(c) /\ Watched(c)
      BY <1>1, EndInv, Zenon
    <2> QED
      BY <2>1, Zenon DEF Sound
  <1>3. Quiet
    BY Zenon DEF Tick, Expire, GiveUp, Retransmit, Probe
  <1>4. listening' \in BOOLEAN /\ sent' = sent /\ received' = received
    BY <1>3, Zenon DEF Quiet, TcpInv, TypeOK
  <1>5. CASE Expire(e)
    <2>1. PICK error \in Errors : Becomes(e, Fail(conn[e], error), {})
      BY <1>5, Zenon DEF Expire, Errors
    <2> QED
      BY <1>3, <2>1, EndKeeps, Zenon
  <1>6. CASE GiveUp(e)
    <2>1. PICK error \in Errors : Becomes(e, Fail(conn[e], error), {})
      BY <1>6, Zenon DEF GiveUp, Errors
    <2> QED
      BY <1>3, <2>1, EndKeeps, Zenon
  <1>7. ASSUME c.retries < MaxRetries, NEW out, out \subseteq Segments,
               Becomes(e, [c EXCEPT !.retries = @ + 1], out)
        PROVE  TcpInv'
    <2>1. PICK d : d = [c EXCEPT !.retries = @ + 1]
      BY Zenon
    <2>2. c.retries + 1 \in 0 .. MaxRetries
      <3>1. c.retries \in 0 .. MaxRetries /\ MaxRetries \in Nat
        BY <1>2, TcpAssumption, Zenon DEF Entries
      <3> QED
        BY <1>7, <3>1
    <2>3. /\ d \in Entries /\ d.snd_una = c.snd_una /\ d.snd_nxt = c.snd_nxt /\ d.tx = c.tx
          /\ d.flight_len = c.flight_len /\ d.flight = c.flight /\ d.deadline = c.deadline
          /\ d.state = c.state /\ d.rx = c.rx /\ d.closing = c.closing /\ d.wnd = c.wnd
      BY <1>2, <2>1, <2>2, Zenon DEF Entries
    <2>4. Sound(d) /\ Watched(d)
      BY <1>2, <2>3, SideKeeps, Zenon
    <2>5. Becomes(e, d, out) /\ (d.state # "CLOSED" => conn[e].state # "CLOSED")
      BY <1>1, <1>7, <2>1, <2>3, Zenon
    <2> QED
      BY <1>4, <1>7, <2>4, <2>5, BecomesKeeps, Zenon
  <1>8. CASE Retransmit(e)
    <2>1. {Flight(e, c)} \subseteq Segments
      BY <1>2, SegmentsTyped, Zenon
    <2>2. c.retries < MaxRetries /\ Becomes(e, [c EXCEPT !.retries = @ + 1], {Flight(e, c)})
      BY <1>1, <1>8, Zenon DEF Retransmit
    <2> QED
      BY <1>7, <2>1, <2>2
  <1>9. CASE Probe(e)
    <2>1. PICK g : g = Segment(e, Add(c.snd_nxt, SeqMod - 1), c.rcv_nxt, {"ACK"}, Window(c), <<>>)
      BY Zenon
    <2>2. g \in Segments
      <3>1. /\ c.snd_nxt \in SeqNumbers /\ c.rcv_nxt \in SeqNumbers /\ Peer(e) \in Ends
            /\ {"ACK"} \in SUBSET Flags /\ <<>> \in Seq(Bytes) /\ SeqMod - 1 \in 0 .. SeqMod - 1
        BY <1>2, TcpAssumption DEF Entries, Peer, Ends, Flags
      <3>2. Add(c.snd_nxt, SeqMod - 1) \in SeqNumbers
        BY <3>1, AddWraps, Zenon
      <3>3. Window(c) \in Nat
        BY <1>2, SegmentsTyped, Zenon
      <3> QED
        BY <2>1, <3>1, <3>2, <3>3, Zenon DEF Segment, Segments
    <2>3. c.deadline /\ c.flight = {} /\ c.retries < MaxRetries
      BY <1>1, <1>9, Zenon DEF Probe
    <2>4. Wants(c) /\ c.wnd = 0
      BY <1>2, <2>3, Zenon DEF Sound, Watched
    <2>5. Becomes(e, [c EXCEPT !.retries = @ + 1], {g})
      BY <1>1, <1>9, <2>1, <2>4, Zenon DEF Probe
    <2>6. {g} \subseteq Segments
      BY <2>2, Zenon
    <2> QED
      BY <1>7, <2>3, <2>5, <2>6, Zenon
  <1> QED
    BY <1>5, <1>6, <1>8, <1>9, Zenon DEF Tick

-----------------------------------------------------------------------------
(* The theorems. *)

(* The states in which both ends start: the client's socket exists and is  *)
(* closed, the server's does not exist.                                    *)
LEMMA TcpStarts == Init => TcpInv
  <1> SUFFICES ASSUME Init PROVE TcpInv
    BY Zenon
  <1>1. PICK error \in Errors : error = "none"
    BY Zenon DEF Errors
  <1>2. PICK d : d = [Free EXCEPT !.allocated = TRUE, !.open = TRUE]
    BY Zenon
  <1>3. Sound(Free) /\ Watched(Free) /\ Sound(d) /\ Watched(d)
    BY <1>2, FailSound, Zenon
  <1>4. conn = [e \in Ends |-> IF e = "client" THEN d ELSE Free]
    BY <1>2, Zenon DEF Init
  <1>5. Free.state = "CLOSED" /\ d.state = "CLOSED"
    BY <1>2, Zenon DEF Free
  <1>6. \A e \in Ends : conn[e] \in Entries /\ Sound(conn[e]) /\ Watched(conn[e]) /\ conn[e].state = "CLOSED"
    BY <1>3, <1>4, <1>5, Zenon DEF Sound
  <1>7. conn \in [Ends -> Entries]
    BY <1>4, <1>6, Zenon
  <1>8. \A e \in Ends : sent[e] = <<>> /\ received[e] = <<>>
    BY Zenon DEF Init
  <1>9. /\ sent \in [Ends -> Seq(Nat)] /\ received \in [Ends -> Seq(Seq(Bytes))]
        /\ listening \in BOOLEAN /\ net \subseteq Segments
    BY DEF Init
  <1> QED
    BY <1>6, <1>7, <1>8, <1>9, Zenon DEF TcpInv, TypeOK

(* Whatever the applications call, the network delivers, delays or repeats *)
(* and the timers do: the flight of each end is the front of its buffer    *)
(* and what snd_nxt is ahead of snd_una, an end with something to send is  *)
(* watched by a timer, and the states of an end agree with its buffers.    *)
THEOREM TcpInvariant == Spec => []TcpInv
  <1>1. ASSUME TcpInv, Next PROVE TcpInv'
    <2>1. CASE Calls
      BY <1>1, <2>1, ConnectKeeps, ListenerKeeps, CloseKeeps, SendKeeps, RecvKeeps, Zenon DEF Calls
    <2>2. ASSUME NEW g \in net, PassiveOpen(g)
          PROVE  TcpInv'
      BY <1>1, <2>2, PassiveOpenKeeps, Zenon
    <2>3. ASSUME NEW g \in net, NEW e \in Ends, Input(e, g)
          PROVE  TcpInv'
      <3>1. g \in Segments
        BY <1>1, Zenon DEF TcpInv, TypeOK
      <3>2. CASE SynSentReply(e, g)
        BY <1>1, <3>1, <3>2, SynSentReplyKeeps, Zenon
      <3>3. CASE AcceptedInput(e, g)
        BY <1>1, <3>1, <3>3, AcceptedInputKeeps, Zenon
      <3>4. CASE ResetInput(e, g)
        <4>1. "reset" \in Errors /\ Becomes(e, Fail(conn[e], "reset"), {}) /\ Quiet
          BY <3>4, Zenon DEF ResetInput, Errors
        <4> QED
          BY <1>1, <4>1, EndKeeps, Zenon
      <3>5. CASE \/ NoConnection(e, g) \/ SynAgain(e, g) \/ TimeWaitInput(e, g)
                 \/ OutOfOrder(e, g) \/ RefusedInput(e, g) \/ SynReceivedBadAck(e, g)
        BY <1>1, <3>1, <3>5, AnsweredKeeps, Zenon
      <3> QED
        BY <2>3, <3>2, <3>3, <3>4, <3>5, Zenon DEF Input
    <2>4. ASSUME NEW e \in Ends, Tick(e)
          PROVE  TcpInv'
      BY <1>1, <2>4, TickKeeps, Zenon
    <2> QED
      BY <1>1, <2>1, <2>2, <2>3, <2>4, Zenon DEF Next
  <1>2. ASSUME TcpInv, UNCHANGED vars PROVE TcpInv'
    <2>1. conn' = conn /\ listening' = listening /\ net' = net /\ sent' = sent /\ received' = received
      BY <1>2, Zenon DEF vars
    <2> QED
      BY <1>2, <2>1, Zenon DEF TcpInv, TypeOK
  <1> QED
    BY <1>1, <1>2, TcpStarts, PTL DEF Spec

(* Types: the retries stay within their limit, sequence numbers wrap at    *)
(* the modulus and no segment holds anything else.                         *)
THEOREM TcpTypeCorrect == Spec => []TypeOK
  <1>1. TcpInv => TypeOK
    BY Zenon DEF TcpInv
  <1> QED
    BY <1>1, TcpInvariant, PTL

(* The subtractions of acknowledge() never go below zero, for every size   *)
(* of the buffers and every modulus that is larger than what a flight      *)
(* takes, and whatever acknowledgements arrive.                            *)
THEOREM FlightIsFrontOfBuffer == Spec => []FlightCovers
  <1>1. TcpInv => FlightCovers
    <2> SUFFICES ASSUME TcpInv, NEW e \in Ends
                 PROVE  /\ conn[e].flight_len <= Len(conn[e].tx)
                        /\ conn[e].flight = {} => conn[e].flight_len = 0
                        /\ conn[e].snd_nxt = Add(conn[e].snd_una, conn[e].flight_len
                              + (IF conn[e].flight \cap {"SYN", "FIN"} # {} THEN 1 ELSE 0))
      BY Zenon DEF FlightCovers
    <2>1. Sound(conn[e])
      BY EndInv, Zenon
    <2>2. PICK c : c = conn[e]
      BY Zenon
    <2> QED
      BY <2>1, <2>2, Zenon DEF Sound, Flying, ControlLength
  <1> QED
    BY <1>1, TcpInvariant, PTL

(* A connection with something to send or to close always has a flight or  *)
(* a timer on its closed window, and a timer always has something to do.   *)
THEOREM ConnectionsDoNotStall == Spec => []NoStall
  <1>1. TcpInv => NoStall
    <2> SUFFICES ASSUME TcpInv, NEW e \in Ends
                 PROVE  /\ Idle(conn[e]) /\ Wants(conn[e]) => conn[e].wnd = 0 /\ conn[e].deadline
                        /\ conn[e].flight # {} => conn[e].deadline
                        /\ conn[e].deadline /\ conn[e].flight = {} => Wants(conn[e]) /\ conn[e].wnd = 0
      BY Zenon DEF NoStall
    <2>1. Sound(conn[e]) /\ Watched(conn[e])
      BY EndInv, Zenon
    <2> QED
      BY <2>1, Zenon DEF Sound, Watched
  <1> QED
    BY <1>1, TcpInvariant, PTL
=============================================================================
