------------------------------ MODULE EventRing ------------------------------
(***************************************************************************)
(* The events that administrators may follow (src/network_events.c, and    *)
(* subscription and events() of src/admin_control.c).  The worker numbers  *)
(* the events and keeps the last of them in a ring.  Each job of the       *)
(* management mailbox, whoever asked for it, brings a copy of the ring     *)
(* back (capture, src/admin_worker.c), and complete() then tells every     *)
(* subscriber what is new to it, unless its previous message has not been  *)
(* sent yet.  A subscriber that falls behind by more than the ring holds   *)
(* is told how many events it has lost.                                    *)
(*                                                                         *)
(* The mailbox is the one of AdminMailbox, reduced to who owns it and for  *)
(* whom the job is.  An event is its number and its group.                 *)
(***************************************************************************)
EXTENDS Integers, Sequences, FiniteSets

CONSTANTS RingSize,   \* ADMIN_EVENT_MAX
          Monitors,   \* connections that may subscribe
          Groups,     \* the event groups other than status
          MaxEvents   \* bound of the model: events emitted

ASSUME RingAssumption == RingSize \in Nat \ {0} /\ MaxEvents \in Nat

Status == "status"   \* ADM_STATUS: every subscriber is told of a new generation
AnyGroup == "any"         \* the filter F_PROTO = 0
Scan == "scan"       \* a job for none of the monitors

VARIABLES ring,      \* struct admin_events of the worker
          mailbox,   \* state of the mailbox: idle, asked or replied
          current,   \* the monitor for which the job is, or Scan
          view,      \* job.view.events
          monitor,   \* struct admin_connection of each monitor
          emitted,   \* history: the groups of the events, by their numbers
          told,      \* history: what was written to each subscriber
          since      \* history: the last event before it subscribed

eventVars == <<ring, mailbox, current, view, monitor, emitted, told, since>>
history == <<emitted, told, since>>

NoEvent == [sequence |-> 0, group |-> AnyGroup]
EmptyRing == [sequence |-> 0, entries |-> [i \in 0 .. RingSize - 1 |-> NoEvent]]

\* A connection: output is the message that is being sent (length > 0), filter
\* is F_PROTO of the request, sequence the last event accounted for.
Gone == [open |-> FALSE, pending |-> FALSE, subscribed |-> FALSE, filter |-> AnyGroup,
         sequence |-> 0, writing |-> FALSE, output |-> <<>>]

EventInit ==
    /\ ring = EmptyRing /\ view = EmptyRing
    /\ mailbox = "idle" /\ current = Scan
    /\ monitor = [m \in Monitors |-> Gone]
    /\ emitted = <<>>
    /\ told = [m \in Monitors |-> <<>>]
    /\ since = [m \in Monitors |-> 0]

-----------------------------------------------------------------------------
(* The worker. *)

\* admin_event_emit()
Emit(group) ==
    LET seq == ring.sequence + 1 IN
    /\ seq <= MaxEvents
    /\ ring' = [sequence |-> seq,
                entries |-> [ring.entries EXCEPT
                                 ![(seq - 1) % RingSize] = [sequence |-> seq, group |-> group]]]
    /\ emitted' = Append(emitted, group)
    /\ UNCHANGED <<mailbox, current, view, monitor, told, since>>

\* admin_progress(): the job's own events are steps of Emit before the capture.
Capture ==
    /\ mailbox = "asked"
    /\ view' = ring
    /\ mailbox' = "replied"
    /\ UNCHANGED <<ring, current, monitor, history>>

-----------------------------------------------------------------------------
(* The management control thread. *)

\* accept_clients(), read_client() and schedule(): a monitor's request, with the
\* group it wants to follow, becomes the job.
AskMonitor(m) ==
    /\ mailbox = "idle"
    /\ ~monitor[m].subscribed /\ ~monitor[m].pending /\ ~monitor[m].writing
    /\ \E filter \in Groups \cup {AnyGroup} :
           monitor' = [monitor EXCEPT ![m] = [Gone EXCEPT !.open = TRUE, !.pending = TRUE,
                                                          !.filter = filter]]
    /\ told' = [told EXCEPT ![m] = <<>>]
    /\ mailbox' = "asked" /\ current' = m
    /\ UNCHANGED <<ring, view, emitted, since>>

\* A mutant: the scan is for connections that have not subscribed.
AskUnsubscribed ==
    /\ mailbox = "idle" /\ \E m \in Monitors : ~monitor[m].subscribed
    /\ mailbox' = "asked" /\ current' = Scan
    /\ UNCHANGED <<ring, view, monitor, history>>

\* schedule(): a scan for the subscribers, or another client's request.
AskOther ==
    /\ mailbox = "idle"
    /\ mailbox' = "asked" /\ current' = Scan
    /\ UNCHANGED <<ring, view, monitor, history>>

\* events(): how many events the ring no longer holds.
Lost(c) ==
    IF view.sequence - c.sequence > RingSize
    THEN view.sequence - c.sequence - RingSize ELSE 0

Wanted(c, group) == c.filter \in {AnyGroup, group} \/ group = Status

Record(event, lost) ==
    [sequence |-> event.sequence, group |-> event.group, lost |-> lost]

\* A mutant: a loss is told only with an event.
NoOverflow(c) == <<>>
Overflow(c) ==
    <<[sequence |-> view.sequence, group |-> "overflow", lost |-> Lost(c)]>>

\* events(): the records for one subscriber.  The first one carries the loss; when
\* the filter leaves none, a record of the loss alone.
Records(c) ==
    LET first == c.sequence + Lost(c)
        new == [i \in 1 .. view.sequence - first |-> view.entries[(first + i - 1) % RingSize]]
        wanted == SelectSeq(new, LAMBDA e : Wanted(c, e.group))
    IN  IF wanted # <<>>
        THEN [i \in DOMAIN wanted |-> Record(wanted[i], IF i = 1 THEN Lost(c) ELSE 0)]
        ELSE IF Lost(c) > 0 THEN Overflow(c) ELSE <<>>

\* events() for one connection.
Told(c) ==
    IF c.open /\ c.subscribed /\ c.sequence # view.sequence /\ ~c.writing
    THEN [c EXCEPT !.sequence = view.sequence, !.output = Records(c),
                   !.writing = (Records(c) # <<>>)]
    ELSE c

\* complete(): the subscription is answered, then the subscribers are told.
Answered(m) ==
    IF m # current THEN monitor[m]
    ELSE IF monitor[m].open
    THEN [monitor[m] EXCEPT !.pending = FALSE, !.subscribed = TRUE,
                            !.sequence = view.sequence, !.writing = TRUE]
    ELSE Gone

Complete ==
    /\ mailbox = "replied"
    /\ monitor' = [m \in Monitors |-> Told(Answered(m))]
    /\ since' = IF current = Scan THEN since ELSE [since EXCEPT ![current] = view.sequence]
    /\ mailbox' = "idle" /\ current' = Scan
    /\ UNCHANGED <<ring, view, emitted, told>>

\* write_client(): the message has been sent.
Write(m) ==
    /\ monitor[m].open /\ monitor[m].writing
    /\ told' = [told EXCEPT ![m] = @ \o monitor[m].output]
    /\ monitor' = [monitor EXCEPT ![m].writing = FALSE, ![m].output = <<>>]
    /\ UNCHANGED <<ring, mailbox, current, view, emitted, since>>

\* disconnect(): the slot stays reserved while its job is under way.
Disconnect(m) ==
    /\ monitor[m].open
    /\ monitor' = [monitor EXCEPT ![m] =
                       IF @.pending THEN [@ EXCEPT !.open = FALSE] ELSE Gone]
    /\ told' = [told EXCEPT ![m] = <<>>]
    /\ UNCHANGED <<ring, mailbox, current, view, emitted, since>>

EventNext ==
    \/ \E group \in Groups \cup {Status} : Emit(group)
    \/ Capture \/ AskOther \/ Complete
    \/ \E m \in Monitors : AskMonitor(m) \/ Write(m) \/ Disconnect(m)

\* schedule() scans only when somebody has subscribed.
ScanDue == \E m \in Monitors : monitor[m].subscribed

\* The worker's loop and the control thread's loop keep running, the scan is due
\* every 100 ms, and a subscriber reads what it is sent.
EventFairness ==
    /\ WF_eventVars(Capture) /\ WF_eventVars(ScanDue /\ AskOther) /\ WF_eventVars(Complete)
    /\ \A m \in Monitors : WF_eventVars(Write(m))

EventSpec == EventInit /\ [][EventNext]_eventVars /\ EventFairness

-----------------------------------------------------------------------------
(* Properties. *)

\* What a subscriber was told, and what is on its way.
AllTold(m) == told[m] \o monitor[m].output

\* The event accounted for before the k-th record.
Before(m, k) == IF k = 1 THEN since[m] ELSE AllTold(m)[k - 1].sequence

WantedIn(m, numbers) == {n \in numbers : Wanted(monitor[m], emitted[n])}

\* A subscriber is told every event it wants since it subscribed, once, in order
\* and as it happened, or is told how many it lost: the loss reported with a
\* record is at least what it missed since the record before, and at most what
\* happened in between (events(), the ring of admin_event_emit()).
EventsAccounted ==
    \A m \in Monitors : monitor[m].subscribed =>
        LET all == AllTold(m) IN
        /\ \A k \in DOMAIN all :
               LET last == all[k].sequence - (IF all[k].group = "overflow" THEN 0 ELSE 1)
                   gap == Before(m, k) + 1 .. last
               IN  /\ Cardinality(WantedIn(m, gap)) <= all[k].lost
                   /\ all[k].lost <= Cardinality(gap)
                   /\ last < all[k].sequence =>
                          emitted[all[k].sequence] = all[k].group /\ Wanted(monitor[m], all[k].group)
        /\ WantedIn(m, Before(m, Len(all) + 1) + 1 .. monitor[m].sequence) = {}

\* Every event is accounted for in the end to everyone who subscribed before it
\* and stays: its message is sent (events() skips a subscriber whose message is
\* still being sent, and nothing but the next job tells it more).
EventsReach ==
    \A m \in Monitors : \A n \in 1 .. MaxEvents :
        (monitor[m].subscribed /\ ring.sequence >= n)
            ~> (~monitor[m].subscribed \/ (monitor[m].sequence >= n /\ ~monitor[m].writing))
=============================================================================
