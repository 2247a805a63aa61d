---------------------------- MODULE BoundedFifo ----------------------------
(***************************************************************************)
(* What include/daemon.h promises of a daemon queue: a bounded first-in    *)
(* first-out queue shared by one producer and one consumer.  Push and pop  *)
(* take effect at once, a push is refused only while the queue is full, a  *)
(* pop only while it is empty, and room seen by the producer stays until   *)
(* the producer uses it.                                                   *)
(***************************************************************************)
EXTENDS Naturals, Sequences

CONSTANTS Items,    \* the items a producer may push
          NoItem,   \* result of a pop that found nothing
          Capacity  \* DAEMON_QUEUE_SIZE

VARIABLES queue,    \* the items pushed and not yet popped, oldest first
          pushed,   \* result of the last push: accepted or refused
          popped,   \* result of the last pop
          room      \* the producer has seen room and has not used it

fifoVars == <<queue, pushed, popped, room>>

Init ==
    /\ queue = <<>>
    /\ pushed = TRUE
    /\ popped = NoItem
    /\ room = FALSE

Room ==
    /\ room' = (Len(queue) < Capacity)
    /\ UNCHANGED <<queue, pushed, popped>>

Push(item) ==
    /\ Len(queue) < Capacity
    /\ queue' = Append(queue, item)
    /\ pushed' = TRUE
    /\ room' = FALSE
    /\ UNCHANGED popped

Refuse ==
    /\ Len(queue) = Capacity
    /\ ~room
    /\ pushed' = FALSE
    /\ UNCHANGED <<queue, popped, room>>

Pop ==
    /\ queue # <<>>
    /\ popped' = Head(queue)
    /\ queue' = Tail(queue)
    /\ UNCHANGED <<pushed, room>>

Empty ==
    /\ queue = <<>>
    /\ popped' = NoItem
    /\ UNCHANGED <<queue, pushed, room>>

Next ==
    \/ Room
    \/ \E item \in Items : Push(item)
    \/ Refuse
    \/ Pop
    \/ Empty

Spec == Init /\ [][Next]_fifoVars
=============================================================================
