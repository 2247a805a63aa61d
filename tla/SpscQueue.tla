----------------------------- MODULE SpscQueue -----------------------------
(***************************************************************************)
(* The single-producer single-consumer ring of src/daemon/queue.c.  Each   *)
(* access to a shared atomic and each word of an item copy is a step of    *)
(* its own, so the two threads interleave inside push and pop.  The        *)
(* indices are C unsigned integers: they wrap at Wrap, and the ring index  *)
(* is their remainder by Size.                                             *)
(*                                                                         *)
(* An index is written by one thread only, so the relaxed load of a        *)
(* thread's own index is merged with the acquire load that follows it; the *)
(* loaded value of the other thread's index may be stale by the time the   *)
(* copy and the publication happen.                                        *)
(***************************************************************************)
EXTENDS Integers

CONSTANTS Size,    \* DAEMON_QUEUE_SIZE
          Wrap,    \* 2^32: the number of values of an unsigned index
          Words,   \* an item is copied in Words steps
          Values,  \* what a word may hold
          Zero,    \* the value memset leaves in a word
          NoItem   \* result of a pop that found nothing

ASSUME SizeAssumption == Size \in Nat \ {0}
ASSUME WrapAssumption == Wrap \in Nat /\ Wrap >= 2 * Size /\ Wrap % Size = 0
ASSUME WordsAssumption == Words \in Nat \ {0}
ASSUME ZeroAssumption == Zero \in Values
ASSUME NoItemAssumption == NoItem \notin [1..Words -> Values]

Items == [1..Words -> Values]
Indices == 0..(Wrap - 1)
Slots == 0..(Size - 1)

VARIABLES read,     \* q->read
          write,    \* q->write
          entries,  \* q->entries
          ppc,      \* where the producer is inside daemon_queue_push
          pitem,    \* the item being pushed
          pword,    \* the next word of it to copy
          pushed,   \* whether the last push succeeded
          room,     \* daemon_queue_room was true and no push has succeeded since
          cpc,      \* where the consumer is inside daemon_queue_pop
          citem,    \* the caller's item, filled word by word
          cword,    \* the next word of it to copy
          popped    \* the item of the last pop, or NoItem

producerVars == <<ppc, pitem, pword, pushed, room>>
consumerVars == <<cpc, citem, cword, popped>>
vars == <<read, write, entries, producerVars, consumerVars>>

Phases == {"idle", "copy", "publish"}
ZeroItem == [w \in 1..Words |-> Zero]

\* The C expression write - read on unsigned integers.
Used == (write - read) % Wrap
Slot(index) == index % Size

Advance(index) == (index + 1) % Wrap

\* Types; the indices wrap as unsigned integers do.
TypeOK ==
    /\ read \in Indices
    /\ write \in Indices
    /\ entries \in [Slots -> Items]
    /\ ppc \in Phases
    /\ pitem \in Items
    /\ pword \in 1..(Words + 1)
    /\ pushed \in BOOLEAN
    /\ room \in BOOLEAN
    /\ cpc \in Phases
    /\ citem \in Items
    /\ cword \in 1..(Words + 1)
    /\ popped \in Items \cup {NoItem}

\* daemon_queue_init
Init ==
    /\ read = 0
    /\ write = 0
    /\ entries = [s \in Slots |-> ZeroItem]
    /\ ppc = "idle" /\ pitem = ZeroItem /\ pword = 1 /\ pushed = TRUE /\ room = FALSE
    /\ cpc = "idle" /\ citem = ZeroItem /\ cword = 1 /\ popped = NoItem

-----------------------------------------------------------------------------
(* The producer.                                                           *)

\* A mutant: a full queue counts as having room.
HasRoomOffByOne == Used <= Size

\* daemon_queue_room
HasRoom == Used < Size

CheckRoom ==
    /\ ppc = "idle"
    /\ room' = HasRoom
    /\ UNCHANGED <<read, write, entries, ppc, pitem, pword, pushed, consumerVars>>

\* daemon_queue_push refuses an item when every slot is in use.
Full == Used = Size

PushFull ==
    /\ ppc = "idle"
    /\ Full
    /\ pushed' = FALSE
    /\ UNCHANGED <<read, write, entries, ppc, pitem, pword, room, consumerVars>>

PushBegin(item) ==
    /\ ppc = "idle"
    /\ ~Full
    /\ ppc' = "copy"
    /\ pitem' = item
    /\ pword' = 1
    /\ UNCHANGED <<read, write, entries, pushed, room, consumerVars>>

PushWord ==
    /\ ppc = "copy"
    /\ entries' = [entries EXCEPT ![Slot(write)][pword] = pitem[pword]]
    /\ pword' = pword + 1
    /\ ppc' = IF pword = Words THEN "publish" ELSE "copy"
    /\ UNCHANGED <<read, write, pitem, pushed, room, consumerVars>>

PushPublish ==
    /\ ppc = "publish"
    /\ write' = Advance(write)
    /\ ppc' = "idle"
    /\ pushed' = TRUE
    /\ room' = FALSE
    /\ UNCHANGED <<read, entries, pitem, pword, consumerVars>>

-----------------------------------------------------------------------------
(* The consumer.                                                           *)

PopEmpty ==
    /\ cpc = "idle"
    /\ read = write
    /\ popped' = NoItem
    /\ UNCHANGED <<read, write, entries, cpc, citem, cword, producerVars>>

\* A mutant: the slot is given back to the producer before it has been copied out.
PopReleasesEarly ==
    /\ cpc = "idle"
    /\ read # write
    /\ cpc' = "copy"
    /\ cword' = 1
    /\ read' = Advance(read)
    /\ UNCHANGED <<write, entries, citem, popped, producerVars>>

PopBegin ==
    /\ cpc = "idle"
    /\ read # write
    /\ cpc' = "copy"
    /\ cword' = 1
    /\ UNCHANGED <<read, write, entries, citem, popped, producerVars>>

PopWord ==
    /\ cpc = "copy"
    /\ citem' = [citem EXCEPT ![cword] = entries[Slot(read)][cword]]
    /\ cword' = cword + 1
    /\ cpc' = IF cword = Words THEN "publish" ELSE "copy"
    /\ UNCHANGED <<read, write, entries, popped, producerVars>>

PopPublish ==
    /\ cpc = "publish"
    /\ read' = Advance(read)
    /\ cpc' = "idle"
    /\ popped' = citem
    /\ UNCHANGED <<write, entries, citem, cword, producerVars>>

Producer ==
    \/ CheckRoom
    \/ PushFull
    \/ \E item \in Items : PushBegin(item)
    \/ PushWord
    \/ PushPublish

Consumer == PopEmpty \/ PopBegin \/ PopWord \/ PopPublish

Next == Producer \/ Consumer

Spec == Init /\ [][Next]_vars

-----------------------------------------------------------------------------
(* "Release publishes a full copy; acquire precedes reading/reusing each   *)
(* slot" (include/daemon.h): while the producer copies into a slot the     *)
(* consumer is not copying out of the same slot, at every index value,     *)
(* the wrap of the indices included.                                       *)
SlotExclusive ==
    (ppc \in {"copy", "publish"} /\ cpc \in {"copy", "publish"})
        => Slot(write) # Slot(read)

(* "This thread is the sole response producer; room cannot disappear"      *)
(* (daemon_progress in src/daemon/dispatch.c): once daemon_queue_room has  *)
(* been seen true, the queue is not full until the producer itself pushes, *)
(* so the unchecked push that follows cannot be refused.                   *)
RoomStays == room => ~Full

\* The queue's contents, oldest first: what the two indices delimit.
Contents == [i \in 1..Used |-> entries[Slot(read + i - 1)]]

Fifo == INSTANCE BoundedFifo WITH queue <- Contents, Capacity <- Size

(* The ring implements the bounded FIFO: every pop returns, whole and in   *)
(* order, an item that was pushed, none is lost or returned twice, and a   *)
(* refusal means full (push) or empty (pop) at the moment of the load.     *)
ImplementsFifo == Fifo!Spec
=============================================================================
