----------------------------- MODULE IpcProofs -----------------------------
(***************************************************************************)
(* Proofs about the ring of src/daemon/queue.c and about the client        *)
(* library of src/client.c.                                                *)
(*                                                                         *)
(* The ring, for every size, every wrap of the unsigned indices that is a  *)
(* multiple of the size, and every item width: the two indices delimit a   *)
(* window of at most Size entries (Window); the producer copies into the   *)
(* slot just past it, the consumer out of its first slot (Producing,       *)
(* Consuming).                                                             *)
(*                                                                         *)
(* The library, for every number of processes, sessions and calls: only    *)
(* the process that made a session uses it (HolderInv), one request or     *)
(* answer at most is on its way, and it is the one its owner waits for     *)
(* (FlowInv).                                                              *)
(***************************************************************************)
EXTENDS SpscQueue, ClientLibrary, ModularArithmetic, TLAPS

(* Sequences are equal when their lengths and items are.                   *)
LEMMA SeqEqual ==
    ASSUME NEW S, NEW s \in Seq(S), NEW t \in Seq(S),
           Len(s) = Len(t), \A i \in 1 .. Len(s) : s[i] = t[i]
    PROVE  s = t
  OBVIOUS

(* The empty sequence is the one of length 0.                              *)
LEMMA EmptySeq ==
    ASSUME NEW S
    PROVE  /\ <<>> \in Seq(S) /\ \A q \in Seq(S) : q = <<>> <=> Len(q) = 0
  OBVIOUS

(* A sequence with one more item at its end.                               *)
LEMMA AppendProperties ==
    ASSUME NEW S, NEW q \in Seq(S), NEW e \in S
    PROVE  /\ Append(q, e) \in Seq(S) /\ Len(Append(q, e)) = Len(q) + 1
           /\ \A i \in 1 .. Len(q) : Append(q, e)[i] = q[i]
           /\ Append(q, e)[Len(q) + 1] = e
  OBVIOUS

(* A sequence without its first item.                                      *)
LEMMA HeadTailProperties ==
    ASSUME NEW S, NEW q \in Seq(S), q # <<>>
    PROVE  /\ Head(q) \in S /\ Head(q) = q[1] /\ Tail(q) \in Seq(S)
           /\ Len(Tail(q)) = Len(q) - 1
           /\ \A i \in 1 .. Len(Tail(q)) : Tail(q)[i] = q[i + 1]
  OBVIOUS

-----------------------------------------------------------------------------
(* The slot k places after slot s in the ring.                             *)
Shift(s, k) == IF s + k < Size THEN s + k ELSE s + k - Size

(* At most Size entries are in use, and the write slot is the one just     *)
(* past them.                                                              *)
Window ==
    /\ Used <= Size
    /\ Slot(write) = Shift(Slot(read), Used)

(* Between its check and its publication the producer has a free slot, and *)
(* the words copied so far are in it.                                      *)
Producing ==
    /\ ppc # "idle" => Used < Size
    /\ ppc = "copy" =>
         /\ pword \in 1..Words
         /\ \A w \in 1..(pword - 1) : entries[Slot(write)][w] = pitem[w]
    /\ ppc = "publish" => entries[Slot(write)] = pitem

(* Between its check and its publication the consumer has an entry, and    *)
(* the words copied so far are that entry's.                               *)
Consuming ==
    /\ cpc # "idle" => Used > 0
    /\ cpc = "copy" =>
         /\ cword \in 1..Words
         /\ \A w \in 1..(cword - 1) : citem[w] = entries[Slot(read)][w]
    /\ cpc = "publish" => citem = entries[Slot(read)]

(* The inductive invariant of the ring.                                    *)
RingInv == TypeOK /\ Window /\ Producing /\ Consuming /\ RoomStays

-----------------------------------------------------------------------------

(* The C subtraction of unsigned indices, without the remainder.           *)
LEMMA Distance ==
    ASSUME NEW w \in Indices, NEW r \in Indices
    PROVE  (w - r) % Wrap = IF w >= r THEN w - r ELSE w - r + Wrap
  <1> USE SizeAssumption, WrapAssumption DEF Indices
  <1>1. CASE w >= r
    BY <1>1, ModSmall
  <1>2. CASE w < r
    <2> DEFINE x == w - r
    <2>1. x \in Int /\ x + Wrap \in 0..(Wrap - 1) /\ Wrap \in Nat \ {0}
      BY <1>2
    <2> HIDE DEF x
    <2>2. (x + Wrap) % Wrap = x % Wrap
      BY <2>1, ModAdd, Zenon
    <2>3. (x + Wrap) % Wrap = x + Wrap
      BY <2>1, ModSmall, Zenon
    <2>4. x % Wrap = x + Wrap
      BY <2>2, <2>3, Zenon
    <2> QED
      BY <1>2, <2>4 DEF x
  <1> QED
    BY <1>1, <1>2

(* The successor of an unsigned index, without the remainder.              *)
LEMMA AdvanceCases ==
    ASSUME NEW i \in Indices
    PROVE  Advance(i) = IF i = Wrap - 1 THEN 0 ELSE i + 1
  <1>1. Wrap \in Nat \ {0} /\ i \in Int /\ i \in 0..(Wrap - 1)
    BY SizeAssumption, WrapAssumption DEF Indices
  <1>2. i % Wrap = i
    BY <1>1, ModSmall, Zenon
  <1>3. (i + 1) % Wrap = IF i % Wrap = Wrap - 1 THEN 0 ELSE (i % Wrap) + 1
    BY <1>1, ModSucc, Zenon
  <1> QED
    BY <1>2, <1>3, Zenon DEF Advance

(* A publication by the producer lengthens the window by one entry.        *)
LEMMA DistanceAfterPush ==
    ASSUME NEW w \in Indices, NEW r \in Indices, (w - r) % Wrap < Size
    PROVE  /\ Advance(w) \in Indices
           /\ (Advance(w) - r) % Wrap = ((w - r) % Wrap) + 1
  <1> DEFINE a == Advance(w)
  <1>1. a = IF w = Wrap - 1 THEN 0 ELSE w + 1
    BY AdvanceCases, Zenon
  <1> HIDE DEF a
  <1>2. a \in Indices
    BY <1>1, SizeAssumption, WrapAssumption DEF Indices
  <1>3. (a - r) % Wrap = IF a >= r THEN a - r ELSE a - r + Wrap
    BY <1>2, Distance, Zenon
  <1>4. (w - r) % Wrap = IF w >= r THEN w - r ELSE w - r + Wrap
    BY Distance, Zenon
  <1>5. (a - r) % Wrap = ((w - r) % Wrap) + 1
    BY <1>1, <1>3, <1>4, SizeAssumption, WrapAssumption DEF Indices
  <1> QED
    BY <1>2, <1>5, Zenon DEF a

(* A publication by the consumer shortens the window by one entry.         *)
LEMMA DistanceAfterPop ==
    ASSUME NEW w \in Indices, NEW r \in Indices, (w - r) % Wrap > 0
    PROVE  /\ Advance(r) \in Indices
           /\ (w - Advance(r)) % Wrap = ((w - r) % Wrap) - 1
  <1> DEFINE a == Advance(r)
  <1>1. a = IF r = Wrap - 1 THEN 0 ELSE r + 1
    BY AdvanceCases, Zenon
  <1> HIDE DEF a
  <1>2. a \in Indices
    BY <1>1, SizeAssumption, WrapAssumption DEF Indices
  <1>3. (w - a) % Wrap = IF w >= a THEN w - a ELSE w - a + Wrap
    BY <1>2, Distance, Zenon
  <1>4. (w - r) % Wrap = IF w >= r THEN w - r ELSE w - r + Wrap
    BY Distance, Zenon
  <1>5. (w - a) % Wrap = ((w - r) % Wrap) - 1
    BY <1>1, <1>3, <1>4, SizeAssumption, WrapAssumption DEF Indices
  <1> QED
    BY <1>2, <1>5, Zenon DEF a

(* Consecutive indices have consecutive slots, also where the index wraps: *)
(* this is where Size must divide Wrap.                                    *)
LEMMA SlotAdvance ==
    ASSUME NEW i \in Indices
    PROVE  Slot(Advance(i)) = IF Slot(i) = Size - 1 THEN 0 ELSE Slot(i) + 1
  <1> USE SizeAssumption, WrapAssumption
  <1>1. i \in Int /\ Wrap - 1 \in Int
    BY DEF Indices
  <1>2. CASE i = Wrap - 1
    <2>1. Advance(i) = 0
      BY <1>2, AdvanceCases, Zenon
    <2>2. 0 % Size = 0
      BY ModSmall
    <2>3. (i + 1) % Size = 0
      BY <1>2
    <2>4. i % Size \in 0..(Size - 1)
      BY <1>1, ModRange, Zenon
    <2>5. (i + 1) % Size = IF i % Size = Size - 1 THEN 0 ELSE (i % Size) + 1
      BY <1>1, ModSucc, Zenon
    <2>6. i % Size = Size - 1
      BY <2>3, <2>4, <2>5
    <2> QED
      BY <2>1, <2>2, <2>6, Zenon DEF Slot
  <1>3. CASE i # Wrap - 1
    <2>1. Advance(i) = i + 1
      BY <1>3, AdvanceCases, Zenon
    <2> QED
      BY <1>1, <2>1, ModSucc, Zenon DEF Slot
  <1> QED
    BY <1>2, <1>3, Zenon

(* Slots are ring positions.                                               *)
LEMMA SlotRange ==
    ASSUME NEW i \in Int
    PROVE  Slot(i) \in Slots
  BY ModRange, SizeAssumption, Zenon DEF Slot, Slots

(* The slot of the k-th entry of the window.                               *)
LEMMA SlotShift ==
    ASSUME NEW i \in Int, NEW k \in 0..Size
    PROVE  Slot(i + k) = Shift(Slot(i), k)
  <1> USE SizeAssumption
  <1> DEFINE d == i \div Size
             s == i % Size
  <1>1. d \in Int /\ s \in 0..(Size - 1) /\ i = Size * d + s
    BY DivMod, ModRange, Zenon
  <1> HIDE DEF d, s
  <1>2. CASE s + k < Size
    <2>1. i + k = Size * d + (s + k) /\ s + k \in 0..(Size - 1) /\ i + k \in Int
      BY <1>1, <1>2
    <2>2. (i + k) % Size = s + k
      BY <1>1, <2>1, ModUnique, Zenon
    <2> QED
      BY <1>2, <2>2, Zenon DEF Slot, Shift, s
  <1>3. CASE s + k >= Size
    <2>1. i + k = Size * (d + 1) + (s + k - Size) /\ s + k - Size \in 0..(Size - 1)
             /\ i + k \in Int /\ d + 1 \in Int
      BY <1>1, <1>3
    <2>2. (i + k) % Size = s + k - Size
      BY <1>1, <2>1, ModUnique, Zenon
    <2> QED
      BY <1>1, <1>3, <2>2 DEF Slot, Shift, s
  <1> QED
    BY <1>1, <1>2, <1>3

(* The window length is a natural number.                                  *)
LEMMA UsedType == TypeOK => Used \in 0..(Wrap - 1)
  <1> SUFFICES ASSUME TypeOK PROVE Used \in 0..(Wrap - 1)
    BY Zenon
  <1>1. write - read \in Int /\ Wrap \in Nat \ {0}
    BY SizeAssumption, WrapAssumption DEF TypeOK, Indices
  <1> QED
    BY <1>1, ModRange, Zenon DEF Used

-----------------------------------------------------------------------------

\* The ring that daemon_queue_init sets up satisfies the invariant.
(* An empty ring satisfies it.                                             *)
LEMMA InitRing == Init => RingInv
  <1> SUFFICES ASSUME Init PROVE RingInv
    BY Zenon
  <1> USE SizeAssumption, WrapAssumption, WordsAssumption, ZeroAssumption
  <1>1. ZeroItem \in Items
    BY Zenon DEF ZeroItem, Items
  <1>2. TypeOK
    <2>1. 0 \in Indices /\ 1 \in 1..(Words + 1)
      BY DEF Indices
    <2>2. entries \in [Slots -> Items]
      BY <1>1, Zenon DEF Init
    <2> QED
      BY <1>1, <2>1, <2>2, Zenon DEF Init, TypeOK, Phases
  <1>3. Used = 0
    BY <1>2, Distance DEF Init, Used, Indices
  <1>4. Slot(0) = 0
    BY ModSmall DEF Slot
  <1> QED
    BY <1>2, <1>3, <1>4 DEF Init, RingInv, Window, Shift, Producing, Consuming, RoomStays, Full

(* One step of the producer keeps the ring invariant.                      *)
LEMMA ProducerKeepsRing == RingInv /\ Producer => RingInv'
  <1> SUFFICES ASSUME RingInv, Producer PROVE RingInv'
    BY Zenon
  <1> USE SizeAssumption, WrapAssumption, WordsAssumption
  <1>1. /\ Used \in Nat
        /\ read \in Int /\ write \in Int
        /\ Slot(read) \in Slots /\ Slot(write) \in Slots
    BY UsedType, SlotRange DEF RingInv, TypeOK, Indices
  <1>2. CASE CheckRoom
    BY <1>2 DEF CheckRoom, HasRoom, RingInv, TypeOK, Window, Producing, Consuming, RoomStays,
                Full, Used, consumerVars
  <1>3. CASE PushFull
    BY <1>3, Zenon DEF PushFull, RingInv, TypeOK, Window, Producing, Consuming, RoomStays,
                Full, Used, consumerVars
  <1>4. ASSUME NEW item \in Items, PushBegin(item) PROVE RingInv'
    <2>1. UNCHANGED <<read, write, entries, Used, Slot(read), Slot(write)>>
      BY <1>4, Zenon DEF PushBegin, Used
    <2>2. Used < Size
      BY <1>1, <1>4 DEF PushBegin, Full, RingInv, Window
    <2>3. TypeOK'
      BY <1>4 DEF PushBegin, RingInv, TypeOK, Phases, consumerVars
    <2>4. Producing'
      BY <1>4, <2>1, <2>2 DEF PushBegin, Producing
    <2> QED
      BY <1>4, <2>1, <2>3, <2>4, Zenon
      DEF PushBegin, RingInv, Window, Consuming, RoomStays, Full, consumerVars
  <1>5. CASE PushWord
    <2>1. UNCHANGED <<read, write, Used, Slot(read), Slot(write)>>
      BY <1>5, Zenon DEF PushWord, Used
    <2>2. /\ Used < Size /\ pword \in 1..Words
          /\ entries \in [Slots -> Items] /\ pitem \in Items
      BY <1>5, Zenon DEF PushWord, RingInv, TypeOK, Producing
    <2>3. entries' = [entries EXCEPT ![Slot(write)] = [@ EXCEPT ![pword] = pitem[pword]]]
      BY <1>5, Zenon DEF PushWord
    <2>4. entries[Slot(write)] \in [1..Words -> Values] /\ pitem \in [1..Words -> Values]
      BY <1>1, <2>2, Zenon DEF Items
    <2>5. /\ entries'[Slot(write)] = [entries[Slot(write)] EXCEPT ![pword] = pitem[pword]]
          /\ \A s \in Slots : s # Slot(write) => entries'[s] = entries[s]
          /\ entries' \in [Slots -> Items]
      BY <1>1, <2>2, <2>3, <2>4, Zenon DEF Items
    <2>6. TypeOK'
      BY <1>5, <2>2, <2>5 DEF PushWord, RingInv, TypeOK, Phases, consumerVars
    <2>7. Producing'
      <3>1. \A w \in 1..(pword - 1) : entries[Slot(write)][w] = pitem[w]
        BY <1>5, Zenon DEF PushWord, RingInv, Producing
      <3>2. \A w \in 1..pword : entries'[Slot(write)][w] = pitem[w]
        BY <2>2, <2>4, <2>5, <3>1
      <3>3. CASE pword = Words
        <4>1. entries'[Slot(write)] = pitem
          BY <2>2, <2>4, <2>5, <3>2, <3>3
        <4> QED
          BY <1>5, <2>1, <2>2, <3>3, <4>1, Zenon DEF PushWord, Producing
      <3>4. CASE pword # Words
        BY <1>5, <2>1, <2>2, <3>2, <3>4 DEF PushWord, Producing
      <3> QED
        BY <3>3, <3>4, Zenon
    <2>8. Consuming'
      <3>1. cpc # "idle" => Slot(read) # Slot(write)
        BY <1>1, <2>2 DEF RingInv, Window, Consuming, Shift, Slots
      <3>2. cpc # "idle" => entries'[Slot(read)] = entries[Slot(read)]
        BY <1>1, <2>5, <3>1, Zenon
      <3> QED
        BY <1>5, <2>1, <3>2, Zenon DEF PushWord, RingInv, Consuming, consumerVars
    <2> QED
      BY <1>5, <2>1, <2>6, <2>7, <2>8, Zenon DEF PushWord, RingInv, Window, RoomStays, Full
  <1>6. CASE PushPublish
    <2>1. Used < Size /\ read \in Indices /\ write \in Indices
      BY <1>6, Zenon DEF PushPublish, RingInv, TypeOK, Producing
    <2>2. Advance(write) \in Indices /\ Used' = Used + 1
      BY <1>6, <2>1, DistanceAfterPush, Zenon DEF PushPublish, Used
    <2>3. Slot(write)' = IF Slot(write) = Size - 1 THEN 0 ELSE Slot(write) + 1
      BY <1>6, <2>1, SlotAdvance, Zenon DEF PushPublish, Slot
    <2>4. Slot(read)' = Slot(read)
      BY <1>6, Zenon DEF PushPublish, Slot
    <2>5. TypeOK'
      BY <1>6, <2>2, Zenon DEF PushPublish, RingInv, TypeOK, Phases, consumerVars
    <2>6. Window'
      BY <1>1, <2>1, <2>2, <2>3, <2>4 DEF RingInv, Window, Shift, Slots
    <2>7. Consuming'
      BY <1>1, <1>6, <2>2, <2>4 DEF PushPublish, RingInv, Consuming, consumerVars
    <2> QED
      BY <1>6, <2>5, <2>6, <2>7, Zenon DEF PushPublish, RingInv, Producing, RoomStays
  <1> QED
    BY <1>2, <1>3, <1>4, <1>5, <1>6, Zenon DEF Producer

(* One step of the consumer keeps the ring invariant.                      *)
LEMMA ConsumerKeepsRing == RingInv /\ Consumer => RingInv'
  <1> SUFFICES ASSUME RingInv, Consumer PROVE RingInv'
    BY Zenon
  <1> USE SizeAssumption, WrapAssumption, WordsAssumption
  <1>1. /\ Used \in Nat
        /\ read \in Indices /\ write \in Indices /\ read \in Int /\ write \in Int
        /\ Slot(read) \in Slots /\ Slot(write) \in Slots
    BY UsedType, SlotRange DEF RingInv, TypeOK, Indices
  <1>2. CASE PopEmpty
    BY <1>2, Zenon DEF PopEmpty, RingInv, TypeOK, Window, Producing, Consuming, RoomStays,
                Full, Used, producerVars
  <1>3. CASE PopBegin
    <2>1. UNCHANGED <<read, write, entries, Used, Slot(read), Slot(write)>>
      BY <1>3, Zenon DEF PopBegin, Used
    <2>2. Used > 0
      BY <1>1, <1>3, Distance DEF PopBegin, Used, Indices
    <2>3. TypeOK'
      BY <1>3 DEF PopBegin, RingInv, TypeOK, Phases, producerVars
    <2>4. Consuming'
      BY <1>3, <2>1, <2>2 DEF PopBegin, Consuming
    <2> QED
      BY <1>3, <2>1, <2>3, <2>4, Zenon
      DEF PopBegin, RingInv, Window, Producing, RoomStays, Full, producerVars
  <1>4. CASE PopWord
    <2>1. UNCHANGED <<read, write, entries, Used, Slot(read), Slot(write)>>
      BY <1>4, Zenon DEF PopWord, Used
    <2>2. /\ Used > 0 /\ cword \in 1..Words
          /\ citem \in [1..Words -> Values]
          /\ entries[Slot(read)] \in [1..Words -> Values]
      BY <1>1, <1>4, Zenon DEF PopWord, RingInv, TypeOK, Consuming, Items
    <2>3. /\ citem' = [citem EXCEPT ![cword] = entries[Slot(read)][cword]]
          /\ citem' \in [1..Words -> Values]
      BY <1>4, <2>2, Zenon DEF PopWord
    <2>4. TypeOK'
      BY <1>4, <2>2, <2>3 DEF PopWord, RingInv, TypeOK, Phases, Items, producerVars
    <2>5. Consuming'
      <3>1. \A w \in 1..(cword - 1) : citem[w] = entries[Slot(read)][w]
        BY <1>4, Zenon DEF PopWord, RingInv, Consuming
      <3>2. \A w \in 1..cword : citem'[w] = entries[Slot(read)][w]
        BY <2>2, <2>3, <3>1
      <3>3. CASE cword = Words
        <4>1. citem' = entries[Slot(read)]
          BY <2>2, <2>3, <3>2, <3>3, Zenon
        <4> QED
          BY <1>4, <2>1, <2>2, <3>3, <4>1, Zenon DEF PopWord, Consuming
      <3>4. CASE cword # Words
        BY <1>4, <2>1, <2>2, <3>2, <3>4 DEF PopWord, Consuming
      <3> QED
        BY <3>3, <3>4, Zenon
    <2> QED
      BY <1>4, <2>1, <2>4, <2>5, Zenon
      DEF PopWord, RingInv, Window, Producing, RoomStays, Full, producerVars
  <1>5. CASE PopPublish
    <2>1. Used > 0
      BY <1>5, Zenon DEF PopPublish, RingInv, Consuming
    <2>2. Advance(read) \in Indices /\ Used' = Used - 1
      BY <1>1, <1>5, <2>1, DistanceAfterPop, Zenon DEF PopPublish, Used
    <2>3. Slot(read)' = IF Slot(read) = Size - 1 THEN 0 ELSE Slot(read) + 1
      BY <1>1, <1>5, SlotAdvance, Zenon DEF PopPublish, Slot
    <2>4. Slot(write)' = Slot(write)
      BY <1>5, Zenon DEF PopPublish, Slot
    <2>5. TypeOK'
      BY <1>5, <2>2, Zenon DEF PopPublish, RingInv, TypeOK, Phases, producerVars
    <2>6. Window'
      BY <1>1, <2>1, <2>2, <2>3, <2>4 DEF RingInv, Window, Shift, Slots
    <2>7. Producing'
      BY <1>1, <1>5, <2>2, <2>4 DEF PopPublish, RingInv, Producing, producerVars
    <2>8. RoomStays'
      BY <1>1, <1>5, <2>2 DEF PopPublish, RingInv, Window, RoomStays, Full, producerVars
    <2> QED
      BY <1>5, <2>5, <2>6, <2>7, <2>8, Zenon DEF PopPublish, RingInv, Consuming
  <1> QED
    BY <1>2, <1>3, <1>4, <1>5, Zenon DEF Consumer

(* The ring invariant holds in every reachable state.                      *)
THEOREM RingInvariant == Spec => []RingInv
  <1>1. RingInv /\ UNCHANGED vars => RingInv'
    BY DEF vars, producerVars, consumerVars, RingInv, TypeOK, Window, Producing, Consuming,
           RoomStays, Full, Used, Slot
  <1>2. RingInv /\ [Next]_vars => RingInv'
    BY <1>1, ProducerKeepsRing, ConsumerKeepsRing, Zenon DEF Next
  <1> QED
    BY InitRing, <1>2, PTL DEF Spec

(* The indices, the entries and both threads' locals keep their types.     *)
THEOREM TypeCorrect == Spec => []TypeOK
  BY RingInvariant, PTL DEF RingInv

(* Room seen by daemon_queue_room stays until the producer pushes, so the  *)
(* unchecked push of daemon_progress is never refused.                     *)
THEOREM RoomCannotDisappear == Spec => []RoomStays
  BY RingInvariant, PTL DEF RingInv

(* Producer and consumer never copy the same slot at the same time.        *)
THEOREM NoSlotRace == Spec => []SlotExclusive
  <1>1. RingInv => SlotExclusive
    <2> SUFFICES ASSUME RingInv, ppc # "idle", cpc # "idle" PROVE Slot(write) # Slot(read)
      BY Zenon DEF SlotExclusive
    <2>1. /\ Used \in Nat /\ Slot(read) \in Slots
      BY UsedType, SlotRange DEF RingInv, TypeOK, Indices
    <2> QED
      BY <2>1, SizeAssumption DEF RingInv, Window, Producing, Consuming, Shift, Slots
  <1> QED
    BY <1>1, RingInvariant, PTL

-----------------------------------------------------------------------------
(* The ring implements the bounded FIFO.                                   *)

(* The contents as a sequence: the i-th entry of the window is in the i-th *)
(* slot from the read slot.                                                *)
ContentsShape ==
    /\ Contents \in Seq(Items)
    /\ Len(Contents) = Used
    /\ \A i \in 1..Used : /\ Contents[i] = entries[Shift(Slot(read), i - 1)]
                          /\ Shift(Slot(read), i - 1) \in Slots

(* The window of the ring invariant is such a sequence.                    *)
LEMMA RingContents == RingInv => ContentsShape
  <1> SUFFICES ASSUME RingInv PROVE ContentsShape
    BY Zenon
  <1> USE SizeAssumption
  <1>1. /\ Used \in Nat /\ Used <= Size /\ read \in Int
        /\ entries \in [Slots -> Items] /\ Slot(read) \in Slots
    BY UsedType, SlotRange DEF RingInv, TypeOK, Window, Indices
  <1>2. \A i \in 1..Used : /\ Slot(read + i - 1) = Shift(Slot(read), i - 1)
                           /\ Shift(Slot(read), i - 1) \in Slots
    <2> SUFFICES ASSUME NEW i \in 1..Used
                 PROVE  /\ Slot(read + i - 1) = Shift(Slot(read), i - 1)
                        /\ Shift(Slot(read), i - 1) \in Slots
      BY Zenon
    <2> DEFINE k == i - 1
    <2>1. k \in 0..Size /\ k < Size /\ read + i - 1 = read + k
      BY <1>1
    <2> HIDE DEF k
    <2>2. Slot(read + k) = Shift(Slot(read), k)
      BY <1>1, <2>1, SlotShift, Zenon
    <2>3. Shift(Slot(read), k) \in Slots
      BY <1>1, <2>1 DEF Shift, Slots
    <2> QED
      BY <2>1, <2>2, <2>3, Zenon DEF k
  <1>3. \A i \in 1..Used : entries[Slot(read + i - 1)] \in Items
    BY <1>1, <1>2, Zenon
  <1> QED
    BY <1>1, <1>2, <1>3 DEF Contents, ContentsShape

(* A step that moves no index and writes at most the free write slot       *)
(* leaves the contents alone.                                              *)
LEMMA ContentsUnchanged ==
    ASSUME RingInv, RingInv', UNCHANGED <<read, write>>,
           \A s \in Slots : (Used < Size /\ s = Slot(write)) \/ entries'[s] = entries[s]
    PROVE  Contents' = Contents
  <1> USE SizeAssumption
  <1>1. ContentsShape /\ ContentsShape'
    BY RingContents, PTL
  <1>2. /\ Used \in Nat /\ Used <= Size /\ Used' = Used /\ Slot(read)' = Slot(read)
        /\ Slot(read) \in Slots /\ Slot(write) = Shift(Slot(read), Used) /\ read \in Int
    BY UsedType, SlotRange DEF RingInv, TypeOK, Window, Indices, Used, Slot
  <1>3. \A i \in 1..Used : Contents'[i] = Contents[i]
    <2> SUFFICES ASSUME NEW i \in 1..Used PROVE Contents'[i] = Contents[i]
      BY Zenon
    <2>1. Shift(Slot(read), i - 1) # Slot(write) \/ Used = Size
      BY <1>2 DEF Shift, Slots
    <2> QED
      BY <1>1, <1>2, <2>1 DEF ContentsShape
  <1> QED
    BY <1>1, <1>2, <1>3, SeqEqual, Zenon DEF ContentsShape

(* Publishing a copied item appends it.                                    *)
LEMMA PublishAppends ==
    ASSUME RingInv, RingInv', PushPublish
    PROVE  Contents' = Append(Contents, pitem)
  <1> USE SizeAssumption
  <1>1. ContentsShape /\ ContentsShape'
    BY RingContents, PTL
  <1>2. /\ Used \in Nat /\ Used < Size /\ Slot(read)' = Slot(read) /\ entries' = entries
        /\ Slot(read) \in Slots /\ Slot(write) = Shift(Slot(read), Used)
        /\ entries[Slot(write)] = pitem /\ pitem \in Items
        /\ read \in Indices /\ write \in Indices
    BY UsedType, SlotRange DEF PushPublish, RingInv, TypeOK, Window, Producing, Indices, Slot
  <1>3. Used' = Used + 1
    BY <1>2, DistanceAfterPush, Zenon DEF PushPublish, Used
  <1>4. /\ Append(Contents, pitem) \in Seq(Items)
        /\ Len(Append(Contents, pitem)) = Used + 1
        /\ \A i \in 1..Used : Append(Contents, pitem)[i] = Contents[i]
        /\ Append(Contents, pitem)[Used + 1] = pitem
    BY <1>1, <1>2, AppendProperties DEF ContentsShape
  <1>5. \A i \in 1..(Used + 1) : Contents'[i] = Append(Contents, pitem)[i]
    <2> SUFFICES ASSUME NEW i \in 1..(Used + 1)
                 PROVE  Contents'[i] = Append(Contents, pitem)[i]
      BY Zenon
    <2>1. Contents'[i] = entries[Shift(Slot(read), i - 1)]
      BY <1>1, <1>2, <1>3, Zenon DEF ContentsShape
    <2>2. CASE i = Used + 1
      BY <1>2, <1>4, <2>1, <2>2
    <2>3. CASE i # Used + 1
      BY <1>1, <1>2, <1>4, <2>1, <2>3 DEF ContentsShape
    <2> QED
      BY <2>2, <2>3, Zenon
  <1> QED
    BY <1>1, <1>3, <1>4, <1>5, SeqEqual, Zenon DEF ContentsShape

(* Releasing the first slot removes its entry, which the consumer holds    *)
(* whole.                                                                  *)
LEMMA PublishRemoves ==
    ASSUME RingInv, RingInv', PopPublish
    PROVE  Contents # <<>> /\ citem = Head(Contents) /\ Contents' = Tail(Contents)
  <1> USE SizeAssumption
  <1>1. ContentsShape /\ ContentsShape'
    BY RingContents, PTL
  <1>2. /\ Used \in Nat /\ Used > 0 /\ Used <= Size /\ entries' = entries
        /\ Slot(read) \in Slots /\ entries[Slot(read)] = citem
        /\ read \in Indices /\ write \in Indices
    BY UsedType, SlotRange DEF PopPublish, RingInv, TypeOK, Window, Consuming, Indices
  <1>3. Used' = Used - 1
    BY <1>2, DistanceAfterPop, Zenon DEF PopPublish, Used
  <1>4. Slot(read)' = IF Slot(read) = Size - 1 THEN 0 ELSE Slot(read) + 1
    BY <1>2, SlotAdvance, Zenon DEF PopPublish, Slot
  <1>5. Contents # <<>> /\ Head(Contents) = Contents[1]
    BY <1>1, <1>2 DEF ContentsShape
  <1>6. Contents[1] = citem
    <2>1. Shift(Slot(read), 0) = Slot(read)
      BY <1>2 DEF Shift, Slots
    <2> QED
      BY <1>1, <1>2, <2>1 DEF ContentsShape
  <1>7. /\ Tail(Contents) \in Seq(Items)
        /\ Len(Tail(Contents)) = Used - 1
        /\ \A i \in 1..(Used - 1) : Tail(Contents)[i] = Contents[i + 1]
    BY <1>1, <1>2, <1>5, HeadTailProperties, Zenon DEF ContentsShape
  <1>8. \A i \in 1..(Used - 1) : Contents'[i] = Tail(Contents)[i]
    <2> SUFFICES ASSUME NEW i \in 1..(Used - 1) PROVE Contents'[i] = Tail(Contents)[i]
      BY Zenon
    <2>1. Contents'[i] = entries[Shift(Slot(read)', i - 1)]
      BY <1>1, <1>2, <1>3, Zenon DEF ContentsShape
    <2>2. Contents[i + 1] = entries[Shift(Slot(read), i)]
      BY <1>1, <1>2 DEF ContentsShape
    <2>3. Shift(Slot(read)', i - 1) = Shift(Slot(read), i)
      BY <1>2, <1>4 DEF Shift, Slots
    <2> QED
      BY <1>7, <2>1, <2>2, <2>3, Zenon
  <1> QED
    BY <1>1, <1>3, <1>5, <1>6, <1>7, <1>8, SeqEqual, Zenon DEF ContentsShape

(* Every step of the ring is a step of the bounded FIFO or leaves the      *)
(* FIFO's state alone.                                                     *)
LEMMA RingStepIsFifoStep ==
    ASSUME RingInv, RingInv', [Next]_vars
    PROVE  [Fifo!Next]_(Fifo!fifoVars)
  <1> USE SizeAssumption
  <1>1. ContentsShape /\ Used \in Nat /\ Used <= Size
    BY RingContents, UsedType DEF RingInv, Window
  <1>2. ASSUME UNCHANGED <<read, write, entries>> PROVE Contents' = Contents
    BY <1>2, ContentsUnchanged, Zenon
  <1>3. CASE CheckRoom
    <2>1. Contents' = Contents
      BY <1>2, <1>3, Zenon DEF CheckRoom
    <2>2. Fifo!Room
      BY <1>1, <1>3, <2>1, Zenon DEF CheckRoom, HasRoom, consumerVars, ContentsShape, Fifo!Room
    <2> QED
      BY <2>2, Zenon DEF Fifo!Next
  <1>4. CASE PushFull
    <2>1. Contents' = Contents
      BY <1>2, <1>4, Zenon DEF PushFull
    <2>2. ~room
      BY <1>4, Zenon DEF PushFull, RingInv, RoomStays
    <2>3. Fifo!Refuse
      BY <1>1, <1>4, <2>1, <2>2, Zenon
      DEF PushFull, Full, consumerVars, ContentsShape, Fifo!Refuse
    <2> QED
      BY <2>3, Zenon DEF Fifo!Next
  <1>5. ASSUME NEW item \in Items, PushBegin(item) PROVE UNCHANGED Fifo!fifoVars
    <2>1. Contents' = Contents
      BY <1>2, <1>5, Zenon DEF PushBegin
    <2> QED
      BY <1>5, <2>1, Zenon DEF PushBegin, consumerVars, Fifo!fifoVars
  <1>6. CASE PushWord
    <2>1. \A s \in Slots : (Used < Size /\ s = Slot(write)) \/ entries'[s] = entries[s]
      BY <1>6, Zenon DEF PushWord, RingInv, TypeOK, Producing
    <2>2. Contents' = Contents
      BY <1>6, <2>1, ContentsUnchanged, Zenon DEF PushWord
    <2> QED
      BY <1>6, <2>2, Zenon DEF PushWord, consumerVars, Fifo!fifoVars
  <1>7. CASE PushPublish
    <2>1. Contents' = Append(Contents, pitem)
      BY <1>7, PublishAppends, Zenon
    <2>2. Used < Size /\ pitem \in Items
      BY <1>7, Zenon DEF PushPublish, RingInv, TypeOK, Producing
    <2>3. Fifo!Push(pitem)
      BY <1>1, <1>7, <2>1, <2>2, Zenon DEF PushPublish, consumerVars, ContentsShape, Fifo!Push
    <2> QED
      BY <2>2, <2>3, Zenon DEF Fifo!Next
  <1>8. CASE PopEmpty
    <2>1. Contents' = Contents
      BY <1>2, <1>8, Zenon DEF PopEmpty
    <2>2. Used = 0
      BY <1>8, Distance DEF PopEmpty, RingInv, TypeOK, Used, Indices
    <2>3. Contents = <<>>
      BY <1>1, <2>2, EmptySeq, Zenon DEF ContentsShape
    <2>4. Fifo!Empty
      BY <1>8, <2>1, <2>3, Zenon DEF PopEmpty, producerVars, Fifo!Empty
    <2> QED
      BY <2>4, Zenon DEF Fifo!Next
  <1>9. CASE PopBegin
    <2>1. Contents' = Contents
      BY <1>2, <1>9, Zenon DEF PopBegin
    <2> QED
      BY <1>9, <2>1, Zenon DEF PopBegin, producerVars, Fifo!fifoVars
  <1>10. CASE PopWord
    <2>1. Contents' = Contents
      BY <1>2, <1>10, Zenon DEF PopWord
    <2> QED
      BY <1>10, <2>1, Zenon DEF PopWord, producerVars, Fifo!fifoVars
  <1>11. CASE PopPublish
    <2>1. Contents # <<>> /\ citem = Head(Contents) /\ Contents' = Tail(Contents)
      BY <1>11, PublishRemoves, Zenon
    <2>2. Fifo!Pop
      BY <1>11, <2>1, Zenon DEF PopPublish, producerVars, Fifo!Pop
    <2> QED
      BY <2>2, Zenon DEF Fifo!Next
  <1>12. CASE UNCHANGED vars
    <2>1. Contents' = Contents
      BY <1>2, <1>12, Zenon DEF vars
    <2> QED
      BY <1>12, <2>1, Zenon DEF vars, producerVars, consumerVars, Fifo!fifoVars
  <1> QED
    BY <1>3, <1>4, <1>5, <1>6, <1>7, <1>8, <1>9, <1>10, <1>11, <1>12, Zenon
    DEF Next, Producer, Consumer

(* The ring of src/daemon/queue.c implements the bounded FIFO that         *)
(* include/daemon.h describes: items arrive whole, in order, once.         *)
THEOREM RingImplementsFifo == Spec => ImplementsFifo
  <1>1. Init => Fifo!Init
    <2> SUFFICES ASSUME Init PROVE Fifo!Init
      BY Zenon
    <2>1. ContentsShape
      BY InitRing, RingContents, Zenon
    <2>2. Used = 0
      BY InitRing, Distance DEF Init, RingInv, TypeOK, Used, Indices
    <2>3. Contents = <<>>
      BY <2>1, <2>2, EmptySeq, Zenon DEF ContentsShape
    <2> QED
      BY <2>3, Zenon DEF Init, Fifo!Init
  <1>2. RingInv /\ RingInv' /\ [Next]_vars => [Fifo!Next]_(Fifo!fifoVars)
    BY RingStepIsFifoStep, Zenon
  <1> QED
    BY <1>1, <1>2, RingInvariant, PTL DEF Spec, ImplementsFifo, Fifo!Spec

-----------------------------------------------------------------------------
(* The types of the library's state: requests that are written have the   *)
(* phase they were written in.                                             *)
Ops == {"hello", "socket", "send", "recv", "sendmmsg", "recvmmsg"}

ClientType == [fd : 0 .. MaxSessions, error : BOOLEAN, next_id : Nat, features : BOOLEAN,
               pid : Processes \cup {"none"}]

CallType(phases) ==
    [phase : phases, tag : Nat, id : Nat, op : Ops, lens : Seq(Nat), limits : Seq(Nat)]

AnswerType ==
    [tag : Nat, id : Nat, op : Ops, result : Int, lens : Seq(Int), feature : BOOLEAN]

WireType ==
    [requests : Seq(CallType({"write"})), answers : Seq(AnswerType), holders : SUBSET Processes,
     open : BOOLEAN, sockets : SUBSET Nat]

(* What request() asks for is within the caller's buffers.                 *)
Bounded(m) ==
    /\ m.op \in {"send", "recv"} =>
          m.lens # <<>> /\ m.limits # <<>> /\ m.limits[1] <= m.lens[1]
    /\ m.op = "sendmmsg" => Len(m.limits) <= Len(m.lens)
    /\ m.op = "recvmmsg" => m.limits = m.lens

ClientTypes ==
    /\ client \in [Processes -> ClientType]
    /\ call \in [Processes -> {NoCall} \cup CallType({"write", "read"})]
    /\ wire \in [Sessions -> WireType]
    /\ requested \in Nat

(* The process p has the session s, and made it itself.                    *)
Owns(p, s) == client[p].pid = p /\ client[p].fd = s /\ s # NoFd

(* Who has a session open holds it, one process has made it, and only that *)
(* one calls.                                                              *)
HolderInv ==
    /\ \A p \in Processes : client[p].fd # NoFd => Alive(p) /\ p \in wire[client[p].fd].holders
    /\ \A p, q \in Processes, s \in Sessions : Owns(p, s) /\ Owns(q, s) => p = q
    /\ \A p \in Processes :
          call[p] # NoCall => client[p].pid = p /\ client[p].fd # NoFd /\ Bounded(call[p])

(* A session has one request or answer on its way at most, and its owner   *)
(* waits for just that one.                                                *)
Lone(w) ==
    /\ Len(w.requests) <= 1 /\ Len(w.answers) <= 1
    /\ w.requests = <<>> \/ w.answers = <<>>

(* Nothing is on its way.                                                  *)
Quiet(w) == w.requests = <<>> /\ w.answers = <<>>

(* What is on its way belongs to the call m.                               *)
Waited(w, m) ==
    /\ w.requests # <<>> => w.requests[1].tag = m.tag
    /\ w.answers # <<>> => w.answers[1].tag = m.tag

(* Nothing is on its way on a session whose owner waits for no answer.     *)
FlowInv ==
    /\ \A s \in Sessions : Lone(wire[s])
    /\ \A p \in Processes, s \in Sessions : Owns(p, s) =>
          IF call[p].phase = "read" THEN Waited(wire[s], call[p]) ELSE Quiet(wire[s])

(* The inductive invariant of the library.                                 *)
ClientInv == ClientTypes /\ HolderInv /\ FlowInv

-----------------------------------------------------------------------------
(* The client structures of no process and of one that has no session.     *)
LEMMA EmptyClients ==
    /\ NoProcess \in ClientType /\ NoProcess.fd = NoFd
    /\ \A p \in Processes : Fresh(p) \in ClientType /\ Fresh(p).fd = NoFd /\ Fresh(p).pid = p
  <1>1. 0 \in 0 .. MaxSessions
    BY ClientAssumption
  <1>2. NoProcess \in ClientType /\ NoProcess.fd = NoFd
    BY <1>1, Zenon DEF ClientType, NoProcess, NoFd
  <1>3. ASSUME NEW p \in Processes
        PROVE  Fresh(p) \in ClientType /\ Fresh(p).fd = NoFd /\ Fresh(p).pid = p
    <2>1. Fresh(p) \in ClientType
      BY <1>2, Zenon DEF ClientType, Fresh
    <2>2. Fresh(p).fd = NoFd /\ Fresh(p).pid = p
      BY Zenon DEF NoProcess, Fresh
    <2> QED
      BY <2>1, <2>2, Zenon
  <1> QED
    BY <1>2, <1>3, Zenon

(* The fields of a connection.                                             *)
LEMMA WireFields ==
    ASSUME NEW w \in WireType
    PROVE  /\ w.requests \in Seq(CallType({"write"})) /\ w.answers \in Seq(AnswerType)
           /\ w.holders \subseteq Processes /\ w.open \in BOOLEAN /\ w.sockets \subseteq Nat
           /\ Len(w.requests) \in Nat /\ Len(w.answers) \in Nat
  BY DEF WireType

(* Before the first call there are no sessions.                            *)
LEMMA ClientStarts == ClientInit => ClientInv
  <1> SUFFICES ASSUME ClientInit PROVE ClientInv
    BY Zenon
  <1>1. \A p \in Processes : client[p] \in ClientType /\ client[p].fd = NoFd /\ call[p] = NoCall
    <2>1. NoProcess \in ClientType /\ NoProcess.fd = NoFd /\ \A p \in Processes : Fresh(p) \in ClientType /\ Fresh(p).fd = NoFd
      BY EmptyClients, Zenon
    <2> QED
      BY <2>1, Zenon DEF ClientInit
  <1>2. \A s \in Sessions : wire[s] = NoSession
    BY Zenon DEF ClientInit
  <1>3. NoSession \in WireType
    BY DEF NoSession, WireType
  <1>4. ClientTypes
    BY <1>1, <1>2, <1>3, Zenon DEF ClientInit, ClientTypes
  <1>5. HolderInv
    BY <1>1, Zenon DEF HolderInv, Owns
  <1>6. Lone(NoSession)
    BY DEF NoSession, Lone
  <1>7. FlowInv
    BY <1>1, <1>2, <1>6, Zenon DEF FlowInv, Owns
  <1> QED
    BY <1>4, <1>5, <1>7, Zenon DEF ClientInv

(* The other processes keep their sessions, and what their calls wait for. *)
Undisturbed(p) ==
    \A q \in Processes, t \in Sessions : q # p /\ client[q].fd = t =>
        /\ client'[q] = client[q] /\ call'[q] = call[q] /\ q \in wire'[t].holders
        /\ client[q].pid = q =>
              wire'[t].requests = wire[t].requests /\ wire'[t].answers = wire[t].answers

(* A process has a session that it may use, or none.                       *)
Placed(p) ==
    /\ client'[p].fd # NoFd =>
          /\ client'[p].pid # "none" /\ p \in wire'[client'[p].fd].holders
          /\ client'[p].pid = p =>
                /\ \A q \in Processes : q # p => ~Owns(q, client'[p].fd)
                /\ IF call'[p].phase = "read" THEN Waited(wire'[client'[p].fd], call'[p])
                                             ELSE Quiet(wire'[client'[p].fd])
    /\ call'[p] # NoCall => client'[p].pid = p /\ client'[p].fd # NoFd /\ Bounded(call'[p])

(* A step of one process that leaves the others' sessions alone.           *)
LEMMA OwnStep ==
    ASSUME ClientInv, NEW p \in Processes, ClientTypes', \A t \in Sessions : Lone(wire'[t]),
           \A q \in Processes : q # p => client'[q] = client[q] /\ call'[q] = call[q],
           Undisturbed(p), Placed(p)
    PROVE  ClientInv'
  <1>1. ClientTypes /\ HolderInv /\ FlowInv
    BY Zenon DEF ClientInv
  <1>2. \A q \in Processes : client'[q].fd # NoFd => client'[q].fd \in Sessions
    BY ClientAssumption DEF ClientTypes, ClientType, Sessions, NoFd
  <1>3. HolderInv'
    <2>1. ASSUME NEW q \in Processes, client'[q].fd # NoFd
          PROVE  Alive(q)' /\ q \in wire'[client'[q].fd].holders
      <3>1. CASE q = p
        BY <2>1, <3>1, Zenon DEF Placed, Alive
      <3>2. CASE q # p
        <4>1. client'[q] = client[q]
          BY <3>2, Zenon
        <4>2. Alive(q)
          BY <1>1, <2>1, <4>1, Zenon DEF HolderInv
        <4>3. q \in wire'[client[q].fd].holders
          BY <1>2, <2>1, <3>2, <4>1, Zenon DEF Undisturbed
        <4> QED
          BY <4>1, <4>2, <4>3, Zenon DEF Alive
      <3> QED
        BY <3>1, <3>2, Zenon
    <2>2. ASSUME NEW q \in Processes, NEW r \in Processes, NEW s \in Sessions, Owns(q, s)', Owns(r, s)'
          PROVE  q = r
      <3>1. CASE q # p /\ r # p
        <4>1. Owns(q, s) /\ Owns(r, s)
          BY <2>2, <3>1, Zenon DEF Owns
        <4> QED
          BY <1>1, <4>1, Zenon DEF HolderInv
      <3>2. CASE q = p /\ r # p
        BY <2>2, <3>2, Zenon DEF Placed, Owns
      <3>3. CASE q # p /\ r = p
        BY <2>2, <3>3, Zenon DEF Placed, Owns
      <3> QED
        BY <3>1, <3>2, <3>3, Zenon
    <2>3. ASSUME NEW q \in Processes, call'[q] # NoCall
          PROVE  client'[q].pid = q /\ client'[q].fd # NoFd /\ Bounded(call'[q])
      <3>1. CASE q = p
        BY <2>3, <3>1, Zenon DEF Placed
      <3>2. CASE q # p
        BY <1>1, <2>3, <3>2, Zenon DEF HolderInv
      <3> QED
        BY <3>1, <3>2, Zenon
    <2>4. \A m : Bounded(m)' <=> Bounded(m)
      BY Zenon DEF Bounded
    <2> QED
      BY <2>1, <2>2, <2>3, <2>4, Zenon DEF HolderInv
  <1>4. FlowInv'
    <2>1. ASSUME NEW q \in Processes, NEW s \in Sessions, Owns(q, s)'
          PROVE  IF call'[q].phase = "read" THEN Waited(wire'[s], call'[q]) ELSE Quiet(wire'[s])
      <3>1. CASE q = p
        BY <2>1, <3>1, Zenon DEF Placed, Owns
      <3>2. CASE q # p
        <4>1. Owns(q, s) /\ call'[q] = call[q]
          BY <2>1, <3>2, Zenon DEF Owns
        <4>2. wire'[s].requests = wire[s].requests /\ wire'[s].answers = wire[s].answers
          BY <3>2, <4>1, Zenon DEF Undisturbed, Owns
        <4>3. IF call[q].phase = "read" THEN Waited(wire[s], call[q]) ELSE Quiet(wire[s])
          BY <1>1, <4>1, Zenon DEF FlowInv
        <4> QED
          BY <4>1, <4>2, <4>3, Zenon DEF Waited, Quiet
      <3> QED
        BY <3>1, <3>2, Zenon
    <2> QED
      BY <2>1, Zenon DEF FlowInv
  <1> QED
    BY <1>3, <1>4, Zenon DEF ClientInv

(* A process holds the session that its structure names.                   *)
LEMMA SessionsHeld ==
    ASSUME HolderInv, NEW q \in Processes, NEW t \in Sessions, client[q].fd = t
    PROVE  q \in wire[t].holders
  <1>1. t # NoFd
    BY DEF Sessions, NoFd
  <1> QED
    BY <1>1, Zenon DEF HolderInv

(* What closing the descriptor leaves of a connection: what others wait    *)
(* for is still there.                                                     *)
LEMMA ReleasedParts ==
    ASSUME ClientInv, NEW p \in Processes, NEW s \in Sessions, NEW v, v = Released(p)[s]
    PROVE  /\ v \in WireType /\ v.requests = wire[s].requests /\ Lone(v)
           /\ \A q \in wire[s].holders : q # p => q \in v.holders /\ v.answers = wire[s].answers
  <1>1. PICK w \in WireType : w = wire[s] /\ Lone(w)
    BY Zenon DEF ClientInv, ClientTypes, FlowInv
  <1>2. CASE s # client[p].fd
    BY <1>1, <1>2, Zenon DEF Released
  <1>3. CASE s = client[p].fd
    <2>1. PICK h : h = w.holders \ {p}
      BY Zenon
    <2>2. PICK a : a = IF h = {} THEN <<>> ELSE w.answers
      BY Zenon
    <2>3. v = [w EXCEPT !.holders = h, !.answers = a]
      <3>1. v = [wire[s] EXCEPT !.holders = @ \ {p},
                                !.answers = IF wire[s].holders \ {p} = {} THEN <<>> ELSE @]
        BY <1>3, Zenon DEF Released
      <3> QED
        BY <1>1, <2>1, <2>2, <3>1, Zenon
    <2>4. h \in SUBSET Processes /\ a \in Seq(AnswerType)
      BY <2>1, <2>2, WireFields
    <2>5. v \in WireType /\ v.requests = w.requests /\ v.holders = h /\ v.answers = a
      BY <2>3, <2>4, Zenon DEF WireType
    <2>6. \A q \in w.holders : q # p => q \in h
      BY <2>1, Zenon
    <2>7. Lone(v)
      <3>1. a = w.answers \/ a = <<>>
        BY <2>2, Zenon
      <3> QED
        BY <1>1, <2>5, <3>1, Zenon DEF Lone
    <2> QED
      BY <1>1, <2>2, <2>5, <2>6, <2>7, Zenon
  <1> QED
    BY <1>2, <1>3, Zenon

(* A process gives up the session it has, if any: broken(), ps_fini() and  *)
(* the others that close the descriptor.                                   *)
LEMMA LeavingKeeps ==
    ASSUME ClientInv, NEW p \in Processes, NEW c \in ClientType, c.fd = NoFd,
           client' = [client EXCEPT ![p] = c], wire' = Released(p),
           call' = [call EXCEPT ![p] = NoCall], requested' = requested
    PROVE  ClientInv'
  <1>1. ClientTypes /\ HolderInv
    BY Zenon DEF ClientInv
  <1>2. client'[p] = c /\ call'[p] = NoCall
    BY <1>1, Zenon DEF ClientTypes
  <1>3. \A q \in Processes : q # p => client'[q] = client[q] /\ call'[q] = call[q]
    BY <1>1, Zenon DEF ClientTypes
  <1>4. \A s \in Sessions : /\ wire'[s] \in WireType /\ wire'[s].requests = wire[s].requests /\ Lone(wire'[s])
                            /\ \A q \in wire[s].holders : q # p => q \in wire'[s].holders /\ wire'[s].answers = wire[s].answers
    BY ReleasedParts, Zenon
  <1>5. ClientTypes'
    <2>1. client' \in [Processes -> ClientType] /\ call' \in [Processes -> {NoCall} \cup CallType({"write", "read"})]
      BY <1>1, Zenon DEF ClientTypes
    <2>2. wire' \in [Sessions -> WireType]
      BY <1>4, Zenon DEF Released
    <2> QED
      BY <1>1, <2>1, <2>2, Zenon DEF ClientTypes
  <1>6. Undisturbed(p)
    <2> SUFFICES ASSUME NEW q \in Processes, NEW t \in Sessions, q # p, client[q].fd = t
                 PROVE  /\ client'[q] = client[q] /\ call'[q] = call[q] /\ q \in wire'[t].holders
                        /\ wire'[t].requests = wire[t].requests /\ wire'[t].answers = wire[t].answers
      BY Zenon DEF Undisturbed
    <2>1. q \in wire[t].holders
      BY <1>1, SessionsHeld, Zenon
    <2> QED
      BY <1>3, <1>4, <2>1, Zenon
  <1>7. Placed(p)
    BY <1>2, Zenon DEF Placed
  <1> QED
    BY <1>3, <1>4, <1>5, <1>6, <1>7, OwnStep, Zenon

(* ps_init() connects: the new session is nobody else's.                   *)
LEMMA PsInitKeeps ==
    ASSUME ClientInv, NEW p \in Processes, PsInit(p)
    PROVE  ClientInv'
  <1>1. ClientTypes /\ HolderInv
    BY Zenon DEF ClientInv
  <1>2. PICK s \in Sessions :
            /\ wire[s].holders = {}
            /\ wire' = [Released(p) EXCEPT ![s] = [NoSession EXCEPT !.holders = {p}, !.open = TRUE]]
            /\ client' = [client EXCEPT ![p] = [Fresh(p) EXCEPT !.fd = s, !.next_id = 1]]
            /\ call' = [call EXCEPT ![p] = Message(1, "hello", <<>>, <<>>)]
    BY Zenon DEF PsInit, Unused
  <1>3. PICK c : c = [Fresh(p) EXCEPT !.fd = s, !.next_id = 1]
    BY Zenon
  <1>4. PICK m : m = Message(1, "hello", <<>>, <<>>)
    BY Zenon
  <1>5. PICK w : w = [NoSession EXCEPT !.holders = {p}, !.open = TRUE]
    BY Zenon
  <1>6. s # NoFd /\ s \in 0 .. MaxSessions
    BY DEF Sessions, NoFd
  <1>7. c \in ClientType /\ c.fd = s /\ c.pid = p
    <2>1. Fresh(p) \in ClientType /\ Fresh(p).pid = p /\ 1 \in Nat
      BY EmptyClients, Zenon
    <2> QED
      BY <1>3, <1>6, <2>1, Zenon DEF ClientType
  <1>8. m \in CallType({"write", "read"}) /\ m.phase = "write" /\ Bounded(m)
    <2>1. requested + 1 \in Nat /\ 1 \in Nat /\ <<>> \in Seq(Nat)
      BY <1>1 DEF ClientTypes
    <2>2. /\ m.phase = "write" /\ m.op = "hello" /\ m.tag = requested + 1 /\ m.id = 1
          /\ m.lens = <<>> /\ m.limits = <<>>
      BY <1>4, Zenon DEF Message
    <2>3. m \in CallType({"write", "read"})
      BY <1>4, <2>1, Zenon DEF Message, CallType, Ops
    <2> QED
      BY <2>2, <2>3, Zenon DEF Bounded
  <1>9. w \in WireType /\ w.holders = {p} /\ Quiet(w) /\ Lone(w)
    <2>1. w.holders = {p} /\ w.requests = <<>> /\ w.answers = <<>>
      BY <1>5, Zenon DEF NoSession
    <2>2. w \in WireType
      <3>1. NoSession \in WireType
        BY DEF NoSession, WireType
      <3> QED
        BY <1>5, <3>1, Zenon DEF WireType
    <2>3. Lone(w)
      BY <2>1 DEF Lone
    <2> QED
      BY <2>1, <2>2, <2>3, Zenon DEF Quiet
  <1>10. client'[p] = c /\ call'[p] = m /\ \A q \in Processes : q # p => client'[q] = client[q] /\ call'[q] = call[q]
    BY <1>1, <1>2, <1>3, <1>4, Zenon DEF ClientTypes
  <1>11. wire'[s] = w /\ \A t \in Sessions : t # s => wire'[t] = Released(p)[t]
    BY <1>2, <1>5, Zenon DEF Released
  <1>12. \A q \in Processes : client[q].fd # s
    BY <1>1, <1>2, <1>6, Zenon DEF HolderInv
  <1>13. ClientTypes'
    <2>1. client' \in [Processes -> ClientType]
      BY <1>1, <1>2, <1>3, <1>7, Zenon DEF ClientTypes
    <2>2. call' \in [Processes -> {NoCall} \cup CallType({"write", "read"})]
      BY <1>1, <1>2, <1>4, <1>8, Zenon DEF ClientTypes
    <2>3. \A t \in Sessions : wire'[t] \in WireType
      BY <1>9, <1>11, ReleasedParts, Zenon
    <2>4. wire' \in [Sessions -> WireType]
      BY <1>2, <2>3, Zenon DEF Released
    <2>5. requested' \in Nat
      BY <1>1 DEF PsInit, ClientTypes
    <2> QED
      BY <2>1, <2>2, <2>4, <2>5, Zenon DEF ClientTypes
  <1>14. \A t \in Sessions : Lone(wire'[t])
    BY <1>9, <1>11, ReleasedParts, Zenon
  <1>15. Undisturbed(p)
    <2> SUFFICES ASSUME NEW q \in Processes, NEW t \in Sessions, q # p, client[q].fd = t
                 PROVE  /\ client'[q] = client[q] /\ call'[q] = call[q] /\ q \in wire'[t].holders
                        /\ wire'[t].requests = wire[t].requests /\ wire'[t].answers = wire[t].answers
      BY Zenon DEF Undisturbed
    <2>1. q \in wire[t].holders
      BY <1>1, SessionsHeld, Zenon
    <2>2. wire'[t] = Released(p)[t]
      BY <1>11, <1>12, Zenon
    <2>3. /\ wire'[t].requests = wire[t].requests
          /\ \A r \in wire[t].holders : r # p => r \in wire'[t].holders /\ wire'[t].answers = wire[t].answers
      <3>1. PICK v : v = Released(p)[t]
        BY Zenon
      <3>2. /\ v.requests = wire[t].requests
            /\ \A r \in wire[t].holders : r # p => r \in v.holders /\ v.answers = wire[t].answers
        BY <3>1, ReleasedParts
      <3> QED
        BY <2>2, <3>1, <3>2, Zenon
    <2> QED
      BY <1>10, <2>1, <2>3, Zenon
  <1>16. Placed(p)
    <2>1. p \in w.holders /\ p # "none" /\ \A q \in Processes : ~Owns(q, s)
      BY <1>9, <1>12, ClientAssumption, Zenon DEF Owns
    <2> QED
      BY <1>6, <1>7, <1>8, <1>9, <1>10, <1>11, <2>1, Zenon DEF Placed
  <1> QED
    BY <1>10, <1>13, <1>14, <1>15, <1>16, OwnStep, Zenon

INSTANCE WellFoundedInduction

(* A set of natural numbers has a least element.                           *)
LEMMA LeastNumber ==
    ASSUME NEW S \in SUBSET Nat, S # {}
    PROVE  \E x \in S : \A y \in S : x <= y
  <1>1. PICK x \in S : \A y \in S : ~(<<y, x>> \in OpToRel(<, Nat))
    BY NatLessThanWellFounded, WFMin, Zenon
  <1>2. \A y \in S : ~(y < x)
    BY <1>1, Zenon DEF OpToRel
  <1> QED
    BY <1>2

(* The largest number of a set of them that have a bound.                  *)
LEMMA LargestFits ==
    ASSUME NEW n \in Nat, NEW S, S \subseteq 0 .. n, 0 \in S
    PROVE  Max(S) \in 0 .. n
  <1>1. PICK T : T = {n - k : k \in S}
    BY Zenon
  <1>2. T \subseteq Nat /\ T # {}
    BY <1>1
  <1>3. PICK l \in T : \A t \in T : l <= t
    BY <1>2, LeastNumber, Zenon
  <1>4. n - l \in S /\ \A k \in S : n - l >= k
    BY <1>1, <1>2, <1>3
  <1>5. Max(S) \in S
    BY <1>4, Zenon DEF Max
  <1> QED
    BY <1>5, Zenon

(* What a call asks for at most is within the caller's buffers.            *)
LEMMA LimitsBounded ==
    ASSUME NEW c \in Calls, NEW m, m.op = c.op, m.lens = c.lens, m.limits = Limits(c)
    PROVE  Limits(c) \in Seq(Nat) /\ Bounded(m)
  <1>1. c.lens \in Seq(Nat) /\ c.op \in {"socket", "send", "recv", "sendmmsg", "recvmmsg"}
    BY CallsAssumption, Zenon
  <1>2. CASE c.op \in {"send", "recv"}
    <2>1. Limits(c) = <<Min({c.lens[1], PayloadMax})>>
      BY <1>2, Zenon DEF Limits
    <2>2. c.lens # <<>>
      BY <1>2, CallsAssumption, Zenon
    <2>3. c.lens[1] \in Nat /\ PayloadMax \in Nat
      BY <1>1, <2>2, ClientAssumption
    <2>4. PICK a \in Nat : a = c.lens[1]
      BY <2>3, Zenon
    <2>5. Min({a, PayloadMax}) \in Nat /\ Min({a, PayloadMax}) <= a
      <3>1. \E x \in {a, PayloadMax} : \A y \in {a, PayloadMax} : x <= y
        BY <2>3
      <3>2. PICK x : x = Min({a, PayloadMax})
        BY Zenon
      <3>3. x \in {a, PayloadMax} /\ \A y \in {a, PayloadMax} : x <= y
        BY <3>1, <3>2, Zenon DEF Min
      <3> QED
        BY <2>3, <3>2, <3>3, Zenon
    <2> QED
      BY <1>2, <2>1, <2>2, <2>4, <2>5 DEF Bounded
  <1>3. CASE c.op = "sendmmsg"
    <2>1. PICK S : /\ Limits(c) = SubSeq(c.lens, 1, Max(S)) /\ S \subseteq 0 .. Len(c.lens) /\ 0 \in S
      <3>1. Limits(c) = Encoded(c.lens)
        BY <1>3, Zenon DEF Limits
      <3>2. PICK P : Encoded(c.lens) = SubSeq(c.lens, 1, Max({0} \cup P)) /\ P \subseteq 1 .. Len(c.lens)
        BY Zenon DEF Encoded
      <3>3. Len(c.lens) \in Nat
        BY <1>1
      <3>4. {0} \cup P \subseteq 0 .. Len(c.lens) /\ 0 \in {0} \cup P
        BY <3>2, <3>3
      <3> QED
        BY <3>1, <3>2, <3>4, Zenon
    <2>2. Len(c.lens) \in Nat
      BY <1>1
    <2>3. PICK k \in 0 .. Len(c.lens) : k = Max(S)
      BY <2>1, <2>2, LargestFits, Zenon
    <2>4. Limits(c) \in Seq(Nat) /\ Len(Limits(c)) <= Len(c.lens)
      BY <1>1, <2>1, <2>2, <2>3
    <2> QED
      BY <1>3, <2>4, Zenon DEF Bounded
  <1>4. CASE c.op \in {"socket", "recvmmsg"}
    <2>1. Limits(c) = c.lens
      BY <1>4, Zenon DEF Limits
    <2> QED
      BY <1>1, <1>4, <2>1, Zenon DEF Bounded
  <1> QED
    BY <1>1, <1>2, <1>3, <1>4, Zenon

(* A process with a call has a session that it made itself.                *)
LEMMA CallerOwns ==
    ASSUME ClientInv, NEW p \in Processes, call[p] # NoCall \/ (client[p].pid = p /\ client[p].fd # NoFd)
    PROVE  /\ client[p].fd \in Sessions /\ Owns(p, client[p].fd) /\ client[p] \in ClientType
           /\ wire[client[p].fd] \in WireType /\ Lone(wire[client[p].fd])
           /\ IF call[p].phase = "read" THEN Waited(wire[client[p].fd], call[p])
                                        ELSE Quiet(wire[client[p].fd])
           /\ call[p] # NoCall => call[p] \in CallType({"write", "read"}) /\ Bounded(call[p])
  <1>1. ClientTypes /\ HolderInv /\ FlowInv
    BY Zenon DEF ClientInv
  <1>2. client[p] \in ClientType /\ client[p].pid = p /\ client[p].fd # NoFd
    BY <1>1, Zenon DEF ClientTypes, HolderInv
  <1>3. client[p].fd \in 0 .. MaxSessions
    BY <1>2, Zenon DEF ClientType
  <1>4. client[p].fd \in Sessions
    BY <1>2, <1>3, ClientAssumption DEF Sessions, NoFd
  <1>5. Owns(p, client[p].fd)
    BY <1>2, Zenon DEF Owns
  <1>6. wire[client[p].fd] \in WireType /\ Lone(wire[client[p].fd])
    BY <1>1, <1>4, Zenon DEF ClientTypes, FlowInv
  <1>7. call[p] # NoCall => call[p] \in CallType({"write", "read"}) /\ Bounded(call[p])
    BY <1>1, Zenon DEF ClientTypes, HolderInv
  <1>8. IF call[p].phase = "read" THEN Waited(wire[client[p].fd], call[p])
                                 ELSE Quiet(wire[client[p].fd])
    BY <1>1, <1>4, <1>5, Zenon DEF FlowInv
  <1> QED
    BY <1>2, <1>4, <1>5, <1>6, <1>7, <1>8, Zenon

(* What a session with the connection w and the call m is like.            *)
InStep(w, m) ==
    /\ Lone(w)
    /\ IF m.phase = "read" THEN Waited(w, m) ELSE Quiet(w)
    /\ m # NoCall => Bounded(m)

(* The owner p of the session s goes on to the structure c, the call m and *)
(* the connection v.                                                       *)
Moves(p, s, c, m, v) ==
    /\ Owns(p, s)
    /\ c \in ClientType /\ c.fd = s /\ c.pid = p /\ client' = [client EXCEPT ![p] = c]
    /\ m \in {NoCall} \cup CallType({"write", "read"}) /\ call' = [call EXCEPT ![p] = m]
    /\ v \in WireType /\ v.holders = wire[s].holders /\ wire' = [wire EXCEPT ![s] = v]
    /\ InStep(v, m) /\ requested' \in Nat

(* A step of a call on the session of the process.                         *)
LEMMA OwnerStep ==
    ASSUME NEW p \in Processes, NEW s \in Sessions, NEW c, NEW m, NEW v,
           ClientInv, Moves(p, s, c, m, v)
    PROVE  ClientInv'
  <1> USE DEF Moves
  <1>1. ClientTypes /\ HolderInv /\ FlowInv
    BY Zenon DEF ClientInv
  <1>2. ClientTypes'
    BY <1>1, Zenon DEF ClientTypes
  <1>3. /\ client'[p] = c /\ call'[p] = m
        /\ \A q \in Processes : q # p => client'[q] = client[q] /\ call'[q] = call[q]
    BY <1>1, Zenon DEF ClientTypes
  <1>4. wire'[s] = v /\ \A t \in Sessions : t # s => wire'[t] = wire[t]
    BY <1>1, Zenon DEF ClientTypes
  <1>5. \A t \in Sessions : Lone(wire'[t])
    BY <1>1, <1>4, Zenon DEF FlowInv, InStep
  <1>6. \A q \in Processes : q # p => ~Owns(q, s)
    BY <1>1, Zenon DEF HolderInv
  <1>7. s # NoFd /\ client[p].fd = s
    BY Zenon DEF Owns
  <1>8. Undisturbed(p)
    <2> SUFFICES ASSUME NEW q \in Processes, NEW t \in Sessions, q # p, client[q].fd = t
                 PROVE  /\ q \in wire'[t].holders
                        /\ client[q].pid = q =>
                              wire'[t].requests = wire[t].requests /\ wire'[t].answers = wire[t].answers
      BY <1>3, Zenon DEF Undisturbed
    <2>1. q \in wire[t].holders
      BY <1>1, SessionsHeld, Zenon
    <2>2. CASE t # s
      BY <1>4, <2>1, <2>2, Zenon
    <2>3. CASE t = s
      <3>1. client[q].pid # q
        BY <1>6, <1>7, <2>3, Zenon DEF Owns
      <3>2. q \in wire'[t].holders
        BY <1>4, <2>1, <2>3, Zenon
      <3> QED
        BY <3>1, <3>2, Zenon
    <2> QED
      BY <2>2, <2>3, Zenon
  <1>9. Placed(p)
    <2>1. p # "none" /\ p \in v.holders
      <3>1. p \in wire[s].holders
        BY <1>1, <1>7, SessionsHeld, Zenon
      <3> QED
        BY <3>1, ClientAssumption, Zenon
    <2>2. client'[p].fd = s /\ client'[p].pid = p
      BY <1>3, Zenon
    <2>3. wire'[client'[p].fd] = v
      BY <1>4, <2>2, Zenon
    <2>4. p \in wire'[client'[p].fd].holders
      BY <2>1, <2>3, Zenon
    <2>5. IF call'[p].phase = "read" THEN Waited(wire'[client'[p].fd], call'[p])
                                    ELSE Quiet(wire'[client'[p].fd])
      BY <1>3, <2>3, Zenon DEF InStep
    <2>6. call'[p] # NoCall => Bounded(call'[p])
      BY <1>3, Zenon DEF InStep
    <2>7. \A q \in Processes : q # p => ~Owns(q, client'[p].fd)
      BY <1>6, <2>2, Zenon
    <2> QED
      BY <1>7, <2>1, <2>2, <2>4, <2>5, <2>6, <2>7, Zenon DEF Placed
  <1> QED
    BY <1>2, <1>3, <1>5, <1>8, <1>9, OwnStep, Zenon

(* request() starts on a session on which nothing is under way.            *)
LEMMA BeginKeeps ==
    ASSUME ClientInv, NEW p \in Processes, NEW c \in Calls, Begin(p, c)
    PROVE  ClientInv' /\ Quiet(wire[client[p].fd])
  <1>1. ClientTypes /\ HolderInv /\ FlowInv
    BY Zenon DEF ClientInv
  <1>2. PICK n : n = NextId(client[p].next_id)
    BY Zenon
  <1>3. PICK m : m = Message(n, c.op, c.lens, Limits(c))
    BY Zenon
  <1>4. PICK d : d = [client[p] EXCEPT !.next_id = n]
    BY Zenon
  <1>5. /\ call[p] = NoCall /\ client[p].pid = p /\ client[p].fd # NoFd
        /\ call' = [call EXCEPT ![p] = m] /\ requested' = requested + 1 /\ wire' = wire
    BY <1>2, <1>3, Zenon DEF Begin, Ready, Inherited
  <1>6. client' = [client EXCEPT ![p] = d]
    BY <1>2, <1>4, Zenon DEF Begin
  <1>7. /\ client[p] \in ClientType /\ client[p].next_id \in Nat /\ client[p].fd \in Sessions
        /\ Owns(p, client[p].fd) /\ wire[client[p].fd] \in WireType /\ Quiet(wire[client[p].fd])
        /\ Lone(wire[client[p].fd])
    <2>1. call[p].phase # "read"
      BY <1>5 DEF NoCall
    <2>2. \A e \in ClientType : e.next_id \in Nat
      BY Zenon DEF ClientType
    <2> QED
      BY <1>5, <2>1, <2>2, CallerOwns, Zenon
  <1>8. n \in Nat
    BY <1>2, <1>7, ClientAssumption DEF NextId
  <1>9. d \in ClientType /\ d.fd = client[p].fd /\ d.pid = p
    BY <1>4, <1>5, <1>7, <1>8, Zenon DEF ClientType
  <1>10. m \in CallType({"write", "read"}) /\ m.phase = "write" /\ Bounded(m)
    <2>1. requested + 1 \in Nat
      BY <1>1 DEF ClientTypes
    <2>2. m.phase = "write" /\ m.op = c.op /\ m.lens = c.lens /\ m.limits = Limits(c)
      BY <1>3, Zenon DEF Message
    <2>3. Limits(c) \in Seq(Nat) /\ Bounded(m)
      BY <2>2, LimitsBounded, Zenon
    <2>4. c.op \in Ops /\ c.lens \in Seq(Nat)
      BY CallsAssumption, Zenon DEF Ops
    <2> QED
      BY <1>3, <1>8, <2>1, <2>2, <2>3, <2>4, Zenon DEF Message, CallType
  <1>11. requested' \in Nat
    BY <1>1, <1>5 DEF ClientTypes
  <1>12. InStep(wire[client[p].fd], m)
    BY <1>7, <1>10, Zenon DEF InStep
  <1>13. wire' = [wire EXCEPT ![client[p].fd] = wire[client[p].fd]]
    BY <1>1, <1>5, <1>7, Zenon DEF ClientTypes
  <1> QED
    <2>1. Moves(p, client[p].fd, d, m, wire[client[p].fd])
      BY <1>5, <1>6, <1>7, <1>9, <1>10, <1>11, <1>12, <1>13, Zenon DEF Moves
    <2> QED
      BY <1>7, <2>1, OwnerStep, Zenon

(* A request in an empty stream.                                           *)
LEMMA FirstRequest == \A m : Append(<<>>, m) = <<m>>
  OBVIOUS

(* The request is written: it is the only thing on its way.                *)
LEMMA WriteKeeps ==
    ASSUME ClientInv, NEW p \in Processes, call[p].phase = "write", NEW s, s = client[p].fd,
           wire' = [wire EXCEPT ![s].requests = Append(@, call[p])],
           call' = [call EXCEPT ![p].phase = "read"], client' = client, requested' = requested
    PROVE  ClientInv'
  <1>1. call[p] # NoCall /\ call[p].phase # "read"
    BY DEF NoCall
  <1>2. /\ s \in Sessions /\ Owns(p, s) /\ client[p] \in ClientType /\ Quiet(wire[s])
        /\ call[p] \in CallType({"write", "read"}) /\ Bounded(call[p])
    BY <1>1, CallerOwns, Zenon
  <1>3. PICK w \in WireType : w = wire[s]
    BY <1>1, CallerOwns, Zenon
  <1>4. PICK m : m = call[p]
    BY Zenon
  <1>5. m \in CallType({"write"}) /\ Bounded(m)
    BY <1>2, <1>4, Zenon DEF CallType
  <1>6. PICK n : n = [m EXCEPT !.phase = "read"]
    BY Zenon
  <1>7. /\ n \in CallType({"write", "read"}) /\ n.phase = "read" /\ n.tag = m.tag
        /\ n.op = m.op /\ n.lens = m.lens /\ n.limits = m.limits
    BY <1>5, <1>6, Zenon DEF CallType
  <1>8. PICK v : v = [w EXCEPT !.requests = <<m>>]
    BY Zenon
  <1>9. wire' = [wire EXCEPT ![s] = v]
    <2>1. Append(w.requests, m) = <<m>>
      BY <1>2, <1>3, FirstRequest, Zenon DEF Quiet
    <2> QED
      BY <1>3, <1>4, <1>8, <2>1, Zenon
  <1>10. v \in WireType /\ v.requests = <<m>> /\ v.answers = <<>> /\ v.holders = wire[s].holders
    <2>1. <<m>> \in Seq(CallType({"write"}))
      BY <1>5
    <2> QED
      BY <1>2, <1>3, <1>8, <2>1, Zenon DEF WireType, Quiet
  <1>11. call' = [call EXCEPT ![p] = n]
    BY <1>4, <1>6, Zenon
  <1>12. InStep(v, n)
    <2>1. Lone(v) /\ Waited(v, n)
      BY <1>7, <1>10 DEF Lone, Waited
    <2>2. Bounded(n)
      BY <1>5, <1>7, Zenon DEF Bounded
    <2> QED
      BY <1>7, <2>1, <2>2, Zenon DEF InStep
  <1>13. /\ client' = [client EXCEPT ![p] = client[p]] /\ client[p].fd = s /\ client[p].pid = p
         /\ requested' \in Nat
    BY <1>2, Zenon DEF ClientInv, ClientTypes, Owns
  <1> QED
    <2>1. Moves(p, s, client[p], n, v)
      BY <1>2, <1>7, <1>9, <1>10, <1>11, <1>12, <1>13, Zenon DEF Moves
    <2> QED
      BY <1>2, <2>1, OwnerStep, Zenon

(* The first item of a sequence, and what is left when it is the only one. *)
LEMMA FirstItem ==
    ASSUME NEW S, NEW q \in Seq(S), q # <<>>
    PROVE  /\ q[1] \in S /\ Head(q) = q[1] /\ Tail(q) \in Seq(S)
           /\ Len(q) <= 1 => Tail(q) = <<>>
  OBVIOUS

(* An answer that a call accepts is the one to its own request, within the *)
(* caller's buffers.                                                       *)
LEMMA AcceptedFits ==
    ASSUME NEW m \in CallType({"write", "read"}), Bounded(m), NEW a \in AnswerType, Accepted(m, a)
    PROVE  WithinBuffers(m, a)
  <1>1. /\ m.op \in Ops /\ m.lens \in Seq(Nat) /\ m.limits \in Seq(Nat) /\ a.result \in Int /\ a.lens \in Seq(Int)
        /\ Len(m.lens) \in Nat /\ Len(m.limits) \in Nat
    BY DEF CallType, AnswerType
  <1>2. CASE m.op \in {"send", "recv"}
    <2>1. m.lens # <<>> /\ m.limits # <<>> /\ m.limits[1] <= m.lens[1]
      BY <1>2, Zenon DEF Bounded
    <2>2. m.lens[1] \in Nat /\ m.limits[1] \in Nat
      BY <1>1, <2>1, FirstItem, Zenon
    <2>3. a.result < 0 \/ a.result <= m.limits[1]
      <3>1. CASE m.op = "send"
        BY <3>1, Zenon DEF Accepted, Fits
      <3>2. CASE m.op = "recv"
        BY <3>2, Zenon DEF Accepted, Fits
      <3> QED
        BY <1>2, <3>1, <3>2, Zenon
    <2>4. a.result <= m.lens[1]
      <3>1. \A r \in Int, n \in Nat, l \in Nat : l <= n /\ (r < 0 \/ r <= l) => r <= n
        OBVIOUS
      <3> QED
        BY <1>1, <2>1, <2>2, <2>3, <3>1, Zenon
    <2> QED
      BY <1>2, <2>4, Zenon DEF WithinBuffers, Batches
  <1>3. CASE m.op = "sendmmsg"
    <2>1. Len(m.limits) <= Len(m.lens)
      BY <1>3, Zenon DEF Bounded
    <2>2. a.lens = <<>> /\ (a.result < 0 \/ a.result \in 1 .. Len(m.limits))
      BY <1>3, Zenon DEF Accepted, Fits
    <2>3. a.result <= Len(m.lens) /\ DOMAIN a.lens = {}
      BY <1>1, <2>1, <2>2
    <2> QED
      BY <1>3, <2>3, Zenon DEF WithinBuffers, Batches
  <1>4. CASE m.op = "recvmmsg"
    <2>1. m.limits = m.lens
      BY <1>4, Zenon DEF Bounded
    <2>2. \/ a.result < 0 /\ a.lens = <<>>
          \/ /\ a.result \in 1 .. Len(m.limits) /\ Len(a.lens) = a.result
             /\ \A i \in 1 .. a.result : a.lens[i] <= m.limits[i]
      BY <1>4, Zenon DEF Accepted, Fits
    <2>3. a.result <= Len(m.lens) /\ \A i \in DOMAIN a.lens : a.lens[i] <= m.lens[i]
      <3>1. CASE a.result < 0 /\ a.lens = <<>>
        BY <1>1, <3>1
      <3>2. CASE a.result \in 1 .. Len(m.limits) /\ Len(a.lens) = a.result
                 /\ \A i \in 1 .. a.result : a.lens[i] <= m.limits[i]
        <4>1. DOMAIN a.lens = 1 .. a.result /\ a.result <= Len(m.lens)
          BY <1>1, <2>1, <3>2
        <4> QED
          BY <2>1, <3>2, <4>1, Zenon
      <3> QED
        BY <2>2, <3>1, <3>2, Zenon
    <2> QED
      BY <1>4, <2>3, Zenon DEF WithinBuffers, Batches
  <1>5. CASE m.op \in {"hello", "socket"}
    BY <1>5, Zenon DEF WithinBuffers, Batches
  <1> QED
    BY <1>1, <1>2, <1>3, <1>4, <1>5, Zenon DEF Ops

(* Take, when the answer is accepted.                                      *)
Takes(p, s, a) ==
    /\ wire' = [wire EXCEPT ![s].answers = Tail(@)]
    /\ client' = [client EXCEPT ![p].features = IF a.op = "hello" THEN a.feature ELSE @]
    /\ call' = [call EXCEPT ![p] = NoCall] /\ requested' = requested

(* The answer that a call finds is to its request, and once it is taken    *)
(* nothing is left.                                                        *)
LEMMA TakeKeeps ==
    ASSUME ClientInv, NEW p \in Processes, call[p].phase = "read", NEW s, s = client[p].fd,
           wire[s].answers # <<>>, NEW a, a = Head(wire[s].answers), Accepted(call[p], a),
           Takes(p, s, a)
    PROVE  ClientInv' /\ a.tag = call[p].tag /\ WithinBuffers(call[p], a)
  <1>1. call[p] # NoCall
    BY DEF NoCall
  <1>2. /\ s \in Sessions /\ Owns(p, s) /\ client[p] \in ClientType /\ Waited(wire[s], call[p])
        /\ call[p] \in CallType({"write", "read"}) /\ Bounded(call[p])
    BY <1>1, CallerOwns, Zenon
  <1>3. PICK w \in WireType : w = wire[s] /\ Lone(w)
    BY <1>1, CallerOwns, Zenon
  <1>4. w.requests = <<>> /\ w.answers \in Seq(AnswerType) /\ Len(w.answers) <= 1 /\ w.answers # <<>>
    BY <1>3, WireFields, Zenon DEF Lone
  <1>5. a = w.answers[1] /\ a \in AnswerType /\ Tail(w.answers) = <<>>
    <2>1. a = Head(w.answers)
      BY <1>3, Zenon
    <2> QED
      BY <1>4, <2>1, FirstItem, Zenon
  <1>6. a.tag = call[p].tag
    BY <1>2, <1>3, <1>4, <1>5, Zenon DEF Waited
  <1>7. WithinBuffers(call[p], a)
    BY <1>2, <1>5, AcceptedFits, Zenon
  <1>8. PICK v : v = [w EXCEPT !.answers = <<>>]
    BY Zenon
  <1>9. wire' = [wire EXCEPT ![s] = v]
    BY <1>3, <1>5, <1>8, Zenon DEF Takes
  <1>10. v \in WireType /\ v.requests = <<>> /\ v.answers = <<>> /\ v.holders = wire[s].holders
    <2>1. <<>> \in Seq(AnswerType)
      OBVIOUS
    <2> QED
      BY <1>3, <1>4, <1>8, <2>1, Zenon DEF WireType
  <1>11. PICK b : b = IF a.op = "hello" THEN a.feature ELSE client[p].features
    BY Zenon
  <1>12. PICK c : c = [client[p] EXCEPT !.features = b]
    BY Zenon
  <1>13. client' = [client EXCEPT ![p] = c]
    BY <1>11, <1>12, Zenon DEF Takes
  <1>14. c \in ClientType /\ c.fd = s /\ c.pid = p
    <2>1. client[p].features \in BOOLEAN /\ a.feature \in BOOLEAN
      BY <1>2, <1>5, Zenon DEF ClientType, AnswerType
    <2>2. b \in BOOLEAN
      BY <1>11, <2>1, Zenon
    <2> QED
      BY <1>2, <1>12, <2>2, Zenon DEF ClientType, Owns
  <1>15. InStep(v, NoCall)
    <2>1. Lone(v) /\ Quiet(v)
      BY <1>10 DEF Lone, Quiet
    <2>2. NoCall.phase # "read"
      BY Zenon DEF NoCall
    <2> QED
      BY <2>1, <2>2, Zenon DEF InStep
  <1>16. requested' \in Nat /\ call' = [call EXCEPT ![p] = NoCall]
    BY Zenon DEF ClientInv, ClientTypes, Takes
  <1> QED
    <2>1. Moves(p, s, c, NoCall, v)
      BY <1>2, <1>9, <1>10, <1>13, <1>14, <1>15, <1>16, Zenon DEF Moves
    <2> QED
      BY <1>2, <1>6, <1>7, <2>1, OwnerStep, Zenon

(* A child has a copy of its parent's structure: it holds the session, and *)
(* does not own it.                                                        *)
LEMMA ForkKeeps ==
    ASSUME ClientInv, NEW p \in Processes, NEW q \in Processes, Fork(p, q)
    PROVE  ClientInv'
  <1>1. ClientTypes /\ HolderInv /\ FlowInv
    BY Zenon DEF ClientInv
  <1>2. /\ client[p].pid # "none" /\ client[q].pid = "none" /\ client[p].pid # q
        /\ client' = [client EXCEPT ![q] = client[p]] /\ call' = call /\ requested' = requested
    BY Zenon DEF Fork, Ready, Alive
  <1>3. ASSUME NEW t \in Sessions
        PROVE  /\ wire'[t] \in WireType /\ wire'[t].requests = wire[t].requests
               /\ wire'[t].answers = wire[t].answers /\ wire[t].holders \subseteq wire'[t].holders
               /\ t = client[p].fd => q \in wire'[t].holders
    <2>1. PICK w \in WireType : w = wire[t]
      BY <1>1, Zenon DEF ClientTypes
    <2>2. CASE t = client[p].fd
      <3>1. PICK h : h = w.holders \cup {q}
        BY Zenon
      <3>2. wire'[t] = [w EXCEPT !.holders = h]
        <4>1. wire'[t] = [wire[t] EXCEPT !.holders = @ \cup {q}]
          BY <2>2, Zenon DEF Fork
        <4> QED
          BY <2>1, <3>1, <4>1, Zenon
      <3>3. h \in SUBSET Processes /\ w.holders \subseteq h /\ q \in h
        BY <3>1, WireFields, Zenon
      <3>4. /\ wire'[t] \in WireType /\ wire'[t].requests = w.requests
            /\ wire'[t].answers = w.answers /\ wire'[t].holders = h
        BY <3>2, <3>3, Zenon DEF WireType
      <3> QED
        BY <2>1, <3>3, <3>4, Zenon
    <2>3. CASE t # client[p].fd
      <3>1. wire'[t] = w
        BY <2>1, <2>3, Zenon DEF Fork
      <3> QED
        BY <2>1, <2>3, <3>1, Zenon
    <2> QED
      BY <2>2, <2>3, Zenon
  <1>4. client'[q] = client[p] /\ \A r \in Processes : r # q => client'[r] = client[r] /\ call'[r] = call[r]
    BY <1>1, <1>2, Zenon DEF ClientTypes
  <1>5. call'[q] = NoCall
    <2>1. q # "none"
      BY ClientAssumption, Zenon
    <2> QED
      BY <1>1, <1>2, <2>1, Zenon DEF HolderInv
  <1>6. ClientTypes'
    <2>1. client' \in [Processes -> ClientType]
      BY <1>1, <1>2, Zenon DEF ClientTypes
    <2>2. wire' \in [Sessions -> WireType]
      BY <1>3, Zenon DEF Fork
    <2> QED
      BY <1>1, <1>2, <2>1, <2>2, Zenon DEF ClientTypes
  <1>7. ASSUME NEW t \in Sessions PROVE Lone(wire'[t])
    <2>1. Lone(wire[t])
      BY <1>1, Zenon DEF FlowInv
    <2> QED
      BY <1>3, <2>1, Zenon DEF Lone
  <1>8. Undisturbed(q)
    <2> SUFFICES ASSUME NEW r \in Processes, NEW t \in Sessions, r # q, client[r].fd = t
                 PROVE  r \in wire'[t].holders
      BY <1>3, <1>4, Zenon DEF Undisturbed
    <2>1. r \in wire[t].holders
      BY <1>1, SessionsHeld, Zenon
    <2> QED
      BY <1>3, <2>1, Zenon
  <1>9. Placed(q)
    <2>1. client[p].fd # NoFd => client[p].fd \in Sessions
      BY <1>1, ClientAssumption DEF ClientTypes, ClientType, Sessions, NoFd
    <2>2. client[p].fd # NoFd => q \in wire'[client[p].fd].holders
      BY <1>3, <2>1, Zenon
    <2> QED
      BY <1>2, <1>4, <1>5, <2>2, Zenon DEF Placed
  <1> QED
    BY <1>4, <1>6, <1>7, <1>8, <1>9, OwnStep, Zenon

(* A step of the daemon: what is on its way on a session is still that.    *)
LEMMA DaemonStep ==
    ASSUME ClientInv, NEW s \in Sessions, NEW v \in WireType, wire' = [wire EXCEPT ![s] = v],
           client' = client, call' = call, requested' = requested,
           v.holders = wire[s].holders, Lone(v), Quiet(wire[s]) => Quiet(v),
           \A p \in Processes : Owns(p, s) /\ Waited(wire[s], call[p]) => Waited(v, call[p])
    PROVE  ClientInv'
  <1>1. ClientTypes /\ HolderInv /\ FlowInv
    BY Zenon DEF ClientInv
  <1>2. wire'[s] = v /\ \A t \in Sessions : t # s => wire'[t] = wire[t]
    BY <1>1, Zenon DEF ClientTypes
  <1>3. ClientTypes'
    BY <1>1, Zenon DEF ClientTypes
  <1>4. HolderInv'
    <2>1. ASSUME NEW p \in Processes, client[p].fd # NoFd
          PROVE  p \in wire'[client[p].fd].holders
      <3>1. client[p].fd \in Sessions /\ p \in wire[client[p].fd].holders
        BY <1>1, <2>1, ClientAssumption DEF ClientTypes, ClientType, Sessions, NoFd, HolderInv
      <3>2. CASE client[p].fd = s
        BY <1>2, <3>1, <3>2, Zenon
      <3>3. CASE client[p].fd # s
        BY <1>2, <3>1, <3>3, Zenon
      <3> QED
        BY <3>2, <3>3, Zenon
    <2>2. \A p : (Alive(p)' <=> Alive(p)) /\ \A t : Owns(p, t)' <=> Owns(p, t)
      BY Zenon DEF Alive, Owns
    <2>3. \A p, q \in Processes, t \in Sessions : Owns(p, t)' /\ Owns(q, t)' => p = q
      BY <1>1, <2>2, Zenon DEF HolderInv
    <2>4. \A p \in Processes : client[p].fd # NoFd => Alive(p)'
      BY <1>1, <2>2, Zenon DEF HolderInv
    <2>5. \A p \in Processes :
             call[p] # NoCall => client[p].pid = p /\ client[p].fd # NoFd /\ Bounded(call[p])
      BY <1>1, Zenon DEF HolderInv
    <2> QED
      BY <2>1, <2>3, <2>4, <2>5, Zenon DEF HolderInv
  <1>5. FlowInv'
    <2>1. ASSUME NEW t \in Sessions PROVE Lone(wire'[t])
      BY <1>1, <1>2, Zenon DEF FlowInv
    <2>2. ASSUME NEW p \in Processes, NEW t \in Sessions, Owns(p, t)
          PROVE  IF call[p].phase = "read" THEN Waited(wire'[t], call[p]) ELSE Quiet(wire'[t])
      <3>1. IF call[p].phase = "read" THEN Waited(wire[t], call[p]) ELSE Quiet(wire[t])
        BY <1>1, <2>2, Zenon DEF FlowInv
      <3>2. CASE t = s
        BY <1>2, <2>2, <3>1, <3>2, Zenon
      <3>3. CASE t # s
        BY <1>2, <3>1, <3>3, Zenon
      <3> QED
        BY <3>2, <3>3, Zenon
    <2> QED
      BY <2>1, <2>2, Zenon DEF FlowInv, Owns
  <1> QED
    BY <1>3, <1>4, <1>5, Zenon DEF ClientInv

(* A length that is one too long.                                          *)
LEMMA LongerFirst ==
    ASSUME NEW limits \in Seq(Nat), NEW ls, ls = [limits EXCEPT ![1] = @ + 1]
    PROVE  ls \in Seq(Nat)
  <1>1. CASE limits = <<>>
    <2>1. ls = limits
      BY <1>1
    <2> QED
      BY <2>1, Zenon
  <1>2. CASE 1 \in 1 .. Len(limits)
    <2>1. limits \in [1 .. Len(limits) -> Nat] /\ Len(limits) \in Nat
      OBVIOUS
    <2>2. limits[1] + 1 \in Nat
      BY <1>2, <2>1
    <2>3. ls \in [1 .. Len(limits) -> Nat]
      BY <2>1, <2>2, Zenon
    <2> QED
      BY <2>1, <2>3
  <1> QED
    BY <1>1, <1>2

(* The results that the daemon may send have their types.                  *)
LEMMA ReplyTyped ==
    ASSUME NEW m \in CallType({"write"}), NEW r \in Replies(m)
    PROVE  r.result \in Int /\ r.lens \in Seq(Int)
  <1>1. m.op \in Ops /\ m.limits \in Seq(Nat) /\ Len(m.limits) \in Nat
    BY DEF CallType
  <1>2. CASE r = [result |-> -1, lens |-> <<>>]
    BY <1>2
  <1>3. CASE m.op \in {"hello", "socket"} /\ r = [result |-> 0, lens |-> <<>>]
    BY <1>3
  <1>4. CASE m.op = "send" /\ \E n \in m.limits[1] .. m.limits[1] + 1 : r = [result |-> n, lens |-> <<>>]
    BY <1>1, <1>4
  <1>5. CASE m.op = "recv" /\ \E n \in m.limits[1] .. m.limits[1] + 1 : r = [result |-> n, lens |-> <<n>>]
    BY <1>1, <1>5
  <1>6. CASE \E n \in Len(m.limits) .. Len(m.limits) + 1 : r = [result |-> n, lens |-> <<>>]
    BY <1>1, <1>6
  <1>7. CASE \E ls \in Lengths(m.limits) : r = [result |-> Len(ls), lens |-> ls]
    <2>1. PICK ls \in Lengths(m.limits) : r = [result |-> Len(ls), lens |-> ls]
      BY <1>7, Zenon
    <2>2. ls \in Seq(Int)
      <3>1. CASE \E n \in 1 .. Len(m.limits) : ls = SubSeq(m.limits, 1, n)
        BY <1>1, <3>1
      <3>2. CASE ls = [m.limits EXCEPT ![1] = @ + 1]
        <4>1. ls \in Seq(Nat)
          BY <1>1, <3>2, LongerFirst, Zenon
        <4> QED
          BY <4>1
      <3>3. CASE ls = Append(m.limits, 0)
        BY <1>1, <3>3
      <3> QED
        BY <2>1, <3>1, <3>2, <3>3, Zenon DEF Lengths
    <2>3. Len(ls) \in Int
      BY <2>2
    <2> QED
      BY <2>1, <2>2, <2>3, Zenon
  <1> QED
    BY <1>1, <1>2, <1>3, <1>4, <1>5, <1>6, <1>7, Zenon DEF Ops, Replies

(* The daemon answers the request of a session.                            *)
LEMMA ServeKeeps ==
    ASSUME ClientInv, NEW s \in Sessions, Serve(s)
    PROVE  ClientInv'
  <1>1. ClientTypes /\ HolderInv /\ FlowInv
    BY Zenon DEF ClientInv
  <1>2. PICK w \in WireType : w = wire[s]
    BY <1>1, Zenon DEF ClientTypes
  <1>3. w.requests # <<>> /\ Lone(w)
    BY <1>1, <1>2, Zenon DEF Serve, FlowInv
  <1>4. /\ w.requests \in Seq(CallType({"write"})) /\ w.answers = <<>> /\ Len(w.requests) <= 1
        /\ w.sockets \in SUBSET Nat
    BY <1>3, WireFields, Zenon DEF Lone
  <1>5. PICK m \in CallType({"write"}) : m = w.requests[1] /\ Head(w.requests) = m /\ Tail(w.requests) = <<>>
    BY <1>3, <1>4, FirstItem, Zenon
  <1>6. PICK r \in Replies(m), f \in BOOLEAN :
            wire' = [wire EXCEPT ![s].requests = Tail(@),
                                 ![s].answers = IF wire[s].holders = {} THEN @
                                                ELSE Append(@, Answer(m, r, f)),
                                 ![s].sockets = IF m.op = "socket" /\ r.result >= 0
                                                THEN @ \cup {m.tag} ELSE @]
    <2>1. Head(wire[s].requests) = m
      BY <1>2, <1>5, Zenon
    <2>2. \E r \in Replies(m), f \in (IF m.op = "hello" THEN BOOLEAN ELSE {FALSE}) :
            wire' = [wire EXCEPT ![s].requests = Tail(@),
                                 ![s].answers = IF wire[s].holders = {} THEN @
                                                ELSE Append(@, Answer(m, r, f)),
                                 ![s].sockets = IF m.op = "socket" /\ r.result >= 0
                                                THEN @ \cup {m.tag} ELSE @]
      BY <2>1, Zenon DEF Serve
    <2> QED
      BY <2>2, Zenon
  <1>7. PICK a : a = Answer(m, r, f)
    BY Zenon
  <1>8. a \in AnswerType /\ a.tag = m.tag
    <2>1. r.result \in Int /\ r.lens \in Seq(Int)
      BY ReplyTyped, Zenon
    <2>2. m.tag \in Nat /\ m.id \in Nat /\ m.op \in Ops
      BY Zenon DEF CallType
    <2> QED
      BY <1>7, <2>1, <2>2, Zenon DEF Answer, AnswerType
  <1>9. PICK k : k = IF w.holders = {} THEN <<>> ELSE <<a>>
    BY Zenon
  <1>10. PICK o : o = IF m.op = "socket" /\ r.result >= 0 THEN w.sockets \cup {m.tag} ELSE w.sockets
    BY Zenon
  <1>11. PICK v : v = [w EXCEPT !.requests = <<>>, !.answers = k, !.sockets = o]
    BY Zenon
  <1>12. wire' = [wire EXCEPT ![s] = v]
    <2>1. k = IF wire[s].holders = {} THEN w.answers ELSE Append(w.answers, Answer(m, r, f))
      BY <1>2, <1>4, <1>7, <1>9
    <2> QED
      BY <1>2, <1>5, <1>6, <1>10, <1>11, <2>1, Zenon
  <1>13. v \in WireType /\ v.requests = <<>> /\ v.answers = k /\ v.holders = w.holders
    <2>1. k \in Seq(AnswerType) /\ <<>> \in Seq(CallType({"write"}))
      BY <1>8, <1>9
    <2>2. o \in SUBSET Nat
      BY <1>4, <1>10, Zenon DEF CallType
    <2> QED
      BY <1>11, <2>1, <2>2, Zenon DEF WireType
  <1>14. Lone(v)
    BY <1>9, <1>13 DEF Lone
  <1>15. ~Quiet(wire[s])
    BY <1>2, <1>3, Zenon DEF Quiet
  <1>16. ASSUME NEW p \in Processes, Waited(wire[s], call[p]) PROVE Waited(v, call[p])
    <2>1. m.tag = call[p].tag
      BY <1>2, <1>3, <1>5, <1>16, Zenon DEF Waited
    <2>2. v.answers # <<>> => v.answers[1] = a
      BY <1>9, <1>13
    <2> QED
      BY <1>8, <1>13, <2>1, <2>2, Zenon DEF Waited
  <1>17. v.holders = wire[s].holders
    BY <1>2, <1>13, Zenon
  <1> QED
    BY <1>12, <1>13, <1>14, <1>15, <1>16, <1>17, DaemonStep, Zenon DEF Serve

(* The daemon ends a connection.                                           *)
LEMMA EndedKeeps ==
    ASSUME ClientInv, NEW s \in Sessions, wire' = Ended(s),
           client' = client, call' = call, requested' = requested
    PROVE  ClientInv'
  <1>1. PICK w \in WireType : w = wire[s] /\ Lone(w)
    BY Zenon DEF ClientInv, ClientTypes, FlowInv
  <1>2. PICK v : v = [w EXCEPT !.open = FALSE, !.sockets = {}, !.requests = <<>>]
    BY Zenon
  <1>3. wire' = [wire EXCEPT ![s] = v]
    BY <1>1, <1>2, Zenon DEF Ended
  <1>4. v \in WireType /\ v.requests = <<>> /\ v.answers = w.answers /\ v.holders = w.holders
    <2>1. <<>> \in Seq(CallType({"write"})) /\ {} \in SUBSET Nat
      OBVIOUS
    <2> QED
      BY <1>2, <2>1, Zenon DEF WireType
  <1>5. Lone(v)
    BY <1>1, <1>4, Zenon DEF Lone
  <1>6. Quiet(wire[s]) => Quiet(v)
    BY <1>1, <1>4, Zenon DEF Quiet
  <1>7. \A p \in Processes : Waited(wire[s], call[p]) => Waited(v, call[p])
    BY <1>1, <1>4, Zenon DEF Waited
  <1>8. v.holders = wire[s].holders
    BY <1>1, <1>4, Zenon
  <1> QED
    BY <1>3, <1>4, <1>5, <1>6, <1>7, <1>8, DaemonStep, Zenon

-----------------------------------------------------------------------------
(* What AnswersOwn says of a process p: its call starts on a quiet session *)
(* and ends with the answer to it.                                         *)
Called(p) ==
    LET session == wire[client[p].fd]
        answer == Head(session.answers)
    IN  /\ call[p] = NoCall /\ call'[p] # NoCall /\ client[p].fd # NoFd /\ ~Inherited(p) =>
               session.requests = <<>> /\ session.answers = <<>>
        /\ call[p].phase = "read" /\ call'[p] = NoCall /\ client'[p].fd # NoFd =>
               /\ session.answers # <<>> /\ answer.tag = call[p].tag
               /\ WithinBuffers(call[p], answer)

(* What AnswersOwn says of all of them.                                    *)
AllCalled == \A p \in Processes : Called(p)

(* A process whose call is as it was.                                      *)
LEMMA CallsOn ==
    ASSUME NEW p, call'[p] = call[p]
    PROVE  Called(p)
  <1>1. NoCall.phase # "read"
    BY Zenon DEF NoCall
  <1> QED
    BY <1>1, Zenon DEF Called

(* A process gives up its session and its call.                            *)
LEMMA LeavingStep ==
    ASSUME ClientInv, NEW p \in Processes, NEW c \in ClientType, c.fd = NoFd,
           client' = [client EXCEPT ![p] = c], wire' = Released(p),
           call' = [call EXCEPT ![p] = NoCall], requested' = requested
    PROVE  ClientInv' /\ AllCalled
  <1>1. /\ client'[p] = c /\ call'[p] = NoCall
        /\ \A q \in Processes : q # p => call'[q] = call[q]
    BY Zenon DEF ClientInv, ClientTypes
  <1>2. Called(p)
    BY <1>1, Zenon DEF Called
  <1>3. AllCalled
    BY <1>1, <1>2, CallsOn, Zenon DEF AllCalled
  <1> QED
    BY <1>3, LeavingKeeps, Zenon

(* The calls of broken().                                                  *)
LEMMA BrokenStep ==
    ASSUME ClientInv, NEW p \in Processes, Broken(p)
    PROVE  ClientInv' /\ AllCalled
  <1>1. PICK c : c = [client[p] EXCEPT !.fd = NoFd, !.error = TRUE]
    BY Zenon
  <1>2. client[p] \in ClientType /\ NoFd \in 0 .. MaxSessions
    BY ClientAssumption DEF ClientInv, ClientTypes, NoFd
  <1>3. c \in ClientType /\ c.fd = NoFd
    BY <1>1, <1>2, Zenon DEF ClientType
  <1>4. client' = [client EXCEPT ![p] = c]
    BY <1>1, Zenon DEF Broken
  <1> QED
    BY <1>3, <1>4, LeavingStep, Zenon DEF Broken

(* The steps of a process between two calls that give up its session.      *)
LEMMA ClosingStep ==
    ASSUME ClientInv, NEW p \in Processes,
           PsInitFails(p) \/ PsFini(p) \/ DropInherited(p) \/ DropInheritedBatch(p) \/ Exit(p)
    PROVE  ClientInv' /\ AllCalled
  <1>1. client \in [Processes -> ClientType] /\ call \in [Processes -> {NoCall} \cup CallType({"write", "read"})]
    BY Zenon DEF ClientInv, ClientTypes
  <1>2. /\ NoProcess \in ClientType /\ NoProcess.fd = NoFd
        /\ Fresh(p) \in ClientType /\ Fresh(p).fd = NoFd
    BY EmptyClients, Zenon
  <1>3. call[p] = NoCall => call = [call EXCEPT ![p] = NoCall]
    BY <1>1, Zenon
  <1>4. CASE PsInitFails(p)
    <2>1. PICK c : c = [Fresh(p) EXCEPT !.error = TRUE]
      BY Zenon
    <2>2. c \in ClientType /\ c.fd = NoFd
      BY <1>2, <2>1, Zenon DEF ClientType
    <2> QED
      BY <1>3, <1>4, <2>1, <2>2, LeavingStep, Zenon DEF PsInitFails, Ready
  <1>5. CASE PsFini(p)
    BY <1>2, <1>3, <1>5, LeavingStep, Zenon DEF PsFini, Ready
  <1>6. CASE DropInherited(p)
    <2>1. PICK c : c = [client[p] EXCEPT !.fd = NoFd, !.error = FALSE, !.pid = p]
      BY Zenon
    <2>2. client[p] \in ClientType /\ NoFd \in 0 .. MaxSessions
      BY <1>1, ClientAssumption DEF NoFd
    <2>3. c \in ClientType /\ c.fd = NoFd
      BY <2>1, <2>2, Zenon DEF ClientType
    <2> QED
      BY <1>3, <1>6, <2>1, <2>3, LeavingStep, Zenon DEF DropInherited, Ready
  <1>7. CASE DropInheritedBatch(p)
    BY <1>2, <1>3, <1>7, LeavingStep, Zenon DEF DropInheritedBatch, Ready
  <1>8. CASE Exit(p)
    BY <1>2, <1>8, LeavingStep, Zenon DEF Exit
  <1> QED
    BY <1>4, <1>5, <1>6, <1>7, <1>8, Zenon

(* A step of a process.                                                    *)
LEMMA ProcessStep ==
    ASSUME ClientInv, NEW p \in Processes,
           \/ PsInit(p) \/ \E c \in Calls : Begin(p, c)
           \/ WriteRequest(p) \/ Take(p) \/ Reset(p) \/ Deadline(p)
           \/ \E q \in Processes : Fork(p, q)
    PROVE  ClientInv' /\ AllCalled
  <1>1. call \in [Processes -> {NoCall} \cup CallType({"write", "read"})]
    BY Zenon DEF ClientInv, ClientTypes
  <1>2. ASSUME \A q \in Processes : q # p => call'[q] = call[q], Called(p)
        PROVE  AllCalled
    BY <1>2, CallsOn, Zenon DEF AllCalled
  <1>3. NoCall.phase = "none"
    BY Zenon DEF NoCall
  <1>4. CASE PsInit(p)
    <2>1. call[p] = NoCall /\ ~(client[p].pid = p /\ client[p].fd # NoFd)
      BY <1>4, Zenon DEF PsInit, Ready
    <2>2. Called(p)
      BY <1>3, <2>1, Zenon DEF Called, Inherited
    <2>3. \A q \in Processes : q # p => call'[q] = call[q]
      BY <1>1, <1>4, Zenon DEF PsInit
    <2> QED
      BY <1>2, <1>4, <2>2, <2>3, PsInitKeeps, Zenon
  <1>5. CASE \E c \in Calls : Begin(p, c)
    <2>1. PICK c \in Calls : Begin(p, c)
      BY <1>5, Zenon
    <2>2. ClientInv' /\ Quiet(wire[client[p].fd])
      BY <2>1, BeginKeeps, Zenon
    <2>3. call[p] = NoCall
      BY <2>1, Zenon DEF Begin, Ready
    <2>4. Called(p)
      BY <1>3, <2>2, <2>3, Zenon DEF Called, Quiet
    <2>5. \A q \in Processes : q # p => call'[q] = call[q]
      BY <1>1, <2>1, Zenon DEF Begin
    <2> QED
      BY <1>2, <2>2, <2>4, <2>5, Zenon
  <1>6. CASE WriteRequest(p) /\ ~Broken(p)
    <2>1. /\ call[p].phase = "write" /\ client' = client /\ requested' = requested
          /\ wire' = [wire EXCEPT ![client[p].fd].requests = Append(@, call[p])]
          /\ call' = [call EXCEPT ![p].phase = "read"]
      BY <1>6, Zenon DEF WriteRequest
    <2>2. ClientInv'
      BY <2>1, WriteKeeps, Zenon
    <2>3. call[p] # NoCall
      BY <1>3, <2>1, Zenon
    <2>4. Called(p)
      BY <2>1, <2>3, Zenon DEF Called
    <2>5. \A q \in Processes : q # p => call'[q] = call[q]
      BY <1>1, <2>1, Zenon
    <2> QED
      BY <1>2, <2>2, <2>4, <2>5, Zenon
  <1>7. CASE Take(p) /\ ~Broken(p)
    <2>1. PICK s : s = client[p].fd
      BY Zenon
    <2>2. PICK a : a = Head(wire[s].answers)
      BY Zenon
    <2>3. /\ call[p].phase = "read" /\ wire[s].answers # <<>> /\ Accepted(call[p], a)
          /\ wire' = [wire EXCEPT ![s].answers = Tail(@)]
          /\ client' = [client EXCEPT ![p].features = IF a.op = "hello" THEN a.feature ELSE @]
          /\ call' = [call EXCEPT ![p] = NoCall] /\ requested' = requested
      BY <1>7, <2>1, <2>2, Zenon DEF Take
    <2>4. ClientInv' /\ a.tag = call[p].tag /\ WithinBuffers(call[p], a)
      <3>1. Takes(p, s, a)
        BY <2>3, Zenon DEF Takes
      <3> QED
        BY <2>1, <2>2, <2>3, <3>1, TakeKeeps, Zenon
    <2>5. call[p] # NoCall
      BY <1>3, <2>3, Zenon
    <2>6. Called(p)
      BY <2>1, <2>2, <2>3, <2>4, <2>5, Zenon DEF Called
    <2>7. \A q \in Processes : q # p => call'[q] = call[q]
      BY <1>1, <2>3, Zenon
    <2> QED
      BY <1>2, <2>4, <2>6, <2>7, Zenon
  <1>8. CASE Broken(p)
    BY <1>8, BrokenStep, Zenon
  <1>9. CASE Reset(p) \/ Deadline(p)
    BY <1>8, <1>9, Zenon DEF Reset, Deadline
  <1>10. CASE \E q \in Processes : Fork(p, q)
    <2>1. PICK q \in Processes : Fork(p, q)
      BY <1>10, Zenon
    <2>2. call' = call
      BY <2>1, Zenon DEF Fork
    <2>3. AllCalled
      BY <2>2, CallsOn, Zenon DEF AllCalled
    <2> QED
      BY <2>1, <2>3, ForkKeeps, Zenon
  <1> QED
    BY <1>4, <1>5, <1>6, <1>7, <1>8, <1>9, <1>10, Zenon

(* A step of a process or of the daemon.                                   *)
LEMMA ClientStep ==
    ASSUME ClientInv, [ClientNext]_clientVars
    PROVE  ClientInv' /\ (AllCalled \/ clientVars' = clientVars)
  <1>1. CASE UNCHANGED clientVars
    <2>1. client' = client /\ call' = call /\ wire' = wire /\ requested' = requested
      BY <1>1, Zenon DEF clientVars
    <2>2. ClientTypes' /\ HolderInv'
      BY <2>1, Zenon DEF ClientInv, ClientTypes, HolderInv, Alive, Owns
    <2>3. FlowInv'
      BY <2>1, Zenon DEF ClientInv, FlowInv, Owns
    <2> QED
      BY <1>1, <2>2, <2>3, Zenon DEF ClientInv
  <1>2. ASSUME NEW p \in Processes,
               \/ PsInit(p) \/ PsInitFails(p) \/ PsFini(p)
               \/ DropInherited(p) \/ DropInheritedBatch(p)
               \/ \E c \in Calls : Begin(p, c)
               \/ WriteRequest(p) \/ Take(p) \/ Reset(p) \/ Deadline(p)
               \/ \E q \in Processes : Fork(p, q)
               \/ Exit(p)
        PROVE  ClientInv' /\ AllCalled
    BY <1>2, ClosingStep, ProcessStep, Zenon
  <1>3. ASSUME NEW s \in Sessions, Serve(s) \/ Hangup(s) \/ Abort(s)
        PROVE  ClientInv' /\ AllCalled
    <2>1. call' = call
      BY <1>3, Zenon DEF Serve, Hangup, Abort
    <2>2. AllCalled
      BY <2>1, CallsOn, Zenon DEF AllCalled
    <2>3. CASE Serve(s)
      BY <2>2, <2>3, ServeKeeps, Zenon
    <2>4. CASE Hangup(s) \/ Abort(s)
      BY <2>2, <2>4, EndedKeeps, Zenon DEF Hangup, Abort
    <2> QED
      BY <1>3, <2>3, <2>4, Zenon
  <1> QED
    BY <1>1, <1>2, <1>3, Zenon DEF ClientNext

(* Every reachable state of the client library satisfies the inductive     *)
(* invariant: who holds which session, and what is on its way on it.       *)
THEOREM ClientInvariant == ClientSpec => []ClientInv
  <1>1. ClientInv /\ [ClientNext]_clientVars => ClientInv'
    BY ClientStep, Zenon
  <1> QED
    BY <1>1, ClientStarts, PTL DEF ClientSpec

(* request(): a call starts with nothing under way on its session and      *)
(* returns what the daemon answered to this very request, within the       *)
(* caller's buffers, for every number of processes, sessions and calls.    *)
THEOREM CallsGetTheirAnswers == ClientSpec => AnswersOwn
  <1>1. ClientInv /\ [ClientNext]_clientVars => [AllCalled]_clientVars
    BY ClientStep, Zenon
  <1> QED
    BY <1>1, ClientInvariant, PTL DEF ClientSpec, AnswersOwn, AllCalled, Called
=============================================================================
