----------------------- MODULE NeighbourPendingProofs -----------------------
(***************************************************************************)
(* Proofs about address resolution, for any number of entries, next hops   *)
(* and buffers, any length of the queues and any number of requests: every *)
(* buffer has one owner, nobody waits for an address that is known, and    *)
(* requests are paced.                                                     *)
(*                                                                         *)
(* Ownership is proved on sets of buffers: those of the graph, of the      *)
(* queue that is being freed, of each entry, of the pool and of the burst  *)
(* are a partition of all buffers (Parts), and no queue holds one twice    *)
(* (Once).  A step moves buffers from one of the sets to another.          *)
(***************************************************************************)
EXTENDS NeighbourPending, FiniteSetTheorems, TLAPS

(* No buffer is twice in a queue. *)
Once(s) == \A m, n \in DOMAIN s : s[m].buffer = s[n].buffer => m = n

(* The buffers of each entry. *)
Held(p) == [i \in Index |-> Buffers(p[i].packets)]

AllHeld(H) == UNION {H[i] : i \in Index}
Apart(H) == \A i, j \in Index : i # j => H[i] \cap H[j] = {}

(* Output, detached, the entries, the pool and the burst share no buffer,  *)
(* and no buffer is lost.                                                  *)
Divided(O, D, U, P, R) ==
    /\ O \cap D = {} /\ O \cap U = {} /\ O \cap P = {} /\ O \cap R = {}
    /\ D \cap U = {} /\ D \cap P = {} /\ D \cap R = {}
    /\ U \cap P = {} /\ U \cap R = {} /\ P \cap R = {}
    /\ O \cup D \cup U \cup P \cup R = Packets

Parts(O, D, H, P, R) == Divided(O, D, AllHeld(H), P, R) /\ Apart(H)

(* Requests of an entry are at most one ahead of the seconds, and of the   *)
(* extra one, and not ahead when the entry is due again.                   *)
Paced(e) ==
    \/ e.packets = <<>>
    \/ /\ e.requests <= e.seconds + 1 + Extra(e)
       /\ e.age \in {"due", "ahead"} => e.requests <= e.seconds + Extra(e)

EntryOK(e) ==
    /\ e \in {Empty} \cup Entry
    /\ Len(e.packets) <= QueueMax
    /\ Once(e.packets)
    /\ Paced(e)

(* The entries of the pending table t when the keys k are known.           *)
EntriesOK(t, k) ==
    /\ t \in [Index -> {Empty} \cup Entry]
    /\ \A i \in Index : EntryOK(t[i])
    /\ \A i, j \in Index : t[i].packets # <<>> /\ t[j].packets # <<>> /\ t[i].key = t[j].key => i = j
    /\ \A i \in Index : t[i].packets = <<>> \/ t[i].key \notin k

KnownOK == known \subseteq Keys /\ IsFiniteSet(known) /\ Cardinality(known) <= Capacity

QueueOK(s) == s \in Seq(InFlight) /\ Once(s)

WorkerOK ==
    /\ up \in BOOLEAN /\ pc \in {"idle", "graph", "tick"} /\ visit \in 0 .. PendingMax + 1
    /\ pc = "tick" => visit >= 1
    /\ pool \subseteq Packets /\ burst \subseteq Packets /\ Cardinality(burst) <= BurstSize
    /\ pc # "graph" => burst = {}

PendingInv ==
    /\ EntriesOK(pending, known)
    /\ KnownOK
    /\ QueueOK(output) /\ QueueOK(detached)
    /\ WorkerOK
    /\ Parts(Buffers(output), Buffers(detached), Held(pending), pool, burst)

-----------------------------------------------------------------------------
(* Sets of numbers. *)

(* A set of natural numbers has a least element.                           *)
LEMMA LeastNumber ==
    ASSUME NEW S \in SUBSET Nat, S # {}
    PROVE  \E x \in S : \A y \in S : x <= y
  <1>1. PICK x \in S : \A y \in S : ~(<<y, x>> \in OpToRel(<, Nat))
    BY NatLessThanWellFounded, WFMin, Zenon
  <1>2. \A y \in S : ~(y < x)
    BY <1>1, Zenon DEF OpToRel
  <1> QED
    BY <1>2

(* The buffer with which a burst begins is one of the burst.               *)
LEMMA MinInSet ==
    ASSUME NEW S \in SUBSET Nat, S # {}
    PROVE  Min(S) \in S
  BY LeastNumber, Zenon DEF Min

(* The lesser of two numbers.                                              *)
LEMMA MinOfTwo ==
    ASSUME NEW a \in Nat, NEW b \in Nat
    PROVE  Min({a, b}) = IF a <= b THEN a ELSE b
  BY DEF Min

(* A bounded set of natural numbers has a greatest element.                *)
LEMMA GreatestNumber ==
    ASSUME NEW n \in Nat, NEW S \in SUBSET (1 .. n), S # {}
    PROVE  \E x \in S : \A y \in S : y <= x
  <1> DEFINE T == {n - x : x \in S}
  <1>1. \A x \in S : n - x \in Nat
    OBVIOUS
  <1>11. T \in SUBSET Nat /\ T # {}
    BY <1>1, Zenon
  <1>2. PICK t \in T : \A u \in T : t <= u
    BY <1>11, LeastNumber, Zenon
  <1>3. PICK x \in S : t = n - x
    BY Zenon
  <1>4. \A y \in S : n - x <= n - y
    BY <1>2, <1>3, Zenon
  <1> QED
    BY <1>4

(* The pool hands out no more buffers than it is asked for.                *)
LEMMA FreshBounded ==
    ASSUME PacketPool \in Nat, pool \subseteq Packets, NEW n \in Nat
    PROVE  Fresh(n) \subseteq pool /\ IsFiniteSet(Fresh(n)) /\ Cardinality(Fresh(n)) <= n
  <1>1. Fresh(n) \subseteq pool
    BY Zenon DEF Fresh
  <1>2. IsFiniteSet(pool)
    <2>1. IsFiniteSet(Packets)
      BY FS_Interval DEF Packets
    <2> QED
      BY <2>1, FS_Subset, Zenon
  <1>3. IsFiniteSet(Fresh(n))
    BY <1>1, <1>2, FS_Subset, Zenon
  <1>4. CASE Fresh(n) = {}
    BY <1>1, <1>3, <1>4, FS_EmptySet
  <1>5. CASE Fresh(n) # {}
    <2>1. PICK m \in Fresh(n) : \A k \in Fresh(n) : k <= m
      BY <1>1, <1>5, GreatestNumber, Zenon DEF Packets
    <2> DEFINE Below == {k \in pool : k < m}
    <2>2. Cardinality(Below) < n
      BY <2>1, Zenon DEF Fresh
    <2>3. IsFiniteSet(Below) /\ Cardinality(Below) \in Nat
      BY <1>2, FS_Subset, FS_CardinalityType, Zenon
    <2>4. Fresh(n) \subseteq Below \cup {m}
      <3> SUFFICES ASSUME NEW k \in Fresh(n), k # m
                   PROVE  k < m /\ k \in pool
        BY Zenon
      <3>1. k <= m /\ k \in pool /\ m \in pool
        BY <1>1, <2>1, Zenon
      <3>2. k \in 1 .. PacketPool /\ m \in 1 .. PacketPool
        BY <3>1, Zenon DEF Packets
      <3> QED
        BY <3>1, <3>2
    <2>5. IsFiniteSet(Below \cup {m}) /\ Cardinality(Below \cup {m}) <= Cardinality(Below) + 1
      <3> HIDE DEF Below
      <3>1. /\ IsFiniteSet(Below \cup {m})
            /\ Cardinality(Below \cup {m}) = IF m \in Below THEN Cardinality(Below) ELSE Cardinality(Below) + 1
        BY <2>3, FS_AddElement, Zenon
      <3> QED
        BY <2>3, <3>1
    <2>6. Cardinality(Fresh(n)) <= Cardinality(Below \cup {m})
      BY <2>4, <2>5, FS_Subset, Zenon
    <2>7. Cardinality(Fresh(n)) \in Nat /\ Cardinality(Below \cup {m}) \in Nat
      BY <1>3, <2>5, FS_CardinalityType, Zenon
    <2> HIDE DEF Below
    <2> QED
      BY <1>1, <1>3, <2>2, <2>3, <2>5, <2>6, <2>7
  <1> QED
    BY <1>4, <1>5, Zenon

-----------------------------------------------------------------------------
(* Queues of packets. *)

(* The length of a queue, its packets and their buffers.                   *)
LEMMA QueueTyped ==
    ASSUME NEW s \in Seq(InFlight)
    PROVE  /\ Len(s) \in Nat /\ DOMAIN s = 1 .. Len(s)
           /\ \A n \in DOMAIN s : s[n] \in InFlight /\ s[n].buffer \in Packets
           /\ Buffers(s) \subseteq Packets
  <1>1. Len(s) \in Nat /\ DOMAIN s = 1 .. Len(s) /\ \A n \in DOMAIN s : s[n] \in InFlight
    OBVIOUS
  <1>2. \A n \in DOMAIN s : s[n].buffer \in Packets
    BY <1>1, Zenon DEF InFlight
  <1>3. Buffers(s) \subseteq Packets
    BY <1>2, Zenon DEF Buffers
  <1> QED
    BY <1>1, <1>2, <1>3, Zenon

(* The empty queue.                                                        *)
LEMMA EmptyQueue == QueueOK(<<>>) /\ Buffers(<<>>) = {} /\ Len(<<>>) = 0
  BY DEF QueueOK, Once, Buffers

(* A packet comes to the end of a queue.                                   *)
LEMMA AppendQueue ==
    ASSUME NEW s, QueueOK(s), NEW e \in InFlight, e.buffer \notin Buffers(s)
    PROVE  /\ QueueOK(Append(s, e))
           /\ Buffers(Append(s, e)) = Buffers(s) \cup {e.buffer}
           /\ Len(Append(s, e)) = Len(s) + 1 /\ Append(s, e) # <<>>
  <1>1. s \in Seq(InFlight) /\ Once(s) /\ Len(s) \in Nat /\ DOMAIN s = 1 .. Len(s)
    BY QueueTyped, Zenon DEF QueueOK
  <1>2. PICK t : t = Append(s, e)
    BY Zenon
  <1>3. t \in Seq(InFlight) /\ Len(t) = Len(s) + 1 /\ DOMAIN t = 1 .. Len(s) + 1
    BY <1>1, <1>2
  <1>4. (\A n \in 1 .. Len(s) : t[n] = s[n]) /\ t[Len(s) + 1] = e
    BY <1>1, <1>2
  <1>5. Buffers(t) = Buffers(s) \cup {e.buffer}
    <2>1. ASSUME NEW n \in DOMAIN t
          PROVE  t[n].buffer \in Buffers(s) \cup {e.buffer}
      BY <1>1, <1>3, <1>4, <2>1 DEF Buffers
    <2>2. ASSUME NEW n \in DOMAIN s
          PROVE  s[n].buffer \in Buffers(t)
      BY <1>1, <1>3, <1>4, <2>2 DEF Buffers
    <2>3. e.buffer \in Buffers(t)
      BY <1>1, <1>3, <1>4 DEF Buffers
    <2>4. Buffers(t) \subseteq Buffers(s) \cup {e.buffer}
      BY <2>1, Zenon DEF Buffers
    <2>5. Buffers(s) \subseteq Buffers(t)
      BY <2>2, Zenon DEF Buffers
    <2> QED
      BY <2>3, <2>4, <2>5, Zenon
  <1>6. Once(t)
    <2> SUFFICES ASSUME NEW m \in DOMAIN t, NEW n \in DOMAIN t, t[m].buffer = t[n].buffer
                 PROVE  m = n
      BY Zenon DEF Once
    <2>1. \A k \in 1 .. Len(s) : s[k].buffer # e.buffer
      BY <1>1, Zenon DEF Buffers
    <2>2. \A k, l \in 1 .. Len(s) : s[k].buffer = s[l].buffer => k = l
      BY <1>1, Zenon DEF Once
    <2> QED
      BY <1>1, <1>3, <1>4, <2>1, <2>2
  <1>7. t # <<>>
    BY <1>1, <1>3
  <1> QED
    BY <1>2, <1>3, <1>5, <1>6, <1>7, Zenon DEF QueueOK

(* The first packet of a queue leaves it.                                  *)
LEMMA TailQueue ==
    ASSUME NEW s, QueueOK(s), s # <<>>
    PROVE  /\ Head(s) \in InFlight /\ Head(s).buffer \in Packets /\ Head(s).buffer \in Buffers(s)
           /\ QueueOK(Tail(s)) /\ Buffers(Tail(s)) = Buffers(s) \ {Head(s).buffer}
  <1>1. s \in Seq(InFlight) /\ Once(s) /\ Len(s) \in Nat \ {0} /\ DOMAIN s = 1 .. Len(s)
    <2>1. s \in Seq(InFlight) /\ Once(s) /\ Len(s) \in Nat /\ DOMAIN s = 1 .. Len(s)
      BY QueueTyped, Zenon DEF QueueOK
    <2>2. Len(s) # 0
      BY <2>1
    <2> QED
      BY <2>1, <2>2, Zenon
  <1>2. Head(s) = s[1] /\ s[1] \in InFlight
    BY <1>1
  <1>3. Head(s).buffer \in Packets /\ Head(s).buffer \in Buffers(s)
    BY <1>1, <1>2 DEF InFlight, Buffers
  <1>4. PICK t : t = Tail(s)
    BY Zenon
  <1>5. t \in Seq(InFlight) /\ Len(t) = Len(s) - 1 /\ DOMAIN t = 1 .. Len(s) - 1
    BY <1>1, <1>4
  <1>6. \A n \in 1 .. Len(s) - 1 : t[n] = s[n + 1]
    BY <1>1, <1>4
  <1>7. \A k, l \in 1 .. Len(s) : s[k].buffer = s[l].buffer => k = l
    BY <1>1, Zenon DEF Once
  <1>8. Once(t)
    <2> SUFFICES ASSUME NEW m \in DOMAIN t, NEW n \in DOMAIN t, t[m].buffer = t[n].buffer
                 PROVE  m = n
      BY Zenon DEF Once
    <2>1. m + 1 \in 1 .. Len(s) /\ n + 1 \in 1 .. Len(s) /\ m \in Int /\ n \in Int
      BY <1>1, <1>5
    <2>2. s[m + 1].buffer = s[n + 1].buffer
      BY <1>5, <1>6
    <2>3. m + 1 = n + 1
      BY <1>7, <2>1, <2>2, Zenon
    <2> QED
      BY <2>1, <2>3
  <1>9. Buffers(t) = Buffers(s) \ {s[1].buffer}
    <2>1. ASSUME NEW n \in DOMAIN t
          PROVE  t[n].buffer \in Buffers(s) /\ t[n].buffer # s[1].buffer
      <3>1. n + 1 \in 1 .. Len(s) /\ t[n] = s[n + 1] /\ n + 1 # 1
        BY <1>1, <1>5, <1>6
      <3> QED
        BY <1>1, <1>7, <3>1 DEF Buffers
    <2>2. ASSUME NEW n \in DOMAIN s, s[n].buffer # s[1].buffer
          PROVE  s[n].buffer \in Buffers(t)
      <3>1. n - 1 \in 1 .. Len(s) - 1 /\ s[n] = t[n - 1]
        BY <1>1, <1>6, <2>2
      <3> QED
        BY <1>5, <3>1, Zenon DEF Buffers
    <2>3. Buffers(t) \subseteq Buffers(s) \ {s[1].buffer}
      BY <2>1, Zenon DEF Buffers
    <2>4. Buffers(s) \ {s[1].buffer} \subseteq Buffers(t)
      BY <2>2, Zenon DEF Buffers
    <2> QED
      BY <2>3, <2>4, Zenon
  <1> QED
    BY <1>2, <1>3, <1>4, <1>5, <1>8, <1>9, Zenon DEF QueueOK

(* One queue comes behind another that shares no buffer with it.           *)
LEMMA ConcatQueue ==
    ASSUME NEW s, QueueOK(s), NEW r, QueueOK(r), Buffers(s) \cap Buffers(r) = {}
    PROVE  QueueOK(s \o r) /\ Buffers(s \o r) = Buffers(s) \cup Buffers(r)
  <1>1. s \in Seq(InFlight) /\ Once(s) /\ Len(s) \in Nat /\ DOMAIN s = 1 .. Len(s)
    BY QueueTyped, Zenon DEF QueueOK
  <1>2. r \in Seq(InFlight) /\ Once(r) /\ Len(r) \in Nat /\ DOMAIN r = 1 .. Len(r)
    BY QueueTyped, Zenon DEF QueueOK
  <1>3. PICK t : t = s \o r
    BY Zenon
  <1>4. t \in Seq(InFlight) /\ DOMAIN t = 1 .. Len(s) + Len(r)
    BY <1>1, <1>2, <1>3
  <1>5. (\A n \in 1 .. Len(s) : t[n] = s[n]) /\ (\A n \in 1 .. Len(r) : t[Len(s) + n] = r[n])
    BY <1>1, <1>2, <1>3
  <1>6. ASSUME NEW n \in DOMAIN t
        PROVE  \/ n \in 1 .. Len(s) /\ t[n] = s[n]
               \/ n - Len(s) \in 1 .. Len(r) /\ t[n] = r[n - Len(s)]
    <2>1. CASE n <= Len(s)
      BY <1>1, <1>2, <1>4, <1>5, <2>1
    <2>2. CASE n > Len(s)
      <3>1. n - Len(s) \in 1 .. Len(r) /\ Len(s) + (n - Len(s)) = n
        BY <1>1, <1>2, <1>4, <2>2
      <3> QED
        BY <1>5, <3>1, Zenon
    <2> QED
      BY <1>1, <1>4, <2>1, <2>2
  <1>7. Buffers(t) = Buffers(s) \cup Buffers(r)
    <2>1. ASSUME NEW n \in DOMAIN t
          PROVE  t[n].buffer \in Buffers(s) \cup Buffers(r)
      BY <1>1, <1>2, <1>6, Zenon DEF Buffers
    <2>2. ASSUME NEW n \in DOMAIN s
          PROVE  s[n].buffer \in Buffers(t)
      <3>1. n \in DOMAIN t /\ t[n] = s[n]
        BY <1>1, <1>2, <1>4, <1>5
      <3> QED
        BY <3>1, Zenon DEF Buffers
    <2>3. ASSUME NEW n \in DOMAIN r
          PROVE  r[n].buffer \in Buffers(t)
      <3>1. Len(s) + n \in DOMAIN t /\ t[Len(s) + n] = r[n]
        BY <1>1, <1>2, <1>4, <1>5
      <3> QED
        BY <3>1, Zenon DEF Buffers
    <2>4. Buffers(t) \subseteq Buffers(s) \cup Buffers(r)
      BY <2>1, Zenon DEF Buffers
    <2>5. Buffers(s) \subseteq Buffers(t) /\ Buffers(r) \subseteq Buffers(t)
      BY <2>2, <2>3, Zenon DEF Buffers
    <2> QED
      BY <2>4, <2>5, Zenon
  <1>8. Once(t)
    <2> SUFFICES ASSUME NEW m \in DOMAIN t, NEW n \in DOMAIN t, t[m].buffer = t[n].buffer
                 PROVE  m = n
      BY Zenon DEF Once
    <2>1. \A k, l \in 1 .. Len(s) : s[k].buffer = s[l].buffer => k = l
      BY <1>1, Zenon DEF Once
    <2>2. \A k, l \in 1 .. Len(r) : r[k].buffer = r[l].buffer => k = l
      BY <1>2, Zenon DEF Once
    <2>3. \A k \in 1 .. Len(s), l \in 1 .. Len(r) : s[k].buffer # r[l].buffer
      BY <1>1, <1>2, Zenon DEF Buffers
    <2>4. CASE m \in 1 .. Len(s) /\ t[m] = s[m]
      BY <1>1, <1>4, <1>6, <2>1, <2>3, <2>4, Zenon
    <2>5. CASE m - Len(s) \in 1 .. Len(r) /\ t[m] = r[m - Len(s)]
      <3>1. n - Len(s) \in 1 .. Len(r) /\ t[n] = r[n - Len(s)]
        BY <1>6, <2>3, <2>5, Zenon
      <3>2. m - Len(s) = n - Len(s)
        BY <2>2, <2>5, <3>1, Zenon
      <3> QED
        BY <1>1, <1>4, <3>2
    <2> QED
      BY <1>6, <2>4, <2>5, Zenon
  <1> QED
    BY <1>3, <1>4, <1>7, <1>8, Zenon DEF QueueOK

(* What is left of a queue holds no buffer twice and none but its own, and *)
(* is not longer.                                                          *)
LEMMA ThinnedQueue ==
    ASSUME NEW s, QueueOK(s), NEW r \in Thinned(s)
    PROVE  QueueOK(r) /\ Buffers(r) \subseteq Buffers(s) /\ Len(r) <= Len(s)
  <1>1. s \in Seq(InFlight) /\ Once(s) /\ Len(s) \in Nat /\ DOMAIN s = 1 .. Len(s)
    BY QueueTyped, Zenon DEF QueueOK
  <1>2. PICK n \in 0 .. Len(s) :
            r \in {[m \in 1 .. n |-> s[at[m]]] :
                      at \in {f \in [1 .. n -> DOMAIN s] : \A k, m \in 1 .. n : k < m => f[k] < f[m]}}
    BY Zenon DEF Thinned
  <1>3. PICK at \in [1 .. n -> DOMAIN s] :
            /\ \A k, m \in 1 .. n : k < m => at[k] < at[m]
            /\ r = [m \in 1 .. n |-> s[at[m]]]
    BY <1>2, Zenon
  <1>4. n \in Nat /\ \A m \in 1 .. n : at[m] \in 1 .. Len(s) /\ s[at[m]] \in InFlight
    BY <1>1
  <1>5. r \in Seq(InFlight) /\ DOMAIN r = 1 .. n
    BY <1>3, <1>4
  <1>51. Len(r) <= Len(s)
    <2>1. Len(r) = n
      BY <1>4, <1>5
    <2> QED
      BY <1>1, <1>2, <2>1
  <1>6. Buffers(r) \subseteq Buffers(s)
    BY <1>1, <1>3, <1>4, <1>5, Zenon DEF Buffers
  <1>7. Once(r)
    <2> SUFFICES ASSUME NEW k \in 1 .. n, NEW m \in 1 .. n, r[k].buffer = r[m].buffer
                 PROVE  k = m
      BY <1>5, Zenon DEF Once
    <2>1. at[k] = at[m]
      BY <1>1, <1>3, <1>4, Zenon DEF Once
    <2>2. ~(k < m) /\ ~(m < k)
      <3>1. at[k] \in Int /\ at[m] \in Int /\ (k < m => at[k] < at[m]) /\ (m < k => at[m] < at[k])
        BY <1>1, <1>3, <1>4
      <3> QED
        BY <2>1, <3>1
    <2> QED
      BY <1>4, <2>2
  <1> QED
    BY <1>5, <1>51, <1>6, <1>7, Zenon DEF QueueOK

-----------------------------------------------------------------------------
(* The buffers of the entries when one or several of them change.          *)

(* Entry i comes to hold B, the others hold what they held.                *)
Becomes(G, H, i, B) == G[i] = B /\ \A j \in Index : j # i => G[j] = H[j]

(* The entries of S come to hold nothing.                                  *)
Emptied(G, H, S) == \A j \in Index : G[j] = IF j \in S THEN {} ELSE H[j]

(* All that is held is what was held and x; or without the buffers B.      *)
Grown(G, H, x) == Apart(G) /\ AllHeld(G) = AllHeld(H) \cup {x}
Shrunk(G, H, B) == Apart(G) /\ AllHeld(G) = AllHeld(H) \ B /\ B \subseteq AllHeld(H)

(* An entry holds some of what is held.                                    *)
LEMMA HeldPart ==
    ASSUME NEW H, NEW i \in Index
    PROVE  H[i] \subseteq AllHeld(H)
  BY Zenon DEF AllHeld

(* A buffer comes to an entry.                                             *)
LEMMA HeldGrows ==
    ASSUME NEW H, NEW G, NEW i \in Index, NEW x, Apart(H), x \notin AllHeld(H),
           Becomes(G, H, i, H[i] \cup {x})
    PROVE  Grown(G, H, x)
  <1>0. G[i] = H[i] \cup {x} /\ \A j \in Index : j # i => G[j] = H[j]
    BY Zenon DEF Becomes
  <1>1. \A j \in Index : x \notin H[j]
    BY Zenon DEF AllHeld
  <1>2. Apart(G)
    <2> SUFFICES ASSUME NEW j \in Index, NEW k \in Index, j # k
                 PROVE  G[j] \cap G[k] = {}
      BY Zenon DEF Apart
    <2>1. H[j] \cap H[k] = {} /\ x \notin H[j] /\ x \notin H[k]
      BY <1>1, Zenon DEF Apart
    <2>2. CASE j = i
      BY <1>0, <2>1, <2>2, Zenon
    <2>3. CASE j # i
      <3>1. G[j] = H[j] /\ G[k] \subseteq H[k] \cup {x}
        BY <1>0, <2>3, Zenon
      <3> QED
        BY <2>1, <3>1, Zenon
    <2> QED
      BY <2>2, <2>3, Zenon
  <1>3. AllHeld(G) \subseteq AllHeld(H) \cup {x}
    <2>1. \A j \in Index : G[j] \subseteq H[j] \cup {x}
      BY <1>0, Zenon
    <2> QED
      BY <2>1, Zenon DEF AllHeld
  <1>4. AllHeld(H) \subseteq AllHeld(G)
    <2>1. \A j \in Index : H[j] \subseteq G[j]
      BY <1>0, Zenon
    <2> QED
      BY <2>1, Zenon DEF AllHeld
  <1>5. x \in AllHeld(G)
    BY <1>0, Zenon DEF AllHeld
  <1> QED
    BY <1>2, <1>3, <1>4, <1>5, Zenon DEF Grown

(* Entries are emptied.                                                    *)
LEMMA HeldShrinks ==
    ASSUME NEW H, NEW G, NEW S \in SUBSET Index, Apart(H), Emptied(G, H, S)
    PROVE  Shrunk(G, H, UNION {H[i] : i \in S})
  <1>0. \A j \in Index : G[j] = IF j \in S THEN {} ELSE H[j]
    BY Zenon DEF Emptied
  <1>1. \A j \in Index : G[j] \subseteq H[j]
    BY <1>0, Zenon
  <1>2. Apart(G)
    BY <1>1, Zenon DEF Apart
  <1>3. UNION {H[i] : i \in S} \subseteq AllHeld(H)
    BY Zenon DEF AllHeld
  <1>4. ASSUME NEW x \in AllHeld(G)
        PROVE  x \in AllHeld(H) /\ x \notin UNION {H[i] : i \in S}
    <2>1. PICK j \in Index : x \in G[j]
      BY Zenon DEF AllHeld
    <2>2. j \notin S /\ x \in H[j]
      BY <1>0, <2>1, Zenon
    <2>3. ASSUME NEW i \in S, x \in H[i]
          PROVE  FALSE
      <3>1. i \in Index /\ i # j
        BY <2>2, Zenon
      <3>2. H[i] \cap H[j] = {}
        BY <3>1, Zenon DEF Apart
      <3> QED
        BY <2>2, <2>3, <3>2, Zenon
    <2> QED
      BY <2>2, <2>3, HeldPart, Zenon
  <1>5. ASSUME NEW x \in AllHeld(H), x \notin UNION {H[i] : i \in S}
        PROVE  x \in AllHeld(G)
    <2>1. PICK j \in Index : x \in H[j]
      BY Zenon DEF AllHeld
    <2>2. j \notin S
      BY <1>5, <2>1, Zenon
    <2>3. x \in G[j]
      BY <1>0, <2>1, <2>2, Zenon
    <2> QED
      BY <2>3, Zenon DEF AllHeld
  <1> QED
    BY <1>2, <1>3, <1>4, <1>5, Zenon DEF Shrunk

(* One entry is emptied.                                                   *)
LEMMA HeldLeaves ==
    ASSUME NEW H, NEW G, NEW i \in Index, Apart(H), Becomes(G, H, i, {})
    PROVE  Shrunk(G, H, H[i])
  <1>1. Emptied(G, H, {i})
    BY Zenon DEF Becomes, Emptied
  <1>2. UNION {H[k] : k \in {i}} = H[i]
    BY Zenon
  <1>3. {i} \in SUBSET Index
    BY Zenon
  <1>4. Shrunk(G, H, UNION {H[k] : k \in {i}})
    BY <1>1, <1>3, HeldShrinks, Zenon
  <1> QED
    BY <1>2, <1>4, Zenon

-----------------------------------------------------------------------------
(* The entries. *)

(* What an entry is made of.                                               *)
LEMMA EntryTyped ==
    ASSUME NEW e, EntryOK(e)
    PROVE  /\ QueueOK(e.packets) /\ Len(e.packets) \in Nat /\ Len(e.packets) <= QueueMax
           /\ e.packets = <<>> => e = Empty
           /\ e.packets # <<>> =>
                 /\ e \in Entry /\ e.key \in Keys /\ e.age \in Ages
                 /\ e.requests \in 1 .. MaxRequests /\ e.seconds \in 0 .. MaxRequests
  <1>1. CASE e = Empty
    BY <1>1, EmptyQueue, Zenon DEF Empty, EntryOK
  <1>2. CASE e \in Entry
    <2>1. e.packets \in Seq(InFlight) /\ e.packets # <<>>
      BY <1>2, Zenon DEF Entry
    <2>2. Len(e.packets) \in Nat
      BY <2>1, QueueTyped, Zenon
    <2>3. /\ e.key \in Keys /\ e.age \in Ages
          /\ e.requests \in 1 .. MaxRequests /\ e.seconds \in 0 .. MaxRequests
      BY <1>2, Zenon DEF Entry
    <2> QED
      BY <1>2, <2>1, <2>2, <2>3, Zenon DEF EntryOK, QueueOK
  <1> QED
    BY <1>1, <1>2, Zenon DEF EntryOK

(* An entry without packets.                                               *)
LEMMA EmptyEntry == EntryOK(Empty) /\ Empty.packets = <<>> /\ Buffers(Empty.packets) = {}
  <1>1. QueueMax \in Nat
    BY BoundsAssumption, Zenon
  <1> QED
    BY <1>1, EmptyQueue DEF EntryOK, Empty, Paced, QueueOK

(* The entries of t allow that entry i becomes e, or that those of S are   *)
(* emptied, while the known keys become l.                                 *)
MayBecome(t, i, e, l) ==
    /\ \/ e.packets = <<>>
       \/ /\ e.key \notin l
          /\ \A j \in Index : j # i => t[j].packets = <<>> \/ t[j].key # e.key
    /\ \A j \in Index : j # i => t[j].packets = <<>> \/ t[j].key \notin l

MayDrop(t, S, l) == \A j \in Index : j \in S \/ t[j].packets = <<>> \/ t[j].key \notin l

(* One entry becomes e while the known keys become l.                      *)
LEMMA ReplaceEntry ==
    ASSUME NEW t, NEW k, EntriesOK(t, k), NEW i \in Index, NEW e, EntryOK(e), NEW l,
           MayBecome(t, i, e, l), NEW u, u = [t EXCEPT ![i] = e]
    PROVE  EntriesOK(u, l) /\ Becomes(Held(u), Held(t), i, Buffers(e.packets))
  <1>1. /\ \/ e.packets = <<>>
           \/ /\ e.key \notin l
              /\ \A j \in Index : j # i => t[j].packets = <<>> \/ t[j].key # e.key
        /\ \A j \in Index : j # i => t[j].packets = <<>> \/ t[j].key \notin l
    BY Zenon DEF MayBecome
  <1>2. t \in [Index -> {Empty} \cup Entry] /\ \A j \in Index : EntryOK(t[j])
    BY Zenon DEF EntriesOK
  <1>3. u \in [Index -> {Empty} \cup Entry] /\ u[i] = e /\ \A j \in Index : j # i => u[j] = t[j]
    BY <1>2, Zenon DEF EntryOK
  <1>4. \A j \in Index : EntryOK(u[j])
    BY <1>2, <1>3, Zenon
  <1>5. \A j \in Index : u[j].packets = <<>> \/ u[j].key \notin l
    BY <1>1, <1>3, Zenon
  <1>6. ASSUME NEW j \in Index, NEW m \in Index,
               u[j].packets # <<>> /\ u[m].packets # <<>> /\ u[j].key = u[m].key
        PROVE  j = m
    <2>1. \A a, b \in Index : t[a].packets # <<>> /\ t[b].packets # <<>> /\ t[a].key = t[b].key => a = b
      BY Zenon DEF EntriesOK
    <2>2. CASE j # i /\ m # i
      BY <1>3, <1>6, <2>1, <2>2, Zenon
    <2>3. CASE j = i /\ m # i
      BY <1>1, <1>3, <1>6, <2>3, Zenon
    <2>4. CASE j # i /\ m = i
      BY <1>1, <1>3, <1>6, <2>4, Zenon
    <2> QED
      BY <2>2, <2>3, <2>4, Zenon
  <1>7. EntriesOK(u, l)
    BY <1>3, <1>4, <1>5, <1>6, Zenon DEF EntriesOK
  <1>8. Held(u)[i] = Buffers(e.packets) /\ \A j \in Index : j # i => Held(u)[j] = Held(t)[j]
    BY <1>3, Zenon DEF Held
  <1> QED
    BY <1>7, <1>8, Zenon DEF Becomes

(* The entries of S are emptied while the known keys become l.             *)
LEMMA DropEntries ==
    ASSUME NEW t, NEW k, EntriesOK(t, k), NEW S \in SUBSET Index, NEW l,
           MayDrop(t, S, l), NEW u, u = [i \in Index |-> IF i \in S THEN Empty ELSE t[i]]
    PROVE  EntriesOK(u, l) /\ Emptied(Held(u), Held(t), S)
  <1>1. t \in [Index -> {Empty} \cup Entry] /\ \A j \in Index : EntryOK(t[j])
    BY Zenon DEF EntriesOK
  <1>2. /\ u \in [Index -> {Empty} \cup Entry]
        /\ \A j \in Index : u[j] = IF j \in S THEN Empty ELSE t[j]
    BY <1>1, Zenon
  <1>3. \A j \in Index : EntryOK(u[j])
    BY <1>1, <1>2, EmptyEntry, Zenon
  <1>4. \A j \in Index : u[j].packets # <<>> => j \notin S /\ u[j] = t[j]
    BY <1>2, EmptyEntry, Zenon
  <1>5. \A j \in Index : u[j].packets = <<>> \/ u[j].key \notin l
    BY <1>4, Zenon DEF MayDrop
  <1>6. \A i, j \in Index : u[i].packets # <<>> /\ u[j].packets # <<>> /\ u[i].key = u[j].key => i = j
    BY <1>4, Zenon DEF EntriesOK
  <1>7. EntriesOK(u, l)
    BY <1>2, <1>3, <1>5, <1>6, Zenon DEF EntriesOK
  <1>8. ASSUME NEW j \in Index
        PROVE  Held(u)[j] = IF j \in S THEN {} ELSE Held(t)[j]
    <2>1. Held(u)[j] = Buffers(u[j].packets) /\ Held(t)[j] = Buffers(t[j].packets)
      BY Zenon DEF Held
    <2> QED
      BY <1>2, <2>1, EmptyEntry, Zenon
  <1> QED
    BY <1>7, <1>8, Zenon DEF Emptied

-----------------------------------------------------------------------------
(* The burst. *)

(* The initial state.                                                      *)
LEMMA PendingStarts == Init => PendingInv
  <1> SUFFICES ASSUME Init PROVE PendingInv
    BY Zenon
  <1>0. PendingMax \in Nat /\ Capacity \in Nat /\ BurstSize \in Nat
    BY BoundsAssumption, Zenon
  <1>1. pending = [i \in Index |-> Empty] /\ known = {}
    BY Zenon DEF Init
  <1>2. \A i \in Index : pending[i] = Empty
    BY <1>1, Zenon
  <1>3. EntriesOK(pending, known)
    <2>1. pending \in [Index -> {Empty} \cup Entry]
      BY <1>1, Zenon
    <2> QED
      BY <1>1, <1>2, <2>1, EmptyEntry, Zenon DEF EntriesOK
  <1>4. KnownOK
    BY <1>0, <1>1, FS_EmptySet DEF KnownOK
  <1>5. QueueOK(output) /\ QueueOK(detached) /\ Buffers(output) = {} /\ Buffers(detached) = {}
    BY EmptyQueue, Zenon DEF Init
  <1>6. WorkerOK
    BY <1>0, FS_EmptySet DEF Init, WorkerOK
  <1>7. \A i \in Index : Held(pending)[i] = {}
    BY <1>2, EmptyEntry, Zenon DEF Held
  <1>8. AllHeld(Held(pending)) = {} /\ Apart(Held(pending))
    BY <1>7, Zenon DEF AllHeld, Apart
  <1>9. pool = Packets /\ burst = {}
    BY Zenon DEF Init
  <1>10. Parts(Buffers(output), Buffers(detached), Held(pending), pool, burst)
    BY <1>5, <1>8, <1>9, Zenon DEF Parts, Divided
  <1> QED
    BY <1>3, <1>4, <1>5, <1>6, <1>10, Zenon DEF PendingInv

(* The parts of the invariant that a step of eth-output uses.              *)
LEMMA PendingParts ==
    ASSUME PendingInv
    PROVE  /\ Divided(Buffers(output), Buffers(detached), AllHeld(Held(pending)), pool, burst)
           /\ Apart(Held(pending))
           /\ QueueOK(output) /\ QueueOK(detached)
           /\ EntriesOK(pending, known)
           /\ \A i \in Index : /\ EntryOK(pending[i])
                               /\ Held(pending)[i] = Buffers(pending[i].packets)
                               /\ Buffers(pending[i].packets) \subseteq AllHeld(Held(pending))
                               /\ pending[i].packets = <<>> \/ pending[i].key \notin known
  <1>1. /\ Divided(Buffers(output), Buffers(detached), AllHeld(Held(pending)), pool, burst)
        /\ Apart(Held(pending))
        /\ QueueOK(output) /\ QueueOK(detached)
        /\ EntriesOK(pending, known)
    BY Zenon DEF PendingInv, Parts
  <1>2. \A i \in Index : Held(pending)[i] = Buffers(pending[i].packets)
    BY Zenon DEF Held
  <1>3. \A i \in Index : Buffers(pending[i].packets) \subseteq AllHeld(Held(pending))
    BY <1>2, HeldPart, Zenon
  <1> QED
    BY <1>1, <1>2, <1>3, Zenon DEF EntriesOK

(* A packet is transmitted or dropped.                                     *)
LEMMA LeaveKeeps ==
    ASSUME PendingInv, output # <<>>, Leave(Head(output)), output' = Tail(output),
           UNCHANGED <<known, up, burst, pc, visit, detached>>
    PROVE  PendingInv'
  <1>1. PICK x : x = Head(output).buffer
    BY Zenon
  <1>2. pool' = pool \cup {x} /\ pending' = pending
    BY <1>1, Zenon DEF Leave
  <1>3. /\ x \in Packets /\ x \in Buffers(output) /\ QueueOK(output')
        /\ Buffers(output') = Buffers(output) \ {x}
    BY <1>1, PendingParts, TailQueue, Zenon
  <1>4. Divided(Buffers(output)', Buffers(detached)', AllHeld(Held(pending))', pool', burst')
    <2> DEFINE O == Buffers(output)
               D == Buffers(detached)
               U == AllHeld(Held(pending))
    <2>1. Divided(O, D, U, pool, burst)
      BY PendingParts, Zenon
    <2> HIDE DEF O, D, U
    <2>2. x \in O
      BY <1>3, Zenon DEF O
    <2>3. Divided(O \ {x}, D, U, pool \cup {x}, burst)
      BY <2>1, <2>2, Zenon DEF Divided
    <2> QED
      BY <1>2, <1>3, <2>3, Zenon DEF O, D, U
  <1>5. Apart(Held(pending)') /\ EntriesOK(pending', known')
    BY <1>2, PendingParts, Zenon
  <1>6. KnownOK' /\ QueueOK(detached')
    BY PendingParts, Zenon DEF PendingInv, KnownOK
  <1>7. WorkerOK'
    BY <1>2, <1>3, Zenon DEF PendingInv, WorkerOK
  <1> QED
    BY <1>3, <1>4, <1>5, <1>6, <1>7, Zenon DEF PendingInv, Parts

(* The entry that takes a packet: it starts with one request, or has one   *)
(* packet more.                                                            *)
LEMMA QueuedEntry ==
    ASSUME NEW e, EntryOK(e), Len(e.packets) < QueueMax,
           NEW packet \in InFlight, packet.buffer \notin Buffers(e.packets),
           NEW age \in {"fresh", "ahead"}
    PROVE  /\ EntryOK(Queued(e, packet, age))
           /\ Buffers(Queued(e, packet, age).packets) = Buffers(e.packets) \cup {packet.buffer}
           /\ Queued(e, packet, age).key = IF e.packets = <<>> THEN packet.key ELSE e.key
  <1>0. QueueMax \in Nat \ {0} /\ MaxRequests \in Nat \ {0}
    BY BoundsAssumption, Zenon
  <1>1. PICK f : f = Queued(e, packet, age)
    BY Zenon
  <1>2. PICK s : s = Append(e.packets, packet)
    BY Zenon
  <1>3. /\ QueueOK(s) /\ Buffers(s) = Buffers(e.packets) \cup {packet.buffer}
        /\ Len(s) = Len(e.packets) + 1 /\ s # <<>>
    BY <1>2, EntryTyped, AppendQueue, Zenon
  <1>4. s \in Seq(InFlight) \ {<<>>} /\ Once(s) /\ Len(s) <= QueueMax
    BY <1>0, <1>3, EntryTyped DEF QueueOK
  <1>5. CASE e.packets = <<>>
    <2>1. s = <<packet>>
      BY <1>2, <1>5
    <2>2. f = [packets |-> s, key |-> packet.key, requests |-> 1, age |-> age, seconds |-> 0,
               early |-> age = "ahead"]
      BY <1>1, <1>5, <2>1, Zenon DEF Queued
    <2>3. packet.key \in Keys
      BY Zenon DEF InFlight
    <2>4. f \in Entry
      <3>1. 1 \in 1 .. MaxRequests /\ 0 \in 0 .. MaxRequests
        BY <1>0
      <3> QED
        BY <1>4, <2>2, <2>3, <3>1, Zenon DEF Entry, Ages
    <2>5. Paced(f)
      <3>1. f.requests = 1 /\ f.seconds = 0 /\ f.age = age /\ (f.early <=> age = "ahead")
        BY <2>2, Zenon
      <3>2. Extra(f) \in {0, 1} /\ (f.age \in {"due", "ahead"} => Extra(f) = 1)
        BY <3>1, Zenon DEF Extra
      <3>3. /\ f.requests <= f.seconds + 1 + Extra(f)
            /\ f.age \in {"due", "ahead"} => f.requests <= f.seconds + Extra(f)
        BY <3>1, <3>2
      <3> QED
        BY <3>3, Zenon DEF Paced
    <2>6. f.packets = s /\ f.key = packet.key
      BY <2>2, Zenon
    <2> QED
      BY <1>1, <1>3, <1>4, <1>5, <2>4, <2>5, <2>6, Zenon DEF EntryOK
  <1>6. CASE e.packets # <<>>
    <2>1. e \in Entry
      BY <1>6, EntryTyped, Zenon
    <2>2. f = [e EXCEPT !.packets = s]
      BY <1>1, <1>2, <1>6, <2>1, Zenon DEF Queued, Entry
    <2>3. f \in Entry
      BY <1>4, <2>1, <2>2, Zenon DEF Entry
    <2>4. /\ f.packets = s /\ f.key = e.key
          /\ f.requests = e.requests /\ f.seconds = e.seconds /\ f.age = e.age /\ f.early = e.early
      BY <2>1, <2>2, Zenon DEF Entry
    <2>41. Extra(f) = Extra(e)
      BY <2>4, Zenon DEF Extra
    <2>5. Paced(f)
      BY <1>6, <2>4, <2>41, Zenon DEF Paced, EntryOK
    <2> QED
      BY <1>1, <1>3, <1>4, <1>6, <2>3, <2>4, <2>5, Zenon DEF EntryOK
  <1> QED
    BY <1>5, <1>6, Zenon

(* A packet is parked.                                                     *)
LEMMA ParkKeeps ==
    ASSUME PendingInv, output # <<>>, Park(Head(output)), Head(output).key \notin known,
           output' = Tail(output), UNCHANGED <<known, up, burst, pc, visit, detached>>
    PROVE  PendingInv'
  <1>1. PICK packet : packet = Head(output)
    BY Zenon
  <1>2. PICK x : x = packet.buffer
    BY Zenon
  <1>3. /\ packet \in InFlight /\ x \in Packets /\ x \in Buffers(output) /\ QueueOK(output')
        /\ Buffers(output') = Buffers(output) \ {x}
    BY <1>1, <1>2, PendingParts, TailQueue, Zenon
  <1>4. PICK i \in EntryFor(packet.key), age \in (IF pc = "tick" THEN {"fresh", "ahead"} ELSE {"fresh"}) :
            HasRoom(i) /\ pending' = [pending EXCEPT ![i] = Queued(pending[i], packet, age)]
    BY <1>1, Zenon DEF Park
  <1>5. age \in {"fresh", "ahead"} /\ pool' = pool
    BY <1>4, Zenon DEF Park
  <1>6. i \in Index /\ \/ pending[i].packets # <<>> /\ pending[i].key = packet.key
                       \/ /\ pending[i].packets = <<>>
                          /\ \A j \in Index : pending[j].packets = <<>> \/ pending[j].key # packet.key
    <2>1. CASE {j \in Index : ~Free(j) /\ pending[j].key = packet.key} # {}
      BY <1>4, <2>1, Zenon DEF EntryFor, Free
    <2>2. CASE {j \in Index : ~Free(j) /\ pending[j].key = packet.key} = {}
      <3>1. i \in {j \in Index : Free(j) /\ \A k \in 1 .. j - 1 : ~Free(k)}
        BY <1>4, <2>2, Zenon DEF EntryFor
      <3> QED
        BY <2>2, <3>1, Zenon DEF Free
    <2> QED
      BY <2>1, <2>2, Zenon
  <1>7. EntryOK(pending[i]) /\ Len(pending[i].packets) < QueueMax
    BY <1>4, <1>6, PendingParts, Zenon DEF HasRoom
  <1>8. x \notin AllHeld(Held(pending)) /\ x \notin Buffers(pending[i].packets)
    <2>1. x \notin AllHeld(Held(pending))
      BY <1>3, PendingParts, Zenon DEF Divided
    <2> QED
      BY <1>6, <2>1, PendingParts, Zenon
  <1>9. PICK e : e = Queued(pending[i], packet, age)
    BY Zenon
  <1>10. /\ EntryOK(e) /\ Buffers(e.packets) = Buffers(pending[i].packets) \cup {x}
         /\ e.key = packet.key
    <2>1. /\ EntryOK(e) /\ Buffers(e.packets) = Buffers(pending[i].packets) \cup {x}
          /\ e.key = IF pending[i].packets = <<>> THEN packet.key ELSE pending[i].key
      <3>1. packet \in InFlight /\ packet.buffer \notin Buffers(pending[i].packets)
        BY <1>2, <1>3, <1>8, Zenon
      <3> QED
        BY <1>2, <1>5, <1>7, <1>9, <3>1, QueuedEntry, Zenon
    <2> QED
      BY <1>6, <2>1, Zenon
  <1>11. \A j \in Index : j # i => pending[j].packets = <<>> \/ pending[j].key # e.key
    BY <1>6, <1>10, PendingParts, Zenon DEF EntriesOK
  <1>12. e.key \notin known' /\ \A j \in Index : j # i => pending[j].packets = <<>> \/ pending[j].key \notin known'
    BY <1>1, <1>10, PendingParts, Zenon
  <1>13. pending' = [pending EXCEPT ![i] = e]
    BY <1>4, <1>9, Zenon
  <1>14. /\ EntriesOK(pending', known')
         /\ Held(pending')[i] = Held(pending)[i] \cup {x}
         /\ \A j \in Index : j # i => Held(pending')[j] = Held(pending)[j]
    <2>1. EntriesOK(pending, known) /\ Held(pending)[i] = Buffers(pending[i].packets)
      BY <1>6, PendingParts, Zenon
    <2>2. PICK t : t = pending
      BY Zenon
    <2>3. PICK l : l = known'
      BY Zenon
    <2>4. MayBecome(t, i, e, l)
      BY <1>11, <1>12, <2>2, <2>3, Zenon DEF MayBecome
    <2>5. EntriesOK(t, known)
      BY <2>1, <2>2, Zenon
    <2>6. PICK u : u = pending'
      BY Zenon
    <2>7. u = [t EXCEPT ![i] = e]
      BY <1>13, <2>2, <2>6, Zenon
    <2>8. EntriesOK(u, l) /\ Becomes(Held(u), Held(t), i, Buffers(e.packets))
      BY <1>6, <1>10, <2>4, <2>5, <2>7, ReplaceEntry, Zenon
    <2> QED
      BY <1>10, <2>1, <2>2, <2>3, <2>6, <2>8, Zenon DEF Becomes
  <1>15. Apart(Held(pending')) /\ AllHeld(Held(pending')) = AllHeld(Held(pending)) \cup {x}
    <2>1. PICK H : H = Held(pending)
      BY Zenon
    <2>2. PICK G : G = Held(pending')
      BY Zenon
    <2>3. Apart(H) /\ i \in Index /\ x \notin AllHeld(H)
      BY <1>6, <1>8, <2>1, PendingParts, Zenon
    <2>4. Becomes(G, H, i, H[i] \cup {x})
      BY <1>14, <2>1, <2>2, Zenon DEF Becomes
    <2>5. Apart(G) /\ AllHeld(G) = AllHeld(H) \cup {x}
      <3>1. Grown(G, H, x)
        BY <2>3, <2>4, HeldGrows, Zenon
      <3> QED
        BY <3>1, Zenon DEF Grown
    <2> QED
      BY <2>1, <2>2, <2>5, Zenon
  <1>16. Divided(Buffers(output'), Buffers(detached'), AllHeld(Held(pending')), pool', burst')
    <2> DEFINE O == Buffers(output)
               D == Buffers(detached)
               U == AllHeld(Held(pending))
    <2>1. Divided(O, D, U, pool, burst)
      BY PendingParts, Zenon
    <2> HIDE DEF O, D, U
    <2>2. x \in O
      BY <1>3, Zenon DEF O
    <2>3. Divided(O \ {x}, D, U \cup {x}, pool, burst)
      BY <2>1, <2>2, Zenon DEF Divided
    <2> QED
      BY <1>3, <1>5, <1>15, <2>3, Zenon DEF O, D, U
  <1>17. KnownOK' /\ QueueOK(detached')
    BY PendingParts, Zenon DEF PendingInv, KnownOK
  <1>18. WorkerOK'
    BY <1>5, Zenon DEF PendingInv, WorkerOK
  <1> QED
    BY <1>3, <1>14, <1>15, <1>16, <1>17, <1>18, Zenon DEF PendingInv, Parts

(* eth_output_node_run() preserves the invariant.                          *)
LEMMA EthOutputKeeps ==
    ASSUME PendingInv, EthOutput
    PROVE  PendingInv'
  <1>1. /\ output # <<>> /\ output' = Tail(output)
        /\ UNCHANGED <<known, up, burst, pc, visit, detached>>
    BY Zenon DEF EthOutput
  <1>2. Leave(Head(output)) \/ (Head(output).key \notin known /\ Park(Head(output)))
    BY Zenon DEF EthOutput
  <1> QED
    BY <1>1, <1>2, LeaveKeeps, ParkKeeps, Zenon

(* A burst begins with free buffers.                                       *)
LEMMA BurstBeginKeeps ==
    ASSUME PendingInv, BurstBegin
    PROVE  PendingInv'
  <1>1. /\ pc = "idle" /\ pc' = "graph" /\ pool' = pool \ burst'
        /\ UNCHANGED <<pending, known, up, output, visit, detached>>
    BY Zenon DEF BurstBegin
  <1>2. PICK n \in 0 .. BurstSize : burst' = Fresh(n)
    BY Zenon DEF BurstBegin
  <1>3. PacketPool \in Nat /\ BurstSize \in Nat /\ n \in Nat /\ n <= BurstSize
    BY BoundsAssumption
  <1>4. burst = {} /\ pool \subseteq Packets
    BY <1>1, Zenon DEF PendingInv, WorkerOK
  <1>5. burst' \subseteq pool /\ Cardinality(burst') <= n /\ IsFiniteSet(burst')
    BY <1>2, <1>3, <1>4, FreshBounded, Zenon
  <1>6. Cardinality(burst') <= BurstSize
    BY <1>3, <1>5, FS_CardinalityType
  <1>7. WorkerOK'
    BY <1>1, <1>4, <1>5, <1>6, Zenon DEF PendingInv, WorkerOK
  <1>8. Divided(Buffers(output'), Buffers(detached'), AllHeld(Held(pending')), pool', burst')
    <2> DEFINE O == Buffers(output)
               D == Buffers(detached)
               U == AllHeld(Held(pending))
    <2>1. Divided(O, D, U, pool, burst)
      BY PendingParts, Zenon
    <2> HIDE DEF O, D, U
    <2>2. Divided(O, D, U, pool \ burst', burst')
      BY <1>4, <1>5, <2>1, Zenon DEF Divided
    <2> QED
      BY <1>1, <2>2, Zenon DEF O, D, U
  <1>9. EntriesOK(pending', known') /\ QueueOK(output') /\ QueueOK(detached') /\ Apart(Held(pending'))
    BY <1>1, PendingParts, Zenon
  <1>10. KnownOK'
    BY <1>1, Zenon DEF PendingInv, KnownOK
  <1> QED
    BY <1>7, <1>8, <1>9, <1>10, Zenon DEF PendingInv, Parts

(* A packet of the burst leaves it, for the pool or for eth-output.        *)
LEMMA ArriveKeeps ==
    ASSUME PendingInv, Arrive
    PROVE  PendingInv'
  <1>1. /\ burst # {} /\ burst' = burst \ {Min(burst)}
        /\ UNCHANGED <<pending, known, up, pc, visit, detached>>
    BY Zenon DEF Arrive
  <1>2. PICK x : x = Min(burst)
    BY Zenon
  <1>3. x \in burst /\ x \in Packets /\ PacketPool \in Nat
    <2>1. PacketPool \in Nat /\ burst \subseteq Packets
      BY BoundsAssumption, Zenon DEF PendingInv, WorkerOK
    <2>2. burst \in SUBSET Nat
      BY <2>1 DEF Packets
    <2> QED
      BY <1>1, <1>2, <2>1, <2>2, MinInSet, Zenon
  <1>4. \/ pool' = pool \cup {x} /\ output' = output
        \/ pool' = pool /\ \E key \in Keys, transit \in BOOLEAN :
               output' = Append(output, [buffer |-> x, key |-> key, transit |-> transit])
    BY <1>2, Zenon DEF Arrive
  <1>5. Divided(Buffers(output), Buffers(detached), AllHeld(Held(pending)), pool, burst)
    BY PendingParts, Zenon
  <1>6. WorkerOK'
    <2>1. burst \subseteq Packets /\ Cardinality(burst) <= BurstSize /\ BurstSize \in Nat
      BY BoundsAssumption, Zenon DEF PendingInv, WorkerOK
    <2>2. IsFiniteSet(Packets)
      BY <1>3, FS_Interval DEF Packets
    <2>3. IsFiniteSet(burst) /\ burst' \in SUBSET burst
      BY <1>1, <2>1, <2>2, FS_Subset, Zenon
    <2>4. Cardinality(burst') <= Cardinality(burst) /\ Cardinality(burst') \in Nat /\ Cardinality(burst) \in Nat
      BY <2>3, FS_Subset, FS_CardinalityType, Zenon
    <2>5. Cardinality(burst') <= BurstSize
      BY <2>1, <2>4
    <2>6. pool' \subseteq Packets
      BY <1>3, <1>4, Zenon DEF PendingInv, WorkerOK
    <2> QED
      BY <1>1, <2>1, <2>3, <2>5, <2>6, Zenon DEF PendingInv, WorkerOK
  <1>7. EntriesOK(pending', known') /\ QueueOK(detached') /\ Apart(Held(pending'))
    BY <1>1, PendingParts, Zenon
  <1>8. KnownOK'
    BY <1>1, Zenon DEF PendingInv, KnownOK
  <1>9. QueueOK(output') /\ Divided(Buffers(output'), Buffers(detached'), AllHeld(Held(pending')), pool', burst')
    <2> DEFINE O == Buffers(output)
               D == Buffers(detached)
               U == AllHeld(Held(pending))
    <2>1. Divided(O, D, U, pool, burst)
      BY PendingParts, Zenon
    <2>2. CASE pool' = pool \cup {x} /\ output' = output
      <3> HIDE DEF O, D, U
      <3>1. Divided(O, D, U, pool \cup {x}, burst \ {x})
        BY <1>3, <2>1, Zenon DEF Divided
      <3>2. QueueOK(output)
        BY PendingParts, Zenon
      <3> QED
        BY <1>1, <1>2, <2>2, <3>1, <3>2, Zenon DEF O, D, U
    <2>3. ASSUME pool' = pool, NEW key \in Keys, NEW transit \in BOOLEAN,
                 output' = Append(output, [buffer |-> x, key |-> key, transit |-> transit])
          PROVE  QueueOK(output') /\ Divided(Buffers(output'), Buffers(detached'), AllHeld(Held(pending')), pool', burst')
      <3>1. PICK e : e = [buffer |-> x, key |-> key, transit |-> transit]
        BY Zenon
      <3>2. e \in InFlight /\ e.buffer = x
        BY <1>3, <3>1, Zenon DEF InFlight
      <3>3. x \notin Buffers(output) /\ QueueOK(output)
        BY <1>3, <1>5, PendingParts, Zenon DEF Divided
      <3>4. QueueOK(output') /\ Buffers(output') = Buffers(output) \cup {x}
        BY <2>3, <3>1, <3>2, <3>3, AppendQueue, Zenon
      <3> HIDE DEF O, D, U
      <3>5. Divided(O \cup {x}, D, U, pool, burst \ {x})
        BY <1>3, <2>1, Zenon DEF Divided
      <3> QED
        BY <1>1, <1>2, <2>3, <3>4, <3>5, Zenon DEF O, D, U
    <2> QED
      BY <1>4, <2>2, <2>3, Zenon
  <1> QED
    BY <1>6, <1>7, <1>8, <1>9, Zenon DEF PendingInv, Parts

(* The graph has drained.                                                  *)
LEMMA BurstEndKeeps ==
    ASSUME PendingInv, BurstEnd
    PROVE  PendingInv'
  <1>1. /\ pc' = "tick" /\ visit' = 1 /\ burst = {} /\ PendingMax \in Nat \ {0}
        /\ UNCHANGED <<pending, known, up, burst, output, pool, detached>>
    BY BoundsAssumption, Zenon DEF BurstEnd
  <1>2. WorkerOK'
    BY <1>1 DEF PendingInv, WorkerOK
  <1> QED
    BY <1>1, <1>2, Zenon DEF PendingInv, KnownOK

-----------------------------------------------------------------------------
(* Packets are released, discarded and detached. *)

(* The entry has given up its packets.                                     *)
LEMMA EntryEmptied ==
    ASSUME PendingInv, NEW i \in Index, pending' = [pending EXCEPT ![i] = Empty],
           \A j \in Index : j # i => pending[j].packets = <<>> \/ pending[j].key \notin known'
    PROVE  /\ EntriesOK(pending', known')
           /\ Shrunk(Held(pending'), Held(pending), Buffers(pending[i].packets))
  <1>1. PICK t : t = pending
    BY Zenon
  <1>2. PICK l : l = known'
    BY Zenon
  <1>3. PICK u : u = pending'
    BY Zenon
  <1>4. PICK e : e = Empty
    BY Zenon
  <1>5. EntriesOK(t, known) /\ Apart(Held(t)) /\ Held(t)[i] = Buffers(t[i].packets)
    BY <1>1, PendingParts, Zenon
  <1>6. EntryOK(e) /\ e.packets = <<>> /\ Buffers(e.packets) = {}
    BY <1>4, EmptyEntry, Zenon
  <1>7. MayBecome(t, i, e, l)
    BY <1>1, <1>2, <1>6, Zenon DEF MayBecome
  <1>8. u = [t EXCEPT ![i] = e]
    BY <1>1, <1>3, <1>4, Zenon
  <1>9. EntriesOK(u, l) /\ Becomes(Held(u), Held(t), i, Buffers(e.packets))
    BY <1>5, <1>6, <1>7, <1>8, ReplaceEntry, Zenon
  <1>10. Becomes(Held(u), Held(t), i, {})
    BY <1>6, <1>9, Zenon
  <1>11. Shrunk(Held(u), Held(t), Held(t)[i])
    BY <1>5, <1>10, HeldLeaves, Zenon
  <1> QED
    BY <1>1, <1>2, <1>3, <1>5, <1>9, <1>11, Zenon

(* release_pending(): the packets come back to the graph, or are lost.     *)
LEMMA ReleaseKeeps ==
    ASSUME PendingInv, NEW i \in Index, Release(i), UNCHANGED <<burst, detached>>,
           \A j \in Index : j # i => pending[j].packets = <<>> \/ pending[j].key \notin known'
    PROVE  /\ EntriesOK(pending', known') /\ QueueOK(output') /\ pool' \subseteq Packets
           /\ Parts(Buffers(output'), Buffers(detached'), Held(pending'), pool', burst')
  <1>1. pending' = [pending EXCEPT ![i] = Empty]
    BY Zenon DEF Release, Released
  <1>2. PICK B : B = Buffers(pending[i].packets)
    BY Zenon
  <1>3. EntriesOK(pending', known') /\ Shrunk(Held(pending'), Held(pending), B)
    BY <1>1, <1>2, EntryEmptied, Zenon
  <1>4. PICK s : s = pending[i].packets
    BY Zenon
  <1>5. PICK rest \in Thinned(s) : output' = output \o rest /\ pool' = pool \cup (B \ Buffers(rest))
    BY <1>2, <1>4, Zenon DEF Release
  <1>6. QueueOK(s) /\ B = Buffers(s)
    BY <1>2, <1>4, PendingParts, EntryTyped, Zenon
  <1>7. QueueOK(rest) /\ Buffers(rest) \subseteq B
    BY <1>6, ThinnedQueue, Zenon
  <1> DEFINE O == Buffers(output)
             D == Buffers(detached)
             U == AllHeld(Held(pending))
             K == Buffers(rest)
  <1>8. Divided(O, D, U, pool, burst) /\ QueueOK(output)
    BY PendingParts, Zenon
  <1>9. /\ B \subseteq U /\ AllHeld(Held(pending')) = U \ B /\ Apart(Held(pending'))
    BY <1>3, Zenon DEF Shrunk
  <1>10. K \subseteq B
    BY <1>7, Zenon
  <1>11. QueueOK(output') /\ Buffers(output') = O \cup K
    <2>1. O \cap K = {}
      <3> HIDE DEF O, D, U, K
      <3> QED
        BY <1>8, <1>9, <1>10, Zenon DEF Divided
    <2> QED
      BY <1>5, <1>7, <1>8, <2>1, ConcatQueue, Zenon
  <1>12. Divided(O \cup K, D, U \ B, pool \cup (B \ K), burst) /\ pool \cup (B \ K) \subseteq Packets
    <2> HIDE DEF O, D, U, K
    <2> QED
      BY <1>8, <1>9, <1>10, Zenon DEF Divided
  <1>13. pool' = pool \cup (B \ K)
    BY <1>5, Zenon
  <1> QED
    BY <1>3, <1>9, <1>11, <1>12, <1>13, Zenon DEF Parts

(* discard_pending(): the packets of some entries are freed.               *)
LEMMA DiscardKeeps ==
    ASSUME PendingInv, NEW S \in SUBSET Index, Discard(S), UNCHANGED <<output, burst, detached>>,
           \A j \in Index : j \in S \/ pending[j].packets = <<>> \/ pending[j].key \notin known'
    PROVE  /\ EntriesOK(pending', known') /\ QueueOK(output') /\ pool' \subseteq Packets
           /\ Parts(Buffers(output'), Buffers(detached'), Held(pending'), pool', burst')
  <1>1. PICK t : t = pending
    BY Zenon
  <1>2. PICK u : u = pending'
    BY Zenon
  <1>3. PICK l : l = known'
    BY Zenon
  <1>4. u = [i \in Index |-> IF i \in S THEN Empty ELSE t[i]]
    BY <1>1, <1>2, Zenon DEF Discard
  <1>5. EntriesOK(t, known) /\ Apart(Held(t))
    BY <1>1, PendingParts, Zenon
  <1>6. MayDrop(t, S, l)
    BY <1>1, <1>3, Zenon DEF MayDrop
  <1>7. EntriesOK(u, l) /\ Emptied(Held(u), Held(t), S)
    BY <1>4, <1>5, <1>6, DropEntries, Zenon
  <1>8. PICK H : H = Held(t)
    BY Zenon
  <1>9. PICK G : G = Held(u)
    BY Zenon
  <1>10. Shrunk(G, H, UNION {H[i] : i \in S})
    <2>1. Apart(H) /\ Emptied(G, H, S)
      BY <1>5, <1>7, <1>8, <1>9, Zenon
    <2> QED
      BY <2>1, HeldShrinks, Zenon
  <1>11. PICK B : B = UNION {H[i] : i \in S}
    BY Zenon
  <1>12. pool' = pool \cup B
    <2>1. \A i \in S : H[i] = Buffers(pending[i].packets)
      BY <1>1, <1>8, PendingParts, Zenon
    <2> QED
      BY <1>11, <2>1, Zenon DEF Discard
  <1>13. /\ B \subseteq AllHeld(Held(pending)) /\ AllHeld(Held(pending')) = AllHeld(Held(pending)) \ B
         /\ Apart(Held(pending'))
    BY <1>1, <1>2, <1>8, <1>9, <1>10, <1>11, Zenon DEF Shrunk
  <1> DEFINE O == Buffers(output)
             D == Buffers(detached)
             U == AllHeld(Held(pending))
  <1>14. Divided(O, D, U, pool, burst) /\ QueueOK(output)
    BY PendingParts, Zenon
  <1>15. B \subseteq U
    BY <1>13, Zenon
  <1>16. Divided(O, D, U \ B, pool \cup B, burst) /\ pool \cup B \subseteq Packets
    <2> HIDE DEF O, D, U
    <2> QED
      BY <1>14, <1>15, Zenon DEF Divided
  <1> QED
    BY <1>2, <1>3, <1>7, <1>12, <1>13, <1>14, <1>16, Zenon DEF Parts

(* neighbour_update(): the address is known and its packets are released.  *)
LEMMA UpdateKeeps ==
    ASSUME PendingInv, NEW key \in Keys, Update(key)
    PROVE  PendingInv'
  <1>1. /\ Learnable(key) /\ known' = known \cup {key}
        /\ UNCHANGED <<up, burst, pc, visit, detached>>
    BY Zenon DEF Update
  <1>2. KnownOK'
    <2>1. known \subseteq Keys /\ IsFiniteSet(known) /\ Cardinality(known) <= Capacity /\ Capacity \in Nat
      BY BoundsAssumption, Zenon DEF PendingInv, KnownOK
    <2>2. Cardinality(known) \in Nat
      BY <2>1, FS_CardinalityType, Zenon
    <2>3. /\ IsFiniteSet(known \cup {key})
          /\ Cardinality(known \cup {key}) = IF key \in known THEN Cardinality(known) ELSE Cardinality(known) + 1
      BY <2>1, FS_AddElement, Zenon
    <2>4. key \in known \/ Cardinality(known) < Capacity
      BY <1>1, Zenon DEF Learnable
    <2>5. Cardinality(known \cup {key}) <= Capacity
      BY <2>1, <2>2, <2>3, <2>4
    <2> QED
      BY <1>1, <2>1, <2>3, <2>5, Zenon DEF KnownOK
  <1>3. \A j \in Index : pending[j].packets = <<>> \/ pending[j].key = key \/ pending[j].key \notin known'
    BY <1>1, PendingParts, Zenon
  <1>4. /\ EntriesOK(pending', known') /\ QueueOK(output') /\ pool' \subseteq Packets
        /\ Parts(Buffers(output'), Buffers(detached'), Held(pending'), pool', burst')
    <2>1. CASE Awaited(key) = {}
      <3>1. UNCHANGED <<pending, output, pool>>
        BY <2>1, Zenon DEF Update
      <3>2. \A j \in Index : pending[j].packets = <<>> \/ pending[j].key # key
        BY <2>1, Zenon DEF Awaited, Free
      <3>3. EntriesOK(pending, known')
        BY <1>3, <3>2, PendingParts, Zenon DEF EntriesOK
      <3> QED
        BY <1>1, <3>1, <3>3, Zenon DEF PendingInv, WorkerOK
    <2>2. CASE Awaited(key) # {}
      <3>1. PICK i \in Awaited(key) : Release(i)
        BY <2>2, Zenon DEF Update
      <3>2. i \in Index /\ pending[i].packets # <<>> /\ pending[i].key = key
        BY <3>1, Zenon DEF Awaited, Free
      <3>3. \A j \in Index : j # i => pending[j].packets = <<>> \/ pending[j].key # key
        BY <3>2, PendingParts, Zenon DEF EntriesOK
      <3>4. \A j \in Index : j # i => pending[j].packets = <<>> \/ pending[j].key \notin known'
        BY <1>3, <3>3, Zenon
      <3> QED
        BY <1>1, <3>1, <3>2, <3>4, ReleaseKeeps, Zenon
    <2> QED
      BY <2>1, <2>2, Zenon
  <1>5. QueueOK(detached') /\ WorkerOK'
    BY <1>1, <1>4, Zenon DEF PendingInv, WorkerOK
  <1> QED
    BY <1>2, <1>4, <1>5, Zenon DEF PendingInv

-----------------------------------------------------------------------------
(* The tick. *)

(* Entries change, and keep their packets and keys.                        *)
LEMMA EntriesAge ==
    ASSUME NEW t, NEW k, EntriesOK(t, k), NEW u \in [Index -> {Empty} \cup Entry],
           \A i \in Index : /\ EntryOK(u[i]) /\ u[i].packets = t[i].packets
                            /\ u[i].packets # <<>> => u[i].key = t[i].key
    PROVE  EntriesOK(u, k) /\ Held(u) = Held(t)
  <1>1. EntriesOK(u, k)
    BY Zenon DEF EntriesOK
  <1>2. Held(u) = Held(t)
    BY Zenon DEF Held
  <1> QED
    BY <1>1, <1>2, Zenon

(* One entry changes, and keeps its packets and its key; the rest of the   *)
(* state does not.                                                         *)
LEMMA EntryAges ==
    ASSUME PendingInv, NEW i \in Index, pending[i].packets # <<>>, NEW e \in Entry, Paced(e),
           e.packets = pending[i].packets, e.key = pending[i].key,
           pending' = [pending EXCEPT ![i] = e], UNCHANGED <<known, up, burst, output, pool, pc, detached>>,
           visit' \in 0 .. PendingMax + 1, visit' >= visit
    PROVE  PendingInv'
  <1>1. pending \in [Index -> {Empty} \cup Entry] /\ \A j \in Index : EntryOK(pending[j])
    BY Zenon DEF PendingInv, EntriesOK
  <1>2. /\ pending' \in [Index -> {Empty} \cup Entry]
        /\ pending'[i] = e /\ \A j \in Index : j # i => pending'[j] = pending[j]
    BY <1>1, Zenon
  <1>3. EntryOK(e)
    BY <1>1, Zenon DEF EntryOK
  <1>4. \A j \in Index : /\ EntryOK(pending'[j]) /\ pending'[j].packets = pending[j].packets
                         /\ pending'[j].packets # <<>> => pending'[j].key = pending[j].key
    BY <1>1, <1>2, <1>3, Zenon
  <1>5. PICK t : t = pending
    BY Zenon
  <1>6. PICK u : u = pending'
    BY Zenon
  <1>7. EntriesOK(t, known) /\ u \in [Index -> {Empty} \cup Entry]
    BY <1>2, <1>5, <1>6, PendingParts, Zenon
  <1>8. \A j \in Index : /\ EntryOK(u[j]) /\ u[j].packets = t[j].packets
                         /\ u[j].packets # <<>> => u[j].key = t[j].key
    BY <1>4, <1>5, <1>6, Zenon
  <1>9. EntriesOK(u, known) /\ Held(u) = Held(t)
    BY <1>7, <1>8, EntriesAge, Zenon
  <1>10. EntriesOK(pending', known') /\ Held(pending') = Held(pending)
    BY <1>5, <1>6, <1>9, Zenon
  <1>11. KnownOK'
    BY Zenon DEF PendingInv, KnownOK
  <1>12. WorkerOK'
    <2>1. PendingMax \in Nat
      BY BoundsAssumption, Zenon
    <2> QED
      BY <2>1 DEF PendingInv, WorkerOK
  <1> QED
    BY <1>10, <1>11, <1>12, Zenon DEF PendingInv

(* A second has passed since the entry's last request.                     *)
LEMMA SecondPassesKeeps ==
    ASSUME PendingInv, NEW i \in Index, SecondPasses(i)
    PROVE  PendingInv'
  <1>1. /\ pending[i].packets # <<>> /\ pending[i].age = "fresh"
        /\ pending' = [pending EXCEPT ![i].age = "due", ![i].seconds = Min({@ + 1, MaxRequests})]
        /\ UNCHANGED <<known, up, burst, output, pool, pc, visit, detached>>
    BY Zenon DEF SecondPasses, Free
  <1>2. PICK a : a = pending[i]
    BY Zenon
  <1>3. /\ a \in Entry /\ a.requests \in 1 .. MaxRequests /\ a.seconds \in 0 .. MaxRequests
        /\ MaxRequests \in Nat /\ a.requests <= a.seconds + 1 + Extra(a) /\ Extra(a) \in {0, 1}
    <2>1. EntryOK(a) /\ a.packets # <<>>
      BY <1>1, <1>2, PendingParts, Zenon
    <2>2. Extra(a) \in {0, 1}
      BY Zenon DEF Extra
    <2> QED
      BY <2>1, <2>2, EntryTyped, BoundsAssumption, Zenon DEF EntryOK, Paced
  <1>4. PICK n : n = Min({a.seconds + 1, MaxRequests})
    BY Zenon
  <1>5. n = IF a.seconds + 1 <= MaxRequests THEN a.seconds + 1 ELSE MaxRequests
    BY <1>3, <1>4, MinOfTwo
  <1>6. PICK e : e = [a EXCEPT !.age = "due", !.seconds = n]
    BY Zenon
  <1>7. /\ e \in Entry /\ e.packets = a.packets /\ e.key = a.key
        /\ e.requests = a.requests /\ e.seconds = n /\ e.early = a.early
    <2>1. n \in 0 .. MaxRequests
      BY <1>3, <1>5
    <2> QED
      BY <1>3, <1>6, <2>1, Zenon DEF Entry, Ages
  <1>8. Paced(e)
    <2>1. a.requests <= n + Extra(a) /\ a.requests <= n + 1 + Extra(a)
      BY <1>3, <1>5
    <2>2. Extra(e) = Extra(a)
      BY <1>7, Zenon DEF Extra
    <2> QED
      BY <1>7, <2>1, <2>2, Zenon DEF Paced
  <1>9. pending' = [pending EXCEPT ![i] = e]
    <2>1. pending \in [Index -> {Empty} \cup Entry]
      BY Zenon DEF PendingInv, EntriesOK
    <2> QED
      BY <1>1, <1>2, <1>3, <1>4, <1>6, <2>1, Zenon DEF Entry
  <1>10. visit' \in 0 .. PendingMax + 1 /\ visit' >= visit
    BY <1>1, BoundsAssumption DEF PendingInv, WorkerOK
  <1> QED
    BY <1>1, <1>2, <1>7, <1>8, <1>9, <1>10, EntryAges, Zenon

(* The entry at which the tick is.                                         *)
LEMMA VisitTyped ==
    ASSUME PendingInv, Visiting
    PROVE  /\ visit \in Index /\ visit + 1 \in 0 .. PendingMax + 1 /\ visit + 1 >= visit /\ visit + 1 >= 1
           /\ pc = "tick" /\ burst = {} /\ output = <<>> /\ detached = <<>>
  <1>1. PendingMax \in Nat
    BY BoundsAssumption, Zenon
  <1>2. visit \in 0 .. PendingMax + 1 /\ visit >= 1 /\ pc = "tick" /\ burst = {} /\ visit <= PendingMax
    BY Zenon DEF PendingInv, WorkerOK, Visiting
  <1> QED
    BY <1>1, <1>2 DEF Visiting, Drained, Index

(* The tick goes on.                                                       *)
LEMMA TickSkipKeeps ==
    ASSUME PendingInv, TickSkip
    PROVE  PendingInv'
  <1>1. /\ Visiting /\ visit' = visit + 1
        /\ UNCHANGED <<pending, known, up, burst, output, pool, pc, detached>>
    BY Zenon DEF TickSkip, Skipped
  <1>2. WorkerOK'
    <2>1. visit' \in 0 .. PendingMax + 1 /\ visit' >= 1
      BY <1>1, VisitTyped, Zenon
    <2> QED
      BY <1>1, <2>1, Zenon DEF PendingInv, WorkerOK
  <1> QED
    BY <1>1, <1>2, Zenon DEF PendingInv, KnownOK

(* The entry's packets are released, or discarded with the interface down. *)
LEMMA TickEndsKeeps ==
    ASSUME PendingInv, TickEnds
    PROVE  PendingInv'
  <1>1. Visiting /\ visit' = visit + 1 /\ UNCHANGED <<known, up, burst, pc, detached>>
    BY Zenon DEF TickEnds
  <1>2. visit \in Index /\ visit' \in 0 .. PendingMax + 1 /\ visit' >= 1
    BY <1>1, VisitTyped, Zenon
  <1>3. \A j \in Index : pending[j].packets = <<>> \/ pending[j].key \notin known'
    BY <1>1, PendingParts, Zenon
  <1>4. /\ EntriesOK(pending', known') /\ QueueOK(output') /\ pool' \subseteq Packets
        /\ Parts(Buffers(output'), Buffers(detached'), Held(pending'), pool', burst')
    <2>1. CASE up
      <3>1. Release(visit)
        BY <2>1, Zenon DEF TickEnds
      <3> QED
        BY <1>1, <1>2, <1>3, <3>1, ReleaseKeeps, Zenon
    <2>2. CASE ~up
      <3>1. Discard({visit}) /\ UNCHANGED output
        BY <2>2, Zenon DEF TickEnds
      <3>2. PICK S : S = {visit}
        BY Zenon
      <3>3. S \in SUBSET Index /\ Discard(S)
        BY <1>2, <3>1, <3>2, Zenon
      <3>4. \A j \in Index : j \in S \/ pending[j].packets = <<>> \/ pending[j].key \notin known'
        BY <1>3, Zenon
      <3> QED
        BY <1>1, <3>1, <3>3, <3>4, DiscardKeeps, Zenon
    <2> QED
      BY <2>1, <2>2, Zenon
  <1>5. WorkerOK'
    BY <1>1, <1>2, <1>4, Zenon DEF PendingInv, WorkerOK
  <1>6. KnownOK' /\ QueueOK(detached')
    BY <1>1, Zenon DEF PendingInv, KnownOK
  <1> QED
    BY <1>4, <1>5, <1>6, Zenon DEF PendingInv

(* Another request is sent: an entry that was due, or ahead of the tick's  *)
(* clock, has had no request more than seconds but the extra one.          *)
LEMMA TickRequestKeeps ==
    ASSUME PendingInv, TickRequest
    PROVE  PendingInv'
  <1>1. /\ Visiting /\ pending[visit].packets # <<>> /\ pending[visit].age \in {"due", "ahead"}
        /\ pending[visit].requests < MaxRequests /\ visit' = visit + 1
        /\ pending' = [pending EXCEPT ![visit] = Requested(@)]
        /\ UNCHANGED <<known, up, burst, output, pool, pc, detached>>
    BY Zenon DEF TickRequest, Waiting, Free, Elapsed
  <1>2. PICK i : i = visit
    BY Zenon
  <1>3. i \in Index /\ visit' \in 0 .. PendingMax + 1 /\ visit' >= visit
    BY <1>1, <1>2, VisitTyped, Zenon
  <1>4. PICK a : a = pending[i]
    BY Zenon
  <1>5. /\ a \in Entry /\ a.requests \in 1 .. MaxRequests /\ a.seconds \in 0 .. MaxRequests
        /\ MaxRequests \in Nat /\ a.requests <= a.seconds + Extra(a) /\ a.requests < MaxRequests
        /\ Extra(a) \in {0, 1}
    <2>1. EntryOK(a) /\ a.packets # <<>> /\ a.age \in {"due", "ahead"} /\ a.requests < MaxRequests
      BY <1>1, <1>2, <1>3, <1>4, PendingParts, Zenon
    <2>2. Extra(a) \in {0, 1}
      BY Zenon DEF Extra
    <2> QED
      BY <2>1, <2>2, EntryTyped, BoundsAssumption, Zenon DEF EntryOK, Paced
  <1>6. PICK e : e = Requested(a)
    BY Zenon
  <1>7. e = [a EXCEPT !.requests = a.requests + 1, !.age = "fresh"]
    BY <1>5, <1>6, Zenon DEF Requested, Entry
  <1>8. /\ e \in Entry /\ e.packets = a.packets /\ e.key = a.key
        /\ e.requests = a.requests + 1 /\ e.seconds = a.seconds /\ e.age = "fresh" /\ e.early = a.early
    <2>1. a.requests + 1 \in 1 .. MaxRequests
      BY <1>5
    <2> QED
      BY <1>5, <1>7, <2>1, Zenon DEF Entry, Ages
  <1>9. Paced(e)
    <2>1. Extra(e) = Extra(a)
      BY <1>8, Zenon DEF Extra
    <2>2. e.requests <= e.seconds + 1 + Extra(e) /\ e.age \notin {"due", "ahead"}
      BY <1>5, <1>8, <2>1
    <2> QED
      BY <2>2, Zenon DEF Paced
  <1>10. pending' = [pending EXCEPT ![i] = e]
    <2>1. pending \in [Index -> {Empty} \cup Entry]
      BY Zenon DEF PendingInv, EntriesOK
    <2> QED
      BY <1>1, <1>2, <1>3, <1>4, <1>6, <2>1, Zenon
  <1> QED
    BY <1>1, <1>2, <1>3, <1>4, <1>8, <1>9, <1>10, EntryAges, Zenon

(* The entry has timed out: its packets wait to be freed.                  *)
LEMMA TickTimeoutKeeps ==
    ASSUME PendingInv, TickTimeout
    PROVE  PendingInv'
  <1>1. /\ Visiting /\ visit' = visit + 1 /\ detached' = pending[visit].packets
        /\ pending' = [pending EXCEPT ![visit] = Empty]
        /\ UNCHANGED <<known, up, burst, output, pool, pc>>
    BY Zenon DEF TickTimeout, Waiting
  <1>2. PICK i : i = visit
    BY Zenon
  <1>3. i \in Index /\ visit' \in 0 .. PendingMax + 1 /\ visit' >= 1 /\ detached = <<>>
    BY <1>1, <1>2, VisitTyped, Zenon
  <1>4. \A j \in Index : j # i => pending[j].packets = <<>> \/ pending[j].key \notin known'
    BY <1>1, PendingParts, Zenon
  <1>5. EntriesOK(pending', known') /\ Shrunk(Held(pending'), Held(pending), Buffers(pending[i].packets))
    BY <1>1, <1>2, <1>3, <1>4, EntryEmptied, Zenon
  <1>6. QueueOK(detached')
    BY <1>1, <1>2, <1>3, PendingParts, EntryTyped, Zenon
  <1> DEFINE O == Buffers(output)
             D == Buffers(detached)
             U == AllHeld(Held(pending))
             B == Buffers(pending[i].packets)
  <1>7. Divided(O, D, U, pool, burst) /\ QueueOK(output)
    BY PendingParts, Zenon
  <1>8. D = {}
    BY <1>3, EmptyQueue, Zenon
  <1>9. B \subseteq U /\ AllHeld(Held(pending')) = U \ B /\ Apart(Held(pending'))
    BY <1>5, Zenon DEF Shrunk
  <1>10. Divided(O, B, U \ B, pool, burst)
    <2>1. B \subseteq U
      BY <1>9, Zenon
    <2> HIDE DEF O, D, U, B
    <2> QED
      BY <1>7, <1>8, <2>1, Zenon DEF Divided
  <1>11. Buffers(detached') = B /\ Buffers(output') = O
    BY <1>1, <1>2, Zenon
  <1>12. WorkerOK' /\ KnownOK'
    BY <1>1, <1>3, Zenon DEF PendingInv, WorkerOK, KnownOK
  <1> QED
    BY <1>1, <1>5, <1>6, <1>7, <1>9, <1>10, <1>11, <1>12, Zenon DEF PendingInv, Parts

(* A packet of the entry that timed out is freed, perhaps after an error   *)
(* for it has taken a free buffer.                                         *)
LEMMA FreeDetachedKeeps ==
    ASSUME PendingInv, FreeDetached
    PROVE  PendingInv'
  <1>1. /\ output = <<>> /\ detached # <<>> /\ detached' = Tail(detached)
        /\ UNCHANGED <<pending, known, up, burst, pc, visit>>
    BY Zenon DEF FreeDetached
  <1>2. PICK x : x = Head(detached).buffer
    BY Zenon
  <1>3. /\ x \in Packets /\ x \in Buffers(detached) /\ QueueOK(detached')
        /\ Buffers(detached') = Buffers(detached) \ {x}
    BY <1>1, <1>2, PendingParts, TailQueue, Zenon
  <1>4. \/ pool' = pool \cup {x} /\ output' = output
        \/ \E b \in Fresh(1), key \in Keys :
               /\ output' = <<[buffer |-> b, key |-> key, transit |-> FALSE]>>
               /\ pool' = (pool \ {b}) \cup {x}
    BY <1>2, Zenon DEF FreeDetached
  <1>5. EntriesOK(pending', known') /\ Apart(Held(pending'))
    BY <1>1, PendingParts, Zenon
  <1>6. pool \subseteq Packets /\ Buffers(output) = {} /\ QueueOK(output)
    BY <1>1, EmptyQueue, Zenon DEF PendingInv, WorkerOK
  <1>7. /\ QueueOK(output') /\ pool' \subseteq Packets
        /\ Divided(Buffers(output'), Buffers(detached'), AllHeld(Held(pending')), pool', burst')
    <2> DEFINE O == Buffers(output)
               D == Buffers(detached)
               U == AllHeld(Held(pending))
    <2>1. Divided(O, D, U, pool, burst)
      BY PendingParts, Zenon
    <2>2. x \in D /\ O = {}
      BY <1>3, <1>6, Zenon
    <2>3. CASE pool' = pool \cup {x} /\ output' = output
      <3> HIDE DEF O, D, U
      <3>1. Divided(O, D \ {x}, U, pool \cup {x}, burst)
        BY <2>1, <2>2, Zenon DEF Divided
      <3>2. Buffers(output') = O /\ Buffers(detached') = D \ {x} /\ AllHeld(Held(pending')) = U
        BY <1>1, <1>3, <2>3, Zenon DEF O, D, U
      <3> QED
        BY <1>1, <1>3, <1>6, <2>3, <3>1, <3>2, Zenon
    <2>4. ASSUME NEW b \in Fresh(1), NEW key \in Keys,
                 output' = <<[buffer |-> b, key |-> key, transit |-> FALSE]>>,
                 pool' = (pool \ {b}) \cup {x}
          PROVE  /\ QueueOK(output') /\ pool' \subseteq Packets
                 /\ Divided(Buffers(output'), Buffers(detached'), AllHeld(Held(pending')), pool', burst')
      <3>1. b \in pool
        BY Zenon DEF Fresh
      <3>2. PICK e : e = [buffer |-> b, key |-> key, transit |-> FALSE]
        BY Zenon
      <3>3. e \in InFlight /\ e.buffer = b /\ output' = Append(output, e)
        BY <1>1, <1>6, <2>4, <3>1, <3>2 DEF InFlight
      <3>4. QueueOK(output') /\ Buffers(output') = {b}
        <4>1. e.buffer \notin Buffers(output)
          BY <1>6, Zenon
        <4>2. QueueOK(Append(output, e)) /\ Buffers(Append(output, e)) = Buffers(output) \cup {e.buffer}
          BY <1>6, <3>3, <4>1, AppendQueue, Zenon
        <4> QED
          BY <1>6, <3>3, <4>2, Zenon
      <3> HIDE DEF O, D, U
      <3>5. Divided({b}, D \ {x}, U, (pool \ {b}) \cup {x}, burst)
        BY <2>1, <2>2, <3>1, Zenon DEF Divided
      <3>6. Buffers(detached') = D \ {x} /\ AllHeld(Held(pending')) = U
        BY <1>1, <1>3, Zenon DEF O, D, U
      <3> QED
        BY <1>1, <1>3, <1>6, <2>4, <3>4, <3>5, <3>6, Zenon
    <2> QED
      BY <1>4, <2>3, <2>4, Zenon
  <1>8. WorkerOK' /\ KnownOK'
    BY <1>1, <1>7, Zenon DEF PendingInv, WorkerOK, KnownOK
  <1> QED
    BY <1>3, <1>5, <1>7, <1>8, Zenon DEF PendingInv, Parts

(* The tick is over: entries that were ahead of its clock are not ahead of *)
(* the next one's.                                                         *)
LEMMA TickEndKeeps ==
    ASSUME PendingInv, TickEnd
    PROVE  PendingInv'
  <1>1. /\ pc = "tick" /\ pc' = "idle" /\ visit' = 0
        /\ pending' = [i \in Index |-> IF ~Free(i) /\ pending[i].age = "ahead"
                                       THEN [pending[i] EXCEPT !.age = "fresh"] ELSE pending[i]]
        /\ UNCHANGED <<known, up, burst, output, pool, detached>>
    BY Zenon DEF TickEnd
  <1>2. PICK t : t = pending
    BY Zenon
  <1>3. PICK u : u = pending'
    BY Zenon
  <1>4. u = [i \in Index |-> IF t[i].packets # <<>> /\ t[i].age = "ahead"
                             THEN [t[i] EXCEPT !.age = "fresh"] ELSE t[i]]
    BY <1>1, <1>2, <1>3, Zenon DEF Free
  <1>5. ASSUME NEW i \in Index
        PROVE  /\ u[i] \in {Empty} \cup Entry
               /\ EntryOK(u[i]) /\ u[i].packets = t[i].packets
               /\ u[i].packets # <<>> => u[i].key = t[i].key
    <2>1. EntryOK(t[i])
      BY <1>2, PendingParts, Zenon
    <2>2. CASE ~(t[i].packets # <<>> /\ t[i].age = "ahead")
      <3>1. u[i] = t[i]
        BY <1>4, <2>2, Zenon
      <3> QED
        BY <2>1, <3>1, Zenon DEF EntryOK
    <2>3. CASE t[i].packets # <<>> /\ t[i].age = "ahead"
      <3>1. PICK a : a = t[i]
        BY Zenon
      <3>2. PICK e : e = u[i]
        BY Zenon
      <3>3. e = [a EXCEPT !.age = "fresh"]
        BY <1>4, <2>3, <3>1, <3>2, Zenon
      <3>4. /\ a \in Entry /\ a.packets # <<>> /\ Len(a.packets) <= QueueMax /\ Once(a.packets)
            /\ a.requests <= a.seconds + 1 + Extra(a)
        BY <2>1, <2>3, <3>1, EntryTyped, Zenon DEF EntryOK, Paced
      <3>5. /\ e \in Entry /\ e.packets = a.packets /\ e.key = a.key
            /\ e.requests = a.requests /\ e.seconds = a.seconds /\ e.age = "fresh" /\ e.early = a.early
        BY <3>3, <3>4, Zenon DEF Entry, Ages
      <3>6. Paced(e)
        <4>1. Extra(e) = Extra(a)
          BY <3>5, Zenon DEF Extra
        <4> QED
          BY <3>4, <3>5, <4>1, Zenon DEF Paced
      <3> QED
        BY <3>1, <3>2, <3>4, <3>5, <3>6, Zenon DEF EntryOK
    <2> QED
      BY <2>2, <2>3, Zenon
  <1>6. u \in [Index -> {Empty} \cup Entry]
    <2>1. PICK f : f = [i \in Index |-> u[i]]
      BY Zenon
    <2>2. u = [i \in Index |-> u[i]]
      BY <1>4, Zenon
    <2>3. f \in [Index -> {Empty} \cup Entry]
      BY <1>5, <2>1, Zenon
    <2> QED
      BY <2>1, <2>2, <2>3, Zenon
  <1>7. EntriesOK(t, known)
    BY <1>2, PendingParts, Zenon
  <1>8. EntriesOK(u, known) /\ Held(u) = Held(t)
    BY <1>5, <1>6, <1>7, EntriesAge, Zenon
  <1>9. EntriesOK(pending', known') /\ Held(pending') = Held(pending)
    BY <1>1, <1>2, <1>3, <1>8, Zenon
  <1>10. WorkerOK' /\ KnownOK'
    BY <1>1, BoundsAssumption DEF PendingInv, WorkerOK, KnownOK
  <1> QED
    BY <1>1, <1>9, <1>10, Zenon DEF PendingInv

-----------------------------------------------------------------------------
(* The administrator. *)

(* Entries are discarded; the keys known become fewer, perhaps.            *)
LEMMA AdminDiscards ==
    ASSUME PendingInv, NEW S \in SUBSET Index, Discard(S), known' \in SUBSET known,
           up' \in BOOLEAN, UNCHANGED <<burst, output, pc, visit, detached>>
    PROVE  PendingInv'
  <1>1. \A j \in Index : j \in S \/ pending[j].packets = <<>> \/ pending[j].key \notin known'
    BY PendingParts, Zenon
  <1>2. /\ EntriesOK(pending', known') /\ QueueOK(output') /\ pool' \subseteq Packets
        /\ Parts(Buffers(output'), Buffers(detached'), Held(pending'), pool', burst')
    BY <1>1, DiscardKeeps, Zenon
  <1>3. KnownOK'
    <2>1. known \subseteq Keys /\ IsFiniteSet(known) /\ Cardinality(known) <= Capacity /\ Capacity \in Nat
      BY BoundsAssumption, Zenon DEF PendingInv, KnownOK
    <2>2. IsFiniteSet(known') /\ Cardinality(known') <= Cardinality(known)
      BY <2>1, FS_Subset, Zenon
    <2>3. Cardinality(known') \in Nat /\ Cardinality(known) \in Nat
      BY <2>1, <2>2, FS_CardinalityType, Zenon
    <2>4. Cardinality(known') <= Capacity
      BY <2>1, <2>2, <2>3
    <2> QED
      BY <2>1, <2>2, <2>4, Zenon DEF KnownOK
  <1>4. WorkerOK' /\ QueueOK(detached')
    BY <1>2, Zenon DEF PendingInv, WorkerOK
  <1> QED
    BY <1>2, <1>3, <1>4, Zenon DEF PendingInv

(* The administrator's requests preserve the invariant.                    *)
LEMMA AdminKeeps ==
    ASSUME PendingInv, Admin
    PROVE  PendingInv'
  <1>1. CASE AdminSet
    BY <1>1, UpdateKeeps, Zenon DEF AdminSet
  <1>2. CASE AdminDelete
    <2>1. PICK keys : known' = known \ keys /\ Discard(Cancelled(keys))
      BY <1>2, Zenon DEF AdminDelete
    <2>2. PICK S : S = Cancelled(keys)
      BY Zenon
    <2>3. S \in SUBSET Index /\ Discard(S) /\ known' \in SUBSET known
      BY <2>1, <2>2, Zenon DEF Cancelled
    <2>4. UNCHANGED <<up, burst, output, pc, visit, detached>> /\ up \in BOOLEAN
      BY <1>2, Zenon DEF AdminDelete, PendingInv, WorkerOK
    <2> QED
      BY <2>3, <2>4, AdminDiscards, Zenon
  <1>3. CASE AdminLink
    <2>1. PICK S : S = Cancelled(Keys)
      BY Zenon
    <2>2. S \in SUBSET Index /\ Discard(S)
      BY <1>3, <2>1, Zenon DEF Cancelled, AdminLink
    <2>3. UNCHANGED <<known, burst, output, pc, visit, detached>> /\ up' \in BOOLEAN
      BY <1>3, Zenon DEF AdminLink
    <2> QED
      BY <2>2, <2>3, AdminDiscards, Zenon
  <1>4. CASE AdminMtuFails
    <2>1. UNCHANGED <<pending, known, burst, output, pool, pc, visit, detached>> /\ up' = FALSE
      BY <1>4, Zenon DEF AdminMtuFails
    <2> QED
      BY <2>1, Zenon DEF PendingInv, KnownOK, WorkerOK
  <1>5. CASE AdminReconfigure
    <2>1. PICK S : S = Index
      BY Zenon
    <2>2. S \in SUBSET Index /\ Discard(S)
      BY <1>5, <2>1, Zenon DEF AdminReconfigure
    <2>3. UNCHANGED <<known, up, burst, output, pc, visit, detached>> /\ up \in BOOLEAN
      BY <1>5, Zenon DEF AdminReconfigure, PendingInv, WorkerOK
    <2> QED
      BY <2>2, <2>3, AdminDiscards, Zenon
  <1> QED
    BY <1>1, <1>2, <1>3, <1>4, <1>5, Zenon DEF Admin

-----------------------------------------------------------------------------
(* Connections that fail. *)

(* An entry keeps some of its packets, or none.                            *)
LEMMA LeftEntry ==
    ASSUME NEW a, EntryOK(a), NEW s \in Kept(a.packets)
    PROVE  /\ EntryOK(Left(a, s)) /\ Buffers(Left(a, s).packets) = Buffers(s)
           /\ Buffers(s) \subseteq Buffers(a.packets)
           /\ Left(a, s).packets # <<>> => a.packets # <<>> /\ Left(a, s).key = a.key
  <1>1. QueueOK(a.packets) /\ Len(a.packets) \in Nat /\ Len(a.packets) <= QueueMax
    BY EntryTyped, Zenon
  <1>2. s \in Thinned(a.packets)
    BY Zenon DEF Kept
  <1>3. QueueOK(s) /\ Buffers(s) \subseteq Buffers(a.packets) /\ Len(s) <= Len(a.packets)
    BY <1>1, <1>2, ThinnedQueue, Zenon
  <1>4. CASE s = <<>>
    <2>1. Left(a, s) = Empty
      BY <1>4, Zenon DEF Left
    <2> QED
      BY <1>3, <1>4, <2>1, EmptyEntry, Zenon
  <1>5. CASE s # <<>>
    <2>1. s \in Seq(InFlight) \ {<<>>} /\ Once(s)
      BY <1>3, <1>5, Zenon DEF QueueOK
    <2>2. Len(s) <= Len(a.packets) /\ Len(s) \in Nat \ {0}
      <3>1. Len(s) \in Nat /\ Len(s) # 0
        BY <1>5, <2>1
      <3> QED
        BY <1>3, <3>1, Zenon
    <2>3. a.packets # <<>>
      <3>1. ASSUME a.packets = <<>> PROVE FALSE
        BY <2>2, <3>1
      <3> QED
        BY <3>1, Zenon
    <2>4. a \in Entry
      BY <2>3, EntryTyped, Zenon
    <2>5. PICK e : e = Left(a, s)
      BY Zenon
    <2>6. e = [a EXCEPT !.packets = s]
      BY <1>5, <2>5, Zenon DEF Left
    <2>7. /\ e \in Entry /\ e.packets = s /\ e.key = a.key
          /\ e.requests = a.requests /\ e.seconds = a.seconds /\ e.age = a.age /\ e.early = a.early
      BY <2>1, <2>4, <2>6, Zenon DEF Entry
    <2>8. Paced(e)
      <3>1. Extra(e) = Extra(a)
        BY <2>7, Zenon DEF Extra
      <3> QED
        BY <2>3, <2>7, <3>1, Zenon DEF Paced, EntryOK
    <2>9. Len(s) <= QueueMax
      BY <1>1, <2>2, BoundsAssumption
    <2> QED
      BY <1>3, <2>1, <2>3, <2>5, <2>7, <2>8, <2>9, Zenon DEF EntryOK
  <1> QED
    BY <1>4, <1>5, Zenon

(* Entries hold some of what they held; what they held and do not hold.    *)
Within(G, H) == \A i \in Index : G[i] \subseteq H[i]
Missing(G, H) == UNION {H[i] \ G[i] : i \in Index}

(* Buffers leave the entries.                                              *)
LEMMA HeldThins ==
    ASSUME NEW H, NEW G, Apart(H), Within(G, H)
    PROVE  Shrunk(G, H, Missing(G, H))
  <1> USE DEF Within, Missing
  <1>1. Apart(G)
    BY Zenon DEF Apart
  <1>2. UNION {H[i] \ G[i] : i \in Index} \subseteq AllHeld(H)
    BY Zenon DEF AllHeld
  <1>3. ASSUME NEW x \in AllHeld(G)
        PROVE  x \in AllHeld(H) /\ x \notin UNION {H[i] \ G[i] : i \in Index}
    <2>1. PICK j \in Index : x \in G[j]
      BY Zenon DEF AllHeld
    <2>2. x \in H[j]
      BY <2>1, Zenon
    <2>3. ASSUME NEW i \in Index, x \in H[i] \ G[i]
          PROVE  FALSE
      <3>1. i # j /\ x \in H[i]
        BY <2>1, <2>3, Zenon
      <3>2. H[i] \cap H[j] = {}
        BY <3>1, Zenon DEF Apart
      <3> QED
        BY <2>2, <3>1, <3>2, Zenon
    <2> QED
      BY <2>2, <2>3, HeldPart, Zenon
  <1>4. ASSUME NEW x \in AllHeld(H), x \notin UNION {H[i] \ G[i] : i \in Index}
        PROVE  x \in AllHeld(G)
    <2>1. PICK j \in Index : x \in H[j]
      BY Zenon DEF AllHeld
    <2>2. ASSUME x \notin G[j] PROVE FALSE
      <3>1. x \in H[j] \ G[j]
        BY <2>1, <2>2, Zenon
      <3>2. x \in UNION {H[i] \ G[i] : i \in Index}
        BY <3>1
      <3> QED
        BY <1>4, <3>2, Zenon
    <2> QED
      BY <2>2, Zenon DEF AllHeld
  <1> QED
    BY <1>1, <1>2, <1>3, <1>4, Zenon DEF Shrunk

(* The parked segments of a connection that fails are freed.               *)
LEMMA TcpFailsKeeps ==
    ASSUME PendingInv, TcpFails
    PROVE  PendingInv'
  <1>1. PICK left \in Remainders :
            /\ pending' = [i \in Index |-> Left(pending[i], left[i])]
            /\ pool' = pool \cup UNION {Buffers(pending[i].packets) \ Buffers(left[i]) : i \in Index}
    BY Zenon DEF TcpFails
  <1>2. UNCHANGED <<known, up, burst, output, pc, visit, detached>>
    BY Zenon DEF TcpFails
  <1>3. \A i \in Index : left[i] \in Kept(pending[i].packets) /\ EntryOK(pending[i])
    BY PendingParts, Zenon DEF Remainders
  <1>4. PICK t : t = pending
    BY Zenon
  <1>5. PICK u : u = pending'
    BY Zenon
  <1>6. \A i \in Index : u[i] = Left(t[i], left[i])
    BY <1>1, <1>4, <1>5, Zenon
  <1>7. \A i \in Index :
            /\ EntryOK(u[i]) /\ Buffers(u[i].packets) = Buffers(left[i])
            /\ Buffers(left[i]) \subseteq Buffers(t[i].packets)
            /\ u[i].packets # <<>> => t[i].packets # <<>> /\ u[i].key = t[i].key
    <2> SUFFICES ASSUME NEW i \in Index
                 PROVE  /\ EntryOK(u[i]) /\ Buffers(u[i].packets) = Buffers(left[i])
                        /\ Buffers(left[i]) \subseteq Buffers(t[i].packets)
                        /\ u[i].packets # <<>> => t[i].packets # <<>> /\ u[i].key = t[i].key
      BY Zenon
    <2>1. PICK a : a = t[i]
      BY Zenon
    <2>2. PICK s : s = left[i]
      BY Zenon
    <2>3. EntryOK(a) /\ s \in Kept(a.packets) /\ u[i] = Left(a, s)
      BY <1>3, <1>4, <1>6, <2>1, <2>2, Zenon
    <2>4. /\ EntryOK(Left(a, s)) /\ Buffers(Left(a, s).packets) = Buffers(s)
          /\ Buffers(s) \subseteq Buffers(a.packets)
          /\ Left(a, s).packets # <<>> => a.packets # <<>> /\ Left(a, s).key = a.key
      BY <2>3, LeftEntry, Zenon
    <2> QED
      BY <2>1, <2>2, <2>3, <2>4, Zenon
  <1>8. EntriesOK(u, known)
    <2>1. \A i \in Index : u[i] \in {Empty} \cup Entry
      BY <1>7, Zenon DEF EntryOK
    <2>2. u \in [Index -> {Empty} \cup Entry]
      <3>1. u = [i \in Index |-> u[i]]
        BY <1>1, <1>5, Zenon
      <3>2. PICK f : f = [i \in Index |-> u[i]]
        BY Zenon
      <3>3. f \in [Index -> {Empty} \cup Entry]
        BY <2>1, <3>2, Zenon
      <3> QED
        BY <3>1, <3>2, <3>3, Zenon
    <2>3. EntriesOK(t, known)
      BY <1>4, PendingParts, Zenon
    <2>4. \A i \in Index : u[i].packets = <<>> \/ u[i].key \notin known
      BY <1>7, <2>3, Zenon DEF EntriesOK
    <2>5. ASSUME NEW i \in Index, NEW j \in Index,
                 u[i].packets # <<>> /\ u[j].packets # <<>> /\ u[i].key = u[j].key
          PROVE  i = j
      <3>1. t[i].packets # <<>> /\ t[j].packets # <<>> /\ t[i].key = t[j].key
        BY <1>7, <2>5, Zenon
      <3> QED
        BY <2>3, <3>1, Zenon DEF EntriesOK
    <2> QED
      BY <1>7, <2>2, <2>4, <2>5, Zenon DEF EntriesOK
  <1>9. PICK H : H = Held(t)
    BY Zenon
  <1>10. PICK G : G = Held(u)
    BY Zenon
  <1>11. \A i \in Index : H[i] = Buffers(t[i].packets) /\ G[i] = Buffers(left[i]) /\ G[i] \subseteq H[i]
    BY <1>7, <1>9, <1>10, Zenon DEF Held
  <1>12. PICK B : B = Missing(G, H)
    BY Zenon
  <1>13. Shrunk(G, H, B)
    <2>1. Apart(H) /\ Within(G, H)
      BY <1>4, <1>9, <1>11, PendingParts, Zenon DEF Within
    <2> QED
      BY <1>12, <2>1, HeldThins, Zenon
  <1>14. pool' = pool \cup B
    <2>1. \A i \in Index : Buffers(pending[i].packets) \ Buffers(left[i]) = H[i] \ G[i]
      BY <1>4, <1>11, Zenon
    <2> QED
      BY <1>1, <1>12, <2>1, Zenon DEF Missing
  <1>15. /\ B \subseteq AllHeld(Held(pending)) /\ AllHeld(Held(pending')) = AllHeld(Held(pending)) \ B
         /\ Apart(Held(pending'))
    BY <1>4, <1>5, <1>9, <1>10, <1>13, Zenon DEF Shrunk
  <1> DEFINE O == Buffers(output)
             D == Buffers(detached)
             U == AllHeld(Held(pending))
  <1>16. Divided(O, D, U \ B, pool \cup B, burst) /\ pool \cup B \subseteq Packets
    <2>1. Divided(O, D, U, pool, burst) /\ B \subseteq U
      BY <1>15, PendingParts, Zenon
    <2> HIDE DEF O, D, U
    <2> QED
      BY <2>1, Zenon DEF Divided
  <1>17. Parts(Buffers(output'), Buffers(detached'), Held(pending'), pool', burst')
    BY <1>2, <1>14, <1>15, <1>16, Zenon DEF Parts
  <1>18. KnownOK' /\ WorkerOK' /\ QueueOK(output') /\ QueueOK(detached')
    BY <1>2, <1>14, <1>16, Zenon DEF PendingInv, KnownOK, WorkerOK
  <1>19. EntriesOK(pending', known')
    BY <1>2, <1>5, <1>8, Zenon
  <1> QED
    BY <1>17, <1>18, <1>19, Zenon DEF PendingInv

-----------------------------------------------------------------------------
(* The results. *)

(* Every step preserves the invariant.                                     *)
LEMMA PendingStep == PendingInv /\ [Next]_vars => PendingInv'
  <1> SUFFICES ASSUME PendingInv, [Next]_vars PROVE PendingInv'
    BY Zenon
  <1>1. CASE EthOutput
    BY <1>1, EthOutputKeeps, Zenon
  <1>2. CASE Burst
    <2>1. CASE ArpInput
      BY <2>1, UpdateKeeps, Zenon DEF ArpInput
    <2> QED
      BY <1>2, <2>1, BurstBeginKeeps, ArriveKeeps, BurstEndKeeps, Zenon DEF Burst
  <1>3. CASE Tick
    BY <1>3, TickSkipKeeps, TickEndsKeeps, TickRequestKeeps, TickTimeoutKeeps,
       FreeDetachedKeeps, TickEndKeeps, Zenon DEF Tick
  <1>4. CASE Admin
    BY <1>4, AdminKeeps, Zenon
  <1>5. CASE \E i \in Index : SecondPasses(i)
    BY <1>5, SecondPassesKeeps, Zenon
  <1>6. CASE TcpFails
    BY <1>6, TcpFailsKeeps, Zenon
  <1>7. CASE UNCHANGED vars
    BY <1>7, Zenon DEF vars, PendingInv, KnownOK, WorkerOK
  <1> QED
    BY <1>1, <1>2, <1>3, <1>4, <1>5, <1>6, <1>7, Zenon DEF Next

(* The buffers are divided among the queues, the pool and the burst, one   *)
(* entry per next hop waits, none for an address that is known, and        *)
(* requests are paced, in every reachable state of address resolution.     *)
THEOREM PendingInvariant == Spec => []PendingInv
  BY PendingStarts, PendingStep, PTL DEF Spec

(* Sets that are divided, of queues that hold no buffer twice, give every  *)
(* buffer one owner.                                                       *)
LEMMA InvOwnedOnce == PendingInv => OwnedOnce
  <1> SUFFICES ASSUME PendingInv PROVE OwnedOnce
    BY Zenon
  <1>0. PendingMax \in Nat
    BY BoundsAssumption, Zenon
  <1>1. TypeOK
    BY Zenon DEF PendingInv, EntriesOK, EntryOK, QueueOK, KnownOK, WorkerOK, TypeOK
  <1>2. \A i, j \in Index : ~Free(i) /\ ~Free(j) /\ pending[i].key = pending[j].key => i = j
    BY Zenon DEF PendingInv, EntriesOK, Free
  <1>3. ASSUME NEW q \in Queues
        PROVE  \/ q = 0 /\ Queue(q) = output
               \/ q \in Index /\ Queue(q) = pending[q].packets
               \/ q = PendingMax + 1 /\ Queue(q) = detached
    <2>1. CASE q = 0
      BY <1>0, <2>1 DEF Queue, Index
    <2>2. CASE q \in Index
      BY <1>0, <2>2 DEF Queue, Index
    <2>3. CASE q = PendingMax + 1
      BY <1>0, <2>3 DEF Queue, Index
    <2>4. q = 0 \/ q \in Index \/ q = PendingMax + 1
      BY <1>0 DEF Queues, Index
    <2> QED
      BY <2>1, <2>2, <2>3, <2>4, Zenon
  <1>4. ASSUME NEW q \in Queues
        PROVE  Once(Queue(q))
    BY <1>3, PendingParts, Zenon DEF QueueOK, EntryOK
  <1>5. Divided(Buffers(output), Buffers(detached), AllHeld(Held(pending)), pool, burst)
    BY PendingParts, Zenon
  <1>6. \A i \in Index : Held(pending)[i] = Buffers(pending[i].packets)
                         /\ Buffers(pending[i].packets) \subseteq AllHeld(Held(pending))
    BY PendingParts, Zenon
  <1>7. ASSUME NEW p \in Queues, NEW q \in Queues, p # q
        PROVE  Buffers(Queue(p)) \cap Buffers(Queue(q)) = {}
    <2>1. CASE p \in Index /\ q \in Index /\ Queue(p) = pending[p].packets /\ Queue(q) = pending[q].packets
      <3>1. Held(pending)[p] \cap Held(pending)[q] = {}
        BY <1>7, <2>1, PendingParts, Zenon DEF Apart
      <3> QED
        BY <1>6, <2>1, <3>1, Zenon
    <2>2. Buffers(output) \cap Buffers(detached) = {}
      BY <1>5, Zenon DEF Divided
    <2>3. \A i \in Index : /\ Buffers(pending[i].packets) \cap Buffers(output) = {}
                           /\ Buffers(pending[i].packets) \cap Buffers(detached) = {}
      BY <1>5, <1>6, Zenon DEF Divided
    <2>4. CASE Queue(p) = output
      BY <1>0, <1>3, <1>7, <2>2, <2>3, <2>4, Zenon
    <2> QED
      BY <1>3, <1>7, <2>1, <2>2, <2>3
  <1>8. ASSUME NEW p \in Queues, NEW q \in Queues,
               NEW m \in DOMAIN Queue(p), NEW n \in DOMAIN Queue(q),
               Queue(p)[m].buffer = Queue(q)[n].buffer
        PROVE  p = q /\ m = n
    <2>1. Queue(p)[m].buffer \in Buffers(Queue(p)) /\ Queue(q)[n].buffer \in Buffers(Queue(q))
      BY Zenon DEF Buffers
    <2>2. p = q
      BY <1>7, <1>8, <2>1, Zenon
    <2> QED
      BY <1>4, <1>8, <2>2, Zenon DEF Once
  <1>9. InQueues = Buffers(output) \cup Buffers(detached) \cup AllHeld(Held(pending))
    <2>1. \A q \in Queues : Buffers(Queue(q)) \subseteq Buffers(output) \cup Buffers(detached) \cup AllHeld(Held(pending))
      BY <1>3, <1>6, Zenon
    <2>2. InQueues \subseteq Buffers(output) \cup Buffers(detached) \cup AllHeld(Held(pending))
      BY <2>1, Zenon DEF InQueues
    <2>3. 0 \in Queues /\ PendingMax + 1 \in Queues /\ Queue(0) = output /\ Queue(PendingMax + 1) = detached
      BY <1>0 DEF Queues, Queue, Index
    <2>4. \A i \in Index : i \in Queues /\ Queue(i) = pending[i].packets
      BY <1>0 DEF Queues, Queue, Index
    <2>5. Buffers(output) \subseteq InQueues /\ Buffers(detached) \subseteq InQueues
      BY <2>3, Zenon DEF InQueues
    <2>6. AllHeld(Held(pending)) \subseteq InQueues
      BY <1>6, <2>4, Zenon DEF InQueues, AllHeld
    <2> QED
      BY <2>2, <2>5, <2>6, Zenon
  <1>10. /\ InQueues \cap (pool \cup burst) = {} /\ pool \cap burst = {}
         /\ InQueues \cup pool \cup burst = Packets
    <2> DEFINE O == Buffers(output)
               D == Buffers(detached)
               U == AllHeld(Held(pending))
    <2>1. Divided(O, D, U, pool, burst) /\ InQueues = O \cup D \cup U
      BY <1>5, <1>9, Zenon
    <2> HIDE DEF O, D, U
    <2> QED
      BY <2>1, Zenon DEF Divided
  <1> QED
    BY <1>1, <1>2, <1>8, <1>10, Zenon DEF OwnedOnce

(* Every buffer of the pool always has exactly one owner, whatever is      *)
(* parked, released, lost on the way back to the graph, timed out or       *)
(* cancelled, and no queue outgrows its array.                             *)
THEOREM BuffersHaveOneOwner == Spec => []OwnedOnce
  BY PendingInvariant, InvOwnedOnce, PTL

(* No packet waits for an address that is in the table.                    *)
THEOREM NobodyWaitsLonger == Spec => []NobodyWaitsForKnown
  <1>1. PendingInv => NobodyWaitsForKnown
    BY Zenon DEF PendingInv, EntriesOK, NobodyWaitsForKnown, Free
  <1> QED
    BY <1>1, PendingInvariant, PTL

(* After n seconds an entry has sent at most n + 1 requests, and one more  *)
(* when it was made ahead of the tick's clock.                             *)
THEOREM RequestsKeepPace == Spec => []RequestsPaced
  <1>1. PendingInv => RequestsPaced
    BY Zenon DEF PendingInv, EntriesOK, EntryOK, Paced, RequestsPaced, Free
  <1> QED
    BY <1>1, PendingInvariant, PTL
=============================================================================
