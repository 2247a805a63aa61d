--------------------------- MODULE NeighbourTable ---------------------------
(***************************************************************************)
(* The neighbour table of src/neighbour.c: an open-addressed hash table    *)
(* with linear probing, in which deletion moves later entries of the probe *)
(* chain back instead of leaving a marker.  The hash function is any       *)
(* assignment of home slots to keys.                                       *)
(***************************************************************************)
EXTENDS Integers, FiniteSets

CONSTANTS
    Capacity,    \* NEIGHBOUR_CAPACITY
    Devs, Ips,   \* interfaces and IPv4 addresses, the two parts of a key
    Macs,        \* hardware addresses
    None         \* an unused entry; a search without result

ASSUME CapacityAssumption == Capacity \in Nat \ {0}

Keys == Devs \X Ips
Slots == 0 .. Capacity - 1
Entry == [key : Keys, mac : Macs, permanent : BOOLEAN]

VARIABLES
    home,      \* hash(ip ^ dev) % NEIGHBOUR_CAPACITY
    entries,   \* the table
    call       \* the last operation, what it was about and what it returned

vars == <<home, entries, call>>

Call(op, about, result) == [op |-> op, about |-> about, result |-> result]

\* Every hash function the table may have.
Homes == [Keys -> Slots]

Init ==
    /\ home \in Homes
    /\ entries = [s \in Slots |-> None]
    /\ call = Call("none", {}, "ok")

-----------------------------------------------------------------------------
Used(table, s) == table[s] # None

\* The i-th slot a search for the key looks at.
Probe(k, i) == (home[k] + i) % Capacity

\* The probes at which find_slot() stops: an unused entry, or the key's.
Stops(table, k) ==
    {i \in Slots : Used(table, Probe(k, i)) => table[Probe(k, i)].key = k}

First(probes) == CHOOSE i \in probes : \A j \in probes : i <= j

\* find_slot()
FindSlot(table, k) ==
    LET stops == Stops(table, k)
    IN IF stops = {} THEN None ELSE Probe(k, First(stops))

\* neighbour_lookup(): the entry found, which holds the hardware address.
Lookup(table, k) ==
    LET slot == FindSlot(table, k)
    IN IF slot = None THEN None ELSE table[slot]

\* neighbour_learn()
Learn(k, mac) ==
    LET s == FindSlot(entries, k) IN
    /\ \/ /\ s = None
          /\ call' = Call("learn", k, "full") /\ UNCHANGED entries
       \/ /\ s # None /\ ~Used(entries, s)
          /\ entries' = [entries EXCEPT ![s] = [key |-> k, mac |-> mac, permanent |-> FALSE]]
          /\ call' = Call("learn", k, "ok")
       \/ /\ s # None /\ Used(entries, s)
          /\ entries' = IF entries[s].permanent THEN entries
                                                ELSE [entries EXCEPT ![s].mac = mac]
          /\ call' = Call("learn", k, "ok")
    /\ UNCHANGED home

\* neighbour_set(): the entry is permanent.  The neighbour_update() that
\* follows finds it as it is.
Set(k, mac, replace) ==
    LET s == FindSlot(entries, k) IN
    /\ \/ /\ s = None
          /\ call' = Call("set", k, "full") /\ UNCHANGED entries
       \/ /\ s # None /\ Used(entries, s) /\ ~replace
          /\ call' = Call("set", k, "exists") /\ UNCHANGED entries
       \/ /\ s # None /\ (Used(entries, s) => replace)
          /\ entries' = [entries EXCEPT ![s] = [key |-> k, mac |-> mac, permanent |-> TRUE]]
          /\ call' = Call("set", k, "ok")
    /\ UNCHANGED home

\* The distance from one slot forward to another.
Distance(from, to) == (to - from + Capacity) % Capacity

\* An entry is moved into the hole when the hole is on its probe chain.
Moves(table, i, hole) ==
    Distance(home[table[i].key], i) >= Distance(hole, i)

\* The loop of neighbour_delete(): the table, the hole and whether the loop
\* has reached an unused entry after looking at n entries behind the first
\* hole.
Closing(table, first) ==
    LET closing[n \in Slots] ==
            IF n = 0 THEN [table |-> table, hole |-> first, stopped |-> FALSE]
            ELSE LET c == closing[n - 1]
                     i == (first + n) % Capacity
                 IN IF c.stopped \/ ~Used(c.table, i)
                    THEN [c EXCEPT !.stopped = TRUE]
                    ELSE IF Moves(c.table, i, c.hole)
                    THEN [c EXCEPT !.table[c.hole] = c.table[i], !.hole = i]
                    ELSE c
    IN closing[Capacity - 1]

\* neighbour_delete() of a key that is in the table.
Deleted(table, k) ==
    LET closed == Closing(table, FindSlot(table, k))
    IN [closed.table EXCEPT ![closed.hole] = None]

Delete(k) ==
    /\ IF Lookup(entries, k) # None
       THEN entries' = Deleted(entries, k) /\ call' = Call("delete", k, "ok")
       ELSE call' = Call("delete", k, "missing") /\ UNCHANGED entries
    /\ UNCHANGED home

\* A mutant: the scan moves on after a deletion.
ScannedPast(scan, dev) ==
    IF scan.i < Capacity
    THEN IF Used(scan.table, scan.i) /\ scan.table[scan.i].key[1] = dev
         THEN [table |-> Deleted(scan.table, scan.table[scan.i].key), i |-> scan.i + 1]
         ELSE [scan EXCEPT !.i = @ + 1]
    ELSE scan

\* One step of the scan of a flush: a deletion may bring another entry into
\* the slot, so the scan stays there.
Scanned(scan, dev) ==
    IF scan.i < Capacity
    THEN IF Used(scan.table, scan.i) /\ scan.table[scan.i].key[1] = dev
         THEN [scan EXCEPT !.table = Deleted(scan.table, scan.table[scan.i].key)]
         ELSE [scan EXCEPT !.i = @ + 1]
    ELSE scan

\* admin_worker_operation(), flush: every entry of one interface.  Each step
\* deletes an entry or moves on, so 2 * Capacity steps reach the end.
Flush(dev) ==
    LET scan[n \in 0 .. 2 * Capacity] ==
            IF n = 0 THEN [table |-> entries, i |-> 0] ELSE Scanned(scan[n - 1], dev)
    IN /\ entries' = scan[2 * Capacity].table
       /\ call' = Call("flush", dev, "ok")
       /\ UNCHANGED home

Next ==
    \/ \E k \in Keys, mac \in Macs :
           Learn(k, mac) \/ \E replace \in BOOLEAN : Set(k, mac, replace)
    \/ \E k \in Keys : Delete(k)
    \/ \E dev \in Devs : Flush(dev)

Spec == Init /\ [][Next]_vars

-----------------------------------------------------------------------------
(* Properties. *)

\* The table implements the bounded map: searches, updates, deletions and
\* flushes return and leave what the map of NeighbourMap does, and a key is
\* refused only when Capacity other keys are in the table.
Found ==
    LET found == [k \in Keys |-> Lookup(entries, k)]
    IN [k \in {j \in Keys : found[j] # None} |->
           [mac |-> found[k].mac, permanent |-> found[k].permanent]]
Map == INSTANCE NeighbourMap WITH map <- Found
ImplementsMap == Map!Spec
=============================================================================
