---------------------------- MODULE NeighbourMap ----------------------------
(***************************************************************************)
(* What the neighbour table promises: a map from (interface, address) to a *)
(* hardware address, of bounded size.  "Full tables reject new keys but    *)
(* permit updates" (include/neighbour.h); an entry set by the              *)
(* administrator is permanent, and learning does not change it.            *)
(***************************************************************************)
EXTENDS Naturals, FiniteSets

CONSTANTS Capacity, Devs, Ips, Macs

Keys == Devs \X Ips

VARIABLES map,    \* the entries
          call    \* the last operation, what it was about and what it returned

vars == <<map, call>>

Call(op, about, result) == [op |-> op, about |-> about, result |-> result]
NoCall == Call("none", {}, "ok")

Init == map = [k \in {} |-> {}] /\ call = NoCall

Known(k) == k \in DOMAIN map
Refused(k) == ~Known(k) /\ Cardinality(DOMAIN map) = Capacity

Put(k, mac, permanent) ==
    map' = [j \in DOMAIN map \cup {k} |->
               IF j = k THEN [mac |-> mac, permanent |-> permanent] ELSE map[j]]

Without(keys) == map' = [k \in DOMAIN map \ keys |-> map[k]]

Learn(k, mac) ==
    \/ call' = Call("learn", k, "full") /\ Refused(k) /\ UNCHANGED map
    \/ /\ call' = Call("learn", k, "ok")
       /\ ~Refused(k)
       /\ IF Known(k) /\ map[k].permanent THEN UNCHANGED map ELSE Put(k, mac, FALSE)

Set(k, mac, replace) ==
    \/ call' = Call("set", k, "full") /\ Refused(k) /\ UNCHANGED map
    \/ call' = Call("set", k, "exists") /\ Known(k) /\ ~replace /\ UNCHANGED map
    \/ call' = Call("set", k, "ok") /\ ~Refused(k) /\ (Known(k) => replace) /\ Put(k, mac, TRUE)

Delete(k) ==
    \/ call' = Call("delete", k, "ok") /\ Known(k) /\ Without({k})
    \/ call' = Call("delete", k, "missing") /\ ~Known(k) /\ UNCHANGED map

Flush(dev) ==
    call' = Call("flush", dev, "ok") /\ Without({k \in Keys : k[1] = dev})

Next ==
    \/ \E k \in Keys, mac \in Macs :
           Learn(k, mac) \/ \E replace \in BOOLEAN : Set(k, mac, replace)
    \/ \E k \in Keys : Delete(k)
    \/ \E dev \in Devs : Flush(dev)

Spec == Init /\ [][Next]_vars
=============================================================================
