---------------------------- MODULE ConfigProofs ----------------------------
(***************************************************************************)
(* The safety properties of the published configuration, whatever the      *)
(* administrators ask for and when the worker activates it: the addresses  *)
(* to which sockets are bound (RouteConfig) and the counters of the access *)
(* list (AccessList).                                                      *)
(***************************************************************************)
EXTENDS RouteConfig, AccessList, WellFoundedInduction, TLAPS

-----------------------------------------------------------------------------
(* Addresses of sockets. *)

(* An address to which a socket is bound stays configured, whatever the    *)
(* changes and however long a candidate has been prepared (removed_binding *)
(* looks at the sockets when the candidate is activated).                  *)
THEOREM AddressesOfSocketsStay == RouteSpec => []BoundAddressesStay
  <1>1. RouteInit => BoundAddressesStay
    BY Zenon DEF RouteInit, BoundAddressesStay
  <1>2. BoundAddressesStay /\ [RouteNext]_routeVars => BoundAddressesStay'
    <2> SUFFICES ASSUME BoundAddressesStay, [RouteNext]_routeVars
                 PROVE  BoundAddressesStay'
      BY Zenon
    <2>1. ASSUME published' = published, bound' \subseteq bound
          PROVE  BoundAddressesStay'
      BY <2>1, Zenon DEF BoundAddressesStay, IpsOf
    <2>2. ASSUME NEW as, NEW rs, NEW us, Propose(as, rs, us)
          PROVE  BoundAddressesStay'
      BY <2>1, <2>2, Zenon DEF Propose
    <2>3. CASE \E a \in Addresses : AddAddress(a) \/ ReplaceAddress(a) \/ RemoveAddress(a)
      BY <2>2, <2>3, Zenon DEF AddAddress, ReplaceAddress, RemoveAddress, ProposeAddresses
    <2>4. CASE \E r \in Routes : AddRoute(r) \/ ReplaceRoute(r) \/ RemoveRoute(r)
      BY <2>2, <2>4, Zenon DEF AddRoute, ReplaceRoute, RemoveRoute, ProposeRoutes
    <2>5. CASE \E u \in Rules : AddRule(u) \/ RemoveRule(u)
      BY <2>2, <2>5, Zenon DEF AddRule, RemoveRule, ProposeRules
    <2>6. CASE \E dev \in Devs : FlushAddresses(dev) \/ SetLink(dev)
      BY <2>1, <2>2, <2>6, Zenon DEF FlushAddresses, SetLink, ProposeAddresses
    <2>7. CASE \E t \in {r.table : r \in Routes} : FlushRoutes(t)
      BY <2>2, <2>7, Zenon DEF FlushRoutes, ProposeRoutes
    <2>8. CASE FlushRules
      BY <2>2, <2>8, Zenon DEF FlushRules, ProposeRules
    <2>9. CASE Activate
      <3> DEFINE c == CHOOSE c \in proposal : TRUE
      <3>1. bound' = bound /\ published' = IF RemovedBinding(c) THEN published ELSE c
        BY <2>9, Zenon DEF Activate
      <3> HIDE DEF c
      <3>2. CASE RemovedBinding(c)
        BY <2>1, <3>1, <3>2, Zenon
      <3>3. CASE ~RemovedBinding(c)
        BY <3>1, <3>3, Zenon DEF RemovedBinding, BoundAddressesStay, IpsOf
      <3> QED
        BY <3>2, <3>3, Zenon
    <2>10. ASSUME NEW ip, BindSocket(ip) \/ CloseSocket(ip)
           PROVE  BoundAddressesStay'
      BY <2>10, Zenon DEF BindSocket, CloseSocket, BoundAddressesStay, IpsOf
    <2>11. CASE UNCHANGED routeVars
      BY <2>1, <2>11, Zenon DEF routeVars
    <2> QED
      BY <2>3, <2>4, <2>5, <2>6, <2>7, <2>8, <2>9, <2>10, <2>11, Zenon DEF RouteNext
  <1> QED
    BY <1>1, <1>2, PTL DEF RouteSpec

-----------------------------------------------------------------------------
(* The counters of the access list. *)

Rule == [pref : Nat, proto : Nat, ports : BOOLEAN, min : Nat, max : Nat, drop : BOOLEAN]

\* Lists that net_config_validate() lets pass.
Acceptable(list) == list \in Seq(Rule) /\ Len(list) <= AclMax /\ Valid(list)

\* The list in force is valid, and so is the one under construction: a preference
\* names one rule, so a rule has one position.
AclInv ==
    /\ Acceptable(acls)
    /\ candidate # NoList => Acceptable(candidate[1])
    /\ counters \in [1 .. AclMax -> Nat]
    /\ hits \in [Listed -> Nat]
    /\ CountersFollowRules

(* A set of natural numbers has a least element: what a search from below  *)
(* finds first.                                                            *)
LEMMA LeastNumber ==
    ASSUME NEW S \in SUBSET Nat, S # {}
    PROVE  \E x \in S : \A y \in S : x <= y
  <1>1. PICK x \in S : \A y \in S : ~(<<y, x>> \in OpToRel(<, Nat))
    BY NatLessThanWellFounded, WFMin, Zenon
  <1>2. \A y \in S : ~(y < x)
    BY <1>1, Zenon DEF OpToRel
  <1> QED
    BY <1>2

(* The positions and the preferences of a valid list.                      *)
LEMMA ListShape ==
    ASSUME NEW list, Acceptable(list)
    PROVE  /\ Len(list) \in Nat /\ DOMAIN list = 1 .. Len(list)
           /\ \A k \in DOMAIN list : k \in Nat /\ list[k] \in Rule /\ list[k].pref \in Nat
  <1>1. list \in Seq(Rule)
    BY Zenon DEF Acceptable
  <1>2. /\ Len(list) \in Nat /\ DOMAIN list = 1 .. Len(list)
        /\ \A k \in DOMAIN list : k \in Nat /\ list[k] \in Rule
    BY <1>1
  <1>3. \A r \in Rule : r.pref \in Nat
    BY Zenon DEF Rule
  <1> QED
    BY <1>2, <1>3, Zenon

(* The preferences of a valid list increase over any distance.             *)
LEMMA OrderedByPreference ==
    ASSUME NEW list, Acceptable(list), NEW i \in DOMAIN list, NEW j \in DOMAIN list, i < j
    PROVE  list[i].pref < list[j].pref
  <1> DEFINE S == {k \in DOMAIN list : i < k /\ ~(list[i].pref < list[k].pref)}
  <1>1. /\ DOMAIN list = 1 .. Len(list) /\ Len(list) \in Nat
        /\ \A k \in DOMAIN list : list[k].pref \in Nat
        /\ \A k \in DOMAIN list : k > 1 => list[k - 1].pref < list[k].pref
    <2>1. \A k \in DOMAIN list : k > 1 => list[k - 1].pref < list[k].pref
      BY Zenon DEF Acceptable, Valid
    <2> QED
      BY <2>1, ListShape, Zenon
  <1>2. SUFFICES ASSUME j \in S PROVE FALSE
    BY Zenon
  <1>3. PICK k \in S : \A x \in S : k <= x
    <2>1. S \in SUBSET Nat /\ S # {}
      BY <1>1, <1>2
    <2> QED
      BY <2>1, LeastNumber, Zenon
  <1>4. k - 1 \in DOMAIN list /\ i <= k - 1 /\ k - 1 \notin S /\ k > 1
    BY <1>1, <1>3
  <1>5. list[k - 1].pref < list[k].pref
    BY <1>1, <1>3, <1>4, Zenon
  <1>6. i = k - 1 \/ list[i].pref < list[k - 1].pref
    BY <1>1, <1>4
  <1>7. ~(list[i].pref < list[k].pref)
    BY <1>3, Zenon
  <1>8. list[i].pref \in Nat /\ list[k].pref \in Nat /\ list[k - 1].pref \in Nat
    BY <1>1, <1>3, <1>4, Zenon
  <1> HIDE DEF S
  <1> QED
    BY <1>5, <1>6, <1>7, <1>8

(* A rule has one position in a valid list.                                *)
LEMMA OnePosition ==
    ASSUME NEW list, Acceptable(list), NEW i \in DOMAIN list, NEW j \in DOMAIN list,
           list[i] = list[j]
    PROVE  i = j
  <1>1. i \in Nat /\ j \in Nat /\ list[i].pref \in Nat
    BY ListShape, Zenon
  <1>2. ~(i < j) /\ ~(j < i)
    BY <1>1, OrderedByPreference
  <1> QED
    BY <1>1, <1>2

(* net_acl_classify() finds the one rule that is preferred.                *)
LEMMA ClassifyPrefers ==
    ASSUME AclInv, NEW p, Classify(p) # 0
    PROVE  Classify(p) \in DOMAIN acls /\ Preferred(p) = {acls[Classify(p)]}
  <1> DEFINE met == {i \in DOMAIN acls : Meets(acls[i], p)}
             c == Classify(p)
  <1>1. Acceptable(acls) /\ DOMAIN acls \subseteq Nat /\ \A i \in DOMAIN acls : acls[i].pref \in Nat
    <2>1. Acceptable(acls)
      BY Zenon DEF AclInv
    <2> QED
      BY <2>1, ListShape, Zenon
  <1>2. met # {} /\ c = Min(met)
    BY Zenon DEF Classify
  <1>3. c \in met /\ \A i \in met : c <= i
    <2>1. met \in SUBSET Nat
      BY <1>1, Zenon
    <2>2. \E x \in met : \A y \in met : x <= y
      BY <1>2, <2>1, LeastNumber, Zenon
    <2> HIDE DEF met
    <2> QED
      BY <1>2, <2>2, Zenon DEF Min
  <1>4. c \in DOMAIN acls /\ Meets(acls[c], p)
    BY <1>3, Zenon
  <1>5. ASSUME NEW i \in DOMAIN acls, Meets(acls[i], p), i # c
        PROVE  acls[c].pref < acls[i].pref
    <2>1. c < i
      BY <1>1, <1>3, <1>5
    <2> QED
      BY <1>1, <1>4, <2>1, OrderedByPreference, Zenon
  <1> HIDE DEF c
  <1>6. ASSUME NEW r \in Listed, Meets(r, p)
        PROVE  r = acls[c] \/ acls[c].pref < r.pref
    <2>1. PICK i \in DOMAIN acls : r = acls[i]
      BY Zenon DEF Listed
    <2> QED
      BY <1>5, <1>6, <2>1, Zenon
  <1>7. acls[c] \in Listed /\ \A r \in Listed : r.pref \in Nat
    BY <1>1, <1>4, Zenon DEF Listed
  <1>8. acls[c] \in Preferred(p)
    BY <1>4, <1>6, <1>7 DEF Preferred
  <1>9. ASSUME NEW r \in Preferred(p) PROVE r = acls[c]
    <2>1. r \in Listed /\ Meets(r, p) /\ r.pref <= acls[c].pref
      BY <1>4, <1>7, Zenon DEF Preferred
    <2> QED
      BY <1>6, <1>7, <2>1
  <1>10. Preferred(p) = {acls[c]}
    BY <1>8, <1>9, Zenon
  <1> QED
    BY <1>4, <1>10, Zenon DEF c

(* A change is prepared from acceptable lists only.                        *)
LEMMA ProposeKeeps ==
    ASSUME AclInv, NEW list \in Seq(Rule), NEW drop, ProposeAcl(list, drop)
    PROVE  AclInv'
  <1>1. candidate' = <<list, drop>> /\ Acceptable(list)
    BY Zenon DEF ProposeAcl, Acceptable
  <1>2. candidate'[1] = list
    BY <1>1, Zenon
  <1>3. acls' = acls /\ counters' = counters /\ hits' = hits
    BY Zenon DEF ProposeAcl
  <1>4. Listed' = Listed /\ (CountersFollowRules <=> CountersFollowRules')
    BY <1>3, Zenon DEF Listed, CountersFollowRules
  <1>5. Acceptable(acls') /\ Acceptable(candidate'[1])
    BY <1>1, <1>2, <1>3, Zenon DEF AclInv
  <1>6. Acceptable(acls)' /\ Acceptable(candidate[1])'
    BY <1>5, Zenon DEF Acceptable, Valid
  <1> QED
    BY <1>3, <1>4, <1>6, Zenon DEF AclInv

(* What qsort() leaves holds the same rules.                               *)
LEMMA SortedShape ==
    ASSUME NEW list \in Seq(Rule), NEW s \in Sorted(list)
    PROVE  s \in Seq(Rule)
  <1>1. PICK p \in Bijection(DOMAIN list, DOMAIN list) : s = [i \in DOMAIN list |-> list[p[i]]]
    BY Zenon DEF Sorted
  <1>2. p \in [DOMAIN list -> DOMAIN list]
    BY Zenon DEF Bijection, Injection
  <1>3. DOMAIN list = 1 .. Len(list) /\ Len(list) \in Nat /\ \A i \in DOMAIN list : list[i] \in Rule
    OBVIOUS
  <1>4. s \in [1 .. Len(list) -> Rule]
    BY <1>1, <1>2, <1>3, Zenon
  <1> QED
    BY <1>3, <1>4

(* A packet is counted at the position of the rule it should meet.         *)
LEMMA AccountKeeps ==
    ASSUME AclInv, NEW p, Account(p)
    PROVE  AclInv'
  <1> DEFINE c == Classify(p)
  <1>1. /\ c # 0 /\ counters' = [counters EXCEPT ![c] = @ + 1]
        /\ hits' = [r \in Listed |-> IF r \in Preferred(p) THEN hits[r] + 1 ELSE hits[r]]
        /\ acls' = acls /\ candidate' = candidate
    BY Zenon DEF Account
  <1>2. c \in DOMAIN acls /\ Preferred(p) = {acls[c]}
    BY <1>1, ClassifyPrefers, Zenon
  <1> HIDE DEF c
  <1>3. /\ Acceptable(acls) /\ counters \in [1 .. AclMax -> Nat] /\ hits \in [Listed -> Nat]
        /\ \A i \in 1 .. AclMax : counters[i] = IF i \in DOMAIN acls THEN hits[acls[i]] ELSE 0
    BY Zenon DEF AclInv, CountersFollowRules
  <1>4. c \in 1 .. AclMax /\ AclMax \in Nat
    <2>1. Len(acls) <= AclMax /\ DOMAIN acls = 1 .. Len(acls) /\ Len(acls) \in Nat
      BY <1>3, ListShape, Zenon DEF Acceptable
    <2> QED
      BY <1>2, <2>1, AclAssumption
  <1>5. counters' \in [1 .. AclMax -> Nat]
    BY <1>1, <1>3, <1>4
  <1>6. hits' \in [Listed -> Nat]
    BY <1>1, <1>3
  <1>7. ASSUME NEW i \in 1 .. AclMax
        PROVE  counters'[i] = IF i \in DOMAIN acls THEN hits'[acls[i]] ELSE 0
    <2>1. CASE i = c
      <3>1. acls[c] \in Listed
        BY <1>2, Zenon DEF Listed
      <3>2. counters'[c] = counters[c] + 1
        BY <1>1, <1>3, <1>4, Zenon
      <3>3. hits'[acls[c]] = hits[acls[c]] + 1
        BY <1>1, <1>2, <3>1, Zenon
      <3> QED
        BY <1>2, <1>3, <1>4, <2>1, <3>2, <3>3, Zenon
    <2>2. CASE i # c /\ i \in DOMAIN acls
      <3>1. acls[i] \in Listed /\ acls[i] # acls[c]
        BY <1>2, <1>3, <2>2, OnePosition, Zenon DEF Listed
      <3>2. counters'[i] = counters[i]
        BY <1>1, <1>3, <2>2, Zenon
      <3>3. hits'[acls[i]] = hits[acls[i]]
        BY <1>1, <1>2, <3>1, Zenon
      <3> QED
        BY <1>3, <2>2, <3>2, <3>3, Zenon
    <2>3. CASE i \notin DOMAIN acls
      BY <1>1, <1>2, <1>3, <2>3, Zenon
    <2> QED
      BY <2>1, <2>2, <2>3, Zenon
  <1>8. Listed' = Listed /\ Acceptable(acls)' /\ (candidate' # NoList => Acceptable(candidate[1])')
    BY <1>1, Zenon DEF AclInv, Listed, Acceptable, Valid
  <1>9. CountersFollowRules'
    <2>1. acls' = acls
      BY <1>1, Zenon
    <2> QED
      BY <1>7, <2>1, Zenon DEF CountersFollowRules
  <1> QED
    BY <1>5, <1>6, <1>8, <1>9, Zenon DEF AclInv

(* net_acl_counters_migrate() moves each counter with its rule.            *)
LEMMA ActivateKeeps ==
    ASSUME AclInv, ActivateAcl
    PROVE  AclInv'
  <1>1. PICK next : next = candidate[1]
    BY Zenon
  <1>2. PICK listed : listed = Listed
    BY Zenon
  <1>3. /\ Acceptable(acls) /\ counters \in [1 .. AclMax -> Nat] /\ hits \in [listed -> Nat]
        /\ \A i \in 1 .. AclMax : counters[i] = IF i \in DOMAIN acls THEN hits[acls[i]] ELSE 0
        /\ Acceptable(next)
    BY <1>1, <1>2, Zenon DEF AclInv, CountersFollowRules, ActivateAcl
  <1>4. /\ acls' = next /\ candidate' = NoList
        /\ counters' = Migrated(acls, next)
        /\ hits' = [r \in Listed' |-> IF r \in listed THEN hits[r] ELSE 0]
    BY <1>1, <1>2, Zenon DEF ActivateAcl
  <1>5. /\ DOMAIN acls \subseteq 1 .. AclMax /\ DOMAIN next \subseteq 1 .. AclMax
        /\ listed = {acls[i] : i \in DOMAIN acls} /\ Listed' = {next[i] : i \in DOMAIN next}
    <2>1. \A list : Acceptable(list) => DOMAIN list \subseteq 1 .. AclMax
      <3> SUFFICES ASSUME NEW list, Acceptable(list) PROVE DOMAIN list \subseteq 1 .. AclMax
        BY Zenon
      <3>1. Len(list) <= AclMax /\ DOMAIN list = 1 .. Len(list) /\ Len(list) \in Nat
        BY ListShape, Zenon DEF Acceptable
      <3> QED
        BY <3>1, AclAssumption
    <2> QED
      BY <1>2, <1>3, <1>4, <2>1, Zenon DEF Listed
  <1>6. hits' \in [Listed' -> Nat]
    BY <1>3, <1>4, Zenon
  <1>7. ASSUME NEW i \in 1 .. AclMax
        PROVE  /\ counters'[i] \in Nat
               /\ counters'[i] = IF i \in DOMAIN next THEN hits'[next[i]] ELSE 0
    <2>1. CASE i \in DOMAIN next /\ \E j \in DOMAIN acls : acls[j] = next[i]
      <3> DEFINE j == CHOOSE j \in DOMAIN acls : acls[j] = next[i]
      <3>1. j \in DOMAIN acls /\ acls[j] = next[i]
        BY <2>1, Zenon
      <3>2. counters'[i] = counters[j]
        BY <1>4, <2>1, Zenon DEF Migrated
      <3> HIDE DEF j
      <3>3. next[i] \in listed /\ next[i] \in Listed' /\ j \in 1 .. AclMax
        BY <1>5, <2>1, <3>1, Zenon
      <3>4. hits'[next[i]] = hits[next[i]] /\ counters[j] = hits[next[i]]
        BY <1>3, <1>4, <3>1, <3>3, Zenon
      <3> QED
        BY <1>3, <2>1, <3>2, <3>3, <3>4, Zenon
    <2>2. CASE i \in DOMAIN next /\ ~\E j \in DOMAIN acls : acls[j] = next[i]
      <3>1. next[i] \notin listed /\ next[i] \in Listed'
        BY <1>5, <2>2, Zenon
      <3> QED
        BY <1>4, <2>2, <3>1, Zenon DEF Migrated
    <2>3. CASE i \notin DOMAIN next
      BY <1>4, <2>3, Zenon DEF Migrated
    <2> QED
      BY <2>1, <2>2, <2>3, Zenon
  <1>8. counters' \in [1 .. AclMax -> Nat]
    <2>1. DOMAIN counters' = 1 .. AclMax /\ counters' = [i \in 1 .. AclMax |-> counters'[i]]
      BY <1>4, Zenon DEF Migrated
    <2> QED
      BY <1>7, <2>1, Zenon
  <1>9. Acceptable(acls)'
    BY <1>3, <1>4, Zenon DEF Acceptable, Valid
  <1>10. CountersFollowRules'
    BY <1>4, <1>7, Zenon DEF CountersFollowRules
  <1> QED
    BY <1>4, <1>6, <1>8, <1>9, <1>10, Zenon DEF AclInv

(* The access list's invariant holds in every reachable state.             *)
THEOREM AclInvariant == AclSpec => []AclInv
  <1>1. AclInit => AclInv
    <2> SUFFICES ASSUME AclInit PROVE AclInv
      BY Zenon
    <2>1. /\ acls = <<>> /\ candidate = NoList /\ counters = [i \in 1 .. AclMax |-> 0]
          /\ DOMAIN acls = {}
      BY DEF AclInit, NoCounts
    <2>2. Listed = {} /\ hits \in [Listed -> Nat]
      BY <2>1, Zenon DEF AclInit, Listed
    <2>3. Acceptable(acls)
      BY <2>1, AclAssumption DEF Acceptable, Valid
    <2> QED
      BY <2>1, <2>2, <2>3, Zenon DEF AclInv, CountersFollowRules
  <1>2. AclInv /\ [AclNext]_aclVars => AclInv'
    <2> SUFFICES ASSUME AclInv, [AclNext]_aclVars PROVE AclInv'
      BY Zenon
    <2>1. /\ acls \in Seq(Rule)
          /\ AclRules \subseteq Rule
      BY AclAssumption, Zenon DEF AclInv, Acceptable, Rule
    <2>2. ASSUME NEW r \in AclRules, AddAcl(r)
          PROVE  AclInv'
      <3>1. Append(acls, r) \in Seq(Rule)
        BY <2>1
      <3> QED
        BY <2>2, <3>1, SortedShape, ProposeKeeps, Zenon DEF AddAcl
    <2>3. ASSUME NEW r \in AclRules, RemoveAcl(r.pref)
          PROVE  AclInv'
      <3>1. PICK i \in DOMAIN acls : ProposeAcl(RemoveAt(acls, i), default_drop)
        BY <2>3, Zenon DEF RemoveAcl
      <3>2. RemoveAt(acls, i) \in Seq(Rule)
        <4>1. Len(acls) \in Nat /\ DOMAIN acls = 1 .. Len(acls) /\ i \in 1 .. Len(acls)
          BY <2>1
        <4>2. SubSeq(acls, 1, i - 1) \in Seq(Rule) /\ SubSeq(acls, i + 1, Len(acls)) \in Seq(Rule)
          BY <2>1, <4>1
        <4> QED
          BY <4>2 DEF RemoveAt
      <3> QED
        BY <3>1, <3>2, ProposeKeeps, Zenon
    <2>4. ASSUME NEW drop \in BOOLEAN, Default(drop)
          PROVE  AclInv'
      BY <2>1, <2>4, ProposeKeeps, Zenon DEF Default
    <2>5. ASSUME NEW drop \in BOOLEAN, NEW r \in AclRules, NEW q \in AclRules, Apply(<<r, q>>, drop)
          PROVE  AclInv'
      <3>1. <<r, q>> \in Seq(Rule)
        BY <2>1
      <3> QED
        BY <2>5, <3>1, SortedShape, ProposeKeeps, Zenon DEF Apply
    <2>6. CASE FlushAcl
      <3>1. <<>> \in Seq(Rule)
        OBVIOUS
      <3> QED
        BY <2>6, <3>1, ProposeKeeps, Zenon DEF FlushAcl
    <2>7. CASE Elsewhere
      BY <2>1, <2>7, ProposeKeeps, Zenon DEF Elsewhere
    <2>8. CASE UNCHANGED aclVars
      <3>1. acls' = acls /\ candidate' = candidate /\ counters' = counters /\ hits' = hits
        BY <2>8, Zenon DEF aclVars
      <3>2. Listed' = Listed /\ (CountersFollowRules <=> CountersFollowRules')
        BY <3>1, Zenon DEF Listed, CountersFollowRules
      <3>3. Acceptable(acls)' /\ (candidate' # NoList => Acceptable(candidate[1])')
        <4>1. Acceptable(acls) /\ (candidate # NoList => Acceptable(candidate[1]))
          BY Zenon DEF AclInv
        <4>2. Acceptable(acls') /\ (candidate' # NoList => Acceptable(candidate'[1]))
          BY <3>1, <4>1, Zenon
        <4> QED
          BY <4>2, Zenon DEF Acceptable, Valid
      <3> QED
        BY <3>1, <3>2, <3>3, Zenon DEF AclInv
    <2> QED
      BY <2>2, <2>3, <2>4, <2>5, <2>6, <2>7, <2>8, AccountKeeps, ActivateKeeps, Zenon DEF AclNext
  <1> QED
    BY <1>1, <1>2, PTL DEF AclSpec

(* The counter at a rule's position counts the packets that the rule       *)
(* decided, through every change of the list, for every set of rules and   *)
(* packets.                                                                *)
THEOREM CountersStayWithRules == AclSpec => []CountersFollowRules
  <1>1. AclInv => CountersFollowRules
    BY Zenon DEF AclInv
  <1> QED
    BY <1>1, AclInvariant, PTL
=============================================================================
