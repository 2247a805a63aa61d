----------------------------- MODULE AccessList -----------------------------
(***************************************************************************)
(* The packet filter: the access list of the published configuration, how  *)
(* administrators change it (the ADM_ACL part of admin_mutate,             *)
(* src/admin_state.c), which rule a packet meets, and the counters, which  *)
(* belong to the worker and have one place for each position of the list   *)
(* (src/net_config.c).  The control thread builds the changed list from a  *)
(* copy; packets pass under the old one until the worker activates it and  *)
(* moves the counters of the rules that stay (net_acl_counters_migrate).   *)
(*                                                                         *)
(* A rule tests a protocol and a range of destination ports; the tests of  *)
(* addresses, interface and source ports have the same form.               *)
(***************************************************************************)
EXTENDS Integers, Sequences, SequencesExt, FiniteSets, FiniteSetsExt

CONSTANTS AclMax,       \* NET_ACL_MAX
          AclRules,     \* rules that administrators ask for
          AclPackets,   \* struct acl_key of the packets that arrive
          MaxPackets    \* bound of the model: packets classified

ASSUME AclAssumption ==
    /\ AclMax \in Nat
    /\ AclRules \subseteq [pref : Nat, proto : Nat, ports : BOOLEAN, min : Nat, max : Nat, drop : BOOLEAN]
    /\ AclPackets \subseteq [proto : Nat, ports_valid : BOOLEAN, port : Nat]

NoList == <<"no list">>   \* no change is under way

VARIABLES acls,           \* network->acls, in order
          default_drop,   \* network->default_drop
          candidate,      \* the list and the default under construction, or NoList
          counters,       \* acl_stats.rules, by position
          hits            \* history: the packets that each rule of the list has met

aclVars == <<acls, default_drop, candidate, counters, hits>>

Listed == {acls[i] : i \in DOMAIN acls}
NoCounts == [i \in 1 .. AclMax |-> 0]

AclInit ==
    /\ acls = <<>> /\ default_drop = FALSE
    /\ candidate = NoList
    /\ counters = NoCounts
    /\ hits = [r \in {} |-> 0]

-----------------------------------------------------------------------------
(* The control thread. *)

\* qsort() by acl_compare: the lists it may leave.  Which of two rules of equal
\* preference comes first is up to qsort; net_config_validate refuses them both ways.
Sorted(list) ==
    {s \in {[i \in DOMAIN list |-> list[p[i]]] : p \in Bijection(DOMAIN list, DOMAIN list)} :
        \A i \in DOMAIN s : i > 1 => s[i - 1].pref <= s[i].pref}

\* net_config_validate(), the part on access lists.
Valid(list) ==
    /\ \A i \in DOMAIN list : list[i].ports => list[i].proto \in {6, 17}
    /\ \A i \in DOMAIN list : list[i].min <= list[i].max
    /\ \A i \in DOMAIN list : i > 1 => list[i - 1].pref < list[i].pref

\* admin_mutate() has built a list from the copy and net_config_prepare() accepts it.
ProposeAcl(list, drop) ==
    /\ candidate = NoList
    /\ Len(list) <= AclMax /\ Valid(list)
    /\ candidate' = <<list, drop>>
    /\ UNCHANGED <<acls, default_drop, counters, hits>>

AddAcl(rule) ==
    /\ \A r \in Listed : r.pref # rule.pref
    /\ \E list \in Sorted(Append(acls, rule)) : ProposeAcl(list, default_drop)

RemoveAcl(pref) ==
    \E i \in DOMAIN acls :
        acls[i].pref = pref /\ ProposeAcl(RemoveAt(acls, i), default_drop)

FlushAcl == ProposeAcl(<<>>, default_drop)

Default(drop) == ProposeAcl(acls, drop)

Apply(list, drop) == \E sorted \in Sorted(list) : ProposeAcl(sorted, drop)

\* A change of addresses, routes or rules leaves the access list as it is.
Elsewhere == ProposeAcl(acls, default_drop)

-----------------------------------------------------------------------------
(* The worker. *)

Meets(rule, p) ==
    /\ rule.proto \in {0, p.proto}
    /\ rule.ports => p.ports_valid /\ p.port \in rule.min .. rule.max

\* net_acl_classify(): the position of the rule, 0 for none.
Classify(p) ==
    LET met == {i \in DOMAIN acls : Meets(acls[i], p)}
    IN  IF met = {} THEN 0 ELSE Min(met)

\* The rule that a packet should meet: of those it matches the one preferred most.
Preferred(p) == {r \in Listed : Meets(r, p) /\ \A q \in Listed : Meets(q, p) => r.pref <= q.pref}

Counted == MapThenSumSet(LAMBDA i : counters[i], DOMAIN counters)

\* net_acl_account(), for a packet that meets a rule; one that meets none changes
\* only the totals.
Account(p) ==
    LET i == Classify(p) IN
    /\ Counted < MaxPackets /\ i # 0
    /\ counters' = [counters EXCEPT ![i] = @ + 1]
    /\ hits' = [r \in Listed |-> IF r \in Preferred(p) THEN hits[r] + 1 ELSE hits[r]]
    /\ UNCHANGED <<acls, default_drop, candidate>>

\* A mutant: counters stay with the position.
ByPosition(old, next) == [i \in 1 .. AclMax |-> IF i \in DOMAIN next THEN counters[i] ELSE 0]

\* net_acl_counters_migrate()
Migrated(old, next) ==
    [i \in 1 .. AclMax |->
        IF i \in DOMAIN next /\ \E j \in DOMAIN old : old[j] = next[i]
        THEN counters[CHOOSE j \in DOMAIN old : old[j] = next[i]] ELSE 0]

\* admin_progress(), ADMIN_ACTIVATE
ActivateAcl ==
    /\ candidate # NoList
    /\ counters' = Migrated(acls, candidate[1])
    /\ acls' = candidate[1] /\ default_drop' = candidate[2]
    /\ candidate' = NoList
    /\ hits' = [r \in Listed' |-> IF r \in Listed THEN hits[r] ELSE 0]

AclNext ==
    \/ \E r \in AclRules : AddAcl(r) \/ RemoveAcl(r.pref)
    \/ \E drop \in BOOLEAN :
           Default(drop) \/ \E r, q \in AclRules : Apply(<<r, q>>, drop)
    \/ FlushAcl \/ Elsewhere \/ ActivateAcl
    \/ \E p \in AclPackets : Account(p)

AclSpec == AclInit /\ [][AclNext]_aclVars

-----------------------------------------------------------------------------
(* Properties. *)

\* The counter at a rule's position has counted the packets that the rule decided
\* since it was added, whatever was inserted, removed or applied around it and
\* whatever arrived while a change was under way; of the rules that a packet
\* matches, the one preferred most decides (net_acl_classify, qsort,
\* net_acl_counters_migrate).
CountersFollowRules ==
    \A i \in 1 .. AclMax :
        counters[i] = IF i \in DOMAIN acls THEN hits[acls[i]] ELSE 0
=============================================================================
