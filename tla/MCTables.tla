------------------------------ MODULE MCTables ------------------------------
(***************************************************************************)
(* The tables of the worker for TLC: sockets, addresses and routes, access *)
(* rules, and the ICMP error budget.  They share no state, so a behaviour  *)
(* runs one of them, and the others stay as they start.                    *)
(***************************************************************************)
EXTENDS SocketTable, RouteConfig, AccessList, IcmpRate

VARIABLE part   \* the table that runs

tableVars == <<socketVars, routeVars, aclVars, rateVars, part>>

\* Two networks of half the addresses each, one on each interface; the first may
\* shrink.
Address(ip, prefix, dev) == [ip |-> ip, prefix |-> prefix, dev |-> dev]
MCStartAddresses == <<Address(1, 1, 0), Address(5, 1, 1)>>
MCAddresses == {Address(1, 2, 0)}

\* A default route and a black hole in the main table, a default route and a
\* direct one in another.
Route(ip, prefix, gateway, dev, tab, type) ==
    [ip |-> ip, prefix |-> prefix, gateway |-> gateway, dev |-> dev, table |-> tab, type |-> type,
     connected |-> FALSE]
MCStartRoutes == {<<Route(0, 0, 2, 0, MainTable, Unicast)>>}
MCRoutes ==
    {Route(0, 0, 2, 0, MainTable, Unicast), Route(4, 2, NoIp, 0, MainTable, "blackhole"),
     Route(0, 0, 6, 1, 10, Unicast), Route(4, 2, NoIp, 1, 10, Unicast)}

\* One rule by source, and one by destination and interface.
MCRules ==
    {[pref |-> 1, src |-> 4, src_prefix |-> 1, dst |-> 0, dst_prefix |-> 0, iif |-> NoDev,
      table |-> 10, type |-> Unicast],
     [pref |-> 2, src |-> 0, src_prefix |-> 0, dst |-> 4, dst_prefix |-> 1, iif |-> 0,
      table |-> 10, type |-> "prohibit"]}

\* Access rules that overlap, two of them at one preference; packets with ports and,
\* as a fragment, without.
AclRule(pref, proto, ports, min, max, drop) ==
    [pref |-> pref, proto |-> proto, ports |-> ports, min |-> min, max |-> max, drop |-> drop]
MCAclRules == {AclRule(1, 17, TRUE, 1, 1, TRUE), AclRule(2, 17, FALSE, 0, 0, FALSE),
               AclRule(2, 0, FALSE, 0, 0, TRUE), AclRule(3, 6, TRUE, 1, 2, TRUE)}
MCAclPackets == [proto : {6, 17}, ports_valid : {TRUE}, port : {1, 2}]
                    \cup [proto : {17}, ports_valid : {FALSE}, port : {0}]

\* The local addresses of sockets are only compared.
Symmetry == Permutations(LocalIps)

\* While another table runs there is no route, and a change waits for its activation.
NoRoutes ==
    /\ published = [addresses |-> <<>>, routes |-> <<>>, rules |-> <<>>, index |-> <<>>]
    /\ proposal = {published} /\ up = {} /\ bound = {}

TablesInit ==
    /\ part \in {"sockets", "routes", "acl", "rate"}
    /\ SocketInit /\ AclInit
    /\ IF part = "routes" THEN RouteInit ELSE NoRoutes
    /\ RateInit /\ (part # "rate" => clock = 0)

\* Three sockets at a time when all are streams, else two.
FewSockets ==
    \/ \A i \in Positions : table'[i].type \in {"none", "stream"}
    \/ Cardinality({i \in Positions : table'[i].allocated}) <= 2

TablesNext ==
    \/ part = "sockets" /\ SocketNext /\ FewSockets /\ UNCHANGED <<routeVars, aclVars, rateVars, part>>
    \/ part = "routes" /\ RouteNext /\ UNCHANGED <<socketVars, aclVars, rateVars, part>>
    \/ part = "acl" /\ AclNext /\ UNCHANGED <<socketVars, routeVars, rateVars, part>>
    \/ part = "rate" /\ RateNext /\ UNCHANGED <<socketVars, routeVars, aclVars, part>>

TablesSpec == TablesInit /\ [][TablesNext]_tableVars
=============================================================================
