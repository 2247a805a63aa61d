---------------------------- MODULE RouteConfig ----------------------------
(***************************************************************************)
(* Addresses, routes and policy rules: how a configuration is built at     *)
(* start-up and changed by administrators (src/net_config.c and the        *)
(* address, route and rule parts of admin_mutate, src/admin_state.c), how  *)
(* the worker activates it (src/admin_worker.c), and how a packet is       *)
(* routed by it (src/policy_route.c, src/net_prefix.c).                    *)
(*                                                                         *)
(* The control thread builds a candidate from a copy of the published      *)
(* configuration.  The worker goes on meanwhile: sockets are bound and     *)
(* closed until it activates or refuses the candidate.  Links change in    *)
(* jobs of the same mailbox, hence not while a candidate is under way.     *)
(*                                                                         *)
(* An address is a number of Width bits, as in host byte order.            *)
(***************************************************************************)
EXTENDS Integers, Sequences, SequencesExt, FiniteSets, FiniteSetsExt, TLC

CONSTANTS Width,          \* 32
          Unicasts,       \* the addresses that net_unicast() accepts
          Devs,           \* interfaces
          AddrMax, RouteMax, RuleMax,   \* NET_ADDR_MAX, NET_ROUTE_MAX, NET_RULE_MAX
          StartAddresses, \* an address for each interface, from the configuration file
          StartRoutes,    \* sequences of routes that the file may have
          Addresses,      \* addresses, routes and rules that administrators ask for
          Routes, Rules

Ips == 0 .. 2 ^ Width - 1
NoIp == 0        \* no gateway, no source address
NoDev == -1      \* NET_IIF_NONE, no device given
MainTable == 254
DefaultTable == 253
LocalTable == 255
Unicast == "unicast"
Actions == {"blackhole", "unreachable", "prohibit"}

ASSUME RouteAssumption ==
    /\ Width \in Nat \ {0} /\ Unicasts \subseteq Ips \ {NoIp}
    /\ AddrMax \in Nat /\ RouteMax \in Nat /\ RuleMax \in Nat

VARIABLES published,   \* rt->network
          proposal,    \* the candidate under way, as a set of at most one
          up,          \* interfaces that are started and not administratively down
          bound        \* local addresses to which sockets are bound

routeVars == <<published, proposal, up, bound>>

-----------------------------------------------------------------------------
(* Prefixes: src/net_prefix.c. *)

Span(prefix) == 2 ^ (Width - prefix)

\* ip & net_mask(prefix)
Network(ip, prefix) == ip - (ip % Span(prefix))

NetMatch(ip, network, prefix) == Network(ip, prefix) = network
PrefixValid(ip, prefix) == Network(ip, prefix) = ip

\* net_host(): neither the network nor the broadcast address of the prefix.
NetHost(ip, prefix) ==
    prefix >= Width - 1 \/ ip % Span(prefix) \notin {0, Span(prefix) - 1}

-----------------------------------------------------------------------------
(* Building a configuration: src/net_config.c. *)

OnLink(a) ==
    [ip |-> Network(a.ip, a.prefix), prefix |-> a.prefix, gateway |-> NoIp, dev |-> a.dev,
     table |-> MainTable, type |-> Unicast, connected |-> TRUE]

\* The routes that stay when the connected ones are taken out.
Unconnected(routes) == SelectSeq(routes, LAMBDA r : ~r.connected)

\* net_connected_rebuild(): the routes it leaves.
Rebuilt(addresses, routes) ==
    FoldLeft(LAMBDA rs, a : IF \E i \in DOMAIN rs : rs[i] = OnLink(a)
                            THEN rs ELSE Append(rs, OnLink(a)),
             Unconnected(routes), addresses)

\* net_config_validate() on the addresses.
AddressesValid(as) ==
    /\ Len(as) <= AddrMax
    /\ \A i \in DOMAIN as :
           /\ as[i].ip \in Unicasts /\ NetHost(as[i].ip, as[i].prefix)
           /\ \A j \in 1 .. i - 1 : as[j].ip # as[i].ip

\* A mutant: a gateway is not checked against the addresses that are left.
GatewayUnchecked(r, as, rs) == TRUE

\* net_config_validate() on the gateway of a route: a host on the route's device,
\* by an address or by a direct route of the same table.
GatewayValid(r, as, rs) ==
    LET on(i) == NetMatch(r.gateway, Network(as[i].ip, as[i].prefix), as[i].prefix)
    IN  /\ r.gateway \in Unicasts
        /\ \A i \in DOMAIN as :
               as[i].ip # r.gateway /\ (on(i) => NetHost(r.gateway, as[i].prefix))
        /\ \/ \E i \in DOMAIN as : as[i].dev = r.dev /\ on(i) /\ NetHost(r.gateway, as[i].prefix)
           \/ \E i \in DOMAIN rs :
                  /\ rs[i].table = r.table /\ rs[i].dev = r.dev
                  /\ rs[i].type = Unicast /\ rs[i].gateway = NoIp
                  /\ NetMatch(r.gateway, rs[i].ip, rs[i].prefix) /\ NetHost(r.gateway, rs[i].prefix)

\* net_config_validate() on the routes.  Two interfaces may be on one network.
RoutesValid(as, rs) ==
    /\ Len(rs) <= RouteMax
    /\ \A i \in DOMAIN rs :
           LET r == rs[i] IN
           /\ PrefixValid(r.ip, r.prefix) /\ r.table # LocalTable
           /\ r.type = Unicast => r.dev \in Devs
           /\ r.type # Unicast => r.gateway = NoIp
           /\ \A j \in 1 .. i - 1 :
                  <<r.table, r.ip, r.prefix>> = <<rs[j].table, rs[j].ip, rs[j].prefix>>
                      => r.connected /\ rs[j].connected /\ r.dev # rs[j].dev
           /\ r.gateway # NoIp => GatewayValid(r, as, rs)

\* net_config_validate() on the rules.
RulesValid(us) ==
    /\ Len(us) <= RuleMax
    /\ \A i \in DOMAIN us :
           /\ PrefixValid(us[i].src, us[i].src_prefix) /\ PrefixValid(us[i].dst, us[i].dst_prefix)
           /\ us[i].type = Unicast => us[i].table # LocalTable
           /\ i > 1 => us[i - 1].pref < us[i].pref

\* A mutant: shorter prefixes come first.
ShorterFirst(rs, i, j) ==
    \/ rs[i].table < rs[j].table
    \/ rs[i].table = rs[j].table /\ rs[i].prefix < rs[j].prefix
    \/ rs[i].table = rs[j].table /\ rs[i].prefix = rs[j].prefix /\ i < j

\* route_order(): by table, the longer prefix first, then by number.
RouteOrder(rs, i, j) ==
    \/ rs[i].table < rs[j].table
    \/ rs[i].table = rs[j].table /\ rs[i].prefix > rs[j].prefix
    \/ rs[i].table = rs[j].table /\ rs[i].prefix = rs[j].prefix /\ i < j

\* net_config_prepare(): more than two routes are indexed.
Index(rs) ==
    IF Len(rs) <= 2 THEN <<>>
    ELSE SortSeq([i \in DOMAIN rs |-> i], LAMBDA i, j : RouteOrder(rs, i, j))

\* net_config_prepare(): the configurations it accepts, with their index; <<>> stands
\* for routes_indexed = 0.
Prepared(as, rs, us) ==
    IF AddressesValid(as) /\ RoutesValid(as, rs) /\ RulesValid(us)
    THEN {[addresses |-> as, routes |-> rs, rules |-> us, index |-> Index(rs)]}
    ELSE {}

\* net_config_init()
RouteInit ==
    /\ \E rs \in StartRoutes :
           published \in Prepared(StartAddresses, Rebuilt(StartAddresses, rs), <<>>)
    /\ proposal = {}
    /\ up = Devs
    /\ bound = {}

-----------------------------------------------------------------------------
(* The control thread: admin_mutate(), src/admin_state.c. *)

\* The changed copy becomes the candidate if net_config_prepare() accepts it.
Propose(as, rs, us) ==
    /\ proposal = {}
    /\ Prepared(as, rs, us) # {}
    /\ proposal' = Prepared(as, rs, us)
    /\ UNCHANGED <<published, up, bound>>

ProposeAddresses(as) == Propose(as, Rebuilt(as, published.routes), published.rules)
ProposeRoutes(rs) == Propose(published.addresses, rs, published.rules)
ProposeRules(us) == Propose(published.addresses, published.routes, us)

AddressAt(a) ==
    {i \in DOMAIN published.addresses :
        published.addresses[i].ip = a.ip /\ published.addresses[i].dev = a.dev}

AddAddress(a) ==
    /\ AddressAt(a) = {}
    /\ ProposeAddresses(Append(published.addresses, a))

ReplaceAddress(a) ==
    \E i \in AddressAt(a) : ProposeAddresses([published.addresses EXCEPT ![i] = a])

RemoveAddress(a) ==
    \E i \in AddressAt(a) :
        /\ published.addresses[i].prefix = a.prefix
        /\ ProposeAddresses(RemoveAt(published.addresses, i))

FlushAddresses(dev) == ProposeAddresses(SelectSeq(published.addresses, LAMBDA a : a.dev # dev))

\* The first route of the same table and prefix: none or one.
RouteAt(r) ==
    LET same == {i \in DOMAIN published.routes :
                    <<published.routes[i].table, published.routes[i].ip, published.routes[i].prefix>>
                        = <<r.table, r.ip, r.prefix>>}
    IN  {i \in same : i = Min(same)}

\* A route through an interface is accepted while the interface is up.
AddRoute(r) ==
    /\ RouteAt(r) = {}
    /\ r.type = Unicast => r.dev \in up
    /\ ProposeRoutes(Append(published.routes, r))

ReplaceRoute(r) ==
    \E i \in RouteAt(r) :
        /\ ~published.routes[i].connected
        /\ r.type = Unicast => r.dev \in up
        /\ ProposeRoutes([published.routes EXCEPT ![i] = r])

RemoveRoute(r) ==
    \E i \in RouteAt(r) :
        ~published.routes[i].connected /\ ProposeRoutes(RemoveAt(published.routes, i))

FlushRoutes(table) ==
    ProposeRoutes(SelectSeq(published.routes, LAMBDA r : r.table # table \/ r.connected))

AddRule(u) ==
    /\ \A i \in DOMAIN published.rules : published.rules[i].pref # u.pref
    /\ ProposeRules(SortSeq(Append(published.rules, u), LAMBDA v, w : v.pref < w.pref))

RemoveRule(u) ==
    /\ \E i \in DOMAIN published.rules : published.rules[i].pref = u.pref
    /\ ProposeRules(SelectSeq(published.rules, LAMBDA v : v.pref # u.pref))

FlushRules == ProposeRules(<<>>)

-----------------------------------------------------------------------------
(* The worker. *)

IpsOf(c) == {c.addresses[i].ip : i \in DOMAIN c.addresses}

\* A mutant: the sockets are not looked at.
BindingIgnored(c) == FALSE

\* removed_binding()
RemovedBinding(c) == ~(bound \subseteq IpsOf(c))

\* admin_progress(), ADMIN_ACTIVATE; a candidate that takes the address of a socket
\* away is refused.
Activate ==
    /\ proposal # {}
    /\ published' = IF RemovedBinding(CHOOSE c \in proposal : TRUE)
                    THEN published ELSE CHOOSE c \in proposal : TRUE
    /\ proposal' = {}
    /\ UNCHANGED <<up, bound>>

\* admin_worker_operation(), link up and down
SetLink(dev) ==
    /\ proposal = {}
    /\ up' = IF dev \in up THEN up \ {dev} ELSE up \cup {dev}
    /\ UNCHANGED <<published, proposal, bound>>

\* socket_bind() to an address, tcp_connect() and passive_open(): only to a local one;
\* and the end of the last such socket.
BindSocket(ip) ==
    /\ ip \in IpsOf(published) \ bound
    /\ bound' = bound \cup {ip}
    /\ UNCHANGED <<published, proposal, up>>

CloseSocket(ip) ==
    /\ bound' = bound \ {ip} /\ ip \in bound
    /\ UNCHANGED <<published, proposal, up>>

-----------------------------------------------------------------------------
(* Routing a packet: src/policy_route.c. *)

\* What a query answers: a reason to drop the packet, or where it goes.
Dropped(reason, pref) == [reason |-> reason, pref |-> pref]
Routed(dev, next, source, pref) ==
    [reason |-> "none", dev |-> dev, next |-> next, source |-> source, pref |-> pref]
NoRoute == Dropped("no route", 0)

\* netif_by_id(), started and admin_down; the other types need no interface.
Usable(r) == r.type # Unicast \/ r.dev \in up

\* table_lookup(): the binary search for the first entry of a table; how many come
\* before it.
Begin(table) ==
    LET n == Len(published.index)
        search[begin \in 0 .. n, end \in 0 .. n] ==
            LET mid == begin + (end - begin) \div 2
            IN  IF begin >= end THEN begin
                ELSE IF published.routes[published.index[mid + 1]].table < table
                THEN search[mid + 1, end] ELSE search[begin, mid]
    IN  search[0, n]

\* table_lookup() by the index: the first entry of the table that matches and can be
\* used, up to the first entry of another table; 0 for none.
Indexed(table, dst) ==
    LET route(i) == published.routes[published.index[i]]
        begin == Begin(table)
        run == {i \in begin + 1 .. Len(published.index) :
                   \A j \in begin + 1 .. i : route(j).table = table}
        fit == {i \in run : NetMatch(dst, route(i).ip, route(i).prefix) /\ Usable(route(i))}
    IN  IF fit = {} THEN 0 ELSE published.index[Min(fit)]

\* table_lookup() without an index: the loop over all routes.
Linear(table, dst) ==
    FoldLeft(LAMBDA best, i :
                 LET r == published.routes[i] IN
                 IF /\ r.table = table /\ NetMatch(dst, r.ip, r.prefix)
                    /\ best # 0 => r.prefix > published.routes[best].prefix
                    /\ Usable(r)
                 THEN i ELSE best,
             0, [i \in DOMAIN published.routes |-> i])

\* net_source(): of the interface's addresses the one nearest to dst, else the first.
NetSource(dev, dst) ==
    LET as == SelectSeq(published.addresses, LAMBDA a : a.dev = dev)
        match == {i \in DOMAIN as : NetMatch(dst, Network(as[i].ip, as[i].prefix), as[i].prefix)}
        best == {i \in match : \A j \in match : as[j].prefix <= as[i].prefix}
    IN  IF as = <<>> THEN NoIp ELSE IF best = {} THEN as[1].ip ELSE as[Min(best)].ip

\* table_lookup(): what follows from the route it has found.
RouteAnswer(route, dst, src, pref) ==
    LET r == published.routes[route]
        next == IF r.gateway # NoIp THEN r.gateway ELSE dst
        source == IF src # NoIp THEN src ELSE NetSource(r.dev, next)
    IN  CASE r.type # Unicast -> Dropped(r.type, pref)
          [] r.type = Unicast /\ r.gateway = NoIp /\ ~NetHost(dst, r.prefix) ->
               Dropped("invalid destination", pref)
          [] OTHER -> IF source = NoIp THEN Dropped("invalid egress", pref)
                      ELSE Routed(r.dev, next, source, pref)

TableLookup(table, dst, src, pref) ==
    LET best == IF published.index # <<>> THEN Indexed(table, dst) ELSE Linear(table, dst)
    IN  IF best = 0 THEN NoRoute ELSE RouteAnswer(best, dst, src, pref)

\* ipv4_destination_valid()
DestinationValid(dst) ==
    /\ dst \in Unicasts \ IpsOf(published)
    /\ \A i \in DOMAIN published.addresses :
           LET a == published.addresses[i]
           IN  NetMatch(dst, Network(a.ip, a.prefix), a.prefix) => NetHost(dst, a.prefix)

RuleMatches(u, dst, src, iif) ==
    NetMatch(src, u.src, u.src_prefix) /\ NetMatch(dst, u.dst, u.dst_prefix) /\ u.iif \in {NoDev, iif}

\* What follows when a table answers: its answer, or the next choice if it has none.
OrElse(answer, next) == IF answer # NoRoute THEN answer ELSE next

\* The rules in their order, then the main and the default table.
ByPolicy(dst, src, iif) ==
    LET from[i \in 1 .. Len(published.rules) + 1] ==
            LET u == published.rules[i]
            IN  IF i > Len(published.rules)
                THEN OrElse(TableLookup(MainTable, dst, src, 32766),
                            TableLookup(DefaultTable, dst, src, 32767))
                ELSE IF ~RuleMatches(u, dst, src, iif) THEN from[i + 1]
                ELSE IF u.type # Unicast THEN Dropped(u.type, u.pref)
                ELSE OrElse(TableLookup(u.table, dst, src, u.pref), from[i + 1])
    IN  from[1]

\* ipv4_route_query()
Query(dst, src, iif) ==
    LET local == {i \in DOMAIN published.addresses : published.addresses[i].ip = dst}
    IN  IF local # {} THEN Routed(published.addresses[Min(local)].dev, dst, dst, 0)
        ELSE IF ~DestinationValid(dst) THEN Dropped("invalid destination", 0)
        ELSE ByPolicy(dst, src, iif)

-----------------------------------------------------------------------------
RouteNext ==
    \/ \E a \in Addresses :
           AddAddress(a) \/ ReplaceAddress(a) \/ RemoveAddress(a)
    \/ \E r \in Routes : AddRoute(r) \/ ReplaceRoute(r) \/ RemoveRoute(r)
    \/ \E u \in Rules : AddRule(u) \/ RemoveRule(u)
    \/ \E dev \in Devs : FlushAddresses(dev) \/ SetLink(dev)
    \/ \E table \in {r.table : r \in Routes} : FlushRoutes(table)
    \/ FlushRules \/ Activate
    \/ \E ip \in Ips : BindSocket(ip) \/ CloseSocket(ip)

RouteSpec == RouteInit /\ [][RouteNext]_routeVars

-----------------------------------------------------------------------------
(* Properties. *)

\* The routes of a table that a packet may take: those with the longest prefix among
\* the routes that match and can be used, the one with the lowest number.
Longest(table, dst) ==
    LET fit == {i \in DOMAIN published.routes :
                   LET r == published.routes[i]
                   IN  r.table = table /\ NetMatch(dst, r.ip, r.prefix) /\ Usable(r)}
        best == {i \in fit : \A j \in fit : published.routes[j].prefix <= published.routes[i].prefix}
    IN  {i \in best : i = Min(best)}

\* The policies in force for a packet, by preference: an action, or a table.
Policies(dst, src, iif) ==
    [p \in {32766, 32767} \cup {u.pref : u \in {v \in ToSet(published.rules) : RuleMatches(v, dst, src, iif)}} |->
        CASE p = 32766 -> [table |-> MainTable, type |-> Unicast]
          [] p = 32767 -> [table |-> DefaultTable, type |-> Unicast]
          [] OTHER -> CHOOSE u \in ToSet(published.rules) : u.pref = p]

\* Routing as it is meant: the first policy that is an action or has a route.
Meant(dst, src, iif) ==
    LET policies == Policies(dst, src, iif)
        deciding == {p \in DOMAIN policies :
                        policies[p].type # Unicast \/ Longest(policies[p].table, dst) # {}}
        p == Min(deciding)
    IN  IF deciding = {} THEN NoRoute
        ELSE IF policies[p].type # Unicast THEN Dropped(policies[p].type, p)
        ELSE RouteAnswer(CHOOSE i \in Longest(policies[p].table, dst) : TRUE, dst, src, p)

\* Sources of packets: none yet, a local address, or somebody else's.
Sources == {NoIp} \cup IpsOf(published) \cup {Max(Unicasts)}

\* Every packet is routed by the longest usable prefix of the first table that has
\* one, in the order of the rules, whichever sequence of changes led to the tables
\* and whether they are searched through the index (net_config_prepare,
\* table_lookup, ipv4_route_query).  A query reads nothing of a candidate under way, so
\* the states without one are enough.
LongestPrefixWins ==
    \A dst \in Unicasts : proposal = {} /\ DestinationValid(dst) =>
        \A src \in Sources, iif \in Devs \cup {NoDev} :
            Query(dst, src, iif) = Meant(dst, src, iif)

\* net_direct()
NetDirect(dev, ip) ==
    \E i \in DOMAIN published.routes :
        LET r == published.routes[i]
        IN  /\ r.dev = dev /\ r.type = Unicast /\ r.gateway = NoIp
            /\ NetMatch(ip, r.ip, r.prefix) /\ NetHost(ip, r.prefix)

\* A packet that is routed to another host leaves through an interface that is up,
\* to a next hop that this interface reaches directly and that is not this host, with
\* a source address of this host: no change of addresses leaves a gateway behind
\* that cannot be resolved (net_config_validate, net_connected_rebuild).
NextHopReachable ==
    \A dst \in Unicasts \ IpsOf(published) :
        LET answer == Query(dst, NoIp, NoDev) IN
        answer.reason = "none" =>
            /\ answer.dev \in up /\ NetDirect(answer.dev, answer.next)
            /\ answer.next \notin IpsOf(published)
            /\ answer.source \in IpsOf(published)

\* A socket's address stays configured: neither the change that was prepared while
\* the socket was not bound yet nor a flush takes it away (removed_binding).
BoundAddressesStay == bound \subseteq IpsOf(published)
=============================================================================
