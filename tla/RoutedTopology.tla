--------------------------- MODULE RoutedTopology ---------------------------
(* How the APIC mechanism driver routes networks.  Each network is a
   bridge domain and an endpoint group under some tenant, in one VRF.
   When a router takes an interface on a subnet, the network leaves the
   "unrouted" VRF: for the VRF of the address scope of the subnet, or, if
   it has none, for the default VRF of a project that every network
   joined to it by unscoped interfaces must share.  That project is the
   owner of a shared network of the topology, when there is one: so one
   interface more, or one less, can move a whole topology from one tenant
   to another.  Routers with a gateway connect their VRFs to the external
   network.

   The driver works in the precommit hook of the port, one transaction;
   Neutron records the RouterPort row of a new interface, and the gateway
   of a router, in transactions of their own.  A worker is a server
   process in the middle of such a call. *)
EXTENDS FiniteSets, Naturals

CONSTANTS Projects, Networks, Subnets, Routers,
          Scopes,       \* address scopes
          Pools,        \* subnet pools
          ExtNets,      \* APIC external networks that routers use as gateway
          Workers,
          Owner,        \* the project of each network and of each router
          Shared,       \* the networks other projects can use
          NetworkOf,    \* the network of each subnet
          PoolOf,       \* the pool of each subnet, or None
          ScopeVrf,     \* the VRF of each scope; isomorphic scopes have the same
          Overlap,      \* pairs of subnets whose CIDRs overlap, both ways round
          None

ASSUME TopologyAssumption ==
  /\ Shared \subseteq Networks
  /\ Owner \in [Networks \cup Routers -> Projects]
  /\ NetworkOf \in [Subnets -> Networks]
  /\ PoolOf \in [Subnets -> Pools \cup {None}]
  /\ Overlap \subseteq Subnets \X Subnets
  /\ \A p \in Overlap : <<p[2], p[1]>> \in Overlap

DefaultVrf(p) == [tenant |-> p, name |-> "default"]
UnroutedVrf == [tenant |-> "common", name |-> "unrouted"]
DefaultVrfs == {DefaultVrf(p) : p \in Projects}
ScopeVrfs == {ScopeVrf[c] : c \in Scopes}
Vrfs == DefaultVrfs \cup ScopeVrfs \cup {UnroutedVrf}
Tenants == {v.tenant : v \in Vrfs} \cup Projects

\* There are finitely many rows, and None is none of them.  No project is called
\* "common"; an address scope has a VRF of its own, or one made outside Neutron, and
\* none that the driver makes for projects and for what is not routed.
ASSUME RoutingAssumption ==
  /\ IsFiniteSet(Networks) /\ IsFiniteSet(Subnets) /\ IsFiniteSet(Routers)
  /\ None \notin Scopes \cup Vrfs \cup ExtNets
  /\ None \notin [op : {"interface"}, port : Routers \X Subnets]
               \cup [op : {"gateway", "ungateway"}, router : Routers, ext : ExtNets]
  /\ "common" \notin Projects
  /\ ScopeVrfs \cap (DefaultVrfs \cup {UnroutedVrf}) = {}

VARIABLES
  scopes,     \* existing scopes
  scopeOf,    \* the scope of each pool, or None
  interfaces, \* RouterPort rows of interfaces: pairs <<router, subnet>>
  gateway,    \* the external network of each router, or None
  pending,    \* the call each worker is in the middle of, or None
  aim         \* the driver's mapping of networks, and its resources in AIM

vars == <<scopes, scopeOf, interfaces, gateway, pending, aim>>

RouterPorts == Routers \X Subnets

AimType ==
  [vrf : [Networks -> Vrfs \cup {None}],       \* None: no such network
   tenant : [Networks -> Tenants \cup {None}], \* of bridge domain and group
   contracts : [Networks -> SUBSET Routers],   \* provided by the group
   subnets : SUBSET (Routers \X Subnets \X Tenants), \* under that tenant
   vrfs : SUBSET (Vrfs \ {UnroutedVrf}),       \* default and scoped VRFs
   connected : [Vrfs \X ExtNets -> SUBSET Routers]] \* external contracts

TypeOK ==
  /\ scopes \subseteq Scopes
  /\ scopeOf \in [Pools -> Scopes \cup {None}]
  /\ interfaces \subseteq RouterPorts
  /\ gateway \in [Routers -> ExtNets \cup {None}]
  /\ pending \in [Workers ->
       [op : {"interface"}, port : RouterPorts]
       \cup [op : {"gateway", "ungateway"}, router : Routers, ext : ExtNets]
       \cup {None}]
  /\ aim \in AimType

Init ==
  /\ scopes = {}
  /\ scopeOf = [p \in Pools |-> None]
  /\ interfaces = {}
  /\ gateway = [r \in Routers |-> None]
  /\ pending = [w \in Workers |-> None]
  /\ aim = [vrf |-> [n \in Networks |-> None],
            tenant |-> [n \in Networks |-> None],
            contracts |-> [n \in Networks |-> {}],
            subnets |-> {}, vrfs |-> {},
            connected |-> [x \in Vrfs \X ExtNets |-> {}]]

--------------------
(* What the driver reads of the interfaces. *)

\* A subnet without a pool, or of a pool without a scope, has no scope.
ScopeOfSubnet(s) == IF PoolOf[s] = None THEN None ELSE scopeOf[PoolOf[s]]
Unscoped(s) == ScopeOfSubnet(s) = None

Isomorphic(c) == {d \in scopes : ScopeVrf[d] = ScopeVrf[c]}

InterfacesOf(n, ports) == {p \in ports : NetworkOf[p[2]] = n}
RoutersOn(n, ports) == {p[1] : p \in InterfacesOf(n, ports)}

\* Interfaces of the router in a scope, those of isomorphic scopes included.
InterfacesInScope(r, c, ports) ==
  {p \in ports : /\ p[1] = r
                 /\ IF c = None THEN Unscoped(p[2])
                                ELSE ScopeOfSubnet(p[2]) \in Isomorphic(c)}

\* From a network to every router on it, from a router to the networks of its
\* unscoped interfaces, until nothing is added.
ExpandForNetworks(nets, ports) == UNION {RoutersOn(n, ports) : n \in nets}
ExpandForRouters(rs, ports) ==
  {NetworkOf[p[2]] : p \in {q \in ports : q[1] \in rs /\ Unscoped(q[2])}}

\* One step of the walk: the networks next to these.
ExpandedOnce(nets, ports) ==
  nets \cup ExpandForRouters(ExpandForNetworks(nets, ports), ports)

Expanded(nets, ports) ==
  LET reach[k \in 0 .. Cardinality(Networks)] ==
        IF k = 0 THEN nets ELSE ExpandedOnce(reach[k - 1], ports)
  IN reach[Cardinality(Networks)]

NetworkTopology(n, ports) == Expanded({n}, ports)
RouterTopology(r, ports) == Expanded(ExpandForRouters({r}, ports), ports)

\* The default VRF of the first shared network of a topology or, when none is
\* shared, of the network given.
TopologyVrf(nets, n) ==
  DefaultVrf(Owner[IF nets \cap Shared = {} THEN n
                   ELSE CHOOSE m \in nets \cap Shared : TRUE])

\* The topology's first network, of whatever order the query returns.
RouterTopologyVrf(nets) == TopologyVrf(nets, CHOOSE m \in nets : TRUE)

\* Routers of a VRF: by the scopes mapped to it or, without any, by its
\* networks.
RoutersForVrf(v, map, ports) ==
  LET owners == {c \in scopes : ScopeVrf[c] = v}
  IN IF owners # {}
     THEN {p[1] : p \in {q \in ports : ScopeOfSubnet(q[2]) \in owners}}
     ELSE {p[1] : p \in {q \in ports : map[NetworkOf[q[2]]] = v}}

\* Mutant: the VRFs of the router's scopes only.
ScopedVrfsForRouter(r, map, ports) ==
  {ScopeVrf[ScopeOfSubnet(p[2])] : p \in {q \in ports : q[1] = r /\ ~Unscoped(q[2])}}

\* VRFs of a router: of its scopes, and of one of its unscoped interfaces.
VrfsForRouter(r, map, ports) ==
  LET mine == {p[2] : p \in {q \in ports : q[1] = r}}
      open == {NetworkOf[s] : s \in {t \in mine : Unscoped(t)}}
  IN {ScopeVrf[ScopeOfSubnet(s)] : s \in {t \in mine : ~Unscoped(t)}}
     \cup IF open = {} THEN {} ELSE {map[CHOOSE n \in open : TRUE]}

\* Mutant: the subnets being added are not looked at.
OverlapAmongRouted(v, map, ports, new) ==
  LET routed == {p[2] : p \in {q \in ports : map[NetworkOf[q[2]]] = v}}
  IN (routed \X routed) \cap Overlap # {}

\* Whether two routed subnets of a VRF overlap, the new ones included.
OverlapIn(v, map, ports, new) ==
  LET routed == {p[2] : p \in {q \in ports : map[NetworkOf[q[2]]] = v}} \cup new
  IN (routed \X routed) \cap Overlap # {}

--------------------
(* What the driver does to AIM: each returns the new value of aim. *)

Ensure(a, v) == [a EXCEPT !.vrfs = @ \cup {v}]

\* Mutant: a default VRF is never cleaned up.
KeepDefaultVrf(a, v) == a

Cleanup(a, v) ==
  IF \E n \in Networks : a.vrf[n] = v THEN a ELSE [a EXCEPT !.vrfs = @ \ {v}]

\* The bridge domain and the group of a network, to another VRF and tenant.
Remap(a, n, v, t) == [a EXCEPT !.vrf[n] = v, !.tenant[n] = t]

Associate(a, n, v) ==
  Remap(a, n, v, IF v.tenant = "common" THEN a.tenant[n] ELSE v.tenant)

Dissociate(a, n, old) ==
  Remap(a, n, UnroutedVrf, IF old.tenant = "common" THEN a.tenant[n] ELSE Owner[n])

\* Mutant: the bridge domain moves to the other tenant without its subnets.
MoveWithoutSubnets(a, nets, old, new) ==
  [a EXCEPT
     !.vrf = [n \in Networks |-> IF n \in nets THEN new ELSE @[n]],
     !.tenant = [n \in Networks |-> IF n \in nets THEN new.tenant ELSE @[n]]]

\* A whole topology to another VRF, its bridge domains with their subnets.
Move(a, nets, old, new) ==
  LET tenants == IF old.tenant = new.tenant THEN a.tenant
                 ELSE [n \in Networks |-> IF n \in nets THEN new.tenant
                                                        ELSE a.tenant[n]]
      under(x) == NetworkOf[x[2]] \in nets /\ x[3] = a.tenant[NetworkOf[x[2]]]
  IN [a EXCEPT
       !.vrf = [n \in Networks |-> IF n \in nets THEN new ELSE @[n]],
       !.tenant = tenants,
       !.subnets = {IF under(x) THEN <<x[1], x[2], tenants[NetworkOf[x[2]]]>>
                                ELSE x : x \in @}]

\* The external network e of the VRFs vs: the contracts of the routers of the
\* VRF with that gateway, and of the router that is about to have it.
Connect(a, vs, e, ports, added) ==
  [a EXCEPT !.connected =
     [x \in Vrfs \X ExtNets |->
        IF x[2] = e /\ x[1] \in vs
        THEN {q \in RoutersForVrf(x[1], a.vrf, ports) : gateway[q] = e} \cup added
        ELSE @[x]]]

--------------------
(* Router interfaces. *)

\* Mutant: one existing interface is looked at.
InterfaceSupportedByFirst(r, s, on) ==
  on # {} => \E p \in on :
    /\ p[1] = r \/ p[2] = s
    /\ ScopeOfSubnet(p[2]) = ScopeOfSubnet(s)

\* All router interfaces for a network share the router or the subnet, and
\* scopes with one VRF: as two of the interfaces tell, whichever two are read.
InterfaceSupported(r, s, on) ==
  \E seen \in {t \in SUBSET on : Cardinality(t) <= 2} :
    /\ Cardinality(on) >= 2 => Cardinality(seen) = 2
    /\ Cardinality(on) = 1 => seen = on
    /\ (\A p \in seen : p[1] = r) \/ (\A p \in seen : p[2] = s)
    /\ seen # {} => \E p \in seen :
         \/ ScopeOfSubnet(p[2]) = ScopeOfSubnet(s)
         \/ /\ ~Unscoped(p[2]) /\ ~Unscoped(s)
            /\ ScopeVrf[ScopeOfSubnet(p[2])] = ScopeVrf[ScopeOfSubnet(s)]

\* The VRF of an interface, the topology that must move to it, from where and
\* whether a default VRF is ensured.
Choice(vrf, ensure, moves, from) ==
  [vrf |-> vrf, ensure |-> ensure, moves |-> moves, from |-> from]

\* Of the topologies of the network and of the router, and their VRFs; none
\* when both are shared.
UnscopedChoices(n, mine, theirs, mineVrf, theirVrf) ==
  IF theirs = {} \/ mineVrf = theirVrf THEN {Choice(mineVrf, TRUE, {}, None)}
  ELSE IF mine \cap Shared # {}
  THEN {c \in {Choice(mineVrf, TRUE, theirs, theirVrf)} : theirs \cap Shared = {}}
  ELSE {c \in {Choice(theirVrf, FALSE,
                     IF InterfacesOf(n, interfaces) = {} THEN {} ELSE mine, mineVrf)} :
          theirs \cap Shared # {}}

ChoicesAmong(n, mine, theirs) ==
  UnscopedChoices(n, mine, theirs, TopologyVrf(mine, n), RouterTopologyVrf(theirs))

Choices(r, s) ==
  IF ~Unscoped(s) THEN {Choice(ScopeVrf[ScopeOfSubnet(s)], FALSE, {}, None)}
  ELSE ChoicesAmong(NetworkOf[s], NetworkTopology(NetworkOf[s], interfaces),
                    RouterTopology(r, interfaces))

\* Mutant: any network, whoever owns it.
UsableByAnyone(r, s) ==
  /\ aim.vrf[NetworkOf[s]] # None
  /\ <<r, s>> \notin interfaces
  /\ \A w \in Workers : pending[w] # [op |-> "interface", port |-> <<r, s>>]

\* Users take subnets of their own networks and of shared ones.
Usable(r, s) ==
  LET n == NetworkOf[s]
  IN /\ aim.vrf[n] # None
     /\ Owner[n] = Owner[r] \/ n \in Shared
     /\ <<r, s>> \notin interfaces
     /\ \A w \in Workers : pending[w] # [op |-> "interface", port |-> <<r, s>>]

Ensured(a, c) == IF c.ensure THEN Ensure(a, c.vrf) ELSE a

Joining(a, c) ==
  IF c.moves = {} THEN a ELSE Cleanup(Move(a, c.moves, c.from, c.vrf), c.from)

Taken(a, n, v) == IF InterfacesOf(n, interfaces) = {} THEN Associate(a, n, v) ELSE a

Attached(a, r, s) ==
  [a EXCEPT !.subnets = @ \cup {<<r, s, a.tenant[NetworkOf[s]]>>},
            !.contracts[NetworkOf[s]] = @ \cup {r}]

\* The VRFs a router with a gateway connects: that of its first interface in
\* the scope and, when its topology moved, the one it left.
Connected(a, r, s, c) ==
  IF gateway[r] = None THEN a
  ELSE IF InterfacesInScope(r, ScopeOfSubnet(s), interfaces) = {}
  THEN Connect(a, {c.vrf}, gateway[r], interfaces, {r})
  ELSE IF c.moves # {} /\ NetworkOf[s] \notin c.moves
  THEN Connect(Connect(a, {c.from}, gateway[r], interfaces, {}),
               {c.vrf}, gateway[r], interfaces, {r})
  ELSE a

\* create_port_precommit of an interface port: _add_router_interface.
AddInterface(w, r, s) ==
  /\ pending[w] = None
  /\ Usable(r, s)
  /\ InterfaceSupported(r, s, InterfacesOf(NetworkOf[s], interfaces))
  /\ \E c \in Choices(r, s) :
       /\ aim' = Connected(Attached(Taken(Joining(Ensured(aim, c), c), NetworkOf[s], c.vrf),
                                    r, s), r, s, c)
       /\ Unscoped(s) => ~OverlapIn(c.vrf, aim'.vrf, interfaces, {s})
  /\ pending' = [pending EXCEPT ![w] = [op |-> "interface", port |-> <<r, s>>]]
  /\ UNCHANGED <<scopes, scopeOf, interfaces, gateway>>

\* Neutron adds the RouterPort row of the new port.
RecordInterface(w) ==
  /\ pending[w] # None
  /\ pending[w].op = "interface"
  /\ interfaces' = interfaces \cup {pending[w].port}
  /\ pending' = [pending EXCEPT ![w] = None]
  /\ UNCHANGED <<scopes, scopeOf, gateway, aim>>

Detached(a, r, s, left) ==
  [a EXCEPT !.subnets = @ \ {<<r, s, a.tenant[NetworkOf[s]]>>},
            !.contracts[NetworkOf[s]] = IF r \in left THEN @ ELSE @ \ {r}]

Moved(a, nets, old, v) == IF v = old THEN a ELSE Move(Ensure(a, v), nets, old, v)

Released(a, s, old, left) ==
  IF left # {} THEN a
  ELSE IF Unscoped(s) THEN Cleanup(Dissociate(a, NetworkOf[s], old), old)
  ELSE Dissociate(a, NetworkOf[s], old)

Disconnected(a, r, s, old, v, ports) ==
  IF gateway[r] = None THEN a
  ELSE IF InterfacesInScope(r, ScopeOfSubnet(s), ports) = {}
  THEN Connect(a, {old}, gateway[r], ports, {})
  ELSE IF v # old
  THEN Connect(Connect(a, {old}, gateway[r], ports, {}), {v}, gateway[r], ports, {r})
  ELSE a

\* The rest of the network's topology (mine) and of the router's (theirs) go to
\* the VRFs they call for, each checked for overlaps as it is moved.
RemoveFrom(r, s, ports, left, mine, theirs, mineVrf, theirVrf) ==
  LET n == NetworkOf[s]
      old == aim.vrf[n]
  IN /\ mineVrf # old =>
          ~OverlapIn(mineVrf, Moved(aim, mine, old, mineVrf).vrf, ports, {})
     /\ aim' = Disconnected(
                  Released(
                    Moved(Moved(Detached(aim, r, s, left), mine, old, mineVrf),
                          theirs, old, theirVrf),
                    s, old, left),
                  r, s, old, theirVrf, ports)
     /\ theirVrf # old =>
          ~OverlapIn(theirVrf, Moved(Moved(aim, mine, old, mineVrf),
                                     theirs, old, theirVrf).vrf, ports, {})

\* An unscoped part that is not empty goes to the VRF of its topology.
PartVrf(s, part, v) == IF Unscoped(s) /\ part # {} THEN v ELSE aim.vrf[NetworkOf[s]]

RemovedAmong(r, s, ports, left, mine, theirs) ==
  RemoveFrom(r, s, ports, left, mine, theirs,
             PartVrf(s, left, TopologyVrf(mine, NetworkOf[s])),
             PartVrf(s, theirs, RouterTopologyVrf(theirs)))

\* delete_port_precommit of an interface port: its RouterPort row goes first,
\* then _remove_router_interface.
RemoveInterface(w, r, s) ==
  /\ pending[w] = None
  /\ <<r, s>> \in interfaces
  /\ interfaces' = interfaces \ {<<r, s>>}
  /\ RemovedAmong(r, s, interfaces', RoutersOn(NetworkOf[s], interfaces'),
                  NetworkTopology(NetworkOf[s], interfaces'),
                  RouterTopology(r, interfaces'))
  /\ UNCHANGED <<scopes, scopeOf, gateway, pending>>

--------------------
(* Gateways, scopes, pools and networks. *)

GatewayIdle(r) ==
  \A w \in Workers : ~(/\ pending[w] # None
                       /\ pending[w].op # "interface"
                       /\ pending[w].router = r)

\* create_port_precommit of a gateway port, before the router refers to it.
AddGatewayPort(w, r, e) ==
  /\ pending[w] = None /\ GatewayIdle(r) /\ gateway[r] = None
  /\ aim' = Connect(aim, VrfsForRouter(r, aim.vrf, interfaces), e, interfaces, {r})
  /\ pending' = [pending EXCEPT ![w] = [op |-> "gateway", router |-> r, ext |-> e]]
  /\ UNCHANGED <<scopes, scopeOf, interfaces, gateway>>

RecordGateway(w) ==
  /\ pending[w] # None
  /\ pending[w].op = "gateway"
  /\ gateway' = [gateway EXCEPT ![pending[w].router] = pending[w].ext]
  /\ pending' = [pending EXCEPT ![w] = None]
  /\ UNCHANGED <<scopes, scopeOf, interfaces, aim>>

\* Neutron takes the gateway away before it deletes the port.
ClearGateway(w, r) ==
  /\ pending[w] = None /\ GatewayIdle(r) /\ gateway[r] # None
  /\ pending' = [pending EXCEPT
                   ![w] = [op |-> "ungateway", router |-> r, ext |-> gateway[r]]]
  /\ gateway' = [gateway EXCEPT ![r] = None]
  /\ UNCHANGED <<scopes, scopeOf, interfaces, aim>>

\* delete_port_precommit of a gateway port, also when recording it failed.
DeleteGatewayPort(w) ==
  /\ pending[w] # None
  /\ pending[w].op \in {"gateway", "ungateway"}
  /\ LET vs == VrfsForRouter(pending[w].router, aim.vrf, interfaces)
     IN aim' = Connect(aim, vs, pending[w].ext, interfaces, {})
  /\ pending' = [pending EXCEPT ![w] = None]
  /\ UNCHANGED <<scopes, scopeOf, interfaces, gateway>>

CreateScope(c) ==
  /\ c \notin scopes
  /\ scopes' = scopes \cup {c}
  /\ aim' = Ensure(aim, ScopeVrf[c])
  /\ UNCHANGED <<scopeOf, interfaces, gateway, pending>>

\* Mutant: the VRF goes with any of its scopes.
DeleteScopeAndVrf(c) ==
  /\ c \in scopes
  /\ \A p \in Pools : scopeOf[p] # c
  /\ scopes' = scopes \ {c}
  /\ aim' = [aim EXCEPT !.vrfs = @ \ {ScopeVrf[c]}]
  /\ UNCHANGED <<scopeOf, interfaces, gateway, pending>>

\* A VRF is deleted with the last of the scopes that own it.
DeleteScope(c) ==
  /\ c \in scopes
  /\ \A p \in Pools : scopeOf[p] # c
  /\ scopes' = scopes \ {c}
  /\ aim' = IF Isomorphic(c) = {c} THEN [aim EXCEPT !.vrfs = @ \ {ScopeVrf[c]}]
                                   ELSE aim
  /\ UNCHANGED <<scopeOf, interfaces, gateway, pending>>

\* Mutant: a pool changes its scope under the interfaces of its subnets.
UpdateRoutedPoolScope(p, c) ==
  /\ c \in (scopes \cup {None}) \ {scopeOf[p]}
  /\ scopeOf' = [scopeOf EXCEPT ![p] = c]
  /\ UNCHANGED <<scopes, interfaces, gateway, pending, aim>>

\* The scope of a pool whose subnets are routed cannot change.
UpdatePoolScope(p, c) ==
  /\ c \in (scopes \cup {None}) \ {scopeOf[p]}
  /\ \A i \in interfaces : PoolOf[i[2]] # p
  /\ scopeOf' = [scopeOf EXCEPT ![p] = c]
  /\ UNCHANGED <<scopes, interfaces, gateway, pending, aim>>

\* Mutant: the unrouted VRF is created as if it were a default one.
CreateNetworkAndVrf(n) ==
  /\ aim.vrf[n] = None
  /\ aim' = Ensure(Remap(aim, n, UnroutedVrf, Owner[n]), UnroutedVrf)
  /\ UNCHANGED <<scopes, scopeOf, interfaces, gateway, pending>>

CreateNetwork(n) ==
  /\ aim.vrf[n] = None
  /\ aim' = Remap(aim, n, UnroutedVrf, Owner[n])
  /\ UNCHANGED <<scopes, scopeOf, interfaces, gateway, pending>>

\* Neutron deletes only networks without ports of routers.
DeleteNetwork(n) ==
  /\ aim.vrf[n] # None
  /\ InterfacesOf(n, interfaces) = {}
  /\ \A w \in Workers : pending[w] # None =>
       ~(pending[w].op = "interface" /\ NetworkOf[pending[w].port[2]] = n)
  /\ aim' = [Remap(aim, n, None, None) EXCEPT !.contracts[n] = {}]
  /\ UNCHANGED <<scopes, scopeOf, interfaces, gateway, pending>>

InterfaceStep ==
  \/ \E w \in Workers, p \in RouterPorts : AddInterface(w, p[1], p[2])
  \/ \E w \in Workers : RecordInterface(w)
  \/ \E w \in Workers, p \in RouterPorts : RemoveInterface(w, p[1], p[2])

GatewayStep ==
  \/ \E w \in Workers, r \in Routers, e \in ExtNets : AddGatewayPort(w, r, e)
  \/ \E w \in Workers : RecordGateway(w) \/ DeleteGatewayPort(w)
  \/ \E w \in Workers, r \in Routers : ClearGateway(w, r)

ResourceStep ==
  /\ \E w \in Workers : pending[w] = None
  /\ \/ \E c \in Scopes : CreateScope(c) \/ DeleteScope(c)
     \/ \E p \in Pools, c \in Scopes \cup {None} : UpdatePoolScope(p, c)
     \/ \E n \in Networks : CreateNetwork(n) \/ DeleteNetwork(n)

Next == InterfaceStep \/ GatewayStep \/ ResourceStep

Spec == Init /\ [][Next]_vars
====================
