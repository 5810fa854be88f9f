----------------------------- MODULE MCServices -----------------------------
(* Small instances of seven parts of the system that share no state: the
   ML2Plus plugin, external networks, the address pools and the network
   services of the mapping drivers, service chains, validation and repair,
   and the details of endpoints.
   A behaviour is about one of them, its topic, and the variables of the
   others stay as they are. *)
EXTENDS Ml2Plus, ExternalNetworks, AddressPools, NetworkServices, ServiceChains,
        Validation, EndpointDetails, TLC

VARIABLE topic

--------------------
\* The ML2Plus plugin.
CONSTANTS wA, wB, poolA, poolB, groupA, pA, pB, d1, d2

OwnerOf == (poolA :> pA) @@ (groupA :> pA) @@ (poolB :> pB)
TwoDrivers == <<d1, d2>>

RequestsNext(ops, resources, flags) ==
  \E w \in Ml2Workers :
    \/ \E op \in ops, r \in resources, flag \in flags : StartRequest(w, op, r, flag)
    \/ EnsureTenant(w) \/ Transaction(w) \/ AbortTransaction(w) \/ TellDriver(w)

\* Requests, with failing drivers; and projects that are renamed and deleted.
Ml2PoolsNext ==
  \/ RequestsNext({"create", "update", "delete"}, Subnetpools, {"yes", "no", "unset"})
  \/ \E w \in Ml2Workers : job[w] # Idle /\ job[w].resource = poolA /\ DriverRaises(w)
ProjectsNext ==
  \/ RequestsNext({"create", "delete"}, {groupA, poolB}, {"unset"})
  \/ \E p \in Projects :
       \/ \E n \in ProjectNames : RenameProject(p, n)
       \/ DeleteProject(p) \/ ProjectUpdated(p) \/ StartPurge(p) \/ PurgeTenant(p)

--------------------
\* External networks: nA and nB of two NAT EPGs of one L3Out; nM and nN are
\* multi_ext_nets networks of another, with disjoint CIDRs if they share one.
CONSTANTS nA, nB, nM, nN, a1, a2, a3, l1, l2, k1, k2, x1, x2, b1, b2, v1, v2,
          q1, q2, gw1, gw2

L3OutsOf == (a1 :> l1) @@ (a2 :> l1) @@ (a3 :> l2)
IsMulti(n) == n \in {nM, nN}
DnsOf(n) == IF IsMulti(n) THEN {a3} ELSE {a1, a2, Absent}
Apart(n, ks) ==
  IsMulti(n) => \A m \in {nM, nN} \ {n} : extNet[m] # Absent => extNet[m].cidrs \cap ks = {}

NatNext ==
  \E n \in ExtNets :
    \/ \E ks \in {{k1}, {k2}, {k1, k2}}, d \in DnsOf(n) :
         Apart(n, ks) /\ CreateExtNet(n, [dn |-> d, multi |-> IsMulti(n), cidrs |-> ks])
    \/ \E ks \in {{}, {k1}, {k2}} : Apart(n, ks) /\ UpdateExtCidrs(n, ks)
    \/ DeleteExtNet(n)

\* A subnet without a gateway is not given one.
ExtSubnetsNext ==
  \/ \E n \in ExtNets :
       \/ \E d \in DnsOf(n) :
            CreateExtNet(n, [dn |-> d, multi |-> IsMulti(n),
                             cidrs |-> {IF n = nN THEN k2 ELSE k1}])
       \/ DeleteExtNet(n)
  \/ \E x \in ExtSubnets :
       \/ \E n \in ExtNets, b \in ExtBlocks, g \in {gw1, Absent}, e \in BOOLEAN :
            /\ x = x2 => ~e
            /\ CreateExtSubnet(x, [net |-> n, block |-> b, gateway |-> g, epg |-> e])
       \/ /\ extSubnet[x] # Absent /\ ~extSubnet[x].epg
          /\ \E g \in Gateways \cup {Absent} :
               (g # Absent => extSubnet[x].gateway # Absent) /\ UpdateGateway(x, g)
       \/ DeleteExtSubnet(x)

SviNext ==
  \E n \in SviNetworks :
    \/ \E bgp, given \in BOOLEAN, t \in {"default_export", ""} :
         CreateSvi(n, [bgp |-> bgp, type |-> t, given |-> given])
    \/ \E p \in SviPaths : AddSviPath(n, p) \/ RemoveSviPath(n, p)
    \/ \E bgp \in BOOLEAN, t \in {"default_export", ""} : UpdateBgp(n, bgp, t)
    \/ DeleteSvi(n)

--------------------
\* Address pools: two L3 policies; groups of the first, two of them on one network.
CONSTANTS i1, i2, z0, z1, z2, o0, o1, o2, o3, e1, e2, e3, ad1, ad2, u1, u2, u3, tn, tn2

ScopesMade == (i1 :> z1) @@ (i2 :> z2)
PoolsMade == (i1 :> o1) @@ (i2 :> o2)
L3Of == (u1 :> i1) @@ (u2 :> i1) @@ (u3 :> i1)
NetworksOf == (u1 :> nA) @@ (u2 :> nA) @@ (u3 :> nB)
CidrOf == (e1 :> {8}) @@ (e2 :> {2}) @@ (e3 :> {9})
Addresses == (e1 :> {ad1, ad2}) @@ (e2 :> {ad1}) @@ (e3 :> {})
BlocksOfL3 == (i1 :> {1}) @@ (i2 :> {2})
TenantsOfL3 == (i1 :> tn) @@ (i2 :> tn2)
TenantsOfSegments == (e1 :> tn) @@ (e2 :> tn) @@ (e3 :> tn)

\* Addresses given are of the subnet of the segment.
GivenAddresses ==
  {f \in UNION {[es -> {{ad1}, {ad2}, {}}] : es \in SUBSET Segments} :
     \A e \in DOMAIN f : f[e] \subseteq Addresses[e]}

PoolsNext ==
  \/ \E l \in L3Rows :
       \/ \E s \in Scopes \cup {Nothing}, ps \in SUBSET {o0, o1, o3}, b \in BOOLEAN :
            CreateL3(l, s, ps, b)
       \/ \E ps \in SUBSET SubnetPools : UpdateL3Pools(l, ps)
       \/ DeleteL3(l)
  \/ \E g \in {u1, u2} : AllocateFromPool(g) \/ ReleaseToPool(g)
  \/ \E s \in Scopes : CreateUserPool(o3, s)
  \/ \E p \in SubnetPools : UseDirectly(p)
BlocksNext ==
  \/ \E w \in PoolWorkers :
       \/ \E g \in PoolGroups : StartAllocation(w, g)
       \/ \E b \in PoolBlocks : MakeSubnet(w, b)
       \/ ValidateSubnet(w) \/ AddSubnet(w) \/ NoSubnetAvailable(w)
  \/ \E g \in PoolGroups : ReleaseBlock(g)
SegmentsNext ==
  \/ \E l \in L3Rows : \/ \E given \in GivenAddresses : SetSegments(l, given)
                        \/ ClearSegments(l)
  \/ \E e \in Segments, ds \in SUBSET Destinations, admin \in BOOLEAN : SetRoutes(e, ds, admin)

--------------------
\* Network services.
CONSTANTS y1, y2, t1, t2, n1, n2

GroupOfTarget == (t1 :> u1) @@ (t2 :> u2)
BlockOfPool == (n1 :> b1) @@ (n2 :> b2)
BlockOfSegment == (e1 :> x1) @@ (e2 :> b1)
SomeParams == {{"self"}, {"single"}, {"pool", "qos"}, {"self", "qos"}, {"single", "pool"}}

PoliciesNext ==
  \/ \E v \in ServicePolicies :
       (\E ps \in SomeParams : CreateServicePolicy(v, ps)) \/ DeleteServicePolicy(v)
  \/ \E g \in ServedGroups :
       \/ \E v \in ServicePolicies \cup {NoOne} :
            CreateServedGroup(g, v) \/ SetServicePolicy(g, v)
       \/ DeleteServedGroup(g)
  \/ \E t \in ServedTargets : CreateServedTarget(t) \/ DeleteServedTarget(t)
  \/ natPool[n1] = NoOne /\ CreateNatPool(n1, e1)
  \/ attached = NoOne /\ AttachSegment(e1)
NatPoolsNext ==
  \/ \E e \in NatSegments \cup {NoOne} : AttachSegment(e)
  \/ \E n \in NatPools : \/ \E e \in NatSegments : CreateNatPool(n, e) \/ MoveNatPool(n, e)
                          \/ DeleteNatPool(n)
  \/ CreateServicePolicy(y1, {"single"}) \/ CreateServedGroup(u1, y1)
  \/ DeleteServedGroup(u1)

--------------------
\* Service chains.
CONSTANTS c1, c2, g1, g2, qa, qb, qc, f1, f2, f3, nL, nR, nR2, nS, nD, h1, h2, ia, ea,
          ib, eb, ic, ec

IngressOf == (qa :> ia) @@ (qb :> ib) @@ (qc :> ic)
EgressOf == (qa :> ea) @@ (qb :> eb) @@ (qc :> ec)
\* The pairs of g1 are on nL and nR, the one of g2 on nL and nR2.
NetOf == (ia :> nL) @@ (ea :> nR) @@ (ib :> nL) @@ (eb :> nR) @@ (ic :> nL) @@ (ec :> nR2)
\* All classifiers are between external networks; f1 and f2 have one destination,
\* f1 and f3 one source.
SrcNetOf == [f \in Flows |-> nS]
DstNetOf == [f \in Flows |-> nD]
SrcPrefixOf == (f1 :> x1) @@ (f2 :> x2) @@ (f3 :> x1)
DstPrefixOf == (f1 :> b1) @@ (f2 :> b1) @@ (f3 :> x2)
NetTenantOf == [n \in ServiceNets |-> tn]

\* A group belongs to one chain.
ChainsOf(c) == [groups : {IF c = c1 THEN <<g1>> ELSE <<g2>>},
                flows : {{f1}, {f1, f2}, {f2}, {f3}, {}}]

\* ChainInit with all ports bound.
BoundChainInit ==
  /\ pairsOf = [g \in Groups |-> {}] /\ chain = [c \in Chains |-> Nil]
  /\ hostOf = [p \in EndPorts |-> h1] /\ active = EndPorts
  /\ hostPath = [h \in ChainHosts |-> k1] /\ netVrf = [n \in ServiceNets |-> v1]
  /\ graphs = NoGraphs

ChainsNext ==
  \/ \E g \in Groups, ps \in SUBSET Pairs :
       ps \subseteq (IF g = g1 THEN {qa, qb} ELSE {qc}) /\ SetPairs(g, ps)
  \/ \E c \in Chains : \/ \E ch \in ChainsOf(c) : CreateChain(c, ch) \/ UpdateChain(c, ch)
                       \/ DeleteChain(c)
  \/ \E n \in {nL, nR2}, v \in ServiceVrfs : SetNetVrf(n, v)

\* The ports of one chain are bound, the first of them on either host.
PortsNext ==
  \/ \E p \in {ia, ea, ib}, h \in ChainHosts \cup {Nil}, up \in BOOLEAN :
       (p # ia => h # h2) /\ UpdatePort(p, h, up)
  \/ \E k \in LinkPaths : UpdateHostPath(h2, k)
  \/ SetPairs(g1, {qa}) \/ SetPairs(g1, {qa, qb})
  \/ CreateChain(c1, [groups |-> <<g1>>, flows |-> {f1}])

--------------------
\* Validation: projects A and B; a scope of each, in the VRF of A's; a network of B,
\* routed with the shared networks of A; an external network of B, of an L3Outside in
\* A's tenant.  What may be damaged is of most of them, and the tenants.
CONSTANTS static, scopeA, scopeB, networkB, outerB, routerB, sgA, rule, outA, port, A, B

KindOfRow == (static :> "static") @@ (scopeA :> "address_scope")
             @@ (scopeB :> "address_scope") @@ (networkB :> "network")
             @@ (outerB :> "external_network") @@ (routerB :> "router")
             @@ (sgA :> "security_group") @@ (rule :> "policy")
ProjectOfRow == (static :> NoTenant) @@ (scopeA :> A) @@ (sgA :> A) @@ (rule :> A)
                @@ [w \in {scopeB, networkB, outerB, routerB} |-> B]
VrfOfRow == [w \in {scopeA, scopeB} |-> Resource("VRF", A, scopeA)]
            @@ (networkB :> Resource("DefaultVRF", A, A))
L3OutsideOfRow == (outerB :> Resource("L3Outside", A, outA))
PreExistingL3Outs == {Resource("L3Outside", A, outA)}
Damaged == {Resource("VRF", A, scopeA), Resource("AddressScopeMapping", A, scopeA),
            Resource("EndpointGroup", A, networkB), Resource("Contract", A, outA),
            Resource("Tenant", B, B)}
SomeScopes == {Everything} \cup [kinds : {{}, {"network"}, {"address_scope", "router"}},
                                 tenants : {{}, {A}, {B}}]

ValidationNext ==
  \/ \E s \in SomeScopes, repair \in BOOLEAN : Validate(s, repair)
  \/ \E v \in {"missing", "right", "wrong"} : Damage(Resource("EndpointGroup", A, networkB), v)
  \/ topic = "resources" /\ \E r \in Damaged, v \in {"missing", "right"} : Damage(r, v)
  \/ topic = "bindings" /\ \/ \E w \in NeutronRows : Migrated(w)
                           \/ \E p \in BoundPorts : LoseBinding(p)

--------------------
\* Endpoints: p1 and p2 on networks mA and mB and one host, two routers.
CONSTANTS p1, p2, mA, mB, r1, r2, outer, fipA, s1, s2, gA, gAuto, apA, label, pool1, zone

NetworkOfPort == (p1 :> mA) @@ (p2 :> mB)
OuterOfFip == (fipA :> outer)

\* Each router has one network and a worker of its own; r1 keeps its interface, and
\* both their gateways.  The agent asks for p2 until it has details.
RoutersNext ==
  \/ AddInterface(wA, r1, mB) \/ SetOuter(wA, r1, outer)
  \/ AddInterface(wB, r2, mA) \/ SetOuter(wB, r2, outer) \/ RemoveInterface(wB, r2, mA)
  \/ \E w \in DetailWorkers : AfterCommit(w)
  \/ RequestNext(p1)
  \/ known.port[p2] = Unset /\ RequestNext(p2)

\* A network with two routers, one of them with a gateway and a floating address.
SecondRouterNext ==
  \/ AddInterface(wA, r2, mA)
  \/ AddInterface(wB, r1, mA) \/ RemoveInterface(wB, r1, mA)
  \/ SetOuter(wB, r1, outer) \/ ClearOuter(wB, r1)
  \/ AssociateFip(wA, fipA, p1, r1) \/ DisassociateFip(wA, fipA)
  \/ \E w \in DetailWorkers : AfterCommit(w)
  \/ RequestNext(p1)

\* A port that is plugged, on either host, into a network that becomes routed.
PluggingNext ==
  \/ SetOuter(wA, r1, outer) \/ AddInterface(wA, r1, mA)
  \/ \E l \in Labels : SetLabel(wB, p1, l)
  \/ \E a \in Profiles : SetProfile(wB, gA, a)
  \/ \E w \in DetailWorkers : AfterCommit(w)
  \/ PlugPort(p1, h1, FALSE) \/ PlugPort(p1, h2, TRUE)
  \/ \E g \in TargetGroups : CreateTarget(p1, g)
  \/ RequestNext(p1)

\* One network and two routers; one pool.
VrfsNext ==
  \/ \E r \in DetailRouters : AddInterface(wA, r, mA) \/ RemoveInterface(wA, r, mA)
  \/ \E cs \in SUBSET {k1} : SetSubnets(wB, mA, cs)
  \/ \E w \in DetailWorkers : AfterCommit(w)
  \/ \E v \in DetailVrfs : GetVrfDetails(v) \/ ReceiveVrf(v)
ScopedPoolsNext ==
  \/ \E w \in DetailWorkers :
       \/ \E z \in OrUnset(PoolScopes), cs \in SUBSET SubnetCidrs :
            SetPool(w, pool1, [scope |-> z, prefixes |-> cs])
       \/ AfterCommit(w)
  \/ GetVrfDetails(zone) \/ ReceiveVrf(zone)

--------------------
MCInit ==
  /\ topic \in {"ml2 pools", "projects", "nat", "external subnets", "svi", "pools",
              "blocks", "segments", "policies", "nat pools", "chains", "ports",
              "resources", "bindings", "routers", "second router",
              "plugging", "vrfs", "scoped pools"}
  /\ Ml2Init /\ \A p \in Projects : topic # "projects" => keystone[p] = "a"
  /\ ExternalInit /\ AddressInit /\ ServiceInit
  /\ IF topic = "chains" THEN BoundChainInit ELSE ChainInit
  /\ netVrf = [n \in ServiceNets |-> v1] /\ hostPath = [h \in ChainHosts |-> k1]
  /\ ValidationInit /\ NeutronRows \ {rule, scopeA, scopeB, outerB} \subseteq rows
  /\ (scopeA \in rows => scopeB \in rows) /\ (rule \in rows => {scopeA, outerB} \subseteq rows)
  /\ topic = "bindings" => {scopeA, outerB} \subseteq rows
  /\ topic \notin {"resources", "bindings"} => rows = NeutronRows
  /\ DetailInit
  /\ \A p \in DetailPorts : binding[p] = [host |-> h1, bound |-> topic \in {"routers", "second router"}]

MCNext ==
  /\ UNCHANGED topic
  /\ \/ /\ \/ topic = "ml2 pools" /\ Ml2PoolsNext
           \/ topic = "projects" /\ ProjectsNext
        /\ UNCHANGED <<externalVars, addressVars, serviceVars, chainVars,
                       validationVars, detailVars>>
     \/ /\ \/ topic = "nat" /\ NatNext
           \/ topic = "external subnets" /\ ExtSubnetsNext
           \/ topic = "svi" /\ SviNext
        /\ UNCHANGED <<ml2Vars, addressVars, serviceVars, chainVars,
                       validationVars, detailVars>>
     \/ /\ \/ topic = "pools" /\ PoolsNext
           \/ topic = "blocks" /\ BlocksNext
           \/ topic = "segments" /\ SegmentsNext
        /\ UNCHANGED <<ml2Vars, externalVars, serviceVars, chainVars,
                       validationVars, detailVars>>
     \/ /\ \/ topic = "policies" /\ PoliciesNext
           \/ topic = "nat pools" /\ NatPoolsNext
        /\ UNCHANGED <<ml2Vars, externalVars, addressVars, chainVars,
                       validationVars, detailVars>>
     \/ /\ \/ topic = "chains" /\ ChainsNext
           \/ topic = "ports" /\ PortsNext
        /\ UNCHANGED <<ml2Vars, externalVars, addressVars, serviceVars,
                       validationVars, detailVars>>
     \/ /\ topic \in {"resources", "bindings"} /\ ValidationNext
        /\ UNCHANGED <<ml2Vars, externalVars, addressVars, serviceVars, chainVars, detailVars>>
     \/ /\ \/ topic = "routers" /\ RoutersNext
           \/ topic = "second router" /\ SecondRouterNext
           \/ topic = "plugging" /\ PluggingNext
           \/ topic = "vrfs" /\ VrfsNext
           \/ topic = "scoped pools" /\ ScopedPoolsNext
        /\ UNCHANGED <<ml2Vars, externalVars, addressVars, serviceVars, chainVars,
                       validationVars>>

MCVars == <<ml2Vars, externalVars, addressVars, serviceVars, chainVars,
            validationVars, detailVars, topic>>
MCSpec == MCInit /\ [][MCNext]_MCVars

--------------------
\* The properties, by the part they are about.

\* Subnet pools and address scopes: each driver knows the rows as they are, and no
\* two implicit pools serve one tenant, over failing drivers and creations undone;
\* the tenants in AIM are those of the projects, by their names (ml2plus/plugin.py,
\* managers.py, implicitsubnetpool_db.py, cache.py).
ResourcesAreKnown ==
  Ml2TypeOK /\ DriversFollowRows /\ OneImplicitPool /\ TenantsFollowProjects

\* External networks that share an L3Out or an APIC network do not take from each
\* other, and leave no NAT EPG, APIC network or gateway, nor routes of a network with
\* an EPG of its own; and BGP peers are on the interfaces of networks that export
\* (the external and SVI branches of mechanism_driver.py).
ExternalNetworksAreKept ==
  /\ ExternalTypeOK /\ NatFollowsNetworks /\ CidrsAreRouted /\ CidrsGo
  /\ SubnetsAreDisjoint /\ PeersFollowBgp

\* Scopes, subnetpools and external segments of L3 policies fit together after any
\* sequence of requests, as far as the requests see them, and two groups get one block
\* of an L3 policy only if it was found free for both before one of them was given it
\* (resource_mapping.py, aim_mapping.py, plugin.py).
L3PoliciesFit ==
  AddressTypeOK /\ PoolsBelongToPolicies /\ SegmentsAreCompatible /\ BlocksAreApart

\* What network service policies ask for is there, once, and goes with them
\* (resource_mapping.py).
ServicesAreProvided ==
  /\ ServiceTypeOK
  /\ FipsFollowPolicies /\ ReservedIsApart /\ PoolsHaveSubnets /\ QosFollowsPolicies

\* The service graphs in AIM are those of the chains, whose classifiers may share
\* destinations but not sources (sfc_driver.py).
ChainsAreRealised == ChainTypeOK /\ ChainsAreMapped

\* A repair leaves nothing to repair (aim_validation.py).
RepairsLast == ValidationTypeOK /\ RepairsConverge

\* No agent goes on with details of a port or a VRF that have changed, and SNAT
\* ports go with the last network that needs them (rpc.py, mechanism_driver.py).
AgentsAreTold == DetailTypeOK /\ DetailsAreCurrent /\ SnatPortsAreNeeded /\ VrfsAreKnown
====================
