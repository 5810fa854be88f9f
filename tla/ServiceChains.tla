---------------------------- MODULE ServiceChains ----------------------------
(* The SFC driver of the APIC (services/sfc/aim): port pairs, port pair
   groups, flow classifiers and port chains of networking-sfc, mapped to
   service graphs in AIM.  The precommit method of a request validates it
   against the database, undoes the mapping of the chains it touches and
   maps them again, in the request's transaction: one action.  Bindings of
   the service ports, changes of host links and of the VRFs of networks
   come from the mechanism driver, which publishes them to this one.
   A DeviceCluster stands for the objects named after it that share its
   life: its two interfaces and its two redirect policies. *)
EXTENDS Naturals, SequencesExt

CONSTANTS
  Chains, Groups, Pairs, Flows,
  ServiceNets,      \* networks of classifiers and of service ports
  SviNets,          \* those that are L3Outs
  Ingress, Egress,  \* Pairs -> ports
  PortNet,          \* network of a port of a pair
  Monitored,        \* groups with a health check
  SrcNet, DstNet, SrcPrefix, DstPrefix,  \* of a classifier
  NetTenant,        \* tenant of the EPG or L3Out of a network
  ChainHosts, LinkPaths, ServiceVrfs,
  Nil               \* no chain, no host, no prefix

EndPorts == {Ingress[p] : p \in Pairs} \cup {Egress[p] : p \in Pairs}

VARIABLES
  pairsOf,   \* the pairs of a group: a pair belongs to one group
  chain,     \* the groups, in order, and the classifiers of a chain
  hostOf,    \* the host an end port is bound to
  active,    \* the end ports with status ACTIVE
  hostPath,  \* the path of the link of a host
  netVrf,    \* the VRF of a network
  graphs     \* the AIM objects: see NoGraphs

chainVars == <<pairsOf, chain, hostOf, active, hostPath, netVrf, graphs>>

MaxGroups == 3

--------------------
\* An ExternalNetwork of the L3Out named after the prefix, or the EPG.
FlowGroup(n, prefix) == <<n, IF n \in SviNets THEN prefix ELSE Nil>>
Provider(f) == FlowGroup(DstNet[f], DstPrefix[f])
Consumer(f) == FlowGroup(SrcNet[f], SrcPrefix[f])
IsExternal(g) == g[2] # Nil

\* One contract per provider and graph.
FlowContract(f, c) == <<Provider(f), c>>

LeftNets(ps) == {PortNet[Ingress[p]] : p \in ps}
RightNets(ps) == {PortNet[Egress[p]] : p \in ps}
NetsOf(ps) == LeftNets(ps) \cup RightNets(ps)
Left(ps) == CHOOSE n \in LeftNets(ps) : TRUE
Right(ps) == CHOOSE n \in RightNets(ps) : TRUE

GroupsIn(ch) == ToSet(ch.groups)
ChainNets(ch) == FoldLeft(LAMBDA ns, g : ns \o <<Left(pairsOf[g]), Right(pairsOf[g])>>,
                          <<>>, ch.groups)
TenantsOf(fs) == {NetTenant[DstNet[f]] : f \in fs}

ChainsWithGroup(g) == {c \in Chains : chain[c] # Nil /\ g \in GroupsIn(chain[c])}

--------------------
\* Validation, for the pairs and the VRFs given.

ValidPair(p, bound) == bound[Ingress[p]] # Nil /\ bound[Egress[p]] # Nil

\* One domain (all hosts have the same one: ports differ in having one) and
\* one network on each side.
ValidGroup(ps, bound) ==
  /\ \A p, q \in ps : (bound[Ingress[p]] = Nil) <=> (bound[Ingress[q]] = Nil)
  /\ \A p, q \in ps : /\ PortNet[Ingress[p]] = PortNet[Ingress[q]]
                      /\ PortNet[Egress[p]] = PortNet[Egress[q]]

\* The VRFs of networks, by the distinguished names or the mapping of each.
VrfsOf(nets, vrfs) == {vrfs[n] : n \in nets}

ValidChain(ch, pairs, vrfs) ==
  LET nets == [i \in 1..Len(ch.groups) |-> NetsOf(pairs[ch.groups[i]])]
      all == UNION Range(nets)
      ends == {SrcNet[f] : f \in ch.flows} \cup {DstNet[f] : f \in ch.flows}
  IN /\ Len(ch.groups) <= MaxGroups
     /\ \A g \in GroupsIn(ch) : pairs[g] # {}
     /\ \A f \in ch.flows : NetTenant[SrcNet[f]] = NetTenant[DstNet[f]]
     /\ \A v, w \in VrfsOf(all \cup ends, vrfs) : v = w
     /\ \A i, j \in DOMAIN nets : i # j => nets[i] \cap nets[j] = {}

--------------------
\* The mapping of the AIM objects a.

NoGraphs ==
  [contracts |-> {}, consumed |-> {}, provided |-> {}, externals |-> {},
   graphs |-> {}, contexts |-> {}, clusters |-> {}, interfaces |-> {},
   monitors |-> {}, healthGroups |-> {}, unsynced |-> {}]

\* ConcreteDeviceInterface: of a port without link, neither path nor host.
Interface(t, g, p, at, paths) ==
  LET h == at[p]  path == IF h = Nil THEN Nil ELSE paths[h]
  IN [tenant |-> t, group |-> g, port |-> p, path |-> path,
      host |-> IF path = Nil THEN Nil ELSE h]

\* What one mapped chain needs in AIM.
Mapping(c, ch, pairs, at, paths) ==
  LET ts == TenantsOf(ch.flows)
      gs == GroupsIn(ch)
      used == IF ch.flows = {} THEN {} ELSE gs
      ports(g) == {Ingress[p] : p \in pairs[g]} \cup {Egress[p] : p \in pairs[g]}
  IN [contracts |-> {FlowContract(f, c) : f \in ch.flows},
      consumed |-> {<<Consumer(f), FlowContract(f, c)>> : f \in ch.flows},
      provided |-> {<<Provider(f), FlowContract(f, c)>> : f \in ch.flows},
      externals |-> {x \in {Consumer(f) : f \in ch.flows}
                           \cup {Provider(f) : f \in ch.flows} : IsExternal(x)},
      graphs |-> {[tenant |-> t, chain |-> c, nodes |-> ch.groups] : t \in ts},
      contexts |-> {[tenant |-> t, chain |-> c, node |-> g,
                     nets |-> <<Left(pairs[g]), Right(pairs[g])>>] : t \in ts, g \in gs},
      clusters |-> {[tenant |-> t, group |-> g, pairs |-> pairs[g]] : t \in ts, g \in gs},
      interfaces |-> UNION {{Interface(t, g, p, at, paths) : p \in ports(g)} : t \in ts, g \in gs},
      monitors |-> ts \X (gs \cap Monitored),
      healthGroups |-> UNION {{t} \X pairs[g] : t \in ts, g \in gs \cap Monitored},
      unsynced |-> UNION {NetsOf(pairs[g]) : g \in used}]

\* Objects are created without overwriting: one of a group another chain of
\* the tenant has mapped, or one left behind, makes the transaction fail.
CanMap(a, m) ==
  /\ \A x \in m.clusters, y \in a.clusters : ~(x.tenant = y.tenant /\ x.group = y.group)
  /\ m.monitors \cap a.monitors = {}
  /\ m.healthGroups \cap a.healthGroups = {}

WithMapping(a, m) == [k \in DOMAIN a |-> a[k] \cup m[k]]

\* Networks of ch whose EPG is synchronized again: those on which no group
\* is found that another chain uses.  A group found on one network is not
\* looked at again on the next.
Resynced(c, ch, chains) ==
  LET InUse(n, seen) ==
        {g \in Groups \ seen : /\ n \in NetsOf(pairsOf'[g])
                               /\ \E d \in Chains \ {c} : /\ chains[d] # Nil
                                                          /\ g \in GroupsIn(chains[d])}
      Visit(s, n) ==
        IF InUse(n, s.seen) = {} THEN [s EXCEPT !.nets = @ \cup {n}]
        ELSE [s EXCEPT !.seen = @ \cup {CHOOSE g \in InUse(n, s.seen) : TRUE}]
      nets == FoldLeft(LAMBDA ns, g : ns \o <<Left(pairsOf'[g]), Right(pairsOf'[g])>>,
                       <<>>, ch.groups)
  IN FoldLeft(Visit, [seen |-> {}, nets |-> {}], nets).nets

\* Mutant: whether or not something is provided in it.
TouchedExternals(provided, touched) == {x \in touched : IsExternal(x)}

\* An external network is removed when nothing is provided in it.
Unprovided(provided, touched) ==
  {x \in touched : IsExternal(x) /\ \A k \in provided : k[1] # x}

Unmapped(a, c, ch, chains) ==
  LET ts == TenantsOf(ch.flows)
      gs == GroupsIn(ch)
      own == {FlowContract(f, c) : f \in ch.flows}
      touched == {Consumer(f) : f \in ch.flows} \cup {Provider(f) : f \in ch.flows}
      provided == {k \in a.provided : k[2] \notin own}
      gone == Unprovided(provided, touched)
  IN [a EXCEPT
        !.contracts = @ \ own,
        !.consumed = {k \in @ : k[2] \notin own /\ k[1] \notin gone},
        !.provided = provided,
        !.externals = @ \ gone,
        !.graphs = {x \in @ : ~(x.chain = c /\ x.tenant \in ts)},
        !.contexts = {x \in @ : ~(x.chain = c /\ x.tenant \in ts /\ x.node \in gs)},
        !.clusters = {x \in @ : ~(x.tenant \in ts /\ x.group \in gs)},
        !.interfaces = {x \in @ : ~(x.tenant \in ts /\ x.group \in gs)},
        !.monitors = {x \in @ : ~(x[1] \in ts /\ x[2] \in gs)},
        !.healthGroups = @ \ UNION {ts \X pairsOf'[g] : g \in gs \cap Monitored},
        !.unsynced = @ \ Resynced(c, ch, chains)]

\* Validates and remaps the chains cs, one after the other; pairs and ports
\* are already those of the request.
Remap(cs) ==
  LET one(a, c) ==
        WithMapping(Unmapped(a, c, chain[c], chain),
               Mapping(c, chain[c], pairsOf', hostOf', hostPath))
  IN /\ \A c \in cs : /\ ValidChain(chain[c], pairsOf', netVrf)
                      /\ CanMap(Unmapped(graphs, c, chain[c], chain),
                                Mapping(c, chain[c], pairsOf', hostOf', hostPath))
     /\ graphs' = FoldLeft(one, graphs, SetToSeq(cs))

--------------------
\* Requests.

ChainInit ==
  /\ pairsOf = [g \in Groups |-> {}]
  /\ chain = [c \in Chains |-> Nil]
  /\ hostOf = [p \in EndPorts |-> Nil]
  /\ active = {}
  /\ hostPath \in [ChainHosts -> LinkPaths \cup {Nil}]
  /\ netVrf \in [ServiceNets -> ServiceVrfs]
  /\ graphs = NoGraphs

\* Pairs are created with their ports bound, and put into one group.
SetPairs(g, ps) ==
  /\ ps # pairsOf[g]
  /\ \A h \in Groups \ {g} : ps \cap pairsOf[h] = {}
  /\ \A p \in ps \ pairsOf[g] : ValidPair(p, hostOf)
  /\ ValidGroup(ps, hostOf)
  /\ pairsOf' = [pairsOf EXCEPT ![g] = ps]
  /\ UNCHANGED <<chain, hostOf, active, hostPath, netVrf>>
  /\ Remap(ChainsWithGroup(g))

\* A classifier belongs to one chain.
Free(fs, c) == \A d \in Chains \ {c} : chain[d] # Nil => fs \cap chain[d].flows = {}

CreateChain(c, ch) ==
  /\ chain[c] = Nil /\ Free(ch.flows, c)
  /\ ValidChain(ch, pairsOf, netVrf)
  /\ \A g \in GroupsIn(ch) : ch.flows # {} => \E p \in pairsOf[g] : hostOf[Ingress[p]] # Nil
  /\ chain' = [chain EXCEPT ![c] = ch]
  /\ LET m == Mapping(c, ch, pairsOf, hostOf, hostPath)
     IN CanMap(graphs, m) /\ graphs' = WithMapping(graphs, m)
  /\ UNCHANGED <<pairsOf, hostOf, active, hostPath, netVrf>>

UpdateChain(c, ch) ==
  /\ chain[c] \notin {Nil, ch} /\ Free(ch.flows, c)
  /\ ValidChain(ch, pairsOf, netVrf)
  /\ \A g \in GroupsIn(ch) : ch.flows # {} => \E p \in pairsOf[g] : hostOf[Ingress[p]] # Nil
  /\ chain' = [chain EXCEPT ![c] = ch]
  /\ UNCHANGED <<pairsOf, hostOf, active, hostPath, netVrf>>
  /\ LET a == Unmapped(graphs, c, chain[c], chain')
         m == Mapping(c, ch, pairsOf, hostOf, hostPath)
     IN CanMap(a, m) /\ graphs' = WithMapping(a, m)

DeleteChain(c) ==
  /\ chain[c] # Nil
  /\ chain' = [chain EXCEPT ![c] = Nil]
  /\ UNCHANGED <<pairsOf, hostOf, active, hostPath, netVrf>>
  /\ graphs' = Unmapped(graphs, c, chain[c], chain)

--------------------
\* Notifications of the mechanism driver.

PairsWith(p) == {q \in Pairs : p \in {Ingress[q], Egress[q]}}
OtherPort(q, p) == IF Ingress[q] = p THEN Egress[q] ELSE Ingress[q]

\* A port update; its pairs are remapped once both of their ports are up.
UpdatePort(p, h, up) ==
  LET changed == h # hostOf[p] \/ up # (p \in active)
      ready == {q \in PairsWith(p) : hostOf[OtherPort(q, p)] # Nil
                                     /\ OtherPort(q, p) \in active}
      gs == {g \in Groups : pairsOf[g] \cap ready # {}}
  IN /\ changed /\ (h = Nil => ~up)
     /\ hostOf' = [hostOf EXCEPT ![p] = h]
     /\ active' = IF up THEN active \cup {p} ELSE active \ {p}
     /\ UNCHANGED <<pairsOf, chain, hostPath, netVrf>>
     /\ IF up THEN /\ \A g \in gs : ValidGroup(pairsOf[g], hostOf')
                   /\ Remap(UNION {ChainsWithGroup(g) : g \in gs})
        ELSE UNCHANGED graphs

\* A host link: the interfaces recorded with the host get the path,
\* when their network still has a port there.
UpdateHostPath(h, path) ==
  /\ hostPath[h] # path
  /\ hostPath' = [hostPath EXCEPT ![h] = path]
  /\ LET here(x) == /\ x.host = h
                    /\ \E p \in EndPorts : hostOf[p] = h /\ PortNet[p] = PortNet[x.port]
     IN graphs' = [graphs EXCEPT !.interfaces =
                     {IF here(x) THEN [x EXCEPT !.path = path] ELSE x : x \in @}]
  /\ UNCHANGED <<pairsOf, chain, hostOf, active, netVrf>>

\* The chains with a classifier or a service port on the network must stay
\* valid, or the change of its VRF is refused.
ChainsOnNet(n) ==
  {c \in Chains : /\ chain[c] # Nil
                  /\ \/ \E f \in chain[c].flows : n \in {SrcNet[f], DstNet[f]}
                     \/ \E g \in GroupsIn(chain[c]) : n \in NetsOf(pairsOf[g])}
SetNetVrf(n, v) ==
  /\ netVrf[n] # v
  /\ netVrf' = [netVrf EXCEPT ![n] = v]
  /\ \A c \in ChainsOnNet(n) : ValidChain(chain[c], pairsOf, netVrf')
  /\ UNCHANGED <<pairsOf, chain, hostOf, active, hostPath, graphs>>

--------------------
ChainTypeOK ==
  /\ pairsOf \in [Groups -> SUBSET Pairs]
  /\ \A c \in Chains : chain[c] # Nil =>
       GroupsIn(chain[c]) \subseteq Groups /\ chain[c].flows \subseteq Flows
  /\ hostOf \in [EndPorts -> ChainHosts \cup {Nil}] /\ active \subseteq EndPorts
  /\ hostPath \in [ChainHosts -> LinkPaths \cup {Nil}]
  /\ netVrf \in [ServiceNets -> ServiceVrfs]
  /\ DOMAIN graphs = DOMAIN NoGraphs

LiveChains == {c \in Chains : chain[c] # Nil}
Expected(k) ==
  UNION {Mapping(c, chain[c], pairsOf, hostOf, hostPath)[k] : c \in LiveChains}

\* External networks that classifiers have their source in, several of them: these
\* go with the first chain of such a classifier, and the contracts others consume
\* in them ("only remove if completely empty", but contracts consumed are not
\* looked for).
SharedSources ==
  {x \in {Consumer(f) : f \in Flows} :
     IsExternal(x) /\ \E f, h \in Flows : f # h /\ Consumer(f) = x /\ Consumer(h) = x}

\* Whatever chains were created, changed and deleted, and whatever they share but
\* the source, AIM holds the objects of the chains that exist and nothing else
\* (_map_port_chain, _delete_port_chain_mapping).
MappedAsExpected ==
  /\ \A k \in DOMAIN graphs \ {"interfaces", "unsynced", "healthGroups", "consumed", "externals"} :
       graphs[k] = Expected(k)
  /\ graphs.consumed \subseteq Expected("consumed") /\ graphs.externals \subseteq Expected("externals")
  /\ \A x \in Expected("consumed") : x[1] \notin SharedSources => x \in graphs.consumed
  /\ Expected("externals") \ SharedSources \subseteq graphs.externals

\* The networks and classifiers of a chain share a VRF, also after the
\* routing of one of them changed (_validate_port_chain,
\* _handle_net_gbp_change).
ChainInOneVrf ==
  \A c \in LiveChains : ValidChain(chain[c], pairsOf, netVrf)

\* The fabric does not learn endpoints in the networks of a mapped chain, and
\* an EPG left unsynchronized has a chain (_delete_port_chain_mapping).
ServiceNetsUnsynced ==
  /\ Expected("unsynced") \subseteq graphs.unsynced
  /\ graphs.unsynced \subseteq
       UNION {UNION {NetsOf(pairsOf[g]) : g \in GroupsIn(chain[c])} : c \in LiveChains}

\* The device interfaces of a pair whose ports are both up lead to where the
\* ports are (_handle_port_bound, _handle_net_link_change).
PathsFollowPorts ==
  \A x \in graphs.interfaces :
    \A q \in PairsWith(x.port) :
      Ingress[q] \in active /\ Egress[q] \in active =>
        x.path = hostPath[hostOf[x.port]]

\* Every pair of a mapped group with a health check has its health group; those of
\* pairs that left the group while it was mapped stay (_delete_port_pair_group_mapping).
PairsAreMonitored == Expected("healthGroups") \subseteq graphs.healthGroups

ChainsAreMapped ==
  MappedAsExpected /\ ChainInOneVrf /\ ServiceNetsUnsynced /\ PathsFollowPorts
  /\ PairsAreMonitored
====================
