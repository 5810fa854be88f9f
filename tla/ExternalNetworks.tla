-------------------------- MODULE ExternalNetworks --------------------------
(* External and SVI networks of the APIC mechanism driver: the extension
   data the extension driver keeps of them, and the AIM resources made
   from it.  Several Neutron networks may map to one APIC external network
   and several of those belong to one L3Out: what is made for one network
   must outlive the others and must go with the last.  The NAT strategies
   of AIM are external; a NAT EPG and its bridge domain are one here.
   Requests are transactions of one worker. *)
EXTENDS FiniteSets

CONSTANTS
  ExtNets,     \* Neutron networks with router:external
  ApicNets,    \* APIC external networks
  L3OutOf,     \* their L3Out
  PreExisting, \* L3Outs with monitored resources
  MultiApicNets, \* APIC networks whose networks all have an EPG of their own
  ExtCidrs,    \* external_cidrs
  ExtSubnets, ExtBlocks, Gateways,
  SviNetworks, \* Neutron networks with apic:svi
  SviPaths,    \* paths an SVI is configured on
  Absent

VARIABLES
  extNet,     \* rows: the APIC network ("distinguished_names"), whether it has
              \* an EPG of its own (multi_ext_nets), and its CIDRs
  extSubnet,  \* rows: network, address block, gateway, and whether below the EPG
  natEpgs,    \* NAT EPGs: an L3Out, and the network whose own it is or Absent
  apicNets,   \* the APIC external networks there are
  routed,     \* pairs of an APIC external network and a CIDR
  natSubnets, \* gateways below NAT EPGs: the EPG, the gateway, and where
  svi,        \* rows: BGP settings, and whether the L3Out was given
  exported,   \* SVI networks whose IPv6 routes are exported
  exported4,  \* the same of IPv4
  sviPaths,   \* paths that have an interface
  peers       \* those that have a BGP peer

natVars == <<extNet, extSubnet, natEpgs, apicNets, routed, natSubnets>>
sviVars == <<svi, exported, exported4, sviPaths, peers>>
externalVars == <<natVars, sviVars>>

L3Outs == {L3OutOf[a] : a \in ApicNets}
Rows(f) == {x \in DOMAIN f : f[x] # Absent}

Managed == {n \in Rows(extNet) : extNet[n].dn # Absent}
OnApicNet(a) == {n \in Managed : extNet[n].dn = a}
OnL3Out(o) == {n \in Managed : L3OutOf[extNet[n].dn] = o}
EpgOf(n, row) == <<L3OutOf[row.dn], IF row.multi THEN n ELSE Absent>>
CidrsOf(a) == UNION {extNet[n].cidrs : n \in OnApicNet(a)}
SubnetsOf(n) == {s \in Rows(extSubnet) : extSubnet[s].net = n}
Place(s) == IF s.epg THEN "epg" ELSE "bd"

--------------------
\* External networks.

SetNetworkExtn(n, row) == extNet' = [extNet EXCEPT ![n] = row]

\* The L3Out of the APIC network was there before, or has resources that were.
HasMonitored(a) == L3OutOf[a] \in PreExisting

\* Without a DN the network is not managed.
CreateExtNet(n, row) ==
  /\ extNet[n] = Absent
  /\ SetNetworkExtn(n, row)
  /\ IF row.dn = Absent THEN UNCHANGED <<natEpgs, apicNets, routed>>
     ELSE /\ natEpgs' = natEpgs \cup {EpgOf(n, row)}
          /\ apicNets' = apicNets \cup {row.dn}
          /\ routed' = {r \in routed : r[1] # row.dn}
                       \cup {row.dn} \X (CidrsOf(row.dn) \cup row.cidrs)
  /\ UNCHANGED <<extSubnet, natSubnets, sviVars>>

\* All networks of the APIC network are written.
UpdateExtCidrs(n, cidrs) ==
  /\ n \in Managed /\ cidrs # extNet[n].cidrs
  /\ SetNetworkExtn(n, [extNet[n] EXCEPT !.cidrs = cidrs])
  /\ LET a == extNet[n].dn
     IN routed' = {r \in routed : r[1] # a} \cup {a} \X CidrsOf(a)'
  /\ UNCHANGED <<extSubnet, natEpgs, apicNets, natSubnets, sviVars>>

\* Only networks without an EPG of their own count for the APIC network, but
\* all of them for the L3Out.
DeleteExtNet(n) ==
  /\ n \in Rows(extNet) /\ SubnetsOf(n) = {}
  /\ extNet' = [extNet EXCEPT ![n] = Absent]
  /\ LET row == extNet[n]
         a == row.dn
         own == {a} \X row.cidrs
         others == OnApicNet(a) \ {n}
         detached == row.multi \/ {m \in others : ~extNet[m].multi} = {}
         last == OnL3Out(L3OutOf[a]) \ {n} = {} /\ ~HasMonitored(a)
     IN IF a = Absent THEN UNCHANGED <<natEpgs, apicNets, routed>>
        ELSE /\ routed' = IF detached THEN routed \ own ELSE routed
             /\ apicNets' = IF detached /\ others = {} /\ ~HasMonitored(a)
                            THEN apicNets \ {a} ELSE apicNets
             /\ natEpgs' = IF row.multi \/ last THEN natEpgs \ {EpgOf(n, row)} ELSE natEpgs
  /\ UNCHANGED <<extSubnet, natSubnets, sviVars>>

\* Mutant: among the networks of the APIC network only.
OverlapsOnApicNet(n, block) ==
  \E t \in Rows(extSubnet) : /\ extSubnet[t].block = block
                             /\ extSubnet[t].net \in OnApicNet(extNet[n].dn) \ {n}

\* Subnets.  Overlaps are looked for among all networks of the L3Out, but only
\* for a subnet created with a gateway.
Overlapping(n, block) ==
  \E t \in Rows(extSubnet) : /\ extSubnet[t].block = block
                             /\ extSubnet[t].net \in OnL3Out(L3OutOf[extNet[n].dn]) \ {n}

InNat(s, gw, place) == {<<EpgOf(s.net, extNet[s.net]), gw, place>>}

CreateExtSubnet(x, s) ==
  /\ extSubnet[x] = Absent /\ s.net \in Rows(extNet)
  /\ \A y \in SubnetsOf(s.net) : extSubnet[y].block # s.block
  /\ extSubnet' = [extSubnet EXCEPT ![x] = s]
  /\ IF s.gateway = Absent \/ s.net \notin Managed THEN UNCHANGED natSubnets
     ELSE /\ ~Overlapping(s.net, s.block)
          /\ natSubnets' = natSubnets \cup InNat(s, <<s.block, s.gateway>>, Place(s))
  /\ UNCHANGED <<extNet, natEpgs, apicNets, routed, sviVars>>

\* A changed gateway is always written to the bridge domain.
UpdateGateway(x, gw) ==
  /\ x \in Rows(extSubnet) /\ gw # extSubnet[x].gateway
  /\ extSubnet' = [extSubnet EXCEPT ![x].gateway = gw]
  /\ LET s == extSubnet[x]
         at(g) == IF g = Absent THEN {} ELSE InNat(s, <<s.block, g>>, "bd")
     IN natSubnets' = IF s.net \in Managed
                      THEN (natSubnets \ at(s.gateway)) \cup at(gw) ELSE natSubnets
  /\ UNCHANGED <<extNet, natEpgs, apicNets, routed, sviVars>>

DeleteExtSubnet(x) ==
  /\ x \in Rows(extSubnet)
  /\ extSubnet' = [extSubnet EXCEPT ![x] = Absent]
  /\ LET s == extSubnet[x]
     IN natSubnets' = IF s.gateway # Absent /\ s.net \in Managed
                      THEN natSubnets \ InNat(s, <<s.block, s.gateway>>, Place(s))
                      ELSE natSubnets
  /\ UNCHANGED <<extNet, natEpgs, apicNets, routed, sviVars>>

--------------------
\* SVI networks.

Exports(row) == row.bgp /\ row.type = "default_export"

CreateSvi(n, row) ==
  /\ svi[n] = Absent
  /\ svi' = [svi EXCEPT ![n] = row]
  /\ IF ~row.given /\ Exports(row)
     THEN exported' = exported \cup {n} /\ exported4' = exported4 \cup {n}
     ELSE UNCHANGED <<exported, exported4>>
  /\ UNCHANGED <<natVars, sviPaths, peers>>

\* The first port of the network on a path.
AddSviPath(n, p) ==
  /\ n \in Rows(svi) /\ <<n, p>> \notin sviPaths
  /\ sviPaths' = sviPaths \cup {<<n, p>>}
  /\ peers' = IF Exports(svi[n]) THEN peers \cup {<<n, p>>} ELSE peers
  /\ UNCHANGED <<natVars, svi, exported, exported4>>
RemoveSviPath(n, p) ==
  /\ <<n, p>> \in sviPaths
  /\ sviPaths' = sviPaths \ {<<n, p>>} /\ peers' = peers \ {<<n, p>>}
  /\ UNCHANGED <<natVars, svi, exported, exported4>>

\* Changes of the type while BGP is disabled are applied when it is enabled.
\* The IPv4 subnet looked up is none of those the network was created with.
UpdateBgp(n, bgp, type) ==
  /\ n \in Rows(svi)
  /\ svi' = [svi EXCEPT ![n].bgp = bgp, ![n].type = type]
  /\ LET row == svi[n]
         of(set) == {y \in set : y[1] = n}
         disabled == row.bgp /\ ~bgp
         written == bgp /\ (type # row.type \/ ~row.bgp)
     IN /\ peers' = IF disabled \/ (written /\ type = "") THEN peers \ of(peers)
                    ELSE IF written THEN peers \cup of(sviPaths)
                    ELSE peers
        /\ exported' = IF row.given \/ ~(disabled \/ written) THEN exported
                       ELSE IF written /\ type # "" THEN exported \cup {n}
                       ELSE exported \ {n}
  /\ UNCHANGED <<natVars, exported4, sviPaths>>

\* Below a given L3Out only the node profile goes, with its interfaces.
DeleteSvi(n) ==
  /\ n \in Rows(svi)
  /\ svi' = [svi EXCEPT ![n] = Absent]
  /\ exported' = exported \ {n} /\ exported4' = exported4 \ {n}
  /\ sviPaths' = {y \in sviPaths : y[1] # n} /\ peers' = {y \in peers : y[1] # n}
  /\ UNCHANGED natVars

--------------------
ExternalInit ==
  /\ extNet = [n \in ExtNets |-> Absent] /\ extSubnet = [s \in ExtSubnets |-> Absent]
  /\ natEpgs = {} /\ apicNets = {} /\ routed = {} /\ natSubnets = {}
  /\ svi = [n \in SviNetworks |-> Absent]
  /\ exported = {} /\ exported4 = {} /\ sviPaths = {} /\ peers = {}

ExternalTypeOK ==
  /\ \A n \in Rows(extNet) : extNet[n].cidrs \subseteq ExtCidrs
  /\ natEpgs \subseteq L3Outs \X (ExtNets \cup {Absent})
  /\ apicNets \subseteq ApicNets /\ routed \subseteq ApicNets \X ExtCidrs
  /\ peers \subseteq sviPaths

\* Every network has its NAT EPG, its APIC network and the gateways of its
\* subnets, whatever the others of the L3Out did, and without a network nothing
\* is left (delete_network_precommit).
NatFollowsNetworks ==
  /\ natEpgs = {EpgOf(n, extNet[n]) : n \in Managed}
  /\ apicNets \ {a \in ApicNets : L3OutOf[a] \in PreExisting} \subseteq {extNet[n].dn : n \in Managed}
  /\ \A n \in Managed : extNet[n].dn \in apicNets
  /\ natSubnets = UNION {InNat(s, <<s.block, s.gateway>>, Place(s)) :
                           s \in {extSubnet[x] : x \in {y \in Rows(extSubnet) :
                                    extSubnet[y].gateway # Absent /\ extSubnet[y].net \in Managed}}}

\* Every CIDR of a network is routed through its APIC network.
CidrsAreRouted == \A n \in Managed : {extNet[n].dn} \X extNet[n].cidrs \subseteq routed

\* And CIDRs go with a network that has an EPG of its own.  Those of one that
\* shares an EPG stay when others of its APIC network stay, until one of them is
\* created or gets other CIDRs: "all external networks that share this APIC
\* external network" is what create_network_precommit routes then, and what
\* validation expects at any time.
CidrsGo == \A r \in routed : r[1] \in MultiApicNets => r[2] \in CidrsOf(r[1])

\* Networks of one L3Out have no address in common
\* (ExternalSubnetOverlapInL3Out).
SubnetsAreDisjoint ==
  \A x, y \in Rows(extSubnet) :
    LET s == extSubnet[x]
        t == extSubnet[y]
    IN /\ s.net # t.net /\ {s.net, t.net} \subseteq Managed
       /\ L3OutOf[extNet[s.net].dn] = L3OutOf[extNet[t.net].dn]
       /\ s.gateway # Absent /\ t.gateway # Absent
       => s.block # t.block

\* Routes are exchanged over all interfaces of the networks that export
\* theirs and over no others, in whatever order BGP is enabled, its type
\* changed and ports are bound.
PeersFollowBgp ==
  /\ peers = {y \in sviPaths : Exports(svi[y[1]])}
  /\ exported = {n \in Rows(svi) : ~svi[n].given /\ Exports(svi[n])}
====================
