---------------------------- MODULE PortBindings ----------------------------
(* How the APIC mechanism driver binds ports.  On a host with an OpFlex
   agent a port binds to the network's opflex segment; on a physical host
   it binds to a VLAN segment that is allocated for the network.  The
   fabric is told: the endpoint group of the network lists the domains of
   its hosts and, for VLANs, the paths that lead to them; a network with
   an SVI has interfaces of an L3 outside instead.

   A binding is chosen in one transaction and committed in another.  An
   agent reports the link of a host, whose paths are rebuilt in several:
   its next report may come meanwhile.  No report takes a link away: the
   RPC endpoint answers delete_link without calling the driver. *)
EXTENDS FiniteSets

CONSTANTS BindingNetworks, Svi, Ports, PortNetwork, Hosts, Agents, Vlans, Paths,
          Domains, VmmDomains,
          HostDomains,     \* HostDomainMappingV2: rows of each host
          DefaultDomains,  \* and the rows of the host "*"
          Opflex,          \* the segment that is not a VLAN
          Absent,
          Flapping,        \* hosts whose reports may overlap
          Careful          \* operators and agents avoid the known races

\* The domains of a segment's type.
OfType(segment) == IF segment = Opflex THEN VmmDomains ELSE Domains \ VmmDomains

\* A host without rows has the default ones; without any of the type, all.
Wanted(h, segment) ==
  LET rows == IF HostDomains[h] # {} THEN HostDomains[h] ELSE DefaultDomains
      typed == rows \cap OfType(segment)
  IN IF typed = {} THEN OfType(segment) ELSE typed

SegmentOn(h) == IF h \in Agents THEN {Opflex} ELSE Vlans

\* A domain that is mapped to one host is not the default of another.
ASSUME DomainAssumption ==
  \A h, g \in Hosts : \A s \in SegmentOn(g) :
    HostDomains[g] \cap OfType(s) = {} => HostDomains[h] \cap Wanted(g, s) = {}

ASSUME BindingAssumption ==
  /\ PortNetwork \in [Ports -> BindingNetworks] /\ Svi \subseteq BindingNetworks
  /\ VmmDomains \subseteq Domains
  /\ Opflex \notin Vlans \cup {Absent} /\ Absent \notin Vlans \cup Paths

VARIABLES
  binding,  \* Absent or the [host, segment] a port is bound to
  chosen,   \* Absent or a binding to be committed, with what it made sure of
  dynamic,  \* the VLAN of the network's dynamic segment, or Absent
  link,     \* AIM: the path of the host's link, or Absent
  rebuild,  \* Absent, or where the last report of the host's link has come to
  overtaken, \* the same for the report before it (bound: one)
  domain,   \* AIM: the domains of the network's endpoint group
  static,   \* AIM: the [path, encap, host] of the group, or of the SVI
  sviPort   \* the nodes, each on a path, with an address on an SVI

portVars == <<binding, chosen, dynamic>>
reportVars == <<rebuild, overtaken>>
bindingVars == <<portVars, link, reportVars, domain, static, sviPort>>

Segments == Vlans \cup {Opflex}
Bindings == [host : Hosts, segment : Segments]
Listed == [net : BindingNetworks, encap : Vlans]

\* The reports of the host's link that are being worked on.
Running(h) == {rebuild[h], overtaken[h]} \ {Absent}

BindingTypeOK ==
  /\ binding \in [Ports -> Bindings \cup {Absent}]
  /\ \A p \in Ports : chosen[p] # Absent =>
       /\ chosen[p].host \in Hosts /\ chosen[p].segment \in Segments
       /\ chosen[p].ensured \in BOOLEAN
       /\ binding[p] = Absent
  /\ dynamic \in [BindingNetworks -> Vlans \cup {Absent}]
  /\ \A p \in Ports : binding[p] # Absent /\ binding[p].segment # Opflex =>
       binding[p].segment = dynamic[PortNetwork[p]]
  /\ link \in [Hosts -> Paths \cup {Absent}]
  /\ \A h \in Hosts : \A r \in Running(h) : r.todo \subseteq Listed
  /\ domain \in [BindingNetworks -> SUBSET Domains]
  /\ static \in [BindingNetworks -> SUBSET [path : Paths, encap : Vlans, host : Hosts]]
  /\ \A n \in BindingNetworks : \A s, t \in static[n] : s.path = t.path => s = t
  /\ sviPort \in [BindingNetworks -> SUBSET Paths]

BindingInit ==
  /\ binding = [p \in Ports |-> Absent] /\ chosen = binding
  /\ dynamic = [n \in BindingNetworks |-> Absent]
  /\ link = [h \in Hosts |-> Absent] /\ rebuild = link /\ overtaken = link
  /\ domain = [n \in BindingNetworks |-> {}] /\ static = domain /\ sviPort = domain

--------------------
(* What the handlers do to the endpoint groups. *)

IsOn(b, h) == IF b = Absent THEN FALSE ELSE b.host = h
BoundOn(hosts, p) ==
  \E q \in Ports \ {p} : binding[q] # Absent /\ binding[q].host \in hosts
SharesSegment(b, p) == \E q \in Ports \ {p} : binding[q] = b
UsesSegment(n, p) ==
  \E q \in Ports \ {p} : binding[q] # Absent /\ binding[q].segment = dynamic[n]

\* Mutant: the default mapping is not looked up.
AssociatedSpecific(n, b) ==
  IF n \in Svi THEN domain
  ELSE [domain EXCEPT ![n] = @ \cup (HostDomains[b.host] \cap OfType(b.segment))]

Associated(n, b) ==
  IF n \in Svi THEN domain
  ELSE [domain EXCEPT ![n] = @ \cup Wanted(b.host, b.segment)]

\* Mutant: the ports of the host alone are asked for.
DisassociatedHost(n, p) ==
  LET b == binding[p]
  IN IF n \in Svi \/ BoundOn({b.host}, p) THEN domain
     ELSE [domain EXCEPT ![n] = @ \ (HostDomains[b.host] \cap OfType(b.segment))]

\* The domains mapped to the host go, unless some port, of any network, is
\* bound to a host that has one of them.
Disassociated(n, p) ==
  LET b == binding[p]
      own == HostDomains[b.host] \cap OfType(b.segment)
      hosts == {h \in Hosts : HostDomains[h] \cap own # {}}
  IN IF n \in Svi \/ BoundOn(hosts, p) THEN domain
     ELSE [domain EXCEPT ![n] = @ \ own]

\* A static path takes the place of whatever uses its path.
WithPath(n, s) == [static EXCEPT ![n] = {t \in @ : t.path # s.path} \cup {s}]

StaticPath(b) == [path |-> link[b.host], encap |-> b.segment, host |-> b.host]

\* Without an address for its node an SVI gets no interface.
PathAdded(n, b) ==
  IF \/ b.segment = Opflex \/ link[b.host] = Absent
     \/ n \in Svi /\ link[b.host] \notin sviPort[n]
  THEN static ELSE WithPath(n, StaticPath(b))

\* Mutant: the path goes with every port.
PathRemovedAlways(n, p) ==
  [static EXCEPT ![n] = {t \in @ : t.path # link[binding[p].host]}]

\* The path that the host has now goes with the last port of the segment.
PathRemoved(n, p) ==
  LET b == binding[p]
  IN IF b.segment = Opflex \/ SharesSegment(b, p) THEN static
     ELSE [static EXCEPT ![n] = {t \in @ : t.path # link[b.host]}]

\* Mutant: the dynamic segment stays.
SegmentKept(n, p) == dynamic

SegmentReleased(n, p) ==
  IF binding[p].segment = Opflex \/ UsesSegment(n, p) THEN dynamic
  ELSE [dynamic EXCEPT ![n] = Absent]

--------------------
(* Ports. *)

\* A segment to bind to: the opflex one, the network's dynamic one, or a new
\* one with a VLAN that no network uses.
SegmentChoices(n, h) ==
  IF h \in Agents THEN {Opflex}
  ELSE IF dynamic[n] # Absent THEN {dynamic[n]}
  ELSE {v \in Vlans : \A m \in BindingNetworks : dynamic[m] # v}

\* A host is given to the port and a segment chosen.
ChooseBinding(p, h) ==
  LET n == PortNetwork[p]
  IN /\ binding[p] = Absent /\ chosen[p] = Absent
     /\ \E s \in SegmentChoices(n, h) :
          /\ chosen' = [chosen EXCEPT ![p] =
               [host |-> h, segment |-> s, ensured |-> n \notin Svi]]
          /\ dynamic' = IF s = Opflex THEN dynamic ELSE [dynamic EXCEPT ![n] = s]
     /\ UNCHANGED <<binding, link, reportVars, domain, static, sviPort>>

\* The node of a path gets an address on the SVI.
WithSviIp(n, path) == [sviPort EXCEPT ![n] = @ \cup ({path} \ {Absent})]

\* Before the commit of a binding.
EnsureSviIps(p) ==
  /\ chosen[p] # Absent /\ ~chosen[p].ensured
  /\ chosen' = [chosen EXCEPT ![p].ensured = TRUE]
  /\ sviPort' = IF chosen[p].segment = Opflex THEN sviPort
                ELSE WithSviIp(PortNetwork[p], link[chosen[p].host])
  /\ UNCHANGED <<binding, dynamic, link, reportVars, domain, static>>

\* The binding refers to the row of its segment.
CommitBinding(p) ==
  LET n == PortNetwork[p]
      b == [host |-> chosen[p].host, segment |-> chosen[p].segment]
  IN /\ chosen[p] # Absent /\ chosen[p].ensured
     /\ b.segment \in {Opflex, dynamic[n]}
     /\ binding' = [binding EXCEPT ![p] = b]
     /\ chosen' = [chosen EXCEPT ![p] = Absent]
     /\ domain' = Associated(n, b) /\ static' = PathAdded(n, b)
     /\ UNCHANGED <<dynamic, link, reportVars, sviPort>>

\* The segment is gone, or the port has changed: the choice is dropped.
DropBinding(p) ==
  /\ chosen[p] # Absent
  /\ Careful => \/ chosen[p].segment # dynamic[PortNetwork[p]]
                \/ UsesSegment(PortNetwork[p], p)
  /\ chosen' = [chosen EXCEPT ![p] = Absent]
  /\ UNCHANGED <<binding, dynamic, link, reportVars, domain, static, sviPort>>

\* The port is updated without a change of its host.
UpdatePort(p) ==
  LET n == PortNetwork[p]
  IN /\ binding[p] # Absent
     /\ domain' = Associated(n, binding[p]) /\ static' = PathAdded(n, binding[p])
     /\ UNCHANGED <<portVars, link, reportVars, sviPort>>

\* The port is deleted, or its host is taken from it or changed.
UnbindPort(p) ==
  LET n == PortNetwork[p]
  IN /\ binding[p] # Absent
     /\ Careful => Running(binding[p].host) = {}
     /\ domain' = Disassociated(n, p) /\ static' = PathRemoved(n, p)
     /\ dynamic' = SegmentReleased(n, p)
     /\ binding' = [binding EXCEPT ![p] = Absent]
     /\ UNCHANGED <<chosen, link, reportVars, sviPort>>

--------------------
(* Reports of links. *)

\* Careful: no port is about to be bound to the host, and a path belongs to one
\* host, which does not go back to one that is listed or about to be.  Only on a
\* flapping host is a report overtaken by the next.
UpdateLink(h, path) ==
  /\ link[h] # path
  /\ rebuild[h] # Absent => h \in Flapping /\ overtaken[h] = Absent
  /\ Careful =>
       /\ \A p \in Ports : ~IsOn(chosen[p], h)
       /\ \A g \in Hosts : link[g] # path
       /\ \A n \in BindingNetworks : \A s \in static[n] : s.path # path
       /\ \A g \in Hosts : \A r \in Running(g) : r.read # Absent => r.read.path # path
  /\ link' = [link EXCEPT ![h] = path]
  /\ rebuild' = [rebuild EXCEPT ![h] = [todo |-> {}, read |-> Absent, listed |-> FALSE]]
  /\ overtaken' = IF rebuild[h] = Absent THEN overtaken
                  ELSE [overtaken EXCEPT ![h] = rebuild[h]]
  /\ UNCHANGED <<portVars, domain, static, sviPort>>

\* One segment of each network with a port on the host.
NetworksOn(h) ==
  {[net |-> PortNetwork[p], encap |-> binding[p].segment] :
     p \in {q \in Ports : binding[q] # Absent /\ binding[q].host = h
                          /\ binding[q].segment # Opflex}}

Continue(todo) ==
  IF todo = {} THEN Absent ELSE [todo |-> todo, read |-> Absent, listed |-> TRUE]

\* The steps of a report, the last of its host or the one before.
ListNetworks(h, reports, after) ==
  /\ reports[h] # Absent /\ ~reports[h].listed
  /\ after = [reports EXCEPT ![h] = Continue(NetworksOn(h))]
  /\ UNCHANGED <<portVars, link, domain, static, sviPort>>

\* The static ports of a network are read and their nodes get addresses.
ReadStaticPorts(h, reports, after) ==
  /\ reports[h] # Absent /\ reports[h].read = Absent
  /\ \E t \in reports[h].todo :
       /\ after = [reports EXCEPT ![h].read =
            [net |-> t.net, path |-> link[h], encap |-> t.encap]]
       /\ sviPort' = IF t.net \notin Svi THEN sviPort ELSE WithSviIp(t.net, link[h])
  /\ UNCHANGED <<portVars, link, domain, static>>

\* Mutant: the old interfaces of the host stay.
RebuiltBesides(h, r) ==
  WithPath(r.net, [path |-> r.path, encap |-> r.encap, host |-> h])

\* An SVI loses the interfaces of the host first; a path that an endpoint
\* group lists already only gets the host.
Rebuilt(h, r) ==
  LET new == [path |-> r.path, encap |-> r.encap, host |-> h]
  IN IF r.net \in Svi
     THEN [static EXCEPT ![r.net] = {s \in @ : s.host # h /\ s.path # r.path} \cup {new}]
     ELSE IF \E s \in static[r.net] : s.path = r.path
     THEN [static EXCEPT ![r.net] =
             {IF s.path = r.path THEN [s EXCEPT !.host = h] ELSE s : s \in @}]
     ELSE WithPath(r.net, new)

WriteStaticPaths(h, reports, after) ==
  LET r == reports[h].read
  IN /\ reports[h] # Absent /\ r # Absent
     /\ static' = Rebuilt(h, r)
     /\ after = [reports EXCEPT ![h] =
          Continue(reports[h].todo \ {[net |-> r.net, encap |-> r.encap]})]
     /\ UNCHANGED <<portVars, link, domain, sviPort>>

ReportStep(h, reports, after) ==
  \/ ListNetworks(h, reports, after)
  \/ ReadStaticPorts(h, reports, after)
  \/ WriteStaticPaths(h, reports, after)

--------------------
PortStep ==
  \E p \in Ports :
    \/ \E h \in Hosts : ChooseBinding(p, h)
    \/ EnsureSviIps(p) \/ CommitBinding(p) \/ DropBinding(p)
    \/ UpdatePort(p) \/ UnbindPort(p)

LinkStep ==
  \E h \in Hosts :
    \/ \E path \in Paths : UpdateLink(h, path)
    \/ ReportStep(h, rebuild, rebuild') /\ UNCHANGED overtaken
    \/ ReportStep(h, overtaken, overtaken') /\ UNCHANGED rebuild

BindingNext == PortStep \/ LinkStep
BindingSpec == BindingInit /\ [][BindingNext]_bindingVars

--------------------
\* An older report of a host may take the interface away that a newer one made
\* on an SVI: what is on such a host of an SVI is not promised.
UpToDate(n, h) == Running(h) = {} /\ (n \in Svi => h \notin Flapping)

\* A bound port is reachable: the endpoint group of its network has the
\* domains of its host, whichever ports have come and gone on whichever
\* hosts; and behind the last report of the host's link the path of the link
\* leads to the port's segment.
BoundPortsAreReachable ==
  \A p \in Ports : binding[p] # Absent =>
    LET n == PortNetwork[p]
        b == binding[p]
    IN /\ n \notin Svi => Wanted(b.host, b.segment) \subseteq domain[n]
       /\ b.segment # Opflex /\ link[b.host] # Absent /\ UpToDate(n, b.host) =>
            StaticPath(b) \in static[n]

\* What a port needed goes with it: a path of an endpoint group that is still
\* the link of a host, and any interface of an SVI, lead to a port bound behind
\* them, and a dynamic segment has a port that is bound to it or about to be.
\* (Domains, and paths that were links before, may stay on an endpoint group.)
NothingIsLeaked ==
  /\ \A n \in BindingNetworks : \A s \in static[n] :
       UpToDate(n, s.host) /\ (n \in Svi \/ s.path = link[s.host]) =>
         \E p \in Ports : PortNetwork[p] = n /\ binding[p] # Absent /\ StaticPath(binding[p]) = s
  /\ \A n \in BindingNetworks : dynamic[n] # Absent =>
       \E p \in Ports : /\ PortNetwork[p] = n
                        /\ dynamic[n] \in {b.segment : b \in {binding[p], chosen[p]} \ {Absent}}
====================
