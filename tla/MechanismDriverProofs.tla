----------------------- MODULE MechanismDriverProofs -----------------------
(* Theorems about the mechanism driver.

   Bound ports have their domains and paths: the handlers ask whether
   another port is left on a host, on a segment or behind a path, which is
   right because a VLAN belongs to one network and a path to one host
   (ResourcesApart), because the path of a link is listed only for a port
   behind it (PathsAreUsed), and because a rebuild of paths knows what it
   has still to do (RebuildsGoOn).

   Rules let in the members of their remote groups: the handlers know
   which addresses come and go, not whose they are; that no two ports have
   an address in common (AddressesApart) is what makes taking an address
   out of a group right.

   Networks and routers that are connected without a scope are in one
   default VRF, that of a shared network if there is one (Placed).  The
   driver finds them by a walk over the topology; what is connected is
   described here by the sets a walk does not leave (Walled), which is
   what a new interface joins and the end of one splits.

   What is proved of remote groups and of owners of addresses holds of the
   installation: whichever topic a behaviour follows, a part moves as its
   own specification says or not at all. *)
EXTENDS MCMechanismDriver, FiniteSetTheorems, WellFoundedInduction, TLAPS

--------------------
(* Port bindings *)

BindingChoices == [host : Hosts, segment : Segments, ensured : BOOLEAN]
Reads == [net : BindingNetworks, path : Paths, encap : Vlans]
Rebuilds == [todo : SUBSET Listed, read : Reads \cup {Absent}, listed : BOOLEAN]

\* Absent is no record.
AbsentIsNoBinding == Absent \notin Bindings \cup BindingChoices \cup Reads \cup Rebuilds

\* BindingTypeOK where no report is overtaken.
RowsFit ==
  /\ binding \in [Ports -> Bindings \cup {Absent}]
  /\ \A p \in Ports : chosen[p] # Absent =>
       /\ chosen[p].host \in Hosts /\ chosen[p].segment \in Segments
       /\ chosen[p].ensured \in BOOLEAN
       /\ binding[p] = Absent
  /\ dynamic \in [BindingNetworks -> Vlans \cup {Absent}]
  /\ \A p \in Ports : binding[p] # Absent /\ binding[p].segment # Opflex =>
       binding[p].segment = dynamic[PortNetwork[p]]
  /\ link \in [Hosts -> Paths \cup {Absent}]
  /\ \A h \in Hosts : rebuild[h] # Absent => rebuild[h].todo \subseteq Listed
  /\ domain \in [BindingNetworks -> SUBSET Domains]
  /\ static \in [BindingNetworks -> SUBSET [path : Paths, encap : Vlans, host : Hosts]]
  /\ \A n \in BindingNetworks : \A s, t \in static[n] : s.path = t.path => s = t
  /\ sviPort \in [BindingNetworks -> SUBSET Paths]

BindingTypes ==
  /\ RowsFit
  /\ chosen \in [Ports -> BindingChoices \cup {Absent}]
  /\ rebuild \in [Hosts -> Rebuilds \cup {Absent}]

\* Hosts with an agent use the opflex segment, others a VLAN; a VLAN belongs to one
\* network and a path to one host.
ResourcesApart ==
  /\ \A p \in Ports : /\ binding[p] # Absent => binding[p].segment \in SegmentOn(binding[p].host)
                      /\ chosen[p] # Absent => chosen[p].segment \in SegmentOn(chosen[p].host)
  /\ \A m, n \in BindingNetworks : dynamic[m] = dynamic[n] /\ dynamic[m] # Absent => m = n
  /\ \A g, h \in Hosts : link[g] = link[h] /\ link[g] # Absent => g = h

\* A port of the network that is bound to a VLAN of the host.
BoundTo(n, h, p) ==
  /\ PortNetwork[p] = n /\ binding[p] # Absent
  /\ binding[p].host = h /\ binding[p].segment # Opflex

\* The node of a link has an address before the commit of a binding asks for it.
AddressesAreThere ==
  \A p \in Ports : chosen[p] # Absent =>
    LET n == PortNetwork[p]
        path == link[chosen[p].host]
    IN chosen[p].ensured /\ n \in Svi /\ chosen[p].segment # Opflex /\ path # Absent =>
         path \in sviPort[n]

\* The path of a link is listed for a port that is bound behind it.
PathsAreUsed ==
  \A n \in BindingNetworks : \A s \in static[n] : \A h \in Hosts : s.path = link[h] =>
    \E p \in Ports : BoundTo(n, h, p) /\ s = StaticPath(binding[p])

\* What a rebuild has still to do is what ports need.
RebuildsGoOn ==
  \A h \in Hosts : rebuild[h] # Absent =>
    /\ link[h] # Absent
    /\ ~rebuild[h].listed => rebuild[h].todo = {} /\ rebuild[h].read = Absent
    /\ \A t \in rebuild[h].todo : \E p \in Ports : BoundTo(t.net, h, p) /\ binding[p].segment = t.encap
    /\ rebuild[h].read # Absent =>
         /\ rebuild[h].read.path = link[h]
         /\ [net |-> rebuild[h].read.net, encap |-> rebuild[h].read.encap] \in rebuild[h].todo

\* A rebuild that has not listed the network, or will come to it.
WillRebuild(n, h) ==
  /\ rebuild[h] # Absent
  /\ rebuild[h].listed => \E t \in rebuild[h].todo : t.net = n

\* A bound port has its domains, and the path of its host's link or a rebuild will
\* list it.
DomainsAreListed ==
  \A p \in Ports : binding[p] # Absent /\ PortNetwork[p] \notin Svi =>
    Wanted(binding[p].host, binding[p].segment) \subseteq domain[PortNetwork[p]]
PathsAreListed ==
  \A h \in Hosts, n \in BindingNetworks : \A p \in Ports :
    BoundTo(n, h, p) /\ link[h] # Absent =>
      StaticPath(binding[p]) \in static[n] \/ WillRebuild(n, h)

\* An interface of an SVI is for a host with a port of it; if its path is old, a
\* rebuild will take it away.
InterfacesAreUsed ==
  \A n \in Svi : \A s \in static[n] :
    /\ \E p \in Ports : BoundTo(n, s.host, p)
    /\ s.path = link[s.host] \/ WillRebuild(n, s.host)

SegmentsAreUsed ==
  \A n \in BindingNetworks : dynamic[n] # Absent =>
    \E p \in Ports : /\ PortNetwork[p] = n
                     /\ \/ binding[p] # Absent /\ binding[p].segment = dynamic[n]
                        \/ chosen[p] # Absent /\ chosen[p].segment = dynamic[n]

BindingInv ==
  /\ BindingTypes /\ ResourcesApart /\ AddressesAreThere /\ PathsAreUsed /\ RebuildsGoOn
  /\ DomainsAreListed /\ PathsAreListed /\ InterfacesAreUsed /\ SegmentsAreUsed

\* Where no host's reports overlap.
NoneOvertaken == overtaken = [h \in Hosts |-> Absent]

LEMMA InitBinds ==
  ASSUME AbsentIsNoBinding, BindingInit
  PROVE  BindingInv
<1>1. BindingTypes
  BY BindingAssumption DEF BindingInit, BindingTypes, RowsFit
<1>2. ResourcesApart /\ AddressesAreThere /\ PathsAreUsed /\ RebuildsGoOn
  BY DEF BindingInit, ResourcesApart, AddressesAreThere, PathsAreUsed, RebuildsGoOn
<1>3. DomainsAreListed /\ PathsAreListed /\ InterfacesAreUsed /\ SegmentsAreUsed
  BY BindingAssumption DEF BindingInit, DomainsAreListed, PathsAreListed, InterfacesAreUsed,
    SegmentsAreUsed, BoundTo
<1> QED BY <1>1, <1>2, <1>3 DEF BindingInv

LEMMA BindingRows ==
  ASSUME AbsentIsNoBinding, BindingTypes
  PROVE  /\ \A p \in Ports : /\ binding[p] # Absent => binding[p] \in Bindings
                             /\ chosen[p] # Absent => chosen[p] \in BindingChoices
                             /\ PortNetwork[p] \in BindingNetworks
         /\ \A h \in Hosts : /\ rebuild[h] # Absent => rebuild[h] \in Rebuilds
                             /\ link[h] # Absent => link[h] \in Paths
BY BindingAssumption DEF BindingTypes, RowsFit

\* Ports of one network use one VLAN of a host.
LEMMA OneVlan ==
  ASSUME BindingTypes, NEW n, NEW h, NEW p \in Ports, NEW q \in Ports,
         BoundTo(n, h, p), BoundTo(n, h, q)
  PROVE  binding[p].segment = dynamic[n] /\ StaticPath(binding[p]) = StaticPath(binding[q])
BY DEF BindingTypes, RowsFit, BoundTo, StaticPath

--------------------
(* Domains *)

LEMMA WantedOfType ==
  ASSUME NEW h, NEW s
  PROVE  Wanted(h, s) \subseteq OfType(s) /\ OfType(s) \subseteq Domains
BY BindingAssumption DEF Wanted, OfType

\* The domains that only a host is mapped to are not what another wants.
LEMMA WantedApart ==
  ASSUME NEW g \in Hosts, NEW h \in Hosts, NEW s \in SegmentOn(g), NEW t,
         HostDomains[g] \cap (HostDomains[h] \cap OfType(t)) = {}
  PROVE  Wanted(g, s) \cap (HostDomains[h] \cap OfType(t)) = {}
<1>1. CASE HostDomains[g] \cap OfType(s) = {}
  BY <1>1, DomainAssumption
<1>2. CASE HostDomains[g] \cap OfType(s) # {}
  <2>1. Wanted(g, s) = HostDomains[g] \cap OfType(s)
    BY <1>2 DEF Wanted
  <2> QED BY <2>1
<1> QED BY <1>1, <1>2

--------------------
(* Ports *)

LEMMA ChooseBindingKeeps ==
  ASSUME AbsentIsNoBinding, BindingInv, NEW p \in Ports, NEW h \in Hosts, ChooseBinding(p, h)
  PROVE  BindingInv'
<1> DEFINE n == PortNetwork[p]
<1>1. n \in BindingNetworks /\ binding[p] = Absent /\ chosen[p] = Absent
  BY BindingAssumption DEF ChooseBinding
<1>2. PICK s \in SegmentChoices(n, h) :
        /\ chosen' = [chosen EXCEPT ![p] = [host |-> h, segment |-> s, ensured |-> n \notin Svi]]
        /\ dynamic' = IF s = Opflex THEN dynamic ELSE [dynamic EXCEPT ![n] = s]
  BY DEF ChooseBinding, reportVars
<1>3. UNCHANGED <<binding, link, rebuild, domain, static, sviPort>>
  BY DEF ChooseBinding, reportVars
<1> HIDE DEF n
<1>4. BindingTypes
  BY DEF BindingInv
<1>5. s \in SegmentOn(h) /\ s \in Segments
  BY <1>1, <1>4 DEF SegmentChoices, SegmentOn, Segments, BindingTypes, RowsFit
<1>6. s # Opflex =>
        /\ dynamic[n] \in {Absent, s}
        /\ dynamic[n] = Absent => \A m \in BindingNetworks : dynamic[m] # s
  BY DEF SegmentChoices
<1> DEFINE c == [host |-> h, segment |-> s, ensured |-> n \notin Svi]
<1>7. /\ c \in BindingChoices /\ c # Absent /\ c.segment = s /\ c.host = h
      /\ c.ensured /\ n \in Svi => FALSE
  <2>1. c \in BindingChoices
    BY <1>5 DEF BindingChoices
  <2> QED BY <2>1 DEF AbsentIsNoBinding
<1>8. /\ chosen'[p] = c /\ \A q \in Ports \ {p} : chosen'[q] = chosen[q]
      /\ \A m \in BindingNetworks \ {n} : dynamic'[m] = dynamic[m]
      /\ s # Opflex => dynamic'[n] = s
      /\ s = Opflex => dynamic'[n] = dynamic[n]
  BY <1>1, <1>2, <1>4 DEF BindingTypes, RowsFit
<1>9. dynamic' \in [BindingNetworks -> Vlans \cup {Absent}]
  BY <1>2, <1>4, <1>5 DEF BindingTypes, RowsFit, Segments
<1>10. chosen' \in [Ports -> BindingChoices \cup {Absent}]
  BY <1>2, <1>4, <1>7 DEF BindingTypes
<1> HIDE DEF c
<1>11. \A m \in BindingNetworks : dynamic[m] # Absent => dynamic'[m] = dynamic[m]
  BY <1>6, <1>8
<1>12. BindingTypes'
  <2>1. \A q \in Ports : chosen'[q] # Absent =>
          /\ chosen'[q].host \in Hosts /\ chosen'[q].segment \in Segments
          /\ chosen'[q].ensured \in BOOLEAN
          /\ binding'[q] = Absent
    BY <1>1, <1>3, <1>4, <1>7, <1>8 DEF BindingTypes, RowsFit, BindingChoices
  <2>2. \A q \in Ports : binding'[q] # Absent /\ binding'[q].segment # Opflex =>
          binding'[q].segment = dynamic'[PortNetwork[q]]
    BY <1>3, <1>4, <1>11, BindingRows, BindingAssumption
      DEF BindingTypes, RowsFit, Bindings, Segments
  <2> QED BY <1>3, <1>4, <1>9, <1>10, <2>1, <2>2 DEF BindingTypes, RowsFit
<1>13. ResourcesApart'
  BY <1>3, <1>5, <1>6, <1>7, <1>8 DEF BindingInv, ResourcesApart
<1>14. AddressesAreThere'
  BY <1>3, <1>7, <1>8 DEF BindingInv, AddressesAreThere, n
<1>15. PathsAreUsed' /\ RebuildsGoOn' /\ DomainsAreListed' /\ PathsAreListed' /\ InterfacesAreUsed'
  BY <1>3 DEF BindingInv, PathsAreUsed, RebuildsGoOn, DomainsAreListed, PathsAreListed,
    InterfacesAreUsed, BoundTo, StaticPath, WillRebuild
<1>16. SegmentsAreUsed'
  BY <1>1, <1>3, <1>7, <1>8 DEF BindingInv, SegmentsAreUsed, n
<1> QED BY <1>12, <1>13, <1>14, <1>15, <1>16 DEF BindingInv

LEMMA EnsureSviIpsKeeps ==
  ASSUME AbsentIsNoBinding, BindingInv, NEW p \in Ports, EnsureSviIps(p)
  PROVE  BindingInv'
<1> DEFINE n == PortNetwork[p]
           c == [chosen[p] EXCEPT !.ensured = TRUE]
<1>1. /\ chosen[p] # Absent
      /\ chosen' = [chosen EXCEPT ![p].ensured = TRUE]
      /\ sviPort' = IF chosen[p].segment = Opflex THEN sviPort
                    ELSE WithSviIp(n, link[chosen[p].host])
      /\ UNCHANGED <<binding, dynamic, link, rebuild, domain, static>>
  BY DEF EnsureSviIps, reportVars
<1>0. UNCHANGED <<binding, link, rebuild, domain, static>>
  BY <1>1
<1>2. BindingTypes /\ n \in BindingNetworks /\ chosen[p] \in BindingChoices
  BY <1>1, BindingRows DEF BindingInv
<1> HIDE DEF n
<1>3. /\ c \in BindingChoices /\ c # Absent
      /\ c.host = chosen[p].host /\ c.segment = chosen[p].segment
  BY <1>2 DEF BindingChoices, AbsentIsNoBinding
<1>4. chosen'[p] = c /\ \A q \in Ports \ {p} : chosen'[q] = chosen[q]
  BY <1>1, <1>2 DEF BindingTypes
<1>5. chosen' \in [Ports -> BindingChoices \cup {Absent}]
  BY <1>1, <1>2, <1>3 DEF BindingTypes
<1> HIDE DEF c
<1>6. link[chosen[p].host] \in Paths \cup {Absent}
  BY <1>2 DEF BindingTypes, RowsFit, BindingChoices
<1>7. /\ sviPort' \in [BindingNetworks -> SUBSET Paths]
      /\ \A m \in BindingNetworks : sviPort[m] \subseteq sviPort'[m]
  BY <1>1, <1>2, <1>6 DEF WithSviIp, BindingTypes, RowsFit
<1>8. BindingTypes'
  BY <1>1, <1>2, <1>3, <1>4, <1>5, <1>7 DEF BindingTypes, RowsFit, BindingChoices
<1>9. \A q \in Ports : /\ chosen'[q] # Absent <=> chosen[q] # Absent
                       /\ chosen'[q].host = chosen[q].host /\ chosen'[q].segment = chosen[q].segment
  BY <1>1, <1>3, <1>4
<1>13. ResourcesApart'
  BY <1>1, <1>9 DEF BindingInv, ResourcesApart
<1>14. SegmentsAreUsed'
  BY <1>1, <1>9 DEF BindingInv, SegmentsAreUsed
<1>10. AddressesAreThere'
  <2> SUFFICES ASSUME NEW q \in Ports, chosen'[q] # Absent, chosen'[q].ensured,
                      PortNetwork[q] \in Svi, chosen'[q].segment # Opflex,
                      link[chosen'[q].host] # Absent
               PROVE  link[chosen'[q].host] \in sviPort'[PortNetwork[q]]
    BY <1>1 DEF AddressesAreThere
  <2>1. CASE q = p
    <3>1. sviPort' = [sviPort EXCEPT ![n] = @ \cup ({link[c.host]} \ {Absent})]
      BY <1>1, <1>3, <1>4, <2>1 DEF WithSviIp
    <3> QED BY <1>2, <1>4, <2>1, <3>1 DEF BindingTypes, RowsFit, n
  <2>2. CASE q # p
    BY <1>4, <1>7, <2>2, BindingAssumption DEF BindingInv, AddressesAreThere
  <2> QED BY <2>1, <2>2
<1>11. PathsAreUsed' /\ RebuildsGoOn' /\ DomainsAreListed' /\ PathsAreListed' /\ InterfacesAreUsed'
  BY <1>0 DEF BindingInv, PathsAreUsed, RebuildsGoOn, DomainsAreListed, PathsAreListed,
    InterfacesAreUsed, BoundTo, StaticPath, WillRebuild
<1> QED BY <1>8, <1>10, <1>11, <1>13, <1>14 DEF BindingInv

LEMMA DropBindingKeeps ==
  ASSUME AbsentIsNoBinding, Careful, BindingInv, NEW p \in Ports, DropBinding(p)
  PROVE  BindingInv'
<1> DEFINE n == PortNetwork[p]
<1>1. /\ chosen[p] # Absent
      /\ chosen[p].segment # dynamic[n] \/ UsesSegment(n, p)
      /\ chosen' = [chosen EXCEPT ![p] = Absent]
      /\ UNCHANGED <<binding, dynamic, link, rebuild, domain, static, sviPort>>
  BY DEF DropBinding, reportVars
<1>0. UNCHANGED <<binding, link, rebuild, domain, static>>
  BY <1>1
<1>2. BindingTypes /\ n \in BindingNetworks
  BY BindingRows DEF BindingInv
<1> HIDE DEF n
<1>3. chosen'[p] = Absent /\ \A q \in Ports \ {p} : chosen'[q] = chosen[q]
  BY <1>1, <1>2 DEF BindingTypes
<1>4. BindingTypes'
  BY <1>1, <1>2, <1>3 DEF BindingTypes, RowsFit
<1>5. ResourcesApart' /\ AddressesAreThere'
  BY <1>1, <1>3 DEF BindingInv, ResourcesApart, AddressesAreThere
<1>6. PathsAreUsed' /\ RebuildsGoOn' /\ DomainsAreListed' /\ PathsAreListed' /\ InterfacesAreUsed'
  BY <1>0 DEF BindingInv, PathsAreUsed, RebuildsGoOn, DomainsAreListed, PathsAreListed,
    InterfacesAreUsed, BoundTo, StaticPath, WillRebuild
<1>7. SegmentsAreUsed'
  <2> SUFFICES ASSUME NEW m \in BindingNetworks, dynamic[m] # Absent
               PROVE  \E q \in Ports : /\ PortNetwork[q] = m
                                       /\ \/ binding[q] # Absent /\ binding[q].segment = dynamic[m]
                                          \/ chosen'[q] # Absent /\ chosen'[q].segment = dynamic[m]
    BY <1>1 DEF SegmentsAreUsed
  <2>1. PICK q \in Ports : /\ PortNetwork[q] = m
                           /\ \/ binding[q] # Absent /\ binding[q].segment = dynamic[m]
                              \/ chosen[q] # Absent /\ chosen[q].segment = dynamic[m]
    BY DEF BindingInv, SegmentsAreUsed
  <2>2. CASE q # p \/ (binding[q] # Absent /\ binding[q].segment = dynamic[m])
    BY <1>3, <2>1, <2>2
  <2>3. CASE q = p /\ chosen[p].segment = dynamic[n]
    <3>1. PICK o \in Ports : binding[o] # Absent /\ binding[o].segment = dynamic[n]
      BY <1>1, <2>3 DEF UsesSegment
    <3>2. PortNetwork[o] = n
      BY <1>2, <2>1, <2>3, <3>1, BindingRows, BindingAssumption
        DEF BindingInv, ResourcesApart, BindingTypes, RowsFit, n
    <3> QED BY <2>1, <2>3, <3>1, <3>2 DEF n
  <2>4. q # p \/ (binding[q] # Absent /\ binding[q].segment = dynamic[m])
        \/ (q = p /\ chosen[p].segment = dynamic[n])
    BY <2>1 DEF n
  <2> QED BY <2>2, <2>3, <2>4
<1> QED BY <1>4, <1>5, <1>6, <1>7 DEF BindingInv

--------------------
(* Bound ports *)

\* A port is bound, or is still bound, and the fabric is told.
LEMMA BoundKeeps ==
  ASSUME AbsentIsNoBinding, BindingInv, NEW p \in Ports, NEW b \in Bindings,
         b.segment \in SegmentOn(b.host), b.segment \in {Opflex, dynamic[PortNetwork[p]]},
         binding[p] \in {Absent, b},
         binding' = [binding EXCEPT ![p] = b], chosen' = [chosen EXCEPT ![p] = Absent],
         chosen[p] # Absent =>
           chosen[p].host = b.host /\ chosen[p].segment = b.segment /\ chosen[p].ensured,
         chosen[p] = Absent => binding[p] = b,
         domain' = Associated(PortNetwork[p], b), static' = PathAdded(PortNetwork[p], b),
         UNCHANGED dynamic, UNCHANGED link, UNCHANGED rebuild, UNCHANGED sviPort
  PROVE  BindingInv'
<1> DEFINE n == PortNetwork[p]
           s == StaticPath(b)
<1>1. BindingTypes /\ n \in BindingNetworks
  BY BindingRows DEF BindingInv
<1>2. b # Absent
  BY DEF AbsentIsNoBinding
<1>3. /\ binding'[p] = b /\ \A q \in Ports \ {p} : binding'[q] = binding[q]
      /\ chosen'[p] = Absent /\ \A q \in Ports \ {p} : chosen'[q] = chosen[q]
  BY <1>1 DEF BindingTypes, RowsFit
<1>4. /\ \A q \in Ports : binding[q] # Absent => binding'[q] = binding[q]
      /\ \A q \in Ports : binding'[q] # Absent => binding[q] = binding'[q] \/ q = p
  BY <1>3
<1>5. /\ \A m, h : \A q \in Ports : BoundTo(m, h, q) => BoundTo(m, h, q)'
      /\ \A m, h : \A q \in Ports \ {p} : BoundTo(m, h, q)' => BoundTo(m, h, q)
      /\ \A m, h : BoundTo(m, h, p)' <=> m = n /\ h = b.host /\ b.segment # Opflex
  BY <1>2, <1>3, <1>4 DEF BoundTo
<1>6. /\ \A q \in Ports : binding[q] # Absent => StaticPath(binding[q])' = StaticPath(binding[q])
      /\ \A q \in Ports \ {p} : StaticPath(binding[q])' = StaticPath(binding[q])
      /\ StaticPath(binding[p])' = s
  BY <1>3, <1>4 DEF StaticPath
<1>7. s.path = link[b.host] /\ s.encap = b.segment /\ s.host = b.host
  BY DEF StaticPath
<1>8. b.host \in Hosts /\ b.segment \in Segments
  BY DEF Bindings
<1>9. \/ static' = static
      \/ static' = WithPath(n, s) /\ b.segment # Opflex /\ link[b.host] # Absent
  BY DEF PathAdded
<1>10. b.segment # Opflex /\ link[b.host] # Absent => s \in static'[n] \/ WillRebuild(n, b.host)
  <2> SUFFICES ASSUME b.segment # Opflex, link[b.host] # Absent
               PROVE  s \in static'[n] \/ WillRebuild(n, b.host)
    OBVIOUS
  <2>1. CASE n \in Svi /\ link[b.host] \notin sviPort[n]
    <3>1. chosen[p] = Absent
      BY <2>1 DEF BindingInv, AddressesAreThere
    <3>2. binding[p] = b /\ static' = static
      BY <2>1, <3>1 DEF PathAdded
    <3> QED BY <1>1, <1>2, <1>8, <3>2 DEF BindingInv, PathsAreListed, BoundTo
  <2>2. CASE ~(n \in Svi /\ link[b.host] \notin sviPort[n])
    <3>1. static' = WithPath(n, s)
      BY <2>2 DEF PathAdded
    <3> QED BY <1>1, <3>1 DEF WithPath, BindingTypes, RowsFit
  <2> QED BY <2>1, <2>2
\* What another path of the network is about stays.
<1>11. /\ \A m \in BindingNetworks : \A t \in static[m] :
            t \in static'[m] \/ (m = n /\ t.path = s.path /\ b.segment # Opflex)
       /\ \A m \in BindingNetworks : \A t \in static'[m] :
            t \in static[m] \/ (m = n /\ t = s /\ b.segment # Opflex /\ link[b.host] # Absent)
  <2>1. CASE static' = static
    BY <2>1
  <2>2. CASE static' = WithPath(n, s) /\ b.segment # Opflex /\ link[b.host] # Absent
    <3>1. /\ static'[n] = {t \in static[n] : t.path # s.path} \cup {s}
          /\ \A m \in BindingNetworks \ {n} : static'[m] = static[m]
      BY <1>1, <2>2 DEF WithPath, BindingTypes, RowsFit
    <3> HIDE DEF s, n
    <3> QED BY <2>2, <3>1
  <2> QED BY <1>9, <2>1, <2>2
<1> HIDE DEF n, s
<1>12. BindingTypes'
  <2>1. binding' \in [Ports -> Bindings \cup {Absent}]
    BY <1>1 DEF BindingTypes, RowsFit
  <2>2. chosen' \in [Ports -> BindingChoices \cup {Absent}]
    BY <1>1 DEF BindingTypes
  <2>3. \A q \in Ports : chosen'[q] # Absent =>
          /\ chosen'[q].host \in Hosts /\ chosen'[q].segment \in Segments
          /\ chosen'[q].ensured \in BOOLEAN
          /\ binding'[q] = Absent
    BY <1>1, <1>3 DEF BindingTypes, RowsFit
  <2>4. \A q \in Ports : binding'[q] # Absent /\ binding'[q].segment # Opflex =>
          binding'[q].segment = dynamic[PortNetwork[q]]
    BY <1>1, <1>3 DEF BindingTypes, RowsFit
  <2>5. domain' \in [BindingNetworks -> SUBSET Domains]
    BY <1>1, WantedOfType DEF BindingTypes, RowsFit, Associated
  <2>6. b.segment # Opflex /\ link[b.host] # Absent =>
          s \in [path : Paths, encap : Vlans, host : Hosts]
    BY <1>1, <1>8 DEF BindingTypes, RowsFit, StaticPath, Segments, s
  <2>7. static' \in [BindingNetworks -> SUBSET [path : Paths, encap : Vlans, host : Hosts]]
    <3>1. CASE static' = static
      BY <1>1, <3>1 DEF BindingTypes, RowsFit
    <3>2. CASE static' = WithPath(n, s) /\ b.segment # Opflex /\ link[b.host] # Absent
      BY <1>1, <2>6, <3>2 DEF BindingTypes, RowsFit, WithPath
    <3> QED BY <1>9, <3>1, <3>2
  <2>8. \A m \in BindingNetworks : \A t, u \in static'[m] : t.path = u.path => t = u
    <3>1. CASE static' = static
      BY <1>1, <3>1 DEF BindingTypes, RowsFit
    <3>2. CASE static' = WithPath(n, s)
      <4>1. /\ static'[n] = {t \in static[n] : t.path # s.path} \cup {s}
            /\ \A m \in BindingNetworks \ {n} : static'[m] = static[m]
        BY <1>1, <3>2 DEF WithPath, BindingTypes, RowsFit
      <4> QED BY <1>1, <4>1 DEF BindingTypes, RowsFit
    <3> QED BY <1>9, <3>1, <3>2
  <2> QED BY <1>1, <2>1, <2>2, <2>3, <2>4, <2>5, <2>7, <2>8 DEF BindingTypes, RowsFit
<1>13. ResourcesApart' /\ AddressesAreThere'
  BY <1>3 DEF BindingInv, ResourcesApart, AddressesAreThere
<1>14. PathsAreUsed'
  <2> SUFFICES ASSUME NEW m \in BindingNetworks, NEW t \in static'[m], NEW h \in Hosts, t.path = link[h]
               PROVE  \E q \in Ports : BoundTo(m, h, q)' /\ t = StaticPath(binding[q])'
    BY DEF PathsAreUsed
  <2>1. CASE t \in static[m]
    BY <1>5, <1>6, <2>1 DEF BindingInv, PathsAreUsed, BoundTo
  <2>2. CASE m = n /\ t = s /\ b.segment # Opflex /\ link[b.host] # Absent
    <3>1. h = b.host
      BY <1>7, <1>8, <2>2 DEF BindingInv, ResourcesApart
    <3> QED BY <1>5, <1>6, <2>2, <3>1
  <2> QED BY <1>11, <2>1, <2>2
<1>15. RebuildsGoOn'
  <2>2. RebuildsGoOn
    BY DEF BindingInv
  <2> SUFFICES ASSUME NEW h \in Hosts, rebuild[h] # Absent, NEW t \in rebuild[h].todo
               PROVE  \E q \in Ports : BoundTo(t.net, h, q)' /\ binding'[q].segment = t.encap
    BY <2>2 DEF RebuildsGoOn
  <2>3. PICK q \in Ports : BoundTo(t.net, h, q) /\ binding[q].segment = t.encap
    BY <2>2 DEF RebuildsGoOn
  <2>4. BoundTo(t.net, h, q)' /\ binding'[q].segment = t.encap
    BY <1>4, <1>5, <2>3 DEF BoundTo
  <2> QED BY <2>4
<1>16. DomainsAreListed'
  <2>1. \A m \in BindingNetworks : domain[m] \subseteq domain'[m]
    BY <1>1 DEF Associated, BindingTypes, RowsFit
  <2>2. n \notin Svi => Wanted(b.host, b.segment) \subseteq domain'[n]
    BY <1>1 DEF Associated, BindingTypes, RowsFit, n
  <2> QED BY <1>3, <2>1, <2>2, BindingAssumption DEF BindingInv, DomainsAreListed, n
<1>17. PathsAreListed'
  <2> SUFFICES ASSUME NEW h \in Hosts, NEW m \in BindingNetworks, NEW q \in Ports,
                      BoundTo(m, h, q)', link[h] # Absent, ~WillRebuild(m, h)
               PROVE  StaticPath(binding[q])' \in static'[m]
    BY DEF PathsAreListed, WillRebuild
  <2>1. CASE q = p
    BY <1>5, <1>6, <1>10, <2>1
  <2>2. CASE q # p
    <3>1. BoundTo(m, h, q) /\ StaticPath(binding[q]) \in static[m]
      BY <1>5, <2>2 DEF BindingInv, PathsAreListed
    <3>2. CASE StaticPath(binding[q]) \in static'[m]
      BY <1>6, <2>2, <3>2
    <3>3. CASE m = n /\ StaticPath(binding[q]).path = s.path /\ b.segment # Opflex
      <4>1. h = b.host
        BY <1>7, <1>8, <3>1, <3>3 DEF BindingInv, ResourcesApart, BoundTo, StaticPath
      <4>2. b.segment = dynamic[n] /\ binding[q].segment = dynamic[n] /\ binding[q].host = b.host
        BY <1>1, <3>1, <3>3, <4>1 DEF BindingTypes, RowsFit, BoundTo, n
      <4>3. s = StaticPath(binding[q])
        BY <4>2 DEF StaticPath, s
      <4> QED BY <1>6, <1>10, <2>2, <3>3, <4>1, <4>3
    <3> QED BY <1>11, <3>1, <3>2, <3>3
  <2> QED BY <2>1, <2>2
<1>18. InterfacesAreUsed'
  <2> SUFFICES ASSUME NEW m \in Svi, NEW t \in static'[m]
               PROVE  /\ \E q \in Ports : BoundTo(m, t.host, q)'
                      /\ t.path = link[t.host] \/ WillRebuild(m, t.host)
    BY DEF InterfacesAreUsed, WillRebuild
  <2>1. CASE t \in static[m]
    BY <1>5, <2>1 DEF BindingInv, InterfacesAreUsed
  <2>2. CASE m = n /\ t = s /\ b.segment # Opflex
    BY <1>5, <1>7, <2>2
  <2> QED BY <1>11, <2>1, <2>2, BindingAssumption
<1>19. SegmentsAreUsed'
  <2> SUFFICES ASSUME NEW m \in BindingNetworks, dynamic[m] # Absent
               PROVE  \E q \in Ports : /\ PortNetwork[q] = m
                                       /\ \/ binding'[q] # Absent /\ binding'[q].segment = dynamic[m]
                                          \/ chosen'[q] # Absent /\ chosen'[q].segment = dynamic[m]
    BY DEF SegmentsAreUsed
  <2>1. PICK q \in Ports : /\ PortNetwork[q] = m
                           /\ \/ binding[q] # Absent /\ binding[q].segment = dynamic[m]
                              \/ chosen[q] # Absent /\ chosen[q].segment = dynamic[m]
    BY DEF BindingInv, SegmentsAreUsed
  <2>2. CASE q = p
    BY <1>2, <1>3, <2>1, <2>2
  <2>3. CASE q # p
    BY <1>3, <2>1, <2>3
  <2> QED BY <2>2, <2>3
<1> QED BY <1>12, <1>13, <1>14, <1>15, <1>16, <1>17, <1>18, <1>19 DEF BindingInv

LEMMA CommitBindingKeeps ==
  ASSUME AbsentIsNoBinding, BindingInv, NEW p \in Ports, CommitBinding(p)
  PROVE  BindingInv'
<1> DEFINE b == [host |-> chosen[p].host, segment |-> chosen[p].segment]
<1>1. /\ chosen[p] # Absent /\ chosen[p].ensured
      /\ b.segment \in {Opflex, dynamic[PortNetwork[p]]}
      /\ binding' = [binding EXCEPT ![p] = b]
      /\ chosen' = [chosen EXCEPT ![p] = Absent]
      /\ domain' = Associated(PortNetwork[p], b) /\ static' = PathAdded(PortNetwork[p], b)
      /\ UNCHANGED <<dynamic, link, rebuild, sviPort>>
  BY DEF CommitBinding, reportVars
<1>2. /\ b \in Bindings /\ b.host = chosen[p].host /\ b.segment = chosen[p].segment
      /\ binding[p] = Absent
  BY <1>1, BindingRows DEF BindingInv, BindingTypes, RowsFit, Bindings, BindingChoices
<1>3. b.segment \in SegmentOn(b.host)
  BY <1>1, <1>2 DEF BindingInv, ResourcesApart
<1> HIDE DEF b
<1> QED BY <1>1, <1>2, <1>3, BoundKeeps

LEMMA UpdatePortKeeps ==
  ASSUME AbsentIsNoBinding, BindingInv, NEW p \in Ports, UpdatePort(p)
  PROVE  BindingInv'
<1> DEFINE b == binding[p]
<1>1. /\ b # Absent
      /\ domain' = Associated(PortNetwork[p], b) /\ static' = PathAdded(PortNetwork[p], b)
      /\ UNCHANGED <<binding, chosen, dynamic, link, rebuild, sviPort>>
  BY DEF UpdatePort, portVars, reportVars
<1>2. b \in Bindings /\ b.segment \in {Opflex, dynamic[PortNetwork[p]]} /\ chosen[p] = Absent
  BY <1>1, BindingRows DEF BindingInv, BindingTypes, RowsFit
<1>3. binding' = [binding EXCEPT ![p] = b] /\ chosen' = [chosen EXCEPT ![p] = Absent]
  BY <1>1, <1>2 DEF BindingInv, BindingTypes, RowsFit
<1>4. b.segment \in SegmentOn(b.host)
  BY <1>1 DEF BindingInv, ResourcesApart
<1> HIDE DEF b
<1>5. binding[p] = b
  BY DEF b
<1> QED BY <1>1, <1>2, <1>3, <1>4, <1>5, BoundKeeps

LEMMA UnbindPortKeeps ==
  ASSUME AbsentIsNoBinding, Careful, BindingInv, NEW p \in Ports, UnbindPort(p)
  PROVE  BindingInv'
<1> DEFINE n == PortNetwork[p]
           b == binding[p]
           own == HostDomains[b.host] \cap OfType(b.segment)
<1>1. /\ b # Absent /\ rebuild[b.host] = Absent
      /\ domain' = Disassociated(n, p) /\ static' = PathRemoved(n, p)
      /\ dynamic' = SegmentReleased(n, p)
      /\ binding' = [binding EXCEPT ![p] = Absent]
      /\ UNCHANGED <<chosen, link, rebuild, sviPort>>
  BY DEF UnbindPort, Running, reportVars
<1>2. UNCHANGED chosen /\ UNCHANGED link /\ UNCHANGED rebuild /\ UNCHANGED sviPort
  BY <1>1
<1>3. /\ BindingTypes /\ n \in BindingNetworks /\ b \in Bindings /\ chosen[p] = Absent
      /\ b.segment \in {Opflex, dynamic[n]}
  BY <1>1, BindingRows DEF BindingInv, BindingTypes, RowsFit
<1>4. b.host \in Hosts /\ b.segment \in Segments
  BY <1>3 DEF Bindings
<1>5. binding'[p] = Absent /\ \A q \in Ports \ {p} : binding'[q] = binding[q]
  BY <1>1, <1>3 DEF BindingTypes, RowsFit
<1>6. /\ \A m, h : \A q \in Ports : BoundTo(m, h, q)' => BoundTo(m, h, q) /\ q # p
      /\ \A m, h : \A q \in Ports \ {p} : BoundTo(m, h, q) => BoundTo(m, h, q)'
  BY <1>5 DEF BoundTo
<1>7. \A q \in Ports \ {p} : StaticPath(binding[q])' = StaticPath(binding[q])
  BY <1>2, <1>5 DEF StaticPath
\* The segment stays with another port, and the path with another of the host.
<1>8. \A q \in Ports \ {p} : binding[q] # Absent /\ binding[q].segment # Opflex
        /\ PortNetwork[q] = n => dynamic'[n] = dynamic[n]
  BY <1>1, <1>3 DEF SegmentReleased, UsesSegment, BindingTypes, RowsFit
<1>9. /\ \A m \in BindingNetworks \ {n} : dynamic'[m] = dynamic[m]
      /\ dynamic'[n] # Absent => dynamic'[n] = dynamic[n] /\ (b.segment = Opflex \/ UsesSegment(n, p))
      /\ dynamic' \in [BindingNetworks -> Vlans \cup {Absent}]
  BY <1>1, <1>3 DEF SegmentReleased, BindingTypes, RowsFit
<1>10. /\ \A m \in BindingNetworks \ {n} : static'[m] = static[m]
       /\ \/ static'[n] = static[n] /\ (b.segment = Opflex \/ SharesSegment(b, p))
          \/ /\ static'[n] = {t \in static[n] : t.path # link[b.host]}
             /\ b.segment # Opflex /\ ~SharesSegment(b, p)
       /\ static' \in [BindingNetworks -> SUBSET [path : Paths, encap : Vlans, host : Hosts]]
  BY <1>1, <1>3 DEF PathRemoved, BindingTypes, RowsFit
<1>11. domain' \in [BindingNetworks -> SUBSET Domains]
  BY <1>1, <1>3 DEF Disassociated, BindingTypes, RowsFit
<1>12. BindingTypes'
  <2>1. \A q \in Ports : binding'[q] # Absent /\ binding'[q].segment # Opflex =>
          binding'[q].segment = dynamic'[PortNetwork[q]]
    BY <1>3, <1>5, <1>8, <1>9, BindingRows DEF BindingTypes, RowsFit
  <2>2. binding' \in [Ports -> Bindings \cup {Absent}]
    BY <1>1, <1>3 DEF BindingTypes, RowsFit
  <2>3. \A m \in BindingNetworks : static'[m] \subseteq static[m]
    BY <1>10
  <2>4. \A m \in BindingNetworks : \A t, u \in static'[m] : t.path = u.path => t = u
    BY <1>3, <2>3 DEF BindingTypes, RowsFit
  <2>5. \A q \in Ports : chosen'[q] # Absent =>
          /\ chosen'[q].host \in Hosts /\ chosen'[q].segment \in Segments
          /\ chosen'[q].ensured \in BOOLEAN
          /\ binding'[q] = Absent
    BY <1>2, <1>3, <1>5 DEF BindingTypes, RowsFit
  <2> QED BY <1>2, <1>3, <1>9, <1>10, <1>11, <2>1, <2>2, <2>4, <2>5 DEF BindingTypes, RowsFit
<1>13. ResourcesApart' /\ AddressesAreThere'
  <2>1. \A m \in BindingNetworks : dynamic'[m] # Absent => dynamic'[m] = dynamic[m]
    BY <1>9
  <2> QED BY <1>2, <1>5, <2>1 DEF BindingInv, ResourcesApart, AddressesAreThere
\* Whom a port of the network on the host shares its path with.
<1>14. \A q \in Ports : BoundTo(n, b.host, q) => b.segment = Opflex \/ binding[q] = b
  BY <1>3 DEF BindingTypes, RowsFit, BoundTo, Bindings
<1>15. SharesSegment(b, p) /\ b.segment # Opflex =>
         \E q \in Ports \ {p} : binding[q] = b /\ BoundTo(n, b.host, q)
  <2> SUFFICES ASSUME NEW q \in Ports \ {p}, binding[q] = b, b.segment # Opflex
               PROVE  PortNetwork[q] = n
    BY <1>1 DEF SharesSegment, BoundTo
  <2>1. dynamic[PortNetwork[q]] = b.segment /\ dynamic[n] = b.segment
    BY <1>1, <1>3 DEF BindingTypes, RowsFit
  <2>2. b.segment # Absent /\ PortNetwork[q] \in BindingNetworks
    BY <1>4, BindingAssumption DEF Segments
  <2> QED BY <1>3, <2>1, <2>2 DEF BindingInv, ResourcesApart
<1> HIDE DEF n, b, own
<1>16. PathsAreUsed'
  <2> SUFFICES ASSUME NEW m \in BindingNetworks, NEW t \in static'[m], NEW h \in Hosts, t.path = link[h]
               PROVE  \E q \in Ports : BoundTo(m, h, q)' /\ t = StaticPath(binding[q])'
    BY <1>2 DEF PathsAreUsed
  <2>1. t \in static[m]
    BY <1>10
  <2>2. PICK q \in Ports : BoundTo(m, h, q) /\ t = StaticPath(binding[q])
    BY <2>1 DEF BindingInv, PathsAreUsed
  <2>3. CASE q # p
    BY <1>6, <1>7, <2>2, <2>3
  <2>4. CASE q = p
    <3>1. m = n /\ h = b.host /\ b.segment # Opflex /\ t = StaticPath(b)
      BY <2>2, <2>4 DEF BoundTo, n, b
    <3>2. PICK o \in Ports \ {p} : binding[o] = b /\ BoundTo(n, b.host, o)
      BY <1>10, <1>15, <3>1
    <3> QED BY <1>6, <1>7, <3>1, <3>2
  <2> QED BY <2>3, <2>4
<1>17. RebuildsGoOn'
  <2>1. RebuildsGoOn
    BY DEF BindingInv
  <2> SUFFICES ASSUME NEW h \in Hosts, rebuild[h] # Absent, NEW t \in rebuild[h].todo
               PROVE  \E q \in Ports : BoundTo(t.net, h, q)' /\ binding'[q].segment = t.encap
    BY <1>2, <2>1 DEF RebuildsGoOn
  <2>2. PICK q \in Ports : BoundTo(t.net, h, q) /\ binding[q].segment = t.encap
    BY <2>1 DEF RebuildsGoOn
  <2>3. q # p
    BY <1>1, <2>2 DEF BoundTo, b
  <2>4. BoundTo(t.net, h, q)' /\ binding'[q].segment = t.encap
    BY <1>5, <1>6, <2>2, <2>3
  <2> QED BY <2>4
<1>18. DomainsAreListed'
  <2> SUFFICES ASSUME NEW q \in Ports, q # p, binding[q] # Absent, PortNetwork[q] \notin Svi
               PROVE  Wanted(binding[q].host, binding[q].segment) \subseteq domain'[PortNetwork[q]]
    BY <1>5 DEF DomainsAreListed
  <2> DEFINE m == PortNetwork[q]
             w == Wanted(binding[q].host, binding[q].segment)
  <2>1. m \in BindingNetworks /\ w \subseteq domain[m]
    BY <1>3, BindingRows DEF BindingInv, DomainsAreListed
  <2>2. binding[q].host \in Hosts /\ binding[q].segment \in SegmentOn(binding[q].host)
    BY <1>3, BindingRows DEF BindingInv, ResourcesApart, Bindings
  <2>3. CASE n \in Svi \/ BoundOn({h \in Hosts : HostDomains[h] \cap own # {}}, p)
    <3>1. domain' = domain
      BY <1>1, <2>3 DEF Disassociated, n, b, own
    <3> QED BY <2>1, <3>1
  <2>4. CASE ~BoundOn({h \in Hosts : HostDomains[h] \cap own # {}}, p) /\ n \notin Svi
    <3>1. domain' = [domain EXCEPT ![n] = @ \ own]
      BY <1>1, <2>4 DEF Disassociated, n, b, own
    <3>2. HostDomains[binding[q].host] \cap own = {}
      BY <2>2, <2>4 DEF BoundOn
    <3>3. w \cap own = {}
      BY <1>4, <2>2, <3>2, WantedApart DEF own
    <3> HIDE DEF w, m
    <3>4. domain'[m] = IF m = n THEN domain[n] \ own ELSE domain[m]
      BY <1>3, <2>1, <3>1 DEF BindingTypes, RowsFit
    <3>5. w \subseteq domain'[m]
      BY <2>1, <3>3, <3>4
    <3> QED BY <3>5 DEF w, m
  <2> QED BY <2>3, <2>4
<1>19. PathsAreListed'
  <2> SUFFICES ASSUME NEW h \in Hosts, NEW m \in BindingNetworks, NEW q \in Ports,
                      BoundTo(m, h, q)', link[h] # Absent, ~WillRebuild(m, h)
               PROVE  StaticPath(binding[q])' \in static'[m]
    BY <1>2 DEF PathsAreListed, WillRebuild
  <2>1. q # p /\ BoundTo(m, h, q)
    BY <1>6
  <2>2. StaticPath(binding[q]) \in static[m] /\ StaticPath(binding[q]).path = link[h]
    BY <2>1 DEF BindingInv, PathsAreListed, BoundTo, StaticPath
  <2>3. StaticPath(binding[q]) \in static'[m]
    <3> SUFFICES ASSUME m = n, link[h] = link[b.host], b.segment # Opflex, ~SharesSegment(b, p)
                 PROVE  FALSE
      BY <1>10, <2>2
    <3>1. h = b.host
      BY <1>4 DEF BindingInv, ResourcesApart
    <3>2. binding[q] = b
      BY <1>14, <2>1, <3>1
    <3> QED BY <2>1, <3>2 DEF SharesSegment
  <2> QED BY <1>7, <2>1, <2>3
<1>20. InterfacesAreUsed'
  <2> SUFFICES ASSUME NEW m \in Svi, NEW t \in static'[m]
               PROVE  /\ \E q \in Ports : BoundTo(m, t.host, q)'
                      /\ t.path = link[t.host] \/ WillRebuild(m, t.host)
    BY <1>2 DEF InterfacesAreUsed, WillRebuild
  <2>1. t \in static[m] /\ m \in BindingNetworks
    BY <1>10, BindingAssumption
  <2>2. PICK q \in Ports : BoundTo(m, t.host, q)
    BY <2>1 DEF BindingInv, InterfacesAreUsed
  <2>3. t.path = link[t.host] \/ WillRebuild(m, t.host)
    BY <2>1 DEF BindingInv, InterfacesAreUsed
  <2>4. CASE q # p
    BY <1>6, <2>2, <2>3, <2>4
  <2>5. CASE q = p
    <3>1. m = n /\ t.host = b.host /\ b.segment # Opflex
      BY <2>2, <2>5 DEF BoundTo, n, b
    <3>2. t.path = link[b.host]
      BY <1>1, <2>3, <3>1 DEF WillRebuild
    <3>3. PICK o \in Ports \ {p} : BoundTo(n, b.host, o)
      BY <1>10, <1>15, <3>1, <3>2
    <3> QED BY <1>6, <2>3, <3>1, <3>3
  <2> QED BY <2>4, <2>5
<1>21. SegmentsAreUsed'
  <2> SUFFICES ASSUME NEW m \in BindingNetworks, dynamic'[m] # Absent
               PROVE  \E q \in Ports : /\ PortNetwork[q] = m
                                       /\ \/ binding'[q] # Absent /\ binding'[q].segment = dynamic'[m]
                                          \/ chosen[q] # Absent /\ chosen[q].segment = dynamic'[m]
    BY <1>2 DEF SegmentsAreUsed
  <2>1. dynamic'[m] = dynamic[m]
    BY <1>9
  <2>2. PICK q \in Ports : /\ PortNetwork[q] = m
                           /\ \/ binding[q] # Absent /\ binding[q].segment = dynamic[m]
                              \/ chosen[q] # Absent /\ chosen[q].segment = dynamic[m]
    BY <2>1 DEF BindingInv, SegmentsAreUsed
  <2>3. CASE q # p
    BY <1>5, <2>1, <2>2, <2>3
  <2>4. CASE q = p
    <3>1. m = n /\ b.segment = dynamic[n] /\ b.segment # Absent
      BY <1>3, <2>1, <2>2, <2>4 DEF n, b
    <3>2. b.segment # Opflex
      BY <1>3, <2>1, <3>1, BindingAssumption DEF BindingTypes, RowsFit
    <3>3. PICK o \in Ports \ {p} : binding[o] # Absent /\ binding[o].segment = dynamic[n]
      BY <1>9, <3>1, <3>2 DEF UsesSegment
    <3>4. dynamic[PortNetwork[o]] = dynamic[n] /\ PortNetwork[o] \in BindingNetworks
      BY <1>3, <3>1, <3>2, <3>3, BindingAssumption DEF BindingTypes, RowsFit
    <3>5. PortNetwork[o] = n
      BY <1>3, <3>1, <3>4 DEF BindingInv, ResourcesApart
    <3> QED BY <1>5, <2>1, <3>1, <3>3, <3>5
  <2> QED BY <2>3, <2>4
<1> QED BY <1>12, <1>13, <1>16, <1>17, <1>18, <1>19, <1>20, <1>21 DEF BindingInv

--------------------
(* Links *)

LEMMA UpdateLinkKeeps ==
  ASSUME AbsentIsNoBinding, Careful, Flapping = {}, BindingInv, NEW h \in Hosts,
         NEW path \in Paths, UpdateLink(h, path)
  PROVE  BindingInv'
<1> DEFINE r == [todo |-> {}, read |-> Absent, listed |-> FALSE]
<1>1. /\ rebuild[h] = Absent
      /\ \A p \in Ports : chosen[p] # Absent => chosen[p].host # h
      /\ \A g \in Hosts : link[g] # path
      /\ \A n \in BindingNetworks : \A s \in static[n] : s.path # path
      /\ link' = [link EXCEPT ![h] = path]
      /\ rebuild' = [rebuild EXCEPT ![h] = r]
      /\ UNCHANGED <<binding, chosen, dynamic, domain, static, sviPort>>
  BY DEF UpdateLink, IsOn, portVars
<1>2. UNCHANGED binding /\ UNCHANGED chosen /\ UNCHANGED dynamic /\ UNCHANGED domain
      /\ UNCHANGED static /\ UNCHANGED sviPort
  BY <1>1
<1>3. BindingTypes /\ path # Absent
  BY BindingAssumption DEF BindingInv
<1>4. r \in Rebuilds /\ r.todo = {} /\ r.read = Absent /\ ~r.listed
  BY DEF Rebuilds
<1> HIDE DEF r
<1>5. r # Absent
  BY <1>4 DEF AbsentIsNoBinding
<1>6. /\ rebuild'[h] = r /\ \A g \in Hosts \ {h} : rebuild'[g] = rebuild[g]
      /\ link'[h] = path /\ \A g \in Hosts \ {h} : link'[g] = link[g]
  BY <1>1, <1>3 DEF BindingTypes, RowsFit
<1>7. BindingTypes'
  <2>1. link' \in [Hosts -> Paths \cup {Absent}] /\ rebuild' \in [Hosts -> Rebuilds \cup {Absent}]
    BY <1>1, <1>3, <1>4 DEF BindingTypes, RowsFit
  <2>2. \A g \in Hosts : rebuild'[g] # Absent => rebuild'[g].todo \subseteq Listed
    BY <1>3, <1>4, <1>6 DEF BindingTypes, RowsFit
  <2> QED BY <1>2, <1>3, <2>1, <2>2 DEF BindingTypes, RowsFit
<1>8. ResourcesApart'
  BY <1>1, <1>2, <1>6 DEF BindingInv, ResourcesApart
<1>9. AddressesAreThere'
  <2>1. \A p \in Ports : chosen[p] # Absent => link'[chosen[p].host] = link[chosen[p].host]
    BY <1>1, <1>3, <1>6 DEF BindingTypes, RowsFit
  <2> QED BY <1>2, <2>1 DEF BindingInv, AddressesAreThere
<1>10. \A m, g : \A p \in Ports : BoundTo(m, g, p)' <=> BoundTo(m, g, p)
  BY <1>2 DEF BoundTo
<1>11. \A m : \A g \in Hosts \ {h} : \A p \in Ports : BoundTo(m, g, p) =>
         StaticPath(binding[p])' = StaticPath(binding[p])
  BY <1>2, <1>6 DEF BoundTo, StaticPath
<1>12. /\ \A m : \A g \in Hosts \ {h} : WillRebuild(m, g)' <=> WillRebuild(m, g)
       /\ \A m : WillRebuild(m, h)'
  BY <1>4, <1>5, <1>6 DEF WillRebuild
<1>13. PathsAreUsed'
  <2> SUFFICES ASSUME NEW m \in BindingNetworks, NEW t \in static[m], NEW g \in Hosts, t.path = link'[g]
               PROVE  \E q \in Ports : BoundTo(m, g, q)' /\ t = StaticPath(binding[q])'
    BY <1>2 DEF PathsAreUsed
  <2>1. g # h
    BY <1>1, <1>6
  <2>2. PICK q \in Ports : BoundTo(m, g, q) /\ t = StaticPath(binding[q])
    BY <1>6, <2>1 DEF BindingInv, PathsAreUsed
  <2> QED BY <1>10, <1>11, <2>1, <2>2
<1>14. RebuildsGoOn'
  <2>1. RebuildsGoOn
    BY DEF BindingInv
  <2> SUFFICES ASSUME NEW g \in Hosts, rebuild'[g] # Absent
               PROVE  /\ link'[g] # Absent
                      /\ ~rebuild'[g].listed => rebuild'[g].todo = {} /\ rebuild'[g].read = Absent
                      /\ \A t \in rebuild'[g].todo :
                           \E p \in Ports : BoundTo(t.net, g, p)' /\ binding'[p].segment = t.encap
                      /\ rebuild'[g].read # Absent =>
                           /\ rebuild'[g].read.path = link'[g]
                           /\ [net |-> rebuild'[g].read.net, encap |-> rebuild'[g].read.encap]
                                \in rebuild'[g].todo
    BY DEF RebuildsGoOn
  <2>2. CASE g = h
    BY <1>3, <1>4, <1>6, <2>2
  <2>3. CASE g # h
    <3>1. /\ link[g] # Absent
          /\ ~rebuild[g].listed => rebuild[g].todo = {} /\ rebuild[g].read = Absent
          /\ rebuild[g].read # Absent =>
               /\ rebuild[g].read.path = link[g]
               /\ [net |-> rebuild[g].read.net, encap |-> rebuild[g].read.encap] \in rebuild[g].todo
      BY <1>6, <2>1, <2>3 DEF RebuildsGoOn
    <3>2. ASSUME NEW t \in rebuild[g].todo
          PROVE  \E p \in Ports : BoundTo(t.net, g, p)' /\ binding'[p].segment = t.encap
      <4>1. PICK p \in Ports : BoundTo(t.net, g, p) /\ binding[p].segment = t.encap
        BY <1>6, <2>1, <2>3 DEF RebuildsGoOn
      <4> QED BY <1>2, <1>10, <4>1
    <3> QED BY <1>6, <2>3, <3>1, <3>2
  <2> QED BY <2>2, <2>3
<1>15. DomainsAreListed' /\ SegmentsAreUsed'
  BY <1>2 DEF BindingInv, DomainsAreListed, SegmentsAreUsed
<1>16. PathsAreListed'
  BY <1>2, <1>6, <1>10, <1>11, <1>12 DEF BindingInv, PathsAreListed
<1>17. InterfacesAreUsed'
  <2> SUFFICES ASSUME NEW m \in Svi, NEW t \in static[m]
               PROVE  /\ \E q \in Ports : BoundTo(m, t.host, q)'
                      /\ t.path = link'[t.host] \/ WillRebuild(m, t.host)'
    BY <1>2 DEF InterfacesAreUsed
  <2>1. t.host \in Hosts
    BY <1>3, BindingAssumption DEF BindingTypes, RowsFit
  <2> QED BY <1>6, <1>10, <1>12, <2>1 DEF BindingInv, InterfacesAreUsed
<1> QED BY <1>7, <1>8, <1>9, <1>13, <1>14, <1>15, <1>16, <1>17 DEF BindingInv

\* A rebuild goes on, and what it has still to do is enough.
LEMMA RebuildKeeps ==
  ASSUME AbsentIsNoBinding, BindingInv, NEW h \in Hosts, NEW r \in Rebuilds \cup {Absent},
         rebuild[h] # Absent, rebuild' = [rebuild EXCEPT ![h] = r],
         UNCHANGED portVars, UNCHANGED link, UNCHANGED domain,
         sviPort' \in [BindingNetworks -> SUBSET Paths],
         \A n \in BindingNetworks : sviPort[n] \subseteq sviPort'[n],
         static' \in [BindingNetworks -> SUBSET [path : Paths, encap : Vlans, host : Hosts]],
         \A n \in BindingNetworks : \A s, t \in static'[n] : s.path = t.path => s = t,
         PathsAreUsed', PathsAreListed', InterfacesAreUsed',
         r # Absent =>
           /\ ~r.listed => r.todo = {} /\ r.read = Absent
           /\ \A t \in r.todo : \E p \in Ports : BoundTo(t.net, h, p) /\ binding[p].segment = t.encap
           /\ r.read # Absent => /\ r.read.path = link[h]
                                 /\ [net |-> r.read.net, encap |-> r.read.encap] \in r.todo
  PROVE  BindingInv'
<1>1. UNCHANGED binding /\ UNCHANGED chosen /\ UNCHANGED dynamic
  BY DEF portVars
<1>2. BindingTypes
  BY DEF BindingInv
<1>3. rebuild'[h] = r /\ \A g \in Hosts \ {h} : rebuild'[g] = rebuild[g]
  BY <1>2 DEF BindingTypes
<1>4. BindingTypes'
  <2>1. rebuild' \in [Hosts -> Rebuilds \cup {Absent}]
    BY <1>2 DEF BindingTypes
  <2>2. r # Absent => r.todo \subseteq Listed
    BY DEF Rebuilds
  <2>3. \A g \in Hosts : rebuild'[g] # Absent => rebuild'[g].todo \subseteq Listed
    BY <1>2, <1>3, <2>2 DEF BindingTypes, RowsFit
  <2> QED BY <1>1, <1>2, <2>1, <2>3 DEF BindingTypes, RowsFit
<1>5. ResourcesApart' /\ DomainsAreListed' /\ SegmentsAreUsed'
  BY ZenonT(40), <1>1 DEF BindingInv, ResourcesApart, DomainsAreListed, SegmentsAreUsed
<1>6. AddressesAreThere'
  BY <1>1, BindingAssumption DEF BindingInv, AddressesAreThere
<1>7. \A m, g : \A p \in Ports : BoundTo(m, g, p)' <=> BoundTo(m, g, p)
  BY <1>1 DEF BoundTo
<1>8. RebuildsGoOn'
  <2>1. RebuildsGoOn
    BY DEF BindingInv
  <2> SUFFICES ASSUME NEW g \in Hosts, rebuild'[g] # Absent
               PROVE  /\ link[g] # Absent
                      /\ ~rebuild'[g].listed => rebuild'[g].todo = {} /\ rebuild'[g].read = Absent
                      /\ \A t \in rebuild'[g].todo :
                           \E p \in Ports : BoundTo(t.net, g, p)' /\ binding'[p].segment = t.encap
                      /\ rebuild'[g].read # Absent =>
                           /\ rebuild'[g].read.path = link[g]
                           /\ [net |-> rebuild'[g].read.net, encap |-> rebuild'[g].read.encap]
                                \in rebuild'[g].todo
    BY DEF RebuildsGoOn
  <2>2. CASE g = h
    <3>1. link[h] # Absent
      BY <2>1 DEF RebuildsGoOn
    <3>2. ASSUME NEW t \in r.todo
          PROVE  \E p \in Ports : BoundTo(t.net, h, p)' /\ binding'[p].segment = t.encap
      <4>1. PICK p \in Ports : BoundTo(t.net, h, p) /\ binding[p].segment = t.encap
        BY <1>3, <2>2
      <4> QED BY <1>1, <1>7, <4>1
    <3> QED BY <1>3, <2>2, <3>1, <3>2
  <2>3. CASE g # h
    <3>1. /\ link[g] # Absent
          /\ ~rebuild[g].listed => rebuild[g].todo = {} /\ rebuild[g].read = Absent
          /\ rebuild[g].read # Absent =>
               /\ rebuild[g].read.path = link[g]
               /\ [net |-> rebuild[g].read.net, encap |-> rebuild[g].read.encap] \in rebuild[g].todo
      BY <1>3, <2>1, <2>3 DEF RebuildsGoOn
    <3>2. ASSUME NEW t \in rebuild[g].todo
          PROVE  \E p \in Ports : BoundTo(t.net, g, p)' /\ binding'[p].segment = t.encap
      <4>1. PICK p \in Ports : BoundTo(t.net, g, p) /\ binding[p].segment = t.encap
        BY <1>3, <2>1, <2>3 DEF RebuildsGoOn
      <4> QED BY <1>1, <1>7, <4>1
    <3> QED BY <1>3, <2>3, <3>1, <3>2
  <2> QED BY <2>2, <2>3
<1> QED BY <1>4, <1>5, <1>6, <1>8 DEF BindingInv

LEMMA ListNetworksKeeps ==
  ASSUME AbsentIsNoBinding, BindingInv, NEW h \in Hosts,
         ListNetworks(h, rebuild, rebuild')
  PROVE  BindingInv'
<1> DEFINE r == IF NetworksOn(h) = {} THEN Absent
                ELSE [todo |-> NetworksOn(h), read |-> Absent, listed |-> TRUE]
<1>1. /\ rebuild[h] # Absent /\ rebuild' = [rebuild EXCEPT ![h] = r]
      /\ UNCHANGED portVars /\ UNCHANGED link /\ UNCHANGED domain
      /\ UNCHANGED static /\ UNCHANGED sviPort
  BY DEF ListNetworks, Continue
<1>2. BindingTypes
  BY DEF BindingInv
<1>3. \A p \in Ports : \A n : BoundTo(n, h, p) =>
        [net |-> n, encap |-> binding[p].segment] \in NetworksOn(h)
  BY DEF BoundTo, NetworksOn
<1>4. \A t \in NetworksOn(h) : /\ \E p \in Ports : BoundTo(t.net, h, p) /\ binding[p].segment = t.encap
                               /\ t \in Listed
  BY <1>2, BindingRows DEF BoundTo, NetworksOn, Listed, Bindings, Segments
<1>5. /\ r \in Rebuilds \cup {Absent}
      /\ r = Absent <=> NetworksOn(h) = {}
      /\ r # Absent => r.todo = NetworksOn(h) /\ r.read = Absent /\ r.listed
  <2>1. [todo |-> NetworksOn(h), read |-> Absent, listed |-> TRUE] \in Rebuilds
    BY <1>4 DEF Rebuilds
  <2>2. Absent \notin Rebuilds
    BY DEF AbsentIsNoBinding
  <2> QED BY <2>1, <2>2
<1> HIDE DEF r
<1>6. rebuild'[h] = r /\ \A g \in Hosts \ {h} : rebuild'[g] = rebuild[g]
  BY <1>1, <1>2 DEF BindingTypes
<1>7. /\ \A m : \A g \in Hosts \ {h} : WillRebuild(m, g)' <=> WillRebuild(m, g)
      /\ \A m : (\E p \in Ports : BoundTo(m, h, p)) => WillRebuild(m, h)'
  <2>1. ASSUME NEW m, NEW p \in Ports, BoundTo(m, h, p)
        PROVE  WillRebuild(m, h)'
    <3>1. [net |-> m, encap |-> binding[p].segment] \in NetworksOn(h)
      BY <1>3, <2>1
    <3> QED BY <1>5, <1>6, <3>1 DEF WillRebuild
  <2> QED BY <1>6, <2>1 DEF WillRebuild
<1>8. UNCHANGED binding
  BY <1>1 DEF portVars
<1>9. \A m, g : \A p \in Ports : /\ BoundTo(m, g, p)' <=> BoundTo(m, g, p)
                                 /\ StaticPath(binding[p])' = StaticPath(binding[p])
  BY <1>1, <1>8 DEF BoundTo, StaticPath
<1>10. PathsAreUsed'
  BY <1>1, <1>9 DEF BindingInv, PathsAreUsed
<1>11. PathsAreListed'
  BY <1>1, <1>7, <1>9 DEF BindingInv, PathsAreListed
<1>12. InterfacesAreUsed'
  <2> SUFFICES ASSUME NEW m \in Svi, NEW t \in static[m]
               PROVE  /\ \E q \in Ports : BoundTo(m, t.host, q)'
                      /\ t.path = link[t.host] \/ WillRebuild(m, t.host)'
    BY <1>1 DEF InterfacesAreUsed
  <2>1. t.host \in Hosts
    BY <1>2, BindingAssumption DEF BindingTypes, RowsFit
  <2> QED BY <1>7, <1>9, <2>1 DEF BindingInv, InterfacesAreUsed
<1> QED
  BY ZenonT(40), <1>1, <1>2, <1>4, <1>5, <1>10, <1>11, <1>12, RebuildKeeps DEF BindingTypes,
    RowsFit

LEMMA ReadStaticPortsKeeps ==
  ASSUME AbsentIsNoBinding, BindingInv, NEW h \in Hosts,
         ReadStaticPorts(h, rebuild, rebuild')
  PROVE  BindingInv'
<1>1. PICK t \in rebuild[h].todo :
        /\ rebuild' = [rebuild EXCEPT ![h].read = [net |-> t.net, path |-> link[h], encap |-> t.encap]]
        /\ sviPort' = IF t.net \notin Svi THEN sviPort ELSE WithSviIp(t.net, link[h])
  BY DEF ReadStaticPorts
<1>2. /\ rebuild[h] # Absent
      /\ UNCHANGED portVars /\ UNCHANGED link /\ UNCHANGED domain /\ UNCHANGED static
  BY DEF ReadStaticPorts
<1>3. BindingTypes /\ rebuild[h] \in Rebuilds /\ t \in Listed /\ link[h] \in Paths
  BY <1>2, BindingRows DEF BindingInv, RebuildsGoOn, BindingTypes, RowsFit
<1> DEFINE d == [net |-> t.net, path |-> link[h], encap |-> t.encap]
           r == [rebuild[h] EXCEPT !.read = d]
<1>4. d \in Reads /\ d.net = t.net /\ d.path = link[h] /\ d.encap = t.encap
  BY <1>3 DEF Reads, Listed
<1>5. rebuild' = [rebuild EXCEPT ![h] = r]
  BY <1>1
<1>6. t = [net |-> d.net, encap |-> d.encap]
  BY <1>3, <1>4 DEF Listed
<1> HIDE DEF d
<1>7. /\ r \in Rebuilds /\ r.todo = rebuild[h].todo /\ r.read = d
      /\ r.listed = rebuild[h].listed
  BY <1>3, <1>4 DEF Rebuilds
<1>8. r # Absent
  BY <1>7 DEF AbsentIsNoBinding
<1> HIDE DEF r
<1>9. rebuild'[h] = r /\ \A g \in Hosts \ {h} : rebuild'[g] = rebuild[g]
  BY <1>3, <1>5 DEF BindingTypes
<1>10. r.listed
  BY <1>1, <1>2, <1>7 DEF BindingInv, RebuildsGoOn
<1>11. \A m : \A g \in Hosts : WillRebuild(m, g)' <=> WillRebuild(m, g)
  BY <1>2, <1>7, <1>8, <1>9 DEF WillRebuild
<1>12. UNCHANGED binding
  BY <1>2 DEF portVars
<1>13. \A m, g : \A p \in Ports : /\ BoundTo(m, g, p)' <=> BoundTo(m, g, p)
                                  /\ StaticPath(binding[p])' = StaticPath(binding[p])
  BY <1>2, <1>12 DEF BoundTo, StaticPath
<1>14. PathsAreUsed'
  BY <1>2, <1>13 DEF BindingInv, PathsAreUsed
<1>15. PathsAreListed'
  BY <1>2, <1>11, <1>13 DEF BindingInv, PathsAreListed
<1>16. InterfacesAreUsed'
  <2> SUFFICES ASSUME NEW m \in Svi, NEW u \in static[m]
               PROVE  /\ \E q \in Ports : BoundTo(m, u.host, q)'
                      /\ u.path = link[u.host] \/ WillRebuild(m, u.host)'
    BY <1>2 DEF InterfacesAreUsed
  <2>1. u.host \in Hosts
    BY <1>3, BindingAssumption DEF BindingTypes, RowsFit
  <2> QED BY <1>11, <1>13, <2>1 DEF BindingInv, InterfacesAreUsed
<1>17. /\ sviPort' \in [BindingNetworks -> SUBSET Paths]
       /\ \A m \in BindingNetworks : sviPort[m] \subseteq sviPort'[m]
  BY <1>1, <1>3 DEF WithSviIp, BindingTypes, RowsFit
<1>18. \A u \in r.todo : \E p \in Ports : BoundTo(u.net, h, p) /\ binding[p].segment = u.encap
  BY <1>2, <1>7 DEF BindingInv, RebuildsGoOn
<1>19. [net |-> r.read.net, encap |-> r.read.encap] \in r.todo /\ r.read.path = link[h]
  BY <1>4, <1>6, <1>7
<1>20. /\ static' \in [BindingNetworks -> SUBSET [path : Paths, encap : Vlans, host : Hosts]]
       /\ \A n \in BindingNetworks : \A u, v \in static'[n] : u.path = v.path => u = v
  BY <1>2, <1>3 DEF BindingTypes, RowsFit
<1> QED
  BY <1>2, <1>5, <1>7, <1>10, <1>14, <1>15, <1>16, <1>17, <1>18, <1>19, <1>20, RebuildKeeps

\* What a rebuild writes is for a port: it takes no other host's path away, and
\* another path of the host only from an SVI.
LEMMA RebuiltFacts ==
  ASSUME BindingInv, NEW h \in Hosts, NEW r \in Reads, NEW o \in Ports, link[h] # Absent,
         r.path = link[h], BoundTo(r.net, h, o), binding[o].segment = r.encap
  PROVE  LET new == [path |-> r.path, encap |-> r.encap, host |-> h]
         IN /\ new = StaticPath(binding[o])
            /\ Rebuilt(h, r) \in [BindingNetworks -> SUBSET [path : Paths, encap : Vlans, host : Hosts]]
            /\ \A m \in BindingNetworks \ {r.net} : Rebuilt(h, r)[m] = static[m]
            /\ new \in Rebuilt(h, r)[r.net]
            /\ \A t \in Rebuilt(h, r)[r.net] : t = new \/ (t \in static[r.net] /\ t.path # new.path)
            /\ \A t \in static[r.net] : t.host # h => t \in Rebuilt(h, r)[r.net]
            /\ r.net \in Svi => \A t \in Rebuilt(h, r)[r.net] : t.host = h => t = new
<1> DEFINE n == r.net
           new == [path |-> r.path, encap |-> r.encap, host |-> h]
           S == Rebuilt(h, r)
<1>1. BindingTypes /\ n \in BindingNetworks
  BY DEF BindingInv, Reads
<1>2. /\ new.path = link[h] /\ new.host = h
      /\ new \in [path : Paths, encap : Vlans, host : Hosts]
      /\ new = StaticPath(binding[o])
  BY DEF StaticPath, BoundTo, Reads
\* The path of the host is listed for the same VLAN, if it is.
<1>3. \A t \in static[n] : t.path = link[h] => t = new
  <2> SUFFICES ASSUME NEW t \in static[n], t.path = link[h]
               PROVE  t = StaticPath(binding[o])
    BY <1>2
  <2>1. PICK q \in Ports : BoundTo(n, h, q) /\ t = StaticPath(binding[q])
    BY <1>1 DEF BindingInv, PathsAreUsed
  <2> QED BY <1>1, <2>1, OneVlan
<1> HIDE DEF new
<1>4. CASE n \in Svi
  <2>1. S = [static EXCEPT ![n] = {s \in @ : s.host # h /\ s.path # r.path} \cup {new}]
    BY <1>4 DEF Rebuilt, new
  <2>2. /\ S[n] = {s \in static[n] : s.host # h /\ s.path # link[h]} \cup {new}
        /\ \A m \in BindingNetworks \ {n} : S[m] = static[m]
        /\ S \in [BindingNetworks -> SUBSET [path : Paths, encap : Vlans, host : Hosts]]
    BY <1>1, <1>2, <2>1 DEF BindingTypes, RowsFit
  <2> HIDE DEF n, S
  <2>3. /\ new \in S[n] /\ \A t \in S[n] : t = new \/ (t \in static[n] /\ t.path # new.path)
        /\ \A t \in static[n] : t.host # h => t \in S[n]
        /\ \A t \in S[n] : t.host = h => t = new
    <3>1. \A t \in static[n] : t.host # h => t.path # link[h]
      BY <1>2, <1>3
    <3> QED BY <1>2, <2>2, <3>1
  <2> QED BY <1>2, <2>2, <2>3 DEF n, S, new
<1>5. CASE n \notin Svi /\ \E s \in static[n] : s.path = r.path
  <2>1. S = [static EXCEPT ![n] =
              {IF s.path = r.path THEN [s EXCEPT !.host = h] ELSE s : s \in static[n]}]
    BY <1>5 DEF Rebuilt
  <2>2. \A s \in static[n] : s.path = r.path => [s EXCEPT !.host = h] = s
    <3>1. new = [new EXCEPT !.host = h]
      BY DEF new
    <3> QED BY <1>3, <3>1
  <2>3. {IF s.path = r.path THEN [s EXCEPT !.host = h] ELSE s : s \in static[n]} = static[n]
    BY <2>2
  <2>4. S = static
    BY <1>1, <2>1, <2>3 DEF BindingTypes, RowsFit
  <2>5. new \in static[n]
    BY <1>3, <1>5
  <2> QED BY <1>1, <1>2, <1>3, <1>5, <2>4, <2>5 DEF BindingTypes, RowsFit, new
<1>6. CASE n \notin Svi /\ ~\E s \in static[n] : s.path = r.path
  <2>1. S = [static EXCEPT ![n] = {t \in @ : t.path # new.path} \cup {new}]
    BY <1>6 DEF Rebuilt, WithPath, new
  <2>2. /\ S[n] = {t \in static[n] : t.path # new.path} \cup {new}
        /\ \A m \in BindingNetworks \ {n} : S[m] = static[m]
        /\ S \in [BindingNetworks -> SUBSET [path : Paths, encap : Vlans, host : Hosts]]
    BY <1>1, <1>2, <2>1 DEF BindingTypes, RowsFit
  <2> HIDE DEF S
  <2>3. \A t \in static[n] : t.path # new.path
    BY <1>2, <1>6
  <2> QED BY <1>2, <1>6, <2>2, <2>3 DEF new, S
<1> QED BY <1>4, <1>5, <1>6

LEMMA WriteStaticPathsKeeps ==
  ASSUME AbsentIsNoBinding, BindingInv, NEW h \in Hosts,
         WriteStaticPaths(h, rebuild, rebuild')
  PROVE  BindingInv'
<1> DEFINE r == rebuild[h].read
           e == [net |-> r.net, encap |-> r.encap]
           n == r.net
           todo == rebuild[h].todo \ {e}
           go == IF todo = {} THEN Absent ELSE [todo |-> todo, read |-> Absent, listed |-> TRUE]
           new == [path |-> r.path, encap |-> r.encap, host |-> h]
<1>1. /\ rebuild[h] # Absent /\ r # Absent /\ static' = Rebuilt(h, r)
      /\ rebuild' = [rebuild EXCEPT ![h] = go]
      /\ UNCHANGED portVars /\ UNCHANGED link /\ UNCHANGED domain /\ UNCHANGED sviPort
  BY DEF WriteStaticPaths, Continue
<1>2. BindingTypes /\ rebuild[h] \in Rebuilds /\ r \in Reads
  BY <1>1, BindingRows DEF BindingInv, Rebuilds
<1>3. /\ link[h] # Absent /\ r.path = link[h] /\ e \in rebuild[h].todo
      /\ \A t \in rebuild[h].todo : \E p \in Ports : BoundTo(t.net, h, p) /\ binding[p].segment = t.encap
  BY <1>1 DEF BindingInv, RebuildsGoOn
<1>4. PICK o \in Ports : BoundTo(n, h, o) /\ binding[o].segment = r.encap
  <2>1. e.net = n /\ e.encap = r.encap
    OBVIOUS
  <2> HIDE DEF e, n
  <2> QED BY <1>3, <2>1
<1>5. n \in BindingNetworks
  BY <1>2 DEF Reads
<1>6. /\ new = StaticPath(binding[o])
      /\ static' \in [BindingNetworks -> SUBSET [path : Paths, encap : Vlans, host : Hosts]]
      /\ \A m \in BindingNetworks \ {n} : static'[m] = static[m]
      /\ new \in static'[n]
      /\ \A t \in static'[n] : t = new \/ (t \in static[n] /\ t.path # new.path)
      /\ \A t \in static[n] : t.host # h => t \in static'[n]
      /\ n \in Svi => \A t \in static'[n] : t.host = h => t = new
  BY SMTT(30), <1>1, <1>2, <1>3, <1>4, RebuiltFacts
<1>7. new.path = link[h] /\ new.host = h
  BY <1>3
<1>8. /\ go \in Rebuilds \cup {Absent}
      /\ go = Absent <=> todo = {}
      /\ go # Absent => go.todo = todo /\ go.read = Absent /\ go.listed
  <2>1. [todo |-> todo, read |-> Absent, listed |-> TRUE] \in Rebuilds
    BY <1>2 DEF Rebuilds
  <2>2. Absent \notin Rebuilds
    BY DEF AbsentIsNoBinding
  <2> QED BY <2>1, <2>2
<1>9. \A t \in rebuild[h].todo : t.net # n => t \in todo
  OBVIOUS
<1>10. todo \subseteq rebuild[h].todo
  OBVIOUS
<1> HIDE DEF go, new, r, e, n, todo
<1>11. rebuild'[h] = go /\ \A g \in Hosts \ {h} : rebuild'[g] = rebuild[g]
  BY <1>1, <1>2 DEF BindingTypes
\* The rebuild comes to what it would have come to, but for the network.
<1>12. \A m \in BindingNetworks : \A g \in Hosts :
         g # h \/ m # n => (WillRebuild(m, g) => WillRebuild(m, g)')
  <2>1. ASSUME NEW m \in BindingNetworks, m # n, WillRebuild(m, h)
        PROVE  WillRebuild(m, h)'
    <3>1. rebuild[h].listed
      BY <1>1, <1>3 DEF BindingInv, RebuildsGoOn
    <3>2. PICK t \in rebuild[h].todo : t.net = m
      BY <2>1, <3>1 DEF WillRebuild
    <3>3. t \in todo
      BY <1>9, <2>1, <3>2
    <3> QED BY <1>8, <1>11, <3>2, <3>3 DEF WillRebuild
  <2>2. ASSUME NEW m \in BindingNetworks, NEW g \in Hosts \ {h}, WillRebuild(m, g)
        PROVE  WillRebuild(m, g)'
    BY <1>11, <2>2 DEF WillRebuild
  <2> QED BY <2>1, <2>2
<1>13. UNCHANGED binding
  BY <1>1 DEF portVars
<1>14. \A m, g : \A p \in Ports : /\ BoundTo(m, g, p)' <=> BoundTo(m, g, p)
                                  /\ StaticPath(binding[p])' = StaticPath(binding[p])
  BY <1>1, <1>13 DEF BoundTo, StaticPath
<1>15. \A m \in BindingNetworks : \A s, t \in static'[m] : s.path = t.path => s = t
  BY <1>2, <1>6 DEF BindingTypes, RowsFit
<1>16. PathsAreUsed'
  <2> SUFFICES ASSUME NEW m \in BindingNetworks, NEW t \in static'[m], NEW g \in Hosts, t.path = link[g]
               PROVE  \E q \in Ports : BoundTo(m, g, q) /\ t = StaticPath(binding[q])
    BY <1>1, <1>14 DEF PathsAreUsed
  <2>1. CASE t \in static[m]
    BY <2>1 DEF BindingInv, PathsAreUsed
  <2>2. CASE m = n /\ t = new
    <3>1. g = h
      BY <1>3, <1>7, <2>2 DEF BindingInv, ResourcesApart
    <3> QED BY <1>4, <1>6, <2>2, <3>1
  <2> QED BY <1>6, <2>1, <2>2
<1>17. PathsAreListed'
  <2> SUFFICES ASSUME NEW g \in Hosts, NEW m \in BindingNetworks, NEW q \in Ports,
                      BoundTo(m, g, q), link[g] # Absent
               PROVE  StaticPath(binding[q]) \in static'[m] \/ WillRebuild(m, g)'
    BY <1>1, <1>14 DEF PathsAreListed
  <2>1. StaticPath(binding[q]) \in static[m] \/ WillRebuild(m, g)
    BY DEF BindingInv, PathsAreListed
  <2>2. CASE m = n /\ g = h
    BY <1>2, <1>4, <1>6, <2>2, OneVlan
  <2>3. CASE m = n /\ g # h
    <3>1. StaticPath(binding[q]).host = g
      BY DEF StaticPath, BoundTo
    <3> QED BY <1>6, <1>12, <2>1, <2>3, <3>1
  <2>4. CASE m # n
    BY <1>6, <1>12, <2>1, <2>4
  <2> QED BY <2>2, <2>3, <2>4
<1>18. InterfacesAreUsed'
  <2> SUFFICES ASSUME NEW m \in Svi, NEW t \in static'[m]
               PROVE  /\ \E q \in Ports : BoundTo(m, t.host, q)
                      /\ t.path = link[t.host] \/ WillRebuild(m, t.host)'
    BY <1>1, <1>14 DEF InterfacesAreUsed
  <2>0. m \in BindingNetworks /\ t.host \in Hosts
    BY <1>6, BindingAssumption
  <2>1. CASE m = n /\ t = new
    BY <1>4, <1>7, <2>1
  <2>2. CASE t \in static[m] /\ (m # n \/ t.host # h)
    BY <1>12, <2>0, <2>2 DEF BindingInv, InterfacesAreUsed
  <2> QED BY <1>6, <2>0, <2>1, <2>2
<1>19. /\ sviPort' \in [BindingNetworks -> SUBSET Paths]
       /\ \A m \in BindingNetworks : sviPort[m] \subseteq sviPort'[m]
  BY <1>1, <1>2 DEF BindingTypes, RowsFit
<1>20. go # Absent =>
         /\ ~go.listed => go.todo = {} /\ go.read = Absent
         /\ \A t \in go.todo : \E p \in Ports : BoundTo(t.net, h, p) /\ binding[p].segment = t.encap
         /\ go.read # Absent => /\ go.read.path = link[h]
                                /\ [net |-> go.read.net, encap |-> go.read.encap] \in go.todo
  BY <1>3, <1>8, <1>10
<1> QED
  BY <1>1, <1>6, <1>8, <1>15, <1>16, <1>17, <1>18, <1>19, <1>20, RebuildKeeps

--------------------
\* What the invariant says of bindings.
LEMMA BindingInvSuffices ==
  ASSUME AbsentIsNoBinding, BindingInv, NoneOvertaken
  PROVE  BindingsFollowPorts
<1>1. BindingTypes
  BY DEF BindingInv
<1>4. \A h \in Hosts : Running(h) = {rebuild[h]} \ {Absent}
  BY DEF Running, NoneOvertaken
<1>5. BindingTypeOK
  BY <1>1, <1>4 DEF BindingTypes, RowsFit, BindingTypeOK
<1>2. BoundPortsAreReachable
  <2> SUFFICES ASSUME NEW p \in Ports, binding[p] # Absent, binding[p].segment # Opflex,
                      link[binding[p].host] # Absent, Running(binding[p].host) = {}
               PROVE  StaticPath(binding[p]) \in static[PortNetwork[p]]
    BY DEF BoundPortsAreReachable, UpToDate, BindingInv, DomainsAreListed
  <2>1. binding[p].host \in Hosts /\ PortNetwork[p] \in BindingNetworks
    BY <1>1, BindingRows DEF Bindings
  <2>2. rebuild[binding[p].host] = Absent
    BY <1>4, <2>1
  <2> QED BY <2>1, <2>2 DEF BindingInv, PathsAreListed, BoundTo, WillRebuild
<1>3. NothingIsLeaked
  <2>1. ASSUME NEW n \in BindingNetworks, NEW s \in static[n], Running(s.host) = {},
               n \in Svi \/ s.path = link[s.host]
        PROVE  \E p \in Ports : /\ PortNetwork[p] = n /\ binding[p] # Absent
                                /\ StaticPath(binding[p]) = s
    <3>1. s.host \in Hosts
      BY <1>1 DEF BindingTypes, RowsFit
    <3>2. rebuild[s.host] = Absent
      BY <1>4, <2>1, <3>1
    <3>3. s.path = link[s.host]
      BY <2>1, <3>2 DEF BindingInv, InterfacesAreUsed, WillRebuild
    <3> QED BY <3>1, <3>3 DEF BindingInv, PathsAreUsed, BoundTo
  <2>2. ASSUME NEW n \in BindingNetworks, dynamic[n] # Absent
        PROVE  \E p \in Ports :
                 /\ PortNetwork[p] = n
                 /\ dynamic[n] \in {b.segment : b \in {binding[p], chosen[p]} \ {Absent}}
    BY <2>2 DEF BindingInv, SegmentsAreUsed
  <2> QED BY <2>1, <2>2 DEF NothingIsLeaked, UpToDate
<1> QED BY <1>2, <1>3, <1>5 DEF BindingsFollowPorts

\* A bound port can be reached on its host, and dynamic segments, interfaces of SVIs
\* and the paths of the links that hosts have go with the last port that needs them,
\* for any number of networks, ports, hosts, VLANs, paths and domains and any mapping
\* of hosts to domains that DomainAssumption allows, where the reports of a host do
\* not overlap (_bind_port_level, _update_static_path, update_link).
THEOREM BindingsAreRight ==
  ASSUME AbsentIsNoBinding, Careful, Flapping = {}
  PROVE  BindingSpec => []BindingsFollowPorts
<1> DEFINE Inv == BindingInv /\ NoneOvertaken
<1>1. BindingInit => Inv
  BY InitBinds DEF BindingInit, NoneOvertaken
<1>2. Inv /\ [BindingNext]_bindingVars => Inv'
  <2> SUFFICES ASSUME BindingInv, NoneOvertaken, BindingNext \/ UNCHANGED bindingVars
               PROVE  BindingInv' /\ NoneOvertaken'
    OBVIOUS
  <2>1. CASE PortStep
    <3>1. BindingInv'
      BY <2>1, ChooseBindingKeeps, EnsureSviIpsKeeps, CommitBindingKeeps, DropBindingKeeps,
        UpdatePortKeeps, UnbindPortKeeps DEF PortStep
    <3>2. UNCHANGED overtaken
      BY <2>1 DEF PortStep, ChooseBinding, EnsureSviIps, CommitBinding, DropBinding,
        UpdatePort, UnbindPort, reportVars
    <3> QED BY <3>1, <3>2 DEF NoneOvertaken
  <2>2. CASE LinkStep
    <3>1. PICK h \in Hosts :
            \/ \E path \in Paths : UpdateLink(h, path)
            \/ ReportStep(h, rebuild, rebuild') /\ UNCHANGED overtaken
            \/ ReportStep(h, overtaken, overtaken') /\ UNCHANGED rebuild
      BY <2>2 DEF LinkStep
    <3>2. ~ReportStep(h, overtaken, overtaken')
      BY DEF NoneOvertaken, ReportStep, ListNetworks, ReadStaticPorts, WriteStaticPaths
    <3>3. BindingInv'
      BY <3>1, <3>2, UpdateLinkKeeps, ListNetworksKeeps, ReadStaticPortsKeeps,
        WriteStaticPathsKeeps DEF ReportStep
    <3>4. UNCHANGED overtaken
      BY <3>1, <3>2 DEF UpdateLink
    <3> QED BY <3>3, <3>4 DEF NoneOvertaken
  <2>3. CASE UNCHANGED bindingVars
    <3>1. /\ UNCHANGED binding /\ UNCHANGED chosen /\ UNCHANGED dynamic /\ UNCHANGED link
          /\ UNCHANGED rebuild /\ UNCHANGED domain /\ UNCHANGED static /\ UNCHANGED sviPort
          /\ UNCHANGED overtaken
      BY <2>3 DEF bindingVars, portVars, reportVars
    <3>2. BindingTypes' /\ ResourcesApart' /\ AddressesAreThere' /\ PathsAreUsed'
      BY <3>1 DEF BindingInv, BindingTypes, RowsFit, ResourcesApart, AddressesAreThere,
        PathsAreUsed, BoundTo, StaticPath
    <3>3. RebuildsGoOn' /\ DomainsAreListed'
      BY <3>1 DEF BindingInv, RebuildsGoOn, DomainsAreListed, BoundTo
    <3>4. PathsAreListed' /\ InterfacesAreUsed' /\ SegmentsAreUsed'
      BY <3>1 DEF BindingInv, PathsAreListed, InterfacesAreUsed, SegmentsAreUsed, WillRebuild,
        BoundTo, StaticPath
    <3> QED BY <3>1, <3>2, <3>3, <3>4 DEF BindingInv, NoneOvertaken
  <2> QED BY <2>1, <2>2, <2>3 DEF BindingNext
<1>3. Inv => BindingsFollowPorts
  BY BindingInvSuffices
<1> QED BY <1>1, <1>2, <1>3, PTL DEF BindingSpec

\* The same of the installation, whose topics show ports and links in turn.
COROLLARY BindingsStayRight ==
  ASSUME AbsentIsNoBinding, Careful, Flapping = {}
  PROVE  MCSpec => []BindingsFollowPorts
<1>1. MCInit => BindingInit
  BY DEF MCInit
<1>2. [MCNext]_<<vars, bindingVars, remoteVars, endpointVars, topic>> => [BindingNext]_bindingVars
  BY DEF MCNext, BindingStep
<1>3. MCSpec => BindingSpec
  BY <1>1, <1>2, PTL DEF MCSpec, BindingSpec
<1> QED BY <1>3, BindingsAreRight, PTL

--------------------
(* Remote groups *)


\* Absent is no row.
AbsentIsNoRow ==
  /\ Absent \notin [sets : SUBSET RemoteSets, ips : SUBSET Addresses]
  /\ Absent \notin [owner : RemoteSets, remote : RemoteSets]

AddressesApart ==
  \A p, q \in MemberPorts : p # q /\ member[p] # Absent /\ member[q] # Absent =>
    member[p].ips \cap member[q].ips = {}

\* The containers hold the members of every group, with or without rules, once
\* they are in use, and no rule points to one before.
ContainersAreFull ==
  IF normalized THEN \A g \in RemoteSets : container[g] = Remote!MembersOf(member, g)
                ELSE pointing = {}

RemoteInv == Remote!RemoteTypeOK /\ AddressesApart /\ ContainersAreFull /\ Remote!RulesLetMembersIn

MemberRows == [sets : SUBSET RemoteSets, ips : SUBSET Addresses]
RuleRows == [owner : RemoteSets, remote : RemoteSets]

--------------------
(* The members of a group *)

\* The addresses of the group that are not the port's.
Others(p, g) ==
  UNION {member[q].ips : q \in {q \in MemberPorts \ {p} : member[q] # Absent /\ g \in member[q].sets}}

Own(row, g) == IF row # Absent /\ g \in row.sets THEN row.ips ELSE {}

LEMMA Difference ==
  ASSUME NEW A, NEW B, A \cap B = {}
  PROVE  (A \cup B) \ B = A /\ A \ B = A
OBVIOUS

LEMMA Split ==
  ASSUME NEW p \in MemberPorts, NEW g, NEW rows,
         \A q \in MemberPorts \ {p} : rows[q] = member[q]
  PROVE  Remote!MembersOf(rows, g) = Others(p, g) \cup Own(rows[p], g)
<1> DEFINE In(q) == rows[q] # Absent /\ g \in rows[q].sets
<1>1. \A x : x \in Remote!MembersOf(rows, g) <=> \E q \in MemberPorts : In(q) /\ x \in rows[q].ips
  BY DEF Remote!MembersOf
<1>2. \A x : x \in Others(p, g) <=> \E q \in MemberPorts \ {p} : In(q) /\ x \in rows[q].ips
  BY DEF Others
<1>3. \A x : x \in Own(rows[p], g) <=> In(p) /\ x \in rows[p].ips
  BY DEF Own
<1> QED BY <1>1, <1>2, <1>3

LEMMA OthersApart ==
  ASSUME AddressesApart, NEW p \in MemberPorts, member[p] # Absent, NEW g
  PROVE  Others(p, g) \cap member[p].ips = {}
BY DEF AddressesApart, Others

LEMMA OthersTaken ==
  ASSUME NEW p \in MemberPorts, NEW g
  PROVE  Others(p, g) \subseteq Remote!Taken(p)
BY DEF Others, Remote!Taken

LEMMA MembersType ==
  ASSUME Remote!RemoteTypeOK, NEW g
  PROVE  /\ Remote!MembersOf(member, g) \subseteq Addresses
         /\ \A p \in MemberPorts : Others(p, g) \subseteq Addresses
<1>1. \A q \in MemberPorts : member[q] # Absent => member[q].ips \subseteq Addresses
  BY DEF Remote!RemoteTypeOK
<1> QED BY <1>1 DEF Remote!MembersOf, Others

--------------------
(* What filling and emptying do to a rule and to a container *)

AimOK(a) ==
  /\ a = [ips |-> a.ips, to |-> a.to, of |-> a.of]
  /\ a.ips \in [RemoteRules -> SUBSET Addresses] /\ a.to \subseteq mapped
  /\ a.of \in [RemoteSets -> SUBSET Addresses]

\* The rules in AIM are those with a row.
RowsOfMapped ==
  /\ mapped \subseteq RemoteRules
  /\ \A r \in mapped : sgRule[r] # Absent

\* Addresses have come to groups.
Grown(a, b, rows, ips, sets) ==
  /\ AimOK(b)
  /\ ~normalized =>
       /\ b.to = a.to /\ b.of = a.of
       /\ \A r \in mapped : b.ips[r] =
            IF sgRule[r].remote \in sets
            THEN a.ips[r] \cup (ips \cap Remote!OfFamily(r)) ELSE a.ips[r]
  /\ normalized =>
       /\ b.ips = a.ips
       /\ \A g \in RemoteSets : b.of[g] = IF g \in sets THEN a.of[g] \cup ips ELSE a.of[g]
       /\ \A r \in mapped : r \in b.to <=>
            \/ r \in a.to
            \/ /\ sgRule[r].remote \in sets /\ ips # {}
               /\ Remote!MembersOf(rows, sgRule[r].remote) \subseteq ips

\* Addresses have left groups.
Shrunk(a, b, rows, ips, sets) ==
  /\ AimOK(b)
  /\ ~normalized =>
       /\ b.to = a.to /\ b.of = a.of
       /\ \A r \in mapped : b.ips[r] =
            IF sgRule[r].remote \in sets THEN a.ips[r] \ ips ELSE a.ips[r]
  /\ normalized =>
       /\ b.ips = a.ips
       /\ \A g \in RemoteSets : b.of[g] = IF g \in sets THEN a.of[g] \ ips ELSE a.of[g]
       /\ \A r \in mapped : r \in b.to <=>
            /\ r \in a.to
            /\ ~ /\ sgRule[r].remote \in sets /\ ips # {}
                 /\ Remote!MembersOf(rows, sgRule[r].remote) \subseteq ips

LEMMA FilledFacts ==
  ASSUME NEW a, AimOK(a), NEW rows, NEW ips \in SUBSET Addresses, NEW sets \in SUBSET RemoteSets,
         RowsOfMapped
  PROVE  Grown(a, Remote!Filled(a, rows, ips, sets), rows, ips, sets)
<1>0. \A r \in mapped : r \in RemoteRules /\ \A x : r \in Remote!RulesTo(x) <=> sgRule[r].remote \in x
  BY DEF RowsOfMapped, Remote!RulesTo
<1> DEFINE b == Remote!Filled(a, rows, ips, sets)
<1>1. CASE ~normalized
  <2>1. b = [a EXCEPT !.ips = [r \in RemoteRules |->
               IF r \in Remote!RulesTo(sets) \cap mapped
               THEN a.ips[r] \cup (ips \cap Remote!OfFamily(r)) ELSE a.ips[r]]]
    BY <1>1 DEF Remote!Filled
  <2> HIDE DEF b
  <2>2. AimOK(b)
    BY <2>1 DEF AimOK
  <2>3. /\ b.to = a.to /\ b.of = a.of
        /\ \A r \in RemoteRules : b.ips[r] =
             IF r \in mapped /\ r \in Remote!RulesTo(sets)
             THEN a.ips[r] \cup (ips \cap Remote!OfFamily(r)) ELSE a.ips[r]
    BY <2>1 DEF AimOK
  <2> QED BY <1>1, <2>2, <2>3, <1>0 DEF Grown, b
<1>2. CASE normalized
  <2> DEFINE first == Remote!RulesTo({g \in sets : ips # {} /\ Remote!MembersOf(rows, g) \subseteq ips})
  <2>1. b = [a EXCEPT !.of = [g \in RemoteSets |-> IF g \in sets THEN a.of[g] \cup ips ELSE a.of[g]],
                      !.to = a.to \cup (first \cap mapped)]
    BY <1>2 DEF Remote!Filled
  <2> HIDE DEF b, first
  <2>2. AimOK(b)
    BY <2>1 DEF AimOK
  <2>3. /\ b.ips = a.ips /\ b.to = a.to \cup (first \cap mapped)
        /\ \A g \in RemoteSets : b.of[g] = IF g \in sets THEN a.of[g] \cup ips ELSE a.of[g]
    BY <2>1 DEF AimOK
  <2>4. \A r \in mapped : r \in first <=>
          /\ sgRule[r].remote \in sets /\ ips # {}
          /\ Remote!MembersOf(rows, sgRule[r].remote) \subseteq ips
    BY <1>0 DEF first
  <2> QED BY <1>2, <2>2, <2>3, <2>4 DEF Grown, b
<1> QED BY <1>1, <1>2

LEMMA EmptiedFacts ==
  ASSUME NEW a, AimOK(a), NEW rows, NEW ips \in SUBSET Addresses, NEW sets \in SUBSET RemoteSets,
         RowsOfMapped
  PROVE  Shrunk(a, Remote!Emptied(a, rows, ips, sets), rows, ips, sets)
<1>0. \A r \in mapped : r \in RemoteRules /\ \A x : r \in Remote!RulesTo(x) <=> sgRule[r].remote \in x
  BY DEF RowsOfMapped, Remote!RulesTo
<1> DEFINE b == Remote!Emptied(a, rows, ips, sets)
<1>1. CASE ~normalized
  <2>1. b = [a EXCEPT !.ips = [r \in RemoteRules |->
               IF r \in Remote!RulesTo(sets) THEN a.ips[r] \ ips ELSE a.ips[r]]]
    BY <1>1 DEF Remote!Emptied
  <2> HIDE DEF b
  <2>2. AimOK(b)
    BY <2>1 DEF AimOK
  <2>3. /\ b.to = a.to /\ b.of = a.of
        /\ \A r \in RemoteRules : b.ips[r] =
             IF r \in Remote!RulesTo(sets) THEN a.ips[r] \ ips ELSE a.ips[r]
    BY <2>1 DEF AimOK
  <2> QED BY <1>1, <2>2, <2>3, <1>0 DEF Shrunk, b
<1>2. CASE normalized
  <2> DEFINE last == Remote!RulesTo({g \in sets : ips # {} /\ Remote!MembersOf(rows, g) \subseteq ips})
  <2>1. b = [a EXCEPT !.of = [g \in RemoteSets |-> IF g \in sets THEN a.of[g] \ ips ELSE a.of[g]],
                      !.to = a.to \ last]
    BY <1>2 DEF Remote!Emptied
  <2> HIDE DEF b, last
  <2>2. AimOK(b)
    BY <2>1 DEF AimOK
  <2>3. /\ b.ips = a.ips /\ b.to = a.to \ last
        /\ \A g \in RemoteSets : b.of[g] = IF g \in sets THEN a.of[g] \ ips ELSE a.of[g]
    BY <2>1 DEF AimOK
  <2>4. \A r \in mapped : r \in last <=>
          /\ sgRule[r].remote \in sets /\ ips # {}
          /\ Remote!MembersOf(rows, sgRule[r].remote) \subseteq ips
    BY <1>0 DEF last
  <2> QED BY <1>2, <2>2, <2>3, <2>4 DEF Shrunk, b
<1> QED BY <1>1, <1>2

LEMMA AimFacts ==
  ASSUME Remote!RemoteTypeOK
  PROVE  AimOK(Remote!Aim) /\ Remote!Aim.ips = remoteIps /\ Remote!Aim.to = pointing /\ Remote!Aim.of = container
BY DEF Remote!RemoteTypeOK, AimOK, Remote!Aim

--------------------
(* What is in AIM fits the rows *)

Fits(a, rows) ==
  /\ ~normalized =>
       /\ a.to = {}
       /\ \A r \in mapped : a.ips[r] = Remote!MembersOf(rows, sgRule[r].remote) \cap Remote!OfFamily(r)
  /\ normalized =>
       /\ \A g \in RemoteSets : a.of[g] = Remote!MembersOf(rows, g)
       /\ \A r \in mapped : r \in a.to <=> Remote!MembersOf(rows, sgRule[r].remote) # {}

LEMMA InvFits ==
  ASSUME AbsentIsNoRow, RemoteInv
  PROVE  /\ Fits(Remote!Aim, member) /\ AimOK(Remote!Aim)
         /\ RowsOfMapped
         /\ \A r \in mapped : sgRule[r].remote \in RemoteSets /\ sgRule[r].owner \in RemoteSets
<1>1. \A r \in mapped : r \in RemoteRules /\ sgRule[r] # Absent /\ sgRule[r] \in RuleRows
  BY DEF RemoteInv, Remote!RemoteTypeOK, Remote!RulesLetMembersIn, RuleRows
<1>2. Fits(Remote!Aim, member)
  BY <1>1, AimFacts DEF RemoteInv, ContainersAreFull, Remote!RulesLetMembersIn, Fits, RuleRows
<1> QED BY <1>1, <1>2, AimFacts DEF RemoteInv, RowsOfMapped, RuleRows

\* A port's request that leaves rules and groups alone.
PortRow(p, row, a) ==
  /\ row \in MemberRows \cup {Absent}
  /\ row # Absent => row.sets \subseteq sgSets /\ row.ips \cap Remote!Taken(p) = {}
  /\ member' = [member EXCEPT ![p] = row]
  /\ Remote!Become(a) /\ AimOK(a) /\ Fits(a, member')
  /\ UNCHANGED <<sgSets, sgRule, mapped, normalized>>

LEMMA PortRowKeeps ==
  ASSUME AbsentIsNoRow, RemoteInv, NEW p \in MemberPorts, NEW row, NEW a, PortRow(p, row, a)
  PROVE  RemoteInv'
<1>1. /\ member' \in [MemberPorts -> MemberRows \cup {Absent}]
      /\ \A q \in MemberPorts : member'[q] = IF q = p THEN row ELSE member[q]
  BY DEF PortRow, RemoteInv, Remote!RemoteTypeOK, MemberRows
<1>2. Remote!RemoteTypeOK'
  <2>1. \A q \in MemberPorts : member'[q] # Absent => member'[q].sets \subseteq sgSets
    BY <1>1 DEF PortRow, RemoteInv, Remote!RemoteTypeOK
  <2>2. /\ remoteIps' \in [RemoteRules -> SUBSET Addresses] /\ pointing' \subseteq mapped
        /\ container' \in [RemoteSets -> SUBSET Addresses]
    BY DEF PortRow, Remote!Become, AimOK
  <2> QED BY <1>1, <2>1, <2>2 DEF PortRow, RemoteInv, Remote!RemoteTypeOK, MemberRows
<1>3. AddressesApart'
  <2>1. \A q \in MemberPorts \ {p} : row # Absent /\ member[q] # Absent => row.ips \cap member[q].ips = {}
    BY DEF PortRow, Remote!Taken
  <2> QED BY <1>1, <2>1 DEF RemoteInv, AddressesApart
<1>4. ContainersAreFull'
  BY DEF PortRow, Remote!Become, Fits, ContainersAreFull, Remote!MembersOf
<1>5. Remote!RulesLetMembersIn'
  <2>1. \A r : Remote!OfFamily(r)' = Remote!OfFamily(r)
    BY DEF Remote!OfFamily
  <2>2. \A g : Remote!MembersOf(member, g)' = Remote!MembersOf(member', g)
    BY DEF Remote!MembersOf
  <2>3. mapped' = {r \in RemoteRules : sgRule'[r] # Absent}
    BY DEF PortRow, RemoteInv, Remote!RulesLetMembersIn
  <2>4. \A r \in mapped : sgRule[r].remote \in RemoteSets
    BY InvFits
  <2>5. ASSUME NEW r \in mapped'
        PROVE  LET members == Remote!MembersOf(member', sgRule[r].remote)
               IN IF normalized
                  THEN /\ r \in pointing' <=> members # {}
                       /\ container'[sgRule[r].remote] = members
                  ELSE remoteIps'[r] = members \cap Remote!OfFamily(r)
    BY <2>4, <2>5 DEF PortRow, Remote!Become, Fits
  <2>6. \A r \in mapped' :
               LET members == Remote!MembersOf(member', sgRule'[r].remote)
               IN IF normalized'
                  THEN /\ r \in pointing' <=> members # {}
                       /\ container'[sgRule'[r].remote] = members
                  ELSE remoteIps'[r] = members \cap Remote!OfFamily(r)
    BY <2>5 DEF PortRow
  <2> QED BY <2>1, <2>2, <2>3, <2>6 DEF Remote!RulesLetMembersIn
<1> QED BY <1>2, <1>3, <1>4, <1>5 DEF RemoteInv

LEMMA SplitNext ==
  ASSUME RemoteInv, NEW p \in MemberPorts, NEW row, member' = [member EXCEPT ![p] = row], NEW g
  PROVE  /\ Remote!MembersOf(member, g) = Others(p, g) \cup Own(member[p], g)
         /\ Remote!MembersOf(member', g) = Others(p, g) \cup Own(row, g)
<1>1. \A q \in MemberPorts : member'[q] = IF q = p THEN row ELSE member[q]
  BY DEF RemoteInv, Remote!RemoteTypeOK
<1>2. Remote!MembersOf(member, g) = Others(p, g) \cup Own(member[p], g)
  BY Split
<1>3. Remote!MembersOf(member', g) = Others(p, g) \cup Own(member'[p], g)
  BY <1>1, Split
<1> QED BY <1>1, <1>2, <1>3

LEMMA CreateMemberKeeps ==
  ASSUME AbsentIsNoRow, Careful, RemoteInv, NEW p \in MemberPorts, NEW sets \in SUBSET RemoteSets,
         NEW ips \in SUBSET Addresses, Remote!CreateMember(p, sets, ips)
  PROVE  RemoteInv'
<1> DEFINE row == [sets |-> sets, ips |-> ips]
           a == Remote!Filled(Remote!Aim, member', ips, sets)
           O(g) == Others(p, g)
<1>1. /\ member' = [member EXCEPT ![p] = row] /\ member[p] = Absent /\ ips \cap Remote!Taken(p) = {}
      /\ sets \subseteq sgSets /\ Remote!Become(a) /\ UNCHANGED <<sgSets, sgRule, mapped, normalized>>
  BY DEF Remote!CreateMember
<1>2. row \in MemberRows /\ row # Absent
  BY DEF MemberRows, AbsentIsNoRow
<1>3. \A g : /\ Remote!MembersOf(member, g) = O(g)
             /\ Remote!MembersOf(member', g) = O(g) \cup (IF g \in sets THEN ips ELSE {})
  <2> HIDE DEF row
  <2>1. \A g : /\ Remote!MembersOf(member, g) = O(g) \cup Own(member[p], g)
               /\ Remote!MembersOf(member', g) = O(g) \cup Own(row, g)
    BY <1>1, SplitNext
  <2>2. row.sets = sets /\ row.ips = ips
    BY DEF row
  <2> QED BY <1>1, <1>2, <2>1, <2>2 DEF Own
<1>4. \A g : O(g) \cap ips = {}
  BY <1>1, OthersTaken
<1>0. Fits(Remote!Aim, member) /\ AimOK(Remote!Aim) /\ RowsOfMapped
  BY InvFits
<1>5. Grown(Remote!Aim, a, member', ips, sets)
  BY <1>0, FilledFacts
<1>6. Fits(a, member')
  <2>1. CASE ~normalized
    <3>1. a.to = {} /\ a.of = Remote!Aim.of
          /\ \A r \in mapped : a.ips[r] =
               IF sgRule[r].remote \in sets THEN Remote!Aim.ips[r] \cup (ips \cap Remote!OfFamily(r)) ELSE Remote!Aim.ips[r]
      BY <2>1, <1>0, <1>5, InvFits DEF Fits, Grown
    <3>2. \A r \in mapped : Remote!Aim.ips[r] = O(sgRule[r].remote) \cap Remote!OfFamily(r)
      BY <2>1, <1>0, <1>3 DEF Fits
    <3> HIDE DEF a, O
    <3>3. \A r \in mapped : a.ips[r] = Remote!MembersOf(member', sgRule[r].remote) \cap Remote!OfFamily(r)
      BY <3>1, <3>2, <1>3
    <3> QED BY <2>1, <3>1, <3>3 DEF Fits
  <2>2. CASE normalized
    <3>1. /\ \A g \in RemoteSets : a.of[g] = IF g \in sets THEN Remote!Aim.of[g] \cup ips ELSE Remote!Aim.of[g]
          /\ \A r \in mapped : r \in a.to <=>
               \/ r \in Remote!Aim.to
               \/ sgRule[r].remote \in sets /\ ips # {} /\ Remote!MembersOf(member', sgRule[r].remote) \subseteq ips
      BY <2>2, <1>0, <1>5, InvFits DEF Grown
    <3>2. /\ \A g \in RemoteSets : Remote!Aim.of[g] = O(g)
          /\ \A r \in mapped : r \in Remote!Aim.to <=> O(sgRule[r].remote) # {}
      BY <2>2, <1>0, <1>3 DEF Fits
    <3> HIDE DEF a, O
    <3>3. ASSUME NEW g \in RemoteSets PROVE a.of[g] = Remote!MembersOf(member', g)
      <4>1. CASE g \in sets
        BY <4>1, <3>1, <3>2, <1>3
      <4>2. CASE g \notin sets
        <5>1. O(g) \cup {} = O(g)
          OBVIOUS
        <5> QED BY <5>1, <4>2, <3>1, <3>2, <1>3
      <4> QED BY <4>1, <4>2
    <3>4. ASSUME NEW r \in mapped PROVE r \in a.to <=> Remote!MembersOf(member', sgRule[r].remote) # {}
      BY <3>1, <3>2, <1>3, <1>4
    <3> QED BY <2>2, <3>3, <3>4 DEF Fits
  <2> QED BY <2>1, <2>2
<1>7. PortRow(p, row, a)
  BY <1>1, <1>2, <1>5, <1>6 DEF PortRow, Grown
<1> QED BY <1>7, PortRowKeeps

LEMMA DeleteMemberKeeps ==
  ASSUME AbsentIsNoRow, RemoteInv, NEW p \in MemberPorts, Remote!DeleteMember(p)
  PROVE  RemoteInv'
<1> DEFINE ips == member[p].ips
           sets == member[p].sets
           a == Remote!Emptied(Remote!Aim, member, ips, sets)
           O(g) == Others(p, g)
<1>1. /\ member' = [member EXCEPT ![p] = Absent] /\ member[p] # Absent
      /\ Remote!Become(a) /\ UNCHANGED <<sgSets, sgRule, mapped, normalized>>
  BY DEF Remote!DeleteMember
<1>2. ips \in SUBSET Addresses /\ sets \in SUBSET RemoteSets
  BY <1>1 DEF RemoteInv, Remote!RemoteTypeOK
<1>3. \A g : /\ Remote!MembersOf(member, g) = O(g) \cup (IF g \in sets THEN ips ELSE {})
             /\ Remote!MembersOf(member', g) = O(g)
  <2>1. \A g : /\ Remote!MembersOf(member, g) = O(g) \cup Own(member[p], g)
               /\ Remote!MembersOf(member', g) = O(g) \cup Own(Absent, g)
    BY <1>1, SplitNext
  <2> QED BY <1>1, <2>1 DEF Own
<1>4. \A g : O(g) \cap ips = {}
  BY <1>1, OthersApart DEF RemoteInv
<1> HIDE DEF ips, sets
<1>0. Fits(Remote!Aim, member) /\ AimOK(Remote!Aim) /\ RowsOfMapped
  BY InvFits
<1>5. Shrunk(Remote!Aim, a, member, ips, sets)
  BY <1>0, <1>2, EmptiedFacts
<1>6. Fits(a, member')
  <2>1. CASE ~normalized
    <3>1. a.to = {}
          /\ \A r \in mapped : a.ips[r] =
               IF sgRule[r].remote \in sets THEN Remote!Aim.ips[r] \ ips ELSE Remote!Aim.ips[r]
      BY <2>1, <1>0, <1>5, InvFits DEF Fits, Shrunk
    <3>2. \A r \in mapped : Remote!Aim.ips[r] = Remote!MembersOf(member, sgRule[r].remote) \cap Remote!OfFamily(r)
      BY <2>1, <1>0 DEF Fits
    <3> HIDE DEF a, O
    <3>3. ASSUME NEW r \in mapped
          PROVE  a.ips[r] = Remote!MembersOf(member', sgRule[r].remote) \cap Remote!OfFamily(r)
      <4> DEFINE g == sgRule[r].remote
      <4>1. CASE g \in sets
        <5>1. a.ips[r] = ((O(g) \cup ips) \cap Remote!OfFamily(r)) \ ips
          BY <4>1, <3>1, <3>2, <1>3
        <5>2. O(g) \cap ips = {} /\ Remote!MembersOf(member', g) = O(g)
          BY <1>3, <1>4
        <5> QED BY <5>1, <5>2
      <4>2. CASE g \notin sets
        <5>1. O(g) \cup {} = O(g)
          OBVIOUS
        <5> QED BY <5>1, <4>2, <3>1, <3>2, <1>3
      <4> QED BY <4>1, <4>2
    <3> QED BY <2>1, <3>1, <3>3 DEF Fits
  <2>2. CASE normalized
    <3>1. /\ \A g \in RemoteSets : a.of[g] = IF g \in sets THEN Remote!Aim.of[g] \ ips ELSE Remote!Aim.of[g]
          /\ \A r \in mapped : r \in a.to <=>
               /\ r \in Remote!Aim.to
               /\ ~(sgRule[r].remote \in sets /\ ips # {} /\ Remote!MembersOf(member, sgRule[r].remote) \subseteq ips)
      BY <2>2, <1>0, <1>5, InvFits DEF Shrunk
    <3>2. /\ \A g \in RemoteSets : Remote!Aim.of[g] = Remote!MembersOf(member, g)
          /\ \A r \in mapped : r \in Remote!Aim.to <=> Remote!MembersOf(member, sgRule[r].remote) # {}
      BY <2>2, <1>0 DEF Fits
    <3> HIDE DEF a, O
    <3>3. ASSUME NEW g \in RemoteSets PROVE a.of[g] = Remote!MembersOf(member', g)
      <4>1. CASE g \in sets
        <5>1. a.of[g] = (O(g) \cup ips) \ ips
          BY <4>1, <3>1, <3>2, <1>3
        <5> QED BY <5>1, <1>3, <1>4, Difference
      <4>2. CASE g \notin sets
        BY ZenonT(40), <4>2, <3>1, <3>2, <1>3
      <4> QED BY <4>1, <4>2
    <3>4. ASSUME NEW r \in mapped PROVE r \in a.to <=> Remote!MembersOf(member', sgRule[r].remote) # {}
      BY <3>1, <3>2, <1>3, <1>4
    <3> QED BY <2>2, <3>3, <3>4 DEF Fits
  <2> QED BY <2>1, <2>2
<1>7. PortRow(p, Absent, a)
  BY <1>1, <1>5, <1>6 DEF PortRow, Shrunk
<1> QED BY <1>7, PortRowKeeps

\* The addresses of a group that a port leaves, keeps or joins, all the way.
LEMMA Replaced ==
  ASSUME NEW O, NEW I, NEW J, NEW F, O \cap I = {}, O \cap J = {}
  PROVE  /\ ((O \cup I) \cap F) \ I = O \cap F
         /\ ((O \cap F) \cup (J \cap F)) = (O \cup J) \cap F
         /\ (((O \cup J) \cap F) \ I) \cup (J \cap F) = (O \cup J) \cap F
OBVIOUS

LEMMA ReplacedAll ==
  ASSUME NEW O, NEW I, NEW J, O \cap I = {}, O \cap J = {}
  PROVE  /\ (O \cup I) \ I = O
         /\ ((O \cup J) \ I) \cup J = O \cup J
         /\ O \cup {} = O
OBVIOUS

LEMMA UpdateMemberKeeps ==
  ASSUME AbsentIsNoRow, Careful, RemoteInv, NEW p \in MemberPorts, NEW sets \in SUBSET RemoteSets,
         NEW ips \in SUBSET Addresses, Remote!UpdateMember(p, sets, ips)
  PROVE  RemoteInv'
<1> DEFINE row == [sets |-> sets, ips |-> ips]
           oldSets == member[p].sets
           oldIps == member[p].ips
           left == Remote!Emptied(Remote!Aim, member', ips, oldSets \ sets)
           joined == Remote!Filled(left, member', ips, sets \ oldSets)
           emptied == Remote!Emptied(joined, member', oldIps, sets)
           filled == Remote!Filled(emptied, member', ips, sets)
           a == IF ips = oldIps THEN joined ELSE filled
           O(g) == Others(p, g)
<1>1. /\ member' = [member EXCEPT ![p] = row] /\ member[p] # Absent /\ ips \cap Remote!Taken(p) = {}
      /\ ips = oldIps \/ oldSets \subseteq sets
      /\ sets \subseteq sgSets /\ Remote!Become(a) /\ UNCHANGED <<sgSets, sgRule, mapped, normalized>>
  BY DEF Remote!UpdateMember
<1>2. /\ row \in MemberRows /\ row # Absent
      /\ oldIps \in SUBSET Addresses /\ oldSets \in SUBSET RemoteSets
  BY <1>1 DEF MemberRows, AbsentIsNoRow, RemoteInv, Remote!RemoteTypeOK
<1>3. \A g : /\ Remote!MembersOf(member, g) = O(g) \cup (IF g \in oldSets THEN oldIps ELSE {})
             /\ Remote!MembersOf(member', g) = O(g) \cup (IF g \in sets THEN ips ELSE {})
  <2> HIDE DEF row
  <2>1. \A g : /\ Remote!MembersOf(member, g) = O(g) \cup Own(member[p], g)
               /\ Remote!MembersOf(member', g) = O(g) \cup Own(row, g)
    BY <1>1, SplitNext
  <2>2. row.sets = sets /\ row.ips = ips
    BY DEF row
  <2> QED BY <1>1, <1>2, <2>1, <2>2 DEF Own
<1>4. \A g : O(g) \cap ips = {} /\ O(g) \cap oldIps = {}
  BY <1>1, OthersTaken, OthersApart DEF RemoteInv
<1>0. Fits(Remote!Aim, member) /\ AimOK(Remote!Aim) /\ RowsOfMapped
  BY InvFits
<1> HIDE DEF oldSets, oldIps
<1>5. Shrunk(Remote!Aim, left, member', ips, oldSets \ sets)
  BY <1>0, <1>2, EmptiedFacts
<1>6. Grown(left, joined, member', ips, sets \ oldSets)
  <2> HIDE DEF left
  <2>1. AimOK(left)
    BY <1>5 DEF Shrunk
  <2> QED BY <2>1, <1>0, <1>2, FilledFacts
<1>7. Shrunk(joined, emptied, member', oldIps, sets)
  <2> HIDE DEF joined
  <2>1. AimOK(joined)
    BY <1>6 DEF Grown
  <2> QED BY <2>1, <1>0, <1>2, EmptiedFacts
<1>8. Grown(emptied, filled, member', ips, sets)
  <2> HIDE DEF emptied
  <2>1. AimOK(emptied)
    BY <1>7 DEF Shrunk
  <2> QED BY <2>1, <1>0, <1>2, FilledFacts
<1> HIDE DEF left, joined, emptied, filled, O
<1>9. CASE ips = oldIps
  <2>1. ASSUME ~normalized PROVE Fits(joined, member')
    <3>1. joined.to = {}
      BY <2>1, <1>0, <1>5, <1>6 DEF Fits, Shrunk, Grown
    <3>2. ASSUME NEW r \in mapped
          PROVE  joined.ips[r] = Remote!MembersOf(member', sgRule[r].remote) \cap Remote!OfFamily(r)
      <4> DEFINE g == sgRule[r].remote
      <4>1. /\ left.ips[r] = IF g \in oldSets \ sets THEN Remote!Aim.ips[r] \ ips ELSE Remote!Aim.ips[r]
            /\ joined.ips[r] = IF g \in sets \ oldSets
                               THEN left.ips[r] \cup (ips \cap Remote!OfFamily(r)) ELSE left.ips[r]
            /\ Remote!Aim.ips[r] = Remote!MembersOf(member, g) \cap Remote!OfFamily(r)
        BY <2>1, <1>0, <1>5, <1>6 DEF Fits, Shrunk, Grown
      <4>2. /\ Remote!MembersOf(member, g) = O(g) \cup (IF g \in oldSets THEN ips ELSE {})
            /\ Remote!MembersOf(member', g) = O(g) \cup (IF g \in sets THEN ips ELSE {})
            /\ O(g) \cap ips = {}
        BY <1>3, <1>4, <1>9
      <4> HIDE DEF g
      <4>3. CASE g \in oldSets /\ g \notin sets
        <5>1. joined.ips[r] = ((O(g) \cup ips) \cap Remote!OfFamily(r)) \ ips /\ Remote!MembersOf(member', g) = O(g)
          BY <4>1, <4>2, <4>3, ReplacedAll
        <5> QED BY <5>1, <4>2, Replaced DEF g
      <4>4. CASE g \notin oldSets /\ g \in sets
        <5>1. /\ joined.ips[r] = (O(g) \cap Remote!OfFamily(r)) \cup (ips \cap Remote!OfFamily(r))
              /\ Remote!MembersOf(member', g) = O(g) \cup ips
          BY <4>1, <4>2, <4>4, ReplacedAll
        <5> QED BY <5>1, <4>2, Replaced DEF g
      <4>5. CASE g \in oldSets <=> g \in sets
        BY <4>1, <4>2, <4>5 DEF g
      <4> QED BY <4>3, <4>4, <4>5
    <3> QED BY <2>1, <3>1, <3>2 DEF Fits
  <2>2. ASSUME normalized PROVE Fits(joined, member')
    <3>1. ASSUME NEW g \in RemoteSets PROVE joined.of[g] = Remote!MembersOf(member', g)
      <4>1. /\ left.of[g] = IF g \in oldSets \ sets THEN Remote!Aim.of[g] \ ips ELSE Remote!Aim.of[g]
            /\ joined.of[g] = IF g \in sets \ oldSets THEN left.of[g] \cup ips ELSE left.of[g]
            /\ Remote!Aim.of[g] = Remote!MembersOf(member, g)
        BY <2>2, <1>0, <1>5, <1>6 DEF Fits, Shrunk, Grown
      <4>2. /\ Remote!MembersOf(member, g) = O(g) \cup (IF g \in oldSets THEN ips ELSE {})
            /\ Remote!MembersOf(member', g) = O(g) \cup (IF g \in sets THEN ips ELSE {})
            /\ O(g) \cap ips = {}
        BY <1>3, <1>4, <1>9
      <4>3. CASE g \in oldSets /\ g \notin sets
        BY <4>1, <4>2, <4>3, ReplacedAll
      <4>4. CASE g \notin oldSets /\ g \in sets
        BY <4>1, <4>2, <4>4, ReplacedAll
      <4>5. CASE g \in oldSets <=> g \in sets
        BY <4>1, <4>2, <4>5
      <4> QED BY <4>3, <4>4, <4>5
    <3>2. ASSUME NEW r \in mapped
          PROVE  r \in joined.to <=> Remote!MembersOf(member', sgRule[r].remote) # {}
      <4> DEFINE g == sgRule[r].remote
      <4>1. /\ r \in left.to <=> r \in Remote!Aim.to /\ ~(g \in oldSets \ sets /\ ips # {} /\ Remote!MembersOf(member', g) \subseteq ips)
            /\ r \in joined.to <=> r \in left.to \/ (g \in sets \ oldSets /\ ips # {} /\ Remote!MembersOf(member', g) \subseteq ips)
            /\ r \in Remote!Aim.to <=> Remote!MembersOf(member, g) # {}
        BY <2>2, <1>0, <1>5, <1>6 DEF Fits, Shrunk, Grown
      <4>2. /\ Remote!MembersOf(member, g) = O(g) \cup (IF g \in oldSets THEN ips ELSE {})
            /\ Remote!MembersOf(member', g) = O(g) \cup (IF g \in sets THEN ips ELSE {})
            /\ O(g) \cap ips = {}
        BY <1>3, <1>4, <1>9
      <4> HIDE DEF g
      <4>3. CASE g \in oldSets /\ g \notin sets
        BY <4>1, <4>2, <4>3, ReplacedAll DEF g
      <4>4. CASE g \notin oldSets /\ g \in sets
        BY <4>1, <4>2, <4>4, ReplacedAll DEF g
      <4>5. CASE g \in oldSets <=> g \in sets
        BY <4>1, <4>2, <4>5 DEF g
      <4> QED BY <4>3, <4>4, <4>5
    <3> QED BY <2>2, <3>1, <3>2 DEF Fits
  <2>3. PortRow(p, row, joined)
    BY <1>1, <1>2, <1>6, <1>9, <2>1, <2>2 DEF PortRow, Grown
  <2> QED BY <2>3, PortRowKeeps
<1>10. CASE ips # oldIps
  <2>0. oldSets \subseteq sets
    BY <1>1, <1>10
  <2>1. ASSUME ~normalized PROVE Fits(filled, member')
    <3>1. filled.to = {}
      BY <2>1, <1>0, <1>5, <1>6, <1>7, <1>8 DEF Fits, Shrunk, Grown
    <3>2. ASSUME NEW r \in mapped
          PROVE  filled.ips[r] = Remote!MembersOf(member', sgRule[r].remote) \cap Remote!OfFamily(r)
      <4> DEFINE g == sgRule[r].remote
      <4>1. /\ left.ips[r] = Remote!Aim.ips[r]
            /\ joined.ips[r] = IF g \in sets \ oldSets
                               THEN left.ips[r] \cup (ips \cap Remote!OfFamily(r)) ELSE left.ips[r]
            /\ emptied.ips[r] = IF g \in sets THEN joined.ips[r] \ oldIps ELSE joined.ips[r]
            /\ filled.ips[r] = IF g \in sets
                               THEN emptied.ips[r] \cup (ips \cap Remote!OfFamily(r)) ELSE emptied.ips[r]
            /\ Remote!Aim.ips[r] = Remote!MembersOf(member, g) \cap Remote!OfFamily(r)
        BY <2>0, <2>1, <1>0, <1>5, <1>6, <1>7, <1>8 DEF Fits, Shrunk, Grown
      <4>2. /\ Remote!MembersOf(member, g) = O(g) \cup (IF g \in oldSets THEN oldIps ELSE {})
            /\ Remote!MembersOf(member', g) = O(g) \cup (IF g \in sets THEN ips ELSE {})
            /\ O(g) \cap ips = {} /\ O(g) \cap oldIps = {}
        BY <1>3, <1>4
      <4> HIDE DEF g
      <4>3. CASE g \in oldSets
        <5>1. /\ filled.ips[r] = (((O(g) \cup oldIps) \cap Remote!OfFamily(r)) \ oldIps) \cup (ips \cap Remote!OfFamily(r))
              /\ Remote!MembersOf(member', g) = O(g) \cup ips
          BY <4>1, <4>2, <4>3, <2>0
        <5> QED BY <5>1, <4>2, Replaced DEF g
      <4>4. CASE g \notin oldSets /\ g \in sets
        <5>1. /\ filled.ips[r] = (((O(g) \cap Remote!OfFamily(r)) \cup (ips \cap Remote!OfFamily(r))) \ oldIps) \cup (ips \cap Remote!OfFamily(r))
              /\ Remote!MembersOf(member', g) = O(g) \cup ips
          BY <4>1, <4>2, <4>4, ReplacedAll
        <5> QED BY <5>1, <4>2, Replaced DEF g
      <4>5. CASE g \notin sets
        BY <4>1, <4>2, <4>5, <2>0 DEF g
      <4> QED BY <4>3, <4>4, <4>5
    <3> QED BY <2>1, <3>1, <3>2 DEF Fits
  <2>2. ASSUME normalized PROVE Fits(filled, member')
    <3>1. ASSUME NEW g \in RemoteSets PROVE filled.of[g] = Remote!MembersOf(member', g)
      <4>1. /\ left.of[g] = Remote!Aim.of[g]
            /\ joined.of[g] = IF g \in sets \ oldSets THEN left.of[g] \cup ips ELSE left.of[g]
            /\ emptied.of[g] = IF g \in sets THEN joined.of[g] \ oldIps ELSE joined.of[g]
            /\ filled.of[g] = IF g \in sets THEN emptied.of[g] \cup ips ELSE emptied.of[g]
            /\ Remote!Aim.of[g] = Remote!MembersOf(member, g)
        BY <2>0, <2>2, <1>0, <1>5, <1>6, <1>7, <1>8 DEF Fits, Shrunk, Grown
      <4>2. /\ Remote!MembersOf(member, g) = O(g) \cup (IF g \in oldSets THEN oldIps ELSE {})
            /\ Remote!MembersOf(member', g) = O(g) \cup (IF g \in sets THEN ips ELSE {})
            /\ O(g) \cap ips = {} /\ O(g) \cap oldIps = {}
        BY <1>3, <1>4
      <4>3. CASE g \in oldSets
        BY <4>1, <4>2, <4>3, <2>0, ReplacedAll
      <4>4. CASE g \notin oldSets /\ g \in sets
        BY <4>1, <4>2, <4>4, ReplacedAll
      <4>5. CASE g \notin sets
        BY <4>1, <4>2, <4>5, <2>0
      <4> QED BY <4>3, <4>4, <4>5
    <3>2. ASSUME NEW r \in mapped
          PROVE  r \in filled.to <=> Remote!MembersOf(member', sgRule[r].remote) # {}
      <4> DEFINE g == sgRule[r].remote
      <4>1. /\ r \in left.to <=> r \in Remote!Aim.to
            /\ r \in joined.to <=> r \in left.to \/ (g \in sets \ oldSets /\ ips # {} /\ Remote!MembersOf(member', g) \subseteq ips)
            /\ r \in emptied.to <=> r \in joined.to /\ ~(g \in sets /\ oldIps # {} /\ Remote!MembersOf(member', g) \subseteq oldIps)
            /\ r \in filled.to <=> r \in emptied.to \/ (g \in sets /\ ips # {} /\ Remote!MembersOf(member', g) \subseteq ips)
            /\ r \in Remote!Aim.to <=> Remote!MembersOf(member, g) # {}
        BY <2>0, <2>2, <1>0, <1>5, <1>6, <1>7, <1>8 DEF Fits, Shrunk, Grown
      <4>2. /\ Remote!MembersOf(member, g) = O(g) \cup (IF g \in oldSets THEN oldIps ELSE {})
            /\ Remote!MembersOf(member', g) = O(g) \cup (IF g \in sets THEN ips ELSE {})
            /\ O(g) \cap ips = {} /\ O(g) \cap oldIps = {}
        BY <1>3, <1>4
      <4> HIDE DEF g
      <4>3. CASE g \in oldSets
        BY <4>1, <4>2, <4>3, <2>0, ReplacedAll DEF g
      <4>4. CASE g \notin oldSets /\ g \in sets
        BY <4>1, <4>2, <4>4, ReplacedAll DEF g
      <4>5. CASE g \notin sets
        BY <4>1, <4>2, <4>5, <2>0 DEF g
      <4> QED BY <4>3, <4>4, <4>5
    <3> QED BY <2>2, <3>1, <3>2 DEF Fits
  <2>3. PortRow(p, row, filled)
    BY <1>1, <1>2, <1>8, <1>10, <2>1, <2>2 DEF PortRow, Grown
  <2> QED BY <2>3, PortRowKeeps
<1> QED BY <1>9, <1>10

--------------------
(* Groups, rules and the containers *)

LEMMA CreateSetKeeps ==
  ASSUME RemoteInv, NEW g \in RemoteSets, Remote!CreateSet(g)
  PROVE  RemoteInv'
<1>1. Remote!RemoteTypeOK'
  BY DEF RemoteInv, Remote!RemoteTypeOK, Remote!CreateSet, Remote!aimVars
<1>2. UNCHANGED <<member, sgRule, mapped, remoteIps, pointing, container, normalized>>
  BY DEF Remote!CreateSet, Remote!aimVars
<1> QED BY <1>1, <1>2 DEF RemoteInv, AddressesApart, ContainersAreFull, Remote!RulesLetMembersIn,
  Remote!MembersOf, Remote!OfFamily

LEMMA DeleteSetKeeps ==
  ASSUME AbsentIsNoRow, Careful, RemoteInv, NEW g \in RemoteSets, Remote!DeleteSet(g)
  PROVE  RemoteInv'
<1> DEFINE own == {r \in RemoteRules : sgRule[r] # Absent /\ sgRule[r].owner = g}
<1>1. /\ \A p \in MemberPorts : member[p] # Absent => g \notin member[p].sets
      /\ Remote!RulesTo({g}) \subseteq own
      /\ sgSets' = sgSets \ {g}
      /\ sgRule' = [r \in RemoteRules |-> IF r \in own \cup Remote!RulesTo({g}) THEN Absent ELSE sgRule[r]]
      /\ mapped' = mapped \ own /\ pointing' = pointing \ own
      /\ remoteIps' = [r \in RemoteRules |-> IF r \in own THEN {} ELSE remoteIps[r]]
      /\ container' = [container EXCEPT ![g] = {}]
      /\ UNCHANGED <<member, normalized>>
  BY DEF Remote!DeleteSet
<1>2. \A r \in RemoteRules : sgRule[r] # Absent /\ r \notin own =>
        sgRule[r].owner # g /\ sgRule[r].remote # g
  BY <1>1 DEF Remote!RulesTo
<1>3. \A r \in RemoteRules : sgRule'[r] = IF r \in own THEN Absent ELSE sgRule[r]
  BY <1>1
<1>4. Remote!MembersOf(member, g) = {} /\ \A h : Remote!MembersOf(member, h)' = Remote!MembersOf(member, h)
  BY <1>1 DEF Remote!MembersOf
<1> HIDE DEF own
<1>5. Remote!RemoteTypeOK'
  <2>1. \A p \in MemberPorts : member'[p] # Absent => member'[p].sets \subseteq sgSets'
    BY <1>1 DEF RemoteInv, Remote!RemoteTypeOK
  <2>2. /\ sgRule' \in [RemoteRules -> RuleRows \cup {Absent}]
        /\ \A r \in RemoteRules : sgRule'[r] # Absent =>
             {sgRule'[r].owner, sgRule'[r].remote} \subseteq sgSets'
    BY <1>1, <1>2, <1>3 DEF RemoteInv, Remote!RemoteTypeOK, RuleRows
  <2>3. /\ remoteIps' \in [RemoteRules -> SUBSET Addresses]
        /\ container' \in [RemoteSets -> SUBSET Addresses]
    BY <1>1 DEF RemoteInv, Remote!RemoteTypeOK
  <2> QED BY <1>1, <2>1, <2>2, <2>3 DEF RemoteInv, Remote!RemoteTypeOK, RuleRows
<1>6. AddressesApart'
  BY <1>1 DEF RemoteInv, AddressesApart
<1>7. \A h \in RemoteSets : container'[h] = IF h = g THEN {} ELSE container[h]
  BY <1>1 DEF RemoteInv, Remote!RemoteTypeOK
<1>8. ContainersAreFull'
  BY <1>1, <1>4, <1>7 DEF RemoteInv, ContainersAreFull
<1>9. Remote!RulesLetMembersIn'
  <2>1. mapped' = {r \in RemoteRules : sgRule'[r] # Absent}
    BY <1>1, <1>3 DEF RemoteInv, Remote!RulesLetMembersIn
  <2>2. ASSUME NEW r \in mapped'
        PROVE  LET members == Remote!MembersOf(member, sgRule'[r].remote)
               IN IF normalized
                  THEN /\ r \in pointing' <=> members # {}
                       /\ container'[sgRule'[r].remote] = members
                  ELSE remoteIps'[r] = members \cap Remote!OfFamily(r)
    <3>1. /\ r \in RemoteRules /\ r \in mapped /\ r \notin own /\ sgRule'[r] = sgRule[r]
          /\ sgRule[r].remote # g /\ sgRule[r].remote \in RemoteSets
          /\ remoteIps'[r] = remoteIps[r]
      BY <1>1, <1>2, <1>3 DEF RemoteInv, Remote!RulesLetMembersIn, Remote!RemoteTypeOK
    <3>2. LET members == Remote!MembersOf(member, sgRule[r].remote)
          IN IF normalized
             THEN /\ r \in pointing <=> members # {}
                  /\ container[sgRule[r].remote] = members
             ELSE remoteIps[r] = members \cap Remote!OfFamily(r)
      BY <3>1 DEF RemoteInv, Remote!RulesLetMembersIn
    <3> QED BY <3>1, <3>2, <1>1, <1>7
  <2>3. \A r : Remote!OfFamily(r)' = Remote!OfFamily(r)
    BY DEF Remote!OfFamily
  <2> QED BY <1>1, <1>4, <2>1, <2>2, <2>3 DEF Remote!RulesLetMembersIn
<1> QED BY <1>5, <1>6, <1>8, <1>9 DEF RemoteInv

LEMMA CreateRemoteRuleKeeps ==
  ASSUME AbsentIsNoRow, RemoteInv, NEW r \in RemoteRules, NEW holder \in RemoteSets, NEW remote \in RemoteSets,
         Remote!CreateRemoteRule(r, holder, remote)
  PROVE  RemoteInv'
<1> DEFINE all == Remote!MembersOf(member, remote)
           row == [owner |-> holder, remote |-> remote]
<1>1. /\ sgRule[r] = Absent /\ {holder, remote} \subseteq sgSets /\ r \notin mapped
      /\ sgRule' = [sgRule EXCEPT ![r] = row]
      /\ mapped' = mapped \cup {r}
      /\ remoteIps' = [remoteIps EXCEPT ![r] = IF normalized THEN {} ELSE all \cap Remote!OfFamily(r)]
      /\ pointing' = IF normalized /\ all # {} THEN pointing \cup {r} ELSE pointing
      /\ UNCHANGED <<sgSets, member, container, normalized>>
  BY DEF Remote!CreateRemoteRule
<1>2. /\ row \in RuleRows /\ row # Absent /\ row.owner = holder /\ row.remote = remote
      /\ all \subseteq Addresses
  BY MembersType DEF RuleRows, AbsentIsNoRow, RemoteInv
<1>3. \A h : Remote!MembersOf(member, h)' = Remote!MembersOf(member, h)
  BY <1>1 DEF Remote!MembersOf
<1> HIDE DEF all, row
<1>4. /\ sgRule'[r] = row
      /\ ~normalized => remoteIps'[r] = all \cap Remote!OfFamily(r)
      /\ \A q \in RemoteRules \ {r} : sgRule'[q] = sgRule[q] /\ remoteIps'[q] = remoteIps[q]
  BY <1>1 DEF RemoteInv, Remote!RemoteTypeOK
<1>5. Remote!RemoteTypeOK'
  <2>1. /\ sgRule' \in [RemoteRules -> RuleRows \cup {Absent}]
        /\ \A q \in RemoteRules : sgRule'[q] # Absent =>
             {sgRule'[q].owner, sgRule'[q].remote} \subseteq sgSets'
    BY <1>1, <1>2, <1>4 DEF RemoteInv, Remote!RemoteTypeOK, RuleRows
  <2>2. remoteIps' \in [RemoteRules -> SUBSET Addresses]
    BY <1>1, <1>2 DEF RemoteInv, Remote!RemoteTypeOK
  <2> QED BY <1>1, <2>1, <2>2 DEF RemoteInv, Remote!RemoteTypeOK, RuleRows
<1>6. AddressesApart' /\ ContainersAreFull'
  BY <1>1, <1>3 DEF RemoteInv, AddressesApart, ContainersAreFull
<1>7. Remote!RulesLetMembersIn'
  <2>1. mapped' = {q \in RemoteRules : sgRule'[q] # Absent}
    BY <1>1, <1>2, <1>4 DEF RemoteInv, Remote!RulesLetMembersIn
  <2>2. ASSUME NEW q \in mapped'
        PROVE  LET members == Remote!MembersOf(member, sgRule'[q].remote)
               IN IF normalized
                  THEN /\ q \in pointing' <=> members # {}
                       /\ container'[sgRule'[q].remote] = members
                  ELSE remoteIps'[q] = members \cap Remote!OfFamily(q)
    <3>1. CASE q = r
      <4>1. r \notin pointing
        BY <1>1 DEF RemoteInv, Remote!RemoteTypeOK
      <4>2. sgRule'[q].remote = remote
        BY <3>1, <1>2, <1>4
      <4>3. normalized => container[remote] = all
        BY DEF RemoteInv, ContainersAreFull, all
      <4>4. ~normalized => remoteIps'[r] = all \cap Remote!OfFamily(r)
        BY <1>4
      <4> QED BY <3>1, <4>1, <4>2, <4>3, <4>4, <1>1 DEF all
    <3>2. CASE q # r
      <4>1. q \in mapped /\ q \in RemoteRules /\ sgRule'[q] = sgRule[q] /\ remoteIps'[q] = remoteIps[q]
        BY <3>2, <1>1, <1>4 DEF RemoteInv, Remote!RulesLetMembersIn
      <4>2. LET members == Remote!MembersOf(member, sgRule[q].remote)
            IN IF normalized
               THEN /\ q \in pointing <=> members # {}
                    /\ container[sgRule[q].remote] = members
               ELSE remoteIps[q] = members \cap Remote!OfFamily(q)
        BY <4>1 DEF RemoteInv, Remote!RulesLetMembersIn
      <4> QED BY <3>2, <4>1, <4>2, <1>1
    <3> QED BY <3>1, <3>2
  <2>3. \A q : Remote!OfFamily(q)' = Remote!OfFamily(q)
    BY DEF Remote!OfFamily
  <2> QED BY <1>1, <1>3, <2>1, <2>2, <2>3 DEF Remote!RulesLetMembersIn
<1> QED BY <1>5, <1>6, <1>7 DEF RemoteInv

LEMMA DeleteRemoteRuleKeeps ==
  ASSUME RemoteInv, NEW r \in RemoteRules, Remote!DeleteRemoteRule(r)
  PROVE  RemoteInv'
<1>1. /\ sgRule' = [sgRule EXCEPT ![r] = Absent]
      /\ mapped' = mapped \ {r} /\ pointing' = pointing \ {r}
      /\ remoteIps' = [remoteIps EXCEPT ![r] = {}]
      /\ UNCHANGED <<sgSets, member, container, normalized>>
  BY DEF Remote!DeleteRemoteRule
<1>2. \A q \in RemoteRules : /\ sgRule'[q] = IF q = r THEN Absent ELSE sgRule[q]
                            /\ remoteIps'[q] = IF q = r THEN {} ELSE remoteIps[q]
  BY <1>1 DEF RemoteInv, Remote!RemoteTypeOK
<1>3. \A h : Remote!MembersOf(member, h)' = Remote!MembersOf(member, h)
  BY <1>1 DEF Remote!MembersOf
<1>4. Remote!RemoteTypeOK'
  BY <1>1, <1>2 DEF RemoteInv, Remote!RemoteTypeOK
<1>5. AddressesApart' /\ ContainersAreFull'
  BY <1>1, <1>3 DEF RemoteInv, AddressesApart, ContainersAreFull
<1>6. Remote!RulesLetMembersIn'
  <2>1. mapped' = {q \in RemoteRules : sgRule'[q] # Absent}
    BY <1>1, <1>2 DEF RemoteInv, Remote!RulesLetMembersIn
  <2>2. \A q : Remote!OfFamily(q)' = Remote!OfFamily(q)
    BY DEF Remote!OfFamily
  <2> QED BY <1>1, <1>2, <1>3, <2>1, <2>2 DEF RemoteInv, Remote!RulesLetMembersIn
<1> QED BY <1>4, <1>5, <1>6 DEF RemoteInv

LEMMA NormalizeKeeps ==
  ASSUME AbsentIsNoRow, Careful, RemoteInv, Remote!NormalizeHpp
  PROVE  RemoteInv'
<1>1. /\ ~normalized /\ normalized'
      /\ \A r \in Remote!RulesTo(sgSets) :
           Remote!MembersOf(member, sgRule[r].remote) # {} => remoteIps[r] # {}
      /\ container' = [g \in RemoteSets |-> IF g \in sgSets THEN Remote!MembersOf(member, g) ELSE {}]
      /\ pointing' = Remote!PointingNow
      /\ remoteIps' = [r \in RemoteRules |-> {}]
      /\ UNCHANGED <<sgSets, member, sgRule, mapped>>
  BY DEF Remote!NormalizeHpp, Remote!rowVars
<1>2. \A h : Remote!MembersOf(member, h)' = Remote!MembersOf(member, h)
  BY <1>1 DEF Remote!MembersOf
<1>3. pointing = {} /\ pointing' = {r \in mapped : remoteIps[r] # {}}
  BY <1>1 DEF RemoteInv, ContainersAreFull, Remote!PointingNow
<1>4. \A g \in RemoteSets : container'[g] = Remote!MembersOf(member, g)
  <2>1. \A g \in RemoteSets : g \notin sgSets => Remote!MembersOf(member, g) = {}
    BY DEF RemoteInv, Remote!RemoteTypeOK, Remote!MembersOf
  <2> QED BY <1>1, <2>1
<1>5. Remote!RemoteTypeOK'
  <2>1. container' \in [RemoteSets -> SUBSET Addresses]
    BY <1>1, MembersType DEF RemoteInv
  <2>2. remoteIps' \in [RemoteRules -> SUBSET Addresses]
    BY <1>1
  <2> QED BY <1>1, <1>3, <2>1, <2>2 DEF RemoteInv, Remote!RemoteTypeOK
<1>6. AddressesApart' /\ ContainersAreFull'
  BY <1>1, <1>2, <1>4 DEF RemoteInv, AddressesApart, ContainersAreFull
<1>7. Remote!RulesLetMembersIn'
  <2>1. mapped' = {r \in RemoteRules : sgRule'[r] # Absent}
    BY <1>1 DEF RemoteInv, Remote!RulesLetMembersIn
  <2>2. ASSUME NEW r \in mapped
        PROVE  /\ sgRule[r].remote \in RemoteSets
               /\ remoteIps[r] # {} <=> Remote!MembersOf(member, sgRule[r].remote) # {}
    <3>1. r \in RemoteRules /\ sgRule[r] # Absent /\ sgRule[r].remote \in sgSets
      BY DEF RemoteInv, Remote!RulesLetMembersIn, Remote!RemoteTypeOK
    <3>2. r \in Remote!RulesTo(sgSets)
      BY <3>1 DEF Remote!RulesTo
    <3>3. remoteIps[r] = Remote!MembersOf(member, sgRule[r].remote) \cap Remote!OfFamily(r)
      BY <1>1 DEF RemoteInv, Remote!RulesLetMembersIn
    <3> QED BY <1>1, <3>1, <3>2, <3>3 DEF RemoteInv, Remote!RemoteTypeOK
  <2> QED BY <1>1, <1>2, <1>3, <1>4, <2>1, <2>2 DEF Remote!RulesLetMembersIn
<1> QED BY <1>5, <1>6, <1>7 DEF RemoteInv

--------------------
(* Theorems *)

LEMMA RemoteInvHolds ==
  ASSUME AbsentIsNoRow, Careful
  PROVE  Remote!RemoteSpec => []RemoteInv
<1>1. Remote!RemoteInit => RemoteInv
  BY DEF Remote!RemoteInit, RemoteInv, Remote!RemoteTypeOK, AddressesApart, ContainersAreFull,
    Remote!RulesLetMembersIn
<1>2. RemoteInv /\ [Remote!RemoteNext]_Remote!remoteVars => RemoteInv'
  <2> SUFFICES ASSUME RemoteInv, [Remote!RemoteNext]_Remote!remoteVars PROVE RemoteInv'
    OBVIOUS
  <2>1. CASE UNCHANGED Remote!remoteVars
    BY <2>1 DEF Remote!remoteVars, Remote!rowVars, Remote!aimVars, RemoteInv,
      Remote!RemoteTypeOK, AddressesApart, ContainersAreFull,
      Remote!RulesLetMembersIn, Remote!MembersOf, Remote!OfFamily
  <2>2. CASE Remote!RemoteNext
    BY <2>2, CreateMemberKeeps, UpdateMemberKeeps, DeleteMemberKeeps, CreateSetKeeps,
      DeleteSetKeeps,
       CreateRemoteRuleKeeps, DeleteRemoteRuleKeeps, NormalizeKeeps DEF Remote!RemoteNext
  <2> QED BY <2>1, <2>2
<1> QED BY <1>1, <1>2, PTL DEF Remote!RemoteSpec

\* Rows and AIM resources have their types, and ports and rules name groups that
\* exist (mechanism_driver.py, create_security_group_rule_precommit and its like).
THEOREM RemoteTypesCorrect ==
  ASSUME AbsentIsNoRow, Careful
  PROVE  Remote!RemoteSpec => []Remote!RemoteTypeOK
<1>1. RemoteInv => Remote!RemoteTypeOK
  BY DEF RemoteInv
<1> QED BY <1>1, RemoteInvHolds, PTL

\* A rule lets in the addresses of the members of its remote group and no others,
\* whatever ports join, leave and change, and whenever the containers come into
\* use (_update_sg_rule_with_remote_group_set, normalize).
THEOREM RulesAreRight ==
  ASSUME AbsentIsNoRow, Careful
  PROVE  Remote!RemoteSpec => []Remote!RulesLetMembersIn
<1>1. RemoteInv => Remote!RulesLetMembersIn
  BY DEF RemoteInv
<1> QED BY <1>1, RemoteInvHolds, PTL

LEMMA RemoteMoves ==
  MCSpec => Remote!RemoteSpec
<1>1. MCInit => Remote!RemoteInit
  BY DEF MCInit
<1>2. [MCNext]_<<vars, bindingVars, remoteVars, endpointVars, topic>>
        => [Remote!RemoteNext]_(Remote!remoteVars)
  BY DEF MCNext, remoteVars, Remote!remoteVars, Remote!rowVars, Remote!aimVars
<1> QED BY <1>1, <1>2, PTL DEF MCSpec, Remote!RemoteSpec

--------------------
(* Owners of addresses: whenever what an agent knows is out of date, something is on
   its way to it (Told): a notification, an answer that was not read yet, or a report
   that will notify it.  That a report notifies the right ports rests on what it read
   before it wrote (OwnersAreOld). *)

Steps == {"read", "look", "write", "notify"}
Report == [vip : Vips, port : AgentPorts, old : Endpoint!Owners, found : BOOLEAN, step : Steps]
Request == [answer : {Absent} \cup Endpoint!AnyDetails]

\* Absent is neither a port nor a record.
AbsentIsNothing ==
  /\ Absent \notin AgentPorts /\ Absent \notin Report
  /\ Absent \notin Request /\ Absent \notin Endpoint!AnyDetails

\* The reports of an address come one after the other, and are for ports that
\* have the address.
ReportsApart ==
  \A w, x \in Reporters : w # x /\ report[w] # Absent /\ report[x] # Absent =>
    report[w].vip # report[x].vip
OwnersHaveThePair ==
  /\ \A v \in Vips : owner[v] # Absent => v \in pairs[owner[v]]
  /\ \A w \in Reporters : report[w] # Absent => report[w].vip \in pairs[report[w].port]

\* A port loses the address that is reported only by an update of its own.
OwnersAreOld ==
  \A w \in Reporters : report[w] # Absent /\ report[w].step \in {"look", "write"} =>
    owner[report[w].vip] \in {report[w].old, Absent}

\* The port will be notified of what a report has written.
WillHear(p) ==
  \E w \in Reporters : /\ report[w] # Absent /\ report[w].step = "notify"
                       /\ p \in {report[w].port, report[w].old}

\* The agent knows the details, will know them with the answer that is on its
\* way, or will ask.
Told(p) ==
  \/ p \in notices \/ WillHear(p)
  \/ request[p] = Absent /\ view[p] = Endpoint!Details(p)
  \/ request[p] # Absent /\ request[p].answer \in {Absent, Endpoint!Details(p)}

EndpointInv ==
  /\ Endpoint!EndpointTypeOK /\ ReportsApart /\ OwnersHaveThePair /\ OwnersAreOld
  /\ \A p \in AgentPorts : Told(p)

LEMMA ReportRow ==
  ASSUME AbsentIsNothing, Endpoint!EndpointTypeOK, NEW w \in Reporters, report[w] # Absent
  PROVE  report[w] \in Report
BY DEF Endpoint!EndpointTypeOK, Report, Steps

LEMMA DetailsType ==
  ASSUME Endpoint!EndpointTypeOK, NEW p \in AgentPorts
  PROVE  Endpoint!Details(p) \in Endpoint!AnyDetails
BY DEF Endpoint!EndpointTypeOK, Endpoint!Details, Endpoint!Owned, Endpoint!FloatingOf,
  Endpoint!AnyDetails

\* Nothing that the details are made of changes.
LEMMA SameDetails ==
  ASSUME UNCHANGED Endpoint!endpointRows
  PROVE  \A p : Endpoint!Details(p)' = Endpoint!Details(p)
BY DEF Endpoint!endpointRows, Endpoint!Details, Endpoint!Owned, Endpoint!FloatingOf

--------------------
(* Reports *)

LEMMA UpdateIpOwnerKeeps ==
  ASSUME AbsentIsNothing, Careful, EndpointInv, NEW w \in Reporters, NEW p \in AgentPorts,
  NEW v \in Vips,
         Endpoint!UpdateIpOwner(w, p, v)
  PROVE  EndpointInv'
<1> DEFINE r == [vip |-> v, port |-> p, old |-> Absent, found |-> FALSE, step |-> "read"]
<1>1. /\ report[w] = Absent /\ v \in pairs[p]
      /\ \A x \in Reporters : report[x] # Absent => report[x].vip # v
      /\ report' = [report EXCEPT ![w] = r]
      /\ UNCHANGED Endpoint!endpointRows /\ UNCHANGED Endpoint!agentVars
  BY DEF Endpoint!UpdateIpOwner, Endpoint!Reports
<1>2. r \in Report /\ r.vip = v /\ r.port = p /\ r.step = "read"
  BY DEF Report, Endpoint!Owners, Steps
<1> HIDE DEF r
<1>3. report'[w] = r /\ \A x \in Reporters \ {w} : report'[x] = report[x]
  BY <1>1 DEF EndpointInv, Endpoint!EndpointTypeOK
<1>4. Endpoint!EndpointTypeOK'
  BY <1>1, <1>2 DEF EndpointInv, Endpoint!EndpointTypeOK, Endpoint!endpointRows,
    Endpoint!agentVars, Report, Steps
<1>5. ReportsApart'
  BY <1>1, <1>2, <1>3 DEF EndpointInv, ReportsApart
<1>6. OwnersHaveThePair' /\ OwnersAreOld'
  BY <1>1, <1>2, <1>3 DEF EndpointInv, OwnersHaveThePair, OwnersAreOld, Endpoint!endpointRows
<1>7. \A q \in AgentPorts : Told(q)'
  <2> SUFFICES ASSUME NEW q \in AgentPorts PROVE Told(q)'
    OBVIOUS
  <2>1. WillHear(q) => WillHear(q)'
    BY <1>1, <1>3 DEF WillHear
  <2>2. Told(q) /\ UNCHANGED Endpoint!agentVars
    BY <1>1 DEF EndpointInv
  <2> QED BY <1>1, <2>1, <2>2, SameDetails DEF Told, Endpoint!agentVars
<1> QED BY <1>4, <1>5, <1>6, <1>7 DEF EndpointInv

\* A report goes on without writing anything.
LEMMA ReportGoesOn ==
  ASSUME AbsentIsNothing, EndpointInv, NEW w \in Reporters, NEW r \in Report, report[w] # Absent,
         report' = [report EXCEPT ![w] = r],
         r.vip = report[w].vip, r.port = report[w].port,
         report[w].step # "notify",
         r.step \in {"look", "write"} => owner[r.vip] \in {r.old, Absent},
         UNCHANGED Endpoint!endpointRows, UNCHANGED Endpoint!agentVars
  PROVE  EndpointInv'
<1>3. report'[w] = r /\ \A x \in Reporters \ {w} : report'[x] = report[x]
  BY DEF EndpointInv, Endpoint!EndpointTypeOK
<1>0. r # Absent
  BY DEF AbsentIsNothing
<1>4. Endpoint!EndpointTypeOK'
  BY DEF EndpointInv, Endpoint!EndpointTypeOK, Endpoint!endpointRows, Endpoint!agentVars, Report,
    Steps
<1>5. ReportsApart'
  BY <1>0, <1>3 DEF EndpointInv, ReportsApart
<1>6. OwnersHaveThePair' /\ OwnersAreOld'
  BY <1>0, <1>3 DEF EndpointInv, OwnersHaveThePair, OwnersAreOld, Endpoint!endpointRows
<1>7. \A q \in AgentPorts : Told(q)'
  <2> SUFFICES ASSUME NEW q \in AgentPorts PROVE Told(q)'
    OBVIOUS
  <2>1. WillHear(q) => WillHear(q)'
    BY <1>3 DEF WillHear
  <2>2. Told(q)
    BY DEF EndpointInv
  <2> QED BY <2>1, <2>2, SameDetails DEF Told, Endpoint!agentVars
<1> QED BY <1>4, <1>5, <1>6, <1>7 DEF EndpointInv

LEMMA ReadOldOwnerKeeps ==
  ASSUME AbsentIsNothing, EndpointInv, NEW w \in Reporters, Endpoint!ReadOldOwner(w)
  PROVE  EndpointInv'
<1> DEFINE r == [[report[w] EXCEPT !.old = owner[report[w].vip]] EXCEPT !.step = "look"]
<1>1. /\ report[w] # Absent /\ report[w].step = "read"
      /\ report' = [report EXCEPT ![w] = r]
      /\ UNCHANGED Endpoint!endpointRows /\ UNCHANGED Endpoint!agentVars
  BY DEF Endpoint!ReadOldOwner, Endpoint!At, Endpoint!GoTo
<1>2. report[w] \in Report
  BY <1>1, ReportRow DEF EndpointInv
<1>3. owner[report[w].vip] \in Endpoint!Owners
  BY <1>2 DEF EndpointInv, Endpoint!EndpointTypeOK, Report
<1>4. /\ r \in Report /\ r.vip = report[w].vip /\ r.port = report[w].port
      /\ r.old = owner[report[w].vip] /\ r.step = "look"
  BY <1>2, <1>3 DEF Report, Steps
<1> HIDE DEF r
<1> QED BY <1>1, <1>4, ReportGoesOn

LEMMA LookForRowKeeps ==
  ASSUME AbsentIsNothing, EndpointInv, NEW w \in Reporters, Endpoint!LookForRow(w)
  PROVE  EndpointInv'
<1> DEFINE r == [[report[w] EXCEPT !.found = owner[report[w].vip] # Absent] EXCEPT !.step = "write"]
<1>1. /\ report[w] # Absent /\ report[w].step = "look"
      /\ report' = [report EXCEPT ![w] = r]
      /\ UNCHANGED Endpoint!endpointRows /\ UNCHANGED Endpoint!agentVars
  BY DEF Endpoint!LookForRow, Endpoint!At, Endpoint!GoTo
<1>2. report[w] \in Report
  BY <1>1, ReportRow DEF EndpointInv
<1>3. (owner[report[w].vip] # Absent) \in BOOLEAN
  OBVIOUS
<1>4. /\ r \in Report /\ r.vip = report[w].vip /\ r.port = report[w].port
      /\ r.old = report[w].old /\ r.step = "write"
  BY <1>2, <1>3 DEF Report, Steps
<1>5. owner[report[w].vip] \in {report[w].old, Absent}
  BY <1>1 DEF EndpointInv, OwnersAreOld
<1> HIDE DEF r
<1> QED BY <1>1, <1>4, <1>5, ReportGoesOn

\* The ports whose details change are the port of the report and the owner that
\* it has read.
LEMMA WriteOwnerKeeps ==
  ASSUME AbsentIsNothing, EndpointInv, NEW w \in Reporters, Endpoint!WriteOwner(w)
  PROVE  EndpointInv'
<1> DEFINE q == report[w]
           r == [q EXCEPT !.step = "notify"]
           new == Endpoint!NewOwner(q.vip, q.port, q.found)
<1>1. /\ q # Absent /\ q.step = "write"
      /\ owner' = [owner EXCEPT ![q.vip] = new]
      /\ report' = [report EXCEPT ![w] = r]
      /\ UNCHANGED <<pairs, floating>> /\ UNCHANGED Endpoint!agentVars
  BY DEF Endpoint!WriteOwner, Endpoint!At, Endpoint!GoTo
<1>2. q \in Report /\ q.vip \in Vips /\ q.port \in AgentPorts /\ q.vip \in pairs[q.port]
  BY <1>1, ReportRow DEF EndpointInv, Report, OwnersHaveThePair
<1>3. new \in {q.port, owner[q.vip]} /\ owner[q.vip] \in {q.old,
  Absent} /\ owner[q.vip] \in Endpoint!Owners
  BY <1>1, <1>2 DEF Endpoint!NewOwner, EndpointInv, OwnersAreOld, Endpoint!EndpointTypeOK
<1>4. /\ r \in Report /\ r.vip = q.vip /\ r.port = q.port /\ r.old = q.old /\ r.step = "notify"
      /\ r # Absent
  BY <1>2 DEF Report, Steps, AbsentIsNothing
<1> HIDE DEF r, new
<1>5. report'[w] = r /\ \A x \in Reporters \ {w} : report'[x] = report[x]
  BY <1>1 DEF EndpointInv, Endpoint!EndpointTypeOK
<1>6. owner'[q.vip] = new /\ \A v \in Vips \ {q.vip} : owner'[v] = owner[v]
  BY <1>1, <1>2 DEF EndpointInv, Endpoint!EndpointTypeOK
<1>7. Endpoint!EndpointTypeOK'
  <2>1. owner' \in [Vips -> Endpoint!Owners]
    BY <1>1, <1>2, <1>3 DEF EndpointInv, Endpoint!EndpointTypeOK, Endpoint!Owners
  <2> QED BY <2>1, <1>1, <1>4 DEF EndpointInv, Endpoint!EndpointTypeOK, Endpoint!agentVars,
    Report, Steps
<1>8. ReportsApart'
  BY <1>1, <1>4, <1>5 DEF EndpointInv, ReportsApart
<1>9. OwnersHaveThePair'
  BY <1>1, <1>2, <1>3, <1>4, <1>5, <1>6 DEF EndpointInv, OwnersHaveThePair
<1>10. OwnersAreOld'
  <2> SUFFICES ASSUME NEW x \in Reporters, report'[x] # Absent, report'[x].step \in {"look",
    "write"}
               PROVE  owner'[report'[x].vip] \in {report'[x].old, Absent}
    BY DEF OwnersAreOld
  <2>1. x # w /\ report'[x] = report[x]
    BY <1>4, <1>5
  <2>2. report[x].vip # q.vip /\ report[x].vip \in Vips
    BY <2>1, <1>1, ReportRow DEF EndpointInv, ReportsApart, Report
  <2> QED BY <2>1, <2>2, <1>6 DEF EndpointInv, OwnersAreOld
<1>11. ASSUME NEW p \in AgentPorts PROVE Told(p)'
  <2>1. CASE p \in {q.port, q.old}
    BY <2>1, <1>4, <1>5 DEF Told, WillHear
  <2>2. CASE p \notin {q.port, q.old}
    <3>1. \A v \in Vips : owner'[v] = p <=> owner[v] = p
      BY <2>2, <1>3, <1>6 DEF AbsentIsNothing
    <3>2. Endpoint!Details(p)' = Endpoint!Details(p)
      BY <3>1, <1>1 DEF Endpoint!Details, Endpoint!Owned, Endpoint!FloatingOf, EndpointInv,
        Endpoint!EndpointTypeOK
    <3>3. WillHear(p) => WillHear(p)'
      BY <1>1, <1>5 DEF WillHear
    <3>4. Told(p)
      BY DEF EndpointInv
    <3> QED BY <3>2, <3>3, <3>4, <1>1 DEF Told, Endpoint!agentVars
  <2> QED BY <2>1, <2>2
<1> QED BY <1>7, <1>8, <1>9, <1>10, <1>11 DEF EndpointInv

LEMMA NotifyOwnersKeeps ==
  ASSUME AbsentIsNothing, EndpointInv, NEW w \in Reporters, Endpoint!NotifyOwners(w)
  PROVE  EndpointInv'
<1>1. /\ report[w] # Absent /\ report[w].step = "notify"
      /\ notices' = notices \cup ({report[w].port, report[w].old} \ {Absent})
      /\ report' = [report EXCEPT ![w] = Absent]
      /\ UNCHANGED Endpoint!endpointRows /\ UNCHANGED <<request, view>>
  BY DEF Endpoint!NotifyOwners, Endpoint!At, Endpoint!ToNotify
<1>2. report'[w] = Absent /\ \A x \in Reporters \ {w} : report'[x] = report[x]
  BY <1>1 DEF EndpointInv, Endpoint!EndpointTypeOK
<1>3. Endpoint!EndpointTypeOK'
  <2>1. {report[w].port, report[w].old} \ {Absent} \subseteq AgentPorts
    BY <1>1, ReportRow DEF EndpointInv, Report, Endpoint!Owners
  <2> QED BY <1>1, <2>1 DEF EndpointInv, Endpoint!EndpointTypeOK, Endpoint!endpointRows
<1>4. ReportsApart' /\ OwnersHaveThePair' /\ OwnersAreOld'
  BY <1>1, <1>2 DEF EndpointInv, ReportsApart, OwnersHaveThePair, OwnersAreOld,
    Endpoint!endpointRows
<1>5. ASSUME NEW p \in AgentPorts PROVE Told(p)'
  <2>1. Told(p) /\ Endpoint!Details(p)' = Endpoint!Details(p)
    BY <1>1, SameDetails DEF EndpointInv
  <2>2. WillHear(p) => WillHear(p)' \/ p \in notices'
    BY <1>1, <1>2 DEF WillHear, AbsentIsNothing
  <2> QED BY <1>1, <2>1, <2>2 DEF Told
<1> QED BY <1>3, <1>4, <1>5 DEF EndpointInv

--------------------
(* Ports, floating addresses and agents *)

LEMMA UpdatePairsKeeps ==
  ASSUME AbsentIsNothing, Careful, EndpointInv, NEW p \in AgentPorts, NEW vs \in SUBSET Vips,
  Endpoint!UpdatePairs(p, vs)
  PROVE  EndpointInv'
<1>1. /\ \A w \in Reporters : report[w] # Absent => report[w].port # p
      /\ pairs' = [pairs EXCEPT ![p] = vs]
      /\ owner' = [v \in Vips |-> IF owner[v] = p /\ v \in pairs[p] \ vs THEN Absent ELSE owner[v]]
      /\ notices' = notices \cup {p}
      /\ UNCHANGED <<floating, report, request, view>>
  BY DEF Endpoint!UpdatePairs, Endpoint!ReportsFor, Endpoint!OwnersLeft
<1>2. \A q \in AgentPorts : pairs'[q] = IF q = p THEN vs ELSE pairs[q]
  BY <1>1 DEF EndpointInv, Endpoint!EndpointTypeOK
<1>3. \A v \in Vips : /\ owner'[v] \in {owner[v], Absent}
                      /\ owner[v] # p => owner'[v] = owner[v]
                      /\ owner'[v] = p => v \in vs
                      /\ owner[v] \in Endpoint!Owners
  BY <1>1 DEF EndpointInv, Endpoint!EndpointTypeOK, OwnersHaveThePair, AbsentIsNothing
<1>4. Endpoint!EndpointTypeOK'
  <2>1. owner' \in [Vips -> Endpoint!Owners]
    BY <1>1, <1>3 DEF Endpoint!Owners
  <2> QED BY <1>1, <2>1 DEF EndpointInv, Endpoint!EndpointTypeOK
<1>5. ReportsApart'
  BY <1>1 DEF EndpointInv, ReportsApart
<1>6. OwnersHaveThePair'
  <2>1. \A v \in Vips : owner'[v] # Absent => v \in pairs'[owner'[v]]
    BY <1>2, <1>3 DEF EndpointInv, OwnersHaveThePair, Endpoint!Owners
  <2>2. \A w \in Reporters : report[w] # Absent => report[w].vip \in pairs'[report[w].port]
    BY <1>1, <1>2, ReportRow DEF EndpointInv, OwnersHaveThePair, Report
  <2> QED BY <1>1, <2>1, <2>2 DEF OwnersHaveThePair
<1>7. OwnersAreOld'
  BY <1>1, <1>3, ReportRow DEF EndpointInv, OwnersAreOld, Report
<1>8. ASSUME NEW q \in AgentPorts PROVE Told(q)'
  <2>1. CASE q = p
    BY <1>1, <2>1 DEF Told
  <2>2. CASE q # p
    <3>1. \A v \in Vips : owner'[v] = q <=> owner[v] = q
      BY <2>2, <1>3 DEF AbsentIsNothing
    <3>2. Endpoint!Details(q)' = Endpoint!Details(q)
      BY <2>2, <3>1, <1>1, <1>2 DEF Endpoint!Details, Endpoint!Owned, Endpoint!FloatingOf,
        EndpointInv, Endpoint!EndpointTypeOK
    <3>3. WillHear(q)' <=> WillHear(q)
      BY <1>1 DEF WillHear
    <3>4. Told(q)
      BY DEF EndpointInv
    <3> QED BY <3>2, <3>3, <3>4, <1>1 DEF Told
  <2> QED BY <2>1, <2>2
<1> QED BY <1>4, <1>5, <1>6, <1>7, <1>8 DEF EndpointInv

LEMMA ToggleFloatingKeeps ==
  ASSUME AbsentIsNothing, EndpointInv, NEW v \in Vips, Endpoint!ToggleFloating(v)
  PROVE  EndpointInv'
<1>1. /\ floating' = IF v \in floating THEN floating \ {v} ELSE floating \cup {v}
      /\ notices' = notices \cup {p \in AgentPorts : v \in pairs[p]}
      /\ UNCHANGED <<owner, pairs, report, request, view>>
  BY DEF Endpoint!ToggleFloating
<1>2. Endpoint!EndpointTypeOK' /\ ReportsApart' /\ OwnersHaveThePair' /\ OwnersAreOld'
  BY <1>1 DEF EndpointInv, Endpoint!EndpointTypeOK, ReportsApart, OwnersHaveThePair, OwnersAreOld
<1>3. ASSUME NEW p \in AgentPorts PROVE Told(p)'
  <2>1. CASE v \in pairs[p]
    BY <1>1, <2>1 DEF Told
  <2>2. CASE v \notin pairs[p]
    <3>1. owner[v] # p
      BY <2>2 DEF EndpointInv, OwnersHaveThePair, AbsentIsNothing
    <3>2. Endpoint!Details(p)' = Endpoint!Details(p)
      BY <3>1, <1>1 DEF Endpoint!Details, Endpoint!Owned, Endpoint!FloatingOf
    <3>3. WillHear(p)' <=> WillHear(p)
      BY <1>1 DEF WillHear
    <3>4. Told(p)
      BY DEF EndpointInv
    <3> QED BY <3>2, <3>3, <3>4, <1>1 DEF Told
  <2> QED BY <2>1, <2>2
<1> QED BY <1>2, <1>3 DEF EndpointInv

LEMMA AgentsKeep ==
  ASSUME AbsentIsNothing, EndpointInv, NEW p \in AgentPorts,
  Endpoint!Ask(p) \/ Endpoint!RequestEndpointDetails(p) \/ Endpoint!Receive(p)
  PROVE  EndpointInv'
<1>1. UNCHANGED Endpoint!endpointRows /\ UNCHANGED report
  BY DEF Endpoint!Ask, Endpoint!RequestEndpointDetails, Endpoint!Receive
<1>2. ReportsApart' /\ OwnersHaveThePair' /\ OwnersAreOld'
  BY <1>1 DEF EndpointInv, ReportsApart, OwnersHaveThePair, OwnersAreOld, Endpoint!endpointRows
<1>3. \A q : Endpoint!Details(q)' = Endpoint!Details(q) /\ (WillHear(q)' <=> WillHear(q))
  BY <1>1, SameDetails DEF WillHear
<1>4. Endpoint!Details(p) \in Endpoint!AnyDetails /\ Endpoint!Details(p) # Absent
  BY DetailsType DEF EndpointInv, AbsentIsNothing
<1>5. /\ request \in [AgentPorts -> {Absent} \cup Request]
      /\ view \in [AgentPorts -> Endpoint!AnyDetails]
      /\ request[p] # Absent => request[p] \in Request
  BY DEF EndpointInv, Endpoint!EndpointTypeOK, Request
<1>6. CASE Endpoint!Ask(p)
  <2> DEFINE asked == [answer |-> Absent]
  <2>1. /\ notices' = notices \ {p} /\ request[p] = Absent
        /\ request' = [request EXCEPT ![p] = asked] /\ UNCHANGED view
    BY <1>6 DEF Endpoint!Ask
  <2>2. asked \in Request /\ asked # Absent /\ asked.answer = Absent
    BY DEF Request, AbsentIsNothing
  <2> HIDE DEF asked
  <2>3. Endpoint!EndpointTypeOK'
    BY <1>1, <2>1, <2>2 DEF EndpointInv, Endpoint!EndpointTypeOK, Endpoint!endpointRows, Request
  <2>4. \A q \in AgentPorts : request'[q] = IF q = p THEN asked ELSE request[q]
    BY <1>5, <2>1
  <2>5. \A q \in AgentPorts : Told(q)'
    BY <1>3, <2>1, <2>2, <2>4 DEF EndpointInv, Told
  <2> QED BY <1>2, <2>3, <2>5 DEF EndpointInv
<1>7. CASE Endpoint!RequestEndpointDetails(p)
  <2> DEFINE told == [request[p] EXCEPT !.answer = Endpoint!Details(p)]
  <2>1. /\ request[p] # Absent /\ request' = [request EXCEPT ![p] = told]
        /\ UNCHANGED <<notices, view>>
    BY <1>7, <1>5 DEF Endpoint!RequestEndpointDetails
  <2>2. told \in Request /\ told # Absent /\ told.answer = Endpoint!Details(p)
    BY <1>4, <1>5, <2>1 DEF Request, AbsentIsNothing
  <2> HIDE DEF told
  <2>3. Endpoint!EndpointTypeOK'
    BY <1>1, <2>1, <2>2 DEF EndpointInv, Endpoint!EndpointTypeOK, Endpoint!endpointRows, Request
  <2>4. \A q \in AgentPorts : request'[q] = IF q = p THEN told ELSE request[q]
    BY <1>5, <2>1
  <2>5. \A q \in AgentPorts : Told(q)'
    BY <1>3, <2>1, <2>2, <2>4 DEF EndpointInv, Told
  <2> QED BY <1>2, <2>3, <2>5 DEF EndpointInv
<1>8. CASE Endpoint!Receive(p)
  <2>1. /\ request[p] # Absent /\ request[p].answer # Absent
        /\ view' = [view EXCEPT ![p] = request[p].answer]
        /\ request' = [request EXCEPT ![p] = Absent] /\ UNCHANGED notices
    BY <1>8 DEF Endpoint!Receive
  <2>2. request[p].answer \in Endpoint!AnyDetails
    BY <1>5, <2>1 DEF Request
  <2>3. Endpoint!EndpointTypeOK'
    BY <1>1, <2>1, <2>2 DEF EndpointInv, Endpoint!EndpointTypeOK, Endpoint!endpointRows
  <2>4. \A q \in AgentPorts : /\ request'[q] = IF q = p THEN Absent ELSE request[q]
                              /\ view'[q] = IF q = p THEN request[p].answer ELSE view[q]
    BY <1>5, <2>1
  <2>5. \A q \in AgentPorts : Told(q)'
    BY <1>3, <2>1, <2>2, <2>4 DEF EndpointInv, Told
  <2> QED BY <1>2, <2>3, <2>5 DEF EndpointInv
<1> QED BY <1>6, <1>7, <1>8

--------------------
(* Theorems *)

LEMMA EndpointInvHolds ==
  ASSUME AbsentIsNothing, Careful
  PROVE  Endpoint!EndpointSpec => []EndpointInv
<1>1. Endpoint!EndpointInit => EndpointInv
  <2> SUFFICES ASSUME Endpoint!EndpointInit PROVE EndpointInv
    OBVIOUS
  <2>1. Endpoint!EndpointTypeOK
    BY DEF Endpoint!EndpointInit, Endpoint!EndpointTypeOK, Endpoint!Owners, Endpoint!NoDetails,
      Endpoint!AnyDetails
  <2>2. ASSUME NEW p \in AgentPorts PROVE Endpoint!Details(p) = Endpoint!NoDetails
    BY DEF Endpoint!EndpointInit, Endpoint!Details, Endpoint!Owned, Endpoint!FloatingOf,
      Endpoint!NoDetails, AbsentIsNothing
  <2> QED BY <2>1, <2>2 DEF Endpoint!EndpointInit, EndpointInv, ReportsApart, OwnersHaveThePair,
    OwnersAreOld, Told
<1>2. EndpointInv /\ [Endpoint!EndpointNext]_Endpoint!endpointVars => EndpointInv'
  <2> SUFFICES ASSUME EndpointInv, [Endpoint!EndpointNext]_Endpoint!endpointVars PROVE EndpointInv'
    OBVIOUS
  <2>1. CASE UNCHANGED Endpoint!endpointVars
    BY <2>1 DEF Endpoint!endpointVars, Endpoint!endpointRows, Endpoint!agentVars, EndpointInv,
      Endpoint!EndpointTypeOK, ReportsApart,
      OwnersHaveThePair, OwnersAreOld, Told, WillHear, Endpoint!Details, Endpoint!Owned,
      Endpoint!FloatingOf
  <2>2. CASE Endpoint!EndpointNext
    BY <2>2, UpdateIpOwnerKeeps, ReadOldOwnerKeeps, LookForRowKeeps, WriteOwnerKeeps,
       NotifyOwnersKeeps, UpdatePairsKeeps, ToggleFloatingKeeps,
       AgentsKeep DEF Endpoint!EndpointNext
  <2> QED BY <2>1, <2>2
<1> QED BY <1>1, <1>2, PTL DEF Endpoint!EndpointSpec

\* Every row, notification, request and answer has its type (db.py, rpc.py).
THEOREM EndpointTypesCorrect ==
  ASSUME AbsentIsNothing, Careful
  PROVE  Endpoint!EndpointSpec => []Endpoint!EndpointTypeOK
<1>1. EndpointInv => Endpoint!EndpointTypeOK
  BY DEF EndpointInv
<1> QED BY <1>1, EndpointInvHolds, PTL

\* When nothing is on its way to an agent it knows the addresses that its port owns
\* and the floating addresses behind them, although a report reads the old owner,
\* looks for the row and writes it in three transactions (update_ip_owner, rpc.py;
\* update_port_id_for_ha_ipaddress, db.py).
THEOREM AgentsLearnTheirAddresses ==
  ASSUME AbsentIsNothing, Careful
  PROVE  Endpoint!EndpointSpec => []Endpoint!AgentsKnowTheirAddresses
<1>1. EndpointInv => Endpoint!AgentsKnowTheirAddresses
  <2> SUFFICES ASSUME EndpointInv, NEW p \in AgentPorts,
    Endpoint!Settled(p) PROVE view[p] = Endpoint!Details(p)
    BY DEF Endpoint!AgentsKnowTheirAddresses
  <2>1. ~WillHear(p)
    BY DEF Endpoint!Settled, Endpoint!At, WillHear
  <2> QED BY <2>1 DEF EndpointInv, Told, Endpoint!Settled
<1> QED BY <1>1, EndpointInvHolds, PTL

LEMMA EndpointsMove ==
  MCSpec => Endpoint!EndpointSpec
<1>1. MCInit => Endpoint!EndpointInit
  BY DEF MCInit
<1>2. [MCNext]_<<vars, bindingVars, remoteVars, endpointVars, topic>>
        => [Endpoint!EndpointNext]_(Endpoint!endpointVars)
  BY DEF MCNext, endpointVars, Endpoint!endpointVars, Endpoint!endpointRows, Endpoint!agentVars
<1> QED BY <1>1, <1>2, PTL DEF MCSpec, Endpoint!EndpointSpec

--------------------
\* Rules let in exactly the members of their remote groups, and agents end up with
\* the addresses their ports own, for any number of groups, ports, rules, addresses
\* and workers; Absent is none of the rows (mechanism_driver.py, rpc.py, db.py).
THEOREM AddressesStayKnown ==
  ASSUME AbsentIsNoRow, AbsentIsNothing, Careful
  PROVE  MCSpec => []AddressesAreKnown
<1>1. Remote!RemoteSpec => []Remote!RemoteTypeOK
  BY RemoteTypesCorrect
<1>2. Remote!RemoteSpec => []Remote!RulesLetMembersIn
  BY RulesAreRight
<1>3. Endpoint!EndpointSpec => []Endpoint!EndpointTypeOK
  BY EndpointTypesCorrect
<1>4. Endpoint!EndpointSpec => []Endpoint!AgentsKnowTheirAddresses
  BY AgentsLearnTheirAddresses
<1>5. /\ Remote!RemoteTypeOK /\ Remote!RulesLetMembersIn
      /\ Endpoint!EndpointTypeOK /\ Endpoint!AgentsKnowTheirAddresses
      => AddressesAreKnown
  BY DEF AddressesAreKnown
<1> QED BY <1>1, <1>2, <1>3, <1>4, <1>5, RemoteMoves, EndpointsMove, PTL

--------------------
(* The routed topology: the invariant *)

Calls == [op : {"interface"}, port : RouterPorts]
         \cup [op : {"gateway", "ungateway"}, router : Routers, ext : ExtNets]

\* Finitely many rows; one call at a time; None is no row; a project is not called
\* "common", and no scope has a VRF that the driver makes for projects.
TopologyConstants ==
  /\ IsFiniteSet(Networks) /\ IsFiniteSet(Subnets) /\ IsFiniteSet(Routers)
  /\ \A v, w \in Workers : v = w
  /\ None \notin Scopes \cup Vrfs \cup ExtNets \cup Calls
  /\ "common" \notin Projects
  /\ ScopeVrfs \cap (DefaultVrfs \cup {UnroutedVrf}) = {}

\* The networks with unscoped interfaces.
Open(ports) == {NetworkOf[p[2]] : p \in {q \in ports : Unscoped(q[2])}}

\* The walk from these networks leads to none but these.
Walled(nets, ports) ==
  \A p, q \in ports : NetworkOf[p[2]] \in nets /\ p[1] = q[1] /\ Unscoped(q[2])
                        => NetworkOf[q[2]] \in nets

\* Routers are on networks of their project and on shared ones.
Permitted(ports) ==
  \A p \in ports : Owner[NetworkOf[p[2]]] = Owner[p[1]] \/ NetworkOf[p[2]] \in Shared

\* A network is in the VRF of the scope of its interfaces.  Without scope, it is in one
\* default VRF with all on its routers: its own if it is shared, or if nothing that can
\* be walked to is.
Placed(map, ports) ==
  /\ \A n \in Networks : InterfacesOf(n, ports) = {} => map[n] \in {None, UnroutedVrf}
  /\ \A p \in ports : IF Unscoped(p[2]) THEN map[NetworkOf[p[2]]] \in DefaultVrfs
                      ELSE map[NetworkOf[p[2]]] = ScopeVrf[ScopeOfSubnet(p[2])]
  /\ \A p, q \in ports : p[1] = q[1] /\ Unscoped(p[2]) /\ Unscoped(q[2])
                           => map[NetworkOf[p[2]]] = map[NetworkOf[q[2]]]
  /\ \A n \in Open(ports) :
       /\ n \in Shared => map[n] = DefaultVrf(Owner[n])
       /\ \A nets \in SUBSET Networks :
            n \in nets /\ nets \cap Shared = {} /\ Walled(nets, ports)
              => map[n] = DefaultVrf(Owner[n])

\* Bridge domains are under the tenants of their VRFs, with the subnets and the
\* contracts of the interfaces.
Kept(a, ports) ==
  /\ \A n \in Networks :
       /\ a.vrf[n] # None =>
            a.tenant[n] = IF a.vrf[n].tenant = "common" THEN Owner[n] ELSE a.vrf[n].tenant
       /\ a.contracts[n] = RoutersOn(n, ports)
  /\ a.subnets = {<<p[1], p[2], a.tenant[NetworkOf[p[2]]]>> : p \in ports}

\* The VRFs are those in use by a project and those of the scopes.
VrfsKept(a) ==
  a.vrfs = ({a.vrf[n] : n \in Networks} \cap DefaultVrfs) \cup {ScopeVrf[c] : c \in scopes}

Apart(map, ports) == \A v \in DefaultVrfs : ~OverlapIn(v, map, ports, {})

OneIsShared(ports) ==
  \A p, q, x, y \in ports :
    NetworkOf[p[2]] = NetworkOf[q[2]] /\ NetworkOf[x[2]] = NetworkOf[p[2]]
      /\ NetworkOf[y[2]] = NetworkOf[p[2]] => p[1] = q[1] \/ x[2] = y[2]

CallsFit ==
  /\ \A p \in Pools : scopeOf[p] \in scopes \cup {None}
  /\ \A w \in Workers : pending[w] # None =>
       pending[w] \in Calls /\ (pending[w].op # "interface" => gateway[pending[w].router] = None)

--------------------
(* The walk over a topology *)

\* The least of some numbers.
LEMMA LeastNumber ==
  ASSUME NEW T \in SUBSET Nat, T # {}
  PROVE  \E x \in T : \A y \in T : x <= y
<1> DEFINE R == OpToRel(<, Nat)
<1>1. IsWellFoundedOn(R, Nat)
  BY NatLessThanWellFounded
<1>2. \A x, y \in Nat : x < y => <<x, y>> \in R
  BY DEF OpToRel
<1> HIDE DEF R
<1>3. PICK x \in T : \A y \in T : ~(<<y, x>> \in R)
  BY <1>1, WFMin
<1>4. ASSUME NEW y \in T PROVE x <= y
  <2>1. x \in Nat /\ y \in Nat /\ ~(y < x)
    BY <1>2, <1>3
  <2> QED BY <2>1
<1> QED
  BY <1>4

\* One step of the walk stays among the networks, grows, and grows with its start.
LEMMA OneStep ==
  ASSUME NetworkOf \in [Subnets -> Networks], NEW ports \in SUBSET RouterPorts
  PROVE  /\ \A nets \in SUBSET Networks :
              nets \subseteq ExpandedOnce(nets, ports) /\ ExpandedOnce(nets, ports) \in SUBSET Networks
         /\ \A a, b : a \subseteq b => ExpandedOnce(a, ports) \subseteq ExpandedOnce(b, ports)
BY DEF RouterPorts, ExpandedOnce, ExpandForRouters, ExpandForNetworks, RoutersOn, InterfacesOf

\* The recursion of the walk has a solution.
LEMMA WalkExists ==
  ASSUME NetworkOf \in [Subnets -> Networks], NEW ports \in SUBSET RouterPorts,
         NEW nets \in SUBSET Networks, NEW N \in Nat
  PROVE  \E f \in [0 .. N -> SUBSET Networks] :
           f = [k \in 0 .. N |-> IF k = 0 THEN nets ELSE ExpandedOnce(f[k - 1], ports)]
<1> DEFINE Solves(f, k) == f[0] = nets /\ \A i \in 1 .. k : f[i] = ExpandedOnce(f[i - 1], ports)
           T == {k \in 0 .. N : ~\E f \in [0 .. N -> SUBSET Networks] : Solves(f, k)}
<1>1. ASSUME T # {} PROVE FALSE
  <2>1. PICK x \in T : \A y \in T : x <= y
    <3>1. T \in SUBSET Nat
      OBVIOUS
    <3> HIDE DEF T
    <3> QED BY <1>1, <3>1, LeastNumber
  <2>2. x # 0
    <3>1. [k \in 0 .. N |-> nets] \in [0 .. N -> SUBSET Networks] /\ Solves([k \in 0 .. N |-> nets], 0)
      OBVIOUS
    <3> QED BY <2>1, <3>1
  <2>3. x - 1 \in 0 .. N /\ x - 1 \notin T
    <3>1. x \in 0 .. N
      BY <2>1
    <3>2. x - 1 \in 0 .. N /\ ~(x <= x - 1)
      BY <2>2, <3>1
    <3> HIDE DEF T
    <3> QED BY <2>1, <3>2
  <2>4. PICK f \in [0 .. N -> SUBSET Networks] : Solves(f, x - 1)
    BY <2>3
  <2> DEFINE g == [k \in 0 .. N |-> IF k = x THEN ExpandedOnce(f[x - 1], ports) ELSE f[k]]
  <2>5. g \in [0 .. N -> SUBSET Networks]
    BY <2>1, <2>3, OneStep
  <2>6. Solves(g, x)
    BY <2>1, <2>2, <2>3, <2>4
  <2> QED BY <2>1, <2>5, <2>6
<1>2. PICK f \in [0 .. N -> SUBSET Networks] : Solves(f, N)
  <2>1. N \in 0 .. N
    OBVIOUS
  <2>2. N \notin T
    <3> HIDE DEF T
    <3> QED BY <1>1
  <2> QED BY <2>1, <2>2
<1> QED
  <2>1. \A k \in 0 .. N : f[k] = IF k = 0 THEN nets ELSE ExpandedOnce(f[k - 1], ports)
    BY <1>2
  <2> QED BY <2>1

\* The walk ends: nothing is added by another step.
LEMMA WalkEnds ==
  ASSUME IsFiniteSet(Networks), NetworkOf \in [Subnets -> Networks],
         NEW ports \in SUBSET RouterPorts, NEW nets \in SUBSET Networks
  PROVE  /\ nets \subseteq Expanded(nets, ports)
         /\ Expanded(nets, ports) \in SUBSET Networks
         /\ ExpandedOnce(Expanded(nets, ports), ports) = Expanded(nets, ports)
         /\ \A C \in SUBSET Networks :
              nets \subseteq C /\ ExpandedOnce(C, ports) \subseteq C => Expanded(nets, ports) \subseteq C
<1> DEFINE N == Cardinality(Networks)
<1>1. N \in Nat
  BY FS_CardinalityType
<1>2. PICK f \in [0 .. N -> SUBSET Networks] :
        /\ Expanded(nets, ports) = f[N]
        /\ f = [k \in 0 .. N |-> IF k = 0 THEN nets ELSE ExpandedOnce(f[k - 1], ports)]
  <2> DEFINE e(g) == [k \in 0 .. N |-> IF k = 0 THEN nets ELSE ExpandedOnce(g[k - 1], ports)]
             F == CHOOSE g : g = e(g)
  <2>1. \E g \in [0 .. N -> SUBSET Networks] : g = e(g)
    BY <1>1, WalkExists
  <2>2. F = e(F)
    BY <2>1
  <2>3. Expanded(nets, ports) = F[N]
    BY DEF Expanded
  <2>4. \A g : g = e(g) => g \in [0 .. N -> SUBSET Networks]
    <3> SUFFICES ASSUME NEW g, g = e(g) PROVE \A k \in 0 .. N : g[k] \in SUBSET Networks
      OBVIOUS
    <3> DEFINE T == {k \in 0 .. N : g[k] \notin SUBSET Networks}
    <3>1. ASSUME T # {} PROVE FALSE
      <4>1. PICK x \in T : \A y \in T : x <= y
        <5>1. T \in SUBSET Nat
          OBVIOUS
        <5> HIDE DEF T
        <5> QED BY <3>1, <5>1, LeastNumber
      <4>2. g[x] = IF x = 0 THEN nets ELSE ExpandedOnce(g[x - 1], ports)
        BY <4>1
      <4>3. x # 0
        BY <4>1, <4>2
      <4>4. g[x - 1] \in SUBSET Networks
        <5>1. x \in 0 .. N
          BY <4>1
        <5>2. x - 1 \in 0 .. N /\ ~(x <= x - 1)
          BY <4>3, <5>1, <1>1
        <5>3. x - 1 \notin T
          BY <4>1, <5>2
        <5> QED BY <5>2, <5>3
      <4> QED BY <4>1, <4>2, <4>3, <4>4, OneStep
    <3> QED BY <3>1
  <2> HIDE DEF F
  <2> QED BY <2>2, <2>3, <2>4
<1> DEFINE at(k) == f[k]
<1>3. at(0) = nets /\ \A k \in 1 .. N : at(k) = ExpandedOnce(at(k - 1), ports)
  BY <1>1, <1>2
<1>4. \A k \in 0 .. N : at(k) \in SUBSET Networks
  BY <1>2
<1>5. Expanded(nets, ports) = at(N)
  BY <1>2
<1> HIDE DEF at, N
<1>6. ASSUME NEW C \in SUBSET Networks, nets \subseteq C, ExpandedOnce(C, ports) \subseteq C
      PROVE  at(N) \subseteq C
  <2> DEFINE T == {k \in 0 .. N : ~(at(k) \subseteq C)}
  <2>1. ASSUME T # {} PROVE FALSE
    <3>1. PICK x \in T : \A y \in T : x <= y
      <4>1. T \in SUBSET Nat
        BY <1>1
      <4> HIDE DEF T
      <4> QED BY <2>1, <4>1, LeastNumber
    <3>2. x # 0
      BY <1>3, <1>6, <3>1
    <3>3. at(x - 1) \subseteq C /\ x \in 1 .. N
      BY <1>1, <3>1, <3>2
    <3> QED BY <1>3, <1>6, <3>1, <3>3, OneStep
  <2> QED BY <1>1, <2>1
<1>7. nets \subseteq at(N)
  <2> DEFINE T == {k \in 0 .. N : ~(nets \subseteq at(k))}
  <2>1. ASSUME T # {} PROVE FALSE
    <3>1. PICK x \in T : \A y \in T : x <= y
      <4>1. T \in SUBSET Nat
        BY <1>1
      <4> HIDE DEF T
      <4> QED BY <2>1, <4>1, LeastNumber
    <3>2. x # 0
      BY <1>3, <3>1
    <3>3. nets \subseteq at(x - 1) /\ x \in 1 .. N /\ x - 1 \in 0 .. N
      BY <1>1, <3>1, <3>2
    <3> QED BY <1>3, <1>4, <3>1, <3>3, OneStep
  <2> QED BY <1>1, <2>1
<1>8. ExpandedOnce(at(N), ports) = at(N)
  <2> DEFINE Closed(k) == ExpandedOnce(at(k), ports) = at(k)
             T == {k \in 0 .. N : ~(Closed(k) \/ Cardinality(at(k)) >= k)}
  <2>0. \A k \in 0 .. N : Cardinality(at(k)) \in Nat /\ Cardinality(at(k)) <= N /\ IsFiniteSet(at(k))
    BY <1>1, <1>4, FS_Subset, FS_CardinalityType DEF N
  <2>1. ASSUME T # {} PROVE FALSE
    <3>1. PICK x \in T : \A y \in T : x <= y
      <4>1. T \in SUBSET Nat
        BY <1>1
      <4> HIDE DEF T
      <4> QED BY <2>1, <4>1, LeastNumber
    <3>2. x # 0
      BY <2>0, <3>1
    <3>3. x \in 1 .. N /\ x - 1 \in 0 .. N /\ x - 1 \notin T
      BY <1>1, <3>1, <3>2
    <3>4. at(x) = ExpandedOnce(at(x - 1), ports)
      BY <1>3, <3>3
    <3>5. at(x) # at(x - 1)
      BY <3>1, <3>4, <3>3
    <3>6. Cardinality(at(x - 1)) >= x - 1
      BY <3>3, <3>4, <3>5
    <3>7. at(x - 1) \subseteq at(x)
      BY <1>4, <3>3, <3>4, OneStep
    <3>8. Cardinality(at(x - 1)) # Cardinality(at(x)) /\ Cardinality(at(x - 1)) <= Cardinality(at(x))
      BY <2>0, <3>3, <3>5, <3>7, FS_Subset
    <3> QED BY <2>0, <3>1, <3>3, <3>6, <3>8
  <2>2. Closed(N) \/ Cardinality(at(N)) = N
    BY <1>1, <2>0, <2>1
  <2>3. CASE Cardinality(at(N)) = N
    <3>1. at(N) = Networks
      BY <1>1, <1>4, <2>3, FS_Subset DEF N
    <3>2. ExpandedOnce(at(N), ports) \subseteq Networks /\ at(N) \subseteq ExpandedOnce(at(N), ports)
      BY <1>1, <1>4, OneStep
    <3> QED BY <3>1, <3>2
  <2> QED BY <2>2, <2>3
<1> QED
  BY <1>1, <1>4, <1>5, <1>6, <1>7, <1>8

\* The result of a walk from these networks: the least that has them and is walled.
IsWalk(nets, from, ports) ==
  /\ from \subseteq nets /\ nets \in SUBSET Networks /\ Walled(nets, ports)
  /\ \A C \in SUBSET Networks : from \subseteq C /\ Walled(C, ports) => nets \subseteq C

\* What the walks from networks and from routers find.
LEMMA WalksEnd ==
  ASSUME TopologyConstants, NEW ports \in SUBSET RouterPorts
  PROVE  /\ \A nets \in SUBSET Networks : IsWalk(Expanded(nets, ports), nets, ports)
         /\ \A n \in Networks : IsWalk(NetworkTopology(n, ports), {n}, ports)
         /\ \A r : /\ ExpandForRouters({r}, ports) \in SUBSET Networks
                   /\ IsWalk(RouterTopology(r, ports), ExpandForRouters({r}, ports), ports)
<1>1. IsFiniteSet(Networks) /\ NetworkOf \in [Subnets -> Networks]
  BY TopologyAssumption DEF TopologyConstants
<1>2. \A C \in SUBSET Networks : ExpandedOnce(C, ports) \subseteq C <=> Walled(C, ports)
  BY <1>1 DEF ExpandedOnce, ExpandForRouters, ExpandForNetworks, RoutersOn, InterfacesOf, Walled, RouterPorts
<1>3. ASSUME NEW nets \in SUBSET Networks PROVE IsWalk(Expanded(nets, ports), nets, ports)
  <2>1. /\ nets \subseteq Expanded(nets, ports)
        /\ Expanded(nets, ports) \in SUBSET Networks
        /\ ExpandedOnce(Expanded(nets, ports), ports) = Expanded(nets, ports)
        /\ \A C \in SUBSET Networks :
             nets \subseteq C /\ ExpandedOnce(C, ports) \subseteq C => Expanded(nets, ports) \subseteq C
    BY <1>1, WalkEnds
  <2> QED BY <1>2, <2>1 DEF IsWalk
<1>4. \A r : ExpandForRouters({r}, ports) \in SUBSET Networks
  BY <1>1 DEF ExpandForRouters, RouterPorts
<1> QED
  BY <1>3, <1>4 DEF NetworkTopology, RouterTopology

\* The interfaces of a network are all scoped or all unscoped, and the unscoped ones
\* of a router are in one VRF.
Uniform(map, ports) ==
  /\ \A p, q \in ports : NetworkOf[p[2]] = NetworkOf[q[2]] => (Unscoped(p[2]) <=> Unscoped(q[2]))
  /\ \A p, q \in ports : p[1] = q[1] /\ Unscoped(p[2]) /\ Unscoped(q[2])
                           => map[NetworkOf[p[2]]] = map[NetworkOf[q[2]]]

\* The interfaces of a network are alike, with a scope or without.
LEMMA PlacedIsUniform ==
  ASSUME TopologyConstants, scopeOf \in [Pools -> Scopes \cup {None}],
         NEW ports \in SUBSET RouterPorts, NEW map, Placed(map, ports)
  PROVE  \A few \in SUBSET ports : Uniform(map, few)
<1>1. \A p \in ports : p[1] \in Routers /\ p[2] \in Subnets
  BY DEF RouterPorts
<1>2. \A s \in Subnets : ~Unscoped(s) => ScopeVrf[ScopeOfSubnet(s)] \in ScopeVrfs
  BY TopologyAssumption DEF Unscoped, ScopeOfSubnet, ScopeVrfs
<1>3. \A p \in ports : Unscoped(p[2]) <=> map[NetworkOf[p[2]]] \in DefaultVrfs
  BY <1>1, <1>2 DEF Placed, TopologyConstants
<1> QED
  BY <1>3 DEF Uniform, Placed

\* Unscoped networks are those with an unscoped interface; a walk does not leave them.
LEMMA OpenIs ==
  ASSUME NEW ports \in SUBSET RouterPorts, NEW map, Uniform(map, ports)
  PROVE  /\ \A p \in ports : NetworkOf[p[2]] \in Open(ports) <=> Unscoped(p[2])
         /\ Open(ports) \in SUBSET Networks /\ Walled(Open(ports), ports)
         /\ \A n \in Open(ports) : \E q \in ports : Unscoped(q[2]) /\ n = NetworkOf[q[2]]
<1>1. \A p \in ports : p[1] \in Routers /\ p[2] \in Subnets
  BY DEF RouterPorts
<1>2. \A n \in Open(ports) : \E q \in ports : Unscoped(q[2]) /\ n = NetworkOf[q[2]]
  BY DEF Open
<1>3. \A p \in ports : Unscoped(p[2]) => NetworkOf[p[2]] \in Open(ports)
  BY DEF Open
<1>4. Open(ports) \in SUBSET Networks
  BY <1>1, <1>2, TopologyAssumption
<1>5. \A p \in ports : NetworkOf[p[2]] \in Open(ports) => Unscoped(p[2])
  BY <1>2 DEF Uniform
<1> QED
  BY <1>2, <1>3, <1>4, <1>5 DEF Walled

\* What is walled within the unscoped networks can be left out of a walled set.
LEMMA WalledApart ==
  ASSUME NEW ports \in SUBSET RouterPorts, NEW map, Uniform(map, ports),
         NEW A, A \subseteq Open(ports), Walled(A, ports), NEW B, Walled(B, ports)
  PROVE  Walled(A \ B, ports) /\ Walled(A \cup B, ports) /\ Walled(A \cap B, ports)
<1>1. ASSUME NEW p \in ports, NEW q \in ports, NetworkOf[p[2]] \in A, NetworkOf[p[2]] \notin B,
             p[1] = q[1], Unscoped(q[2])
      PROVE  NetworkOf[q[2]] \notin B
  <2>1. Unscoped(p[2])
    BY <1>1, OpenIs
  <2> QED BY <1>1, <2>1 DEF Walled
<1>2. Walled(A \ B, ports)
  BY <1>1 DEF Walled
<1>3. Walled(A \cup B, ports) /\ Walled(A \cap B, ports)
  BY DEF Walled
<1> QED
  BY <1>2, <1>3

\* The walk can be walked back.
LEMMA WalkBack ==
  ASSUME NEW ports \in SUBSET RouterPorts, NEW map, Uniform(map, ports),
         NEW from \in SUBSET Open(ports), NEW nets, IsWalk(nets, from, ports),
         NEW C \in SUBSET Networks, Walled(C, ports), NEW x \in nets, x \in C
  PROVE  \E y \in from : y \in C
<1> SUFFICES ASSUME \A y \in from : y \notin C PROVE FALSE
  OBVIOUS
<1> DEFINE E == nets \ C
<1>1. Open(ports) \in SUBSET Networks /\ Walled(Open(ports), ports)
  BY OpenIs
<1>2. nets \subseteq Open(ports) /\ nets \in SUBSET Networks /\ Walled(nets, ports) /\ from \subseteq nets
  BY <1>1 DEF IsWalk
<1>3. Walled(E, ports)
  BY <1>2, WalledApart
<1>4. from \subseteq E /\ E \in SUBSET Networks
  BY <1>2
<1> HIDE DEF E
<1>5. nets \subseteq E
  BY <1>3, <1>4 DEF IsWalk
<1> QED
  BY <1>5 DEF E

\* What a walk leads to is in the VRF of one of the networks that it starts from,
LEMMA WalkSame ==
  ASSUME NEW ports \in SUBSET RouterPorts, NEW map, Uniform(map, ports),
         NEW from \in SUBSET Open(ports), NEW nets, IsWalk(nets, from, ports)
  PROVE  nets \subseteq Open(ports) /\ \A x \in nets : \E y \in from : map[x] = map[y]
<1> DEFINE C == {x \in Open(ports) : \E y \in from : map[x] = map[y]}
<1>1. C \in SUBSET Networks /\ from \subseteq C
  BY OpenIs
<1>2. Walled(C, ports)
  <2> SUFFICES ASSUME NEW p \in ports, NEW q \in ports, NetworkOf[p[2]] \in C, p[1] = q[1], Unscoped(q[2])
               PROVE  NetworkOf[q[2]] \in C
    BY DEF Walled
  <2>1. Unscoped(p[2]) /\ NetworkOf[q[2]] \in Open(ports)
    BY OpenIs
  <2>2. map[NetworkOf[p[2]]] = map[NetworkOf[q[2]]]
    BY <2>1 DEF Uniform
  <2> QED BY <2>1, <2>2
<1> HIDE DEF C
<1>3. nets \subseteq C
  BY <1>1, <1>2 DEF IsWalk
<1> QED
  BY <1>3 DEF C

\* and of one owner if none of it is shared.
LEMMA WalkOwner ==
  ASSUME NEW ports, Permitted(ports), NEW from, NEW nets, IsWalk(nets, from, ports), nets \cap Shared = {},
         NEW o, \A x \in from : Owner[x] = o
  PROVE  \A x \in nets : Owner[x] = o
<1> DEFINE C == {x \in nets : Owner[x] = o}
<1>1. C \in SUBSET Networks /\ from \subseteq C
  BY DEF IsWalk
<1>2. Walled(C, ports)
  <2> SUFFICES ASSUME NEW p \in ports, NEW q \in ports, NetworkOf[p[2]] \in C, p[1] = q[1], Unscoped(q[2])
               PROVE  NetworkOf[q[2]] \in C
    BY DEF Walled
  <2>1. NetworkOf[q[2]] \in nets
    BY DEF IsWalk, Walled
  <2> QED BY <2>1 DEF Permitted
<1> HIDE DEF C
<1>3. nets \subseteq C
  BY <1>1, <1>2 DEF IsWalk
<1> QED
  BY <1>3 DEF C

\* The VRF that a topology calls for is the one it is in.
LEMMA VrfOfTopology ==
  ASSUME NEW ports, NEW map, Placed(map, ports), NEW nets \in SUBSET Networks,
         nets \subseteq Open(ports), Walled(nets, ports),
         NEW y \in nets, \A x \in nets : map[x] = map[y]
  PROVE  TopologyVrf(nets, y) = map[y]
<1>1. CASE nets \cap Shared = {}
  BY <1>1 DEF TopologyVrf, Placed
<1>2. CASE nets \cap Shared # {}
  <2>1. (CHOOSE m \in nets \cap Shared : TRUE) \in nets \cap Shared
    BY <1>2
  <2> QED BY <1>2, <2>1 DEF TopologyVrf, Placed
<1> QED
  BY <1>1, <1>2

--------------------
(* One interface more, one less *)

\* The VRF that a topology with network n calls for.
CalledFor(v, nets, n) ==
  /\ \A m \in nets \cap Shared : v = DefaultVrf(Owner[m])
  /\ nets \cap Shared = {} => v = DefaultVrf(Owner[n])

\* What a topology calls for is the default VRF of a project.
LEMMA FitsIsDefault ==
  ASSUME NEW nets \in SUBSET Networks, NEW n \in Networks, NEW v, CalledFor(v, nets, n)
  PROVE  v \in DefaultVrfs
BY TopologyAssumption DEF CalledFor, DefaultVrfs

\* One map of networks is another, with these networks in this VRF.
MovedTo(map2, map, nets, v) == \A x \in Networks : map2[x] = IF x \in nets THEN v ELSE map[x]

\* Both topologies, joined by an unscoped interface, are in the VRF they call for.
LEMMA AddPlaced ==
  ASSUME TopologyConstants, scopeOf \in [Pools -> Scopes \cup {None}],
         NEW ports \in SUBSET RouterPorts, NEW map, Placed(map, ports), Permitted(ports),
         NEW r \in Routers, NEW s \in Subnets, NEW n, n = NetworkOf[s], Unscoped(s),
         Owner[n] = Owner[r] \/ n \in Shared,
         \A p \in InterfacesOf(n, ports) : Unscoped(p[2]),
         NEW mine, IsWalk(mine, {n}, ports),
         NEW theirs, IsWalk(theirs, ExpandForRouters({r}, ports), ports),
         NEW v, CalledFor(v, mine \cup theirs, n),
         NEW map2, MovedTo(map2, map, mine \cup theirs, v)
  PROVE  Placed(map2, ports \cup {<<r, s>>})
<1> DEFINE i == <<r, s>>
           ports2 == ports \cup {i}
           both == mine \cup theirs
           from == ExpandForRouters({r}, ports)
<1>0. i[1] = r /\ i[2] = s /\ i \in RouterPorts /\ n \in Networks /\ i \in ports2
  BY TopologyAssumption DEF RouterPorts
<1>1. Uniform(map, ports)
  BY PlacedIsUniform
<1>2. \A p \in ports : p \in ports2
  OBVIOUS
<1>3. \A p \in ports2 : p \in ports \/ p = i
  OBVIOUS
<1>a. ports2 \in SUBSET RouterPorts
  BY <1>0
<1>b. \A p \in ports2 : p[1] \in Routers /\ p[2] \in Subnets /\ NetworkOf[p[2]] \in Networks
  BY <1>a, TopologyAssumption DEF RouterPorts
<1>4. \A p, q \in ports2 : NetworkOf[p[2]] = NetworkOf[q[2]] => (Unscoped(p[2]) <=> Unscoped(q[2]))
  BY <1>0, <1>1, <1>3 DEF Uniform, InterfacesOf
<1>5. /\ \A x \in from : \E q \in ports : q[1] = r /\ Unscoped(q[2]) /\ x = NetworkOf[q[2]]
      /\ \A q \in ports : q[1] = r /\ Unscoped(q[2]) => NetworkOf[q[2]] \in from
  BY DEF ExpandForRouters
<1>6. from \in SUBSET Open(ports)
  BY <1>5 DEF Open
<1>7. Open(ports2) = Open(ports) \cup {n}
  BY <1>0, <1>3 DEF Open
<1>o. Open(ports) \in SUBSET Networks /\ Walled(Open(ports), ports)
  BY <1>1, OpenIs
<1> HIDE DEF i, ports2, from
<1>w. IsWalk(theirs, from, ports)
  BY DEF from
<1>8. theirs \subseteq Open(ports)
  BY <1>6, <1>o, <1>w DEF IsWalk
<1>9. mine \subseteq Open(ports2)
  <2>1. Walled(Open(ports) \cup {n}, ports)
    <3> SUFFICES ASSUME NEW p \in ports, NEW q \in ports, NetworkOf[p[2]] = n, p[1] = q[1], Unscoped(q[2])
                 PROVE  NetworkOf[q[2]] \in Open(ports)
      BY <1>o DEF Walled
    <3> QED BY DEF Open
  <2> QED BY <1>0, <1>o, <1>7, <2>1 DEF IsWalk
<1>10. n \in mine /\ mine \in SUBSET Networks /\ theirs \in SUBSET Networks /\ from \subseteq theirs
       /\ Walled(mine, ports) /\ Walled(theirs, ports)
  BY DEF IsWalk, from
<1>11. v \in DefaultVrfs
  BY <1>0, <1>10, FitsIsDefault
<1>12. both \subseteq Open(ports2) /\ both \in SUBSET Networks
  BY <1>7, <1>8, <1>9, <1>10
<1>13. \A p \in ports2 : NetworkOf[p[2]] \in Open(ports2) => Unscoped(p[2])
  BY <1>4 DEF Open
<1>14. \A p \in ports2 : NetworkOf[p[2]] \in both => Unscoped(p[2])
  BY <1>12, <1>13
<1>15. \A x \in Networks \ both : map2[x] = map[x]
  BY DEF MovedTo
<1>16. \A x \in both : map2[x] = v
  BY <1>12 DEF MovedTo
<1>17. n \in both
  BY <1>10
<1>18. \A p, q \in ports : p[1] = q[1] /\ Unscoped(p[2]) /\ Unscoped(q[2])
          /\ NetworkOf[p[2]] \in both => NetworkOf[q[2]] \in both
  BY <1>10 DEF Walled
<1>19. \A q \in ports : q[1] = r /\ Unscoped(q[2]) => NetworkOf[q[2]] \in both
  BY <1>5, <1>10
<1>20. ASSUME NEW y \in both, NEW C \in SUBSET Networks, y \in C, C \cap Shared = {}, Walled(C, ports2)
       PROVE  v = DefaultVrf(Owner[y])
  <2>1. Walled(C, ports)
    BY <1>2, <1>20 DEF Walled
  <2>2. n \in C
    <3>1. CASE y \in mine /\ n \in Open(ports)
      <4>1. {n} \in SUBSET Open(ports)
        BY <3>1
      <4> QED BY <1>1, <1>20, <2>1, <3>1, <4>1, WalkBack
    <3>2. CASE y \in mine /\ n \notin Open(ports)
      <4>1. Walled({n}, ports)
        <5> SUFFICES ASSUME NEW p \in ports, NetworkOf[p[2]] = n PROVE FALSE
          BY DEF Walled
        <5>1. Unscoped(p[2])
          BY DEF InterfacesOf
        <5> QED BY <3>2, <5>1 DEF Open
      <4>2. mine \subseteq {n}
        BY <1>0, <4>1 DEF IsWalk
      <4> QED BY <1>20, <3>2, <4>2
    <3>3. CASE y \in theirs
      <4>1. PICK z \in from : z \in C
        BY <1>1, <1>6, <1>w, <1>20, <2>1, <3>3, WalkBack
      <4>2. PICK q \in ports : q[1] = r /\ Unscoped(q[2]) /\ z = NetworkOf[q[2]]
        BY <1>5
      <4>3. q \in ports2 /\ i \in ports2 /\ NetworkOf[q[2]] \in C /\ q[1] = i[1] /\ Unscoped(i[2])
        BY <1>0, <1>2, <4>1, <4>2
      <4> QED BY <1>0, <1>20, <4>3 DEF Walled
    <3> QED BY <1>20, <3>1, <3>2, <3>3
  <2>3. mine \subseteq C
    BY <2>1, <2>2 DEF IsWalk
  <2>4. from \subseteq C
    <3> SUFFICES ASSUME NEW q \in ports, q[1] = r, Unscoped(q[2]) PROVE NetworkOf[q[2]] \in C
      BY <1>5
    <3>1. q \in ports2 /\ i \in ports2 /\ NetworkOf[i[2]] \in C /\ q[1] = i[1] /\ Unscoped(q[2])
      BY <1>0, <1>2, <2>2
    <3> QED BY <1>20, <3>1 DEF Walled
  <2>5. theirs \subseteq C
    BY <2>1, <2>4 DEF IsWalk, from
  <2>6. both \cap Shared = {}
    BY <1>20, <2>3, <2>5
  <2>7. v = DefaultVrf(Owner[n]) /\ Owner[n] = Owner[r]
    BY <1>17, <2>6 DEF CalledFor
  <2>8. \A x \in mine : Owner[x] = Owner[n]
    <3>1. \A x \in {n} : Owner[x] = Owner[n]
      OBVIOUS
    <3>2. mine \cap Shared = {}
      BY <2>6
    <3> QED BY <3>1, <3>2, WalkOwner
  <2>9. \A x \in theirs : Owner[x] = Owner[r]
    <3>1. \A x \in from : Owner[x] = Owner[r]
      BY <1>5, <1>10, <2>6 DEF Permitted
    <3>2. theirs \cap Shared = {}
      BY <2>6
    <3> QED BY <1>w, <3>1, <3>2, WalkOwner
  <2> QED BY <1>20, <2>7, <2>8, <2>9
<1>21. ASSUME NEW y \in Open(ports), y \notin both,
             NEW C \in SUBSET Networks, y \in C, C \cap Shared = {}, Walled(C, ports2)
       PROVE  map[y] = DefaultVrf(Owner[y])
  <2>1. Walled(C, ports)
    BY <1>2, <1>21 DEF Walled
  <2> QED BY <1>21, <2>1 DEF Placed
<1>22. \A x \in Networks : InterfacesOf(x, ports2) = {} => map2[x] \in {None, UnroutedVrf}
  <2> SUFFICES ASSUME NEW x \in Networks, InterfacesOf(x, ports2) = {} PROVE map2[x] \in {None, UnroutedVrf}
    OBVIOUS
  <2>1. x \notin both
    BY <1>12 DEF Open, InterfacesOf
  <2>2. InterfacesOf(x, ports) = {}
    BY <1>2 DEF InterfacesOf
  <2> QED BY <1>15, <2>1, <2>2 DEF Placed
<1>23. \A p \in ports2 : IF Unscoped(p[2]) THEN map2[NetworkOf[p[2]]] \in DefaultVrfs
                         ELSE map2[NetworkOf[p[2]]] = ScopeVrf[ScopeOfSubnet(p[2])]
  <2> SUFFICES ASSUME NEW p \in ports2
               PROVE  IF Unscoped(p[2]) THEN map2[NetworkOf[p[2]]] \in DefaultVrfs
                      ELSE map2[NetworkOf[p[2]]] = ScopeVrf[ScopeOfSubnet(p[2])]
    OBVIOUS
  <2>1. CASE NetworkOf[p[2]] \in both
    BY <1>11, <1>14, <1>16, <2>1
  <2>2. CASE NetworkOf[p[2]] \notin both
    <3>1. p \in ports
      BY <1>0, <1>3, <1>17, <2>2
    <3> QED BY <1>b, <1>15, <2>2, <3>1 DEF Placed
  <2> QED BY <2>1, <2>2
<1>24. \A p, q \in ports2 : p[1] = q[1] /\ Unscoped(p[2]) /\ Unscoped(q[2])
         => map2[NetworkOf[p[2]]] = map2[NetworkOf[q[2]]]
  <2> SUFFICES ASSUME NEW p \in ports2, NEW q \in ports2, p[1] = q[1], Unscoped(p[2]), Unscoped(q[2])
               PROVE  map2[NetworkOf[p[2]]] = map2[NetworkOf[q[2]]]
    OBVIOUS
  <2>1. NetworkOf[p[2]] \in both <=> NetworkOf[q[2]] \in both
    BY <1>0, <1>3, <1>17, <1>18, <1>19
  <2>2. CASE NetworkOf[p[2]] \in both
    BY <1>16, <2>1, <2>2
  <2>3. CASE NetworkOf[p[2]] \notin both
    <3>1. p \in ports /\ q \in ports
      BY <1>0, <1>3, <1>17, <2>1, <2>3
    <3>2. map[NetworkOf[p[2]]] = map[NetworkOf[q[2]]]
      BY <3>1 DEF Placed
    <3> QED BY <1>b, <1>15, <2>1, <2>3, <3>2
  <2> QED BY <2>2, <2>3
<1>25. ASSUME NEW y \in Open(ports2)
       PROVE  /\ y \in Shared => map2[y] = DefaultVrf(Owner[y])
              /\ \A C \in SUBSET Networks :
                   y \in C /\ C \cap Shared = {} /\ Walled(C, ports2) => map2[y] = DefaultVrf(Owner[y])
  <2>1. CASE y \in both
    BY <1>16, <1>20, <2>1 DEF CalledFor
  <2>2. CASE y \notin both
    <3>1. y \in Open(ports) /\ y \in Networks
      BY <1>0, <1>7, <1>17, <1>o, <2>2
    <3>2. y \in Shared => map[y] = DefaultVrf(Owner[y])
      BY <3>1 DEF Placed
    <3> QED BY <1>15, <1>21, <2>2, <3>1, <3>2
  <2> QED BY <2>1, <2>2
<1> HIDE DEF both
<1>26. Placed(map2, ports2)
  BY <1>22, <1>23, <1>24, <1>25 DEF Placed
<1> QED
  BY <1>26 DEF ports2, i

\* The VRF of a topology all of whose networks are in one VRF.
LEMMA TopologyVrfFits ==
  ASSUME NEW nets \in SUBSET Networks, NEW n \in Networks,
         NEW old, \A m \in nets \cap Shared : old = DefaultVrf(Owner[m])
  PROVE  /\ CalledFor(TopologyVrf(nets, n), nets, n)
         /\ nets \cap Shared # {} => TopologyVrf(nets, n) = old
<1>1. CASE nets \cap Shared = {}
  BY <1>1 DEF CalledFor, TopologyVrf
<1>2. CASE nets \cap Shared # {}
  <2>1. (CHOOSE m \in nets \cap Shared : TRUE) \in nets \cap Shared
    BY <1>2
  <2> QED BY <1>2, <2>1 DEF CalledFor, TopologyVrf
<1> QED
  BY <1>1, <1>2

\* What a removal makes of the interfaces and of the topology.
Without(rest, ports, r, s) == rest = ports \ {<<r, s>>}

Halves(mine, theirs, map, n, left, rest) ==
  /\ theirs \subseteq Open(rest) /\ \A x \in theirs : map[x] = map[n]
  /\ left # {} => mine \subseteq Open(rest) /\ \A x \in mine : map[x] = map[n]
  /\ left = {} => mine = {n} /\ n \notin theirs

Settled(mine, theirs, map, n, left, v1, v2, rest) ==
  /\ \A map2 :
       (\A x \in Networks : map2[x] = IF x \in theirs THEN v2
                                      ELSE IF x = n /\ left = {} THEN UnroutedVrf
                                      ELSE IF x \in mine THEN v1 ELSE map[x])
         => Placed(map2, rest)
  /\ \A x \in mine \cup theirs : x \in Networks /\ map[x] = map[n]
  /\ map[n] \in DefaultVrfs
  /\ theirs # {} => v2 \in DefaultVrfs
  /\ mine \cap theirs # {} => v1 = v2
  /\ v1 \in DefaultVrfs
  /\ mine \cap Shared # {} => v1 = map[n]
  /\ theirs \cap Shared # {} => v2 = map[n]
  /\ n \in mine
  /\ left = {} => mine = {n} /\ n \notin theirs

\* What an unscoped interface joined is in one VRF, also once it is gone.
LEMMA SplitSame ==
  ASSUME TopologyConstants, scopeOf \in [Pools -> Scopes \cup {None}],
         NEW ports \in SUBSET RouterPorts, NEW map, Placed(map, ports),
         NEW r, NEW s, <<r, s>> \in ports, NEW n, n = NetworkOf[s], Unscoped(s),
         NEW rest, Without(rest, ports, r, s),
         NEW mine, IsWalk(mine, {n}, rest),
         NEW theirs, IsWalk(theirs, ExpandForRouters({r}, rest), rest)
  PROVE  Halves(mine, theirs, map, n, RoutersOn(n, rest), rest)
<1> USE DEF Without, Halves
<1> DEFINE i == <<r, s>>
           from == ExpandForRouters({r}, rest)
           left == RoutersOn(n, rest)
<1>0. i[1] = r /\ i[2] = s /\ i \in ports /\ s \in Subnets /\ n \in Networks
  BY TopologyAssumption DEF RouterPorts
<1>1. Uniform(map, ports) /\ Uniform(map, rest)
  BY PlacedIsUniform
<1>2. \A p \in rest : p \in ports /\ p # i
  OBVIOUS
<1>a. rest \in SUBSET RouterPorts
  BY <1>2
<1>5. /\ \A x \in from : \E q \in rest : q[1] = r /\ Unscoped(q[2]) /\ x = NetworkOf[q[2]]
      /\ \A q \in rest : q[1] = r /\ Unscoped(q[2]) => NetworkOf[q[2]] \in from
  BY DEF ExpandForRouters
<1>6. from \in SUBSET Open(rest)
  BY <1>5 DEF Open
<1>w. IsWalk(theirs, from, rest)
  BY DEF from
<1> HIDE DEF i, from, left
<1>8. \A p \in rest : NetworkOf[p[2]] = n => Unscoped(p[2])
  BY <1>0, <1>1, <1>2 DEF Uniform
<1>9. left # {} => n \in Open(rest)
  BY <1>8 DEF RoutersOn, InterfacesOf, Open, left
<1>10. left = {} => \A p \in rest : NetworkOf[p[2]] # n
  BY DEF RoutersOn, InterfacesOf, left
<1>11. n \in mine
  BY <1>w DEF IsWalk
<1>13. \A x \in from : map[x] = map[n]
  <2> SUFFICES ASSUME NEW q \in rest, q[1] = r, Unscoped(q[2]) PROVE map[NetworkOf[q[2]]] = map[n]
    BY <1>5
  <2> QED BY <1>0, <1>1, <1>2 DEF Uniform
<1>14. theirs \subseteq Open(rest) /\ \A x \in theirs : map[x] = map[n]
  <2>1. theirs \subseteq Open(rest) /\ \A x \in theirs : \E y \in from : map[x] = map[y]
    <3>1. Uniform(map, rest)
      BY <1>1
    <3> QED BY <1>6, <1>a, <1>w, <3>1, WalkSame, SMTT(30)
  <2> QED BY <1>13, <2>1
<1>15. left # {} => mine \subseteq Open(rest) /\ \A x \in mine : map[x] = map[n]
  <2> SUFFICES ASSUME left # {} PROVE mine \subseteq Open(rest) /\ \A x \in mine : map[x] = map[n]
    OBVIOUS
  <2>1. {n} \in SUBSET Open(rest) /\ \A x \in {n} : map[x] = map[n]
    BY <1>9
  <2> QED BY <1>1, <1>a, <2>1, WalkSame
<1>16. left = {} => mine = {n} /\ n \notin theirs
  <2> SUFFICES ASSUME left = {} PROVE mine = {n} /\ n \notin theirs
    OBVIOUS
  <2>1. Walled({n}, rest)
    BY <1>10 DEF Walled
  <2>2. mine \subseteq {n}
    BY <1>0, <2>1 DEF IsWalk
  <2>3. n \notin Open(rest)
    BY <1>10 DEF Open
  <2> QED BY <1>11, <1>14, <2>2, <2>3
<1> QED
  BY <1>14, <1>15, <1>16 DEF left

\* What the networks of a router lead to is all of the topology of any of it.
LEMMA RouterWalk ==
  ASSUME NEW ports \in SUBSET RouterPorts, NEW map, Uniform(map, ports), NEW r,
         NEW nets, IsWalk(nets, ExpandForRouters({r}, ports), ports),
         NEW C \in SUBSET Networks, Walled(C, ports), NEW y \in nets, y \in C
  PROVE  nets \subseteq C
<1> DEFINE from == ExpandForRouters({r}, ports)
<1>1. /\ \A x \in from : \E q \in ports : q[1] = r /\ Unscoped(q[2]) /\ x = NetworkOf[q[2]]
      /\ \A q \in ports : q[1] = r /\ Unscoped(q[2]) => NetworkOf[q[2]] \in from
  BY DEF ExpandForRouters
<1>2. from \in SUBSET Open(ports)
  BY <1>1 DEF Open
<1>3. IsWalk(nets, from, ports)
  BY DEF from
<1> HIDE DEF from
<1>4. PICK z \in from : z \in C
  BY <1>2, <1>3, WalkBack
<1>5. PICK q \in ports : q[1] = r /\ Unscoped(q[2]) /\ z = NetworkOf[q[2]]
  BY <1>1
<1>6. from \subseteq C
  <2> SUFFICES ASSUME NEW p \in ports, p[1] = r, Unscoped(p[2]) PROVE NetworkOf[p[2]] \in C
    BY <1>1
  <2> QED BY <1>4, <1>5 DEF Walled
<1> QED
  BY <1>3, <1>6 DEF IsWalk

\* The parts of a topology that loses an unscoped interface go to the VRFs they call for.
LEMMA RemovePlaced ==
  ASSUME TopologyConstants, scopeOf \in [Pools -> Scopes \cup {None}],
         NEW ports \in SUBSET RouterPorts, NEW map, Placed(map, ports), Permitted(ports),
         NEW r \in Routers, NEW s \in Subnets, <<r, s>> \in ports,
         NEW n, n = NetworkOf[s], Unscoped(s),
         NEW rest, Without(rest, ports, r, s), NEW left, left = RoutersOn(n, rest),
         NEW mine, IsWalk(mine, {n}, rest),
         NEW theirs, IsWalk(theirs, ExpandForRouters({r}, rest), rest),
         Halves(mine, theirs, map, n, left, rest),
         NEW v1, v1 = TopologyVrf(mine, n),
         NEW v2, theirs # {} => v2 = RouterTopologyVrf(theirs)
  PROVE  Settled(mine, theirs, map, n, left, v1, v2, rest)
<1> USE DEF Without, Halves, Settled
<1> DEFINE i == <<r, s>>
           both == mine \cup theirs
           from == ExpandForRouters({r}, rest)
           old == map[n]
<1>0. i[1] = r /\ i[2] = s /\ i \in ports /\ n \in Networks
  BY TopologyAssumption
<1>1. Uniform(map, ports) /\ Uniform(map, rest)
  BY PlacedIsUniform
<1>2. \A p \in rest : p \in ports /\ p # i
  OBVIOUS
<1>3. \A p \in ports : p \in rest \/ p = i
  OBVIOUS
<1>a. rest \in SUBSET RouterPorts
  BY <1>2
<1>b. \A p \in ports : p[1] \in Routers /\ p[2] \in Subnets /\ NetworkOf[p[2]] \in Networks
  BY TopologyAssumption DEF RouterPorts
<1>5. /\ \A x \in from : \E q \in rest : q[1] = r /\ Unscoped(q[2]) /\ x = NetworkOf[q[2]]
      /\ \A q \in rest : q[1] = r /\ Unscoped(q[2]) => NetworkOf[q[2]] \in from
  BY DEF ExpandForRouters
<1>6. from \in SUBSET Open(rest)
  BY <1>5 DEF Open
<1>7. Open(rest) \subseteq Open(ports)
  BY <1>2 DEF Open
<1>w. IsWalk(theirs, from, rest)
  BY DEF from
<1> HIDE DEF i, from
<1>o. Open(rest) \in SUBSET Networks /\ Walled(Open(rest), rest)
  BY <1>1, <1>a, OpenIs
<1>8. \A p \in rest : NetworkOf[p[2]] = n => Unscoped(p[2])
  BY <1>0, <1>1, <1>2 DEF Uniform
<1>9. left # {} => n \in Open(rest)
  BY <1>8 DEF RoutersOn, InterfacesOf, Open
<1>10. left = {} => \A p \in rest : NetworkOf[p[2]] # n
  BY DEF RoutersOn, InterfacesOf
<1>11. n \in mine /\ mine \in SUBSET Networks /\ theirs \in SUBSET Networks /\ from \subseteq theirs
       /\ Walled(mine, rest) /\ Walled(theirs, rest)
  BY <1>w DEF IsWalk
<1>12. old \in DefaultVrfs
  BY <1>0 DEF Placed
<1>13. \A x \in from : map[x] = old
  <2> SUFFICES ASSUME NEW q \in rest, q[1] = r, Unscoped(q[2]) PROVE map[NetworkOf[q[2]]] = map[n]
    BY <1>5
  <2> QED BY <1>0, <1>1, <1>2 DEF Uniform
<1>14. theirs \subseteq Open(rest) /\ \A x \in theirs : map[x] = old
  OBVIOUS
<1>15. left # {} => mine \subseteq Open(rest) /\ \A x \in mine : map[x] = old
  OBVIOUS
<1>16. left = {} => mine = {n} /\ n \notin theirs
  OBVIOUS
<1>17. \A x \in both : x \in Networks /\ map[x] = old
  BY <1>11, <1>14, <1>15, <1>16
<1>18. both \subseteq Open(ports)
  <2>1. n \in Open(ports)
    BY <1>0 DEF Open
  <2> QED BY <1>7, <1>14, <1>15, <1>16, <2>1
<1>19. \A m \in both \cap Shared : old = DefaultVrf(Owner[m])
  <2>1. \A m \in both \cap Shared : map[m] = DefaultVrf(Owner[m])
    BY <1>18 DEF Placed
  <2> QED BY <1>17, <2>1
<1>20. CalledFor(v1, mine, n) /\ (mine \cap Shared # {} => v1 = old)
  BY <1>0, <1>11, <1>19, TopologyVrfFits
<1>21. theirs # {} => CalledFor(v2, theirs, CHOOSE m \in theirs : TRUE)
                      /\ (theirs \cap Shared # {} => v2 = old)
  <2> SUFFICES ASSUME theirs # {} PROVE CalledFor(v2, theirs, CHOOSE m \in theirs : TRUE)
                      /\ (theirs \cap Shared # {} => v2 = old)
    OBVIOUS
  <2> DEFINE c == CHOOSE m \in theirs : TRUE
  <2>1. c \in theirs
    OBVIOUS
  <2>2. v2 = TopologyVrf(theirs, c)
    BY DEF RouterTopologyVrf
  <2> HIDE DEF c
  <2>3. CalledFor(v2, theirs, c) /\ (theirs \cap Shared # {} => v2 = old)
    BY <1>11, <1>19, <2>1, <2>2, TopologyVrfFits
  <2> QED BY <2>3 DEF c
<1>22. v1 \in DefaultVrfs /\ (theirs # {} => v2 \in DefaultVrfs)
  BY <1>0, <1>11, <1>20, <1>21, FitsIsDefault
<1>23. ASSUME mine \cap Shared = {} PROVE \A x \in mine : Owner[x] = Owner[n]
  <2>1. \A x \in {n} : Owner[x] = Owner[n]
    OBVIOUS
  <2>2. Permitted(rest)
    BY <1>2 DEF Permitted
  <2>3. IsWalk(mine, {n}, rest)
    OBVIOUS
  <2> QED BY <1>23, <2>1, <2>2, <2>3, WalkOwner
<1>24. ASSUME theirs \cap Shared = {} PROVE \A x \in theirs : Owner[x] = Owner[r]
  <2>1. \A x \in from : Owner[x] = Owner[r]
    BY <1>2, <1>5, <1>11, <1>24 DEF Permitted
  <2>2. Permitted(rest)
    BY <1>2 DEF Permitted
  <2> QED BY <1>24, <1>w, <2>1, <2>2, WalkOwner
<1>25. ASSUME theirs \cap Shared = {}, NEW x \in theirs PROVE v2 = DefaultVrf(Owner[x])
  <2>1. (CHOOSE m \in theirs : TRUE) \in theirs
    BY <1>25
  <2> QED BY <1>21, <1>24, <1>25, <2>1 DEF CalledFor
<1>26. ASSUME mine \cap Shared = {}, NEW x \in mine PROVE v1 = DefaultVrf(Owner[x])
  BY <1>20, <1>23, <1>26 DEF CalledFor
<1>27. ASSUME NEW y \in mine, left # {}, NEW C \in SUBSET Networks, y \in C, C \cap Shared = {}, Walled(C, rest)
       PROVE  mine \subseteq C
  <2>1. {n} \in SUBSET Open(rest)
    BY <1>9, <1>27
  <2>2. n \in C
    BY <1>1, <1>a, <1>27, <2>1, WalkBack
  <2> QED BY <1>27, <2>2 DEF IsWalk
<1>28. ASSUME NEW y \in theirs, NEW C \in SUBSET Networks, y \in C, Walled(C, rest)
       PROVE  theirs \subseteq C
  <2>1. Uniform(map, rest)
    BY <1>1
  <2> QED BY <1>a, <1>w, <1>28, <2>1, RouterWalk DEF from
<1>29. ASSUME mine \cap theirs # {} PROVE v1 = v2
  <2>1. PICK x \in mine : x \in theirs
    BY <1>29
  <2>2. left # {}
    BY <1>16, <2>1
  <2>3. theirs \subseteq mine
    BY <1>11, <1>28, <2>1
  <2>4. CASE mine \cap Shared # {} /\ theirs \cap Shared # {}
    BY <1>20, <1>21, <2>1, <2>4
  <2>5. CASE mine \cap Shared = {}
    <3>1. theirs \cap Shared = {}
      BY <2>3, <2>5
    <3> QED BY <1>25, <1>26, <2>1, <2>5, <3>1
  <2>6. CASE mine \cap Shared # {} /\ theirs \cap Shared = {}
    <3>1. n \in theirs
      <4>1. {n} \in SUBSET Open(rest)
        BY <1>9, <2>2
      <4>2. \E y \in {n} : y \in theirs
        BY <1>1, <1>a, <1>11, <2>1, <4>1, WalkBack
      <4> QED BY <4>2
    <3>2. mine \subseteq theirs
      BY <1>11, <3>1 DEF IsWalk
    <3> QED BY <2>6, <3>2
  <2> QED BY <2>4, <2>5, <2>6
<1>30. \A p \in rest : NetworkOf[p[2]] \in Networks /\ (NetworkOf[p[2]] = n => left # {})
  BY <1>2, <1>b, <1>10
<1>31. \A p \in rest : NetworkOf[p[2]] \in both => Unscoped(p[2])
  BY <1>8, <1>1, <1>a, <1>14, <1>15, <1>16, OpenIs
<1>36. ASSUME NEW map2,
              \A x \in Networks : map2[x] = IF x \in theirs THEN v2
                                            ELSE IF x = n /\ left = {} THEN UnroutedVrf
                                            ELSE IF x \in mine THEN v1 ELSE map[x]
       PROVE  Placed(map2, rest)
  <2>m. \A x \in Networks : map2[x] = IF x \in theirs THEN v2
                                      ELSE IF x = n /\ left = {} THEN UnroutedVrf
                                      ELSE IF x \in mine THEN v1 ELSE map[x]
    BY <1>36
  <2>32. \A x \in Networks : InterfacesOf(x, rest) = {} => map2[x] \in {None, UnroutedVrf}
    <3> SUFFICES ASSUME NEW x \in Networks, InterfacesOf(x, rest) = {} PROVE map2[x] \in {None, UnroutedVrf}
      OBVIOUS
    <3>1. x \notin Open(rest)
      BY DEF Open, InterfacesOf
    <3>2. x \notin theirs /\ (x \in mine => x = n /\ left = {})
      BY <1>14, <1>15, <1>16, <3>1
    <3>3. CASE x = n
      <4>1. left = {}
        BY <3>3 DEF RoutersOn
      <4> QED BY <2>m, <3>2, <3>3, <4>1
    <3>4. CASE x # n
      <4>1. InterfacesOf(x, ports) = {}
        BY <1>0, <1>3, <3>4 DEF InterfacesOf
      <4>2. map2[x] = map[x]
        BY <2>m, <3>2, <3>4
      <4> QED BY <4>1, <4>2 DEF Placed
    <3> QED BY <3>3, <3>4
  <2>33. \A p \in rest : IF Unscoped(p[2]) THEN map2[NetworkOf[p[2]]] \in DefaultVrfs
                         ELSE map2[NetworkOf[p[2]]] = ScopeVrf[ScopeOfSubnet(p[2])]
    <3> SUFFICES ASSUME NEW p \in rest
                 PROVE  IF Unscoped(p[2]) THEN map2[NetworkOf[p[2]]] \in DefaultVrfs
                        ELSE map2[NetworkOf[p[2]]] = ScopeVrf[ScopeOfSubnet(p[2])]
      OBVIOUS
    <3>1. CASE NetworkOf[p[2]] \in both
      <4>1. map2[NetworkOf[p[2]]] \in {v1, v2} /\ (map2[NetworkOf[p[2]]] = v1 \/ theirs # {})
        BY <2>m, <1>30, <3>1
      <4> QED BY <1>22, <1>31, <3>1, <4>1
    <3>2. CASE NetworkOf[p[2]] \notin both
      <4>1. map2[NetworkOf[p[2]]] = map[NetworkOf[p[2]]]
        BY <2>m, <1>11, <1>30, <3>2
      <4> QED BY <1>2, <4>1 DEF Placed
    <3> QED BY <3>1, <3>2
  <2>34. \A p, q \in rest : p[1] = q[1] /\ Unscoped(p[2]) /\ Unscoped(q[2])
           => map2[NetworkOf[p[2]]] = map2[NetworkOf[q[2]]]
    <3> SUFFICES ASSUME NEW p \in rest, NEW q \in rest, p[1] = q[1], Unscoped(p[2]), Unscoped(q[2])
                 PROVE  map2[NetworkOf[p[2]]] = map2[NetworkOf[q[2]]]
      OBVIOUS
    <3>1. /\ NetworkOf[p[2]] \in mine <=> NetworkOf[q[2]] \in mine
          /\ NetworkOf[p[2]] \in theirs <=> NetworkOf[q[2]] \in theirs
      BY <1>11 DEF Walled
    <3>2. map[NetworkOf[p[2]]] = map[NetworkOf[q[2]]]
      BY <1>1 DEF Uniform
    <3>3. /\ NetworkOf[p[2]] \in Networks /\ ~(NetworkOf[p[2]] = n /\ left = {})
          /\ NetworkOf[q[2]] \in Networks /\ ~(NetworkOf[q[2]] = n /\ left = {})
      BY <1>30
    <3> QED BY <2>m, <3>1, <3>2, <3>3
  <2>35. ASSUME NEW y \in Open(rest)
         PROVE  /\ y \in Shared => map2[y] = DefaultVrf(Owner[y])
                /\ \A C \in SUBSET Networks :
                     y \in C /\ C \cap Shared = {} /\ Walled(C, rest) => map2[y] = DefaultVrf(Owner[y])
    <3>0. y \in Networks /\ ~(y = n /\ left = {})
      BY <1>o, <1>10 DEF Open
    <3>1. CASE y \in theirs
      <4>1. map2[y] = v2
        BY <2>m, <3>0, <3>1
      <4>2. y \in Shared => v2 = DefaultVrf(Owner[y])
        BY <1>21, <3>1 DEF CalledFor
      <4>3. ASSUME NEW C \in SUBSET Networks, y \in C, C \cap Shared = {}, Walled(C, rest)
            PROVE  v2 = DefaultVrf(Owner[y])
        <5>1. theirs \subseteq C
          BY <1>28, <3>1, <4>3
        <5>2. theirs \cap Shared = {}
          BY <4>3, <5>1
        <5> QED BY <1>25, <3>1, <5>2
      <4> QED BY <4>1, <4>2, <4>3
    <3>2. CASE y \in mine /\ y \notin theirs
      <4>0. left # {}
        BY <1>16, <3>0, <3>2
      <4>1. map2[y] = v1
        BY <2>m, <3>0, <3>2
      <4>2. y \in Shared => v1 = DefaultVrf(Owner[y])
        BY <1>20, <3>2 DEF CalledFor
      <4>3. ASSUME NEW C \in SUBSET Networks, y \in C, C \cap Shared = {}, Walled(C, rest)
            PROVE  v1 = DefaultVrf(Owner[y])
        <5>1. mine \subseteq C
          BY <1>27, <3>2, <4>0, <4>3
        <5>2. mine \cap Shared = {}
          BY <4>3, <5>1
        <5> QED BY <1>26, <3>2, <5>2
      <4> QED BY <4>1, <4>2, <4>3
    <3>3. CASE y \notin both
      <4>1. map2[y] = map[y] /\ y \in Open(ports)
        BY <2>m, <1>7, <1>11, <3>0, <3>3
      <4>2. y \in Shared => map[y] = DefaultVrf(Owner[y])
        BY <4>1 DEF Placed
      <4>3. ASSUME NEW C \in SUBSET Networks, y \in C, C \cap Shared = {}, Walled(C, rest)
            PROVE  map[y] = DefaultVrf(Owner[y])
        <5> DEFINE D == ((C \cap Open(rest)) \ mine) \ theirs
        <5>1. y \in D /\ D \in SUBSET Networks /\ D \cap Shared = {}
          BY <3>3, <4>3
        <5>2. Walled(D, ports)
          <6> SUFFICES ASSUME NEW p \in ports, NEW q \in ports, NetworkOf[p[2]] \in D, p[1] = q[1], Unscoped(q[2])
                       PROVE  NetworkOf[q[2]] \in D
            BY DEF Walled
          <6>1. p \in rest
            BY <1>0, <1>3, <1>11
          <6>2. Unscoped(p[2])
            BY <1>1, <1>a, <6>1, OpenIs
          <6>3. q \in rest
            <7>1. p[1] # r
              BY <1>5, <1>11, <6>1, <6>2
            <7> QED BY <1>0, <1>3, <7>1
          <6>4. NetworkOf[q[2]] \in C /\ NetworkOf[q[2]] \in Open(rest)
            BY <1>o, <4>3, <6>1, <6>3 DEF Walled
          <6>5. NetworkOf[q[2]] \notin mine /\ NetworkOf[q[2]] \notin theirs
            BY <1>11, <6>1, <6>2, <6>3 DEF Walled
          <6> QED BY <6>4, <6>5
        <5> HIDE DEF D
        <5> QED BY <4>1, <5>1, <5>2 DEF Placed
      <4> QED BY <4>1, <4>2, <4>3
    <3> QED BY <3>1, <3>2, <3>3
  <2> QED
    BY <2>32, <2>33, <2>34, <2>35 DEF Placed
<1>37. theirs \cap Shared # {} => v2 = old
  BY <1>21
<1> QED
  BY <1>11, <1>12, <1>16, <1>17, <1>20, <1>22, <1>29, <1>36, <1>37

\* An interface in a scope joins no topologies.
LEMMA AddScopedPlaced ==
  ASSUME TopologyConstants, scopeOf \in [Pools -> Scopes \cup {None}],
         NEW ports \in SUBSET RouterPorts, NEW map, Placed(map, ports),
         NEW r \in Routers, NEW s \in Subnets, NEW n, n = NetworkOf[s], ~Unscoped(s),
         \A p \in InterfacesOf(n, ports) :
           ~Unscoped(p[2]) /\ ScopeVrf[ScopeOfSubnet(p[2])] = ScopeVrf[ScopeOfSubnet(s)],
         NEW map2, \A x \in Networks : map2[x] = IF x = n THEN ScopeVrf[ScopeOfSubnet(s)] ELSE map[x]
  PROVE  Placed(map2, ports \cup {<<r, s>>})
<1> DEFINE i == <<r, s>>
           ports2 == ports \cup {i}
<1>0. i[1] = r /\ i[2] = s /\ i \in RouterPorts /\ n \in Networks /\ i \in ports2
  BY TopologyAssumption DEF RouterPorts
<1>1. Uniform(map, ports)
  BY PlacedIsUniform
<1>2. \A p \in ports : p \in ports2
  OBVIOUS
<1>3. \A p \in ports2 : p \in ports \/ p = i
  OBVIOUS
<1>b. \A p \in ports : p[1] \in Routers /\ p[2] \in Subnets /\ NetworkOf[p[2]] \in Networks
  BY TopologyAssumption DEF RouterPorts
<1>7. Open(ports2) = Open(ports)
  BY <1>0, <1>3 DEF Open
<1> HIDE DEF i, ports2
<1>8. n \notin Open(ports)
  BY DEF Open, InterfacesOf
<1>o. Open(ports) \in SUBSET Networks
  BY <1>1, OpenIs
<1>9. \A p \in ports : NetworkOf[p[2]] = n => ~Unscoped(p[2])
  BY DEF InterfacesOf
<1>10. \A x \in Networks : InterfacesOf(x, ports2) = {} => map2[x] \in {None, UnroutedVrf}
  <2> SUFFICES ASSUME NEW x \in Networks, InterfacesOf(x, ports2) = {} PROVE map2[x] \in {None, UnroutedVrf}
    OBVIOUS
  <2>1. x # n
    BY <1>0 DEF InterfacesOf
  <2>2. InterfacesOf(x, ports) = {}
    BY <1>2 DEF InterfacesOf
  <2> QED BY <2>1, <2>2 DEF Placed
<1>11. \A p \in ports2 : IF Unscoped(p[2]) THEN map2[NetworkOf[p[2]]] \in DefaultVrfs
                         ELSE map2[NetworkOf[p[2]]] = ScopeVrf[ScopeOfSubnet(p[2])]
  <2> SUFFICES ASSUME NEW p \in ports2
               PROVE  IF Unscoped(p[2]) THEN map2[NetworkOf[p[2]]] \in DefaultVrfs
                      ELSE map2[NetworkOf[p[2]]] = ScopeVrf[ScopeOfSubnet(p[2])]
    OBVIOUS
  <2>1. CASE NetworkOf[p[2]] = n
    BY <1>0, <1>3, <2>1 DEF InterfacesOf
  <2>2. CASE NetworkOf[p[2]] # n
    <3>1. p \in ports
      BY <1>0, <1>3, <2>2
    <3> QED BY <1>b, <2>2, <3>1 DEF Placed
  <2> QED BY <2>1, <2>2
<1>12. \A p, q \in ports2 : p[1] = q[1] /\ Unscoped(p[2]) /\ Unscoped(q[2])
         => map2[NetworkOf[p[2]]] = map2[NetworkOf[q[2]]]
  <2> SUFFICES ASSUME NEW p \in ports2, NEW q \in ports2, p[1] = q[1], Unscoped(p[2]), Unscoped(q[2])
               PROVE  map2[NetworkOf[p[2]]] = map2[NetworkOf[q[2]]]
    OBVIOUS
  <2>1. p \in ports /\ q \in ports
    BY <1>0, <1>3
  <2>2. map[NetworkOf[p[2]]] = map[NetworkOf[q[2]]]
    BY <2>1 DEF Placed
  <2> QED BY <1>b, <1>9, <2>1, <2>2
<1>13. ASSUME NEW y \in Open(ports2)
       PROVE  /\ y \in Shared => map2[y] = DefaultVrf(Owner[y])
              /\ \A C \in SUBSET Networks :
                   y \in C /\ C \cap Shared = {} /\ Walled(C, ports2) => map2[y] = DefaultVrf(Owner[y])
  <2>1. y \in Open(ports) /\ map2[y] = map[y]
    BY <1>7, <1>8, <1>o
  <2>2. \A C \in SUBSET Networks : Walled(C, ports2) => Walled(C, ports)
    BY <1>2 DEF Walled
  <2> QED BY <2>1, <2>2 DEF Placed
<1>14. Placed(map2, ports2)
  BY <1>10, <1>11, <1>12, <1>13 DEF Placed
<1> QED
  BY <1>14 DEF ports2, i

\* An interface in a scope parts no topology.
LEMMA RemoveScopedPlaced ==
  ASSUME TopologyConstants, scopeOf \in [Pools -> Scopes \cup {None}],
         NEW ports \in SUBSET RouterPorts, NEW map, Placed(map, ports),
         NEW r \in Routers, NEW s \in Subnets, <<r, s>> \in ports,
         NEW n, n = NetworkOf[s], ~Unscoped(s),
         NEW rest, Without(rest, ports, r, s),
         NEW map2, MovedTo(map2, map, IF InterfacesOf(n, rest) = {} THEN {n} ELSE {}, UnroutedVrf)
  PROVE  Placed(map2, rest)
<1> USE DEF Without
<1> DEFINE i == <<r, s>>
<1>0. i[1] = r /\ i[2] = s /\ n \in Networks
  BY TopologyAssumption
<1>1. Uniform(map, ports) /\ Uniform(map, rest)
  BY PlacedIsUniform
<1>2. \A p \in rest : p \in ports
  OBVIOUS
<1>3. \A p \in ports : p \in rest \/ p = i
  OBVIOUS
<1>a. rest \in SUBSET RouterPorts
  BY <1>2
<1>b. \A p \in ports : p[1] \in Routers /\ p[2] \in Subnets /\ NetworkOf[p[2]] \in Networks
  BY TopologyAssumption DEF RouterPorts
<1>h. \A x \in Networks : map2[x] = IF x = n /\ InterfacesOf(n, rest) = {} THEN UnroutedVrf ELSE map[x]
  BY DEF MovedTo
<1> HIDE DEF i
<1>7. Open(rest) = Open(ports)
  BY <1>0, <1>2, <1>3 DEF Open
<1>o. Open(rest) \in SUBSET Networks /\ Walled(Open(rest), rest)
  BY <1>1, <1>a, OpenIs
<1>8. \A p \in rest : map2[NetworkOf[p[2]]] = map[NetworkOf[p[2]]]
  BY <1>2, <1>b, <1>h DEF InterfacesOf
<1>9. \A x \in Networks : InterfacesOf(x, rest) = {} => map2[x] \in {None, UnroutedVrf}
  <2> SUFFICES ASSUME NEW x \in Networks, InterfacesOf(x, rest) = {}, x # n
               PROVE  map2[x] \in {None, UnroutedVrf}
    BY <1>0, <1>h
  <2>1. InterfacesOf(x, ports) = {}
    BY <1>0, <1>3 DEF InterfacesOf
  <2> QED BY <1>h, <2>1 DEF Placed
<1>10. \A p \in rest : IF Unscoped(p[2]) THEN map2[NetworkOf[p[2]]] \in DefaultVrfs
                       ELSE map2[NetworkOf[p[2]]] = ScopeVrf[ScopeOfSubnet(p[2])]
  BY <1>2, <1>8 DEF Placed
<1>11. \A p, q \in rest : p[1] = q[1] /\ Unscoped(p[2]) /\ Unscoped(q[2])
         => map2[NetworkOf[p[2]]] = map2[NetworkOf[q[2]]]
  BY <1>2, <1>8 DEF Placed
<1>12. ASSUME NEW y \in Open(rest)
       PROVE  /\ y \in Shared => map2[y] = DefaultVrf(Owner[y])
              /\ \A C \in SUBSET Networks :
                   y \in C /\ C \cap Shared = {} /\ Walled(C, rest) => map2[y] = DefaultVrf(Owner[y])
  <2>1. y \in Open(ports) /\ map2[y] = map[y]
    <3>1. PICK q \in rest : Unscoped(q[2]) /\ y = NetworkOf[q[2]]
      BY DEF Open
    <3> QED BY <1>7, <1>8, <3>1
  <2>2. ASSUME NEW C \in SUBSET Networks, y \in C, C \cap Shared = {}, Walled(C, rest)
        PROVE  map[y] = DefaultVrf(Owner[y])
    <3> DEFINE D == C \cap Open(rest)
    <3>1. y \in D /\ D \in SUBSET Networks /\ D \cap Shared = {}
      BY <2>2
    <3>2. Walled(D, ports)
      <4> SUFFICES ASSUME NEW p \in ports, NEW q \in ports, NetworkOf[p[2]] \in D, p[1] = q[1], Unscoped(q[2])
                   PROVE  NetworkOf[q[2]] \in D
        BY DEF Walled
      <4>1. Unscoped(p[2])
        BY <1>1, <1>7, OpenIs
      <4>2. p \in rest /\ q \in rest
        BY <1>0, <1>3, <4>1
      <4> QED BY <1>o, <2>2, <4>2 DEF Walled
    <3> HIDE DEF D
    <3> QED BY <2>1, <3>1, <3>2 DEF Placed
  <2>3. y \in Shared => map[y] = DefaultVrf(Owner[y])
    BY <2>1 DEF Placed
  <2> QED BY <2>1, <2>2, <2>3
<1> QED
  BY <1>9, <1>10, <1>11, <1>12 DEF Placed

\* The two interfaces of a network that are looked at tell of all of them.
LEMMA SupportedShares ==
  ASSUME IsFiniteSet(Subnets), IsFiniteSet(Routers),
         NEW on \in SUBSET RouterPorts, NEW r, NEW s, InterfaceSupported(r, s, on),
         (\A p, q \in on : p[1] = q[1]) \/ (\A p, q \in on : p[2] = q[2])
  PROVE  /\ (\A p \in on : p[1] = r) \/ (\A p \in on : p[2] = s)
         /\ on # {} => \E p \in on :
              \/ ScopeOfSubnet(p[2]) = ScopeOfSubnet(s)
              \/ /\ ~Unscoped(p[2]) /\ ~Unscoped(s)
                 /\ ScopeVrf[ScopeOfSubnet(p[2])] = ScopeVrf[ScopeOfSubnet(s)]
<1>1. PICK seen \in SUBSET on :
        /\ Cardinality(seen) <= 2
        /\ Cardinality(on) >= 2 => Cardinality(seen) = 2
        /\ Cardinality(on) = 1 => seen = on
        /\ (\A p \in seen : p[1] = r) \/ (\A p \in seen : p[2] = s)
        /\ seen # {} => \E p \in seen :
             \/ ScopeOfSubnet(p[2]) = ScopeOfSubnet(s)
             \/ /\ ~Unscoped(p[2]) /\ ~Unscoped(s)
                /\ ScopeVrf[ScopeOfSubnet(p[2])] = ScopeVrf[ScopeOfSubnet(s)]
  BY DEF InterfaceSupported
<1>2. IsFiniteSet(on)
  <2>1. IsFiniteSet(Routers \X Subnets)
    BY FS_Product
  <2> QED BY <2>1, FS_Subset DEF RouterPorts
<1>3. CASE on = {}
  BY <1>3
<1>4. CASE on # {}
  <2>1. Cardinality(on) \in Nat /\ Cardinality(on) # 0
    BY <1>2, <1>4, FS_CardinalityType, FS_EmptySet
  <2>2. seen # {}
    <3>1. Cardinality(on) = 1 \/ Cardinality(on) >= 2
      BY <2>1
    <3>2. Cardinality(on) = 1 => seen # {}
      BY <1>1, <1>4
    <3>3. Cardinality(on) >= 2 => seen # {}
      BY <1>1, FS_EmptySet
    <3> QED BY <3>1, <3>2, <3>3
  <2>3. CASE seen = on
    BY <1>1, <2>2, <2>3
  <2>4. CASE seen # on
    <3>1. Cardinality(seen) = 2
      BY <1>1, <2>1, <2>4
    <3>2. IsFiniteSet(seen)
      BY <1>2, FS_Subset
    <3>3. PICK a \in seen : TRUE
      BY <2>2
    <3>4. seen # {a}
      BY <3>1, FS_Singleton
    <3>5. PICK b \in seen : b # a
      BY <3>3, <3>4
    <3>6. a \in RouterPorts /\ b \in RouterPorts /\ a \in on /\ b \in on
      OBVIOUS
    <3>7. a[1] # b[1] \/ a[2] # b[2]
      BY <3>5, <3>6 DEF RouterPorts
    <3>8. (\A p \in on : p[1] = r) \/ (\A p \in on : p[2] = s)
      <4>1. CASE \A p, q \in on : p[1] = q[1]
        <5>1. a[2] # b[2]
          BY <3>6, <3>7, <4>1
        <5>2. a[1] = r
          BY <1>1, <5>1
        <5> QED BY <3>6, <4>1, <5>2
      <4>2. CASE \A p, q \in on : p[2] = q[2]
        <5>1. a[1] # b[1]
          BY <3>6, <3>7, <4>2
        <5>2. a[2] = s
          BY <1>1, <5>1
        <5> QED BY <3>6, <4>2, <5>2
      <4> QED BY <4>1, <4>2
    <3> QED BY <1>1, <2>2, <3>8
  <2> QED BY <2>3, <2>4
<1> QED
  BY <1>3, <1>4

\* In OneIsShared: all interfaces of a network are of one router or on one subnet.
LEMMA SharedOf ==
  ASSUME NEW ports, OneIsShared(ports), NEW n
  PROVE  LET on == InterfacesOf(n, ports)
         IN (\A p, q \in on : p[1] = q[1]) \/ (\A p, q \in on : p[2] = q[2])
BY DEF OneIsShared, InterfacesOf

\* One interface more that is of the router, or on the subnet, of all the others.
LEMMA OneMoreShares ==
  ASSUME NEW ports, OneIsShared(ports), NEW r, NEW s,
         (\A p \in InterfacesOf(NetworkOf[s], ports) : p[1] = r)
           \/ (\A p \in InterfacesOf(NetworkOf[s], ports) : p[2] = s)
  PROVE  OneIsShared(ports \cup {<<r, s>>})
<1> DEFINE i == <<r, s>>
           ports2 == ports \cup {i}
<1>1. i[1] = r /\ i[2] = s
  OBVIOUS
<1>2. \A p \in ports2 : p \in ports \/ p = i
  OBVIOUS
<1> HIDE DEF i, ports2
<1>3. ASSUME NEW n PROVE (\A p, q \in InterfacesOf(n, ports2) : p[1] = q[1])
                           \/ (\A p, q \in InterfacesOf(n, ports2) : p[2] = q[2])
  <2>1. CASE n = NetworkOf[s]
    <3>1. \A p \in InterfacesOf(n, ports2) : p \in InterfacesOf(n, ports) \/ p = i
      BY <1>2 DEF InterfacesOf
    <3> QED BY <1>1, <2>1, <3>1
  <2>2. CASE n # NetworkOf[s]
    <3>1. \A p \in InterfacesOf(n, ports2) : p \in InterfacesOf(n, ports)
      BY <1>1, <1>2, <2>2 DEF InterfacesOf
    <3>2. (\A p, q \in InterfacesOf(n, ports) : p[1] = q[1]) \/ (\A p, q \in InterfacesOf(n, ports) : p[2] = q[2])
      BY SharedOf
    <3> QED BY <3>1, <3>2
  <2> QED BY <2>1, <2>2
<1>4. OneIsShared(ports2)
  <2> SUFFICES ASSUME NEW p \in ports2, NEW q \in ports2, NEW x \in ports2, NEW y \in ports2,
                      NetworkOf[p[2]] = NetworkOf[q[2]], NetworkOf[x[2]] = NetworkOf[p[2]],
                      NetworkOf[y[2]] = NetworkOf[p[2]]
               PROVE  p[1] = q[1] \/ x[2] = y[2]
    BY DEF OneIsShared
  <2>1. {p, q, x, y} \subseteq InterfacesOf(NetworkOf[p[2]], ports2)
    BY DEF InterfacesOf
  <2> QED BY <1>3, <2>1
<1> QED
  BY <1>4 DEF ports2, i

\* Subnets of a VRF that gets none do not overlap if they did not.
LEMMA FewerApart ==
  ASSUME NEW v, NEW map, NEW ports, NEW map2, NEW ports2, ~OverlapIn(v, map, ports, {}),
         \A p \in ports2 : map2[NetworkOf[p[2]]] = v => p \in ports /\ map[NetworkOf[p[2]]] = v
  PROVE  ~OverlapIn(v, map2, ports2, {})
<1> DEFINE routed == {p[2] : p \in {q \in ports : map[NetworkOf[q[2]]] = v}} \cup {}
           routed2 == {p[2] : p \in {q \in ports2 : map2[NetworkOf[q[2]]] = v}} \cup {}
<1>1. routed2 \subseteq routed
  OBVIOUS
<1>2. (routed \X routed) \cap Overlap = {}
  BY DEF OverlapIn
<1>3. (routed2 \X routed2) \subseteq routed \X routed
  BY <1>1
<1>4. (routed2 \X routed2) \cap Overlap = {}
  BY <1>2, <1>3
<1> QED
  BY <1>4 DEF OverlapIn

\* The guard of a new interface looks at all subnets that will be in the VRF.
LEMMA GuardedApart ==
  ASSUME NEW v, NEW map, NEW ports, NEW r, NEW s, ~OverlapIn(v, map, ports, {s})
  PROVE  ~OverlapIn(v, map, ports \cup {<<r, s>>}, {})
<1> DEFINE i == <<r, s>>
           ports2 == ports \cup {i}
           routed == {p[2] : p \in {q \in ports : map[NetworkOf[q[2]]] = v}} \cup {s}
           routed2 == {p[2] : p \in {q \in ports2 : map[NetworkOf[q[2]]] = v}} \cup {}
<1>1. routed2 \subseteq routed
  <2>1. i[2] = s
    OBVIOUS
  <2> HIDE DEF i
  <2> QED BY <2>1
<1>2. (routed \X routed) \cap Overlap = {}
  BY DEF OverlapIn
<1>3. (routed2 \X routed2) \subseteq routed \X routed
  BY <1>1
<1>4. (routed2 \X routed2) \cap Overlap = {}
  BY <1>2, <1>3
<1> QED
  BY <1>4 DEF OverlapIn

--------------------
(* What the driver does to AIM *)

\* Default VRFs, those of scopes and the unrouted one are different VRFs.
LEMMA VrfFacts ==
  ASSUME TopologyConstants
  PROVE  /\ \A v \in DefaultVrfs : v.tenant # "common" /\ v.tenant \in Tenants /\ v.name = "default"
         /\ \A v, w \in DefaultVrfs : v.tenant = w.tenant => v = w
         /\ UnroutedVrf.tenant = "common" /\ UnroutedVrf \notin DefaultVrfs /\ UnroutedVrf \notin ScopeVrfs
         /\ DefaultVrfs \cap ScopeVrfs = {}
         /\ None \notin Vrfs /\ DefaultVrfs \subseteq Vrfs /\ ScopeVrfs \subseteq Vrfs /\ UnroutedVrf \in Vrfs
         /\ \A v \in Vrfs : v.tenant \in Tenants
         /\ \A n \in Networks : Owner[n] \in Tenants
         /\ \A c \in Scopes : ScopeVrf[c] \in ScopeVrfs
         /\ \A n \in Networks : DefaultVrf(Owner[n]) \in DefaultVrfs
<1>1. \A v \in DefaultVrfs : v.tenant \in Projects /\ v.name = "default" /\ v = DefaultVrf(v.tenant)
  BY DEF DefaultVrfs, DefaultVrf
<1>2. UnroutedVrf.tenant = "common" /\ UnroutedVrf.name = "unrouted"
  BY DEF UnroutedVrf
<1>3. \A v \in DefaultVrfs : v.tenant # "common"
  BY <1>1 DEF TopologyConstants
<1>4. \A v, w \in DefaultVrfs : v.tenant = w.tenant => v = w
  BY <1>1
<1>5. UnroutedVrf \notin DefaultVrfs
  BY <1>2, <1>3
<1>6. UnroutedVrf \notin ScopeVrfs /\ DefaultVrfs \cap ScopeVrfs = {} /\ None \notin Vrfs
  BY DEF TopologyConstants
<1>7. DefaultVrfs \subseteq Vrfs /\ ScopeVrfs \subseteq Vrfs /\ UnroutedVrf \in Vrfs
  BY DEF Vrfs
<1>8. \A v \in Vrfs : v.tenant \in Tenants
  BY DEF Tenants
<1>9. \A n \in Networks : Owner[n] \in Projects
  BY TopologyAssumption
<1>10. \A n \in Networks : Owner[n] \in Tenants /\ DefaultVrf(Owner[n]) \in DefaultVrfs
  BY <1>9 DEF Tenants, DefaultVrfs
<1>11. \A c \in Scopes : ScopeVrf[c] \in ScopeVrfs
  BY DEF ScopeVrfs
<1> QED
  BY <1>1, <1>2, <1>3, <1>4, <1>5, <1>6, <1>7, <1>8, <1>10, <1>11

\* The columns of what the driver keeps in AIM.
LEMMA AimFields ==
  ASSUME NEW a \in AimType
  PROVE  /\ a.vrf \in [Networks -> Vrfs \cup {None}]
         /\ a.tenant \in [Networks -> Tenants \cup {None}]
         /\ a.contracts \in [Networks -> SUBSET Routers]
         /\ a.subnets \in SUBSET (Routers \X Subnets \X Tenants)
         /\ a.vrfs \in SUBSET (Vrfs \ {UnroutedVrf})
         /\ a.connected \in [Vrfs \X ExtNets -> SUBSET Routers]
BY DEF AimType

\* The VRFs that projects use and those of the existing scopes.
Used(map) == {map[n] : n \in Networks} \cap DefaultVrfs
Scoped == {ScopeVrf[c] : c \in scopes}

\* _ensure_default_vrf adds a VRF and nothing else,
LEMMA EnsureIs ==
  ASSUME NEW a \in AimType, NEW v \in Vrfs \ {UnroutedVrf}, NEW ports, Kept(a, ports)
  PROVE  LET b == Ensure(a, v)
         IN /\ b \in AimType /\ b.vrf = a.vrf /\ b.tenant = a.tenant /\ b.contracts = a.contracts
            /\ b.subnets = a.subnets /\ b.connected = a.connected /\ b.vrfs = a.vrfs \cup {v}
            /\ Kept(b, ports)
<1> DEFINE b == Ensure(a, v)
<1>1. /\ b \in AimType /\ b.vrf = a.vrf /\ b.tenant = a.tenant /\ b.contracts = a.contracts
      /\ b.subnets = a.subnets /\ b.connected = a.connected /\ b.vrfs = a.vrfs \cup {v}
  BY DEF Ensure, AimType
<1> HIDE DEF b
<1>2. Kept(b, ports)
  BY <1>1 DEF Kept
<1> QED
  BY <1>1, <1>2 DEF b

InUse(v, map) == \E n \in Networks : map[n] = v

\* _cleanup_default_vrf takes it away once no network is in it,
LEMMA CleanupIs ==
  ASSUME NEW a \in AimType, NEW v, NEW ports, Kept(a, ports)
  PROVE  LET b == Cleanup(a, v)
         IN /\ b \in AimType /\ b.vrf = a.vrf /\ b.tenant = a.tenant /\ b.contracts = a.contracts
            /\ b.subnets = a.subnets /\ b.connected = a.connected
            /\ b.vrfs = IF InUse(v, a.vrf) THEN a.vrfs ELSE a.vrfs \ {v}
            /\ Kept(b, ports)
<1> DEFINE b == Cleanup(a, v)
<1>1. /\ b \in AimType /\ b.vrf = a.vrf /\ b.tenant = a.tenant /\ b.contracts = a.contracts
      /\ b.subnets = a.subnets /\ b.connected = a.connected
      /\ b.vrfs = IF InUse(v, a.vrf) THEN a.vrfs ELSE a.vrfs \ {v}
  BY DEF Cleanup, AimType, InUse
<1> HIDE DEF b
<1>2. Kept(b, ports)
  BY <1>1 DEF Kept
<1> QED
  BY <1>1, <1>2 DEF b

\* What Connect gives.
ConnectsTo(b, a, vs, e, ports, added) ==
  \A v \in Vrfs, g \in ExtNets :
    b.connected[<<v, g>>] = IF g = e /\ v \in vs
                            THEN {q \in RoutersForVrf(v, a.vrf, ports) : gateway[q] = e} \cup added
                            ELSE a.connected[<<v, g>>]

\* and connecting an external network changes its contracts.
LEMMA ConnectIs ==
  ASSUME NEW a \in AimType, NEW vs, NEW e, NEW ports \in SUBSET RouterPorts, NEW added \in SUBSET Routers,
         NEW all, Kept(a, all)
  PROVE  LET b == Connect(a, vs, e, ports, added)
         IN /\ b \in AimType /\ b.vrf = a.vrf /\ b.tenant = a.tenant /\ b.contracts = a.contracts
            /\ b.subnets = a.subnets /\ b.vrfs = a.vrfs
            /\ ConnectsTo(b, a, vs, e, ports, added)
            /\ Kept(b, all)
<1> DEFINE b == Connect(a, vs, e, ports, added)
           con == [x \in Vrfs \X ExtNets |->
                     IF x[2] = e /\ x[1] \in vs
                     THEN {q \in RoutersForVrf(x[1], a.vrf, ports) : gateway[q] = e} \cup added
                     ELSE a.connected[x]]
<1>1. \A v : RoutersForVrf(v, a.vrf, ports) \subseteq Routers
  BY DEF RoutersForVrf, RouterPorts
<1>2. con \in [Vrfs \X ExtNets -> SUBSET Routers]
  BY <1>1, AimFields
<1>3. b = [a EXCEPT !.connected = con]
  BY DEF Connect
<1>4. \A v \in Vrfs, g \in ExtNets :
         con[<<v, g>>] = IF g = e /\ v \in vs
                         THEN {q \in RoutersForVrf(v, a.vrf, ports) : gateway[q] = e} \cup added
                         ELSE a.connected[<<v, g>>]
  OBVIOUS
<1> HIDE DEF con, b
<1>5. /\ b \in AimType /\ b.vrf = a.vrf /\ b.tenant = a.tenant /\ b.contracts = a.contracts
      /\ b.subnets = a.subnets /\ b.vrfs = a.vrfs /\ b.connected = con
  BY <1>2, <1>3 DEF AimType
<1>6. Kept(b, all)
  BY <1>5 DEF Kept
<1>7. ConnectsTo(b, a, vs, e, ports, added)
  BY <1>4, <1>5 DEF ConnectsTo
<1> QED
  BY <1>5, <1>6, <1>7 DEF b

\* A topology moves with all that is kept of it.
LEMMA MoveIs ==
  ASSUME TopologyConstants, NEW a \in AimType, NEW ports \in SUBSET RouterPorts, Kept(a, ports),
         NEW nets \in SUBSET Networks, NEW old \in DefaultVrfs, NEW new \in DefaultVrfs,
         \A x \in nets : a.vrf[x] \in {old, new}
  PROVE  LET b == Move(a, nets, old, new)
         IN /\ b \in AimType /\ b.vrf = [n \in Networks |-> IF n \in nets THEN new ELSE a.vrf[n]]
            /\ b.connected = a.connected /\ b.vrfs = a.vrfs
            /\ Kept(b, ports)
<1> DEFINE b == Move(a, nets, old, new)
           map == [n \in Networks |-> IF n \in nets THEN new ELSE a.vrf[n]]
           tenants == IF old.tenant = new.tenant THEN a.tenant
                      ELSE [n \in Networks |-> IF n \in nets THEN new.tenant ELSE a.tenant[n]]
           under(x) == NetworkOf[x[2]] \in nets /\ x[3] = a.tenant[NetworkOf[x[2]]]
           moved == {IF under(x) THEN <<x[1], x[2], tenants[NetworkOf[x[2]]]>> ELSE x : x \in a.subnets}
<1>1. b = [a EXCEPT !.vrf = map, !.tenant = tenants, !.subnets = moved]
  BY DEF Move
<1>2. \A v \in DefaultVrfs : v.tenant # "common" /\ v.tenant \in Tenants /\ v \in Vrfs /\ v # None
  BY VrfFacts
<1>3. map \in [Networks -> Vrfs \cup {None}]
  BY <1>2, AimFields
<1>4. tenants \in [Networks -> Tenants \cup {None}]
  BY <1>2, AimFields
<1>5. \A n \in nets : a.tenant[n] \in {old.tenant, new.tenant}
  BY <1>2 DEF Kept
<1>6. \A n \in Networks : tenants[n] = IF n \in nets THEN new.tenant ELSE a.tenant[n]
  BY <1>5
<1>7. \A p \in ports : p[1] \in Routers /\ p[2] \in Subnets /\ NetworkOf[p[2]] \in Networks
  BY TopologyAssumption DEF RouterPorts
<1> HIDE DEF tenants, map
<1>8. moved = {<<p[1], p[2], tenants[NetworkOf[p[2]]]>> : p \in ports}
  <2> DEFINE g(x) == IF under(x) THEN <<x[1], x[2], tenants[NetworkOf[x[2]]]>> ELSE x
             t(p) == <<p[1], p[2], a.tenant[NetworkOf[p[2]]]>>
             u(p) == <<p[1], p[2], tenants[NetworkOf[p[2]]]>>
  <2>1. a.subnets = {t(p) : p \in ports}
    BY DEF Kept
  <2>2. \A p \in ports : g(t(p)) = u(p)
    BY <1>6, <1>7
  <2>3. moved = {g(x) : x \in a.subnets}
    OBVIOUS
  <2> HIDE DEF g, t, moved
  <2>4. moved = {u(p) : p \in ports}
    BY <2>1, <2>2, <2>3
  <2> QED BY <2>4
<1>9. moved \in SUBSET (Routers \X Subnets \X Tenants)
  <2>1. ASSUME NEW p \in ports PROVE a.tenant[NetworkOf[p[2]]] \in Tenants
    <3>1. <<p[1], p[2], a.tenant[NetworkOf[p[2]]]>> \in a.subnets
      BY DEF Kept
    <3>2. <<p[1], p[2], a.tenant[NetworkOf[p[2]]]>> \in Routers \X Subnets \X Tenants
      BY <3>1, AimFields
    <3> QED BY <3>2
  <2>2. ASSUME NEW p \in ports PROVE tenants[NetworkOf[p[2]]] \in Tenants
    BY <1>2, <1>6, <1>7, <2>1
  <2> QED BY <1>7, <1>8, <2>2
<1> HIDE DEF moved, b
<1>10. /\ b \in AimType /\ b.vrf = map /\ b.tenant = tenants /\ b.subnets = moved
       /\ b.contracts = a.contracts /\ b.connected = a.connected /\ b.vrfs = a.vrfs
  BY <1>1, <1>3, <1>4, <1>9 DEF AimType
<1>11. ASSUME NEW n \in Networks
       PROVE  /\ b.vrf[n] # None => b.tenant[n] = IF b.vrf[n].tenant = "common" THEN Owner[n] ELSE b.vrf[n].tenant
              /\ b.contracts[n] = RoutersOn(n, ports)
  <2>1. b.contracts[n] = RoutersOn(n, ports)
    BY <1>10 DEF Kept
  <2>2. CASE n \in nets
    BY <1>2, <1>6, <1>10, <2>1, <2>2 DEF map
  <2>3. CASE n \notin nets
    <3>1. b.vrf[n] = a.vrf[n] /\ b.tenant[n] = a.tenant[n]
      BY <1>6, <1>10, <2>3 DEF map
    <3> QED BY <2>1, <3>1 DEF Kept
  <2> QED BY <2>2, <2>3
<1>12. Kept(b, ports)
  BY <1>8, <1>10, <1>11 DEF Kept
<1> QED
  BY <1>10, <1>12 DEF b, map

\* A network without interfaces goes to another VRF.
LEMMA RemapIs ==
  ASSUME TopologyConstants, NEW a \in AimType, NEW ports \in SUBSET RouterPorts, Kept(a, ports),
         NEW n \in Networks, InterfacesOf(n, ports) = {}, NEW v \in Vrfs, NEW t \in Tenants,
         t = IF v.tenant = "common" THEN Owner[n] ELSE v.tenant
  PROVE  LET b == Remap(a, n, v, t)
         IN /\ b \in AimType /\ b.vrf = [a.vrf EXCEPT ![n] = v]
            /\ b.connected = a.connected /\ b.vrfs = a.vrfs
            /\ Kept(b, ports)
<1> DEFINE b == Remap(a, n, v, t)
<1>1. /\ b \in AimType /\ b.vrf = [a.vrf EXCEPT ![n] = v] /\ b.tenant = [a.tenant EXCEPT ![n] = t]
      /\ b.subnets = a.subnets /\ b.contracts = a.contracts /\ b.connected = a.connected /\ b.vrfs = a.vrfs
  BY AimFields DEF Remap, AimType
<1> HIDE DEF b
<1>2. \A p \in ports : NetworkOf[p[2]] \in Networks /\ NetworkOf[p[2]] # n
  BY TopologyAssumption DEF RouterPorts, InterfacesOf
<1>3. \A p \in ports : b.tenant[NetworkOf[p[2]]] = a.tenant[NetworkOf[p[2]]]
  BY <1>1, <1>2, AimFields
<1>4. {<<p[1], p[2], a.tenant[NetworkOf[p[2]]]>> : p \in ports}
        = {<<p[1], p[2], b.tenant[NetworkOf[p[2]]]>> : p \in ports}
  BY <1>3
<1>5. ASSUME NEW m \in Networks
      PROVE  /\ b.vrf[m] # None => b.tenant[m] = IF b.vrf[m].tenant = "common" THEN Owner[m] ELSE b.vrf[m].tenant
             /\ b.contracts[m] = RoutersOn(m, ports)
  <2>1. CASE m = n
    BY <1>1, <2>1, AimFields DEF Kept
  <2>2. CASE m # n
    <3>1. b.vrf[m] = a.vrf[m] /\ b.tenant[m] = a.tenant[m] /\ b.contracts[m] = a.contracts[m]
      BY <1>1, <2>2, AimFields
    <3> QED BY <3>1 DEF Kept
  <2> QED BY <2>1, <2>2
<1>6. Kept(b, ports)
  BY <1>1, <1>4, <1>5 DEF Kept
<1> QED
  BY <1>1, <1>6 DEF b

\* A network leaves the unrouted VRF with its bridge domain,
LEMMA AssociateIs ==
  ASSUME TopologyConstants, NEW a \in AimType, NEW ports \in SUBSET RouterPorts, Kept(a, ports),
         NEW n \in Networks, InterfacesOf(n, ports) = {}, a.vrf[n] = UnroutedVrf, NEW v \in Vrfs
  PROVE  LET b == Associate(a, n, v)
         IN /\ b \in AimType /\ b.vrf = [a.vrf EXCEPT ![n] = v]
            /\ b.connected = a.connected /\ b.vrfs = a.vrfs
            /\ Kept(b, ports)
<1> DEFINE t == IF v.tenant = "common" THEN a.tenant[n] ELSE v.tenant
<1>1. a.tenant[n] = Owner[n]
  <2>1. UnroutedVrf # None /\ UnroutedVrf.tenant = "common"
    BY VrfFacts
  <2> QED BY <2>1 DEF Kept
<1>2. v.tenant \in Tenants /\ Owner[n] \in Tenants
  BY VrfFacts
<1>3. t \in Tenants /\ t = IF v.tenant = "common" THEN Owner[n] ELSE v.tenant
  BY <1>1, <1>2
<1>4. Associate(a, n, v) = Remap(a, n, v, t)
  BY DEF Associate
<1> HIDE DEF t
<1> QED
  BY <1>3, <1>4, RemapIs

\* and goes back to it.
LEMMA DissociateIs ==
  ASSUME TopologyConstants, NEW a \in AimType, NEW ports \in SUBSET RouterPorts, Kept(a, ports),
         NEW n \in Networks, InterfacesOf(n, ports) = {}, NEW old \in Vrfs, a.vrf[n] = old
  PROVE  LET b == Dissociate(a, n, old)
         IN /\ b \in AimType /\ b.vrf = [a.vrf EXCEPT ![n] = UnroutedVrf]
            /\ b.connected = a.connected /\ b.vrfs = a.vrfs
            /\ Kept(b, ports)
<1> DEFINE t == IF old.tenant = "common" THEN a.tenant[n] ELSE Owner[n]
<1>1. old # None /\ UnroutedVrf \in Vrfs /\ UnroutedVrf.tenant = "common" /\ Owner[n] \in Tenants
  BY VrfFacts
<1>2. t = Owner[n]
  BY <1>1 DEF Kept
<1>3. Dissociate(a, n, old) = Remap(a, n, UnroutedVrf, t)
  BY DEF Dissociate
<1>4. t \in Tenants /\ t = IF UnroutedVrf.tenant = "common" THEN Owner[n] ELSE UnroutedVrf.tenant
  BY <1>1, <1>2
<1> HIDE DEF t
<1> QED
  BY <1>1, <1>3, <1>4, RemapIs

\* The subnet and the contracts of a new interface.
LEMMA AttachedIs ==
  ASSUME TopologyConstants, NEW a \in AimType, NEW ports \in SUBSET RouterPorts, Kept(a, ports),
         NEW r \in Routers, NEW s \in Subnets, a.vrf[NetworkOf[s]] \in Vrfs
  PROVE  LET b == Attached(a, r, s)
         IN /\ b \in AimType /\ b.vrf = a.vrf /\ b.connected = a.connected /\ b.vrfs = a.vrfs
            /\ Kept(b, ports \cup {<<r, s>>})
<1> DEFINE b == Attached(a, r, s)
           n == NetworkOf[s]
           i == <<r, s>>
           ports2 == ports \cup {i}
<1>0. n \in Networks /\ i[1] = r /\ i[2] = s
  BY TopologyAssumption
<1>1. a.tenant[n] \in Tenants
  <2>1. a.vrf[n] # None /\ a.vrf[n].tenant \in Tenants /\ Owner[n] \in Tenants
    BY <1>0, VrfFacts
  <2> QED BY <1>0, <2>1 DEF Kept
<1>2. /\ b \in AimType /\ b.vrf = a.vrf /\ b.tenant = a.tenant /\ b.connected = a.connected /\ b.vrfs = a.vrfs
      /\ b.subnets = a.subnets \cup {<<r, s, a.tenant[n]>>}
      /\ b.contracts = [a.contracts EXCEPT ![n] = @ \cup {r}]
  <2> DEFINE sub == a.subnets \cup {<<r, s, a.tenant[n]>>}
             con == [a.contracts EXCEPT ![n] = @ \cup {r}]
  <2>1. sub \in SUBSET (Routers \X Subnets \X Tenants)
    BY <1>1, AimFields
  <2>2. con \in [Networks -> SUBSET Routers]
    BY <1>0, AimFields
  <2>3. b = [a EXCEPT !.subnets = sub, !.contracts = con]
    BY AimFields DEF Attached, AimType
  <2> HIDE DEF sub, con, b
  <2>4. /\ b \in AimType /\ b.vrf = a.vrf /\ b.tenant = a.tenant /\ b.connected = a.connected /\ b.vrfs = a.vrfs
        /\ b.subnets = sub /\ b.contracts = con
    BY <2>1, <2>2, <2>3 DEF AimType
  <2> QED BY <2>4 DEF sub, con
<1> HIDE DEF b, i
<1>3. \A p \in ports2 : p \in ports \/ p = i
  OBVIOUS
<1>4. \A p \in ports : p \in ports2
  OBVIOUS
<1>5. i \in ports2
  OBVIOUS
<1> HIDE DEF ports2
<1>6. RoutersOn(n, ports2) = RoutersOn(n, ports) \cup {r}
  BY <1>0, <1>3, <1>4, <1>5 DEF RoutersOn, InterfacesOf, n
<1>7. \A m \in Networks : m # n => RoutersOn(m, ports2) = RoutersOn(m, ports)
  BY <1>0, <1>3, <1>4, <1>5 DEF RoutersOn, InterfacesOf
<1>8. b.subnets = {<<p[1], p[2], b.tenant[NetworkOf[p[2]]]>> : p \in ports2}
  <2> DEFINE t(p) == <<p[1], p[2], a.tenant[NetworkOf[p[2]]]>>
  <2>1. a.subnets = {t(p) : p \in ports} /\ t(i) = <<r, s, a.tenant[n]>>
    BY <1>0 DEF Kept
  <2> HIDE DEF t
  <2>2. b.subnets = {t(p) : p \in ports2}
    BY <1>2, <1>3, <1>4, <1>5, <2>1
  <2> QED BY <1>2, <2>2 DEF t
<1>9. ASSUME NEW m \in Networks PROVE b.contracts[m] = RoutersOn(m, ports2)
  <2>1. a.contracts[m] = RoutersOn(m, ports)
    BY DEF Kept
  <2>2. b.contracts[m] = IF m = n THEN a.contracts[m] \cup {r} ELSE a.contracts[m]
    BY <1>2, AimFields
  <2> QED BY <1>6, <1>7, <2>1, <2>2
<1>10. Kept(b, ports2)
  BY <1>2, <1>8, <1>9 DEF Kept
<1> QED
  BY <1>2, <1>10 DEF b, ports2, i

\* The subnet and the contracts of an interface go with it.
LEMMA DetachedIs ==
  ASSUME NEW a \in AimType, NEW ports \in SUBSET RouterPorts, Kept(a, ports),
         NEW r \in Routers, NEW s \in Subnets, <<r, s>> \in ports,
         NEW rest, rest = ports \ {<<r, s>>}
  PROVE  LET b == Detached(a, r, s, RoutersOn(NetworkOf[s], rest))
         IN /\ b \in AimType /\ b.vrf = a.vrf /\ b.connected = a.connected /\ b.vrfs = a.vrfs
            /\ Kept(b, rest)
<1> DEFINE n == NetworkOf[s]
           left == RoutersOn(n, rest)
           b == Detached(a, r, s, left)
           i == <<r, s>>
<1>0. n \in Networks /\ i[1] = r /\ i[2] = s /\ i \in ports
  BY TopologyAssumption
<1>2. /\ b \in AimType /\ b.vrf = a.vrf /\ b.tenant = a.tenant /\ b.connected = a.connected /\ b.vrfs = a.vrfs
      /\ b.subnets = a.subnets \ {<<r, s, a.tenant[n]>>}
      /\ b.contracts = [a.contracts EXCEPT ![n] = IF r \in left THEN @ ELSE @ \ {r}]
  BY <1>0, AimFields DEF Detached, AimType
<1> HIDE DEF b, left
<1>3. \A p \in ports : p \in rest \/ p = i
  OBVIOUS
<1>4. \A p \in rest : p \in ports /\ p # i
  OBVIOUS
<1>5. \A p \in ports : p = <<p[1], p[2]>>
  BY DEF RouterPorts
<1>6. RoutersOn(n, ports) = left \cup {r}
  BY <1>0, <1>3, <1>4 DEF RoutersOn, InterfacesOf, n, left
<1> HIDE DEF i
<1>7. \A m \in Networks : m # n => RoutersOn(m, ports) = RoutersOn(m, rest)
  BY <1>0, <1>3, <1>4 DEF RoutersOn, InterfacesOf
<1>8. b.subnets = {<<p[1], p[2], b.tenant[NetworkOf[p[2]]]>> : p \in rest}
  <2> DEFINE t(p) == <<p[1], p[2], a.tenant[NetworkOf[p[2]]]>>
  <2>1. a.subnets = {t(p) : p \in ports} /\ t(i) = <<r, s, a.tenant[n]>>
    BY <1>0 DEF Kept
  <2>2. \A p \in rest : t(p) # t(i)
    <3> SUFFICES ASSUME NEW p \in rest, t(p) = t(i) PROVE FALSE
      OBVIOUS
    <3>1. p[1] = i[1] /\ p[2] = i[2]
      OBVIOUS
    <3> QED BY <1>0, <1>4, <1>5, <3>1
  <2> HIDE DEF t
  <2>3. b.subnets = {t(p) : p \in rest}
    BY <1>2, <1>3, <1>4, <2>1, <2>2
  <2> QED BY <1>2, <2>3 DEF t
<1>9. ASSUME NEW m \in Networks PROVE b.contracts[m] = RoutersOn(m, rest)
  <2>1. a.contracts[m] = RoutersOn(m, ports)
    BY DEF Kept
  <2>2. b.contracts[m] = IF m = n /\ r \notin left THEN a.contracts[m] \ {r} ELSE a.contracts[m]
    BY <1>2, AimFields
  <2> QED BY <1>6, <1>7, <2>1, <2>2 DEF left
<1>10. Kept(b, rest)
  BY <1>2, <1>8, <1>9 DEF Kept
<1> QED
  BY <1>2, <1>10 DEF b, left

--------------------
(* A new interface *)

AllIn(nets, map, v) == \A x \in nets : map[x] = v

\* The topology of a network is in one VRF, the one it calls for; so is that of a router.
LEMMA NetworkWalkVrf ==
  ASSUME NEW ports \in SUBSET RouterPorts, NEW map, Placed(map, ports), Uniform(map, ports),
         NEW n \in Open(ports), NEW mine, IsWalk(mine, {n}, ports)
  PROVE  /\ mine \subseteq Open(ports)
         /\ AllIn(mine, map, TopologyVrf(mine, n))
<1>1. {n} \in SUBSET Open(ports) /\ n \in mine /\ mine \in SUBSET Networks /\ Walled(mine, ports)
  BY DEF IsWalk
<1>2. mine \subseteq Open(ports) /\ \A x \in mine : \E y \in {n} : map[x] = map[y]
  BY <1>1, WalkSame
<1>3. \A x \in mine : map[x] = map[n]
  BY <1>2
<1>4. TopologyVrf(mine, n) = map[n]
  BY <1>1, <1>2, <1>3, VrfOfTopology
<1> QED
  BY <1>2, <1>3, <1>4 DEF AllIn

\* So is that of a router.
LEMMA RouterWalkVrf ==
  ASSUME NEW ports \in SUBSET RouterPorts, NEW map, Placed(map, ports), Uniform(map, ports),
         NEW r, NEW theirs, IsWalk(theirs, ExpandForRouters({r}, ports), ports)
  PROVE  /\ theirs \subseteq Open(ports)
         /\ AllIn(theirs, map, RouterTopologyVrf(theirs))
<1> DEFINE from == ExpandForRouters({r}, ports)
           c == CHOOSE m \in theirs : TRUE
<1>1. \A x \in from : \E q \in ports : q[1] = r /\ Unscoped(q[2]) /\ x = NetworkOf[q[2]]
  BY DEF ExpandForRouters
<1>2. from \in SUBSET Open(ports)
  BY <1>1 DEF Open
<1>3. IsWalk(theirs, from, ports)
  OBVIOUS
<1>4. RouterTopologyVrf(theirs) = TopologyVrf(theirs, c)
  BY DEF RouterTopologyVrf
<1>5. \A x \in theirs : c \in theirs
  OBVIOUS
<1> HIDE DEF from, c
<1>6. theirs \subseteq Open(ports) /\ \A x \in theirs : \E y \in from : map[x] = map[y]
  BY <1>2, <1>3, WalkSame
<1>7. \A x, y \in from : map[x] = map[y]
  BY <1>1 DEF Uniform
<1>8. \A x, y \in theirs : map[x] = map[y]
  BY <1>6, <1>7
<1>9. theirs \in SUBSET Networks /\ Walled(theirs, ports)
  BY <1>3 DEF IsWalk
<1>10. ASSUME NEW x \in theirs PROVE map[x] = RouterTopologyVrf(theirs)
  <2>1. c \in theirs /\ \A y \in theirs : map[y] = map[c]
    BY <1>5, <1>8
  <2>2. TopologyVrf(theirs, c) = map[c]
    BY <1>6, <1>9, <2>1, VrfOfTopology
  <2> QED BY <1>4, <2>1, <2>2
<1> QED
  BY <1>6, <1>10 DEF AllIn

\* A choice that takes all of both topologies to the VRF that they call for.
Joins(c, n, mine, theirs, map) ==
  /\ CalledFor(c.vrf, mine \cup theirs, n)
  /\ c.moves \in SUBSET Networks
  /\ c.moves # {} => c.from \in DefaultVrfs /\ \A x \in c.moves : map[x] = c.from
  /\ \A x \in Networks : (IF x \in c.moves \/ (x = n /\ InterfacesOf(n, interfaces) = {})
                          THEN c.vrf ELSE map[x])
                         = IF x \in mine \cup theirs THEN c.vrf ELSE map[x]
  /\ c.ensure \in BOOLEAN /\ (~c.ensure => \E x \in Networks : map[x] = c.vrf /\ x \notin c.moves)

\* The choice of a VRF joins both topologies in the VRF that they call for.
LEMMA ChoiceJoins ==
  ASSUME TopologyConstants, scopeOf \in [Pools -> Scopes \cup {None}],
         interfaces \in SUBSET RouterPorts, NEW map, Placed(map, interfaces),
         NEW r, NEW n \in Networks, \A p \in InterfacesOf(n, interfaces) : Unscoped(p[2]),
         NEW mine, IsWalk(mine, {n}, interfaces),
         NEW theirs, IsWalk(theirs, ExpandForRouters({r}, interfaces), interfaces),
         NEW c \in ChoicesAmong(n, mine, theirs)
  PROVE  Joins(c, n, mine, theirs, map)
<1> DEFINE mineVrf == TopologyVrf(mine, n)
           theirVrf == RouterTopologyVrf(theirs)
           none == InterfacesOf(n, interfaces) = {}
           ports == interfaces
<1>0. Uniform(map, ports)
  BY PlacedIsUniform
<1>1. n \in mine /\ mine \in SUBSET Networks /\ theirs \in SUBSET Networks
  BY DEF IsWalk
<1>2. theirs \subseteq Open(ports) /\ \A x \in theirs : map[x] = theirVrf
  <2>1. theirs \subseteq Open(ports) /\ AllIn(theirs, map, theirVrf)
    BY <1>0, RouterWalkVrf
  <2> QED BY <2>1 DEF AllIn
<1>3. ~none => mine \subseteq Open(ports) /\ \A x \in mine : map[x] = mineVrf
  <2> SUFFICES ASSUME ~none PROVE mine \subseteq Open(ports) /\ \A x \in mine : map[x] = mineVrf
    OBVIOUS
  <2>1. n \in Open(ports)
    BY DEF Open, InterfacesOf
  <2>2. mine \subseteq Open(ports) /\ AllIn(mine, map, mineVrf)
    BY <1>0, <2>1, NetworkWalkVrf
  <2> QED BY <2>2 DEF AllIn
<1>4. none => mine = {n} /\ n \notin theirs
  <2> SUFFICES ASSUME none PROVE mine = {n} /\ n \notin theirs
    OBVIOUS
  <2>1. Walled({n}, ports)
    BY DEF Walled, InterfacesOf
  <2>2. mine \subseteq {n}
    BY <2>1 DEF IsWalk
  <2>3. n \notin Open(ports)
    BY DEF Open, InterfacesOf
  <2> QED BY <1>1, <1>2, <2>2, <2>3
<1>5. \A m \in Open(ports) \cap Shared : map[m] = DefaultVrf(Owner[m])
  BY DEF Placed
<1>6. \A m \in theirs \cap Shared : theirVrf = DefaultVrf(Owner[m])
  BY <1>2, <1>5
<1>7. \A m \in mine \cap Shared : mineVrf = DefaultVrf(Owner[m])
  <2>1. CASE none
    <3>1. mine = {n}
      BY <1>4, <2>1
    <3>2. mineVrf = DefaultVrf(Owner[n])
      <4>1. CASE {n} \cap Shared = {}
        BY <3>1, <4>1 DEF TopologyVrf
      <4>2. CASE {n} \cap Shared # {}
        <5>1. (CHOOSE m \in {n} \cap Shared : TRUE) \in {n} \cap Shared
          BY <4>2
        <5>2. (CHOOSE m \in {n} \cap Shared : TRUE) = n
          BY <5>1
        <5> QED BY <3>1, <4>2, <5>2 DEF TopologyVrf
      <4> QED BY <4>1, <4>2
    <3> QED BY <3>1, <3>2
  <2>2. CASE ~none
    BY <1>3, <1>5, <2>2
  <2> QED BY <2>1, <2>2
<1>8. mine \cap Shared = {} => mineVrf = DefaultVrf(Owner[n])
  BY DEF TopologyVrf
<1>9. theirs # {} => theirVrf \in DefaultVrfs
  <2> SUFFICES ASSUME NEW x \in theirs PROVE theirVrf \in DefaultVrfs
    OBVIOUS
  <2>1. PICK q \in ports : Unscoped(q[2]) /\ x = NetworkOf[q[2]]
    BY <1>2 DEF Open
  <2> QED BY <1>2, <2>1 DEF Placed
<1>10. mineVrf \in DefaultVrfs
  <2>1. CalledFor(mineVrf, mine, n)
    BY <1>7, <1>8 DEF CalledFor
  <2> QED BY <1>1, <2>1, FitsIsDefault
<1>11. c \in UnscopedChoices(n, mine, theirs, mineVrf, theirVrf)
  BY DEF ChoicesAmong
<1> HIDE DEF mineVrf, theirVrf, ports
<1>12. CASE theirs = {} \/ mineVrf = theirVrf
  <2>1. c.vrf = mineVrf /\ c.ensure = TRUE /\ c.moves = {}
    BY <1>11, <1>12 DEF UnscopedChoices, Choice
  <2>2. CalledFor(c.vrf, mine \cup theirs, n)
    BY <1>6, <1>7, <1>8, <1>12, <2>1 DEF CalledFor
  <2>3. \A x \in mine \cup theirs : map[x] = mineVrf \/ (x = n /\ none)
    BY <1>2, <1>3, <1>4, <1>12
  <2> QED BY <1>1, <2>1, <2>2, <2>3 DEF Joins
<1>13. CASE ~(theirs = {} \/ mineVrf = theirVrf) /\ mine \cap Shared # {}
  <2>1. c.vrf = mineVrf /\ c.ensure = TRUE /\ c.moves = theirs /\ c.from = theirVrf /\ theirs \cap Shared = {}
    BY <1>11, <1>13 DEF UnscopedChoices, Choice
  <2>2. CalledFor(c.vrf, mine \cup theirs, n)
    BY <1>7, <1>13, <2>1 DEF CalledFor
  <2>3. \A x \in mine : map[x] = mineVrf \/ (x = n /\ none)
    BY <1>3, <1>4
  <2> QED BY <1>1, <1>2, <1>9, <1>13, <2>1, <2>2, <2>3 DEF Joins
<1>14. CASE ~(theirs = {} \/ mineVrf = theirVrf) /\ mine \cap Shared = {}
  <2>1. c.vrf = theirVrf /\ c.ensure = FALSE /\ c.moves = (IF none THEN {} ELSE mine) /\ c.from = mineVrf
        /\ theirs \cap Shared # {}
    BY <1>11, <1>14 DEF UnscopedChoices, Choice
  <2>2. CalledFor(c.vrf, mine \cup theirs, n)
    BY <1>6, <1>14, <2>1 DEF CalledFor
  <2>3. mine \cap theirs = {}
    <3> SUFFICES ASSUME NEW x \in mine, x \in theirs PROVE FALSE
      OBVIOUS
    <3> QED BY <1>2, <1>3, <1>4, <1>14
  <2>4. \E x \in Networks : map[x] = c.vrf /\ x \notin c.moves
    BY <1>1, <1>2, <1>14, <2>1, <2>3
  <2> QED BY <1>1, <1>2, <1>3, <1>4, <1>10, <2>1, <2>2, <2>4 DEF Joins
<1> QED
  BY <1>12, <1>13, <1>14

\* What is kept of the networks and VRFs, for these interfaces.
Good(a, ports) ==
  /\ Permitted(ports) /\ Placed(a.vrf, ports) /\ Kept(a, ports) /\ VrfsKept(a)
  /\ Apart(a.vrf, ports) /\ OneIsShared(ports)

\* What a new interface does to AIM, with any choice of a VRF.
Eligible(c, n) ==
  /\ c.vrf \in DefaultVrfs \cup ScopeVrfs /\ c.moves \in SUBSET Networks
  /\ c.moves # {} => c.vrf \in DefaultVrfs /\ c.from \in DefaultVrfs
                     /\ \A x \in c.moves : aim.vrf[x] = c.from
  /\ c.ensure \in BOOLEAN
  /\ aim.vrf[n] # None
  /\ InterfacesOf(n, interfaces) = {} => aim.vrf[n] = UnroutedVrf

\* The VRFs afterwards, those of the networks and those that are kept,
Added(b, n, c) ==
  /\ \A x \in Networks : b.vrf[x] = IF x \in c.moves \/ (x = n /\ InterfacesOf(n, interfaces) = {})
                                   THEN c.vrf ELSE aim.vrf[x]
  /\ LET all == IF c.ensure THEN aim.vrfs \cup {c.vrf} ELSE aim.vrfs
     IN b.vrfs = IF c.moves = {} \/ \E x \in Networks :
                      (IF x \in c.moves THEN c.vrf ELSE aim.vrf[x]) = c.from
                 THEN all ELSE all \ {c.from}

\* and the contracts of the external networks.
Contracts(b, r, s, c) ==
  /\ gateway[r] = None => b.connected = aim.connected
  /\ c.moves = {} /\ gateway[r] # None =>
       \A v \in Vrfs, g \in ExtNets :
         b.connected[<<v, g>>] =
           IF g = gateway[r] /\ v = c.vrf /\ InterfacesInScope(r, ScopeOfSubnet(s), interfaces) = {}
           THEN {q \in RoutersForVrf(v, b.vrf, interfaces) : gateway[q] = gateway[r]} \cup {r}
           ELSE aim.connected[<<v, g>>]

\* The steps of _add_router_interface, one after the other.
LEMMA AddedAim ==
  ASSUME TopologyConstants, aim \in AimType, interfaces \in SUBSET RouterPorts,
         Kept(aim, interfaces), NEW r \in Routers, NEW s \in Subnets,
         NEW n, n = NetworkOf[s], NEW c, Eligible(c, n),
         NEW b, b = Connected(Attached(Taken(Joining(Ensured(aim, c), c), n, c.vrf), r, s), r, s, c)
  PROVE  /\ b \in AimType /\ Added(b, n, c)
         /\ Kept(b, interfaces \cup {<<r, s>>})
         /\ Contracts(b, r, s, c)
<1> DEFINE ports == interfaces
           none == InterfacesOf(n, interfaces) = {}
           a1 == Ensured(aim, c)
           a2 == Joining(a1, c)
           a3 == Taken(a2, n, c.vrf)
           a4 == Attached(a3, r, s)
           all == IF c.ensure THEN aim.vrfs \cup {c.vrf} ELSE aim.vrfs
           map2 == [x \in Networks |-> IF x \in c.moves THEN c.vrf ELSE aim.vrf[x]]
           map3 == [x \in Networks |-> IF x \in c.moves \/ (x = n /\ none) THEN c.vrf ELSE aim.vrf[x]]
           kept == IF c.moves = {} \/ \E x \in Networks : map2[x] = c.from THEN all ELSE all \ {c.from}
<1>0. c.vrf \in Vrfs \ {UnroutedVrf} /\ n \in Networks /\ None \notin Vrfs
  BY VrfFacts, TopologyAssumption DEF Eligible
<1>e. /\ c.moves \in SUBSET Networks
      /\ c.moves # {} => c.vrf \in DefaultVrfs /\ c.from \in DefaultVrfs
      /\ \A x \in c.moves : aim.vrf[x] = c.from
      /\ c.ensure \in BOOLEAN /\ aim.vrf[n] # None /\ (none => aim.vrf[n] = UnroutedVrf)
  BY DEF Eligible
<1>1. /\ a1 \in AimType /\ a1.vrf = aim.vrf /\ a1.connected = aim.connected
      /\ a1.vrfs = all /\ Kept(a1, ports)
  <2>1. CASE c.ensure
    <3>1. a1 = Ensure(aim, c.vrf)
      BY <2>1 DEF Ensured
    <3> QED BY <1>0, <2>1, <3>1, EnsureIs
  <2>2. CASE ~c.ensure
    <3>1. a1 = aim
      BY <2>2, <1>e DEF Ensured
    <3> QED BY <1>e, <2>2, <3>1
  <2> QED BY <2>1, <2>2
<1> HIDE DEF a1
<1>2. /\ a2 \in AimType /\ a2.vrf = map2 /\ a2.connected = aim.connected
      /\ a2.vrfs = kept /\ Kept(a2, ports)
  <2>1. CASE c.moves = {}
    <3>1. a2 = a1
      BY <2>1 DEF Joining
    <3>2. map2 = aim.vrf
      BY <2>1, AimFields
    <3> QED BY <1>1, <2>1, <3>1, <3>2
  <2>2. CASE c.moves # {}
    <3> DEFINE m == Move(a1, c.moves, c.from, c.vrf)
    <3>1. a2 = Cleanup(m, c.from)
      BY <2>2 DEF Joining
    <3>2. \A x \in c.moves : a1.vrf[x] \in {c.from, c.vrf}
      BY <1>1, <1>e, <2>2
    <3>3. /\ m \in AimType /\ m.vrf = [x \in Networks |-> IF x \in c.moves THEN c.vrf ELSE a1.vrf[x]]
          /\ m.connected = a1.connected /\ m.vrfs = a1.vrfs /\ Kept(m, ports)
      BY <1>1, <1>e, <2>2, <3>2, MoveIs
    <3>4. m.vrf = map2
      BY <1>1, <3>3
    <3> HIDE DEF m, map2
    <3>5. /\ a2 \in AimType /\ a2.vrf = m.vrf /\ a2.connected = m.connected /\ Kept(a2, ports)
          /\ a2.vrfs = IF InUse(c.from, m.vrf) THEN m.vrfs ELSE m.vrfs \ {c.from}
      <4>1. m \in AimType /\ Kept(m, ports)
        BY <3>3
      <4> DEFINE k == Cleanup(m, c.from)
      <4>2. /\ k \in AimType /\ k.vrf = m.vrf /\ k.connected = m.connected /\ Kept(k, ports)
            /\ k.vrfs = IF InUse(c.from, m.vrf) THEN m.vrfs ELSE m.vrfs \ {c.from}
        BY <4>1, CleanupIs
      <4> HIDE DEF k
      <4> QED BY <3>1, <4>2 DEF k
    <3> QED BY <1>1, <2>2, <3>3, <3>4, <3>5 DEF InUse
  <2> QED BY <2>1, <2>2
<1> HIDE DEF a2, kept
<1>3. /\ a3 \in AimType /\ a3.vrf = map3 /\ a3.connected = aim.connected
      /\ a3.vrfs = kept /\ Kept(a3, ports)
  <2>1. CASE ~none
    <3>1. a3 = a2
      BY <2>1 DEF Taken
    <3>2. map3 = map2
      BY <2>1
    <3> QED BY <1>2, <3>1, <3>2
  <2>2. CASE none
    <3>1. a3 = Associate(a2, n, c.vrf)
      BY <2>2 DEF Taken
    <3>2. n \notin c.moves
      <4>1. UnroutedVrf \notin DefaultVrfs
        BY VrfFacts
      <4> QED BY <1>e, <2>2, <4>1
    <3>3. a2.vrf[n] = UnroutedVrf
      BY <1>0, <1>2, <1>e, <2>2, <3>2
    <3>4. /\ a3 \in AimType /\ a3.vrf = [a2.vrf EXCEPT ![n] = c.vrf]
          /\ a3.connected = a2.connected /\ a3.vrfs = a2.vrfs /\ Kept(a3, ports)
      <4>1. InterfacesOf(n, ports) = {} /\ c.vrf \in Vrfs
        BY <1>0, <2>2
      <4> HIDE DEF map2
      <4>2. a2 \in AimType /\ Kept(a2, ports) /\ n \in Networks
        BY <1>0, <1>2
      <4> DEFINE k == Associate(a2, n, c.vrf)
      <4>3. /\ k \in AimType /\ k.vrf = [a2.vrf EXCEPT ![n] = c.vrf]
            /\ k.connected = a2.connected /\ k.vrfs = a2.vrfs /\ Kept(k, ports)
        BY <3>3, <4>1, <4>2, AssociateIs
      <4> HIDE DEF k
      <4> QED BY <3>1, <4>3 DEF k
    <3>5. map3 = [map2 EXCEPT ![n] = c.vrf]
      BY <1>0, <2>2
    <3> QED BY <1>2, <3>4, <3>5
  <2> QED BY <2>1, <2>2
<1>4. a3.vrf[n] \in Vrfs
  BY <1>0, <1>3, <1>e, AimFields
<1> HIDE DEF a3
<1>5. /\ a4 \in AimType /\ a4.vrf = map3 /\ a4.connected = aim.connected
      /\ a4.vrfs = kept /\ Kept(a4, interfaces \cup {<<r, s>>})
  BY <1>3, <1>4, AttachedIs
<1> HIDE DEF a4
<1>6. b = Connected(a4, r, s, c)
  BY DEF a1, a2, a3, a4
<1>7. /\ b \in AimType /\ b.vrf = a4.vrf /\ b.vrfs = a4.vrfs /\ Kept(b, interfaces \cup {<<r, s>>})
      /\ gateway[r] = None => b.connected = a4.connected
      /\ c.moves = {} /\ gateway[r] # None =>
           \A v \in Vrfs, g \in ExtNets :
             b.connected[<<v, g>>] =
               IF g = gateway[r] /\ v = c.vrf /\ InterfacesInScope(r, ScopeOfSubnet(s), interfaces) = {}
               THEN {q \in RoutersForVrf(v, a4.vrf, interfaces) : gateway[q] = gateway[r]} \cup {r}
               ELSE a4.connected[<<v, g>>]
  <2> DEFINE ports2 == interfaces \cup {<<r, s>>}
  <2> HIDE DEF ports2, map3, kept, map2
  <2>0. Kept(a4, ports2)
    BY <1>5 DEF ports2
  <2>s. {r} \in SUBSET Routers /\ {} \in SUBSET Routers
    OBVIOUS
  <2>1. CASE gateway[r] = None
    <3>1. b = a4
      BY <1>6, <2>1 DEF Connected
    <3> QED BY <1>5, <2>1, <3>1
  <2>2. CASE gateway[r] # None /\ InterfacesInScope(r, ScopeOfSubnet(s), interfaces) = {}
    <3>1. b = Connect(a4, {c.vrf}, gateway[r], interfaces, {r})
      BY <1>6, <2>2 DEF Connected
    <3>2. /\ b \in AimType /\ b.vrf = a4.vrf /\ b.vrfs = a4.vrfs
          /\ ConnectsTo(b, a4, {c.vrf}, gateway[r], interfaces, {r})
          /\ Kept(b, ports2)
      BY <1>5, <2>0, <2>s, <3>1, ConnectIs
    <3> QED BY <2>2, <3>2 DEF ports2, ConnectsTo
  <2>3. CASE gateway[r] # None /\ InterfacesInScope(r, ScopeOfSubnet(s), interfaces) # {}
             /\ c.moves # {} /\ n \notin c.moves
    <3> DEFINE d == Connect(a4, {c.from}, gateway[r], interfaces, {})
    <3>1. b = Connect(d, {c.vrf}, gateway[r], interfaces, {r})
      BY <1>6, <2>3 DEF Connected
    <3>2. /\ d \in AimType /\ d.vrf = a4.vrf /\ d.vrfs = a4.vrfs /\ Kept(d, ports2)
      <4>1. a4 \in AimType
        BY <1>5
      <4> QED BY <2>0, <2>s, <4>1, ConnectIs, SMTT(30)
    <3> HIDE DEF d
    <3>3. /\ b \in AimType /\ b.vrf = d.vrf /\ b.vrfs = d.vrfs /\ Kept(b, ports2)
      BY <2>s, <3>1, <3>2, ConnectIs
    <3> QED BY <2>3, <3>2, <3>3 DEF ports2
  <2>4. CASE gateway[r] # None /\ InterfacesInScope(r, ScopeOfSubnet(s), interfaces) # {}
             /\ ~(c.moves # {} /\ n \notin c.moves)
    <3>1. b = a4
      BY <1>6, <2>4 DEF Connected
    <3> QED BY <1>5, <2>4, <3>1
  <2> QED BY <2>1, <2>2, <2>3, <2>4
<1>8. b.vrf = map3 /\ b.vrfs = kept
  BY <1>5, <1>7
<1>9. \A x \in Networks : b.vrf[x] = IF x \in c.moves \/ (x = n /\ none) THEN c.vrf ELSE aim.vrf[x]
  BY <1>8
<1>10. b.vrfs = IF c.moves = {} \/ \E x \in Networks :
                             (IF x \in c.moves THEN c.vrf ELSE aim.vrf[x]) = c.from
                        THEN all ELSE all \ {c.from}
  BY <1>8 DEF kept
<1>11. b.connected = a4.connected => b.connected = aim.connected
  BY <1>5
<1> HIDE DEF map3, map2, all
<1>12. Added(b, n, c)
  BY <1>9, <1>10 DEF Added, all
<1>13. Contracts(b, r, s, c)
  BY <1>5, <1>7, <1>11 DEF Contracts
<1> QED
  BY <1>7, <1>12, <1>13

\* Any interface that can be added is like the others of its network.
LEMMA AddedAlike ==
  ASSUME TopologyConstants, scopeOf \in [Pools -> Scopes \cup {None}],
         interfaces \in SUBSET RouterPorts, NEW map, Placed(map, interfaces), OneIsShared(interfaces),
         NEW r \in Routers, NEW s \in Subnets, NEW n, n = NetworkOf[s],
         InterfaceSupported(r, s, InterfacesOf(n, interfaces))
  PROVE  /\ OneIsShared(interfaces \cup {<<r, s>>})
         /\ Unscoped(s) => \A p \in InterfacesOf(n, interfaces) : Unscoped(p[2])
         /\ ~Unscoped(s) => \A p \in InterfacesOf(n, interfaces) :
                              ~Unscoped(p[2]) /\ ScopeVrf[ScopeOfSubnet(p[2])] = ScopeVrf[ScopeOfSubnet(s)]
<1> DEFINE on == InterfacesOf(n, interfaces)
<1>1. on \in SUBSET RouterPorts
  BY DEF InterfacesOf
<1>2. (\A p, q \in on : p[1] = q[1]) \/ (\A p, q \in on : p[2] = q[2])
  BY SharedOf
<1>3. Uniform(map, interfaces)
  BY PlacedIsUniform
<1>4. \A p, q \in on : Unscoped(p[2]) <=> Unscoped(q[2])
  BY <1>3 DEF Uniform, InterfacesOf
<1>5. \A p, q \in on : ~Unscoped(p[2]) /\ ~Unscoped(q[2]) =>
        ScopeVrf[ScopeOfSubnet(p[2])] = ScopeVrf[ScopeOfSubnet(q[2])]
  BY DEF Placed, InterfacesOf
<1>6. IsFiniteSet(Subnets) /\ IsFiniteSet(Routers)
  BY DEF TopologyConstants
<1>7. /\ (\A p \in on : p[1] = r) \/ (\A p \in on : p[2] = s)
      /\ on # {} => \E p \in on :
           \/ ScopeOfSubnet(p[2]) = ScopeOfSubnet(s)
           \/ /\ ~Unscoped(p[2]) /\ ~Unscoped(s)
              /\ ScopeVrf[ScopeOfSubnet(p[2])] = ScopeVrf[ScopeOfSubnet(s)]
  <2> HIDE DEF on
  <2>1. InterfaceSupported(r, s, on)
    BY DEF on
  <2> QED BY <1>1, <1>2, <1>6, <2>1, SupportedShares
<1>8. OneIsShared(interfaces \cup {<<r, s>>})
  BY <1>7, OneMoreShares
<1>9. on # {} => \E p \in on : /\ Unscoped(p[2]) <=> Unscoped(s)
                               /\ ~Unscoped(s) => ScopeVrf[ScopeOfSubnet(p[2])] = ScopeVrf[ScopeOfSubnet(s)]
  BY <1>7 DEF Unscoped
<1> HIDE DEF on
<1>10. Unscoped(s) => \A p \in on : Unscoped(p[2])
  BY <1>4, <1>9
<1>11. ~Unscoped(s) => \A p \in on :
         ~Unscoped(p[2]) /\ ScopeVrf[ScopeOfSubnet(p[2])] = ScopeVrf[ScopeOfSubnet(s)]
  BY <1>4, <1>5, <1>9
<1> QED
  BY <1>8, <1>10, <1>11 DEF on

\* The VRFs kept are those in use, with those of the scopes.
LEMMA AddedVrfs ==
  ASSUME TopologyConstants, scopes \subseteq Scopes, VrfsKept(aim), NEW n \in Networks, NEW c, Eligible(c, n),
         NEW b, Added(b, n, c), c.vrf \in DefaultVrfs => b.vrf[n] = c.vrf,
         c.vrf \in DefaultVrfs => c.ensure \/ \E x \in Networks : aim.vrf[x] = c.vrf /\ x \notin c.moves,
         c.vrf \notin DefaultVrfs => ~c.ensure
  PROVE  VrfsKept(b)
<1>1. UnroutedVrf \notin DefaultVrfs /\ DefaultVrfs \cap ScopeVrfs = {} /\ (\A x \in Scoped : x \in ScopeVrfs)
  BY VrfFacts DEF Scoped
<1>2. /\ c.vrf \in DefaultVrfs \cup ScopeVrfs /\ c.moves \in SUBSET Networks
      /\ c.moves # {} => c.vrf \in DefaultVrfs /\ c.from \in DefaultVrfs
      /\ \A x \in c.moves : aim.vrf[x] = c.from
      /\ InterfacesOf(n, interfaces) = {} => aim.vrf[n] = UnroutedVrf
  BY DEF Eligible
<1> DEFINE none == InterfacesOf(n, interfaces) = {}
           all == IF c.ensure THEN aim.vrfs \cup {c.vrf} ELSE aim.vrfs
           gone == c.moves # {} /\ ~\E x \in Networks : (IF x \in c.moves THEN c.vrf ELSE aim.vrf[x]) = c.from
<1>3. \A x \in Networks : b.vrf[x] = IF x \in c.moves \/ (x = n /\ none) THEN c.vrf ELSE aim.vrf[x]
  BY DEF Added
<1>4. b.vrfs = IF gone THEN all \ {c.from} ELSE all
  BY DEF Added
<1>5. aim.vrfs = Used(aim.vrf) \cup Scoped
  BY DEF VrfsKept, Used, Scoped
<1>6. \A v : v \in Used(aim.vrf) <=> v \in DefaultVrfs /\ \E x \in Networks : aim.vrf[x] = v
  BY DEF Used
<1>7. \A v : v \in Used(b.vrf) <=> v \in DefaultVrfs /\ \E x \in Networks : b.vrf[x] = v
  BY DEF Used
<1>8. c.vrf \in DefaultVrfs => c.vrf \in all /\ ~(gone /\ c.vrf = c.from)
  <2> SUFFICES ASSUME c.vrf \in DefaultVrfs PROVE c.vrf \in all /\ ~(gone /\ c.vrf = c.from)
    OBVIOUS
  <2>1. CASE c.ensure
    BY <1>2, <2>1
  <2>2. CASE ~c.ensure
    <3>1. PICK x \in Networks : aim.vrf[x] = c.vrf /\ x \notin c.moves
      BY <2>2
    <3> QED BY <1>2, <1>5, <1>6, <2>2, <3>1
  <2> QED BY <2>1, <2>2
<1>9. ASSUME NEW v \in DefaultVrfs, v # c.vrf
      PROVE  v \in Used(b.vrf) <=> v \in b.vrfs
  <2>1. v \in Used(b.vrf) <=> \E x \in Networks : x \notin c.moves /\ ~(x = n /\ none) /\ aim.vrf[x] = v
    BY <1>3, <1>7, <1>9
  <2>2. v \in Used(b.vrf) <=> \E x \in Networks : x \notin c.moves /\ aim.vrf[x] = v
    BY <1>1, <1>2, <2>1
  <2>3. v \in all <=> \E x \in Networks : aim.vrf[x] = v
    BY <1>1, <1>5, <1>6, <1>9
  <2>4. CASE c.moves # {} /\ v = c.from
    <3>1. gone <=> ~\E x \in Networks : x \notin c.moves /\ aim.vrf[x] = v
      BY <1>9, <2>4
    <3>2. v \in b.vrfs <=> v \in all /\ ~gone
      BY <1>4, <2>4
    <3> HIDE DEF gone, all
    <3> QED BY <2>2, <2>3, <3>1, <3>2
  <2>5. CASE ~(c.moves # {} /\ v = c.from)
    <3>1. \A x \in Networks : aim.vrf[x] = v => x \notin c.moves
      BY <1>2, <2>5
    <3>2. v \in b.vrfs <=> v \in all
      BY <1>4, <2>5
    <3> HIDE DEF gone, all
    <3> QED BY <2>2, <2>3, <3>1, <3>2
  <2> QED BY <2>4, <2>5
<1>10. c.vrf \in DefaultVrfs => c.vrf \in Used(b.vrf) /\ c.vrf \in b.vrfs
  <2>1. c.vrf \in DefaultVrfs => c.vrf \in Used(b.vrf)
    BY <1>7
  <2> HIDE DEF gone, all
  <2> QED BY <1>4, <1>8, <2>1
<1>11. ASSUME NEW v, v \notin DefaultVrfs PROVE v \in b.vrfs <=> v \in Scoped
  <2>1. v \in all <=> v \in Scoped
    BY <1>5, <1>6, <1>11
  <2>2. gone => c.from \in DefaultVrfs
    BY <1>2
  <2> HIDE DEF gone, all
  <2> QED BY <1>4, <1>11, <2>1, <2>2
<1>12. ASSUME NEW v PROVE v \in b.vrfs <=> v \in Used(b.vrf) \cup Scoped
  <2>1. CASE v \in DefaultVrfs
    BY <1>1, <1>9, <1>10, <2>1
  <2>2. CASE v \notin DefaultVrfs
    BY <1>7, <1>11, <2>2
  <2> QED BY <2>1, <2>2
<1>13. b.vrfs = Used(b.vrf) \cup Scoped
  BY <1>12
<1> QED
  BY <1>13 DEF VrfsKept, Used, Scoped

\* No other default VRF gets subnets.
LEMMA AddedApart ==
  ASSUME TopologyConstants, interfaces \in SUBSET RouterPorts, Apart(aim.vrf, interfaces),
         NEW r \in Routers, NEW s \in Subnets, NEW n, n = NetworkOf[s], NEW c, NEW b, Added(b, n, c),
         b.vrf[n] = c.vrf,
         c.vrf \in DefaultVrfs => ~OverlapIn(c.vrf, b.vrf, interfaces, {s})
  PROVE  Apart(b.vrf, interfaces \cup {<<r, s>>})
<1> DEFINE i == <<r, s>>
           ports2 == interfaces \cup {i}
<1>0. i[1] = r /\ i[2] = s
  OBVIOUS
<1>1. \A p \in interfaces : NetworkOf[p[2]] \in Networks
  BY TopologyAssumption DEF RouterPorts
<1>2. \A x \in Networks : b.vrf[x] = IF x \in c.moves \/ (x = n /\ InterfacesOf(n, interfaces) = {})
                                     THEN c.vrf ELSE aim.vrf[x]
  BY DEF Added
<1>3. ASSUME NEW v \in DefaultVrfs PROVE ~OverlapIn(v, b.vrf, ports2, {})
  <2>1. CASE v = c.vrf
    BY <2>1, <1>3, GuardedApart
  <2>2. CASE v # c.vrf
    <3>1. ~OverlapIn(v, aim.vrf, interfaces, {})
      BY DEF Apart
    <3> HIDE DEF i
    <3>2. \A p \in ports2 : b.vrf[NetworkOf[p[2]]] = v => p \in interfaces /\ aim.vrf[NetworkOf[p[2]]] = v
      <4> SUFFICES ASSUME NEW p \in ports2, b.vrf[NetworkOf[p[2]]] = v
                   PROVE  p \in interfaces /\ aim.vrf[NetworkOf[p[2]]] = v
        OBVIOUS
      <4>1. p # i
        BY <1>0, <2>2
      <4>2. p \in interfaces
        BY <4>1
      <4> QED BY <1>1, <1>2, <2>2, <4>2
    <3> HIDE DEF ports2
    <3> QED BY <3>1, <3>2, FewerApart
  <2> QED BY <2>1, <2>2
<1> QED
  BY <1>3 DEF Apart

\* An interface in a scope.
LEMMA AddedScopedGood ==
  ASSUME TopologyConstants, scopes \subseteq Scopes, scopeOf \in [Pools -> Scopes \cup {None}],
         interfaces \in SUBSET RouterPorts, aim \in AimType, Good(aim, interfaces),
         NEW r \in Routers, NEW s \in Subnets, NEW n, n = NetworkOf[s], ~Unscoped(s),
         aim.vrf[n] # None,
         \A p \in InterfacesOf(n, interfaces) :
           ~Unscoped(p[2]) /\ ScopeVrf[ScopeOfSubnet(p[2])] = ScopeVrf[ScopeOfSubnet(s)],
         NEW c \in Choices(r, s),
         NEW b, Eligible(c, n) => Added(b, n, c)
  PROVE  /\ Eligible(c, n) /\ Placed(b.vrf, interfaces \cup {<<r, s>>}) /\ VrfsKept(b)
         /\ Apart(b.vrf, interfaces \cup {<<r, s>>})
<1>1. c = Choice(ScopeVrf[ScopeOfSubnet(s)], FALSE, {}, None)
  BY DEF Choices
<1>2. c.vrf = ScopeVrf[ScopeOfSubnet(s)] /\ c.ensure = FALSE /\ c.moves = {}
  BY <1>1 DEF Choice
<1>3. ScopeOfSubnet(s) \in Scopes
  BY TopologyAssumption DEF Unscoped, ScopeOfSubnet
<1>4. c.vrf \in ScopeVrfs /\ c.vrf \notin DefaultVrfs /\ n \in Networks
  BY <1>2, <1>3, VrfFacts, TopologyAssumption
<1>5. InterfacesOf(n, interfaces) = {} => aim.vrf[n] = UnroutedVrf
  BY <1>4 DEF Good, Placed
<1>6. Eligible(c, n)
  BY <1>2, <1>4, <1>5 DEF Eligible
<1>7. Added(b, n, c)
  BY <1>6
<1>8. \A x \in Networks : b.vrf[x] = IF x = n /\ InterfacesOf(n, interfaces) = {} THEN c.vrf ELSE aim.vrf[x]
  BY <1>2, <1>7 DEF Added
<1>9. InterfacesOf(n, interfaces) # {} => aim.vrf[n] = c.vrf
  <2> SUFFICES ASSUME NEW p \in InterfacesOf(n, interfaces) PROVE aim.vrf[n] = c.vrf
    OBVIOUS
  <2>1. p \in interfaces /\ NetworkOf[p[2]] = n /\ ~Unscoped(p[2])
        /\ ScopeVrf[ScopeOfSubnet(p[2])] = ScopeVrf[ScopeOfSubnet(s)]
    BY DEF InterfacesOf
  <2> QED BY <1>2, <2>1 DEF Good, Placed
<1>10. \A x \in Networks : b.vrf[x] = IF x = n THEN ScopeVrf[ScopeOfSubnet(s)] ELSE aim.vrf[x]
  BY <1>2, <1>8, <1>9
<1>11. Placed(aim.vrf, interfaces)
  BY DEF Good
<1>12. Placed(b.vrf, interfaces \cup {<<r, s>>})
  BY <1>10, <1>11, AddScopedPlaced
<1>13. VrfsKept(b)
  BY <1>2, <1>4, <1>6, <1>7, AddedVrfs DEF Good
<1>14. b.vrf[n] = c.vrf
  BY <1>2, <1>4, <1>10
<1>15. Apart(b.vrf, interfaces \cup {<<r, s>>})
  BY <1>4, <1>7, <1>14, AddedApart DEF Good
<1> QED
  BY <1>6, <1>12, <1>13, <1>15

\* An interface that joins the topologies of its network and of its router.
LEMMA AddedUnscopedGood ==
  ASSUME TopologyConstants, scopes \subseteq Scopes, scopeOf \in [Pools -> Scopes \cup {None}],
         interfaces \in SUBSET RouterPorts, aim \in AimType, Good(aim, interfaces),
         NEW r \in Routers, NEW s \in Subnets, NEW n, n = NetworkOf[s], Unscoped(s),
         aim.vrf[n] # None, Owner[n] = Owner[r] \/ n \in Shared,
         \A p \in InterfacesOf(n, interfaces) : Unscoped(p[2]),
         NEW c \in Choices(r, s),
         NEW b, Eligible(c, n) => Added(b, n, c), ~OverlapIn(c.vrf, b.vrf, interfaces, {s})
  PROVE  /\ Eligible(c, n) /\ Placed(b.vrf, interfaces \cup {<<r, s>>}) /\ VrfsKept(b)
         /\ Apart(b.vrf, interfaces \cup {<<r, s>>})
<1> DEFINE mine == NetworkTopology(n, interfaces)
           theirs == RouterTopology(r, interfaces)
<1>0. n \in Networks
  BY TopologyAssumption
<1>1. c \in ChoicesAmong(n, mine, theirs)
  BY DEF Choices
<1>2. IsWalk(mine, {n}, interfaces) /\ IsWalk(theirs, ExpandForRouters({r}, interfaces), interfaces)
  BY <1>0, WalksEnd
<1> HIDE DEF mine, theirs
<1>3. Placed(aim.vrf, interfaces) /\ Permitted(interfaces)
  BY DEF Good
<1>4. Joins(c, n, mine, theirs, aim.vrf)
  BY <1>0, <1>1, <1>2, <1>3, ChoiceJoins
<1>5. n \in mine /\ mine \in SUBSET Networks /\ theirs \in SUBSET Networks
  BY <1>2 DEF IsWalk
<1>6. c.vrf \in DefaultVrfs
  <2>1. CalledFor(c.vrf, mine \cup theirs, n)
    BY <1>4 DEF Joins
  <2> QED BY <1>0, <1>5, <2>1, FitsIsDefault
<1>7. InterfacesOf(n, interfaces) = {} => aim.vrf[n] = UnroutedVrf
  BY <1>0 DEF Good, Placed
<1>8. Eligible(c, n)
  BY <1>4, <1>6, <1>7 DEF Eligible, Joins
<1>9. Added(b, n, c)
  BY <1>8
<1>10. \A x \in Networks : b.vrf[x] = IF x \in mine \cup theirs THEN c.vrf ELSE aim.vrf[x]
  BY <1>4, <1>9 DEF Added, Joins
<1>11. b.vrf[n] = c.vrf
  BY <1>0, <1>5, <1>10
<1>12. Placed(b.vrf, interfaces \cup {<<r, s>>})
  <2>1. CalledFor(c.vrf, mine \cup theirs, n)
    BY <1>4 DEF Joins
  <2>2. MovedTo(b.vrf, aim.vrf, mine \cup theirs, c.vrf)
    BY <1>10 DEF MovedTo
  <2> QED BY <1>2, <1>3, <2>1, <2>2, AddPlaced
<1>13. VrfsKept(b)
  <2>1. c.ensure \/ \E x \in Networks : aim.vrf[x] = c.vrf /\ x \notin c.moves
    BY <1>4 DEF Joins
  <2> QED BY <1>0, <1>6, <1>8, <1>9, <1>11, <2>1, AddedVrfs DEF Good
<1>14. Apart(b.vrf, interfaces \cup {<<r, s>>})
  BY <1>9, <1>11, AddedApart DEF Good
<1> QED
  BY <1>8, <1>12, <1>13, <1>14

\* A new interface, with a scope or without.
LEMMA AddedGood ==
  ASSUME TopologyConstants, scopes \subseteq Scopes, scopeOf \in [Pools -> Scopes \cup {None}],
         interfaces \in SUBSET RouterPorts, aim \in AimType, Good(aim, interfaces),
         NEW r \in Routers, NEW s \in Subnets, Usable(r, s),
         InterfaceSupported(r, s, InterfacesOf(NetworkOf[s], interfaces)),
         NEW c \in Choices(r, s),
         NEW b, b = Connected(Attached(Taken(Joining(Ensured(aim, c), c), NetworkOf[s], c.vrf), r, s), r, s, c),
         Unscoped(s) => ~OverlapIn(c.vrf, b.vrf, interfaces, {s})
  PROVE  /\ b \in AimType /\ Good(b, interfaces \cup {<<r, s>>})
         /\ Eligible(c, NetworkOf[s]) /\ Added(b, NetworkOf[s], c) /\ Contracts(b, r, s, c)
<1> DEFINE n == NetworkOf[s]
           ports2 == interfaces \cup {<<r, s>>}
<1>1. n \in Networks /\ aim.vrf[n] # None /\ (Owner[n] = Owner[r] \/ n \in Shared)
  BY TopologyAssumption DEF Usable
<1>2. /\ OneIsShared(ports2)
      /\ Unscoped(s) => \A p \in InterfacesOf(n, interfaces) : Unscoped(p[2])
      /\ ~Unscoped(s) => \A p \in InterfacesOf(n, interfaces) :
                           ~Unscoped(p[2]) /\ ScopeVrf[ScopeOfSubnet(p[2])] = ScopeVrf[ScopeOfSubnet(s)]
  BY AddedAlike DEF Good
<1>3. Permitted(ports2)
  <2> DEFINE i == <<r, s>>
  <2>1. i[1] = r /\ i[2] = s /\ \A p \in ports2 : p \in interfaces \/ p = i
    OBVIOUS
  <2> HIDE DEF i, ports2
  <2> QED BY <1>1, <2>1 DEF Permitted, Good
<1>4. Eligible(c, n) => b \in AimType /\ Added(b, n, c) /\ Kept(b, ports2) /\ Contracts(b, r, s, c)
  BY AddedAim DEF Good
<1>5. Eligible(c, n) /\ Placed(b.vrf, ports2) /\ VrfsKept(b) /\ Apart(b.vrf, ports2)
  <2>1. Eligible(c, n) => Added(b, n, c)
    BY <1>4
  <2>2. CASE Unscoped(s)
    BY <1>1, <1>2, <2>1, <2>2, AddedUnscopedGood
  <2>3. CASE ~Unscoped(s)
    BY <1>1, <1>2, <2>1, <2>3, AddedScopedGood
  <2> QED BY <2>2, <2>3
<1> HIDE DEF n, ports2
<1>6. Good(b, ports2)
  BY <1>2, <1>3, <1>4, <1>5 DEF Good
<1> QED
  BY <1>4, <1>5, <1>6 DEF n, ports2

--------------------
(* An interface is removed *)

\* Two parts of a topology, and the VRFs they go to.
Parts(mine, theirs, n, left, old, v1, v2) ==
  /\ mine \in SUBSET Networks /\ theirs \in SUBSET Networks
  /\ \A x \in mine \cup theirs : aim.vrf[x] = old
  /\ v1 # old => v1 \in DefaultVrfs /\ old \in DefaultVrfs
  /\ v2 # old => v2 \in DefaultVrfs /\ old \in DefaultVrfs
  /\ mine \cap theirs # {} => v1 = v2
  /\ left = {} => v1 = old /\ n \notin theirs

\* The VRFs afterwards.
SplitInto(b, n, s, mine, theirs, left, old, v1, v2) ==
  /\ \A x \in Networks : b.vrf[x] = IF x = n /\ left = {} THEN UnroutedVrf
                                   ELSE IF x \in theirs THEN v2
                                   ELSE IF x \in mine THEN v1 ELSE aim.vrf[x]
  /\ LET all == aim.vrfs \cup ({v1, v2} \ {old})
     IN b.vrfs = IF left = {} /\ Unscoped(s) /\ ~InUse(old, b.vrf) THEN all \ {old} ELSE all

\* The networks that a removal leaves without interfaces.
Gone(n, left) == IF left = {} THEN {n} ELSE {}

\* VRFs are ensured, or cleaned up.
Adds(all2, all, v, old) == all2 = all \cup ({v} \ {old})
Drops(b, all, s, old, left) ==
  b.vrfs = IF left = {} /\ Unscoped(s) /\ ~InUse(old, b.vrf) THEN all \ {old} ELSE all

Leaves(map, n, left, old) == left = {} => map[n] = old

Between(nets, map, old, v) == \A x \in nets : map[x] \in {old, v}

\* A part that may stay where it is.
LEMMA MovedIs ==
  ASSUME TopologyConstants, NEW a \in AimType, NEW ports \in SUBSET RouterPorts, Kept(a, ports),
         NEW nets \in SUBSET Networks, NEW old, NEW v, v # old => v \in DefaultVrfs /\ old \in DefaultVrfs,
         Between(nets, a.vrf, old, v), NEW b, b = Moved(a, nets, old, v)
  PROVE  /\ b \in AimType /\ Kept(b, ports) /\ b.connected = a.connected
         /\ MovedTo(b.vrf, a.vrf, nets, v) /\ Adds(b.vrfs, a.vrfs, v, old)
<1> DEFINE map == [x \in Networks |-> IF x \in nets THEN v ELSE a.vrf[x]]
<1>1. CASE v = old
  <2>1. b = a
    BY <1>1 DEF Moved
  <2>2. map = a.vrf
    BY <1>1, AimFields DEF Between
  <2> QED BY <1>1, <2>1, <2>2 DEF MovedTo, Adds
<1>2. CASE v # old
  <2> DEFINE e == Ensure(a, v)
             m == Move(e, nets, old, v)
  <2>1. b = m
    BY <1>2 DEF Moved
  <2>2. v \in Vrfs \ {UnroutedVrf} /\ v \in DefaultVrfs /\ old \in DefaultVrfs
    BY <1>2, VrfFacts
  <2>3. /\ e \in AimType /\ e.vrf = a.vrf /\ e.connected = a.connected /\ e.vrfs = a.vrfs \cup {v}
        /\ Kept(e, ports)
    BY <2>2, EnsureIs
  <2> HIDE DEF e, map
  <2>4. \A x \in nets : e.vrf[x] \in {old, v}
    BY <2>3 DEF Between
  <2>5. /\ m \in AimType /\ m.vrf = [x \in Networks |-> IF x \in nets THEN v ELSE e.vrf[x]]
        /\ m.connected = e.connected /\ m.vrfs = e.vrfs /\ Kept(m, ports)
    BY <2>2, <2>3, <2>4, MoveIs
  <2> HIDE DEF m
  <2>6. m.vrf = map
    BY <2>3, <2>5 DEF map
  <2>7. /\ b \in AimType /\ Kept(b, ports) /\ b.connected = a.connected
        /\ b.vrf = map /\ b.vrfs = a.vrfs \cup ({v} \ {old})
    BY <1>2, <2>1, <2>3, <2>5, <2>6
  <2> QED BY <2>7 DEF MovedTo, Adds, map, Gone
<1> QED
  BY <1>1, <1>2

\* The contracts of the external networks afterwards.
Parted(b, r, s, old, v2, ports) ==
  /\ gateway[r] = None => b.connected = aim.connected
  /\ gateway[r] # None /\ v2 = old =>
       \A v \in Vrfs, g \in ExtNets :
         b.connected[<<v, g>>] =
           IF g = gateway[r] /\ v = old /\ InterfacesInScope(r, ScopeOfSubnet(s), ports) = {}
           THEN {q \in RoutersForVrf(v, b.vrf, ports) : gateway[q] = gateway[r]}
           ELSE aim.connected[<<v, g>>]

\* The external network of a router whose interface is removed.
LEMMA DisconnectedIs ==
  ASSUME NEW a \in AimType, a.connected = aim.connected, NEW ports \in SUBSET RouterPorts, Kept(a, ports),
         NEW r \in Routers, NEW s, NEW old, NEW v,
         NEW b, b = Disconnected(a, r, s, old, v, ports)
  PROVE  /\ b \in AimType /\ b.vrf = a.vrf /\ b.vrfs = a.vrfs /\ Kept(b, ports)
         /\ Parted(b, r, s, old, v, ports)
<1>0. {r} \in SUBSET Routers /\ {} \in SUBSET Routers
  OBVIOUS
<1>1. CASE gateway[r] = None
  <2>1. b = a
    BY <1>1 DEF Disconnected
  <2> QED BY <1>1, <2>1 DEF Parted
<1>2. CASE gateway[r] # None /\ InterfacesInScope(r, ScopeOfSubnet(s), ports) = {}
  <2>1. b = Connect(a, {old}, gateway[r], ports, {})
    BY <1>2 DEF Disconnected
  <2>2. /\ b \in AimType /\ b.vrf = a.vrf /\ b.vrfs = a.vrfs /\ Kept(b, ports)
        /\ ConnectsTo(b, a, {old}, gateway[r], ports, {})
    BY <1>0, <2>1, ConnectIs
  <2>3. Parted(b, r, s, old, v, ports)
    BY <1>2, <2>2 DEF Parted, ConnectsTo
  <2> QED BY <2>2, <2>3
<1>3. CASE gateway[r] # None /\ InterfacesInScope(r, ScopeOfSubnet(s), ports) # {} /\ v # old
  <2> DEFINE d == Connect(a, {old}, gateway[r], ports, {})
  <2>1. b = Connect(d, {v}, gateway[r], ports, {r})
    BY <1>3 DEF Disconnected
  <2>2. d \in AimType /\ d.vrf = a.vrf /\ d.vrfs = a.vrfs /\ Kept(d, ports)
    BY <1>0, ConnectIs
  <2> HIDE DEF d
  <2>3. b \in AimType /\ b.vrf = d.vrf /\ b.vrfs = d.vrfs /\ Kept(b, ports)
    BY <1>0, <2>1, <2>2, ConnectIs
  <2>4. Parted(b, r, s, old, v, ports)
    BY <1>3 DEF Parted
  <2> QED BY <2>2, <2>3, <2>4
<1>4. CASE gateway[r] # None /\ InterfacesInScope(r, ScopeOfSubnet(s), ports) # {} /\ v = old
  <2>1. b = a
    BY <1>4 DEF Disconnected
  <2> QED BY <1>4, <2>1 DEF Parted
<1> QED
  BY <1>1, <1>2, <1>3, <1>4

\* A network goes when it has no interfaces left.
LEMMA ReleasedIs ==
  ASSUME TopologyConstants, NEW a \in AimType, NEW ports \in SUBSET RouterPorts, Kept(a, ports),
         NEW s \in Subnets, NEW n, n = NetworkOf[s], NEW left, left = RoutersOn(n, ports),
         NEW old \in Vrfs, Leaves(a.vrf, n, left, old),
         NEW b, b = Released(a, s, old, left)
  PROVE  /\ b \in AimType /\ Kept(b, ports) /\ b.connected = a.connected
         /\ MovedTo(b.vrf, a.vrf, Gone(n, left), UnroutedVrf)
         /\ Drops(b, a.vrfs, s, old, left)
<1> DEFINE map == [x \in Networks |-> IF x = n /\ left = {} THEN UnroutedVrf ELSE a.vrf[x]]
           d == Dissociate(a, n, old)
<1>0. n \in Networks /\ (left = {} => a.vrf[n] = old)
  BY TopologyAssumption DEF Leaves
<1>1. CASE left # {}
  <2>1. b = a
    BY <1>1 DEF Released
  <2>2. map = a.vrf
    BY <1>1, AimFields
  <2> QED BY <1>1, <2>1, <2>2 DEF Drops, MovedTo, Gone
<1>2. CASE left = {}
  <2>1. InterfacesOf(n, ports) = {}
    BY <1>2 DEF RoutersOn
  <2>2. /\ d \in AimType /\ d.vrf = [a.vrf EXCEPT ![n] = UnroutedVrf]
        /\ d.connected = a.connected /\ d.vrfs = a.vrfs /\ Kept(d, ports)
    BY <1>0, <1>2, <2>1, DissociateIs
  <2>3. d.vrf = map
    <3> HIDE DEF d
    <3> QED BY <1>0, <1>2, <2>2, AimFields
  <2>4. CASE Unscoped(s)
    <3>1. b = Cleanup(d, old)
      BY <1>2, <2>4 DEF Released
    <3> HIDE DEF d, map
    <3>2. /\ b \in AimType /\ b.vrf = d.vrf /\ b.connected = d.connected /\ Kept(b, ports)
          /\ b.vrfs = IF InUse(old, d.vrf) THEN d.vrfs ELSE d.vrfs \ {old}
      <4>1. d \in AimType /\ Kept(d, ports)
        BY <2>2
      <4> DEFINE k == Cleanup(d, old)
      <4>2. /\ k \in AimType /\ k.vrf = d.vrf /\ k.connected = d.connected /\ Kept(k, ports)
            /\ k.vrfs = IF InUse(old, d.vrf) THEN d.vrfs ELSE d.vrfs \ {old}
        BY <4>1, CleanupIs
      <4> HIDE DEF k
      <4> QED BY <3>1, <4>2 DEF k
    <3>3. /\ b \in AimType /\ Kept(b, ports) /\ b.connected = a.connected /\ b.vrf = map
          /\ b.vrfs = IF left = {} /\ Unscoped(s) /\ ~InUse(old, b.vrf) THEN a.vrfs \ {old} ELSE a.vrfs
      BY <1>2, <2>2, <2>3, <2>4, <3>2
    <3> QED BY <3>3 DEF Drops, MovedTo, map, Gone
  <2>5. CASE ~Unscoped(s)
    <3>1. b = d
      BY <1>2, <2>5 DEF Released
    <3> HIDE DEF d, map
    <3>2. /\ b \in AimType /\ Kept(b, ports) /\ b.connected = a.connected /\ b.vrf = map /\ b.vrfs = a.vrfs
      BY <2>2, <2>3, <3>1
    <3> QED BY <1>2, <2>5, <3>2 DEF Drops, MovedTo, map, Gone
  <2> QED BY <2>4, <2>5
<1> QED
  BY <1>1, <1>2

\* What the removal of an interface does to AIM,
TakenAway(b, r, s, left, mine, theirs, old, v1, v2, rest) ==
  b = Disconnected(
        Released(
          Moved(Moved(Detached(aim, r, s, left), mine, old, v1), theirs, old, v2),
          s, old, left),
        r, s, old, v2, rest)

\* and what it has checked of the two parts of the topology.
PartsFit(mine, theirs, old, v1, v2, rest) ==
  /\ v1 # old => ~OverlapIn(v1, Moved(aim, mine, old, v1).vrf, rest, {})
  /\ v2 # old => ~OverlapIn(v2, Moved(Moved(aim, mine, old, v1), theirs, old, v2).vrf, rest, {})

\* All that is done to AIM when an interface goes.
LEMMA RemovedAim ==
  ASSUME TopologyConstants, aim \in AimType, interfaces \in SUBSET RouterPorts,
         Kept(aim, interfaces), NEW r \in Routers, NEW s \in Subnets, <<r, s>> \in interfaces,
         NEW n, n = NetworkOf[s], NEW rest, Without(rest, interfaces, r, s),
         NEW left, left = RoutersOn(n, rest), NEW old \in Vrfs, old = aim.vrf[n],
         NEW mine, NEW theirs, NEW v1, NEW v2, Parts(mine, theirs, n, left, old, v1, v2),
         NEW b, TakenAway(b, r, s, left, mine, theirs, old, v1, v2, rest)
  PROVE  /\ b \in AimType /\ Kept(b, rest)
         /\ SplitInto(b, n, s, mine, theirs, left, old, v1, v2)
         /\ Parted(b, r, s, old, v2, rest)
<1> USE DEF Without, TakenAway
<1> DEFINE a1 == Detached(aim, r, s, left)
           a2 == Moved(a1, mine, old, v1)
           a3 == Moved(a2, theirs, old, v2)
           a4 == Released(a3, s, old, left)
<1>0. rest \in SUBSET RouterPorts /\ n \in Networks
  BY TopologyAssumption
<1>e. /\ mine \in SUBSET Networks /\ theirs \in SUBSET Networks
      /\ \A x \in mine \cup theirs : aim.vrf[x] = old
      /\ v1 # old => v1 \in DefaultVrfs /\ old \in DefaultVrfs
      /\ v2 # old => v2 \in DefaultVrfs /\ old \in DefaultVrfs
      /\ mine \cap theirs # {} => v1 = v2
      /\ left = {} => v1 = old /\ n \notin theirs
  BY DEF Parts
<1>1. a1 \in AimType /\ a1.vrf = aim.vrf /\ a1.connected = aim.connected /\ a1.vrfs = aim.vrfs /\ Kept(a1, rest)
  BY DetachedIs
<1> HIDE DEF a1
<1>2. /\ a2 \in AimType /\ Kept(a2, rest) /\ a2.connected = aim.connected
      /\ MovedTo(a2.vrf, aim.vrf, mine, v1)
      /\ Adds(a2.vrfs, aim.vrfs, v1, old)
  <2>1. a1 \in AimType /\ Kept(a1, rest) /\ Between(mine, a1.vrf, old, v1)
    BY <1>1, <1>e DEF Between
  <2>2. a2 = Moved(a1, mine, old, v1)
    OBVIOUS
  <2> HIDE DEF a2
  <2>3. /\ a2 \in AimType /\ Kept(a2, rest) /\ a2.connected = a1.connected
        /\ MovedTo(a2.vrf, a1.vrf, mine, v1)
        /\ Adds(a2.vrfs, a1.vrfs, v1, old)
    BY <1>0, <1>e, <2>1, <2>2, MovedIs
  <2> QED BY <1>1, <2>3
<1> HIDE DEF a2
<1>3. /\ a3 \in AimType /\ Kept(a3, rest) /\ a3.connected = aim.connected
      /\ \A x \in Networks : a3.vrf[x] = IF x \in theirs THEN v2 ELSE IF x \in mine THEN v1 ELSE aim.vrf[x]
      /\ a3.vrfs = aim.vrfs \cup ({v1, v2} \ {old})
  <2>0. \A x \in Networks : a2.vrf[x] = IF x \in mine THEN v1 ELSE aim.vrf[x]
    BY <1>2 DEF MovedTo
  <2>1. Between(theirs, a2.vrf, old, v2)
    BY <1>e, <2>0 DEF Between
  <2>a. a3 = Moved(a2, theirs, old, v2)
    OBVIOUS
  <2> HIDE DEF a3
  <2>2. /\ a3 \in AimType /\ Kept(a3, rest) /\ a3.connected = a2.connected
        /\ MovedTo(a3.vrf, a2.vrf, theirs, v2)
        /\ Adds(a3.vrfs, a2.vrfs, v2, old)
    BY <1>0, <1>2, <1>e, <2>1, <2>a, MovedIs
  <2>3. ({v1} \ {old}) \cup ({v2} \ {old}) = {v1, v2} \ {old}
    OBVIOUS
  <2>4. a3.vrfs = aim.vrfs \cup ({v1, v2} \ {old})
    BY <1>2, <2>2, <2>3 DEF Adds
  <2>5. \A x \in Networks : a3.vrf[x] = IF x \in theirs THEN v2 ELSE IF x \in mine THEN v1 ELSE aim.vrf[x]
    BY <2>0, <2>2 DEF MovedTo
  <2> QED BY <1>2, <2>2, <2>4, <2>5
<1>4. Leaves(a3.vrf, n, left, old)
  BY <1>0, <1>3, <1>e DEF Leaves
<1> HIDE DEF a3
<1>5. /\ a4 \in AimType /\ Kept(a4, rest) /\ a4.connected = a3.connected
      /\ MovedTo(a4.vrf, a3.vrf, Gone(n, left), UnroutedVrf)
      /\ Drops(a4, a3.vrfs, s, old, left)
  <2>1. a3 \in AimType /\ Kept(a3, rest)
    BY <1>3
  <2>2. a4 = Released(a3, s, old, left)
    OBVIOUS
  <2> HIDE DEF a4
  <2> QED BY <1>0, <1>4, <2>1, <2>2, ReleasedIs
<1> HIDE DEF a4
<1>6. a4 \in AimType /\ a4.connected = aim.connected /\ Kept(a4, rest)
  BY <1>3, <1>5
<1>7. b = Disconnected(a4, r, s, old, v2, rest)
  BY DEF a1, a2, a3, a4
<1>8. /\ b \in AimType /\ b.vrf = a4.vrf /\ b.vrfs = a4.vrfs /\ Kept(b, rest)
      /\ Parted(b, r, s, old, v2, rest)
  BY <1>0, <1>6, <1>7, DisconnectedIs
<1>9. \A x \in Networks : b.vrf[x] = IF x = n /\ left = {} THEN UnroutedVrf
                                    ELSE IF x \in theirs THEN v2 ELSE IF x \in mine THEN v1 ELSE aim.vrf[x]
  <2>1. \A x \in Networks : x \in Gone(n, left) <=> x = n /\ left = {}
    BY DEF Gone
  <2>2. \A x \in Networks : b.vrf[x] = IF x \in Gone(n, left) THEN UnroutedVrf ELSE a3.vrf[x]
    BY <1>5, <1>8 DEF MovedTo
  <2>3. ASSUME NEW x \in Networks
        PROVE  b.vrf[x] = IF x = n /\ left = {} THEN UnroutedVrf
                          ELSE IF x \in theirs THEN v2 ELSE IF x \in mine THEN v1 ELSE aim.vrf[x]
    <3>1. a3.vrf[x] = IF x \in theirs THEN v2 ELSE IF x \in mine THEN v1 ELSE aim.vrf[x]
      BY <1>3
    <3>2. b.vrf[x] = IF x = n /\ left = {} THEN UnroutedVrf ELSE a3.vrf[x]
      BY <2>1, <2>2
    <3> QED BY <3>1, <3>2
  <2> QED BY <2>3
<1>10. b.vrfs = IF left = {} /\ Unscoped(s) /\ ~InUse(old, b.vrf)
                THEN (aim.vrfs \cup ({v1, v2} \ {old})) \ {old} ELSE aim.vrfs \cup ({v1, v2} \ {old})
  BY <1>3, <1>5, <1>8 DEF Drops
<1>11. SplitInto(b, n, s, mine, theirs, left, old, v1, v2)
  BY <1>9, <1>10 DEF SplitInto
<1> QED
  BY <1>8, <1>11

\* The VRF that a topology leaves stays in use, unless all of it goes.
LEMMA SplitVrfs ==
  ASSUME TopologyConstants, scopes \subseteq Scopes, VrfsKept(aim),
         NEW n \in Networks, NEW s, Unscoped(s), NEW mine, NEW theirs, NEW left, NEW old \in DefaultVrfs, old = aim.vrf[n],
         NEW v1, NEW v2, Parts(mine, theirs, n, left, old, v1, v2), n \in mine,
         v2 # old => theirs # {},
         left # {} => v1 = old \/ (theirs # {} /\ v2 = old),
         NEW b, SplitInto(b, n, s, mine, theirs, left, old, v1, v2)
  PROVE  VrfsKept(b)
<1>e. /\ mine \in SUBSET Networks /\ theirs \in SUBSET Networks
      /\ \A x \in mine \cup theirs : aim.vrf[x] = old
      /\ v1 # old => v1 \in DefaultVrfs
      /\ v2 # old => v2 \in DefaultVrfs
      /\ mine \cap theirs # {} => v1 = v2
      /\ left = {} => v1 = old /\ n \notin theirs
  BY DEF Parts
<1> DEFINE all == aim.vrfs \cup ({v1, v2} \ {old})
<1>0. /\ DefaultVrfs \cap Scoped = {} /\ UnroutedVrf \notin DefaultVrfs
  <2>1. Scoped \subseteq ScopeVrfs
    BY DEF Scoped, ScopeVrfs
  <2> QED BY <2>1, VrfFacts
<1>3. \A x \in Networks : b.vrf[x] = IF x = n /\ left = {} THEN UnroutedVrf
                                    ELSE IF x \in theirs THEN v2 ELSE IF x \in mine THEN v1 ELSE aim.vrf[x]
  BY DEF SplitInto
<1>4. b.vrfs = IF left = {} /\ ~InUse(old, b.vrf) THEN all \ {old} ELSE all
  BY DEF SplitInto
<1>5. aim.vrfs = Used(aim.vrf) \cup Scoped
  BY DEF VrfsKept, Used, Scoped
<1>6. \A v : v \in Used(aim.vrf) <=> v \in DefaultVrfs /\ \E x \in Networks : aim.vrf[x] = v
  BY DEF Used
<1>7. \A v : v \in Used(b.vrf) <=> v \in DefaultVrfs /\ \E x \in Networks : b.vrf[x] = v
  BY DEF Used
<1>8. \A v : v # old => (v \in b.vrfs <=> v \in aim.vrfs \/ v = v1 \/ v = v2)
  BY <1>4
<1>9. old \in b.vrfs <=> left # {} \/ InUse(old, b.vrf)
  BY <1>4, <1>5, <1>6
<1>10. old \in Used(b.vrf) <=> InUse(old, b.vrf)
  BY <1>7 DEF InUse
<1>11. left # {} => InUse(old, b.vrf)
  <2> SUFFICES ASSUME left # {} PROVE InUse(old, b.vrf)
    OBVIOUS
  <2>1. CASE v1 = old
    <3>1. b.vrf[n] = old
      BY <1>3, <1>e, <2>1
    <3> QED BY <3>1 DEF InUse
  <2>2. CASE theirs # {} /\ v2 = old
    <3>1. PICK x \in theirs : TRUE
      BY <2>2
    <3>2. b.vrf[x] = old /\ x \in Networks
      BY <1>3, <1>e, <2>2
    <3> QED BY <3>2 DEF InUse
  <2> QED BY <2>1, <2>2
<1>12. ASSUME NEW v \in DefaultVrfs, v # old PROVE v \in b.vrfs <=> v \in Used(b.vrf)
  <2>1. CASE v = v2
    <3>1. PICK x \in theirs : TRUE
      BY <1>12, <2>1
    <3>2. b.vrf[x] = v /\ x \in Networks
      BY <1>3, <1>e, <2>1
    <3> QED BY <1>7, <1>8, <1>12, <2>1, <3>2
  <2>2. CASE v = v1 /\ v # v2
    <3>1. b.vrf[n] = v
      BY <1>3, <1>e, <1>12, <2>2
    <3> QED BY <1>7, <1>8, <1>12, <2>2, <3>1
  <2>3. CASE v # v1 /\ v # v2
    <3>1. \A x \in Networks : b.vrf[x] = v <=> aim.vrf[x] = v
      BY <1>0, <1>3, <1>e, <1>12, <2>3
    <3>2. v \in b.vrfs <=> v \in Used(aim.vrf)
      BY <1>0, <1>5, <1>8, <1>12, <2>3
    <3> QED BY <1>6, <1>7, <3>1, <3>2
  <2> QED BY <2>1, <2>2, <2>3
<1>13. ASSUME NEW v, v \notin DefaultVrfs PROVE v \in b.vrfs <=> v \in Scoped
  <2>1. v # old /\ (v = v1 \/ v = v2 => FALSE)
    BY <1>e, <1>13
  <2> QED BY <1>5, <1>6, <1>8, <1>13, <2>1
<1> HIDE DEF all
<1>14. ASSUME NEW v PROVE v \in b.vrfs <=> v \in Used(b.vrf) \cup Scoped
  <2>1. CASE v = old
    BY <1>0, <1>9, <1>10, <1>11, <2>1
  <2>2. CASE v # old /\ v \in DefaultVrfs
    BY <1>0, <1>12, <2>2
  <2>3. CASE v \notin DefaultVrfs
    BY <1>7, <1>13, <2>3
  <2> QED BY <2>1, <2>2, <2>3
<1>15. b.vrfs = Used(b.vrf) \cup Scoped
  BY <1>14
<1> QED
  BY <1>15 DEF VrfsKept, Used, Scoped

\* Each part is checked for overlaps where it goes.
LEMMA SplitApart ==
  ASSUME TopologyConstants, aim \in AimType, interfaces \in SUBSET RouterPorts,
         Apart(aim.vrf, interfaces), Kept(aim, interfaces), NEW rest \in SUBSET interfaces,
         NEW n \in Networks, NEW s, NEW mine, NEW theirs, NEW left, left = RoutersOn(n, rest), NEW old,
         NEW v1, NEW v2, Parts(mine, theirs, n, left, old, v1, v2),
         NEW b, SplitInto(b, n, s, mine, theirs, left, old, v1, v2),
         PartsFit(mine, theirs, old, v1, v2, rest)
  PROVE  Apart(b.vrf, rest)
<1>e. /\ mine \in SUBSET Networks /\ theirs \in SUBSET Networks
      /\ \A x \in mine \cup theirs : aim.vrf[x] = old
      /\ v1 # old => v1 \in DefaultVrfs /\ old \in DefaultVrfs
      /\ v2 # old => v2 \in DefaultVrfs /\ old \in DefaultVrfs
      /\ mine \cap theirs # {} => v1 = v2
  BY DEF Parts
<1> DEFINE a1 == Moved(aim, mine, old, v1)
           a2 == Moved(a1, theirs, old, v2)
<1>0. /\ \A p \in rest : NetworkOf[p[2]] \in Networks /\ p \in interfaces
      /\ UnroutedVrf \notin DefaultVrfs
  BY TopologyAssumption, VrfFacts DEF RouterPorts
<1>1. a1 \in AimType /\ Kept(a1, interfaces) /\ MovedTo(a1.vrf, aim.vrf, mine, v1)
  <2>1. a1 = Moved(aim, mine, old, v1)
    OBVIOUS
  <2>2. Between(mine, aim.vrf, old, v1)
    BY <1>e DEF Between
  <2> HIDE DEF a1
  <2> QED BY <1>e, <2>1, <2>2, MovedIs
<1> HIDE DEF a1
<1>2. MovedTo(a2.vrf, a1.vrf, theirs, v2)
  <2>1. a2 = Moved(a1, theirs, old, v2)
    OBVIOUS
  <2>2. \A x \in Networks : a1.vrf[x] = IF x \in mine THEN v1 ELSE aim.vrf[x]
    BY <1>1 DEF MovedTo
  <2>3. Between(theirs, a1.vrf, old, v2)
    BY <1>e, <2>2 DEF Between
  <2> HIDE DEF a2
  <2> QED BY <1>1, <1>e, <2>1, <2>3, MovedIs
<1>3. /\ v1 # old => ~OverlapIn(v1, a1.vrf, rest, {})
      /\ v2 # old => ~OverlapIn(v2, a2.vrf, rest, {})
  BY DEF a1, PartsFit
<1> HIDE DEF a2
<1>4. \A x \in Networks : b.vrf[x] = IF x = n /\ left = {} THEN UnroutedVrf
                                    ELSE IF x \in theirs THEN v2 ELSE IF x \in mine THEN v1 ELSE aim.vrf[x]
  BY DEF SplitInto
<1>5. /\ \A x \in Networks : a1.vrf[x] = IF x \in mine THEN v1 ELSE aim.vrf[x]
      /\ \A x \in Networks : a2.vrf[x] = IF x \in theirs THEN v2 ELSE a1.vrf[x]
  BY <1>1, <1>2 DEF MovedTo
<1>6. ASSUME NEW v \in DefaultVrfs PROVE ~OverlapIn(v, b.vrf, rest, {})
  <2>1. CASE v = v2 /\ v2 # old
    <3>1. \A p \in rest : b.vrf[NetworkOf[p[2]]] = v => p \in rest /\ a2.vrf[NetworkOf[p[2]]] = v
      BY <1>0, <1>4, <1>5, <1>6
    <3> QED BY <1>3, <2>1, <3>1, FewerApart
  <2>2. CASE v = v1 /\ v1 # old /\ v # v2
    <3>1. \A p \in rest : b.vrf[NetworkOf[p[2]]] = v => p \in rest /\ a1.vrf[NetworkOf[p[2]]] = v
      BY <1>0, <1>4, <1>5, <1>6, <2>2
    <3> QED BY <1>3, <2>2, <3>1, FewerApart
  <2>3. CASE ~(v = v2 /\ v2 # old) /\ ~(v = v1 /\ v1 # old)
    <3>1. \A p \in rest : b.vrf[NetworkOf[p[2]]] = v => p \in interfaces /\ aim.vrf[NetworkOf[p[2]]] = v
      BY <1>0, <1>4, <1>6, <1>e, <2>3
    <3>2. ~OverlapIn(v, aim.vrf, interfaces, {})
      BY DEF Apart
    <3> QED BY <3>1, <3>2, FewerApart
  <2> QED BY <2>1, <2>2, <2>3
<1> QED
  BY <1>6 DEF Apart

\* Whoever is left in the topology of a network that is not shared, and could walk to no
\* shared network before, was where it belongs.
LEMMA OnePartStays ==
  ASSUME TopologyConstants, scopeOf \in [Pools -> Scopes \cup {None}],
         NEW ports \in SUBSET RouterPorts, NEW map, Placed(map, ports),
         NEW r \in Routers, NEW s \in Subnets, <<r, s>> \in ports, NEW n, n = NetworkOf[s], Unscoped(s),
         NEW rest, Without(rest, ports, r, s),
         NEW mine, IsWalk(mine, {n}, rest),
         NEW theirs, IsWalk(theirs, ExpandForRouters({r}, rest), rest),
         mine \cap Shared = {}, theirs \cap Shared = {}
  PROVE  TopologyVrf(mine, n) = map[n]
<1> USE DEF Without
<1> DEFINE i == <<r, s>>
           from == ExpandForRouters({r}, rest)
           both == mine \cup theirs
<1>0. i[1] = r /\ i[2] = s /\ i \in ports /\ n \in Networks
  BY TopologyAssumption
<1>1. \A q \in rest : q[1] = r /\ Unscoped(q[2]) => NetworkOf[q[2]] \in from
  BY DEF ExpandForRouters
<1>2. n \in Open(ports)
  BY <1>0 DEF Open
<1>3. \A p \in ports : p \in rest \/ p = i
  OBVIOUS
<1>w. IsWalk(theirs, from, rest)
  OBVIOUS
<1> HIDE DEF i, from
<1>4. /\ mine \in SUBSET Networks /\ theirs \in SUBSET Networks /\ n \in mine /\ from \subseteq theirs
      /\ Walled(mine, rest) /\ Walled(theirs, rest)
  BY <1>w DEF IsWalk
<1>5. both \in SUBSET Networks /\ both \cap Shared = {} /\ n \in both /\ from \subseteq both
  BY <1>4
<1>6. Walled(both, ports)
  <2> SUFFICES ASSUME NEW p \in ports, NEW q \in ports, NetworkOf[p[2]] \in both, p[1] = q[1], Unscoped(q[2])
               PROVE  NetworkOf[q[2]] \in both
    BY DEF Walled
  <2>1. CASE q = i
    BY <1>0, <1>5, <2>1
  <2>2. CASE q # i /\ p = i
    BY <1>0, <1>1, <1>3, <1>5, <2>2
  <2>3. CASE q # i /\ p # i
    <3>1. p \in rest /\ q \in rest
      BY <1>3, <2>3
    <3> QED BY <1>4, <3>1 DEF Walled
  <2> QED BY <2>1, <2>2, <2>3
<1> HIDE DEF both
<1>7. map[n] = DefaultVrf(Owner[n])
  BY <1>2, <1>5, <1>6 DEF Placed
<1> QED
  BY <1>7 DEF TopologyVrf

\* An unscoped interface goes, and its topology falls into two parts.
LEMMA RemovedUnscopedGood ==
  ASSUME TopologyConstants, scopes \subseteq Scopes, scopeOf \in [Pools -> Scopes \cup {None}],
         interfaces \in SUBSET RouterPorts, aim \in AimType, Good(aim, interfaces),
         NEW r \in Routers, NEW s \in Subnets, <<r, s>> \in interfaces, Unscoped(s),
         NEW n, n = NetworkOf[s], NEW rest, Without(rest, interfaces, r, s),
         NEW left, left = RoutersOn(n, rest), NEW old, old = aim.vrf[n],
         NEW mine, IsWalk(mine, {n}, rest),
         NEW theirs, IsWalk(theirs, ExpandForRouters({r}, rest), rest),
         NEW v1, v1 = PartVrf(s, left, TopologyVrf(mine, n)),
         NEW v2, v2 = PartVrf(s, theirs, RouterTopologyVrf(theirs)),
         PartsFit(mine, theirs, old, v1, v2, rest),
         NEW b, Parts(mine, theirs, n, left, old, v1, v2) => SplitInto(b, n, s, mine, theirs, left, old, v1, v2)
  PROVE  /\ Parts(mine, theirs, n, left, old, v1, v2)
         /\ Placed(b.vrf, rest) /\ VrfsKept(b) /\ Apart(b.vrf, rest)
<1> DEFINE u1 == TopologyVrf(mine, n)
<1>0. n \in Networks /\ rest \in SUBSET interfaces
  BY TopologyAssumption DEF Without
<1>1. /\ Placed(aim.vrf, interfaces) /\ Permitted(interfaces) /\ Kept(aim, interfaces) /\ VrfsKept(aim)
      /\ Apart(aim.vrf, interfaces)
  BY DEF Good
<1>2. /\ v1 = IF left # {} THEN u1 ELSE old
      /\ v2 = IF theirs # {} THEN RouterTopologyVrf(theirs) ELSE old
  BY DEF PartVrf
<1>3. Halves(mine, theirs, aim.vrf, n, left, rest)
  BY <1>1, SplitSame
<1>4. theirs # {} => v2 = RouterTopologyVrf(theirs)
  BY <1>2
<1>5. /\ \A map2 :
           (\A x \in Networks : map2[x] = IF x \in theirs THEN v2
                                          ELSE IF x = n /\ left = {} THEN UnroutedVrf
                                          ELSE IF x \in mine THEN u1 ELSE aim.vrf[x])
             => Placed(map2, rest)
      /\ \A x \in mine \cup theirs : x \in Networks /\ aim.vrf[x] = aim.vrf[n]
      /\ aim.vrf[n] \in DefaultVrfs
      /\ theirs # {} => v2 \in DefaultVrfs
      /\ mine \cap theirs # {} => u1 = v2
      /\ u1 \in DefaultVrfs
      /\ mine \cap Shared # {} => u1 = aim.vrf[n]
      /\ theirs \cap Shared # {} => v2 = aim.vrf[n]
      /\ n \in mine
      /\ left = {} => mine = {n} /\ n \notin theirs
  <2> HIDE DEF u1
  <2>1. u1 = TopologyVrf(mine, n)
    BY DEF u1
  <2>2. Settled(mine, theirs, aim.vrf, n, left, u1, v2, rest)
    BY <1>1, <1>3, <1>4, <2>1, RemovePlaced
  <2> QED BY <2>2 DEF Settled
<1>6. mine \cap theirs # {} => left # {}
  BY <1>5
<1>7. mine \in SUBSET Networks /\ theirs \in SUBSET Networks
  BY <1>5
<1>8. left # {} => v1 = old \/ (theirs # {} /\ v2 = old)
  <2> SUFFICES ASSUME left # {}, v1 # old, ~(theirs # {} /\ v2 = old) PROVE FALSE
    OBVIOUS
  <2>1. mine \cap Shared = {} /\ theirs \cap Shared = {}
    BY <1>2, <1>5
  <2>2. u1 = old
    BY <1>1, <2>1, OnePartStays
  <2> QED BY <1>2, <2>2
<1> HIDE DEF u1
<1>9. Parts(mine, theirs, n, left, old, v1, v2)
  <2>1. \A x \in mine \cup theirs : aim.vrf[x] = old
    BY <1>5
  <2>2. /\ v1 # old => v1 \in DefaultVrfs /\ old \in DefaultVrfs
        /\ v2 # old => v2 \in DefaultVrfs /\ old \in DefaultVrfs
        /\ mine \cap theirs # {} => v1 = v2
        /\ left = {} => v1 = old /\ n \notin theirs
    BY <1>2, <1>5, <1>6
  <2> QED BY <1>7, <2>1, <2>2 DEF Parts
<1>10. SplitInto(b, n, s, mine, theirs, left, old, v1, v2)
  BY <1>9
<1>11. Placed(b.vrf, rest)
  <2>1. \A x \in Networks : b.vrf[x] = IF x \in theirs THEN v2
                                       ELSE IF x = n /\ left = {} THEN UnroutedVrf
                                       ELSE IF x \in mine THEN u1 ELSE aim.vrf[x]
    <3>1. \A x \in Networks : b.vrf[x] = IF x = n /\ left = {} THEN UnroutedVrf
                                         ELSE IF x \in theirs THEN v2 ELSE IF x \in mine THEN v1 ELSE aim.vrf[x]
      BY <1>10 DEF SplitInto
    <3>2. CASE left = {}
      <4>1. mine = {n} /\ n \notin theirs
        BY <1>5, <3>2
      <4> QED BY <3>1, <3>2, <4>1
    <3>3. CASE left # {}
      <4>1. v1 = u1
        BY <1>2, <3>3
      <4> QED BY <3>1, <3>3, <4>1
    <3> QED BY <3>2, <3>3
  <2> QED BY <1>5, <2>1
<1>12. VrfsKept(b)
  <2>1. v2 # old => theirs # {}
    BY <1>2
  <2>2. n \in mine /\ old \in DefaultVrfs
    BY <1>5
  <2> QED BY <1>0, <1>1, <1>8, <1>9, <1>10, <2>1, <2>2, SplitVrfs
<1>13. Apart(b.vrf, rest)
  BY <1>0, <1>1, <1>9, <1>10, SplitApart
<1> QED
  BY <1>9, <1>11, <1>12, <1>13

\* Nothing is split by an interface in a scope.
LEMMA RemovedScopedAim ==
  ASSUME TopologyConstants, aim \in AimType, interfaces \in SUBSET RouterPorts,
         Kept(aim, interfaces), NEW r \in Routers, NEW s \in Subnets, <<r, s>> \in interfaces,
         NEW n, n = NetworkOf[s], NEW rest, Without(rest, interfaces, r, s),
         NEW left, left = RoutersOn(n, rest), NEW old \in Vrfs, old = aim.vrf[n],
         NEW b, TakenAway(b, r, s, left, {}, {}, old, old, old, rest)
  PROVE  /\ b \in AimType /\ Kept(b, rest)
         /\ SplitInto(b, n, s, {}, {}, left, old, old, old)
         /\ Parted(b, r, s, old, old, rest)
<1>1. Parts({}, {}, n, left, old, old, old)
  BY DEF Parts
<1> QED BY <1>1, RemovedAim

\* An interface in a scope goes.
LEMMA RemovedScopedGood ==
  ASSUME TopologyConstants, scopes \subseteq Scopes, scopeOf \in [Pools -> Scopes \cup {None}],
         interfaces \in SUBSET RouterPorts, aim \in AimType, Good(aim, interfaces),
         NEW r \in Routers, NEW s \in Subnets, <<r, s>> \in interfaces, ~Unscoped(s),
         NEW n, n = NetworkOf[s], NEW rest, Without(rest, interfaces, r, s),
         NEW left, left = RoutersOn(n, rest), NEW old, old = aim.vrf[n],
         NEW b, SplitInto(b, n, s, {}, {}, left, old, old, old)
  PROVE  Placed(b.vrf, rest) /\ VrfsKept(b) /\ Apart(b.vrf, rest)
<1>0. n \in Networks /\ rest \in SUBSET interfaces
  BY TopologyAssumption DEF Without
<1>1. /\ Placed(aim.vrf, interfaces) /\ VrfsKept(aim) /\ Apart(aim.vrf, interfaces)
  BY DEF Good
<1>2. left = {} <=> InterfacesOf(n, rest) = {}
  BY DEF RoutersOn
<1>3. \A x \in Networks : b.vrf[x] = IF x = n /\ left = {} THEN UnroutedVrf ELSE aim.vrf[x]
  BY DEF SplitInto
<1>4. b.vrfs = aim.vrfs
  <2>1. b.vrfs = aim.vrfs \cup ({old, old} \ {old})
    BY DEF SplitInto
  <2> QED BY <2>1
<1>5. \A x \in Networks : b.vrf[x] = IF x = n /\ InterfacesOf(n, rest) = {} THEN UnroutedVrf ELSE aim.vrf[x]
  BY <1>2, <1>3
<1>6. Placed(b.vrf, rest)
  <2>1. MovedTo(b.vrf, aim.vrf, IF InterfacesOf(n, rest) = {} THEN {n} ELSE {}, UnroutedVrf)
    BY <1>5 DEF MovedTo
  <2> QED BY <1>1, <2>1, RemoveScopedPlaced
<1>7. old \notin DefaultVrfs /\ UnroutedVrf \notin DefaultVrfs
  <2>1. old = ScopeVrf[ScopeOfSubnet(s)]
    <3> DEFINE i == <<r, s>>
    <3>1. i \in interfaces /\ i[2] = s
      OBVIOUS
    <3> HIDE DEF i
    <3> QED BY <1>1, <3>1 DEF Placed
  <2>2. ScopeOfSubnet(s) \in Scopes
    BY TopologyAssumption DEF Unscoped, ScopeOfSubnet
  <2> QED BY <2>1, <2>2, VrfFacts
<1>8. Used(b.vrf) = Used(aim.vrf)
  <2>1. \A v \in DefaultVrfs, x \in Networks : b.vrf[x] = v <=> aim.vrf[x] = v
    BY <1>3, <1>7
  <2> QED BY <2>1 DEF Used
<1>9. VrfsKept(b)
  BY <1>1, <1>4, <1>8 DEF VrfsKept, Used
<1>10. ASSUME NEW v \in DefaultVrfs PROVE ~OverlapIn(v, b.vrf, rest, {})
  <2>1. \A p \in rest : NetworkOf[p[2]] \in Networks /\ p \in interfaces
    BY <1>0, TopologyAssumption DEF RouterPorts
  <2>2. \A p \in rest : b.vrf[NetworkOf[p[2]]] = v => p \in interfaces /\ aim.vrf[NetworkOf[p[2]]] = v
    BY <1>3, <1>7, <2>1
  <2>3. ~OverlapIn(v, aim.vrf, interfaces, {})
    BY <1>1 DEF Apart
  <2> QED BY <2>2, <2>3, FewerApart
<1> QED
  BY <1>6, <1>9, <1>10 DEF Apart

\* An interface goes.
LEMMA RemovedGood ==
  ASSUME TopologyConstants, scopes \subseteq Scopes, scopeOf \in [Pools -> Scopes \cup {None}],
         interfaces \in SUBSET RouterPorts, aim \in AimType, Good(aim, interfaces),
         NEW r \in Routers, NEW s \in Subnets, <<r, s>> \in interfaces,
         NEW n, n = NetworkOf[s], NEW rest, Without(rest, interfaces, r, s),
         NEW left, left = RoutersOn(n, rest), NEW old, old = aim.vrf[n],
         NEW mine, mine = NetworkTopology(n, rest), NEW theirs, theirs = RouterTopology(r, rest),
         NEW v1, v1 = PartVrf(s, left, TopologyVrf(mine, n)),
         NEW v2, v2 = PartVrf(s, theirs, RouterTopologyVrf(theirs)),
         PartsFit(mine, theirs, old, v1, v2, rest),
         NEW b, TakenAway(b, r, s, left, mine, theirs, old, v1, v2, rest)
  PROVE  /\ b \in AimType /\ Good(b, rest) /\ Parted(b, r, s, old, v2, rest)
         /\ \A x \in Networks : b.vrf[x] # aim.vrf[x] =>
              (x = n /\ left = {}) \/ (Unscoped(s) /\ (x \in theirs \/ x \in mine) /\ (v1 # old \/ v2 # old))
<1>0. n \in Networks /\ rest \in SUBSET interfaces /\ rest \in SUBSET RouterPorts
  BY TopologyAssumption DEF Without
<1>1. /\ Placed(aim.vrf, interfaces) /\ Kept(aim, interfaces) /\ Permitted(interfaces)
      /\ OneIsShared(interfaces)
  BY DEF Good
<1>2. Permitted(rest) /\ OneIsShared(rest)
  BY <1>0, <1>1 DEF Permitted, OneIsShared
<1>3. old \in Vrfs
  <2> DEFINE i == <<r, s>>
  <2>1. i \in interfaces /\ i[2] = s
    OBVIOUS
  <2> HIDE DEF i
  <2>2. old \in DefaultVrfs \/ (old = ScopeVrf[ScopeOfSubnet(s)] /\ ~Unscoped(s))
    BY <1>1, <2>1 DEF Placed
  <2>3. ~Unscoped(s) => ScopeOfSubnet(s) \in Scopes
    BY TopologyAssumption DEF Unscoped, ScopeOfSubnet
  <2> QED BY <2>2, <2>3, VrfFacts
<1>4. CASE Unscoped(s)
  <2>1. IsWalk(mine, {n}, rest) /\ IsWalk(theirs, ExpandForRouters({r}, rest), rest)
    BY <1>0, WalksEnd
  <2>2. Parts(mine, theirs, n, left, old, v1, v2) =>
          /\ b \in AimType /\ Kept(b, rest)
          /\ SplitInto(b, n, s, mine, theirs, left, old, v1, v2)
          /\ Parted(b, r, s, old, v2, rest)
    BY <1>1, <1>3, RemovedAim
  <2>a. Parts(mine, theirs, n, left, old, v1, v2) => SplitInto(b, n, s, mine, theirs, left, old, v1, v2)
    BY <2>2
  <2>3. /\ Parts(mine, theirs, n, left, old, v1, v2)
        /\ Placed(b.vrf, rest) /\ VrfsKept(b) /\ Apart(b.vrf, rest)
    BY <1>4, <2>1, <2>a, RemovedUnscopedGood
  <2>4. Good(b, rest)
    BY <1>2, <2>2, <2>3 DEF Good
  <2>5. \A x \in Networks : b.vrf[x] # aim.vrf[x] =>
          (x = n /\ left = {}) \/ ((x \in theirs \/ x \in mine) /\ (v1 # old \/ v2 # old))
    <3>1. \A x \in Networks : b.vrf[x] = IF x = n /\ left = {} THEN UnroutedVrf
                                         ELSE IF x \in theirs THEN v2 ELSE IF x \in mine THEN v1 ELSE aim.vrf[x]
      BY <2>2, <2>3 DEF SplitInto
    <3>2. \A x \in Networks : x \in mine \/ x \in theirs => aim.vrf[x] = old
      BY <2>3 DEF Parts
    <3> QED BY <3>1, <3>2
  <2> QED BY <1>4, <2>2, <2>3, <2>4, <2>5
<1>5. CASE ~Unscoped(s)
  <2>1. v1 = old /\ v2 = old
    BY <1>5 DEF PartVrf
  <2>2. \A a : Moved(a, mine, old, old) = a /\ Moved(a, theirs, old, old) = a /\ Moved(a, {}, old, old) = a
    BY DEF Moved
  <2>3. TakenAway(b, r, s, left, {}, {}, old, old, old, rest)
    BY <2>1, <2>2 DEF TakenAway
  <2>5. /\ b \in AimType /\ Kept(b, rest)
        /\ SplitInto(b, n, s, {}, {}, left, old, old, old)
        /\ Parted(b, r, s, old, old, rest)
    BY <1>1, <1>3, <2>3, RemovedScopedAim, SMTT(30)
  <2>6. Placed(b.vrf, rest) /\ VrfsKept(b) /\ Apart(b.vrf, rest)
    BY <1>5, <2>5, RemovedScopedGood, SMTT(30)
  <2>7. Good(b, rest)
    BY <1>2, <2>5, <2>6 DEF Good
  <2>8. \A x \in Networks : b.vrf[x] # aim.vrf[x] => x = n /\ left = {}
    BY <2>5 DEF SplitInto
  <2> QED BY <2>1, <2>5, <2>7, <2>8
<1> QED
  BY <1>4, <1>5

--------------------
(* The invariant is kept *)

\* The networks, the VRFs and the calls, for the interfaces recorded and to be recorded.
RoutedInv == TypeOK /\ CallsFit /\ Good(aim, InterfacePorts)

\* The interfaces and the scopes of pools may stay when scopes come and go.
LEMMA PlacedAfter ==
  ASSUME NEW ports \in SUBSET RouterPorts, \A p \in ports : ScopeOfSubnet(p[2])' = ScopeOfSubnet(p[2]),
         NEW a, aim' = a, InterfacePorts' = ports,
         Permitted(ports), Placed(a.vrf, ports), Kept(a, ports), Apart(a.vrf, ports), OneIsShared(ports),
         VrfsKept(aim)'
  PROVE  Good(aim, InterfacePorts)'
<1>1. \A p \in ports : ScopeOfSubnet(p[2])' = ScopeOfSubnet(p[2]) /\ (Unscoped(p[2])' <=> Unscoped(p[2]))
  BY DEF Unscoped
<1>2. Permitted(InterfacePorts)' /\ OneIsShared(InterfacePorts)'
  BY DEF Permitted, OneIsShared
<1>3. Placed(aim.vrf, InterfacePorts)'
  BY <1>1 DEF Placed, Open, Walled, InterfacesOf
<1>4. Kept(aim, InterfacePorts)'
  BY DEF Kept, RoutersOn, InterfacesOf
<1>5. Apart(aim.vrf, InterfacePorts)'
  BY DEF Apart, OverlapIn
<1> QED
  BY <1>2, <1>3, <1>4, <1>5 DEF Good

\* What is good stays so in a step that changes no scope.
LEMMA GoodAfter ==
  ASSUME scopes' = scopes, scopeOf' = scopeOf, NEW a, NEW ports \in SUBSET RouterPorts,
         aim' = a, InterfacePorts' = ports, Good(a, ports)
  PROVE  Good(aim, InterfacePorts)'
<1>1. \A p \in ports : ScopeOfSubnet(p[2])' = ScopeOfSubnet(p[2])
  BY DEF ScopeOfSubnet
<1>2. VrfsKept(aim)'
  BY DEF Good, VrfsKept
<1> QED
  BY <1>1, <1>2, PlacedAfter DEF Good

\* What is routed are interfaces.
LEMMA PortsFit ==
  ASSUME TypeOK
  PROVE  InterfacePorts \in SUBSET RouterPorts
BY DEF TypeOK, InterfacePorts, PendingPorts

\* With one call at a time there is nothing to be recorded when a call starts.
LEMMA IdleIs ==
  ASSUME TopologyConstants, NEW w \in Workers, pending[w] = None
  PROVE  InterfacePorts = interfaces /\ \A u \in Workers : pending[u] = None
BY DEF TopologyConstants, InterfacePorts, PendingPorts

\* create_port_precommit of an interface port (_add_router_interface).
LEMMA InterfaceAdded ==
  ASSUME TopologyConstants, RoutedInv, NEW w \in Workers, NEW r \in Routers, NEW s \in Subnets,
         AddInterface(w, r, s)
  PROVE  RoutedInv'
<1> DEFINE call == [op |-> "interface", port |-> <<r, s>>]
           ports2 == interfaces \cup {<<r, s>>}
<1>1. /\ pending[w] = None /\ Usable(r, s)
      /\ InterfaceSupported(r, s, InterfacesOf(NetworkOf[s], interfaces))
      /\ pending' = [pending EXCEPT ![w] = call]
      /\ UNCHANGED <<scopes, scopeOf, interfaces, gateway>>
  BY DEF AddInterface
<1>2. PICK c \in Choices(r, s) :
         /\ aim' = Connected(Attached(Taken(Joining(Ensured(aim, c), c), NetworkOf[s], c.vrf), r, s), r, s, c)
         /\ Unscoped(s) => ~OverlapIn(c.vrf, aim'.vrf, interfaces, {s})
  BY DEF AddInterface
<1>3. TypeOK /\ CallsFit /\ Good(aim, interfaces)
  BY <1>1, IdleIs DEF RoutedInv
<1>4. aim' \in AimType /\ Good(aim', ports2)
  <2>1. /\ scopes \subseteq Scopes /\ scopeOf \in [Pools -> Scopes \cup {None}]
        /\ interfaces \in SUBSET RouterPorts /\ aim \in AimType
    BY <1>3 DEF TypeOK
  <2> QED BY <1>1, <1>2, <1>3, <2>1, AddedGood
<1>5. call \in Calls /\ call # None /\ call.op = "interface" /\ call.port = <<r, s>>
  BY DEF Calls, RouterPorts, TopologyConstants
<1>6. pending \in [Workers -> Calls \cup {None}]
  BY <1>3 DEF TypeOK, Calls
<1> HIDE DEF call, ports2
<1>7. InterfacePorts' = ports2
  <2>1. pending'[w] = call /\ \A u \in Workers : u = w
    BY <1>1, <1>6 DEF TopologyConstants
  <2>2. PendingPorts' = {<<r, s>>}
    BY <1>5, <2>1 DEF PendingPorts
  <2> QED BY <1>1, <2>2 DEF InterfacePorts, ports2
<1>8. TypeOK'
  <2>1. pending' \in [Workers -> Calls \cup {None}]
    BY <1>1, <1>5, <1>6
  <2> QED BY <1>1, <1>3, <1>4, <2>1 DEF TypeOK, Calls
<1>9. CallsFit'
  <2>1. \A u \in Workers : pending'[u] # None => pending'[u] \in Calls /\ pending'[u].op = "interface"
    BY <1>1, <1>3, <1>5, <1>6 DEF TopologyConstants
  <2> QED BY <1>1, <1>3, <2>1 DEF CallsFit
<1>10. Good(aim, InterfacePorts)'
  <2>1. ports2 \in SUBSET RouterPorts
    BY <1>3 DEF ports2, TypeOK, RouterPorts
  <2> QED BY <1>1, <1>4, <1>7, <2>1, GoodAfter
<1> QED
  BY <1>8, <1>9, <1>10 DEF RoutedInv

\* Neutron adds the RouterPort row: nothing changes for the driver.
LEMMA InterfaceRecorded ==
  ASSUME TopologyConstants, RoutedInv, NEW w \in Workers, RecordInterface(w)
  PROVE  RoutedInv'
<1>1. /\ pending[w] # None /\ pending[w].op = "interface"
      /\ interfaces' = interfaces \cup {pending[w].port}
      /\ pending' = [pending EXCEPT ![w] = None]
      /\ UNCHANGED <<scopes, scopeOf, gateway, aim>>
  BY DEF RecordInterface
<1>2. TypeOK /\ CallsFit /\ Good(aim, InterfacePorts)
  BY DEF RoutedInv
<1>3. pending \in [Workers -> Calls \cup {None}] /\ \A u \in Workers : u = w
  BY <1>2 DEF TypeOK, Calls, TopologyConstants
<1>4. pending[w].port \in RouterPorts
  BY <1>1, <1>3 DEF Calls
<1>5. InterfacePorts' = InterfacePorts
  <2>1. PendingPorts = {pending[w].port}
    BY <1>1, <1>3 DEF PendingPorts
  <2>2. PendingPorts' = {}
    BY <1>1, <1>3 DEF PendingPorts
  <2> QED BY <1>1, <2>1, <2>2 DEF InterfacePorts
<1>6. TypeOK'
  <2>1. pending' \in [Workers -> Calls \cup {None}]
    BY <1>1, <1>3
  <2> QED BY <1>1, <1>2, <1>4, <2>1 DEF TypeOK, Calls
<1>7. CallsFit'
  <2>1. \A u \in Workers : pending'[u] = None
    BY <1>1, <1>3
  <2> QED BY <1>1, <1>2, <2>1 DEF CallsFit
<1>8. Good(aim, InterfacePorts)'
  BY <1>1, <1>2, <1>5, PortsFit, GoodAfter
<1> QED
  BY <1>6, <1>7, <1>8 DEF RoutedInv

\* delete_port_precommit of an interface port (_remove_router_interface).
LEMMA InterfaceRemoved ==
  ASSUME TopologyConstants, RoutedInv, NEW w \in Workers, NEW r \in Routers, NEW s \in Subnets,
         RemoveInterface(w, r, s)
  PROVE  RoutedInv'
<1> DEFINE n == NetworkOf[s]
           rest == interfaces'
           left == RoutersOn(n, rest)
           mine == NetworkTopology(n, rest)
           theirs == RouterTopology(r, rest)
           old == aim.vrf[n]
           v1 == PartVrf(s, left, TopologyVrf(mine, n))
           v2 == PartVrf(s, theirs, RouterTopologyVrf(theirs))
<1>1. /\ pending[w] = None /\ <<r, s>> \in interfaces
      /\ interfaces' = interfaces \ {<<r, s>>}
      /\ UNCHANGED <<scopes, scopeOf, gateway, pending>>
  BY DEF RemoveInterface
<1>2. /\ PartsFit(mine, theirs, old, v1, v2, rest)
      /\ TakenAway(aim', r, s, left, mine, theirs, old, v1, v2, rest)
  BY DEF RemoveInterface, RemovedAmong, RemoveFrom, TakenAway, PartsFit
<1>3. TypeOK /\ CallsFit /\ Good(aim, interfaces)
  BY <1>1, IdleIs DEF RoutedInv
<1>4. Without(rest, interfaces, r, s)
  BY <1>1 DEF Without
<1>5. aim' \in AimType /\ Good(aim', rest)
  <2>1. /\ scopes \subseteq Scopes /\ scopeOf \in [Pools -> Scopes \cup {None}]
        /\ interfaces \in SUBSET RouterPorts /\ aim \in AimType
    BY <1>3 DEF TypeOK
  <2>2. /\ n = NetworkOf[s] /\ left = RoutersOn(n, rest) /\ old = aim.vrf[n]
        /\ mine = NetworkTopology(n, rest) /\ theirs = RouterTopology(r, rest)
        /\ v1 = PartVrf(s, left, TopologyVrf(mine, n)) /\ v2 = PartVrf(s, theirs, RouterTopologyVrf(theirs))
    OBVIOUS
  <2> HIDE DEF n, rest, left, mine, theirs, old, v1, v2
  <2> QED BY <1>1, <1>2, <1>3, <1>4, <2>1, <2>2, RemovedGood
<1>6. InterfacePorts' = rest
  BY <1>1, IdleIs DEF InterfacePorts, PendingPorts
<1>7. TypeOK' /\ CallsFit'
  BY <1>1, <1>3, <1>5 DEF TypeOK, CallsFit
<1>8. Good(aim, InterfacePorts)'
  <2>1. rest \in SUBSET RouterPorts
    BY <1>1, <1>3 DEF TypeOK
  <2> HIDE DEF rest
  <2> QED BY <1>1, <1>5, <1>6, <2>1, GoodAfter
<1> QED
  BY <1>7, <1>8 DEF RoutedInv

\* What connects an external network changes nothing else.
LEMMA ConnectGood ==
  ASSUME NEW a \in AimType, NEW vs, NEW e, NEW ports \in SUBSET RouterPorts, NEW added \in SUBSET Routers,
         NEW all, Good(a, all), NEW b, b = Connect(a, vs, e, ports, added)
  PROVE  b \in AimType /\ b.vrf = a.vrf /\ Good(b, all) /\ ConnectsTo(b, a, vs, e, ports, added)
<1>1. Kept(a, all)
  BY DEF Good
<1>2. /\ b \in AimType /\ b.vrf = a.vrf /\ b.vrfs = a.vrfs
      /\ ConnectsTo(b, a, vs, e, ports, added) /\ Kept(b, all)
  BY <1>1, ConnectIs
<1>3. VrfsKept(b)
  BY <1>2 DEF Good, VrfsKept
<1> QED
  BY <1>2, <1>3 DEF Good

\* A gateway is on its way, or has gone.
LEMMA GatewayPortsFit ==
  ASSUME TopologyConstants, RoutedInv,
         NEW w \in Workers, NEW call \in Calls \cup {None}, call # None => call.op # "interface",
         pending[w] = None \/ pending[w].op # "interface", pending' = [pending EXCEPT ![w] = call],
         UNCHANGED <<scopes, scopeOf, interfaces>>, aim' \in AimType, Good(aim', InterfacePorts),
         gateway' \in [Routers -> ExtNets \cup {None}],
         call # None => gateway'[call.router] = None
  PROVE  RoutedInv'
<1>1. TypeOK /\ CallsFit
  BY DEF RoutedInv
<1>2. pending \in [Workers -> Calls \cup {None}] /\ \A u \in Workers : u = w
  BY <1>1 DEF TypeOK, Calls, TopologyConstants
<1>3. pending' \in [Workers -> Calls \cup {None}] /\ pending'[w] = call
  BY <1>2
<1>4. TypeOK'
  BY <1>1, <1>3 DEF TypeOK, Calls
<1>5. CallsFit'
  BY <1>1, <1>2, <1>3 DEF CallsFit
<1>6. InterfacePorts' = InterfacePorts
  <2>1. PendingPorts = {}
    BY <1>2 DEF PendingPorts
  <2>2. PendingPorts' = {}
    BY <1>2, <1>3 DEF PendingPorts
  <2> QED BY <2>1, <2>2 DEF InterfacePorts
<1>7. Good(aim, InterfacePorts)'
  BY <1>1, <1>6, PortsFit, GoodAfter
<1> QED
  BY <1>4, <1>5, <1>7 DEF RoutedInv

\* Gateways move no network.
LEMMA GatewayStepFits ==
  ASSUME TopologyConstants, RoutedInv, GatewayStep
  PROVE  RoutedInv'
<1>1. TypeOK /\ CallsFit /\ Good(aim, InterfacePorts)
  BY DEF RoutedInv
<1>2. /\ pending \in [Workers -> Calls \cup {None}] /\ gateway \in [Routers -> ExtNets \cup {None}]
      /\ interfaces \in SUBSET RouterPorts /\ aim \in AimType
  BY <1>1 DEF TypeOK, Calls
<1>3. \A w \in Workers : pending[w] # None => pending[w] \in Calls
  BY <1>2
<1>4. ASSUME NEW w \in Workers, NEW r \in Routers, NEW e \in ExtNets, AddGatewayPort(w, r, e)
      PROVE  RoutedInv'
  <2> DEFINE call == [op |-> "gateway", router |-> r, ext |-> e]
             vs == VrfsForRouter(r, aim.vrf, interfaces)
  <2>1. /\ pending[w] = None /\ gateway[r] = None
        /\ aim' = Connect(aim, vs, e, interfaces, {r}) /\ pending' = [pending EXCEPT ![w] = call]
        /\ UNCHANGED <<scopes, scopeOf, interfaces, gateway>>
    BY <1>4 DEF AddGatewayPort
  <2>2. call \in Calls /\ call.op = "gateway" /\ call.router = r
    BY DEF Calls
  <2> HIDE DEF call, vs
  <2>3. {r} \in SUBSET Routers
    OBVIOUS
  <2>4. aim' \in AimType /\ Good(aim', InterfacePorts)
    BY <1>1, <1>2, <2>1, <2>3, ConnectGood
  <2> QED BY <1>2, <2>1, <2>2, <2>4, GatewayPortsFit
<1>5. ASSUME NEW w \in Workers, RecordGateway(w) PROVE RoutedInv'
  <2> DEFINE gateway2 == [gateway EXCEPT ![pending[w].router] = pending[w].ext]
  <2>1. /\ pending[w] # None /\ pending[w].op = "gateway"
        /\ gateway' = gateway2 /\ pending' = [pending EXCEPT ![w] = None]
        /\ UNCHANGED <<scopes, scopeOf, interfaces, aim>>
    BY <1>5 DEF RecordGateway
  <2>2. pending[w].router \in Routers /\ pending[w].ext \in ExtNets
    BY <1>3, <2>1 DEF Calls
  <2>3. gateway2 \in [Routers -> ExtNets \cup {None}]
    BY <1>2, <2>2
  <2> HIDE DEF gateway2
  <2>4. aim' \in AimType /\ Good(aim', InterfacePorts) /\ None \in Calls \cup {None}
    BY <1>1, <1>2, <2>1
  <2> DEFINE call == None
  <2>5. call \in Calls \cup {None} /\ call = None
    OBVIOUS
  <2> HIDE DEF call
  <2> QED BY <2>1, <2>3, <2>4, <2>5, GatewayPortsFit
<1>6. ASSUME NEW w \in Workers, DeleteGatewayPort(w) PROVE RoutedInv'
  <2> DEFINE vs == VrfsForRouter(pending[w].router, aim.vrf, interfaces)
  <2>1. /\ pending[w] # None /\ pending[w].op \in {"gateway", "ungateway"}
        /\ aim' = Connect(aim, vs, pending[w].ext, interfaces, {}) /\ pending' = [pending EXCEPT ![w] = None]
        /\ UNCHANGED <<scopes, scopeOf, interfaces, gateway>>
    BY <1>6 DEF DeleteGatewayPort
  <2> HIDE DEF vs
  <2>2. {} \in SUBSET Routers
    OBVIOUS
  <2>3. aim' \in AimType /\ Good(aim', InterfacePorts)
    BY <1>1, <1>2, <2>1, <2>2, ConnectGood
  <2> DEFINE call == None
  <2>4. call \in Calls \cup {None} /\ call = None
    OBVIOUS
  <2> HIDE DEF call
  <2> QED BY <1>2, <2>1, <2>3, <2>4, GatewayPortsFit
<1>7. ASSUME NEW w \in Workers, NEW r \in Routers, ClearGateway(w, r) PROVE RoutedInv'
  <2> DEFINE call == [op |-> "ungateway", router |-> r, ext |-> gateway[r]]
             gateway2 == [gateway EXCEPT ![r] = None]
  <2>1. /\ pending[w] = None /\ gateway[r] # None
        /\ pending' = [pending EXCEPT ![w] = call] /\ gateway' = gateway2
        /\ UNCHANGED <<scopes, scopeOf, interfaces, aim>>
    BY <1>7 DEF ClearGateway
  <2>2. gateway2 \in [Routers -> ExtNets \cup {None}] /\ gateway2[r] = None
    BY <1>2
  <2>3. call \in Calls /\ call.op = "ungateway" /\ call.router = r
    BY <1>2, <2>1 DEF Calls
  <2> HIDE DEF call, gateway2
  <2>4. aim' \in AimType /\ Good(aim', InterfacePorts)
    BY <1>1, <1>2, <2>1
  <2> QED BY <2>1, <2>2, <2>3, <2>4, GatewayPortsFit
<1> QED
  BY <1>4, <1>5, <1>6, <1>7 DEF GatewayStep

\* A network without interfaces comes or goes.
LEMMA IdleNetwork ==
  ASSUME TopologyConstants, NEW ports, NEW n \in Networks, InterfacesOf(n, ports) = {},
         NEW map, Placed(map, ports), Apart(map, ports),
         NEW map2, NEW v, v \notin DefaultVrfs, v \in {None, UnroutedVrf},
         \A x \in Networks : map2[x] = IF x = n THEN v ELSE map[x],
         \A p \in ports : NetworkOf[p[2]] \in Networks
  PROVE  Placed(map2, ports) /\ Apart(map2, ports) /\ Used(map2) = Used(map)
<1>1. \A p \in ports : NetworkOf[p[2]] # n
  BY DEF InterfacesOf
<1>2. \A p \in ports : map2[NetworkOf[p[2]]] = map[NetworkOf[p[2]]]
  BY <1>1
<1>3. \A x \in Open(ports) : map2[x] = map[x]
  BY <1>2 DEF Open
<1>4. Placed(map2, ports)
  <2>1. \A x \in Networks : InterfacesOf(x, ports) = {} => map2[x] \in {None, UnroutedVrf}
    BY DEF Placed
  <2>2. /\ \A p \in ports : IF Unscoped(p[2]) THEN map2[NetworkOf[p[2]]] \in DefaultVrfs
                            ELSE map2[NetworkOf[p[2]]] = ScopeVrf[ScopeOfSubnet(p[2])]
        /\ \A p, q \in ports : p[1] = q[1] /\ Unscoped(p[2]) /\ Unscoped(q[2])
                                 => map2[NetworkOf[p[2]]] = map2[NetworkOf[q[2]]]
    BY <1>2 DEF Placed
  <2>3. \A x \in Open(ports) :
          /\ x \in Shared => map2[x] = DefaultVrf(Owner[x])
          /\ \A nets \in SUBSET Networks :
               x \in nets /\ nets \cap Shared = {} /\ Walled(nets, ports) => map2[x] = DefaultVrf(Owner[x])
    BY <1>3 DEF Placed
  <2> QED BY <2>1, <2>2, <2>3 DEF Placed
<1>5. Apart(map2, ports)
  <2> SUFFICES ASSUME NEW d \in DefaultVrfs PROVE ~OverlapIn(d, map2, ports, {})
    BY DEF Apart
  <2>1. ~OverlapIn(d, map, ports, {})
    BY DEF Apart
  <2>2. \A p \in ports : map2[NetworkOf[p[2]]] = d => p \in ports /\ map[NetworkOf[p[2]]] = d
    BY <1>2
  <2> QED BY <2>1, <2>2, FewerApart
<1>6. map[n] \notin DefaultVrfs
  <2>1. map[n] \in {None, UnroutedVrf}
    BY DEF Placed
  <2>2. None \notin DefaultVrfs /\ UnroutedVrf \notin DefaultVrfs
    BY VrfFacts
  <2> QED BY <2>1, <2>2
<1>7. Used(map2) = Used(map)
  <2>1. \A d \in DefaultVrfs, x \in Networks : map2[x] = d <=> map[x] = d
    BY <1>6
  <2> QED BY <2>1 DEF Used
<1> QED
  BY <1>4, <1>5, <1>7

\* Nothing but the scopes, the networks and AIM changes while no call is under way.
LEMMA ResourceFits ==
  ASSUME RoutedInv, UNCHANGED <<interfaces, gateway, pending>>,
         scopes' \in SUBSET Scopes, scopeOf' \in [Pools -> Scopes \cup {None}],
         \A p \in Pools : scopeOf'[p] \in scopes' \cup {None}, aim' \in AimType,
         \A p \in InterfacePorts : ScopeOfSubnet(p[2])' = ScopeOfSubnet(p[2]),
         Placed(aim'.vrf, InterfacePorts), Kept(aim', InterfacePorts), Apart(aim'.vrf, InterfacePorts),
         VrfsKept(aim)'
  PROVE  RoutedInv'
<1>1. TypeOK /\ CallsFit /\ Good(aim, InterfacePorts)
  BY DEF RoutedInv
<1>2. TypeOK' /\ CallsFit'
  BY <1>1 DEF TypeOK, CallsFit
<1>3. InterfacePorts' = InterfacePorts
  BY DEF InterfacePorts, PendingPorts
<1>4. InterfacePorts \in SUBSET RouterPorts /\ Permitted(InterfacePorts) /\ OneIsShared(InterfacePorts)
  BY <1>1, PortsFit DEF Good
<1>5. Good(aim, InterfacePorts)'
  BY <1>3, <1>4, PlacedAfter
<1> QED
  BY <1>2, <1>5 DEF RoutedInv

\* The VRF of scopes is there while one of them is.
LEMMA ScopesFit ==
  ASSUME TopologyConstants, RoutedInv, NEW c \in Scopes, CreateScope(c) \/ DeleteScope(c)
  PROVE  RoutedInv'
<1>1. TypeOK /\ CallsFit /\ Good(aim, InterfacePorts)
  BY DEF RoutedInv
<1>2. /\ scopes \in SUBSET Scopes /\ scopeOf \in [Pools -> Scopes \cup {None}] /\ aim \in AimType
      /\ \A p \in Pools : scopeOf[p] \in scopes \cup {None}
  BY <1>1 DEF TypeOK, CallsFit
<1>3. /\ Placed(aim.vrf, InterfacePorts) /\ Kept(aim, InterfacePorts) /\ Apart(aim.vrf, InterfacePorts)
      /\ VrfsKept(aim)
  BY <1>1 DEF Good
<1>4. UNCHANGED <<scopeOf, interfaces, gateway, pending>>
  BY DEF CreateScope, DeleteScope
<1>5. \A p \in InterfacePorts : ScopeOfSubnet(p[2])' = ScopeOfSubnet(p[2])
  BY <1>4 DEF ScopeOfSubnet
<1>6. /\ ScopeVrf[c] \in ScopeVrfs /\ ScopeVrf[c] \in Vrfs \ {UnroutedVrf} /\ ScopeVrf[c] \notin DefaultVrfs
  BY VrfFacts
<1>7. CASE CreateScope(c)
  <2>1. scopes' = scopes \cup {c} /\ aim' = Ensure(aim, ScopeVrf[c])
    BY <1>7 DEF CreateScope
  <2> DEFINE v == ScopeVrf[c]
             b == Ensure(aim, v)
  <2>2. v \in Vrfs \ {UnroutedVrf}
    BY <1>6
  <2> HIDE DEF v
  <2>3. b \in AimType /\ b.vrf = aim.vrf /\ b.vrfs = aim.vrfs \cup {v} /\ Kept(b, InterfacePorts)
    BY <1>2, <1>3, <2>2, EnsureIs
  <2> HIDE DEF b
  <2>4. aim' = b
    BY <2>1 DEF b, v
  <2>5. VrfsKept(aim)'
    <3>1. {ScopeVrf[d] : d \in scopes'} = {ScopeVrf[d] : d \in scopes} \cup {v}
      BY <2>1 DEF v
    <3>2. b.vrfs = ({b.vrf[n] : n \in Networks} \cap DefaultVrfs) \cup {ScopeVrf[d] : d \in scopes'}
      BY <1>3, <2>3, <3>1 DEF VrfsKept
    <3> QED BY <2>4, <3>2 DEF VrfsKept
  <2>6. /\ Placed(aim'.vrf, InterfacePorts) /\ Kept(aim', InterfacePorts) /\ Apart(aim'.vrf, InterfacePorts)
        /\ aim' \in AimType /\ scopes' \in SUBSET Scopes
    BY <1>2, <1>3, <2>1, <2>3, <2>4
  <2> QED BY <1>2, <1>4, <1>5, <2>1, <2>5, <2>6, ResourceFits
<1>8. CASE DeleteScope(c)
  <2>1. /\ c \in scopes /\ (\A p \in Pools : scopeOf[p] # c) /\ scopes' = scopes \ {c}
        /\ aim' = IF Isomorphic(c) = {c} THEN [aim EXCEPT !.vrfs = @ \ {ScopeVrf[c]}] ELSE aim
    BY <1>8 DEF DeleteScope
  <2>2. /\ aim' \in AimType /\ aim'.vrf = aim.vrf /\ aim'.tenant = aim.tenant
        /\ aim'.contracts = aim.contracts /\ aim'.subnets = aim.subnets
        /\ aim'.vrfs = IF Isomorphic(c) = {c} THEN aim.vrfs \ {ScopeVrf[c]} ELSE aim.vrfs
    BY <1>2, <2>1 DEF AimType
  <2>3. VrfsKept(aim)'
    <3> DEFINE before == {ScopeVrf[d] : d \in scopes}
               after == {ScopeVrf[d] : d \in scopes'}
               used == {aim.vrf[n] : n \in Networks} \cap DefaultVrfs
    <3>1. aim.vrfs = used \cup before
      BY <1>3 DEF VrfsKept
    <3>2. after = IF Isomorphic(c) = {c} THEN before \ {ScopeVrf[c]} ELSE before
      <4>1. CASE Isomorphic(c) = {c}
        <5>1. \A d \in scopes : ScopeVrf[d] = ScopeVrf[c] <=> d = c
          BY <2>1, <4>1 DEF Isomorphic
        <5> QED BY <2>1, <4>1, <5>1
      <4>2. CASE Isomorphic(c) # {c}
        <5>1. PICK d \in scopes : ScopeVrf[d] = ScopeVrf[c] /\ d # c
          BY <2>1, <4>2 DEF Isomorphic
        <5>2. d \in scopes'
          BY <2>1, <5>1
        <5> QED BY <2>1, <4>2, <5>1, <5>2
      <4> QED BY <4>1, <4>2
    <3>3. ScopeVrf[c] \notin used
      BY <1>6
    <3> HIDE DEF before, after, used
    <3>4. aim'.vrfs = used \cup after
      BY <2>2, <3>1, <3>2, <3>3
    <3> QED BY <2>2, <3>4 DEF VrfsKept, used, after
  <2>4. Kept(aim', InterfacePorts)
    BY <1>3, <2>2 DEF Kept
  <2>5. Placed(aim'.vrf, InterfacePorts) /\ Apart(aim'.vrf, InterfacePorts)
    BY <1>3, <2>2
  <2>6. scopes' \in SUBSET Scopes /\ \A p \in Pools : scopeOf'[p] \in scopes' \cup {None}
    BY <1>2, <1>4, <2>1
  <2> QED BY <1>2, <1>4, <1>5, <2>2, <2>3, <2>4, <2>5, <2>6, ResourceFits
<1> QED
  BY <1>7, <1>8

\* A pool changes its scope when none of its subnets is routed.
LEMMA PoolFits ==
  ASSUME TopologyConstants, RoutedInv, NEW w \in Workers, pending[w] = None,
         NEW p \in Pools, NEW c \in Scopes \cup {None}, UpdatePoolScope(p, c)
  PROVE  RoutedInv'
<1>1. TypeOK /\ CallsFit /\ Good(aim, InterfacePorts) /\ InterfacePorts = interfaces
  BY IdleIs DEF RoutedInv
<1>2. /\ scopes \in SUBSET Scopes /\ scopeOf \in [Pools -> Scopes \cup {None}] /\ aim \in AimType
      /\ \A q \in Pools : scopeOf[q] \in scopes \cup {None}
      /\ interfaces \in SUBSET RouterPorts
  BY <1>1 DEF TypeOK, CallsFit
<1>3. /\ c \in scopes \cup {None} /\ \A i \in interfaces : PoolOf[i[2]] # p
      /\ scopeOf' = [scopeOf EXCEPT ![p] = c]
      /\ UNCHANGED <<scopes, interfaces, gateway, pending, aim>>
  BY DEF UpdatePoolScope
<1>4. ASSUME NEW i \in interfaces PROVE ScopeOfSubnet(i[2])' = ScopeOfSubnet(i[2])
  <2>1. PoolOf[i[2]] # p /\ PoolOf[i[2]] \in Pools \cup {None}
    BY <1>2, <1>3, TopologyAssumption DEF RouterPorts
  <2> QED BY <1>2, <1>3, <2>1 DEF ScopeOfSubnet
<1>5. /\ Placed(aim.vrf, InterfacePorts) /\ Kept(aim, InterfacePorts) /\ Apart(aim.vrf, InterfacePorts)
      /\ VrfsKept(aim)
  BY <1>1 DEF Good
<1>6. VrfsKept(aim)'
  BY <1>3, <1>5 DEF VrfsKept
<1>7. /\ scopes' \in SUBSET Scopes /\ scopeOf' \in [Pools -> Scopes \cup {None}]
      /\ \A q \in Pools : scopeOf'[q] \in scopes' \cup {None}
  BY <1>2, <1>3
<1>8. \A i \in InterfacePorts : ScopeOfSubnet(i[2])' = ScopeOfSubnet(i[2])
  BY <1>1, <1>4
<1>9. /\ Placed(aim'.vrf, InterfacePorts) /\ Kept(aim', InterfacePorts) /\ Apart(aim'.vrf, InterfacePorts)
      /\ aim' \in AimType /\ UNCHANGED <<interfaces, gateway, pending>>
  BY <1>2, <1>3, <1>5
<1> QED
  BY <1>6, <1>7, <1>8, <1>9, ResourceFits

\* Networks come and go without interfaces.
LEMMA NetworksFit ==
  ASSUME TopologyConstants, RoutedInv, NEW w \in Workers, pending[w] = None,
         NEW n \in Networks, CreateNetwork(n) \/ DeleteNetwork(n)
  PROVE  RoutedInv'
<1>1. TypeOK /\ CallsFit /\ Good(aim, interfaces) /\ InterfacePorts = interfaces
  BY IdleIs DEF RoutedInv
<1>2. /\ scopes \in SUBSET Scopes /\ scopeOf \in [Pools -> Scopes \cup {None}] /\ aim \in AimType
      /\ \A q \in Pools : scopeOf[q] \in scopes \cup {None}
      /\ interfaces \in SUBSET RouterPorts
  BY <1>1 DEF TypeOK, CallsFit
<1>3. /\ Placed(aim.vrf, interfaces) /\ Kept(aim, interfaces) /\ Apart(aim.vrf, interfaces)
      /\ VrfsKept(aim)
  BY <1>1 DEF Good
<1>4. UNCHANGED <<scopes, scopeOf, interfaces, gateway, pending>>
  BY DEF CreateNetwork, DeleteNetwork
<1>5. \A p \in interfaces : NetworkOf[p[2]] \in Networks
  BY <1>2, TopologyAssumption DEF RouterPorts
<1>6. None \notin Vrfs /\ None \notin DefaultVrfs /\ UnroutedVrf \notin DefaultVrfs /\ UnroutedVrf \in Vrfs
      /\ UnroutedVrf.tenant = "common" /\ Owner[n] \in Tenants
  BY VrfFacts
<1>7. InterfacesOf(n, interfaces) = {}
  <2>1. CASE CreateNetwork(n)
    <3>1. aim.vrf[n] = None
      BY <2>1 DEF CreateNetwork
    <3> SUFFICES ASSUME NEW p \in interfaces, NetworkOf[p[2]] = n PROVE FALSE
      BY DEF InterfacesOf
    <3>2. aim.vrf[n] \in DefaultVrfs \/ (aim.vrf[n] = ScopeVrf[ScopeOfSubnet(p[2])] /\ ~Unscoped(p[2]))
      BY <1>3 DEF Placed
    <3>3. ~Unscoped(p[2]) => ScopeOfSubnet(p[2]) \in Scopes
      BY <1>2, TopologyAssumption DEF Unscoped, ScopeOfSubnet, RouterPorts
    <3>4. \A d \in Scopes : ScopeVrf[d] \in ScopeVrfs /\ ScopeVrfs \subseteq Vrfs
      BY VrfFacts
    <3> QED BY <1>6, <3>1, <3>2, <3>3, <3>4
  <2>2. CASE DeleteNetwork(n)
    BY <2>2 DEF DeleteNetwork
  <2> QED BY <2>1, <2>2
<1>8. \E v \in {None, UnroutedVrf} :
        /\ aim' \in AimType /\ aim'.vrf = [aim.vrf EXCEPT ![n] = v] /\ aim'.vrfs = aim.vrfs
        /\ Kept(aim', interfaces)
  <2>1. CASE CreateNetwork(n)
    <3>1. aim' = Remap(aim, n, UnroutedVrf, Owner[n])
      BY <2>1 DEF CreateNetwork
    <3> DEFINE v == UnroutedVrf
               t == Owner[n]
               k == Remap(aim, n, v, t)
    <3>2. v \in Vrfs /\ t \in Tenants /\ t = IF v.tenant = "common" THEN Owner[n] ELSE v.tenant
      BY <1>6
    <3> HIDE DEF v, t
    <3>3. k \in AimType /\ k.vrf = [aim.vrf EXCEPT ![n] = v] /\ k.vrfs = aim.vrfs /\ Kept(k, interfaces)
      BY <1>2, <1>3, <1>7, <3>2, RemapIs
    <3> HIDE DEF k
    <3>4. aim' = k /\ v = UnroutedVrf
      BY <3>1 DEF k, v, t
    <3> QED BY <3>3, <3>4
  <2>2. CASE DeleteNetwork(n)
    <3>1. aim' = [Remap(aim, n, None, None) EXCEPT !.contracts[n] = {}]
      BY <2>2 DEF DeleteNetwork
    <3>2. aim.contracts[n] = {}
      BY <1>3, <1>7 DEF Kept, RoutersOn
    <3>3. /\ aim' \in AimType /\ aim'.vrf = [aim.vrf EXCEPT ![n] = None]
          /\ aim'.tenant = [aim.tenant EXCEPT ![n] = None]
          /\ aim'.contracts = [aim.contracts EXCEPT ![n] = {}]
          /\ aim'.subnets = aim.subnets /\ aim'.vrfs = aim.vrfs
      BY <1>2, <3>1 DEF Remap, AimType
    <3>4. aim.contracts \in [Networks -> SUBSET Routers] /\ aim.vrf \in [Networks -> Vrfs \cup {None}]
          /\ aim.tenant \in [Networks -> Tenants \cup {None}]
      BY <1>2, AimFields
    <3>5. /\ \A x \in Networks : aim'.vrf[x] = IF x = n THEN None ELSE aim.vrf[x]
          /\ \A x \in Networks : aim'.tenant[x] = IF x = n THEN None ELSE aim.tenant[x]
          /\ \A x \in Networks : aim'.contracts[x] = aim.contracts[x]
      BY <3>2, <3>3, <3>4
    <3>6. \A p \in interfaces : NetworkOf[p[2]] # n
      BY <1>7 DEF InterfacesOf
    <3>7. \A p \in interfaces : aim'.tenant[NetworkOf[p[2]]] = aim.tenant[NetworkOf[p[2]]]
      BY <1>5, <3>5, <3>6
    <3>8. Kept(aim', interfaces)
      <4>1. aim'.subnets = {<<p[1], p[2], aim'.tenant[NetworkOf[p[2]]]>> : p \in interfaces}
        BY <1>3, <3>3, <3>7 DEF Kept
      <4>2. \A x \in Networks :
              /\ aim'.vrf[x] # None =>
                   aim'.tenant[x] = IF aim'.vrf[x].tenant = "common" THEN Owner[x] ELSE aim'.vrf[x].tenant
              /\ aim'.contracts[x] = RoutersOn(x, interfaces)
        BY <1>3, <3>5 DEF Kept
      <4> QED BY <4>1, <4>2 DEF Kept
    <3> QED BY <3>3, <3>8
  <2> QED BY <2>1, <2>2
<1>9. PICK v \in {None, UnroutedVrf} :
        /\ aim' \in AimType /\ aim'.vrf = [aim.vrf EXCEPT ![n] = v] /\ aim'.vrfs = aim.vrfs
        /\ Kept(aim', interfaces)
  BY <1>8
<1>10. \A x \in Networks : aim'.vrf[x] = IF x = n THEN v ELSE aim.vrf[x]
  BY <1>2, <1>9, AimFields
<1>11. Placed(aim'.vrf, interfaces) /\ Apart(aim'.vrf, interfaces) /\ Used(aim'.vrf) = Used(aim.vrf)
  BY <1>3, <1>5, <1>6, <1>7, <1>10, IdleNetwork
<1>12. VrfsKept(aim)'
  BY <1>3, <1>4, <1>9, <1>11 DEF VrfsKept, Used
<1>13. \A p \in interfaces : ScopeOfSubnet(p[2])' = ScopeOfSubnet(p[2])
  BY <1>4 DEF ScopeOfSubnet
<1> QED
  BY <1>1, <1>2, <1>4, <1>9, <1>11, <1>12, <1>13, ResourceFits

\* The invariant holds at the start,
LEMMA RoutedInit ==
  ASSUME TopologyConstants, Init
  PROVE  RoutedInv
<1>1. \A w \in Workers : pending[w] = None
  BY DEF Init
<1>2. interfaces = {} /\ PendingPorts = {}
  BY <1>1 DEF Init, PendingPorts
<1>3. InterfacePorts = {}
  BY <1>2 DEF InterfacePorts
<1>4. /\ aim.vrf = [n \in Networks |-> None] /\ aim.tenant = [n \in Networks |-> None]
      /\ aim.contracts = [n \in Networks |-> {}] /\ aim.subnets = {} /\ aim.vrfs = {}
      /\ aim \in AimType /\ scopes = {}
  BY DEF Init, AimType
<1>5. TypeOK
  BY <1>4 DEF Init, TypeOK
<1>6. CallsFit
  BY <1>1 DEF CallsFit, Init
<1>7. Permitted({}) /\ OneIsShared({})
  BY DEF Permitted, OneIsShared
<1>8. Placed(aim.vrf, {})
  BY <1>4 DEF Placed, Open
<1>9. Kept(aim, {})
  <2>1. \A n \in Networks : RoutersOn(n, {}) = {}
    BY DEF RoutersOn, InterfacesOf
  <2> QED BY <1>4, <2>1 DEF Kept
<1>10. VrfsKept(aim)
  <2>1. \A n \in Networks : aim.vrf[n] \notin DefaultVrfs
    BY <1>4, VrfFacts
  <2> QED BY <1>4, <2>1 DEF VrfsKept
<1>11. Apart(aim.vrf, {})
  BY DEF Apart, OverlapIn
<1> QED
  BY <1>3, <1>5, <1>6, <1>7, <1>8, <1>9, <1>10, <1>11 DEF RoutedInv, Good

\* and in every step.
LEMMA RoutedNext ==
  ASSUME TopologyConstants, RoutedInv, [Next]_vars
  PROVE  RoutedInv'
<1>1. CASE InterfaceStep
  <2>1. ASSUME NEW w \in Workers, NEW p \in RouterPorts, AddInterface(w, p[1], p[2]) \/ RemoveInterface(w, p[1], p[2])
        PROVE  RoutedInv'
    <3>1. p[1] \in Routers /\ p[2] \in Subnets
      BY DEF RouterPorts
    <3> QED BY <2>1, <3>1, InterfaceAdded, InterfaceRemoved
  <2>2. ASSUME NEW w \in Workers, RecordInterface(w) PROVE RoutedInv'
    BY <2>2, InterfaceRecorded
  <2> QED BY <1>1, <2>1, <2>2 DEF InterfaceStep
<1>2. CASE GatewayStep
  BY <1>2, GatewayStepFits
<1>3. CASE ResourceStep
  <2>1. PICK w \in Workers : pending[w] = None
    BY <1>3 DEF ResourceStep
  <2> QED BY <1>3, <2>1, ScopesFit, PoolFits, NetworksFit DEF ResourceStep
<1>4. CASE UNCHANGED vars
  <2>1. /\ scopes' = scopes /\ scopeOf' = scopeOf /\ interfaces' = interfaces /\ gateway' = gateway
        /\ pending' = pending /\ aim' = aim
    BY <1>4 DEF vars
  <2>2. InterfacePorts' = InterfacePorts
    BY <2>1 DEF InterfacePorts, PendingPorts
  <2>3. TypeOK' /\ CallsFit'
    BY <2>1 DEF RoutedInv, TypeOK, CallsFit
  <2>4. Good(aim, InterfacePorts)'
    BY <2>1, <2>2, PortsFit, GoodAfter DEF RoutedInv
  <2> QED BY <2>3, <2>4 DEF RoutedInv
<1> QED
  BY <1>1, <1>2, <1>3, <1>4 DEF Next

--------------------
(* What the invariant says of a valid topology *)

\* The validation tool joins what the driver walks.
LEMMA JoinedIs ==
  ASSUME NEW ports \in SUBSET RouterPorts, ports = InterfacePorts, NEW map, Uniform(map, ports)
  PROVE  /\ UnscopedNetworks = Open(ports)
         /\ \A nets \in SUBSET Open(ports) :
              Walled(nets, ports) <=>
                \A a \in nets, b \in UnscopedNetworks :
                  RoutersOn(a, InterfacePorts) \cap RoutersOn(b, InterfacePorts) # {} => b \in nets
<1>1. /\ \A p \in ports : NetworkOf[p[2]] \in Open(ports) <=> Unscoped(p[2])
      /\ Open(ports) \in SUBSET Networks
      /\ \A n \in Open(ports) : \E q \in ports : Unscoped(q[2]) /\ n = NetworkOf[q[2]]
  BY OpenIs
<1>2. ASSUME NEW n \in Networks PROVE n \in UnscopedNetworks <=> n \in Open(ports)
  <2>1. CASE n \in Open(ports)
    <3>1. InterfacesOf(n, InterfacePorts) # {}
      BY <1>1, <2>1 DEF InterfacesOf
    <3>2. \A p \in InterfacesOf(n, InterfacePorts) : ScopeOfSubnet(p[2]) = None
      BY <1>1, <2>1 DEF InterfacesOf, Unscoped
    <3> QED BY <2>1, <3>1, <3>2 DEF UnscopedNetworks, ScopesOn
  <2>2. CASE n \in UnscopedNetworks
    <3>1. PICK p \in ports : NetworkOf[p[2]] = n
      BY <2>2 DEF UnscopedNetworks, InterfacesOf
    <3>2. ScopeOfSubnet(p[2]) = None
      BY <2>2, <3>1 DEF UnscopedNetworks, ScopesOn, InterfacesOf
    <3>3. Unscoped(p[2])
      BY <3>2 DEF Unscoped
    <3>4. NetworkOf[p[2]] \in Open(ports)
      BY <1>1, <3>1, <3>3
    <3> QED BY <2>2, <3>1, <3>4
  <2> QED BY <2>1, <2>2
<1>3. UnscopedNetworks = Open(ports)
  BY <1>1, <1>2 DEF UnscopedNetworks
<1>4. ASSUME NEW nets \in SUBSET Open(ports), Walled(nets, ports), NEW a \in nets, NEW b \in Open(ports),
             RoutersOn(a, ports) \cap RoutersOn(b, ports) # {}
      PROVE  b \in nets
  <2>1. PICK r \in RoutersOn(a, ports) : r \in RoutersOn(b, ports)
    BY <1>4
  <2>2. PICK p \in ports : NetworkOf[p[2]] = a /\ p[1] = r
    BY <2>1 DEF RoutersOn, InterfacesOf
  <2>3. PICK q \in ports : NetworkOf[q[2]] = b /\ q[1] = r
    BY <2>1 DEF RoutersOn, InterfacesOf
  <2>4. Unscoped(q[2])
    BY <1>1, <2>3
  <2> QED BY <1>4, <2>2, <2>3, <2>4 DEF Walled
<1>5. ASSUME NEW nets \in SUBSET Open(ports),
             \A a \in nets, b \in Open(ports) : RoutersOn(a, ports) \cap RoutersOn(b, ports) # {} => b \in nets,
             NEW p \in ports, NEW q \in ports, NetworkOf[p[2]] \in nets, p[1] = q[1], Unscoped(q[2])
      PROVE  NetworkOf[q[2]] \in nets
  <2>1. NetworkOf[q[2]] \in Open(ports)
    BY <1>1, <1>5
  <2>2. p[1] \in RoutersOn(NetworkOf[p[2]], ports) /\ q[1] \in RoutersOn(NetworkOf[q[2]], ports)
    BY DEF RoutersOn, InterfacesOf
  <2> QED BY <1>5, <2>1, <2>2
<1> QED
  BY <1>3, <1>4, <1>5 DEF Walled

\* Every network is in the VRF that its topology calls for.
LEMMA VrfsAreValid ==
  ASSUME TopologyConstants, RoutedInv
  PROVE  ValidVrfs
<1> DEFINE ports == InterfacePorts
           map == aim.vrf
<1>1. /\ TypeOK /\ Placed(map, ports) /\ ports \in SUBSET RouterPorts
      /\ scopeOf \in [Pools -> Scopes \cup {None}]
  BY PortsFit DEF RoutedInv, Good, TypeOK
<1> HIDE DEF map
<1>2. Uniform(map, ports)
  BY <1>1, PlacedIsUniform
<1>3. /\ UnscopedNetworks = Open(ports)
      /\ \A nets \in SUBSET Open(ports) :
           Walled(nets, ports) <=>
             \A a \in nets, b \in UnscopedNetworks :
               RoutersOn(a, InterfacePorts) \cap RoutersOn(b, InterfacePorts) # {} => b \in nets
  BY <1>1, <1>2, JoinedIs
<1>4. Open(ports) \in SUBSET Networks /\ Walled(Open(ports), ports)
      /\ \A p \in ports : NetworkOf[p[2]] \in Open(ports) <=> Unscoped(p[2])
  BY <1>1, <1>2, OpenIs
<1>5. \A n, m : Joined(n, m) <=> \A nets \in SUBSET Open(ports) : n \in nets /\ Walled(nets, ports) => m \in nets
  BY <1>3 DEF Joined
<1>6. SUFFICES ASSUME NEW n \in Networks, map[n] # None PROVE ExpectedVrfs(n) = {map[n]}
  BY DEF ValidVrfs, ExistingNetworks, map
<1>7. CASE InterfacesOf(n, ports) = {}
  <2>1. map[n] = UnroutedVrf
    BY <1>1, <1>6, <1>7 DEF Placed
  <2> QED BY <1>7, <2>1 DEF ExpectedVrfs
<1>8. CASE InterfacesOf(n, ports) # {} /\ ScopesOn(n) # {}
  <2>1. \A c \in ScopesOn(n) : ScopeVrf[c] = map[n]
    <3> SUFFICES ASSUME NEW p \in ports, NetworkOf[p[2]] = n, ScopeOfSubnet(p[2]) # None
                 PROVE  ScopeVrf[ScopeOfSubnet(p[2])] = map[n]
      BY DEF ScopesOn, InterfacesOf
    <3> QED BY <1>1 DEF Placed, Unscoped
  <2>2. ExpectedVrfs(n) = {ScopeVrf[c] : c \in ScopesOn(n)}
    BY <1>8 DEF ExpectedVrfs
  <2> QED BY <1>8, <2>1, <2>2
<1>9. CASE InterfacesOf(n, ports) # {} /\ ScopesOn(n) = {}
  <2> DEFINE J == {m \in UnscopedNetworks : Joined(n, m)}
             shared == {m \in UnscopedNetworks \cap Shared : Joined(n, m)}
  <2>1. n \in Open(ports)
    BY <1>3, <1>9 DEF UnscopedNetworks
  <2>2. J \in SUBSET Networks /\ n \in J
    BY <1>3, <1>4, <1>5, <2>1
  <2>3. Walled(J, ports)
    <3> SUFFICES ASSUME NEW p \in ports, NEW q \in ports, NetworkOf[p[2]] \in J, p[1] = q[1], Unscoped(q[2])
                 PROVE  NetworkOf[q[2]] \in J
      BY DEF Walled
    <3>1. NetworkOf[q[2]] \in UnscopedNetworks
      BY <1>3, <1>4
    <3>2. ASSUME NEW nets \in SUBSET Open(ports), n \in nets, Walled(nets, ports)
          PROVE  NetworkOf[q[2]] \in nets
      <4>1. NetworkOf[p[2]] \in nets
        BY <1>5, <3>2
      <4> QED BY <3>2, <4>1 DEF Walled
    <3>3. Joined(n, NetworkOf[q[2]])
      BY <1>5, <3>2
    <3> QED BY <3>1, <3>3
  <2>4. \A m \in J : map[m] = map[n]
    <3> DEFINE C == {x \in Open(ports) : map[x] = map[n]}
    <3>1. Walled(C, ports)
      <4> SUFFICES ASSUME NEW p \in ports, NEW q \in ports, NetworkOf[p[2]] \in C, p[1] = q[1], Unscoped(q[2])
                   PROVE  NetworkOf[q[2]] \in C
        BY DEF Walled
      <4>1. Unscoped(p[2]) /\ NetworkOf[q[2]] \in Open(ports)
        BY <1>4
      <4> QED BY <1>1, <4>1 DEF Placed
    <3>2. n \in C /\ C \in SUBSET Open(ports)
      BY <2>1
    <3> HIDE DEF C
    <3>3. \A m \in J : m \in C
      BY <1>5, <3>1, <3>2
    <3> QED BY <3>3 DEF C
  <2>5. ExpectedVrfs(n) = {DefaultVrf(Owner[m]) : m \in IF shared = {} THEN {n} ELSE shared}
    BY <1>9 DEF ExpectedVrfs
  <2>6. CASE shared = {}
    <3>1. J \cap Shared = {}
      BY <2>6
    <3> HIDE DEF J
    <3>2. map[n] = DefaultVrf(Owner[n])
      BY <1>1, <2>1, <2>2, <2>3, <3>1 DEF Placed
    <3> QED BY <2>5, <2>6, <3>2
  <2>7. CASE shared # {}
    <3>1. \A m \in shared : DefaultVrf(Owner[m]) = map[n]
      <4> SUFFICES ASSUME NEW m \in shared PROVE DefaultVrf(Owner[m]) = map[n]
        OBVIOUS
      <4>1. m \in Open(ports) /\ m \in Shared /\ m \in J
        BY <1>3
      <4> QED BY <1>1, <2>4, <4>1 DEF Placed
    <3> QED BY <2>5, <2>7, <3>1
  <2> QED BY <2>6, <2>7
<1> QED
  BY <1>7, <1>8, <1>9

\* Its bridge domain, its subnets and its contracts are those of its interfaces.
LEMMA NetworksAreValid ==
  ASSUME RoutedInv
  PROVE  ValidNetworks
<1>1. Kept(aim, InterfacePorts)
  BY DEF RoutedInv, Good
<1> QED BY <1>1 DEF Kept, ValidNetworks, ExistingNetworks, ExpectedTenant

\* AIM has the default VRFs in use and those of the scopes.
LEMMA VrfResourcesAreValid ==
  ASSUME TopologyConstants, RoutedInv
  PROVE  ValidVrfResources
<1>1. VrfsKept(aim)
  BY DEF RoutedInv, Good
<1>2. None \notin DefaultVrfs
  BY VrfFacts
<1>3. {aim.vrf[n] : n \in ExistingNetworks} \cap DefaultVrfs = {aim.vrf[n] : n \in Networks} \cap DefaultVrfs
  BY <1>2 DEF ExistingNetworks
<1> QED BY <1>1, <1>3 DEF VrfsKept, ValidVrfResources

\* Unshared topologies of one project are in one VRF.
LEMMA InterfacesAreShared ==
  ASSUME TopologyConstants, RoutedInv
  PROVE  InterfacesShare
<1>1. /\ OneIsShared(InterfacePorts) /\ Permitted(InterfacePorts)
      /\ InterfacePorts \in SUBSET RouterPorts
  BY PortsFit DEF RoutedInv, Good
<1>2. EitherIsShared
  BY <1>1, SharedOf DEF EitherIsShared
<1>3. NoInternalError
  <2> SUFFICES ASSUME NEW r \in Routers, NEW s \in Subnets, Usable(r, s), Unscoped(s), PendingPorts = {},
                      RouterTopology(r, interfaces) # {},
                      (NetworkTopology(NetworkOf[s], interfaces) \cup RouterTopology(r, interfaces))
                        \cap Shared = {}
               PROVE  TopologyVrf(NetworkTopology(NetworkOf[s], interfaces), NetworkOf[s])
                        = RouterTopologyVrf(RouterTopology(r, interfaces))
    BY DEF NoInternalError
  <2> DEFINE n == NetworkOf[s]
             mine == NetworkTopology(n, interfaces)
             theirs == RouterTopology(r, interfaces)
  <2>1. InterfacePorts = interfaces
    BY DEF InterfacePorts
  <2>2. n \in Networks
    BY TopologyAssumption
  <2>3. IsWalk(mine, {n}, interfaces) /\ IsWalk(theirs, ExpandForRouters({r}, interfaces), interfaces)
    BY <1>1, <2>1, <2>2, WalksEnd
  <2>4. mine \cap Shared = {} /\ theirs \cap Shared = {} /\ theirs # {}
    OBVIOUS
  <2>5. Owner[n] = Owner[r]
    BY <2>3, <2>4 DEF IsWalk, Usable
  <2>6. \A x \in ExpandForRouters({r}, interfaces) : Owner[x] = Owner[r]
    BY <1>1, <2>1, <2>3, <2>4 DEF IsWalk, Permitted, ExpandForRouters
  <2> HIDE DEF mine, theirs, n
  <2>7. \A x \in theirs : Owner[x] = Owner[r]
    BY <1>1, <2>1, <2>3, <2>4, <2>6, WalkOwner
  <2>8. TopologyVrf(mine, n) = DefaultVrf(Owner[r])
    BY <2>4, <2>5 DEF TopologyVrf
  <2>9. RouterTopologyVrf(theirs) = DefaultVrf(Owner[r])
    <3> DEFINE c == CHOOSE m \in theirs : TRUE
    <3>1. c \in theirs
      BY <2>4
    <3> HIDE DEF c
    <3>2. TopologyVrf(theirs, c) = DefaultVrf(Owner[r])
      BY <2>4, <2>7, <3>1 DEF TopologyVrf
    <3> QED BY <3>2 DEF RouterTopologyVrf, c
  <2> QED BY <2>8, <2>9 DEF mine, theirs, n
<1> QED BY <1>2, <1>3 DEF InterfacesShare

\* Subnets are apart, in every default VRF.
LEMMA NothingOverlaps ==
  ASSUME RoutedInv
  PROVE  NoOverlap
BY DEF RoutedInv, Good, Apart, NoOverlap

--------------------
(* The contracts of external networks *)

\* A router has an interface in a VRF.
IsIn(r, v, map, ports) == \E p \in ports : p[1] = r /\ map[NetworkOf[p[2]]] = v

\* The contracts are those of the routers with a gateway that are in the VRF.
Conn(a, ports, users) ==
  \A v \in Vrfs, e \in ExtNets :
    a.connected[<<v, e>>] = {r \in users[e] : IsIn(r, v, a.vrf, ports)}

Users == [e \in ExtNets |-> GatewayUsers(e)]

\* A project owns all networks there are.
OneProject == \A n, m \in ExistingNetworks : Owner[n] = Owner[m]

\* No router has, gets or loses a gateway.
NoGateways ==
  /\ \A r \in Routers : gateway[r] = None
  /\ \A w \in Workers : pending[w] # None => pending[w].op = "interface"

\* A VRF's routers are found by the scopes of their interfaces as by the networks.
LEMMA RoutersAre ==
  ASSUME TopologyConstants, scopes \subseteq Scopes, \A p \in Pools : scopeOf[p] \in scopes \cup {None},
         NEW all \in SUBSET RouterPorts, NEW map, Placed(map, all), NEW ports \in SUBSET all,
         NEW v \in Vrfs, NEW q
  PROVE  q \in RoutersForVrf(v, map, ports) <=> IsIn(q, v, map, ports)
<1>1. /\ \A p \in ports : ScopeOfSubnet(p[2]) = None \/ ScopeOfSubnet(p[2]) \in scopes
      /\ \A p \in ports : IF Unscoped(p[2]) THEN map[NetworkOf[p[2]]] \in DefaultVrfs
                          ELSE map[NetworkOf[p[2]]] = ScopeVrf[ScopeOfSubnet(p[2])]
  BY TopologyAssumption DEF ScopeOfSubnet, Placed, RouterPorts
<1>2. None \notin Scopes /\ DefaultVrfs \cap ScopeVrfs = {} /\ \A c \in Scopes : ScopeVrf[c] \in ScopeVrfs
  BY VrfFacts DEF TopologyConstants
<1>3. CASE \E c \in scopes : ScopeVrf[c] = v
  <2>1. v \notin DefaultVrfs
    BY <1>2, <1>3
  <2>2. \A p \in ports : map[NetworkOf[p[2]]] = v <=> ScopeOfSubnet(p[2]) \in {c \in scopes : ScopeVrf[c] = v}
    BY <1>1, <1>2, <2>1 DEF Unscoped
  <2> QED BY <1>3, <2>2 DEF RoutersForVrf, IsIn
<1>4. CASE ~\E c \in scopes : ScopeVrf[c] = v
  BY <1>4 DEF RoutersForVrf, IsIn
<1> QED BY <1>3, <1>4

\* A router connects every VRF that it is in.
LEMMA VrfsAre ==
  ASSUME TopologyConstants, NEW ports \in SUBSET RouterPorts, NEW map, Placed(map, ports),
         NEW r, NEW v
  PROVE  v \in VrfsForRouter(r, map, ports) <=> IsIn(r, v, map, ports)
<1>1. /\ \A p \in ports : ~Unscoped(p[2]) => map[NetworkOf[p[2]]] = ScopeVrf[ScopeOfSubnet(p[2])]
      /\ \A p, q \in ports : p[1] = q[1] /\ Unscoped(p[2]) /\ Unscoped(q[2])
                               => map[NetworkOf[p[2]]] = map[NetworkOf[q[2]]]
  BY DEF Placed
<1> DEFINE mine == {p[2] : p \in {q \in ports : q[1] = r}}
           open == {NetworkOf[s] : s \in {t \in mine : Unscoped(t)}}
<1>2. \A p \in ports : p[1] = r => p[2] \in mine
  OBVIOUS
<1>3. \A s \in mine : \E p \in ports : p[1] = r /\ p[2] = s
  OBVIOUS
<1>4. \A p \in ports : p[1] = r /\ Unscoped(p[2]) => NetworkOf[p[2]] \in open
  BY <1>2
<1>5. \A n \in open : \E p \in ports : p[1] = r /\ Unscoped(p[2]) /\ NetworkOf[p[2]] = n
  BY <1>3
<1> DEFINE first == CHOOSE n \in open : TRUE
<1>6. open # {} => first \in open
  OBVIOUS
<1>7. VrfsForRouter(r, map, ports) =
        {ScopeVrf[ScopeOfSubnet(s)] : s \in {t \in mine : ~Unscoped(t)}}
        \cup IF open = {} THEN {} ELSE {map[first]}
  BY DEF VrfsForRouter
<1> HIDE DEF mine, open, first
<1>8. ASSUME v \in VrfsForRouter(r, map, ports) PROVE IsIn(r, v, map, ports)
  <2>1. CASE \E s \in mine : ~Unscoped(s) /\ v = ScopeVrf[ScopeOfSubnet(s)]
    BY <1>1, <1>3, <2>1 DEF IsIn
  <2>2. CASE open # {} /\ v = map[first]
    BY <1>5, <1>6, <2>2 DEF IsIn
  <2> QED BY <1>7, <1>8, <2>1, <2>2
<1>9. ASSUME NEW p \in ports, p[1] = r, map[NetworkOf[p[2]]] = v PROVE v \in VrfsForRouter(r, map, ports)
  <2>1. CASE ~Unscoped(p[2])
    <3>1. v = ScopeVrf[ScopeOfSubnet(p[2])] /\ p[2] \in mine
      BY <1>1, <1>2, <1>9, <2>1
    <3> QED BY <1>7, <2>1, <3>1
  <2>2. CASE Unscoped(p[2])
    <3>1. NetworkOf[p[2]] \in open
      BY <1>4, <1>9, <2>2
    <3>2. PICK q \in ports : q[1] = r /\ Unscoped(q[2]) /\ NetworkOf[q[2]] = first
      BY <1>5, <1>6, <3>1
    <3>3. map[first] = v
      BY <1>1, <1>9, <2>2, <3>2
    <3> QED BY <1>7, <3>1, <3>3
  <2> QED BY <2>1, <2>2
<1> QED BY <1>8, <1>9 DEF IsIn

\* Another interface in the same scope is in the same VRF.
LEMMA InScopeIsIn ==
  ASSUME TopologyConstants, scopes \subseteq Scopes,
         NEW all \in SUBSET RouterPorts, NEW map, Placed(map, all), NEW few \in SUBSET all,
         NEW r, NEW s, <<r, s>> \in all, NEW n, n = NetworkOf[s],
         InterfacesInScope(r, ScopeOfSubnet(s), few) # {}
  PROVE  IsIn(r, map[n], map, few)
<1>1. PICK p \in few : /\ p[1] = r
                       /\ IF ScopeOfSubnet(s) = None THEN Unscoped(p[2])
                          ELSE ScopeOfSubnet(p[2]) \in Isomorphic(ScopeOfSubnet(s))
  BY DEF InterfacesInScope
<1>2. <<r, s>>[1] = r /\ <<r, s>>[2] = s /\ p \in all
  OBVIOUS
<1>3. map[NetworkOf[p[2]]] = map[n]
  <2>1. CASE Unscoped(s)
    <3>1. Unscoped(p[2])
      BY <1>1, <2>1 DEF Unscoped
    <3> QED BY <1>1, <1>2, <2>1, <3>1 DEF Placed
  <2>2. CASE ~Unscoped(s)
    <3>1. ScopeOfSubnet(p[2]) \in scopes /\ ScopeVrf[ScopeOfSubnet(p[2])] = ScopeVrf[ScopeOfSubnet(s)]
      BY <1>1, <2>2 DEF Unscoped, Isomorphic
    <3>2. ~Unscoped(p[2])
      BY <3>1 DEF Unscoped, TopologyConstants
    <3>3. map[NetworkOf[p[2]]] = ScopeVrf[ScopeOfSubnet(p[2])]
      BY <1>2, <3>2 DEF Placed
    <3>4. map[n] = ScopeVrf[ScopeOfSubnet(s)]
      BY <1>2, <2>2 DEF Placed
    <3> QED BY <3>1, <3>3, <3>4
  <2> QED BY <2>1, <2>2
<1> QED BY <1>1, <1>3 DEF IsIn

\* The projects of all networks there are have one default VRF.
AllOf(map, v) == \A n \in Networks : map[n] # None => DefaultVrf(Owner[n]) = v

\* Then every unscoped network is in it, and every topology calls for it.
LEMMA OneVrf ==
  ASSUME TopologyConstants, scopeOf \in [Pools -> Scopes \cup {None}],
         NEW ports \in SUBSET RouterPorts, NEW map, Placed(map, ports), NEW v, AllOf(map, v)
  PROVE  /\ \A n \in Open(ports) : map[n] = v
         /\ \A n \in Networks : map[n] # None =>
              \A nets : (\A x \in nets : x = n \/ x \in Open(ports)) => TopologyVrf(nets, n) = v
<1>1. Uniform(map, ports)
  BY PlacedIsUniform
<1>2. /\ Open(ports) \in SUBSET Networks
      /\ \A n \in Open(ports) : \E q \in ports : Unscoped(q[2]) /\ n = NetworkOf[q[2]]
  BY <1>1, OpenIs
<1>3. \A n \in Open(ports) : map[n] # None
  BY <1>2, VrfFacts DEF Placed
<1>4. ASSUME NEW n \in Networks, map[n] # None,
             NEW nets, \A x \in nets : x = n \/ x \in Open(ports)
      PROVE  TopologyVrf(nets, n) = v
  <2> DEFINE m == CHOOSE m \in nets \cap Shared : TRUE
  <2>1. CASE nets \cap Shared = {}
    BY <1>4, <2>1 DEF TopologyVrf, AllOf
  <2>2. CASE nets \cap Shared # {}
    <3>1. m \in nets
      BY <2>2
    <3>2. TopologyVrf(nets, n) = DefaultVrf(Owner[m])
      BY <2>2 DEF TopologyVrf
    <3> HIDE DEF m
    <3>3. m \in Networks /\ map[m] # None
      BY <1>2, <1>3, <1>4, <3>1
    <3> QED BY <3>2, <3>3 DEF AllOf
  <2> QED BY <2>1, <2>2
<1>5. ASSUME NEW n \in Open(ports) PROVE map[n] = v
  <2> DEFINE mine == NetworkTopology(n, ports)
  <2>1. n \in Networks /\ map[n] # None
    BY <1>2, <1>3
  <2>2. IsWalk(mine, {n}, ports)
    BY <2>1, WalksEnd
  <2> HIDE DEF mine
  <2>3. mine \subseteq Open(ports) /\ AllIn(mine, map, TopologyVrf(mine, n))
    BY <1>1, <2>2, NetworkWalkVrf
  <2>4. TopologyVrf(mine, n) = v
    BY <1>4, <2>1, <2>3
  <2> QED BY <2>2, <2>3, <2>4 DEF IsWalk, AllIn
<1> QED BY <1>4, <1>5

\* The walk from a network leads to unscoped networks.
LEMMA WalkIsOpen ==
  ASSUME NEW ports \in SUBSET RouterPorts, NEW map, Uniform(map, ports),
         NEW n \in Networks, NEW mine, IsWalk(mine, {n}, ports)
  PROVE  \A x \in mine : x = n \/ x \in Open(ports)
<1> DEFINE C == {n} \cup Open(ports)
<1>1. /\ \A p \in ports : NetworkOf[p[2]] \in Open(ports) <=> Unscoped(p[2])
      /\ Open(ports) \in SUBSET Networks
  BY OpenIs
<1>2. C \in SUBSET Networks /\ {n} \subseteq C
  BY <1>1
<1>3. Walled(C, ports)
  BY <1>1 DEF Walled
<1> HIDE DEF C
<1>4. mine \subseteq C
  BY <1>2, <1>3 DEF IsWalk
<1> QED BY <1>4 DEF C

\* A new interface moves no topology of the one project there is.
LEMMA ChoiceStays ==
  ASSUME TopologyConstants, scopeOf \in [Pools -> Scopes \cup {None}],
         interfaces \in SUBSET RouterPorts, NEW map, Placed(map, interfaces), NEW v, AllOf(map, v),
         NEW r \in Routers, NEW s \in Subnets, NEW n, n = NetworkOf[s], map[n] # None,
         NEW c \in Choices(r, s)
  PROVE  c.moves = {}
<1>1. CASE ~Unscoped(s)
  BY <1>1 DEF Choices, Choice
<1>2. CASE Unscoped(s)
  <2> DEFINE mine == NetworkTopology(n, interfaces)
             theirs == RouterTopology(r, interfaces)
  <2>1. n \in Networks
    BY TopologyAssumption
  <2>2. IsWalk(mine, {n}, interfaces) /\ IsWalk(theirs, ExpandForRouters({r}, interfaces), interfaces)
    BY <2>1, WalksEnd
  <2>3. c \in ChoicesAmong(n, mine, theirs)
    BY <1>2 DEF Choices
  <2> HIDE DEF mine, theirs
  <2>4. Uniform(map, interfaces)
    BY PlacedIsUniform
  <2>5. \A x \in mine : x = n \/ x \in Open(interfaces)
    BY <2>1, <2>2, <2>4, WalkIsOpen
  <2>6. TopologyVrf(mine, n) = v
    BY <2>1, <2>5, OneVrf
  <2>7. theirs # {} => RouterTopologyVrf(theirs) = v
    <3> SUFFICES ASSUME theirs # {} PROVE RouterTopologyVrf(theirs) = v
      OBVIOUS
    <3>1. theirs \subseteq Open(interfaces) /\ AllIn(theirs, map, RouterTopologyVrf(theirs))
      BY <2>2, <2>4, RouterWalkVrf
    <3>2. PICK x \in theirs : TRUE
      OBVIOUS
    <3>3. map[x] = v
      BY <3>1, OneVrf
    <3> QED BY <3>1, <3>3 DEF AllIn
  <2>8. c \in {Choice(TopologyVrf(mine, n), TRUE, {}, None)}
    BY <2>3, <2>6, <2>7 DEF ChoicesAmong, UnscopedChoices
  <2> QED BY <2>8 DEF Choice
<1> QED BY <1>1, <1>2

\* The network of a new interface is in the VRF that was chosen.
LEMMA ChosenVrf ==
  ASSUME TopologyConstants, scopeOf \in [Pools -> Scopes \cup {None}],
         interfaces \in SUBSET RouterPorts, Placed(aim.vrf, interfaces),
         NEW r \in Routers, NEW s \in Subnets, NEW n, n = NetworkOf[s],
         Unscoped(s) => \A p \in InterfacesOf(n, interfaces) : Unscoped(p[2]),
         NEW c \in Choices(r, s), NEW b, Added(b, n, c),
         NEW more, <<r, s>> \in more, Placed(b.vrf, more)
  PROVE  b.vrf[n] = c.vrf
<1>1. n \in Networks
  BY TopologyAssumption
<1>2. CASE ~Unscoped(s)
  <2>1. c.vrf = ScopeVrf[ScopeOfSubnet(s)]
    BY <1>2 DEF Choices, Choice
  <2>2. <<r, s>>[2] = s
    OBVIOUS
  <2> QED BY <1>2, <2>1, <2>2 DEF Placed
<1>3. CASE Unscoped(s)
  <2> DEFINE mine == NetworkTopology(n, interfaces)
             theirs == RouterTopology(r, interfaces)
             map == aim.vrf
  <2>1. IsWalk(mine, {n}, interfaces) /\ IsWalk(theirs, ExpandForRouters({r}, interfaces), interfaces)
    BY <1>1, WalksEnd
  <2>2. c \in ChoicesAmong(n, mine, theirs)
    BY <1>3 DEF Choices
  <2>3. Placed(map, interfaces) /\ \A p \in InterfacesOf(n, interfaces) : Unscoped(p[2])
    BY <1>3
  <2> HIDE DEF mine, theirs, map
  <2>4. Joins(c, n, mine, theirs, map)
    BY <1>1, <2>1, <2>2, <2>3, ChoiceJoins
  <2>5. n \in mine \cup theirs
    BY <2>1 DEF IsWalk
  <2>6. (IF n \in c.moves \/ (n = n /\ InterfacesOf(n, interfaces) = {}) THEN c.vrf ELSE map[n]) = c.vrf
    BY <1>1, <2>4, <2>5 DEF Joins
  <2>7. b.vrf[n] = IF n \in c.moves \/ (n = n /\ InterfacesOf(n, interfaces) = {}) THEN c.vrf ELSE map[n]
    BY <1>1 DEF Added, map
  <2> QED BY <2>6, <2>7
<1> QED BY <1>2, <1>3

\* Between calls an external network is used by the routers that refer to it.
Idling(users) == \A e \in ExtNets : users[e] = {q \in Routers : gateway[q] = e}

\* An interface more, in the VRF that was chosen, when no topology moves.
LEMMA AddedContracts ==
  ASSUME TopologyConstants, scopes \subseteq Scopes, \A p \in Pools : scopeOf[p] \in scopes \cup {None},
         interfaces \in SUBSET RouterPorts, NEW users, Idling(users), Conn(aim, interfaces, users),
         NEW r \in Routers, NEW s \in Subnets, NEW n, n = NetworkOf[s], NEW c, c.moves = {}, c.vrf \in Vrfs,
         NEW more \in SUBSET RouterPorts, more = interfaces \cup {<<r, s>>},
         NEW b, Added(b, n, c), Contracts(b, r, s, c), Placed(b.vrf, more), b.vrf[n] = c.vrf
  PROVE  Conn(b, more, users)
<1>1. \A p \in interfaces : p[2] \in Subnets /\ NetworkOf[p[2]] \in Networks
  BY TopologyAssumption DEF RouterPorts
<1>2. \A p \in interfaces : b.vrf[NetworkOf[p[2]]] = aim.vrf[NetworkOf[p[2]]]
  BY <1>1 DEF Added, InterfacesOf
<1>3. \A q, v : IsIn(q, v, b.vrf, interfaces) <=> IsIn(q, v, aim.vrf, interfaces)
  BY <1>2 DEF IsIn
<1>4. <<r, s>>[1] = r /\ <<r, s>>[2] = s /\ <<r, s>> \in more
  OBVIOUS
<1>5. \A q, v : IsIn(q, v, b.vrf, more) <=> IsIn(q, v, b.vrf, interfaces) \/ (q = r /\ v = c.vrf)
  BY <1>4 DEF IsIn
<1>6. ASSUME InterfacesInScope(r, ScopeOfSubnet(s), interfaces) # {} PROVE IsIn(r, c.vrf, b.vrf, interfaces)
  BY <1>4, <1>6, InScopeIsIn
<1> SUFFICES ASSUME NEW v \in Vrfs, NEW e \in ExtNets
             PROVE  b.connected[<<v, e>>] = {q \in users[e] : IsIn(q, v, b.vrf, more)}
  BY DEF Conn
<1>7. aim.connected[<<v, e>>] = {q \in users[e] : IsIn(q, v, aim.vrf, interfaces)}
  BY DEF Conn
<1>8. users[e] = {q \in Routers : gateway[q] = e}
  BY DEF Idling
<1>9. gateway[r] # None => b.connected[<<v, e>>] =
        IF e = gateway[r] /\ v = c.vrf /\ InterfacesInScope(r, ScopeOfSubnet(s), interfaces) = {}
        THEN {q \in RoutersForVrf(v, b.vrf, interfaces) : gateway[q] = gateway[r]} \cup {r}
        ELSE aim.connected[<<v, e>>]
  BY DEF Contracts
<1>12. /\ gateway[r] = None => b.connected[<<v, e>>] = aim.connected[<<v, e>>]
       /\ None \notin ExtNets
  BY DEF Contracts, TopologyConstants
<1>10. CASE e = gateway[r] /\ v = c.vrf /\ InterfacesInScope(r, ScopeOfSubnet(s), interfaces) = {}
  <2>1. \A q : q \in RoutersForVrf(v, b.vrf, interfaces) <=> IsIn(q, v, b.vrf, interfaces)
    BY RoutersAre
  <2>2. \A q : IsIn(q, v, b.vrf, interfaces) => q \in Routers
    BY DEF IsIn, RouterPorts
  <2>3. b.connected[<<v, e>>] = {q \in RoutersForVrf(v, b.vrf, interfaces) : gateway[q] = gateway[r]} \cup {r}
    BY <1>9, <1>10, <1>12
  <2> QED BY <1>5, <1>8, <1>10, <2>1, <2>2, <2>3
<1>11. CASE ~(e = gateway[r] /\ v = c.vrf /\ InterfacesInScope(r, ScopeOfSubnet(s), interfaces) = {})
  <2>1. ASSUME NEW q \in users[e] PROVE IsIn(q, v, b.vrf, more) <=> IsIn(q, v, aim.vrf, interfaces)
    BY <1>3, <1>5, <1>6, <1>8, <1>11, <2>1
  <2>2. b.connected[<<v, e>>] = aim.connected[<<v, e>>]
    BY <1>9, <1>11, <1>12
  <2> QED BY <1>7, <2>1, <2>2
<1> QED BY <1>10, <1>11

\* An interface less, when no topology moves.
LEMMA RemovedContracts ==
  ASSUME TopologyConstants, scopes \subseteq Scopes, \A p \in Pools : scopeOf[p] \in scopes \cup {None},
         interfaces \in SUBSET RouterPorts, Placed(aim.vrf, interfaces),
         NEW users, Idling(users), Conn(aim, interfaces, users),
         NEW r \in Routers, NEW s \in Subnets, <<r, s>> \in interfaces, NEW n, n = NetworkOf[s],
         NEW rest, Without(rest, interfaces, r, s), NEW old, old = aim.vrf[n],
         NEW b, Parted(b, r, s, old, old, rest), Placed(b.vrf, rest),
         \A p \in rest : b.vrf[NetworkOf[p[2]]] = aim.vrf[NetworkOf[p[2]]]
  PROVE  Conn(b, rest, users)
<1>1. rest \in SUBSET interfaces /\ rest \in SUBSET RouterPorts
  BY DEF Without
<1>2. \A q, v : IsIn(q, v, b.vrf, rest) <=> IsIn(q, v, aim.vrf, rest)
  BY DEF IsIn
<1>3. <<r, s>>[1] = r /\ <<r, s>>[2] = s
  OBVIOUS
<1>4. \A p : p \in interfaces <=> p \in rest \/ p = <<r, s>>
  BY DEF Without
<1>5. \A q, v : IsIn(q, v, aim.vrf, interfaces) <=> IsIn(q, v, aim.vrf, rest) \/ (q = r /\ v = old)
  BY <1>3, <1>4 DEF IsIn
<1>6. ASSUME InterfacesInScope(r, ScopeOfSubnet(s), rest) # {} PROVE IsIn(r, old, aim.vrf, rest)
  BY <1>1, <1>6, InScopeIsIn
<1> SUFFICES ASSUME NEW v \in Vrfs, NEW e \in ExtNets
             PROVE  b.connected[<<v, e>>] = {q \in users[e] : IsIn(q, v, b.vrf, rest)}
  BY DEF Conn
<1>7. aim.connected[<<v, e>>] = {q \in users[e] : IsIn(q, v, aim.vrf, interfaces)}
  BY DEF Conn
<1>8. users[e] = {q \in Routers : gateway[q] = e}
  BY DEF Idling
<1>9. gateway[r] # None => b.connected[<<v, e>>] =
        IF e = gateway[r] /\ v = old /\ InterfacesInScope(r, ScopeOfSubnet(s), rest) = {}
        THEN {q \in RoutersForVrf(v, b.vrf, rest) : gateway[q] = gateway[r]}
        ELSE aim.connected[<<v, e>>]
  BY DEF Parted
<1>10. gateway[r] = None => b.connected[<<v, e>>] = aim.connected[<<v, e>>]
  BY DEF Parted
<1>11. CASE gateway[r] # None /\ e = gateway[r] /\ v = old /\ InterfacesInScope(r, ScopeOfSubnet(s), rest) = {}
  <2>1. \A q : q \in RoutersForVrf(v, b.vrf, rest) <=> IsIn(q, v, b.vrf, rest)
    BY <1>1, RoutersAre
  <2>2. \A q : IsIn(q, v, b.vrf, rest) => q \in Routers
    BY <1>1 DEF IsIn, RouterPorts
  <2>3. b.connected[<<v, e>>] = {q \in RoutersForVrf(v, b.vrf, rest) : gateway[q] = gateway[r]}
    BY <1>9, <1>11
  <2> QED BY <1>8, <1>11, <2>1, <2>2, <2>3
<1>12. CASE ~(gateway[r] # None /\ e = gateway[r] /\ v = old /\ InterfacesInScope(r, ScopeOfSubnet(s), rest) = {})
  <2>1. None \notin ExtNets
    BY DEF TopologyConstants
  <2>2. ASSUME NEW q \in users[e] PROVE IsIn(q, v, b.vrf, rest) <=> IsIn(q, v, aim.vrf, interfaces)
    BY <1>2, <1>5, <1>6, <1>8, <1>12, <2>1, <2>2
  <2>3. b.connected[<<v, e>>] = aim.connected[<<v, e>>]
    BY <1>9, <1>10, <1>12
  <2> QED BY <1>7, <2>2, <2>3
<1> QED BY <1>11, <1>12

\* With one call at a time, a router more than those that refer to it uses an external network.
UsersNow(now, gates, call) ==
  \A e \in ExtNets :
    now[e] = {q \in Routers : \/ gates[q] = e
                              \/ call # None /\ call.op # "interface" /\ call.router = q /\ call.ext = e}

\* GatewayUsers, with one call at a time.
LEMMA UsersAre ==
  ASSUME TopologyConstants, NEW w \in Workers
  PROVE  /\ UsersNow(Users, gateway, pending[w]) /\ UsersNow(Users, gateway, pending[w])'
         /\ pending[w] = None \/ pending[w].op = "interface" => Idling(Users)
<1>1. \A u \in Workers : u = w
  BY DEF TopologyConstants
<1>2. UsersNow(Users, gateway, pending[w])
  BY <1>1 DEF UsersNow, Users, GatewayUsers
<1>3. UsersNow(Users, gateway, pending[w])'
  BY <1>1 DEF UsersNow, Users, GatewayUsers
<1>4. pending[w] = None \/ pending[w].op = "interface" => Idling(Users)
  BY <1>2 DEF UsersNow, Idling
<1> QED BY <1>2, <1>3, <1>4

\* The contracts of what has not changed.
LEMMA ConnAfter ==
  ASSUME NEW a, aim' = a, NEW ports, InterfacePorts' = ports, NEW users,
         \A e \in ExtNets : Users'[e] = users[e], Conn(a, ports, users)
  PROVE  Conn(aim, InterfacePorts, Users)'
<1>1. \A r, v : IsIn(r, v, aim'.vrf, InterfacePorts') <=> IsIn(r, v, a.vrf, ports)
  OBVIOUS
<1> QED BY <1>1 DEF Conn

\* The contracts follow a new interface.
LEMMA AddedConn ==
  ASSUME TopologyConstants, RoutedInv, Conn(aim, InterfacePorts, Users),
         NEW v, AllOf(aim.vrf, v), NEW w \in Workers, NEW r \in Routers, NEW s \in Subnets,
         AddInterface(w, r, s)
  PROVE  Conn(aim, InterfacePorts, Users)'
<1> DEFINE n == NetworkOf[s]
           call == [op |-> "interface", port |-> <<r, s>>]
           more == interfaces \cup {<<r, s>>}
           users == Users
           b == aim'
<1>1. /\ pending[w] = None /\ Usable(r, s)
      /\ InterfaceSupported(r, s, InterfacesOf(NetworkOf[s], interfaces))
      /\ pending' = [pending EXCEPT ![w] = call]
      /\ UNCHANGED <<scopes, scopeOf, interfaces, gateway>>
  BY DEF AddInterface
<1>2. PICK c \in Choices(r, s) :
         /\ b = Connected(Attached(Taken(Joining(Ensured(aim, c), c), NetworkOf[s], c.vrf), r, s), r, s, c)
         /\ Unscoped(s) => ~OverlapIn(c.vrf, b.vrf, interfaces, {s})
  BY DEF AddInterface
<1>3. TypeOK /\ CallsFit /\ Good(aim, interfaces) /\ InterfacePorts = interfaces
  BY <1>1, IdleIs DEF RoutedInv
<1>4. /\ scopes \subseteq Scopes /\ scopeOf \in [Pools -> Scopes \cup {None}]
      /\ interfaces \in SUBSET RouterPorts /\ aim \in AimType
      /\ \A p \in Pools : scopeOf[p] \in scopes \cup {None}
      /\ pending \in [Workers -> Calls \cup {None}]
  BY <1>3 DEF TypeOK, CallsFit, Calls
<1>5. /\ Placed(aim.vrf, interfaces) /\ OneIsShared(interfaces)
      /\ aim.vrf[n] # None
  BY <1>1, <1>3 DEF Good, Usable
<1>6. /\ call \in Calls /\ call # None /\ call.op = "interface" /\ call.port = <<r, s>>
      /\ more \in SUBSET RouterPorts /\ <<r, s>> \in more
  BY <1>4 DEF Calls, RouterPorts, TopologyConstants
<1> HIDE DEF call, n, more, b, users
<1>7. InterfacePorts' = more
  <2>1. pending'[w] = call /\ \A u \in Workers : u = w
    BY <1>1, <1>4 DEF TopologyConstants
  <2>2. PendingPorts' = {<<r, s>>}
    BY <1>6, <2>1 DEF PendingPorts
  <2> QED BY <1>1, <2>2 DEF InterfacePorts, more
<1>8. \A e \in ExtNets : Users'[e] = users[e]
  <2>1. pending'[w] = call
    BY <1>1, <1>4
  <2>2. UsersNow(users, gateway, None)
    BY <1>1, UsersAre DEF users
  <2>3. UsersNow(Users', gateway, call)
    BY <1>1, <2>1, UsersAre
  <2> QED BY <1>6, <2>2, <2>3 DEF UsersNow
<1>9. Idling(users) /\ Conn(aim, interfaces, users)
  BY <1>1, <1>3, UsersAre DEF users
<1>10. /\ Good(b, more) /\ Eligible(c, n) /\ Added(b, n, c) /\ Contracts(b, r, s, c)
  BY <1>1, <1>2, <1>3, <1>4, AddedGood DEF n, more
<1>11. Placed(b.vrf, more)
  BY <1>10 DEF Good
<1>12. c.moves = {}
  BY <1>4, <1>5, ChoiceStays DEF n
<1>13. Unscoped(s) => \A p \in InterfacesOf(n, interfaces) : Unscoped(p[2])
  BY <1>1, <1>4, <1>5, AddedAlike DEF n
<1>14. b.vrf[n] = c.vrf
  BY <1>4, <1>5, <1>6, <1>10, <1>11, <1>13, ChosenVrf DEF n
<1>15. c.vrf \in Vrfs
  BY <1>10, VrfFacts DEF Eligible
<1>16. n = NetworkOf[s] /\ more = interfaces \cup {<<r, s>>}
  BY DEF n, more
<1>17. Conn(b, more, users)
  BY <1>4, <1>6, <1>9, <1>10, <1>11, <1>12, <1>14, <1>15, <1>16, AddedContracts
<1>18. aim' = b
  BY DEF b
<1> QED BY <1>7, <1>8, <1>17, <1>18, ConnAfter

\* So does every topology of a router.
LEMMA OneRouterVrf ==
  ASSUME TopologyConstants, scopeOf \in [Pools -> Scopes \cup {None}],
         NEW ports \in SUBSET RouterPorts, NEW map, Placed(map, ports), NEW v, AllOf(map, v),
         NEW nets, nets # {}, nets \subseteq Open(ports)
  PROVE  RouterTopologyVrf(nets) = v
<1> DEFINE m == CHOOSE m \in nets : TRUE
<1>1. m \in nets
  OBVIOUS
<1>2. RouterTopologyVrf(nets) = TopologyVrf(nets, m)
  BY DEF RouterTopologyVrf
<1> HIDE DEF m
<1>3. Uniform(map, ports)
  BY PlacedIsUniform
<1>4. /\ Open(ports) \in SUBSET Networks
      /\ \A n \in Open(ports) : \E q \in ports : Unscoped(q[2]) /\ n = NetworkOf[q[2]]
  BY <1>3, OpenIs
<1>5. m \in Networks /\ map[m] # None
  BY <1>1, <1>4, VrfFacts DEF Placed
<1> QED BY <1>1, <1>2, <1>5, OneVrf

\* An interface less splits no topology of the one project there is into two VRFs.
LEMMA PartsStay ==
  ASSUME TopologyConstants, scopeOf \in [Pools -> Scopes \cup {None}],
         NEW ports \in SUBSET RouterPorts, NEW map, Placed(map, ports), NEW v, AllOf(map, v),
         NEW r \in Routers, NEW s \in Subnets, <<r, s>> \in ports, NEW n, n = NetworkOf[s], Unscoped(s),
         NEW rest, Without(rest, ports, r, s),
         NEW mine, IsWalk(mine, {n}, rest),
         NEW theirs, IsWalk(theirs, ExpandForRouters({r}, rest), rest)
  PROVE  /\ map[n] = v /\ TopologyVrf(mine, n) = v
         /\ theirs # {} => RouterTopologyVrf(theirs) = v
<1>1. rest \in SUBSET ports
  BY DEF Without
<1>2. Uniform(map, ports) /\ Uniform(map, rest)
  BY <1>1, PlacedIsUniform
<1>3. n \in Networks
  BY TopologyAssumption
<1>4. \A x \in Open(rest) : x \in Open(ports)
  BY <1>1 DEF Open
<1>5. <<r, s>>[2] = s
  OBVIOUS
<1>6. n \in Open(ports)
  BY <1>2, <1>5, OpenIs
<1>7. map[n] = v
  BY <1>6, OneVrf
<1>8. map[n] # None
  BY <1>5, VrfFacts DEF Placed
<1>9. \A x \in mine : x = n \/ x \in Open(rest)
  BY <1>1, <1>2, <1>3, WalkIsOpen
<1>10. TopologyVrf(mine, n) = v
  BY <1>3, <1>4, <1>8, <1>9, OneVrf
<1>11. theirs \subseteq Open(rest)
  <2>1. Halves(mine, theirs, map, n, RoutersOn(n, rest), rest)
    BY SplitSame
  <2> QED BY <2>1 DEF Halves
<1>12. theirs # {} => RouterTopologyVrf(theirs) = v
  BY <1>4, <1>11, OneRouterVrf
<1> QED BY <1>7, <1>10, <1>12

\* The contracts follow an interface that is removed.
LEMMA RemovedConn ==
  ASSUME TopologyConstants, RoutedInv, Conn(aim, InterfacePorts, Users),
         NEW v, AllOf(aim.vrf, v), NEW w \in Workers, NEW r \in Routers, NEW s \in Subnets,
         RemoveInterface(w, r, s)
  PROVE  Conn(aim, InterfacePorts, Users)'
<1> DEFINE n == NetworkOf[s]
           rest == interfaces'
           left == RoutersOn(n, rest)
           mine == NetworkTopology(n, rest)
           theirs == RouterTopology(r, rest)
           old == aim.vrf[n]
           v1 == PartVrf(s, left, TopologyVrf(mine, n))
           v2 == PartVrf(s, theirs, RouterTopologyVrf(theirs))
           b == aim'
           users == Users
<1>1. /\ pending[w] = None /\ <<r, s>> \in interfaces
      /\ interfaces' = interfaces \ {<<r, s>>}
      /\ UNCHANGED <<scopes, scopeOf, gateway, pending>>
  BY DEF RemoveInterface
<1>2. /\ PartsFit(mine, theirs, old, v1, v2, rest)
      /\ TakenAway(b, r, s, left, mine, theirs, old, v1, v2, rest)
  BY DEF RemoveInterface, RemovedAmong, RemoveFrom, TakenAway, PartsFit
<1>3. TypeOK /\ CallsFit /\ Good(aim, interfaces) /\ InterfacePorts = interfaces
  BY <1>1, IdleIs DEF RoutedInv
<1>4. Without(rest, interfaces, r, s)
  BY <1>1 DEF Without
<1>5. /\ scopes \subseteq Scopes /\ scopeOf \in [Pools -> Scopes \cup {None}]
      /\ interfaces \in SUBSET RouterPorts /\ aim \in AimType
      /\ \A p \in Pools : scopeOf[p] \in scopes \cup {None}
  BY <1>3 DEF TypeOK, CallsFit
<1>6. rest \in SUBSET interfaces /\ rest \in SUBSET RouterPorts
  BY <1>1, <1>5
<1>7. InterfacePorts' = rest
  BY <1>1, IdleIs DEF InterfacePorts, PendingPorts
<1>8. n \in Networks
  BY TopologyAssumption
<1>9. /\ IsWalk(mine, {n}, rest) /\ IsWalk(theirs, ExpandForRouters({r}, rest), rest)
  BY <1>6, <1>8, WalksEnd
<1>10. /\ n = NetworkOf[s] /\ left = RoutersOn(n, rest) /\ old = aim.vrf[n]
       /\ mine = NetworkTopology(n, rest) /\ theirs = RouterTopology(r, rest)
       /\ v1 = PartVrf(s, left, TopologyVrf(mine, n)) /\ v2 = PartVrf(s, theirs, RouterTopologyVrf(theirs))
       /\ b = aim'
  OBVIOUS
<1>11. users = Users
  OBVIOUS
<1> HIDE DEF n, rest, left, mine, theirs, old, v1, v2, b, users
<1>12. /\ Good(b, rest) /\ Parted(b, r, s, old, v2, rest)
       /\ \A x \in Networks : b.vrf[x] # aim.vrf[x] =>
            (x = n /\ left = {}) \/ (Unscoped(s) /\ (x \in theirs \/ x \in mine) /\ (v1 # old \/ v2 # old))
  BY <1>1, <1>2, <1>3, <1>4, <1>5, <1>10, RemovedGood, SMTT(30)
<1>13. Placed(b.vrf, rest) /\ Placed(aim.vrf, interfaces)
  BY <1>3, <1>12 DEF Good
<1>14. Unscoped(s) => /\ old = v /\ TopologyVrf(mine, n) = v
                      /\ theirs # {} => RouterTopologyVrf(theirs) = v
  BY <1>1, <1>4, <1>5, <1>9, <1>10, <1>13, PartsStay
<1>15. v1 = old /\ v2 = old
  BY <1>10, <1>14 DEF PartVrf
<1>16. \A p \in rest : b.vrf[NetworkOf[p[2]]] = aim.vrf[NetworkOf[p[2]]]
  <2> SUFFICES ASSUME NEW p \in rest PROVE b.vrf[NetworkOf[p[2]]] = aim.vrf[NetworkOf[p[2]]]
    OBVIOUS
  <2>1. NetworkOf[p[2]] \in Networks
    BY <1>6, TopologyAssumption DEF RouterPorts
  <2>2. NetworkOf[p[2]] = n => left # {}
    BY <1>10 DEF RoutersOn, InterfacesOf
  <2> QED BY <1>12, <1>15, <2>1, <2>2
<1>17. Idling(users) /\ Conn(aim, interfaces, users)
  BY <1>1, <1>3, <1>11, UsersAre
<1>18. \A e \in ExtNets : Users'[e] = users[e]
  <2>1. UsersNow(users, gateway, None)
    BY <1>1, <1>11, UsersAre
  <2>2. UsersNow(Users', gateway, None)
    BY <1>1, UsersAre
  <2> QED BY <2>1, <2>2 DEF UsersNow
<1>19. Conn(b, rest, users)
  BY <1>1, <1>4, <1>5, <1>10, <1>12, <1>13, <1>15, <1>16, <1>17, RemovedContracts
<1> QED BY <1>7, <1>10, <1>18, <1>19, ConnAfter

\* The RouterPort row of a new interface is recorded after its contracts.
LEMMA RecordedConn ==
  ASSUME TopologyConstants, RoutedInv, Conn(aim, InterfacePorts, Users),
         NEW w \in Workers, RecordInterface(w)
  PROVE  Conn(aim, InterfacePorts, Users)'
<1>1. /\ pending[w] # None /\ pending[w].op = "interface"
      /\ interfaces' = interfaces \cup {pending[w].port}
      /\ pending' = [pending EXCEPT ![w] = None]
      /\ UNCHANGED <<scopes, scopeOf, gateway, aim>>
  BY DEF RecordInterface
<1>2. pending \in [Workers -> Calls \cup {None}] /\ \A u \in Workers : u = w
  BY DEF RoutedInv, TypeOK, Calls, TopologyConstants
<1>3. InterfacePorts' = InterfacePorts
  <2>1. PendingPorts = {pending[w].port}
    BY <1>1, <1>2 DEF PendingPorts
  <2>2. PendingPorts' = {}
    BY <1>1, <1>2 DEF PendingPorts
  <2> QED BY <1>1, <2>1, <2>2 DEF InterfacePorts
<1> DEFINE users == Users
<1>4. users = Users
  OBVIOUS
<1> HIDE DEF users
<1>5. \A e \in ExtNets : Users'[e] = users[e]
  <2>1. UsersNow(users, gateway, pending[w])
    BY <1>4, UsersAre
  <2>2. pending'[w] = None
    BY <1>1, <1>2
  <2>3. UsersNow(Users', gateway, None)
    BY <1>1, <2>2, UsersAre
  <2> QED BY <1>1, <2>1, <2>3 DEF UsersNow
<1>6. Conn(aim, InterfacePorts, users)
  BY <1>4
<1> QED BY <1>1, <1>3, <1>5, <1>6, ConnAfter

\* Without gateways there are no contracts.
LEMMA NothingConnected ==
  ASSUME TopologyConstants, RoutedInv, Conn(aim, InterfacePorts, Users), NoGateways, NoGateways',
         aim'.connected = aim.connected
  PROVE  Conn(aim, InterfacePorts, Users)'
<1>1. None \notin ExtNets
  BY DEF TopologyConstants
<1>2. \A e \in ExtNets : Users[e] = {}
  BY <1>1 DEF Users, GatewayUsers, NoGateways
<1>3. \A e \in ExtNets : Users'[e] = {}
  BY <1>1 DEF Users, GatewayUsers, NoGateways
<1>4. \A v \in Vrfs, e \in ExtNets : aim.connected[<<v, e>>] = {}
  BY <1>2 DEF Conn
<1> QED BY <1>3, <1>4 DEF Conn

\* The router r uses the external network e when it is added.
Uses(now, users, users2, r, e, added) ==
  /\ \A g \in ExtNets : now[g] = IF g = e THEN users2[g] \cup added ELSE users[g]
  /\ \A q \in Routers : q # r => (q \in users[e] <=> q \in users2[e])
  /\ r \notin users2[e] /\ users[e] \subseteq Routers

\* A gateway port comes or goes: its router is connected to the VRFs it is in.
LEMMA ConnectedConn ==
  ASSUME TopologyConstants, scopes \subseteq Scopes, \A p \in Pools : scopeOf[p] \in scopes \cup {None},
         NEW ports \in SUBSET RouterPorts, NEW a, Placed(a.vrf, ports), NEW users, Conn(a, ports, users),
         NEW r \in Routers, NEW e \in ExtNets, NEW b, b.vrf = a.vrf,
         NEW added, added = {} \/ added = {r},
         ConnectsTo(b, a, VrfsForRouter(r, a.vrf, ports), e, ports, added),
         NEW users2, UsersNow(users2, gateway, None),
         NEW now, Uses(now, users, users2, r, e, added)
  PROVE  Conn(b, ports, now)
<1> SUFFICES ASSUME NEW v \in Vrfs, NEW g \in ExtNets
             PROVE  b.connected[<<v, g>>] = {q \in now[g] : IsIn(q, v, b.vrf, ports)}
  BY DEF Conn
<1> USE DEF Uses
<1>1. a.connected[<<v, g>>] = {q \in users[g] : IsIn(q, v, a.vrf, ports)}
  BY DEF Conn
<1> DEFINE vs == VrfsForRouter(r, a.vrf, ports)
<1>2. b.connected[<<v, g>>] = IF g = e /\ v \in vs
                              THEN {q \in RoutersForVrf(v, a.vrf, ports) : gateway[q] = e} \cup added
                              ELSE a.connected[<<v, g>>]
  BY DEF ConnectsTo
<1>3. v \in vs <=> IsIn(r, v, a.vrf, ports)
  BY VrfsAre
<1> HIDE DEF vs
<1>4. \A q : q \in RoutersForVrf(v, a.vrf, ports) <=> IsIn(q, v, a.vrf, ports)
  BY RoutersAre
<1>5. \A q : IsIn(q, v, a.vrf, ports) => q \in Routers
  BY DEF IsIn, RouterPorts
<1>6. users2[e] = {q \in Routers : gateway[q] = e}
  BY DEF UsersNow
<1>7. CASE g = e /\ v \in vs
  <2>1. b.connected[<<v, g>>] = {q \in RoutersForVrf(v, a.vrf, ports) : gateway[q] = e} \cup added
    BY <1>2, <1>7
  <2>2. now[g] = users2[e] \cup added
    BY <1>7
  <2> QED BY <1>3, <1>4, <1>5, <1>6, <1>7, <2>1, <2>2
<1>8. CASE g = e /\ v \notin vs
  <2>1. b.connected[<<v, g>>] = a.connected[<<v, g>>] /\ now[g] = users2[e] \cup added
    BY <1>2, <1>8
  <2>2. \A q : IsIn(q, v, a.vrf, ports) => q # r /\ q \in Routers
    BY <1>3, <1>5, <1>8
  <2>3. \A q : IsIn(q, v, a.vrf, ports) => (q \in now[g] <=> q \in users[g])
    BY <1>8, <2>1, <2>2
  <2>4. b.connected[<<v, g>>] = {q \in users[g] : IsIn(q, v, a.vrf, ports)}
    BY <1>1, <2>1
  <2> QED BY <2>3, <2>4
<1>9. CASE g # e
  BY <1>1, <1>2, <1>9
<1> QED BY <1>7, <1>8, <1>9

\* Calls about gateways leave the interfaces.
LEMMA GatewayPorts ==
  ASSUME TopologyConstants, pending \in [Workers -> Calls \cup {None}], NEW w \in Workers,
         pending[w] = None \/ pending[w].op # "interface",
         NEW call, call = None \/ call.op # "interface",
         pending' = [pending EXCEPT ![w] = call], interfaces' = interfaces
  PROVE  InterfacePorts' = InterfacePorts /\ InterfacePorts = interfaces /\ pending'[w] = call
<1>1. pending'[w] = call /\ \A u \in Workers : u = w
  BY DEF TopologyConstants
<1>2. PendingPorts = {}
  BY <1>1 DEF PendingPorts
<1>3. PendingPorts' = {}
  BY <1>1 DEF PendingPorts
<1> QED BY <1>1, <1>2, <1>3 DEF InterfacePorts

\* The contracts follow the gateways.
LEMMA GatewayConn ==
  ASSUME TopologyConstants, RoutedInv, Conn(aim, InterfacePorts, Users), GatewayStep
  PROVE  Conn(aim, InterfacePorts, Users)'
<1> DEFINE users == Users
           ports == interfaces
<1>1. TypeOK /\ CallsFit /\ Good(aim, InterfacePorts)
  BY DEF RoutedInv
<1>2. /\ pending \in [Workers -> Calls \cup {None}] /\ gateway \in [Routers -> ExtNets \cup {None}]
      /\ interfaces \in SUBSET RouterPorts /\ aim \in AimType /\ scopes \subseteq Scopes
      /\ \A p \in Pools : scopeOf[p] \in scopes \cup {None}
  BY <1>1 DEF TypeOK, Calls, CallsFit
<1>3. \A w \in Workers : pending[w] # None => pending[w] \in Calls
  BY <1>2
<1>4. None \notin ExtNets
  BY DEF TopologyConstants
<1>5. users = Users /\ ports = interfaces
  OBVIOUS
<1> HIDE DEF users, ports
<1>6. ASSUME NEW w \in Workers, NEW r \in Routers, NEW e \in ExtNets, AddGatewayPort(w, r, e)
      PROVE  Conn(aim, InterfacePorts, Users)'
  <2> DEFINE call == [op |-> "gateway", router |-> r, ext |-> e]
             vs == VrfsForRouter(r, aim.vrf, ports)
             b == aim'
             added == {r}
             now == Users'
  <2>1. /\ pending[w] = None /\ gateway[r] = None
        /\ b = Connect(aim, vs, e, ports, added) /\ pending' = [pending EXCEPT ![w] = call]
        /\ UNCHANGED <<scopes, scopeOf, interfaces, gateway>>
    BY <1>5, <1>6 DEF AddGatewayPort
  <2>2. call # None /\ call.op = "gateway" /\ call.router = r /\ call.ext = e
    BY DEF Calls, TopologyConstants
  <2>3. added = {r} /\ added \in SUBSET Routers /\ vs = VrfsForRouter(r, aim.vrf, ports) /\ b = aim'
        /\ now = Users'
    OBVIOUS
  <2> HIDE DEF call, vs, b, added, now
  <2>4. InterfacePorts' = ports /\ InterfacePorts = ports /\ pending'[w] = call
    BY <1>2, <1>5, <2>1, <2>2, GatewayPorts
  <2>5. Good(aim, ports) /\ Conn(aim, ports, users)
    BY <1>1, <1>5, <2>4
  <2>6. b.vrf = aim.vrf /\ ConnectsTo(b, aim, vs, e, ports, added)
    <3>1. aim \in AimType /\ ports \in SUBSET RouterPorts
      BY <1>2, <1>5
    <3> QED BY <2>1, <2>3, <2>5, <3>1, ConnectGood
  <2>7. UsersNow(users, gateway, None)
    BY <1>5, <2>1, UsersAre
  <2>8. UsersNow(now, gateway, call)
    BY <2>1, <2>3, <2>4, UsersAre
  <2>9. \A g \in ExtNets : now[g] = IF g = e THEN users[g] \cup added ELSE users[g]
    <3> SUFFICES ASSUME NEW g \in ExtNets
                 PROVE  \A q : q \in now[g] <=> q \in IF g = e THEN users[g] \cup added ELSE users[g]
      OBVIOUS
    <3>1. \A q : q \in users[g] <=> q \in Routers /\ gateway[q] = g
      BY <2>7 DEF UsersNow
    <3>2. \A q : q \in now[g] <=> q \in Routers /\ (gateway[q] = g \/ (q = r /\ e = g))
      BY <2>2, <2>8 DEF UsersNow
    <3> QED BY <2>3, <3>1, <3>2
  <2>10. r \notin users[e] /\ users[e] \subseteq Routers
    BY <1>4, <2>1, <2>7 DEF UsersNow
  <2>12. Uses(now, users, users, r, e, added)
    BY <2>9, <2>10 DEF Uses
  <2>11. Conn(b, ports, now)
    <3>1. Placed(aim.vrf, ports) /\ ports \in SUBSET RouterPorts
      BY <1>2, <1>5, <2>5 DEF Good
    <3>2. ConnectsTo(b, aim, VrfsForRouter(r, aim.vrf, ports), e, ports, added)
      BY <2>3, <2>6
    <3> QED BY <1>2, <2>3, <2>5, <2>6, <2>7, <2>12, <3>1, <3>2, ConnectedConn
  <2> QED BY <2>3, <2>4, <2>11, ConnAfter
<1>7. ASSUME NEW w \in Workers, RecordGateway(w) PROVE Conn(aim, InterfacePorts, Users)'
  <2> DEFINE call == pending[w]
             now == Users'
             gateway2 == gateway'
             none == None
  <2>1. /\ call # None /\ call.op = "gateway"
        /\ gateway2 = [gateway EXCEPT ![call.router] = call.ext] /\ pending' = [pending EXCEPT ![w] = none]
        /\ UNCHANGED <<scopes, scopeOf, interfaces, aim>>
    BY <1>7 DEF RecordGateway
  <2>2. call.router \in Routers /\ call.ext \in ExtNets /\ gateway[call.router] = None
    BY <1>1, <1>3, <2>1 DEF Calls, CallsFit
  <2>3. call = pending[w] /\ now = Users' /\ gateway2 = gateway' /\ none = None
    OBVIOUS
  <2> HIDE DEF call, now, gateway2, none
  <2>4. InterfacePorts' = InterfacePorts /\ pending'[w] = none
    BY <1>2, <2>1, <2>3, GatewayPorts
  <2>5. UsersNow(users, gateway, call)
    BY <1>5, <2>3, UsersAre
  <2>6. UsersNow(now, gateway2, None)
    BY <2>3, <2>4, UsersAre
  <2>7. \A e \in ExtNets : now[e] = users[e]
    <3>0. \A e \in ExtNets : now[e] \subseteq Routers /\ users[e] \subseteq Routers
      BY <2>5, <2>6 DEF UsersNow
    <3> SUFFICES ASSUME NEW e \in ExtNets, NEW q \in Routers PROVE q \in now[e] <=> q \in users[e]
      BY <3>0
    <3>1. q \in users[e] <=> gateway[q] = e \/ (call # None /\ call.op # "interface" /\ call.router = q /\ call.ext = e)
      BY <2>5 DEF UsersNow
    <3>2. q \in now[e] <=> gateway2[q] = e
      BY <2>6 DEF UsersNow
    <3> QED BY <1>2, <1>4, <2>1, <2>2, <3>1, <3>2
  <2>8. Conn(aim, InterfacePorts, users)
    BY <1>5
  <2> QED BY <2>1, <2>3, <2>4, <2>7, <2>8, ConnAfter
<1>8. ASSUME NEW w \in Workers, DeleteGatewayPort(w) PROVE Conn(aim, InterfacePorts, Users)'
  <2> DEFINE call == pending[w]
             r == call.router
             e == call.ext
             vs == VrfsForRouter(r, aim.vrf, ports)
             b == aim'
             added == {}
             now == Users'
             none == None
  <2>1. /\ call # None /\ call.op \in {"gateway", "ungateway"}
        /\ b = Connect(aim, vs, e, ports, added) /\ pending' = [pending EXCEPT ![w] = none]
        /\ UNCHANGED <<scopes, scopeOf, interfaces, gateway>>
    BY <1>5, <1>8 DEF DeleteGatewayPort
  <2>2. r \in Routers /\ e \in ExtNets /\ gateway[r] = None
    BY <1>1, <1>3, <2>1 DEF Calls, CallsFit
  <2>3. /\ added = {} /\ added \in SUBSET Routers /\ vs = VrfsForRouter(r, aim.vrf, ports) /\ b = aim'
        /\ now = Users' /\ none = None /\ call = pending[w] /\ call.router = r /\ call.ext = e
    OBVIOUS
  <2> HIDE DEF call, r, e, vs, b, added, now, none
  <2>4. InterfacePorts' = ports /\ InterfacePorts = ports /\ pending'[w] = none
    BY <1>2, <1>5, <2>1, <2>3, GatewayPorts
  <2>5. Good(aim, ports) /\ Conn(aim, ports, users)
    BY <1>1, <1>5, <2>4
  <2>6. b.vrf = aim.vrf /\ ConnectsTo(b, aim, vs, e, ports, added)
    <3>1. aim \in AimType /\ ports \in SUBSET RouterPorts
      BY <1>2, <1>5
    <3>2. b = Connect(aim, vs, e, ports, added) /\ added \in SUBSET Routers
      BY <2>1, <2>3
    <3>3. b.vrf = aim.vrf /\ ConnectsTo(b, aim, vs, e, ports, added)
      BY <2>5, <3>1, <3>2, ConnectGood
    <3> QED BY <3>3
  <2>7. UsersNow(users, gateway, call)
    BY <1>5, <2>3, UsersAre
  <2>8. UsersNow(now, gateway, None)
    BY <2>1, <2>3, <2>4, UsersAre
  <2>9. \A g \in ExtNets : now[g] = IF g = e THEN now[g] \cup added ELSE users[g]
    BY <2>3, <2>7, <2>8 DEF UsersNow
  <2>10. /\ \A q \in Routers : q # r => (q \in users[e] <=> q \in now[e])
         /\ r \notin now[e] /\ users[e] \subseteq Routers
    BY <1>4, <2>2, <2>3, <2>7, <2>8 DEF UsersNow
  <2>12. Uses(now, users, now, r, e, added)
    BY <2>9, <2>10 DEF Uses
  <2>11. Conn(b, ports, now)
    <3>1. Placed(aim.vrf, ports) /\ ports \in SUBSET RouterPorts
      BY <1>2, <1>5, <2>5 DEF Good
    <3>2. ConnectsTo(b, aim, VrfsForRouter(r, aim.vrf, ports), e, ports, added)
      BY <2>3, <2>6
    <3> QED BY <1>2, <2>2, <2>3, <2>5, <2>6, <2>8, <2>12, <3>1, <3>2, ConnectedConn
  <2> QED BY <2>3, <2>4, <2>11, ConnAfter
<1>9. ASSUME NEW w \in Workers, NEW r \in Routers, ClearGateway(w, r) PROVE Conn(aim, InterfacePorts, Users)'
  <2> DEFINE call == [op |-> "ungateway", router |-> r, ext |-> gateway[r]]
             now == Users'
             gateway2 == gateway'
  <2>1. /\ pending[w] = None /\ gateway[r] # None
        /\ pending' = [pending EXCEPT ![w] = call] /\ gateway2 = [gateway EXCEPT ![r] = None]
        /\ UNCHANGED <<scopes, scopeOf, interfaces, aim>>
    BY <1>9 DEF ClearGateway
  <2>2. call # None /\ call.op = "ungateway" /\ call.router = r /\ call.ext = gateway[r]
    BY <1>2, <2>1 DEF Calls, TopologyConstants
  <2>3. now = Users' /\ gateway2 = gateway'
    OBVIOUS
  <2> HIDE DEF call, now, gateway2
  <2>4. InterfacePorts' = InterfacePorts /\ pending'[w] = call
    BY <1>2, <2>1, <2>2, GatewayPorts
  <2>5. UsersNow(users, gateway, None)
    BY <1>5, <2>1, UsersAre
  <2>6. UsersNow(now, gateway2, call)
    BY <2>3, <2>4, UsersAre
  <2>7. \A e \in ExtNets : now[e] = users[e]
    <3>0. \A e \in ExtNets : now[e] \subseteq Routers /\ users[e] \subseteq Routers
      BY <2>5, <2>6 DEF UsersNow
    <3> SUFFICES ASSUME NEW e \in ExtNets, NEW q \in Routers PROVE q \in now[e] <=> q \in users[e]
      BY <3>0
    <3>1. q \in users[e] <=> gateway[q] = e
      BY <2>5 DEF UsersNow
    <3>2. q \in now[e] <=> gateway2[q] = e \/ (call # None /\ call.op # "interface" /\ call.router = q /\ call.ext = e)
      BY <2>6 DEF UsersNow
    <3> QED BY <1>2, <1>4, <2>1, <2>2, <3>1, <3>2
  <2>8. Conn(aim, InterfacePorts, users)
    BY <1>5
  <2> QED BY <2>1, <2>3, <2>4, <2>7, <2>8, ConnAfter
<1> QED
  BY <1>6, <1>7, <1>8, <1>9 DEF GatewayStep

\* Scopes, pools and networks come and go without the contracts.
LEMMA ResourceConn ==
  ASSUME TopologyConstants, RoutedInv, Conn(aim, InterfacePorts, Users), ResourceStep
  PROVE  Conn(aim, InterfacePorts, Users)'
<1>1. TypeOK /\ Good(aim, InterfacePorts)
  BY DEF RoutedInv
<1> DEFINE b == aim'
<1>2. aim \in AimType /\ InterfacePorts \in SUBSET RouterPorts
  BY <1>1, PortsFit DEF TypeOK
<1>3. PICK w \in Workers : pending[w] = None
  BY DEF ResourceStep
<1>4. InterfacePorts = interfaces
  BY <1>3, IdleIs
<1>5. UNCHANGED <<interfaces, gateway, pending>>
  BY DEF ResourceStep, CreateScope, DeleteScope, UpdatePoolScope, CreateNetwork, DeleteNetwork
<1>6. InterfacePorts' = InterfacePorts /\ \A e \in ExtNets : Users'[e] = Users[e]
  BY <1>5 DEF InterfacePorts, PendingPorts, Users, GatewayUsers
<1>7. \A p \in InterfacePorts : aim.vrf[NetworkOf[p[2]]] # None
  <2> SUFFICES ASSUME NEW p \in InterfacePorts PROVE aim.vrf[NetworkOf[p[2]]] # None
    OBVIOUS
  <2>1. ~Unscoped(p[2]) => ScopeOfSubnet(p[2]) \in Scopes
    BY <1>1, <1>2, TopologyAssumption DEF Unscoped, ScopeOfSubnet, TypeOK, RouterPorts
  <2> QED BY <1>1, <2>1, VrfFacts DEF Good, Placed
<1>8. b.connected = aim.connected /\ \A p \in InterfacePorts : b.vrf[NetworkOf[p[2]]] = aim.vrf[NetworkOf[p[2]]]
  <2>1. CASE \E c \in Scopes : CreateScope(c) \/ DeleteScope(c)
    BY <1>2, <2>1 DEF CreateScope, DeleteScope, Ensure, AimType
  <2>2. CASE \E p \in Pools, c \in Scopes \cup {None} : UpdatePoolScope(p, c)
    BY <2>2 DEF UpdatePoolScope
  <2>3. ASSUME NEW n \in Networks, CreateNetwork(n) \/ DeleteNetwork(n)
        PROVE  b.connected = aim.connected /\ \A p \in InterfacePorts : b.vrf[NetworkOf[p[2]]] = aim.vrf[NetworkOf[p[2]]]
    <3>1. b.connected = aim.connected /\ \A x \in Networks : x # n => b.vrf[x] = aim.vrf[x]
      <4>1. CASE CreateNetwork(n)
        BY <1>2, <4>1 DEF CreateNetwork, Remap, AimType
      <4>2. CASE DeleteNetwork(n)
        <5> DEFINE a == Remap(aim, n, None, None)
        <5>1. b = [a EXCEPT !.contracts[n] = {}]
          BY <4>2 DEF DeleteNetwork
        <5>2. /\ a.connected = aim.connected /\ \A x \in Networks : x # n => a.vrf[x] = aim.vrf[x]
              /\ b.connected = a.connected /\ b.vrf = a.vrf
          BY <1>2, <5>1 DEF Remap, AimType
        <5> QED BY <5>2
      <4> QED BY <2>3, <4>1, <4>2
    <3>2. \A p \in InterfacePorts : NetworkOf[p[2]] # n
      BY <1>4, <1>7, <2>3 DEF CreateNetwork, DeleteNetwork, InterfacesOf
    <3>3. \A p \in InterfacePorts : NetworkOf[p[2]] \in Networks
      BY <1>2, TopologyAssumption DEF RouterPorts
    <3> QED BY <3>1, <3>2, <3>3
  <2> QED BY <2>1, <2>2, <2>3 DEF ResourceStep
<1> DEFINE users == Users
<1>9. Conn(b, InterfacePorts, users)
  <2>1. \A r, v : IsIn(r, v, b.vrf, InterfacePorts) <=> IsIn(r, v, aim.vrf, InterfacePorts)
    BY <1>8 DEF IsIn
  <2> QED BY <1>8, <2>1 DEF Conn
<1>10. aim' = b /\ \A e \in ExtNets : Users'[e] = users[e]
  BY <1>6
<1> HIDE DEF b, users
<1> QED BY <1>6, <1>9, <1>10, ConnAfter

\* The contracts of a project that joins no other follow the gateways.
LEMMA ConnNext ==
  ASSUME TopologyConstants, RoutedInv, Conn(aim, InterfacePorts, Users),
         NEW v, AllOf(aim.vrf, v), [Next]_vars
  PROVE  Conn(aim, InterfacePorts, Users)'
<1>1. CASE InterfaceStep
  <2>1. ASSUME NEW w \in Workers, NEW p \in RouterPorts, AddInterface(w, p[1], p[2]) \/ RemoveInterface(w, p[1], p[2])
        PROVE  Conn(aim, InterfacePorts, Users)'
    <3>1. p[1] \in Routers /\ p[2] \in Subnets
      BY DEF RouterPorts
    <3> QED BY <2>1, <3>1, AddedConn, RemovedConn
  <2>2. ASSUME NEW w \in Workers, RecordInterface(w) PROVE Conn(aim, InterfacePorts, Users)'
    BY <2>2, RecordedConn
  <2> QED BY <1>1, <2>1, <2>2 DEF InterfaceStep
<1>2. CASE GatewayStep
  BY <1>2, GatewayConn
<1>3. CASE ResourceStep
  BY <1>3, ResourceConn
<1>4. CASE UNCHANGED vars
  <2>1. UNCHANGED <<interfaces, gateway, pending, aim>>
    BY <1>4 DEF vars
  <2>2. InterfacePorts' = InterfacePorts /\ \A e \in ExtNets : Users'[e] = Users[e]
    BY <2>1 DEF InterfacePorts, PendingPorts, Users, GatewayUsers
  <2> DEFINE users == Users
  <2>3. Conn(aim, InterfacePorts, users) /\ \A e \in ExtNets : Users'[e] = users[e]
    BY <2>2
  <2> HIDE DEF users
  <2> QED BY <2>1, <2>2, <2>3, ConnAfter
<1> QED
  BY <1>1, <1>2, <1>3, <1>4 DEF Next

\* Interfaces of a router without gateway leave the contracts.
LEMMA AddedBare ==
  ASSUME TopologyConstants, RoutedInv, NEW w \in Workers, NEW r \in Routers, NEW s \in Subnets,
         AddInterface(w, r, s), gateway[r] = None
  PROVE  aim'.connected = aim.connected
<1>1. /\ pending[w] = None /\ Usable(r, s)
      /\ InterfaceSupported(r, s, InterfacesOf(NetworkOf[s], interfaces))
  BY DEF AddInterface
<1>2. PICK c \in Choices(r, s) :
         /\ aim' = Connected(Attached(Taken(Joining(Ensured(aim, c), c), NetworkOf[s], c.vrf), r, s), r, s, c)
         /\ Unscoped(s) => ~OverlapIn(c.vrf, aim'.vrf, interfaces, {s})
  BY DEF AddInterface
<1>3. TypeOK /\ Good(aim, interfaces)
  BY <1>1, IdleIs DEF RoutedInv
<1>4. /\ scopes \subseteq Scopes /\ scopeOf \in [Pools -> Scopes \cup {None}]
      /\ interfaces \in SUBSET RouterPorts /\ aim \in AimType
  BY <1>3 DEF TypeOK
<1>5. Contracts(aim', r, s, c)
  BY <1>1, <1>2, <1>3, <1>4, AddedGood
<1> QED BY <1>5 DEF Contracts

\* So does their removal.
LEMMA RemovedBare ==
  ASSUME TopologyConstants, RoutedInv, NEW w \in Workers, NEW r \in Routers, NEW s \in Subnets,
         RemoveInterface(w, r, s), gateway[r] = None
  PROVE  aim'.connected = aim.connected
<1> DEFINE n == NetworkOf[s]
           rest == interfaces'
           left == RoutersOn(n, rest)
           mine == NetworkTopology(n, rest)
           theirs == RouterTopology(r, rest)
           old == aim.vrf[n]
           v1 == PartVrf(s, left, TopologyVrf(mine, n))
           v2 == PartVrf(s, theirs, RouterTopologyVrf(theirs))
           b == aim'
<1>1. /\ pending[w] = None /\ <<r, s>> \in interfaces
      /\ interfaces' = interfaces \ {<<r, s>>}
  BY DEF RemoveInterface
<1>2. /\ PartsFit(mine, theirs, old, v1, v2, rest)
      /\ TakenAway(b, r, s, left, mine, theirs, old, v1, v2, rest)
  BY DEF RemoveInterface, RemovedAmong, RemoveFrom, TakenAway, PartsFit
<1>3. TypeOK /\ Good(aim, interfaces)
  BY <1>1, IdleIs DEF RoutedInv
<1>4. Without(rest, interfaces, r, s)
  BY <1>1 DEF Without
<1>5. /\ scopes \subseteq Scopes /\ scopeOf \in [Pools -> Scopes \cup {None}]
      /\ interfaces \in SUBSET RouterPorts /\ aim \in AimType
  BY <1>3 DEF TypeOK
<1>6. /\ n = NetworkOf[s] /\ left = RoutersOn(n, rest) /\ old = aim.vrf[n]
      /\ mine = NetworkTopology(n, rest) /\ theirs = RouterTopology(r, rest)
      /\ v1 = PartVrf(s, left, TopologyVrf(mine, n)) /\ v2 = PartVrf(s, theirs, RouterTopologyVrf(theirs))
      /\ b = aim'
  OBVIOUS
<1> HIDE DEF n, rest, left, mine, theirs, old, v1, v2, b
<1>7. Parted(b, r, s, old, v2, rest)
  <2>1. <<r, s>> \in interfaces /\ Good(aim, interfaces)
    BY <1>1, <1>3
  <2> QED BY <1>2, <1>4, <1>5, <1>6, <2>1, RemovedGood, SMTT(30)
<1> QED BY <1>6, <1>7 DEF Parted

\* Without gateways there is nothing to connect.
LEMMA BareNext ==
  ASSUME TopologyConstants, RoutedInv, Conn(aim, InterfacePorts, Users), NoGateways, InterfacesOnly
  PROVE  Conn(aim, InterfacePorts, Users)' /\ NoGateways'
<1>1. ASSUME NEW w \in Workers, NEW p \in RouterPorts, AddInterface(w, p[1], p[2]) \/ RemoveInterface(w, p[1], p[2])
      PROVE  Conn(aim, InterfacePorts, Users)' /\ NoGateways'
  <2>1. p[1] \in Routers /\ p[2] \in Subnets /\ gateway[p[1]] = None
    BY DEF RouterPorts, NoGateways
  <2>2. aim'.connected = aim.connected
    BY <1>1, <2>1, AddedBare, RemovedBare
  <2>3. pending \in [Workers -> Calls \cup {None}]
    BY DEF RoutedInv, TypeOK, Calls
  <2>4. /\ gateway' = gateway
        /\ pending' = pending \/ pending' = [pending EXCEPT ![w] = [op |-> "interface", port |-> <<p[1], p[2]>>]]
    BY <1>1 DEF AddInterface, RemoveInterface
  <2>5. NoGateways'
    BY <2>3, <2>4 DEF NoGateways
  <2> QED BY <2>2, <2>5, NothingConnected
<1>2. ASSUME NEW w \in Workers, RecordInterface(w) PROVE Conn(aim, InterfacePorts, Users)' /\ NoGateways'
  <2>1. pending \in [Workers -> Calls \cup {None}]
    BY DEF RoutedInv, TypeOK, Calls
  <2>2. NoGateways'
    BY <1>2, <2>1 DEF RecordInterface, NoGateways
  <2> QED BY <1>2, <2>2, RecordedConn
<1>3. CASE ResourceStep
  <2>1. UNCHANGED <<gateway, pending>>
    BY <1>3 DEF ResourceStep, CreateScope, DeleteScope, UpdatePoolScope, CreateNetwork, DeleteNetwork
  <2> QED BY <1>3, <2>1, ResourceConn DEF NoGateways
<1> QED
  BY <1>1, <1>2, <1>3 DEF InterfacesOnly, InterfaceStep, ResourceStep

\* At the start there are no gateways and no contracts.
LEMMA ConnInit ==
  ASSUME TopologyConstants, Init
  PROVE  Conn(aim, InterfacePorts, Users) /\ NoGateways
<1>1. None \notin ExtNets
  BY DEF TopologyConstants
<1>2. NoGateways
  BY DEF Init, NoGateways
<1>3. \A e \in ExtNets : Users[e] = {}
  BY <1>1, <1>2 DEF Users, GatewayUsers, NoGateways
<1>4. \A x \in Vrfs \X ExtNets : aim.connected[x] = {}
  BY DEF Init
<1> QED BY <1>2, <1>3, <1>4 DEF Conn

\* The contracts are those that the validation tool expects.
LEMMA ConnIsValid ==
  ASSUME TopologyConstants, RoutedInv, Conn(aim, InterfacePorts, Users)
  PROVE  ValidConnectivity
<1>1. ValidVrfs
  BY VrfsAreValid
<1>2. TypeOK /\ Placed(aim.vrf, InterfacePorts) /\ InterfacePorts \in SUBSET RouterPorts
  BY PortsFit DEF RoutedInv, Good
<1>3. \A p \in InterfacePorts : ExpectedVrfs(NetworkOf[p[2]]) = {aim.vrf[NetworkOf[p[2]]]}
  <2> SUFFICES ASSUME NEW p \in InterfacePorts PROVE ExpectedVrfs(NetworkOf[p[2]]) = {aim.vrf[NetworkOf[p[2]]]}
    OBVIOUS
  <2>1. ~Unscoped(p[2]) => ScopeOfSubnet(p[2]) \in Scopes
    BY <1>2, TopologyAssumption DEF Unscoped, ScopeOfSubnet, TypeOK, RouterPorts
  <2>2. aim.vrf[NetworkOf[p[2]]] # None
    BY <1>2, <2>1, VrfFacts DEF Placed
  <2>3. NetworkOf[p[2]] \in Networks
    BY <1>2, TopologyAssumption DEF RouterPorts
  <2> QED BY <1>1, <2>2, <2>3 DEF ValidVrfs, ExistingNetworks
<1> SUFFICES ASSUME NEW v \in Vrfs, NEW e \in ExtNets
             PROVE  aim.connected[<<v, e>>] = ExpectedRouters(v, e)
  BY DEF ValidConnectivity
<1>4. aim.connected[<<v, e>>] = {r \in GatewayUsers(e) : IsIn(r, v, aim.vrf, InterfacePorts)}
  BY DEF Conn, Users
<1>5. \A r : IsIn(r, v, aim.vrf, InterfacePorts) <=>
               \E p \in InterfacePorts : p[1] = r /\ v \in ExpectedVrfs(NetworkOf[p[2]])
  <2>1. \A p \in InterfacePorts : v \in ExpectedVrfs(NetworkOf[p[2]]) <=> aim.vrf[NetworkOf[p[2]]] = v
    BY <1>3
  <2> QED BY <2>1 DEF IsIn
<1> QED BY <1>4, <1>5 DEF ExpectedRouters

--------------------
(* The theorems *)

\* One call at a time.
OneAtATime == \A v, w \in Workers : v = w

\* What is assumed of the constants.
LEMMA ConstantsFit ==
  ASSUME OneAtATime
  PROVE  TopologyConstants
BY RoutingAssumption DEF OneAtATime, TopologyConstants, Calls, RouterPorts

\* What the validation tool checks of networks, subnets and VRFs.
RoutedAsExpected ==
  TypeOK /\ ValidVrfs /\ ValidNetworks /\ ValidVrfResources /\ NoOverlap /\ InterfacesShare

\* The invariant is stronger than what is expected.
LEMMA RoutedSuffices ==
  ASSUME TopologyConstants, RoutedInv
  PROVE  RoutedAsExpected
<1>1. TypeOK
  BY DEF RoutedInv
<1> QED BY <1>1, VrfsAreValid, NetworksAreValid, VrfResourcesAreValid, InterfacesAreShared, NothingOverlaps
        DEF RoutedAsExpected

\* For any number of projects, networks, routers, scopes and pools: after any
\* sequence of _add_router_interface and _remove_router_interface, with changes of
\* scopes, pools, networks and gateways between, VRFs, bridge domains and AIM subnets
\* are what validate_aim_mapping computes, and no subnets of a default VRF overlap.
THEOREM RoutingIsValid ==
  ASSUME OneAtATime
  PROVE  Spec => []RoutedAsExpected
<1>1. TopologyConstants
  BY ConstantsFit
<1>2. Init => RoutedInv
  BY <1>1, RoutedInit
<1>3. RoutedInv /\ [Next]_vars => RoutedInv'
  BY <1>1, RoutedNext
<1>4. RoutedInv => RoutedAsExpected
  BY <1>1, RoutedSuffices
<1> QED BY <1>2, <1>3, <1>4, PTL DEF Spec

\* The one default VRF of the networks there are, if a project owns them.
LEMMA OneProjectIs ==
  ASSUME OneProject
  PROVE  \E v : AllOf(aim.vrf, v)
<1>1. CASE ExistingNetworks = {}
  BY <1>1 DEF AllOf, ExistingNetworks
<1>2. CASE ExistingNetworks # {}
  <2>1. PICK n \in ExistingNetworks : TRUE
    BY <1>2
  <2>2. AllOf(aim.vrf, DefaultVrf(Owner[n]))
    BY <2>1 DEF AllOf, OneProject, ExistingNetworks
  <2> QED BY <2>2
<1> QED BY <1>1, <1>2

\* If a project owns all networks, the contracts of external networks are those of the
\* routers with that gateway and an interface in the VRF, whatever is added or removed.
THEOREM ConnectivityIsValid ==
  ASSUME OneAtATime, \A n, m \in Networks : Owner[n] = Owner[m]
  PROVE  Spec => []ValidConnectivity
<1> DEFINE I == RoutedInv /\ Conn(aim, InterfacePorts, Users)
<1>1. TopologyConstants
  BY ConstantsFit
<1>2. Init => I
  BY <1>1, RoutedInit, ConnInit
<1>3. I /\ [Next]_vars => I'
  <2> SUFFICES ASSUME I, [Next]_vars PROVE I'
    OBVIOUS
  <2>1. PICK v : AllOf(aim.vrf, v)
    BY OneProjectIs DEF OneProject, ExistingNetworks
  <2>2. RoutedInv'
    BY <1>1, RoutedNext
  <2>3. Conn(aim, InterfacePorts, Users)'
    BY <1>1, <2>1, ConnNext
  <2> QED BY <2>2, <2>3
<1>4. I => ValidConnectivity
  BY <1>1, ConnIsValid
<1> HIDE DEF I
<1> QED BY <1>2, <1>3, <1>4, PTL DEF Spec

\* The topics of an installation: which networks there are, and when gateways.
TopicInv ==
  /\ RoutedInv /\ Conn(aim, InterfacePorts, Users)
  /\ topic \in Topics
  /\ \A n \in ExistingNetworks : topic \in RoutingTopics /\ n \in NetworksOf[topic]
  /\ topic = "projects" => NoGateways

\* The invariant holds at the start, whatever the topic.
LEMMA TopicInit ==
  ASSUME TopologyConstants, MCInit
  PROVE  TopicInv
<1>1. Init /\ topic \in Topics
  BY DEF MCInit
<1>2. ExistingNetworks = {}
  BY <1>1 DEF Init, ExistingNetworks
<1> QED BY <1>1, <1>2, RoutedInit, ConnInit DEF TopicInv

\* Without a topic about a project that joins another, one project owns what there is.
LEMMA TopicNext ==
  ASSUME TopologyConstants, "joined" \notin Topics, TopicInv,
         [MCNext]_<<vars, bindingVars, remoteVars, endpointVars, topic>>
  PROVE  TopicInv'
<1>1. CASE topic \in RoutingTopics /\ RoutingStep /\ topic' = topic
  <2>1. topic = "projects" => InterfacesOnly
    BY <1>1 DEF RoutingStep
  <2>2. topic # "projects" => Next
    BY <1>1 DEF RoutingStep
  <2>3. InterfacesOnly => Next
    BY DEF InterfacesOnly, Next, ResourceStep
  <2>4. RoutedInv'
    BY <2>1, <2>2, <2>3, RoutedNext DEF TopicInv
  <2>5. \A n \in Networks : aim'.vrf[n] # None => n \in NetworksOf[topic]
    BY <1>1 DEF RoutingStep
  <2>6. \A n \in ExistingNetworks' : topic' \in RoutingTopics /\ n \in NetworksOf[topic']
    BY <1>1, <2>5 DEF ExistingNetworks
  <2>7. CASE topic = "projects"
    <3>1. Conn(aim, InterfacePorts, Users)' /\ NoGateways'
      BY <2>1, <2>7, BareNext DEF TopicInv
    <3> QED BY <1>1, <2>4, <2>6, <3>1 DEF TopicInv
  <2>8. CASE topic # "projects"
    <3>1. topic = "gateways"
      BY <1>1, <2>8 DEF RoutingTopics, TopicInv
    <3>2. OneProject
      BY <3>1, TopicsAssumption DEF OneProject, TopicInv, ExistingNetworks
    <3>3. PICK v : AllOf(aim.vrf, v)
      BY <3>2, OneProjectIs
    <3>4. Conn(aim, InterfacePorts, Users)'
      BY <2>2, <2>8, <3>3, ConnNext DEF TopicInv
    <3> QED BY <1>1, <2>4, <2>6, <2>8, <3>4 DEF TopicInv
  <2> QED BY <2>7, <2>8
<1>2. CASE UNCHANGED vars /\ topic' = topic
  <2>1. RoutedInv'
    BY <1>2, RoutedNext DEF TopicInv
  <2>2. UNCHANGED <<interfaces, gateway, pending, aim>>
    BY <1>2 DEF vars
  <2>3. InterfacePorts' = InterfacePorts /\ Users' = Users /\ ExistingNetworks' = ExistingNetworks
    BY <2>2 DEF InterfacePorts, PendingPorts, Users, GatewayUsers, ExistingNetworks
  <2>4. Conn(aim, InterfacePorts, Users)'
    BY <2>2, <2>3 DEF TopicInv, Conn
  <2>5. topic = "projects" => NoGateways'
    BY <2>2 DEF TopicInv, NoGateways
  <2> QED BY <1>2, <2>1, <2>3, <2>4, <2>5 DEF TopicInv
<1> QED
  BY <1>1, <1>2 DEF MCNext

\* TopologyIsValid in every installation without a topic about a project that joins
\* another (the gateways of that one are the divergence md_connectivity shows):
\* what validate_aim_mapping would repair is nothing, no subnets of a default VRF
\* overlap, and the checks of a new interface suffice.
THEOREM TopologyStaysValid ==
  ASSUME OneAtATime, "joined" \notin Topics
  PROVE  MCSpec => []TopologyIsValid
<1>1. TopologyConstants
  BY ConstantsFit
<1>2. MCInit => TopicInv
  BY <1>1, TopicInit
<1>3. TopicInv /\ [MCNext]_<<vars, bindingVars, remoteVars, endpointVars, topic>> => TopicInv'
  BY <1>1, TopicNext
<1>4. TopicInv => TopologyIsValid
  BY <1>1, RoutedSuffices, ConnIsValid DEF TopicInv, RoutedAsExpected, TopologyIsValid, ValidTopology
<1> QED BY <1>2, <1>3, <1>4, PTL DEF MCSpec
====================
