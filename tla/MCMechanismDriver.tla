------------------------- MODULE MCMechanismDriver -------------------------
(* A small installation of the APIC mechanism driver: its routed topology,
   its port bindings, the members of remote security groups and the
   addresses its endpoints own.  The four share no state, so that a
   behaviour follows one topic: of the topology, the interfaces of two
   projects, which a shared network joins; or interfaces, address scopes,
   subnet pools and gateways of one project; or interfaces and gateways of
   a project that joins the other. *)
EXTENDS RoutedValidation, PortBindings, TLC

CONSTANTS Topics, RemoteSets, MemberPorts, RemoteRules, Addresses, SixAddresses, SixRules,
          AgentPorts, Vips, Reporters

VARIABLES sgSets, member, sgRule, mapped, remoteIps, pointing, container, normalized,
          owner, pairs, floating, report, notices, request, view, topic

Remote == INSTANCE RemoteGroups
Endpoint == INSTANCE EndpointRpc

remoteVars == <<sgSets, member, sgRule, mapped, remoteIps, pointing, container, normalized>>
endpointVars == <<owner, pairs, floating, report, notices, request, view>>

--------------------
CONSTANTS pA, pB, sharedNet, netA, netA2, netB, netB2, rA, rA2, rB, rB2,
          subS, subA, subA2, subA3, subB, subB2,
          scope4, scope6, pool4, pool6, ext, w1

\* Two projects; a shared network of pB joins their topologies.
OwnerDef == [x \in Networks \cup Routers |->
               IF x \in {sharedNet, netB, netB2, rB, rB2} THEN pB ELSE pA]
NetworkOfDef == [s \in Subnets |-> CASE s = subS -> sharedNet [] s \in {subA, subA2} -> netA
                                  [] s = subA3 -> netA2 [] s = subB -> netB [] s = subB2 -> netB2]
TwoPools == [s \in Subnets |-> CASE s = subS -> pool4 [] s = subB2 -> pool6
                                [] OTHER -> None]
OverlapDef == {<<subB, subA3>>, <<subA3, subB>>, <<subB, subB2>>, <<subB2, subB>>}
              \cap (Subnets \X Subnets)
ScopeVrfDef == [c \in Scopes |-> [tenant |-> pB, name |-> "isomorphic"]]

\* Bound: the networks and routers of a topic.
NetworksOf ==
  [projects |-> {sharedNet, netA, netA2, netB}, gateways |-> {sharedNet, netB, netB2},
   joined |-> {sharedNet, netA}]
RoutersOf ==
  [projects |-> {rA, rA2, rB}, gateways |-> {rB, rB2}, joined |-> {rA, rA2}]

CONSTANTS net, svi, p1, p2, q1, agent, b1, b2, b3, vmm, x1, x2

PortNetworkDef == (p1 :> net) @@ (p2 :> net) @@ (q1 :> svi)
\* The VMM domain is the agent's; b3 has the default domain.
Mapping == (agent :> {vmm, x1}) @@ (b1 :> {x1}) @@ (b2 :> {x1}) @@ (b3 :> {})

\* Ports come and go on all hosts, without links; or on two of them, one with
\* a link that moves, where reports overlap or do not.
MovingOf == [links |-> b1, flapping |-> b2]

BindingStep ==
  /\ BindingNext
  /\ IF topic = "domains" THEN link' = link
     ELSE /\ \A h \in Hosts \ {MovingOf[topic]} : link'[h] = Absent
          /\ \A p \in Ports : ~IsOn(chosen'[p], agent) /\ ~IsOn(chosen'[p], b3)

--------------------
RoutingTopics == {"projects", "gateways", "joined"}

\* The networks of a topic with gateways are one project's, unless it is about
\* a project that joins another.
ASSUME TopicsAssumption ==
  \A n, m \in NetworksOf["gateways"] \cap Networks : Owner[n] = Owner[m]

InterfacesOnly ==
  \/ InterfaceStep
  \/ /\ \E w \in Workers : pending[w] = None
     /\ \E n \in Networks : CreateNetwork(n) \/ DeleteNetwork(n)

RoutingStep ==
  /\ IF topic = "projects" THEN InterfacesOnly ELSE Next
  /\ \A n \in Networks : aim'.vrf[n] # None => n \in NetworksOf[topic]
  /\ \A r \in Routers \ RoutersOf[topic] :
       gateway'[r] = None /\ \A p \in RouterPorts : p[1] = r => p \notin InterfacePorts'

MCInit ==
  Init /\ BindingInit /\ Remote!RemoteInit /\ Endpoint!EndpointInit /\ topic \in Topics

MCNext ==
  /\ UNCHANGED topic
  /\ \/ /\ topic \in RoutingTopics /\ RoutingStep
        /\ UNCHANGED <<bindingVars, remoteVars, endpointVars>>
     \/ /\ topic \in {"domains", "links", "flapping"} /\ BindingStep
        /\ UNCHANGED <<vars, remoteVars, endpointVars>>
     \/ /\ topic = "groups" /\ Remote!RemoteNext
        /\ UNCHANGED <<vars, bindingVars, endpointVars>>
     \/ /\ topic = "endpoints" /\ Endpoint!EndpointNext
        /\ UNCHANGED <<vars, bindingVars, remoteVars>>

MCSpec == MCInit /\ [][MCNext]_<<vars, bindingVars, remoteVars, endpointVars, topic>>

\* After any sequence of interfaces, gateways, scopes and networks the topology is
\* what the validation tool expects, subnets of a VRF do not overlap, and the checks
\* of a new interface suffice (_add_router_interface, _remove_router_interface).
TopologyIsValid == TypeOK /\ ValidTopology /\ NoOverlap /\ InterfacesShare

\* A bound port can be reached on its host, and dynamic segments, and the paths of
\* the links that hosts have, go with the last port that needs them
\* (_bind_port_level, update_link).
BindingsFollowPorts == BindingTypeOK /\ BoundPortsAreReachable /\ NothingIsLeaked

\* Rules let in exactly the members of their remote groups, and agents end up with
\* the addresses their ports own (mechanism_driver.py, rpc.py, db.py).
AddressesAreKnown ==
  /\ Remote!RemoteTypeOK /\ Remote!RulesLetMembersIn
  /\ Endpoint!EndpointTypeOK /\ Endpoint!AgentsKnowTheirAddresses
====================
