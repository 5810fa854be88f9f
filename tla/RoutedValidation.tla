-------------------------- MODULE RoutedValidation --------------------------
(* What the state of the routed topology should be.  The driver has a
   validation tool (validate_aim_mapping) that computes, from Neutron's
   rows alone, the VRF of every network, the resources in AIM and the
   contracts of the external networks.  RoutedTopology reaches them one
   interface at a time; the properties here say that both agree. *)
EXTENDS RoutedTopology

\* Interfaces, with the one whose RouterPort row is still to be added.
PendingPorts ==
  {pending[w].port : w \in {u \in Workers : /\ pending[u] # None
                                            /\ pending[u].op = "interface"}}
InterfacePorts == interfaces \cup PendingPorts

\* The routers using an external network, from the creation of the gateway
\* port to its deletion.
GatewayUsers(e) ==
  {r \in Routers :
     \/ gateway[r] = e
     \/ \E w \in Workers : /\ pending[w] # None
                           /\ pending[w].op # "interface"
                           /\ pending[w].router = r /\ pending[w].ext = e}

--------------------
(* The state the tool expects. *)

ScopesOn(n) == {ScopeOfSubnet(p[2]) : p \in InterfacesOf(n, InterfacePorts)} \ {None}

UnscopedNetworks ==
  {n \in Networks : InterfacesOf(n, InterfacePorts) # {} /\ ScopesOn(n) = {}}

\* Two unscoped networks are joined if every set of them that has the one, and
\* with a network the others of its routers, has the other.
Joined(n, m) ==
  \A nets \in SUBSET UnscopedNetworks :
    (/\ n \in nets
     /\ \A a \in nets, b \in UnscopedNetworks :
          RoutersOn(a, InterfacePorts) \cap RoutersOn(b, InterfacePorts) # {}
            => b \in nets)
    => m \in nets

\* A scope's VRF; without a scope, the default VRF of a joined shared network
\* or, if there is none, of the network itself.
ExpectedVrfs(n) ==
  LET shared == {m \in UnscopedNetworks \cap Shared : Joined(n, m)}
  IN IF InterfacesOf(n, InterfacePorts) = {} THEN {UnroutedVrf}
     ELSE IF ScopesOn(n) # {} THEN {ScopeVrf[c] : c \in ScopesOn(n)}
     ELSE {DefaultVrf(Owner[m]) : m \in IF shared = {} THEN {n} ELSE shared}

ExpectedTenant(n) ==
  IF aim.vrf[n].tenant = "common" THEN Owner[n] ELSE aim.vrf[n].tenant

ExistingNetworks == {n \in Networks : aim.vrf[n] # None}

\* The contracts of an external network for a VRF: of every router with that
\* gateway and an interface on a network of the VRF.
ExpectedRouters(v, e) ==
  {r \in GatewayUsers(e) :
     \E p \in InterfacePorts : p[1] = r /\ v \in ExpectedVrfs(NetworkOf[p[2]])}

--------------------
(* Properties. *)

\* Every network is in the one VRF its interfaces call for, however interfaces
\* were added and removed: a topology joined by unscoped interfaces shares the
\* default VRF of the project of its shared networks, a part split off goes
\* back to its own, an unrouted network to the unrouted VRF.
ValidVrfs ==
  \A n \in ExistingNetworks : ExpectedVrfs(n) = {aim.vrf[n]}

\* The bridge domain and group of every network are under the tenant of its
\* VRF, the group has the contracts of just the routers on the network, and
\* the AIM subnets are those of the interfaces, under the tenants of their
\* bridge domains: moving a topology leaves none behind.
ValidNetworks ==
  /\ \A n \in ExistingNetworks :
       /\ aim.tenant[n] = ExpectedTenant(n)
       /\ aim.contracts[n] = RoutersOn(n, InterfacePorts)
  /\ aim.subnets = {<<p[1], p[2], aim.tenant[NetworkOf[p[2]]]>> : p \in InterfacePorts}

\* AIM has the default VRF of a project exactly while a network uses it, and
\* the VRF of a scope exactly while a scope owns it: _cleanup_default_vrf
\* neither leaks one nor takes one away from another topology.
ValidVrfResources ==
  aim.vrfs = ({aim.vrf[n] : n \in ExistingNetworks} \cap DefaultVrfs)
             \cup {ScopeVrf[c] : c \in scopes}

\* No two routed subnets of a default VRF overlap, also after two topologies
\* were joined or moved.
NoOverlap ==
  \A v \in DefaultVrfs : ~OverlapIn(v, aim.vrf, InterfacePorts, {})

\* For each VRF, an external network has the contracts of just the routers
\* with that gateway and an interface in the VRF.
ValidConnectivity ==
  \A v \in Vrfs, e \in ExtNets : aim.connected[<<v, e>>] = ExpectedRouters(v, e)

\* All router interfaces for a network share either the same router or the
\* same subnet (_add_router_interface), although it looks at two of them only.
EitherIsShared ==
  \A n \in Networks :
    LET on == InterfacesOf(n, InterfacePorts)
    IN \/ \A p, q \in on : p[1] = q[1]
       \/ \A p, q \in on : p[2] = q[2]

\* "This should never happen": no interface a user can add finds the topology
\* of the network and that of the router in different VRFs and neither of them
\* shared.
NoInternalError ==
  \A r \in Routers, s \in Subnets :
    Usable(r, s) /\ Unscoped(s) /\ PendingPorts = {} =>
      LET mine == NetworkTopology(NetworkOf[s], interfaces)
          theirs == RouterTopology(r, interfaces)
      IN \/ theirs = {}
         \/ (mine \cup theirs) \cap Shared # {}
         \/ TopologyVrf(mine, NetworkOf[s]) = RouterTopologyVrf(theirs)

\* What validate_aim_mapping would find to repair after any of these calls:
\* nothing.
ValidTopology == ValidVrfs /\ ValidNetworks /\ ValidVrfResources /\ ValidConnectivity

\* The checks of a new interface, which look at a few of the interfaces there
\* are, suffice for all of them.
InterfacesShare == EitherIsShared /\ NoInternalError
====================
