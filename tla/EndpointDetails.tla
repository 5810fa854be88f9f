--------------------------- MODULE EndpointDetails ---------------------------
(* What the OpFlex agents are told of their endpoints: the external
   networks to which a port is routed, its floating addresses, the SNAT
   address of its host, its endpoint group; and of the subnets of a VRF.
   The SNAT address of a host on an external network is that of a port
   which the first request that needs it creates, and which goes with the
   last router interface behind the network.

   A change is a transaction, then the deletion of SNAT ports no longer
   needed, then the notifications of the ports and VRFs concerned; agents
   that are notified ask for the details again.  Neutron writes the row of
   a new gateway or interface when the notifications are sent: an agent
   may ask in between. *)
CONSTANTS
  DetailPorts, PortHosts, PortOn,    \* ports, their hosts and networks
  DetailNets, DetailRouters, OuterNets,
  Fips, FipOuter,                    \* floating addresses and their networks
  SnatPorts,                         \* the ports that may be created for SNAT
  TargetGroups, AutoGroups, Profiles, Labels,
  SubnetCidrs, ScopedPools, PoolScopes, DetailWorkers,
  Unset,
  Exclusive  \* the creation and deletion of SNAT ports meet no other change,
             \* and a router has one change at a time

VARIABLES
  links,     \* rows: the networks a router has interfaces on
  routedNets,\* rows: the networks whose mapping has the routed VRF
  outerOf,   \* rows: the external network of a router's gateway
  fip,       \* rows: the port and router of an associated floating address
  snat,      \* rows: the SNAT ports of a host on an external network
  binding,   \* rows: the host of a port, and whether it is bound there
  target,    \* rows: the policy target group of a port, and its label
  profile,   \* rows: the application profile of a group
  subnetsOf, \* rows: the subnets of a network
  pool,      \* rows: the scope and the prefixes of a subnet pool
  duty,       \* what a worker has left to do after its transaction
  told,      \* ports and VRFs with a notification on its way
  asked,     \* the request of the agent for a port, or its answer
  known,     \* the details that the agent has of a port, of a VRF
  late,      \* history: ports asked for before the row they were told of
  exhausted  \* history: the external networks that once had no SNAT address

topologyRows == <<links, routedNets, outerOf, fip>>
groupRows == <<target, profile>>
vrfRows == <<subnetsOf, pool>>
agentState == <<told, asked, known>>
history == <<late, exhausted>>
detailVars == <<topologyRows, snat, binding, groupRows, vrfRows, duty, agentState, history>>

OrUnset(S) == S \cup {Unset}

--------------------
(* What the rows say. *)

Routed(n) == n \in routedNets
OutersOf(p) == {outerOf[r] : r \in {s \in DetailRouters : PortOn[p] \in links[s]}} \ {Unset}

HasInterfaces(x) == \E r \in DetailRouters : outerOf[r] = x /\ links[r] # {}
FipsOn(p) == {f \in Fips : IF fip[f] = Unset THEN FALSE ELSE fip[f].port = p}

\* An address with a floating address on a distributed external network needs
\* no SNAT there.
NeedsSnat(p) == OutersOf(p) \ {FipOuter[f] : f \in FipsOn(p)}

\* A target's group takes the place of the network's endpoint group, unless it
\* is the automatic group of the network.
GroupOf(p) ==
  LET g == target[p].group
  IN IF g \in AutoGroups \cup {Unset}
     THEN [epg |-> PortOn[p], profile |-> Unset]
     ELSE [epg |-> g, profile |-> profile[g]]

PortDetails(p) ==
  [routed |-> Routed(PortOn[p]), outers |-> OutersOf(p), fips |-> FipsOn(p),
   group |-> GroupOf(p), label |-> target[p].label]

UnscopedVrfs == {"default", "unrouted"}
DetailVrfs == UnscopedVrfs \cup PoolScopes
VrfOfNet(n) == IF Routed(n) THEN "default" ELSE "unrouted"

\* The prefixes of the pools of a scope; without a scope, the subnets of the
\* networks that are in the VRF.
VrfSubnets(v) ==
  IF v \in PoolScopes
  THEN UNION {pool[o].prefixes : o \in {q \in ScopedPools : pool[q].scope = v}}
  ELSE UNION {subnetsOf[n] : n \in {m \in DetailNets : VrfOfNet(m) = v}}

BoundAt(p, h) == binding[p].bound /\ binding[p].host = h

--------------------
Groupings == [epg : TargetGroups \cup DetailNets, profile : OrUnset(Profiles)]
Snapshots == [routed : BOOLEAN, outers : SUBSET OuterNets, fips : SUBSET Fips,
              group : Groupings, label : OrUnset(Labels)]
\* An interface, or the gateway, that a router is about to have.
PlannedRows == [router : DetailRouters, net : DetailNets, outer : {Unset}]
                 \cup [router : DetailRouters, net : {Unset}, outer : OuterNets]
Answers == [info : Snapshots, snat : [OuterNets -> OrUnset(SnatPorts)]]

DetailTypeOK ==
  /\ links \in [DetailRouters -> SUBSET DetailNets]
  /\ outerOf \in [DetailRouters -> OrUnset(OuterNets)] /\ routedNets \subseteq DetailNets
  /\ fip \in [Fips -> OrUnset([port : DetailPorts, router : DetailRouters])]
  /\ snat \in [PortHosts \X OuterNets -> SUBSET SnatPorts]
  /\ binding \in [DetailPorts -> [host : PortHosts, bound : BOOLEAN]]
  /\ target \in [DetailPorts -> [group : OrUnset(TargetGroups), label : OrUnset(Labels)]]
  /\ profile \in [TargetGroups -> OrUnset(Profiles)]
  /\ subnetsOf \in [DetailNets -> SUBSET SubnetCidrs]
  /\ pool \in [ScopedPools -> [scope : OrUnset(PoolScopes), prefixes : SUBSET SubnetCidrs]]
  /\ duty \in [DetailWorkers -> OrUnset(
       [step : {"look", "delete", "notify", "write"}, outer : OrUnset(OuterNets),
        row : OrUnset(PlannedRows), snats : SUBSET SnatPorts,
        ports : SUBSET DetailPorts, vrfs : SUBSET DetailVrfs])]
  /\ late \subseteq DetailPorts /\ exhausted \subseteq OuterNets
  /\ told.ports \subseteq DetailPorts /\ told.vrfs \subseteq DetailVrfs
  /\ \A p \in DetailPorts :
       /\ asked.port[p] = Unset \/ asked.port[p].step = "query" \/ asked.port[p].step = "bind"
            \/ asked.port[p].answer \in OrUnset(Answers)
       /\ known.port[p] \in OrUnset(Answers)
  /\ \A v \in DetailVrfs :
       /\ asked.vrf[v] \in OrUnset(SUBSET SubnetCidrs)
       /\ known.vrf[v] \in SUBSET SubnetCidrs

\* Every port has been announced to the agent of its host.
DetailInit ==
  /\ links = [r \in DetailRouters |-> {}] /\ outerOf = [r \in DetailRouters |-> Unset]
  /\ routedNets = {} /\ late = {} /\ exhausted = {}
  /\ fip = [f \in Fips |-> Unset] /\ snat = [hx \in PortHosts \X OuterNets |-> {}]
  /\ binding \in [DetailPorts -> [host : PortHosts, bound : BOOLEAN]]
  /\ target = [p \in DetailPorts |-> [group |-> Unset, label |-> Unset]]
  /\ profile = [g \in TargetGroups |-> Unset]
  /\ subnetsOf = [n \in DetailNets |-> {}]
  /\ pool = [o \in ScopedPools |-> [scope |-> Unset, prefixes |-> {}]]
  /\ duty = [w \in DetailWorkers |-> Unset]
  /\ told = [ports |-> DetailPorts, vrfs |-> {}]
  /\ asked = [port |-> [p \in DetailPorts |-> Unset], vrf |-> [v \in DetailVrfs |-> Unset]]
  /\ known = [port |-> [p \in DetailPorts |-> Unset], vrf |-> [v \in DetailVrfs |-> {}]]

--------------------
(* Changes.  A worker whose transaction is done has a duty: an external
   network whose SNAT ports may be unneeded, whom to notify, and a row that
   Neutron writes then. *)

OnNets(ns) == {p \in DetailPorts : PortOn[p] \in ns}
FirstStep(x) == IF x = Unset THEN "notify" ELSE "look"
Planned(w, x, row, ports, vrfs) ==
  /\ duty[w] = Unset
  /\ duty' = [duty EXCEPT ![w] = [step |-> FirstStep(x), outer |-> x, row |-> row,
                                snats |-> {}, ports |-> ports, vrfs |-> vrfs]]
Committed(w, x, ports, vrfs) == Planned(w, x, Unset, ports, vrfs)

\* Exclusive: neither is a request between its transaction and the SNAT ports
\* it needs nor is a worker between finding SNAT ports and deleting them; and
\* nobody is about to write a row of the router.
AtJob(w, step) == IF duty[w] = Unset THEN FALSE ELSE duty[w].step = step
At(p, step) == IF asked.port[p] = Unset THEN FALSE ELSE asked.port[p].step = step
Quiet == Exclusive => /\ \A p \in DetailPorts : ~At(p, "allocate")
                      /\ \A w \in DetailWorkers : ~AtJob(w, "delete")
Plans(w, r) ==
  IF duty[w] = Unset THEN FALSE
  ELSE IF duty[w].row = Unset THEN FALSE ELSE duty[w].row.router = r
Unplanned(r) == Exclusive => \A w \in DetailWorkers : ~Plans(w, r)

\* Mutant: only the ports whose network changed its VRF are notified.
PortsOfMoves(r, n, moves) == IF moves THEN OnNets({n}) ELSE {}

\* With a gateway the ports of the subnet have another SNAT address; with the
\* first or the last interface of the network all have another VRF.
PortsAffected(r, n, moves) ==
  IF moves \/ outerOf[r] # Unset THEN OnNets({n}) ELSE {}

\* The VRF that the network leaves is read when the row has the new one: it is
\* not notified.  Interfaces without a row do not count.
AddInterface(w, r, n) ==
  LET moves == \A s \in DetailRouters : n \notin links[s]
  IN /\ n \notin links[r] /\ Unplanned(r)
     /\ routedNets' = IF moves THEN routedNets \cup {n} ELSE routedNets
     /\ Planned(w, Unset, [router |-> r, net |-> n, outer |-> Unset],
                PortsAffected(r, n, moves), IF moves THEN {"default"} ELSE {})
     /\ UNCHANGED <<links, outerOf, fip, snat, binding, groupRows, vrfRows, agentState, history>>

\* Mutant: the SNAT ports of the gateway's network are not looked at.
NothingToClean(r) == Unset

ToClean(r) == outerOf[r]

\* An interface in use by a floating address cannot be removed.
RemoveInterface(w, r, n) ==
  LET moves == \A s \in DetailRouters \ {r} : n \notin links[s]
  IN /\ n \in links[r] /\ Quiet /\ Unplanned(r)
     /\ \A f \in Fips : fip[f] # Unset => ~(fip[f].router = r /\ PortOn[fip[f].port] = n)
     /\ links' = [links EXCEPT ![r] = @ \ {n}]
     /\ routedNets' = IF moves THEN routedNets \ {n} ELSE routedNets
     /\ Committed(w, ToClean(r), PortsAffected(r, n, moves), IF moves THEN UnscopedVrfs ELSE {})
     /\ UNCHANGED <<outerOf, fip, snat, binding, groupRows, vrfRows, agentState, history>>

SetOuter(w, r, x) ==
  /\ outerOf[r] = Unset /\ x # Unset /\ Unplanned(r)
  /\ Planned(w, Unset, [router |-> r, net |-> Unset, outer |-> x], OnNets(links[r]), {})
  /\ UNCHANGED <<topologyRows, snat, binding, groupRows, vrfRows, agentState, history>>

ClearOuter(w, r) ==
  /\ outerOf[r] # Unset /\ Quiet /\ Unplanned(r)
  /\ \A f \in Fips : fip[f] # Unset => fip[f].router # r
  /\ outerOf' = [outerOf EXCEPT ![r] = Unset]
  /\ Committed(w, outerOf[r], OnNets(links[r]), {})
  /\ UNCHANGED <<links, routedNets, fip, snat, binding, groupRows, vrfRows, agentState, history>>

AssociateFip(w, f, p, r) ==
  /\ fip[f] = Unset /\ PortOn[p] \in links[r] /\ outerOf[r] = FipOuter[f]
  /\ fip' = [fip EXCEPT ![f] = [port |-> p, router |-> r]]
  /\ Committed(w, Unset, {p}, {})
  /\ UNCHANGED <<links, routedNets, outerOf, snat, binding, groupRows, vrfRows, agentState, history>>

DisassociateFip(w, f) ==
  /\ fip[f] # Unset
  /\ fip' = [fip EXCEPT ![f] = Unset]
  /\ Committed(w, Unset, {fip[f].port}, {})
  /\ UNCHANGED <<links, routedNets, outerOf, snat, binding, groupRows, vrfRows, agentState, history>>

\* Policy targets are made of ports that are not bound: a bound one would not
\* be notified.
CreateTarget(p, g) ==
  /\ target[p].group = Unset /\ g # Unset /\ ~binding[p].bound
  /\ target' = [target EXCEPT ![p].group = g]
  /\ UNCHANGED <<topologyRows, snat, binding, profile, vrfRows, duty, agentState, history>>

SetLabel(w, p, l) ==
  /\ target[p].group # Unset /\ l # target[p].label
  /\ target' = [target EXCEPT ![p].label = l]
  /\ Committed(w, Unset, {p}, {})
  /\ UNCHANGED <<topologyRows, snat, binding, profile, vrfRows, agentState, history>>

SetProfile(w, g, a) ==
  /\ g \notin AutoGroups /\ a # profile[g]
  /\ profile' = [profile EXCEPT ![g] = a]
  /\ Committed(w, Unset, {p \in DetailPorts : target[p].group = g}, {})
  /\ UNCHANGED <<topologyRows, snat, binding, target, vrfRows, agentState, history>>

\* Unscoped networks only.
SetSubnets(w, n, cs) ==
  /\ cs # subnetsOf[n]
  /\ subnetsOf' = [subnetsOf EXCEPT ![n] = cs]
  /\ Committed(w, Unset, {}, {VrfOfNet(n)})
  /\ UNCHANGED <<topologyRows, snat, binding, groupRows, pool, agentState, history>>

\* Mutant: a pool that goes is not announced.
ScopeIfNew(old, new) == {new.scope} \ {Unset, old.scope}

\* The scope of a pool that is created, updated or deleted.
ScopeToNotify(old, new) ==
  IF new.scope = Unset /\ new.prefixes = {} THEN {old.scope} \ {Unset}
  ELSE IF old.prefixes # new.prefixes THEN {new.scope} \ {Unset} ELSE {}

\* A pool without prefixes is no row.  A pool that only changes its scope
\* notifies no VRF: such updates are left out.
SetPool(w, o, new) ==
  /\ new # pool[o] /\ (new.prefixes = {} => new.scope = Unset)
  /\ pool[o].prefixes # {} /\ new.prefixes # {} => new.scope = pool[o].scope
  /\ pool' = [pool EXCEPT ![o] = new]
  /\ Committed(w, Unset, {}, ScopeToNotify(pool[o], new))
  /\ UNCHANGED <<topologyRows, snat, binding, groupRows, subnetsOf, agentState, history>>

--------------------
(* After the transaction. *)

SnatOn(x) == UNION {snat[<<h, x>>] : h \in PortHosts}
SnatWithout(ids) == [hx \in DOMAIN snat |-> snat[hx] \ ids]

\* Nothing is unneeded while a router with an interface has its gateway there.
LookForUnneeded(w) ==
  LET j == duty[w]
      ids == IF HasInterfaces(j.outer) THEN {} ELSE SnatOn(j.outer)
  IN /\ AtJob(w, "look")
     /\ duty' = [duty EXCEPT ![w].step = "delete", ![w].snats = ids]
     /\ UNCHANGED <<topologyRows, snat, binding, groupRows, vrfRows, agentState, history>>

DeleteUnneeded(w) ==
  /\ AtJob(w, "delete")
  /\ snat' = SnatWithout(duty[w].snats)
  /\ duty' = [duty EXCEPT ![w].step = "notify", ![w].snats = {}]
  /\ UNCHANGED <<topologyRows, binding, groupRows, vrfRows, agentState, history>>

\* Only the agents of bound ports are notified.
SendNotifications(w) ==
  /\ AtJob(w, "notify")
  /\ told' = [ports |-> told.ports \cup {p \in duty[w].ports : binding[p].bound},
              vrfs |-> told.vrfs \cup duty[w].vrfs]
  /\ duty' = [duty EXCEPT ![w] = IF @.row = Unset THEN Unset
                                 ELSE [@ EXCEPT !.step = "write", !.vrfs = {}]]
  /\ UNCHANGED <<topologyRows, snat, binding, groupRows, vrfRows, asked, known, history>>

\* Neutron writes the row that the notifications were about; nobody is notified
\* of it.  A port that is not about to be asked for has the details of before.
AboutToAsk(p) == p \in told.ports \/ At(p, "query") \/ At(p, "bind")
WriteRow(w) ==
  LET e == duty[w].row
  IN /\ AtJob(w, "write") /\ Quiet
     /\ IF e.outer = Unset
        THEN /\ links' = [links EXCEPT ![e.router] = @ \cup {e.net}]
             /\ UNCHANGED outerOf
        ELSE /\ outerOf' = [outerOf EXCEPT ![e.router] = e.outer]
             /\ UNCHANGED links
     /\ duty' = [duty EXCEPT ![w] = Unset]
     /\ late' = late \cup {p \in duty[w].ports : ~AboutToAsk(p)}
     /\ UNCHANGED <<routedNets, fip, snat, binding, groupRows, vrfRows, agentState, exhausted>>

--------------------
(* Requests. *)

SetAsked(p, r) == asked' = [asked EXCEPT !.port[p] = r]
Reply(r, answer) == [r EXCEPT !.step = "answer", !.answer = answer]

\* A port is moved to another host, or plugged again, bound or not: the agent
\* there asks for it, the one it leaves forgets it.
PlugPort(p, h, bound) ==
  /\ binding[p] # [host |-> h, bound |-> bound]
  /\ binding[p].host # h \/ ~bound
  /\ binding' = [binding EXCEPT ![p] = [host |-> h, bound |-> bound]]
  /\ told' = [told EXCEPT !.ports = @ \cup {p}]
  /\ known' = [known EXCEPT !.port[p] = Unset]
  /\ UNCHANGED <<topologyRows, snat, groupRows, vrfRows, duty, asked, history>>

Ask(p) ==
  /\ p \in told.ports /\ asked.port[p] = Unset
  /\ told' = [told EXCEPT !.ports = @ \ {p}]
  /\ SetAsked(p, [host |-> binding[p].host, step |-> "query", answer |-> Unset,
                  todo |-> {}, outer |-> Unset])
  /\ UNCHANGED <<topologyRows, snat, binding, groupRows, vrfRows, duty, known, history>>

\* What the query for SNAT ports may find in each network: any port of the host.
SnatInfo(p, h) ==
  [x \in OuterNets |-> IF x \in NeedsSnat(p) THEN OrUnset(snat[<<h, x>>]) ELSE {Unset}]

\* One transaction reads all rows, the SNAT ports of the host included.  An
\* unbound port is bound first; one bound to another host has no details.
\* Exclusive: the SNAT ports of the network are not about to be deleted.
QueryDetails(p) ==
  LET r == asked.port[p]
      found == SnatInfo(p, r.host)
  IN /\ At(p, "query")
     /\ Exclusive => \A w \in DetailWorkers : ~AtJob(w, "look") /\ ~AtJob(w, "delete")
     /\ IF ~binding[p].bound THEN SetAsked(p, [r EXCEPT !.step = "bind"])
        ELSE IF ~BoundAt(p, r.host) THEN SetAsked(p, Reply(r, Unset))
        ELSE \E s \in [OuterNets -> OrUnset(SnatPorts)] :
               /\ \A x \in OuterNets : s[x] \in found[x] /\ (found[x] # {Unset} => s[x] # Unset)
               /\ SetAsked(p, [r EXCEPT !.step = "allocate",
                                 !.answer = [info |-> PortDetails(p), snat |-> s],
                                 !.todo = {x \in NeedsSnat(p) : s[x] = Unset}])
     /\ late' = late \ {p}
     /\ UNCHANGED <<topologyRows, snat, binding, groupRows, vrfRows, duty, told, known, exhausted>>

\* The port is bound to the host it is on, outside the transaction, and the
\* rows are read again; or it cannot be bound.
BindOnRequest(p, succeeds) ==
  LET r == asked.port[p]
  IN /\ At(p, "bind")
     /\ IF succeeds
        THEN /\ binding' = [binding EXCEPT ![p].bound = TRUE]
             /\ SetAsked(p, [r EXCEPT !.step = "query"])
        ELSE SetAsked(p, Reply(r, Unset)) /\ UNCHANGED binding
     /\ UNCHANGED <<topologyRows, snat, groupRows, vrfRows, duty, told, known, history>>

Obtained(r, x, s) == [r EXCEPT !.answer.snat[x] = s, !.todo = @ \ {x}, !.outer = Unset]
NewSnatPort(h, x, s) ==
  /\ \A hx \in DOMAIN snat : s \notin snat[hx]
  /\ snat' = [snat EXCEPT ![<<h, x>>] = @ \cup {s}]

\* A SNAT port that has come in the meantime is taken.  Exclusive: no other
\* request of the host is about to create one.
LookForSnat(p, x) ==
  LET r == asked.port[p]
  IN /\ At(p, "allocate")
     /\ r.outer = Unset /\ x \in r.todo
     /\ Exclusive => \A q \in DetailPorts : IF asked.port[q] = Unset THEN TRUE
                                            ELSE asked.port[q].outer = Unset
     /\ IF snat[<<r.host, x>>] # {}
        THEN \E s \in snat[<<r.host, x>>] : SetAsked(p, Obtained(r, x, s)) /\ UNCHANGED snat
        ELSE SetAsked(p, [r EXCEPT !.outer = x]) /\ UNCHANGED snat
     /\ UNCHANGED <<topologyRows, binding, groupRows, vrfRows, duty, told, known, history>>

CreateSnat(p, s) ==
  LET r == asked.port[p]
  IN /\ At(p, "allocate")
     /\ r.outer # Unset
     /\ NewSnatPort(r.host, r.outer, s) /\ SetAsked(p, Obtained(r, r.outer, s))
     /\ UNCHANGED <<topologyRows, binding, groupRows, vrfRows, duty, told, known, history>>

\* No subnet of the network is for SNAT addresses, or they have no address left:
\* the answer goes without one.
FailToAllocate(p) ==
  LET r == asked.port[p]
  IN /\ At(p, "allocate")
     /\ r.outer # Unset
     /\ exhausted' = exhausted \cup {r.outer}
     /\ SetAsked(p, Obtained(r, r.outer, Unset))
     /\ UNCHANGED <<topologyRows, snat, binding, groupRows, vrfRows, duty, told, known, late>>

RespondDetails(p) ==
  /\ At(p, "allocate") /\ asked.port[p].todo = {}
  /\ SetAsked(p, Reply(asked.port[p], asked.port[p].answer))
  /\ UNCHANGED <<topologyRows, snat, binding, groupRows, vrfRows, duty, told, known, history>>

\* The agent of a host that the port has left has no use for the answer.
ReceiveDetails(p) ==
  /\ At(p, "answer")
  /\ known' = [known EXCEPT !.port[p] =
       IF asked.port[p].host = binding[p].host THEN asked.port[p].answer ELSE @]
  /\ SetAsked(p, Unset)
  /\ UNCHANGED <<topologyRows, snat, binding, groupRows, vrfRows, duty, told, history>>

GetVrfDetails(v) ==
  /\ v \in told.vrfs /\ asked.vrf[v] = Unset
  /\ told' = [told EXCEPT !.vrfs = @ \ {v}]
  /\ asked' = [asked EXCEPT !.vrf[v] = VrfSubnets(v)]
  /\ UNCHANGED <<topologyRows, snat, binding, groupRows, vrfRows, duty, known, history>>

ReceiveVrf(v) ==
  /\ asked.vrf[v] # Unset
  /\ known' = [known EXCEPT !.vrf[v] = asked.vrf[v]]
  /\ asked' = [asked EXCEPT !.vrf[v] = Unset]
  /\ UNCHANGED <<topologyRows, snat, binding, groupRows, vrfRows, duty, told, history>>

--------------------
RequestNext(p) ==
  \/ Ask(p) \/ QueryDetails(p) \/ FailToAllocate(p) \/ RespondDetails(p) \/ ReceiveDetails(p)
  \/ \E b \in BOOLEAN : BindOnRequest(p, b)
  \/ \E x \in OuterNets : LookForSnat(p, x)
  \/ \E s \in SnatPorts : CreateSnat(p, s)

AfterCommit(w) ==
  LookForUnneeded(w) \/ DeleteUnneeded(w) \/ SendNotifications(w) \/ WriteRow(w)

DetailNext ==
  \/ \E w \in DetailWorkers :
       \/ \E r \in DetailRouters :
            \/ \E n \in DetailNets : AddInterface(w, r, n) \/ RemoveInterface(w, r, n)
            \/ ClearOuter(w, r) \/ \E x \in OuterNets : SetOuter(w, r, x)
            \/ \E f \in Fips : \E p \in DetailPorts : AssociateFip(w, f, p, r)
       \/ \E f \in Fips : DisassociateFip(w, f)
       \/ \E p \in DetailPorts : \E l \in OrUnset(Labels) : SetLabel(w, p, l)
       \/ \E g \in TargetGroups : \E a \in OrUnset(Profiles) : SetProfile(w, g, a)
       \/ \E n \in DetailNets : \E cs \in SUBSET SubnetCidrs : SetSubnets(w, n, cs)
       \/ \E o \in ScopedPools : \E z \in OrUnset(PoolScopes), cs \in SUBSET SubnetCidrs :
            SetPool(w, o, [scope |-> z, prefixes |-> cs])
       \/ AfterCommit(w)
  \/ \E p \in DetailPorts :
       \/ \E h \in PortHosts : \E b \in BOOLEAN : PlugPort(p, h, b)
       \/ \E g \in TargetGroups : CreateTarget(p, g)
       \/ RequestNext(p)
  \/ \E v \in DetailVrfs : GetVrfDetails(v) \/ ReceiveVrf(v)

DetailSpec == DetailInit /\ [][DetailNext]_detailVars

--------------------
PortSettled(p) ==
  /\ binding[p].bound /\ p \notin told.ports /\ asked.port[p] = Unset
  /\ \A w \in DetailWorkers : duty[w] # Unset => p \notin duty[w].ports

\* Without an address only where one could once not be allocated.
SnatAddresses(h, x) == IF x \in exhausted THEN OrUnset(snat[<<h, x>>]) ELSE snat[<<h, x>>]

\* An agent that is not waiting for an answer and has no notification coming
\* has the details of its port as the rows have them: its routing, floating
\* addresses and group, and for every external network where it needs SNAT the
\* address of a SNAT port of its own host that still exists.  Only one that asked
\* before the row it was told of may have those of before.
DetailsAreCurrent ==
  \A p \in DetailPorts \ late : PortSettled(p) /\ known.port[p] # Unset =>
    /\ known.port[p].info = PortDetails(p)
    /\ \A x \in OuterNets :
         IF x \in NeedsSnat(p) THEN known.port[p].snat[x] \in SnatAddresses(binding[p].host, x)
         ELSE known.port[p].snat[x] = Unset

\* A host has one SNAT port on an external network; they all go with the last
\* interface behind it, once the worker that removed it has looked.
SnatPortsAreNeeded ==
  \A x \in OuterNets :
    /\ \A h \in PortHosts, s, t \in SnatPorts : {s, t} \subseteq snat[<<h, x>>] => s = t
    /\ SnatOn(x) # {} => HasInterfaces(x) \/ \E w \in DetailWorkers :
         /\ AtJob(w, "look") \/ AtJob(w, "delete")
         /\ duty[w].outer = x

VrfSettled(v) ==
  /\ v \notin told.vrfs /\ asked.vrf[v] = Unset
  /\ \A w \in DetailWorkers : duty[w] # Unset => v \notin duty[w].vrfs

\* An agent with no notification coming knows the subnets of a VRF, whichever
\* way they came into it.
VrfIsKnown(v) == VrfSettled(v) => known.vrf[v] = VrfSubnets(v)
VrfsAreKnown == \A v \in DetailVrfs \ {"unrouted"} : VrfIsKnown(v)

\* The same of the VRF of the networks that are not routed.
UnroutedVrfIsKnown == VrfIsKnown("unrouted")
====================
