------------------------ MODULE EndpointDetailsProofs ------------------------
(* Theorems about EndpointDetails, for any ports, routers, VRFs, pools and
   workers: agents learn of every change of what their details are made
   of.

   A worker notifies what it collected in its transaction once the
   transaction is committed.  While what an agent has is not what the rows
   say, a notification is collected or sent, or the agent has asked and
   its answer is newer (PortInv, VrfInv); a SNAT port stays while a
   network of its host needs it (SnatInv).  The row of an interface or a
   gateway concerns only ports that were told of it (PlansFit). *)
EXTENDS MCServices, TLAPS

--------------------
(* The details of endpoints *)

Duties ==
  [step : {"look", "delete", "notify", "write"}, outer : OrUnset(OuterNets),
   row : OrUnset(PlannedRows), snats : SUBSET SnatPorts,
   ports : SUBSET DetailPorts, vrfs : SUBSET DetailVrfs]
DetailRequests ==
  [host : PortHosts, step : {"query", "bind", "allocate", "answer"},
   answer : OrUnset(Answers), todo : SUBSET OuterNets, outer : OrUnset(OuterNets)]

\* Where somebody else's change meets the SNAT ports or the rows of one router,
\* workers wait for each other;
\* Unset is no value of any kind.
DetailConstants ==
  /\ Exclusive = TRUE
  /\ PortOn \in [DetailPorts -> DetailNets] /\ FipOuter \in [Fips -> OuterNets]
  /\ Unset \notin OuterNets \cup SnatPorts \cup TargetGroups \cup SUBSET SubnetCidrs
  /\ Unset \notin PoolScopes \cup [port : DetailPorts, router : DetailRouters] \cup Answers
  /\ Unset \notin Duties \cup DetailRequests \cup PlannedRows \cup DetailNets

AskedFits(q) ==
  /\ q.step = "allocate" => q.answer # Unset
  /\ q.step # "allocate" => q.todo = {} /\ q.outer = Unset
  /\ q.outer # Unset => q.outer \in q.todo
DutyFits(j) ==
  /\ j.step \in {"look", "delete"} => j.outer # Unset /\ j.row = Unset
  /\ j.step = "write" => j.row # Unset /\ j.vrfs = {}
DetailRowTypes ==
  /\ links \in [DetailRouters -> SUBSET DetailNets]
  /\ outerOf \in [DetailRouters -> OrUnset(OuterNets)] /\ routedNets \subseteq DetailNets
  /\ fip \in [Fips -> OrUnset([port : DetailPorts, router : DetailRouters])]
  /\ target \in [DetailPorts -> [group : OrUnset(TargetGroups), label : OrUnset(Labels)]]
  /\ profile \in [TargetGroups -> OrUnset(Profiles)]
  /\ subnetsOf \in [DetailNets -> SUBSET SubnetCidrs]
  /\ pool \in [ScopedPools -> [scope : OrUnset(PoolScopes), prefixes : SUBSET SubnetCidrs]]
  /\ \A o \in ScopedPools : pool[o].prefixes = {} => pool[o].scope = Unset
DetailWorkTypes ==
  /\ snat \in [PortHosts \X OuterNets -> SUBSET SnatPorts]
  /\ binding \in [DetailPorts -> [host : PortHosts, bound : BOOLEAN]]
  /\ duty \in [DetailWorkers -> OrUnset(Duties)]
  /\ told \in [ports : SUBSET DetailPorts, vrfs : SUBSET DetailVrfs]
  /\ asked \in [port : [DetailPorts -> OrUnset(DetailRequests)],
                vrf : [DetailVrfs -> OrUnset(SUBSET SubnetCidrs)]]
  /\ known \in [port : [DetailPorts -> OrUnset(Answers)], vrf : [DetailVrfs -> SUBSET SubnetCidrs]]
  /\ \A p \in DetailPorts : asked.port[p] # Unset => AskedFits(asked.port[p])
  /\ \A w \in DetailWorkers : duty[w] # Unset => DutyFits(duty[w])
  /\ late \subseteq DetailPorts /\ exhausted \subseteq OuterNets

\* A port will be asked for again, or was asked for too early.
Announced(p) ==
  p \in told.ports \cup late \/ \E w \in DetailWorkers : duty[w] # Unset /\ p \in duty[w].ports

\* What an agent on host h has to be told, but for SNAT addresses still to come.
UpToDate(p, d, h, todo) ==
  /\ d.info = PortDetails(p) /\ todo \subseteq NeedsSnat(p)
  /\ \A x \in OuterNets \ todo :
       IF x \in NeedsSnat(p) THEN d.snat[x] \in SnatAddresses(h, x) ELSE d.snat[x] = Unset
Carries(p) ==
  asked.port[p] # Unset /\ asked.port[p].step \in {"allocate", "answer"} /\ asked.port[p].answer # Unset

\* Details on their way to an agent, or with it, are those of the rows, unless the
\* port is announced; a request of another host, and one for a port that is not
\* bound any more, is behind an announcement.
PortInv(p) ==
  /\ asked.port[p] # Unset /\ p \notin told.ports => asked.port[p].host = binding[p].host
  /\ Carries(p) =>
       /\ ~binding[p].bound => p \in told.ports
       /\ ~Announced(p) =>
            UpToDate(p, asked.port[p].answer, asked.port[p].host, asked.port[p].todo)
  /\ binding[p].bound /\ asked.port[p] = Unset /\ known.port[p] # Unset /\ ~Announced(p) =>
       UpToDate(p, known.port[p], binding[p].host, {})

\* A worker that cleans up a network.
Cleans(w, x) == duty[w] # Unset /\ duty[w].step \in {"look", "delete"} /\ duty[w].outer = x
Allocates(p) == asked.port[p] # Unset /\ asked.port[p].step = "allocate"

\* A SNAT port is of one host and network; it is there while the network is needed or
\* until it is cleaned up.  Nobody cleans up while somebody allocates, so that what is
\* found unneeded stays so; a request that creates a port is the only one.
SnatInv ==
  /\ \A hx, ky \in PortHosts \X OuterNets : \A s \in snat[hx] : s \in snat[ky] => hx = ky
  /\ \A hx \in PortHosts \X OuterNets : \A s, t \in snat[hx] : s = t
  /\ \A h \in PortHosts : \A x \in OuterNets : snat[<<h, x>>] # {} =>
       HasInterfaces(x) \/ \E w \in DetailWorkers : Cleans(w, x)
  /\ \A w \in DetailWorkers : \A p \in DetailPorts :
       ~(duty[w] # Unset /\ duty[w].step \in {"look", "delete"} /\ Allocates(p))
  /\ \A w \in DetailWorkers : duty[w] # Unset /\ duty[w].step = "delete" =>
       \A x \in OuterNets : IF x = duty[w].outer
         THEN IF HasInterfaces(x) THEN duty[w].snats = {}
              ELSE \A h \in PortHosts : snat[<<h, x>>] \subseteq duty[w].snats
         ELSE \A h \in PortHosts : snat[<<h, x>>] \cap duty[w].snats = {}
  /\ \A p \in DetailPorts : Allocates(p) => \A x \in asked.port[p].todo : HasInterfaces(x)
  /\ \A p \in DetailPorts : Allocates(p) /\ asked.port[p].outer # Unset =>
       /\ snat[<<asked.port[p].host, asked.port[p].outer>>] = {}
       /\ \A q \in DetailPorts \ {p} : Allocates(q) => asked.port[q].outer = Unset

\* What an agent knows, or is about to know, of the subnets of a VRF.
VrfAnnounced(v) ==
  v \in told.vrfs \/ \E w \in DetailWorkers : duty[w] # Unset /\ v \in duty[w].vrfs
VrfInv(v) ==
  ~VrfAnnounced(v) =>
    (IF asked.vrf[v] # Unset THEN asked.vrf[v] ELSE known.vrf[v]) = VrfSubnets(v)

\* The row to be written concerns only ports that are told of it, since nobody else
\* changes the router.
PlanFits(w) ==
  LET e == duty[w].row
  IN duty[w] # Unset /\ duty[w].row # Unset =>
       /\ e.outer = Unset /\ outerOf[e.router] # Unset => OnNets({e.net}) \subseteq duty[w].ports
       /\ e.outer # Unset => outerOf[e.router] = Unset /\ OnNets(links[e.router]) \subseteq duty[w].ports
       /\ \A v \in DetailWorkers \ {w} : ~Plans(v, e.router)
PlansFit == \A w \in DetailWorkers : PlanFits(w)

DetailInv ==
  /\ DetailRowTypes /\ DetailWorkTypes
  /\ \A p \in DetailPorts : PortInv(p)
  /\ SnatInv
  /\ \A v \in DetailVrfs \ {"unrouted"} : VrfInv(v)

USE DEF history

LEMMA DetailInvSuffices ==
  ASSUME DetailConstants, DetailInv
  PROVE  AgentsAreTold
<1>1. DetailTypeOK
  <2>1. \A p \in DetailPorts : asked.port[p] \in OrUnset(DetailRequests) /\ known.port[p] \in OrUnset(Answers)
    BY DEF DetailInv, DetailWorkTypes
  <2>2. \A p \in DetailPorts :
           asked.port[p] = Unset \/ asked.port[p].step = "query" \/ asked.port[p].step = "bind"
             \/ asked.port[p].answer \in OrUnset(Answers)
    BY <2>1 DEF DetailRequests, OrUnset
  <2>3. told.ports \subseteq DetailPorts /\ told.vrfs \subseteq DetailVrfs
    BY DEF DetailInv, DetailWorkTypes
  <2>4. \A v \in DetailVrfs : asked.vrf[v] \in OrUnset(SUBSET SubnetCidrs) /\ known.vrf[v] \in SUBSET SubnetCidrs
    BY DEF DetailInv, DetailWorkTypes
  <2>5. duty \in [DetailWorkers -> OrUnset(
       [step : {"look", "delete", "notify", "write"}, outer : OrUnset(OuterNets),
        row : OrUnset(PlannedRows), snats : SUBSET SnatPorts,
        ports : SUBSET DetailPorts, vrfs : SUBSET DetailVrfs])]
    BY DEF DetailInv, DetailWorkTypes, Duties
  <2> QED BY <2>1, <2>2, <2>3, <2>4, <2>5 DEF DetailTypeOK, DetailInv, DetailRowTypes, DetailWorkTypes
<1>2. DetailsAreCurrent
  <2> SUFFICES ASSUME NEW p \in DetailPorts \ late, PortSettled(p), known.port[p] # Unset
               PROVE  UpToDate(p, known.port[p], binding[p].host, {})
    BY DEF DetailsAreCurrent, UpToDate
  <2>1. ~Announced(p) /\ binding[p].bound /\ asked.port[p] = Unset
    BY DEF PortSettled, Announced
  <2> QED BY <2>1 DEF DetailInv, PortInv
<1>3. SnatPortsAreNeeded
  <2>1. ASSUME NEW x \in OuterNets, NEW h \in PortHosts, NEW s \in SnatPorts, NEW t \in SnatPorts,
               {s, t} \subseteq snat[<<h, x>>]
        PROVE  s = t
    BY <2>1 DEF DetailInv, SnatInv
  <2>2. ASSUME NEW x \in OuterNets, SnatOn(x) # {}
        PROVE  HasInterfaces(x) \/ \E w \in DetailWorkers :
                 /\ AtJob(w, "look") \/ AtJob(w, "delete")
                 /\ duty[w].outer = x
    <3>1. PICK h \in PortHosts : snat[<<h, x>>] # {}
      BY <2>2 DEF SnatOn
    <3>2. HasInterfaces(x) \/ \E w \in DetailWorkers : Cleans(w, x)
      BY <3>1 DEF DetailInv, SnatInv
    <3> QED BY <3>2 DEF Cleans, AtJob
  <2> QED BY <2>1, <2>2 DEF SnatPortsAreNeeded
<1>4. VrfsAreKnown
  <2> SUFFICES ASSUME NEW v \in DetailVrfs \ {"unrouted"}, VrfSettled(v)
               PROVE  known.vrf[v] = VrfSubnets(v)
    BY DEF VrfsAreKnown, VrfIsKnown
  <2>1. VrfInv(v) /\ ~VrfAnnounced(v) /\ asked.vrf[v] = Unset
    BY DEF DetailInv, VrfSettled, VrfAnnounced
  <2> QED BY <2>1 DEF VrfInv
<1> QED BY <1>1, <1>2, <1>3, <1>4 DEF AgentsAreTold

\* Nothing changes for a port and its agent.
LEMMA PortInvFramed ==
  ASSUME NEW p \in DetailPorts, PortInv(p),
         asked.port[p] # Unset => asked.port[p] \in DetailRequests,
         binding \in [DetailPorts -> [host : PortHosts, bound : BOOLEAN]],
         asked'.port[p] = asked.port[p], known'.port[p] = known.port[p], binding'[p] = binding[p],
         p \in told.ports => p \in told'.ports, exhausted \subseteq exhausted',
         ~Announced(p)' =>
           /\ ~Announced(p) /\ PortDetails(p)' = PortDetails(p) /\ NeedsSnat(p)' = NeedsSnat(p)
           /\ \A h \in PortHosts : \A x \in NeedsSnat(p) : snat[<<h, x>>] \subseteq snat'[<<h, x>>]
  PROVE  PortInv(p)'
<1>1. asked.port[p] # Unset => asked.port[p].host \in PortHosts
  BY DEF DetailRequests
<1>2. binding[p].host \in PortHosts
  OBVIOUS
<1>3. ASSUME ~Announced(p)', NEW d, NEW h \in PortHosts, NEW todo, UpToDate(p, d, h, todo)
      PROVE  UpToDate(p, d, h, todo)'
  BY <1>3 DEF UpToDate, SnatAddresses, OrUnset
<1>4. Carries(p)' <=> Carries(p)
  BY DEF Carries
<1>5. asked'.port[p] # Unset /\ p \notin told'.ports => asked'.port[p].host = binding'[p].host
  BY DEF PortInv
<1>6. ASSUME Carries(p)
      PROVE  /\ ~binding'[p].bound => p \in told'.ports
             /\ ~Announced(p)' => UpToDate(p, asked.port[p].answer, asked.port[p].host, asked.port[p].todo)'
  <2>1. ~binding'[p].bound => p \in told'.ports
    BY <1>6 DEF PortInv
  <2>2. ASSUME ~Announced(p)'
        PROVE  UpToDate(p, asked.port[p].answer, asked.port[p].host, asked.port[p].todo)'
    <3>1. PICK d, h, todo : d = asked.port[p].answer /\ h = asked.port[p].host /\ todo = asked.port[p].todo
      OBVIOUS
    <3>2. UpToDate(p, d, h, todo) /\ h \in PortHosts
      BY <2>2, <3>1, <1>1, <1>6 DEF PortInv, Carries
    <3>3. UpToDate(p, d, h, todo)'
      BY <1>3, <2>2, <3>2
    <3>4. d = asked'.port[p].answer /\ h = asked'.port[p].host /\ todo = asked'.port[p].todo
      BY <3>1
    <3> QED BY <3>3, <3>4 DEF UpToDate
  <2> QED BY <2>1, <2>2
<1>7. ASSUME binding'[p].bound, asked'.port[p] = Unset, known'.port[p] # Unset, ~Announced(p)'
      PROVE  UpToDate(p, known.port[p], binding[p].host, {})'
  <2>1. PICK d, h : d = known.port[p] /\ h = binding[p].host
    OBVIOUS
  <2>2. UpToDate(p, d, h, {}) /\ h \in PortHosts
    BY <1>2, <1>7, <2>1 DEF PortInv
  <2>3. UpToDate(p, d, h, {})'
    BY <1>3, <1>7, <2>2
  <2>4. d = known'.port[p] /\ h = binding'[p].host
    BY <2>1
  <2> QED BY <2>3, <2>4 DEF UpToDate
<1> QED BY <1>4, <1>5, <1>6, <1>7 DEF PortInv

\* Nothing changes for the SNAT ports: nobody begins to allocate, and who cleans up
\* goes on with what it does.
LEMMA SnatInvFramed ==
  ASSUME DetailInv, SnatInv, UNCHANGED snat,
         \A y \in OuterNets : HasInterfaces(y)' <=> HasInterfaces(y),
         \A v \in DetailWorkers : duty'[v] # duty[v] =>
           /\ duty[v] # Unset => duty[v].step \notin {"look", "delete"}
           /\ duty'[v] # Unset => duty'[v].step \notin {"look", "delete"},
         \A p \in DetailPorts : Allocates(p)' => Allocates(p) /\ asked'.port[p] = asked.port[p]
  PROVE  SnatInv'
<1>1. \A v \in DetailWorkers : \A y \in OuterNets : Cleans(v, y) => Cleans(v, y)'
  BY DEF Cleans
<1>2. \A v \in DetailWorkers : duty'[v] # Unset /\ duty'[v].step \in {"look", "delete"} => duty'[v] = duty[v]
  OBVIOUS
<1>3. \A v \in DetailWorkers : duty[v] # Unset /\ duty[v].step = "delete" => duty[v].outer \in OuterNets
  BY DEF DetailInv, DetailWorkTypes, Duties, OrUnset, DutyFits
<1>4. \A v \in DetailWorkers : duty'[v] # Unset /\ duty'[v].step = "delete" =>
        \A y \in OuterNets : IF y = duty'[v].outer
          THEN IF HasInterfaces(y)' THEN duty'[v].snats = {}
               ELSE \A h \in PortHosts : snat'[<<h, y>>] \subseteq duty'[v].snats
          ELSE \A h \in PortHosts : snat'[<<h, y>>] \cap duty'[v].snats = {}
  BY <1>2, <1>3 DEF SnatInv
<1>5. \A p \in DetailPorts : Allocates(p) => \A y \in asked.port[p].todo : y \in OuterNets /\ HasInterfaces(y)
  BY DEF DetailInv, SnatInv, Allocates, DetailWorkTypes, DetailRequests, OrUnset
<1>6. \A p \in DetailPorts : Allocates(p)' => \A y \in asked'.port[p].todo : HasInterfaces(y)'
  BY <1>5
<1>7. \A h \in PortHosts : \A y \in OuterNets : snat'[<<h, y>>] # {} =>
        HasInterfaces(y)' \/ \E v \in DetailWorkers : Cleans(v, y)'
  BY <1>1 DEF SnatInv
<1>8. \A v \in DetailWorkers : \A p \in DetailPorts :
        ~(duty'[v] # Unset /\ duty'[v].step \in {"look", "delete"} /\ Allocates(p)')
  BY <1>2 DEF SnatInv
<1>9. \A p \in DetailPorts : Allocates(p)' /\ asked'.port[p].outer # Unset =>
         /\ snat'[<<asked'.port[p].host, asked'.port[p].outer>>] = {}
         /\ \A q \in DetailPorts \ {p} : Allocates(q)' => asked'.port[q].outer = Unset
  BY DEF SnatInv
<1> QED BY <1>4, <1>6, <1>7, <1>8, <1>9 DEF SnatInv

\* A change of rows: it notifies the ports and VRFs whose details change, and with
\* an external network that may have lost its last interface goes a look at its SNAT
\* ports; interfaces and gateways change while nobody allocates or deletes.
RowChange(w, x, plan, ports, vrfs) ==
  /\ Planned(w, x, plan, ports, vrfs) /\ UNCHANGED <<snat, binding, agentState, history>>
  /\ x \in OrUnset(OuterNets) /\ plan \in OrUnset(PlannedRows) /\ (x # Unset => plan = Unset)
  /\ ports \subseteq DetailPorts /\ vrfs \subseteq DetailVrfs
  /\ DetailRowTypes'
  /\ \A p \in DetailPorts \ ports :
       PortDetails(p)' = PortDetails(p) /\ NeedsSnat(p)' = NeedsSnat(p)
  /\ \A v \in DetailVrfs \ {"unrouted"} : v \notin vrfs => VrfSubnets(v)' = VrfSubnets(v)
  /\ \/ x = Unset /\ \A y \in OuterNets : HasInterfaces(y)' <=> HasInterfaces(y)
     \/ Quiet /\ \A y \in OuterNets : HasInterfaces(y) => HasInterfaces(y)' \/ y = x

LEMMA RowChangeKeeps ==
  ASSUME DetailConstants, DetailInv, NEW w \in DetailWorkers, NEW x, NEW plan, NEW ports, NEW vrfs,
         RowChange(w, x, plan, ports, vrfs)
  PROVE  DetailInv'
<1> DEFINE j == [step |-> FirstStep(x), outer |-> x, row |-> plan, snats |-> {}, ports |-> ports, vrfs |-> vrfs]
<1>1. duty[w] = Unset /\ duty' = [duty EXCEPT ![w] = j] /\ UNCHANGED <<snat, binding, told, asked, known, late, exhausted>>
  BY DEF RowChange, Planned, agentState
<1>2. j \in Duties /\ j.ports = ports /\ j.vrfs = vrfs /\ j.outer = x /\ j.row = plan
      /\ j.step = IF x = Unset THEN "notify" ELSE "look"
  BY DEF RowChange, Duties, FirstStep, OrUnset
<1> HIDE DEF j
<1>3. j # Unset
  BY <1>2 DEF DetailConstants
<1>4. duty'[w] = j /\ \A v \in DetailWorkers \ {w} : duty'[v] = duty[v]
  BY <1>1 DEF DetailInv, DetailWorkTypes
<1>5. DetailWorkTypes'
  <2>1. duty' \in [DetailWorkers -> OrUnset(Duties)]
    BY <1>1, <1>2 DEF DetailInv, DetailWorkTypes, OrUnset
  <2>2. \A v \in DetailWorkers : duty'[v] # Unset => DutyFits(duty'[v])
    BY <1>2, <1>4 DEF DetailInv, DetailWorkTypes, DutyFits, RowChange
  <2>3. \A p \in DetailPorts : asked'.port[p] # Unset => AskedFits(asked.port[p])
    BY <1>1 DEF DetailInv, DetailWorkTypes
  <2> QED BY <1>1, <2>1, <2>2, <2>3 DEF DetailInv, DetailWorkTypes, AskedFits, DutyFits
<1>6. ASSUME NEW p \in DetailPorts
      PROVE  PortInv(p)'
  <2>1. ~Announced(p)' => ~Announced(p) /\ p \notin ports
    BY <1>1, <1>2, <1>3, <1>4 DEF Announced
  <2>2. ~Announced(p)' => PortDetails(p)' = PortDetails(p) /\ NeedsSnat(p)' = NeedsSnat(p)
    BY <2>1 DEF RowChange
  <2>3. PortInv(p) /\ (asked.port[p] # Unset => asked.port[p] \in DetailRequests)
        /\ binding \in [DetailPorts -> [host : PortHosts, bound : BOOLEAN]]
    BY DEF DetailInv, DetailWorkTypes, OrUnset
  <2> QED BY <1>1, <2>1, <2>2, <2>3, PortInvFramed
<1>7. SnatInv'
  <2>1. CASE x = Unset /\ \A y \in OuterNets : HasInterfaces(y)' <=> HasInterfaces(y)
    <3>1. \A v \in DetailWorkers : duty'[v] # duty[v] =>
            /\ duty[v] # Unset => duty[v].step \notin {"look", "delete"}
            /\ duty'[v] # Unset => duty'[v].step \notin {"look", "delete"}
      BY <1>1, <1>2, <1>4, <2>1
    <3>2. \A p \in DetailPorts : Allocates(p)' => Allocates(p) /\ asked'.port[p] = asked.port[p]
      BY <1>1 DEF Allocates
    <3> QED BY <1>1, <2>1, <3>1, <3>2, SnatInvFramed DEF DetailInv
  <2>2. CASE Quiet /\ \A y \in OuterNets : HasInterfaces(y) => HasInterfaces(y)' \/ y = x
    <3>1. /\ \A p \in DetailPorts : ~Allocates(p)
          /\ \A v \in DetailWorkers : duty[v] # Unset => duty[v].step # "delete"
      BY <2>2 DEF Quiet, DetailConstants, At, AtJob, Allocates
    <3>2. \A p \in DetailPorts : ~Allocates(p)'
      BY <1>1, <3>1 DEF Allocates
    <3>3. \A v \in DetailWorkers : duty'[v] # Unset => duty'[v].step # "delete"
      BY <1>2, <1>4, <3>1
    <3>4. ASSUME NEW h \in PortHosts, NEW y \in OuterNets, snat'[<<h, y>>] # {}
          PROVE  HasInterfaces(y)' \/ \E v \in DetailWorkers : Cleans(v, y)'
      <4>1. HasInterfaces(y) \/ \E v \in DetailWorkers : Cleans(v, y)
        BY <3>4, <1>1 DEF DetailInv, SnatInv
      <4>2. y = x => Cleans(w, y)'
        BY <1>2, <1>3, <1>4 DEF Cleans, DetailConstants
      <4>3. \A v \in DetailWorkers : Cleans(v, y) => Cleans(v, y)'
        BY <1>1, <1>4 DEF Cleans
      <4> QED BY <4>1, <4>2, <4>3, <2>2
    <3> QED BY <1>1, <3>2, <3>3, <3>4 DEF DetailInv, SnatInv
  <2> QED BY <2>1, <2>2 DEF RowChange
<1>8. ASSUME NEW v \in DetailVrfs \ {"unrouted"}
      PROVE  VrfInv(v)'
  <2>1. ~VrfAnnounced(v)' => ~VrfAnnounced(v) /\ v \notin vrfs
    BY <1>1, <1>2, <1>3, <1>4 DEF VrfAnnounced
  <2>2. ~VrfAnnounced(v)' => VrfSubnets(v)' = VrfSubnets(v)
    BY <2>1 DEF RowChange
  <2> QED BY <1>1, <2>1, <2>2 DEF DetailInv, VrfInv
<1>9. DetailRowTypes'
  BY DEF RowChange
<1> QED BY <1>5, <1>6, <1>7, <1>8, <1>9 DEF DetailInv

LEMMA SameDetails ==
  ASSUME NEW p \in DetailPorts,
         Routed(PortOn[p])' <=> Routed(PortOn[p]), OutersOf(p)' = OutersOf(p), FipsOn(p)' = FipsOn(p),
         GroupOf(p)' = GroupOf(p), target'[p] = target[p]
  PROVE  PortDetails(p)' = PortDetails(p) /\ NeedsSnat(p)' = NeedsSnat(p)
<1>1. NeedsSnat(p)' = NeedsSnat(p)
  BY DEF NeedsSnat
<1>2. PortDetails(p)' = PortDetails(p)
  <2> DEFINE a == Routed(PortOn[p])
             b == Routed(PortOn[p])'
  <2>1. a = b
    BY DEF Routed
  <2> QED BY <2>1 DEF PortDetails
<1> QED BY <1>1, <1>2

LEMMA SameSubnets ==
  ASSUME NEW v \in DetailVrfs, UNCHANGED vrfRows,
         v \in PoolScopes \/ \A n \in DetailNets : Routed(n)' <=> Routed(n)
  PROVE  VrfSubnets(v)' = VrfSubnets(v)
<1>1. CASE v \in PoolScopes
  BY <1>1 DEF VrfSubnets, vrfRows
<1>2. CASE v \notin PoolScopes
  <2>1. \A n \in DetailNets : VrfOfNet(n)' = VrfOfNet(n)
    BY <1>2 DEF VrfOfNet
  <2> QED BY <1>2, <2>1 DEF VrfSubnets, vrfRows
<1> QED BY <1>1, <1>2

LEMMA SameRows ==
  ASSUME UNCHANGED <<topologyRows, groupRows, vrfRows>>
  PROVE  /\ \A p \in DetailPorts : PortDetails(p)' = PortDetails(p) /\ NeedsSnat(p)' = NeedsSnat(p)
         /\ \A y \in OuterNets : HasInterfaces(y)' <=> HasInterfaces(y)
         /\ \A v \in DetailVrfs : VrfSubnets(v)' = VrfSubnets(v)
         /\ DetailRowTypes => DetailRowTypes'
<1>1. UNCHANGED <<links, routedNets, outerOf, fip, target, profile, subnetsOf, pool>>
  BY DEF topologyRows, groupRows, vrfRows
<1>2. ASSUME NEW p \in DetailPorts
      PROVE  PortDetails(p)' = PortDetails(p) /\ NeedsSnat(p)' = NeedsSnat(p)
  <2>1. Routed(PortOn[p])' <=> Routed(PortOn[p])
    BY <1>1 DEF Routed
  <2>2. OutersOf(p)' = OutersOf(p) /\ FipsOn(p)' = FipsOn(p) /\ GroupOf(p)' = GroupOf(p) /\ target'[p] = target[p]
    BY <1>1 DEF OutersOf, FipsOn, GroupOf
  <2> QED BY <2>1, <2>2, SameDetails
<1>3. \A y \in OuterNets : HasInterfaces(y)' <=> HasInterfaces(y)
  BY <1>1 DEF HasInterfaces
<1>4. \A n \in DetailNets : Routed(n)' <=> Routed(n)
  BY <1>1 DEF Routed
<1>5. \A v \in DetailVrfs : VrfSubnets(v)' = VrfSubnets(v)
  BY <1>4, SameSubnets
<1>6. DetailRowTypes => DetailRowTypes'
  BY <1>1 DEF DetailRowTypes
<1> QED BY <1>2, <1>3, <1>5, <1>6

\* The first interface of a network moves it into another VRF; the row comes later.
LEMMA AddInterfaceChanges ==
  ASSUME DetailConstants, DetailInv, NEW w \in DetailWorkers, NEW r \in DetailRouters, NEW n \in DetailNets,
         AddInterface(w, r, n)
  PROVE  DetailInv'
<1> DEFINE moves == \A s \in DetailRouters : n \notin links[s]
           plan == [router |-> r, net |-> n, outer |-> Unset]
           ports == PortsAffected(r, n, moves)
           vrfs == IF moves THEN {"default"} ELSE {}
<1>1. /\ routedNets' = (IF moves THEN routedNets \cup {n} ELSE routedNets)
      /\ Planned(w, Unset, plan, ports, vrfs)
      /\ UNCHANGED <<links, outerOf, fip, snat, binding, groupRows, vrfRows, agentState, history>>
  BY DEF AddInterface
<1>2. DetailRowTypes'
  BY <1>1 DEF DetailInv, DetailRowTypes, groupRows, vrfRows
<1>3. \A m \in DetailNets : ~moves \/ m # n => (Routed(m)' <=> Routed(m))
  BY <1>1 DEF Routed
<1>4. \A y \in OuterNets : HasInterfaces(y)' <=> HasInterfaces(y)
  BY <1>1 DEF HasInterfaces
<1>5. ASSUME NEW p \in DetailPorts \ ports
      PROVE  PortDetails(p)' = PortDetails(p) /\ NeedsSnat(p)' = NeedsSnat(p)
  <2>1. PortOn[p] \in DetailNets
    BY DEF DetailConstants
  <2>2. PortOn[p] = n => ~moves
    BY DEF PortsAffected, OnNets
  <2>3. Routed(PortOn[p])' <=> Routed(PortOn[p])
    BY <2>1, <2>2, <1>3
  <2>4. OutersOf(p)' = OutersOf(p) /\ FipsOn(p)' = FipsOn(p) /\ GroupOf(p)' = GroupOf(p) /\ target'[p] = target[p]
    BY <1>1 DEF OutersOf, FipsOn, GroupOf, groupRows
  <2> QED BY <2>3, <2>4, SameDetails
<1>6. ASSUME NEW v \in DetailVrfs \ {"unrouted"}, v \notin vrfs
      PROVE  VrfSubnets(v)' = VrfSubnets(v)
  <2>1. v \in PoolScopes \/ ~moves
    BY <1>6 DEF DetailVrfs, UnscopedVrfs
  <2>2. UNCHANGED vrfRows /\ (v \in PoolScopes \/ \A m \in DetailNets : Routed(m)' <=> Routed(m))
    BY <2>1, <1>1, <1>3
  <2> QED BY <2>2, SameSubnets
<1>7. /\ Unset \in OrUnset(OuterNets) /\ plan \in OrUnset(PlannedRows)
      /\ ports \subseteq DetailPorts /\ vrfs \subseteq DetailVrfs
  BY DEF OrUnset, PlannedRows, PortsAffected, OnNets, DetailVrfs, UnscopedVrfs
<1> HIDE DEF moves, plan, ports, vrfs
<1>8. RowChange(w, Unset, plan, ports, vrfs)
  BY <1>1, <1>2, <1>4, <1>5, <1>6, <1>7 DEF RowChange
<1> QED BY <1>8, RowChangeKeeps

LEMMA RemoveInterfaceChanges ==
  ASSUME DetailConstants, DetailInv, NEW w \in DetailWorkers, NEW r \in DetailRouters, NEW n \in DetailNets,
         RemoveInterface(w, r, n)
  PROVE  DetailInv'
<1> DEFINE moves == \A s \in DetailRouters \ {r} : n \notin links[s]
           ports == PortsAffected(r, n, moves)
           vrfs == IF moves THEN UnscopedVrfs ELSE {}
           x == outerOf[r]
<1>1. /\ n \in links[r] /\ Quiet /\ links' = [links EXCEPT ![r] = @ \ {n}]
      /\ routedNets' = (IF moves THEN routedNets \ {n} ELSE routedNets)
      /\ Planned(w, x, Unset, ports, vrfs)
      /\ UNCHANGED <<outerOf, fip, snat, binding, groupRows, vrfRows, agentState, history>>
  BY DEF RemoveInterface, ToClean, Committed
<1>2. links'[r] = links[r] \ {n} /\ \A s \in DetailRouters \ {r} : links'[s] = links[s]
  BY <1>1 DEF DetailInv, DetailRowTypes
<1>3. DetailRowTypes'
  <2>1. links' \in [DetailRouters -> SUBSET DetailNets]
    BY <1>1 DEF DetailInv, DetailRowTypes
  <2> QED BY <1>1, <2>1 DEF DetailInv, DetailRowTypes, groupRows, vrfRows
<1>4. \A m \in DetailNets : m # n => (Routed(m)' <=> Routed(m))
  BY <1>1 DEF Routed
<1>5. ~moves => (Routed(n)' <=> Routed(n))
  BY <1>1 DEF Routed
<1>6. \A y \in OuterNets : HasInterfaces(y) => HasInterfaces(y)' \/ y = x
  BY <1>1, <1>2 DEF HasInterfaces
<1>7. ASSUME NEW p \in DetailPorts \ ports
      PROVE  PortDetails(p)' = PortDetails(p) /\ NeedsSnat(p)' = NeedsSnat(p)
  <2>1. PortOn[p] \in DetailNets
    BY DEF DetailConstants
  <2>2. PortOn[p] = n => ~moves /\ outerOf[r] = Unset
    BY DEF PortsAffected, OnNets
  <2>3. Routed(PortOn[p])' <=> Routed(PortOn[p])
    BY <2>1, <2>2, <1>4, <1>5
  <2>4. OutersOf(p)' = OutersOf(p)
    <3>1. \A s \in DetailRouters : outerOf[s] # Unset => (PortOn[p] \in links'[s] <=> PortOn[p] \in links[s])
      BY <2>2, <1>2
    <3> QED BY <3>1, <1>1 DEF OutersOf
  <2>5. FipsOn(p)' = FipsOn(p) /\ GroupOf(p)' = GroupOf(p) /\ target'[p] = target[p]
    BY <1>1 DEF FipsOn, GroupOf, groupRows
  <2> QED BY <2>3, <2>4, <2>5, SameDetails
<1>8. ASSUME NEW v \in DetailVrfs \ {"unrouted"}, v \notin vrfs
      PROVE  VrfSubnets(v)' = VrfSubnets(v)
  <2>1. v \in PoolScopes \/ ~moves
    BY <1>8 DEF DetailVrfs, UnscopedVrfs
  <2>2. UNCHANGED vrfRows /\ (v \in PoolScopes \/ \A m \in DetailNets : Routed(m)' <=> Routed(m))
    BY <2>1, <1>1, <1>4, <1>5
  <2> QED BY <2>2, SameSubnets
<1>9. x \in OrUnset(OuterNets) /\ ports \subseteq DetailPorts /\ vrfs \subseteq DetailVrfs
  BY DEF DetailInv, DetailRowTypes, PortsAffected, OnNets, DetailVrfs, UnscopedVrfs
<1> HIDE DEF moves, ports, vrfs, x
<1>10. RowChange(w, x, Unset, ports, vrfs)
  BY <1>1, <1>3, <1>6, <1>7, <1>8, <1>9 DEF RowChange, OrUnset
<1> QED BY <1>10, RowChangeKeeps

\* The gateway of a router concerns the ports behind it; the row of a new one comes
\* later.
LEMMA SetOuterChanges ==
  ASSUME DetailConstants, DetailInv, NEW w \in DetailWorkers, NEW r \in DetailRouters,
         NEW x \in OuterNets, SetOuter(w, r, x)
  PROVE  DetailInv'
<1> DEFINE plan == [router |-> r, net |-> Unset, outer |-> x]
           ports == OnNets(links[r])
<1>1. /\ Planned(w, Unset, plan, ports, {})
      /\ UNCHANGED <<topologyRows, snat, binding, groupRows, vrfRows, agentState, history>>
  BY DEF SetOuter
<1>2. /\ \A p \in DetailPorts : PortDetails(p)' = PortDetails(p) /\ NeedsSnat(p)' = NeedsSnat(p)
      /\ \A y \in OuterNets : HasInterfaces(y)' <=> HasInterfaces(y)
      /\ \A v \in DetailVrfs : VrfSubnets(v)' = VrfSubnets(v)
      /\ DetailRowTypes'
  BY <1>1, SameRows DEF DetailInv
<1>3. /\ Unset \in OrUnset(OuterNets) /\ plan \in OrUnset(PlannedRows) /\ ports \subseteq DetailPorts
  BY DEF OrUnset, PlannedRows, OnNets
<1> HIDE DEF plan, ports
<1>4. RowChange(w, Unset, plan, ports, {})
  BY <1>1, <1>2, <1>3 DEF RowChange
<1> QED BY <1>4, RowChangeKeeps

LEMMA ClearOuterChanges ==
  ASSUME DetailConstants, DetailInv, NEW w \in DetailWorkers, NEW r \in DetailRouters,
         ClearOuter(w, r)
  PROVE  DetailInv'
<1> DEFINE ports == OnNets(links[r])
<1>1. PICK old \in OrUnset(OuterNets) :
        /\ old = outerOf[r] /\ outerOf' = [outerOf EXCEPT ![r] = Unset] /\ Quiet
        /\ Planned(w, old, Unset, ports, {})
        /\ UNCHANGED <<links, routedNets, fip, snat, binding, groupRows, vrfRows, agentState, history>>
  <2>1. outerOf[r] \in OrUnset(OuterNets)
    BY DEF DetailInv, DetailRowTypes
  <2> QED BY <2>1 DEF ClearOuter, Committed
<1>2. outerOf'[r] = Unset /\ \A s \in DetailRouters \ {r} : outerOf'[s] = outerOf[s]
  BY <1>1 DEF DetailInv, DetailRowTypes
<1>3. DetailRowTypes'
  <2>1. outerOf' \in [DetailRouters -> OrUnset(OuterNets)]
    BY <1>1 DEF DetailInv, DetailRowTypes, OrUnset
  <2> QED BY <1>1, <2>1 DEF DetailInv, DetailRowTypes, groupRows, vrfRows
<1>4. \A m \in DetailNets : Routed(m)' <=> Routed(m)
  BY <1>1 DEF Routed
<1>5. \A y \in OuterNets : HasInterfaces(y) => HasInterfaces(y)' \/ y = old
  BY <1>1, <1>2 DEF HasInterfaces
<1>6. ASSUME NEW p \in DetailPorts \ ports
      PROVE  PortDetails(p)' = PortDetails(p) /\ NeedsSnat(p)' = NeedsSnat(p)
  <2>1. PortOn[p] \in DetailNets /\ PortOn[p] \notin links[r]
    BY DEF DetailConstants, OnNets
  <2>2. OutersOf(p)' = OutersOf(p)
    BY <2>1, <1>1, <1>2 DEF OutersOf
  <2>3. FipsOn(p)' = FipsOn(p) /\ GroupOf(p)' = GroupOf(p) /\ target'[p] = target[p]
    BY <1>1 DEF FipsOn, GroupOf, groupRows
  <2>4. Routed(PortOn[p])' <=> Routed(PortOn[p])
    BY <2>1, <1>4
  <2> QED BY <2>2, <2>3, <2>4, SameDetails
<1>7. \A v \in DetailVrfs : VrfSubnets(v)' = VrfSubnets(v)
  BY <1>1, <1>4, SameSubnets
<1>8. ports \subseteq DetailPorts
  BY DEF OnNets
<1> HIDE DEF ports
<1>9. RowChange(w, old, Unset, ports, {})
  BY <1>1, <1>3, <1>5, <1>6, <1>7, <1>8 DEF RowChange, OrUnset
<1> QED BY <1>9, RowChangeKeeps

\* A floating address concerns the port that it is, or was, associated with.
LEMMA FipChanges ==
  ASSUME DetailConstants, DetailInv, NEW w \in DetailWorkers, NEW f \in Fips,
         DisassociateFip(w, f)
           \/ \E q \in DetailPorts : \E r \in DetailRouters : AssociateFip(w, f, q, r)
  PROVE  DetailInv'
<1>1. PICK p \in DetailPorts, new \in OrUnset([port : DetailPorts, router : DetailRouters]) :
        /\ fip[f] # Unset => fip[f].port = p
        /\ new # Unset => new.port = p
        /\ fip' = [fip EXCEPT ![f] = new] /\ Planned(w, Unset, Unset, {p}, {})
        /\ UNCHANGED <<links, routedNets, outerOf, snat, binding, groupRows, vrfRows, agentState, history>>
  <2>1. CASE DisassociateFip(w, f)
    <3>1. fip[f].port \in DetailPorts
      BY <2>1 DEF DetailInv, DetailRowTypes, DisassociateFip, OrUnset
    <3> QED BY <2>1, <3>1 DEF DisassociateFip, OrUnset, Committed
  <2>2. CASE \E q \in DetailPorts : \E r \in DetailRouters : AssociateFip(w, f, q, r)
    <3>1. PICK q \in DetailPorts, r \in DetailRouters : AssociateFip(w, f, q, r)
      BY <2>2
    <3>2. [port |-> q, router |-> r] \in OrUnset([port : DetailPorts, router : DetailRouters])
      BY DEF OrUnset
    <3> QED BY <3>1, <3>2 DEF AssociateFip, Committed
  <2> QED BY <2>1, <2>2
<1>2. fip'[f] = new /\ \A g \in Fips \ {f} : fip'[g] = fip[g]
  BY <1>1 DEF DetailInv, DetailRowTypes
<1>3. DetailRowTypes'
  <2>1. fip' \in [Fips -> OrUnset([port : DetailPorts, router : DetailRouters])]
    BY <1>1 DEF DetailInv, DetailRowTypes
  <2> QED BY <1>1, <2>1 DEF DetailInv, DetailRowTypes, groupRows, vrfRows
<1>4. (\A m \in DetailNets : Routed(m)' <=> Routed(m)) /\ \A y \in OuterNets : HasInterfaces(y)' <=> HasInterfaces(y)
  BY <1>1 DEF Routed, HasInterfaces
<1>5. ASSUME NEW q \in DetailPorts \ {p}
      PROVE  PortDetails(q)' = PortDetails(q) /\ NeedsSnat(q)' = NeedsSnat(q)
  <2>1. Routed(PortOn[q])' <=> Routed(PortOn[q])
    BY <1>4 DEF DetailConstants
  <2>2. FipsOn(q)' = FipsOn(q)
    <3>1. \A g \in Fips : (IF fip'[g] = Unset THEN FALSE ELSE fip'[g].port = q)
                            <=> (IF fip[g] = Unset THEN FALSE ELSE fip[g].port = q)
      BY <1>1, <1>2
    <3> QED BY <3>1 DEF FipsOn
  <2>3. OutersOf(q)' = OutersOf(q) /\ GroupOf(q)' = GroupOf(q) /\ target'[q] = target[q]
    BY <1>1 DEF OutersOf, GroupOf, groupRows
  <2> QED BY <2>1, <2>2, <2>3, SameDetails
<1>6. \A v \in DetailVrfs : VrfSubnets(v)' = VrfSubnets(v)
  BY <1>1, <1>4, SameSubnets
<1>7. RowChange(w, Unset, Unset, {p}, {})
  BY <1>1, <1>3, <1>4, <1>5, <1>6 DEF RowChange, OrUnset
<1> QED BY <1>7, RowChangeKeeps

\* The label of a target, the profile of a group.
LEMMA GroupChanges ==
  ASSUME DetailConstants, DetailInv, NEW w \in DetailWorkers,
         \/ \E p \in DetailPorts : \E l \in OrUnset(Labels) : SetLabel(w, p, l)
         \/ \E g \in TargetGroups : \E a \in OrUnset(Profiles) : SetProfile(w, g, a)
  PROVE  DetailInv'
<1>1. PICK ports \in SUBSET DetailPorts :
        /\ Committed(w, Unset, ports, {})
        /\ UNCHANGED <<topologyRows, snat, binding, vrfRows, agentState, history>>
        /\ target' \in [DetailPorts -> [group : OrUnset(TargetGroups), label : OrUnset(Labels)]]
        /\ profile' \in [TargetGroups -> OrUnset(Profiles)]
        /\ \A q \in DetailPorts \ ports :
             /\ target'[q] = target[q]
             /\ target[q].group \in TargetGroups \ AutoGroups => profile'[target[q].group] = profile[target[q].group]
  <2>1. ASSUME NEW p \in DetailPorts, NEW l \in OrUnset(Labels), SetLabel(w, p, l)
        PROVE  /\ Committed(w, Unset, {p}, {})
               /\ UNCHANGED <<topologyRows, snat, binding, vrfRows, agentState, history, profile>>
               /\ target' \in [DetailPorts -> [group : OrUnset(TargetGroups), label : OrUnset(Labels)]]
               /\ \A q \in DetailPorts \ {p} : target'[q] = target[q]
    <3>1. target' = [target EXCEPT ![p].label = l]
      BY <2>1 DEF SetLabel
    <3>2. target' \in [DetailPorts -> [group : OrUnset(TargetGroups), label : OrUnset(Labels)]]
      BY <3>1 DEF DetailInv, DetailRowTypes
    <3>3. \A q \in DetailPorts \ {p} : target'[q] = target[q]
      BY <3>1 DEF DetailInv, DetailRowTypes
    <3> QED BY <2>1, <3>2, <3>3 DEF SetLabel
  <2>2. ASSUME NEW g \in TargetGroups, NEW a \in OrUnset(Profiles), SetProfile(w, g, a)
        PROVE  /\ Committed(w, Unset, {p \in DetailPorts : target[p].group = g}, {})
               /\ UNCHANGED <<topologyRows, snat, binding, vrfRows, agentState, history, target>>
               /\ profile' \in [TargetGroups -> OrUnset(Profiles)]
               /\ \A h \in TargetGroups \ {g} : profile'[h] = profile[h]
    <3>1. profile' = [profile EXCEPT ![g] = a]
      BY <2>2 DEF SetProfile
    <3>2. profile' \in [TargetGroups -> OrUnset(Profiles)] /\ \A h \in TargetGroups \ {g} : profile'[h] = profile[h]
      BY <3>1 DEF DetailInv, DetailRowTypes
    <3> QED BY <2>2, <3>2 DEF SetProfile
  <2>3. /\ target \in [DetailPorts -> [group : OrUnset(TargetGroups), label : OrUnset(Labels)]]
        /\ profile \in [TargetGroups -> OrUnset(Profiles)]
    BY DEF DetailInv, DetailRowTypes
  <2>4. CASE \E p \in DetailPorts : \E l \in OrUnset(Labels) : SetLabel(w, p, l)
    <3>1. PICK p \in DetailPorts : \E l \in OrUnset(Labels) : SetLabel(w, p, l)
      BY <2>4
    <3>2. {p} \in SUBSET DetailPorts
      OBVIOUS
    <3> QED BY <2>1, <2>3, <3>1, <3>2
  <2>5. CASE \E g \in TargetGroups : \E a \in OrUnset(Profiles) : SetProfile(w, g, a)
    <3>1. PICK g \in TargetGroups : \E a \in OrUnset(Profiles) : SetProfile(w, g, a)
      BY <2>5
    <3>2. PICK ports \in SUBSET DetailPorts : ports = {p \in DetailPorts : target[p].group = g}
      OBVIOUS
    <3>3. /\ Committed(w, Unset, ports, {}) /\ UNCHANGED <<topologyRows, snat, binding, vrfRows, agentState, history, target>>
          /\ profile' \in [TargetGroups -> OrUnset(Profiles)] /\ \A h \in TargetGroups \ {g} : profile'[h] = profile[h]
      BY <2>2, <3>1, <3>2
    <3>4. \A q \in DetailPorts \ ports : target'[q] = target[q] /\ target[q].group # g
      BY <3>2, <3>3
    <3>5. target' \in [DetailPorts -> [group : OrUnset(TargetGroups), label : OrUnset(Labels)]]
      BY <2>3, <3>3
    <3> QED BY <3>3, <3>4, <3>5
  <2> QED BY <2>4, <2>5
<1>2. DetailRowTypes'
  BY <1>1 DEF DetailInv, DetailRowTypes, topologyRows, vrfRows
<1>3. UNCHANGED <<links, routedNets, outerOf, fip, vrfRows>>
  BY <1>1 DEF topologyRows
<1>4. (\A m \in DetailNets : Routed(m)' <=> Routed(m)) /\ \A y \in OuterNets : HasInterfaces(y)' <=> HasInterfaces(y)
  BY <1>3 DEF Routed, HasInterfaces
<1>5. ASSUME NEW q \in DetailPorts \ ports
      PROVE  PortDetails(q)' = PortDetails(q) /\ NeedsSnat(q)' = NeedsSnat(q)
  <2>1. Routed(PortOn[q])' <=> Routed(PortOn[q])
    BY <1>4 DEF DetailConstants
  <2>2. OutersOf(q)' = OutersOf(q) /\ FipsOn(q)' = FipsOn(q)
    BY <1>3 DEF OutersOf, FipsOn
  <2>3. target'[q] = target[q] /\ target[q].group \in OrUnset(TargetGroups)
    BY <1>1 DEF DetailInv, DetailRowTypes
  <2>4. GroupOf(q)' = GroupOf(q)
    BY <1>1, <2>3 DEF GroupOf, OrUnset
  <2> QED BY <2>1, <2>2, <2>3, <2>4, SameDetails
<1>6. \A v \in DetailVrfs : VrfSubnets(v)' = VrfSubnets(v)
  BY <1>3, <1>4, SameSubnets
<1>7. RowChange(w, Unset, Unset, ports, {})
  BY <1>1, <1>2, <1>4, <1>5, <1>6 DEF RowChange, OrUnset, Committed
<1> QED BY <1>7, RowChangeKeeps

\* The subnets of an unscoped network, the scope and prefixes of a pool.
LEMMA SubnetChanges ==
  ASSUME DetailConstants, DetailInv, NEW w \in DetailWorkers,
         \/ \E n \in DetailNets : \E cs \in SUBSET SubnetCidrs : SetSubnets(w, n, cs)
         \/ \E o \in ScopedPools : \E z \in OrUnset(PoolScopes) : \E cs \in SUBSET SubnetCidrs :
              SetPool(w, o, [scope |-> z, prefixes |-> cs])
  PROVE  DetailInv'
<1>1. PICK vrfs \in SUBSET DetailVrfs :
        /\ Committed(w, Unset, {}, vrfs)
        /\ UNCHANGED <<topologyRows, snat, binding, groupRows, agentState, history>>
        /\ subnetsOf' \in [DetailNets -> SUBSET SubnetCidrs]
        /\ pool' \in [ScopedPools -> [scope : OrUnset(PoolScopes), prefixes : SUBSET SubnetCidrs]]
        /\ \A o \in ScopedPools : pool'[o].prefixes = {} => pool'[o].scope = Unset
        /\ \A v \in DetailVrfs : v \notin vrfs => VrfSubnets(v)' = VrfSubnets(v)
  <2>1. ASSUME NEW n \in DetailNets, NEW cs \in SUBSET SubnetCidrs, SetSubnets(w, n, cs)
        PROVE  /\ Committed(w, Unset, {}, {VrfOfNet(n)})
               /\ UNCHANGED <<topologyRows, snat, binding, groupRows, agentState, history, pool>>
               /\ subnetsOf' \in [DetailNets -> SUBSET SubnetCidrs]
               /\ \A v \in DetailVrfs : v # VrfOfNet(n) => VrfSubnets(v)' = VrfSubnets(v)
    <3>1. subnetsOf' = [subnetsOf EXCEPT ![n] = cs] /\ UNCHANGED <<routedNets, pool>>
      BY <2>1 DEF SetSubnets, topologyRows
    <3>2. /\ subnetsOf' \in [DetailNets -> SUBSET SubnetCidrs]
          /\ \A m \in DetailNets \ {n} : subnetsOf'[m] = subnetsOf[m]
      BY <3>1 DEF DetailInv, DetailRowTypes
    <3>3. \A m \in DetailNets : VrfOfNet(m)' = VrfOfNet(m)
      BY <3>1 DEF VrfOfNet, Routed
    <3>4. ASSUME NEW v \in DetailVrfs, v # VrfOfNet(n)
          PROVE  VrfSubnets(v)' = VrfSubnets(v)
      <4>1. CASE v \in PoolScopes
        BY <3>1, <4>1 DEF VrfSubnets
      <4>2. CASE v \notin PoolScopes
        <5>1. {m \in DetailNets : VrfOfNet(m)' = v} = {m \in DetailNets : VrfOfNet(m) = v}
          BY <3>3
        <5>2. \A m \in {k \in DetailNets : VrfOfNet(k) = v} : subnetsOf'[m] = subnetsOf[m]
          BY <3>2, <3>4
        <5> QED BY <4>2, <5>1, <5>2 DEF VrfSubnets
      <4> QED BY <4>1, <4>2
    <3> QED BY <2>1, <3>2, <3>4 DEF SetSubnets
  <2>2. ASSUME NEW o \in ScopedPools, NEW z \in OrUnset(PoolScopes), NEW cs \in SUBSET SubnetCidrs,
               SetPool(w, o, [scope |-> z, prefixes |-> cs])
        PROVE  /\ Committed(w, Unset, {}, ScopeToNotify(pool[o], [scope |-> z, prefixes |-> cs]))
               /\ UNCHANGED <<topologyRows, snat, binding, groupRows, agentState, history, subnetsOf>>
               /\ pool' \in [ScopedPools -> [scope : OrUnset(PoolScopes), prefixes : SUBSET SubnetCidrs]]
               /\ \A q \in ScopedPools : pool'[q].prefixes = {} => pool'[q].scope = Unset
               /\ ScopeToNotify(pool[o], [scope |-> z, prefixes |-> cs]) \in SUBSET DetailVrfs
               /\ \A v \in DetailVrfs : v \notin ScopeToNotify(pool[o], [scope |-> z, prefixes |-> cs]) =>
                    VrfSubnets(v)' = VrfSubnets(v)
    <3>1. PICK new \in [scope : OrUnset(PoolScopes), prefixes : SUBSET SubnetCidrs] :
            new = [scope |-> z, prefixes |-> cs]
      OBVIOUS
    <3>2. /\ pool' = [pool EXCEPT ![o] = new] /\ (new.prefixes = {} => new.scope = Unset)
          /\ pool[o].prefixes # {} /\ new.prefixes # {} => new.scope = pool[o].scope
          /\ UNCHANGED <<routedNets, subnetsOf>>
      BY <2>2, <3>1 DEF SetPool, topologyRows
    <3>3. /\ pool' \in [ScopedPools -> [scope : OrUnset(PoolScopes), prefixes : SUBSET SubnetCidrs]]
          /\ pool'[o] = new /\ \A q \in ScopedPools \ {o} : pool'[q] = pool[q]
          /\ pool[o].scope \in OrUnset(PoolScopes) /\ (pool[o].prefixes = {} => pool[o].scope = Unset)
      BY <3>2 DEF DetailInv, DetailRowTypes
    <3>4. \A q \in ScopedPools : pool'[q].prefixes = {} => pool'[q].scope = Unset
      BY <3>2, <3>3 DEF DetailInv, DetailRowTypes
    <3>5. ScopeToNotify(pool[o], new) \in SUBSET DetailVrfs
      BY <3>3 DEF ScopeToNotify, DetailVrfs, OrUnset
    <3>6. ASSUME NEW v \in DetailVrfs, v \notin ScopeToNotify(pool[o], new)
          PROVE  VrfSubnets(v)' = VrfSubnets(v)
      <4>1. CASE v \in PoolScopes
        <5>1. v # Unset
          BY <4>1 DEF DetailConstants
        <5>2. pool[o].scope = v \/ new.scope = v => pool[o].scope = v /\ new.scope = v /\ new.prefixes = pool[o].prefixes
          BY <3>2, <3>3, <3>6, <5>1 DEF ScopeToNotify
        <5>3. {q \in ScopedPools : pool'[q].scope = v} = {q \in ScopedPools : pool[q].scope = v}
          BY <3>3, <5>2
        <5>4. \A q \in {k \in ScopedPools : pool[k].scope = v} : pool'[q].prefixes = pool[q].prefixes
          BY <3>3, <5>2
        <5> QED BY <4>1, <5>3, <5>4 DEF VrfSubnets
      <4>2. CASE v \notin PoolScopes
        <5>1. \A m \in DetailNets : VrfOfNet(m)' = VrfOfNet(m)
          BY <3>2 DEF VrfOfNet, Routed
        <5> QED BY <3>2, <4>2, <5>1 DEF VrfSubnets
      <4> QED BY <4>1, <4>2
    <3> QED BY <2>2, <3>1, <3>3, <3>4, <3>5, <3>6 DEF SetPool
  <2>3. /\ subnetsOf \in [DetailNets -> SUBSET SubnetCidrs]
        /\ pool \in [ScopedPools -> [scope : OrUnset(PoolScopes), prefixes : SUBSET SubnetCidrs]]
        /\ \A o \in ScopedPools : pool[o].prefixes = {} => pool[o].scope = Unset
    BY DEF DetailInv, DetailRowTypes
  <2>4. CASE \E n \in DetailNets : \E cs \in SUBSET SubnetCidrs : SetSubnets(w, n, cs)
    <3>1. PICK n \in DetailNets, cs \in SUBSET SubnetCidrs : SetSubnets(w, n, cs)
      BY <2>4
    <3>2. {VrfOfNet(n)} \in SUBSET DetailVrfs
      BY DEF VrfOfNet, DetailVrfs, UnscopedVrfs
    <3> QED BY <2>1, <2>3, <3>1, <3>2
  <2>5. CASE \E o \in ScopedPools : \E z \in OrUnset(PoolScopes) : \E cs \in SUBSET SubnetCidrs :
               SetPool(w, o, [scope |-> z, prefixes |-> cs])
    <3>1. PICK o \in ScopedPools, z \in OrUnset(PoolScopes), cs \in SUBSET SubnetCidrs :
            SetPool(w, o, [scope |-> z, prefixes |-> cs])
      BY <2>5
    <3> QED BY <2>2, <2>3, <3>1
  <2> QED BY <2>4, <2>5
<1>2. DetailRowTypes'
  BY <1>1 DEF DetailInv, DetailRowTypes, topologyRows, groupRows
<1>3. UNCHANGED <<links, routedNets, outerOf, fip, groupRows>>
  BY <1>1 DEF topologyRows
<1>4. (\A m \in DetailNets : Routed(m)' <=> Routed(m)) /\ \A y \in OuterNets : HasInterfaces(y)' <=> HasInterfaces(y)
  BY <1>3 DEF Routed, HasInterfaces
<1>5. ASSUME NEW q \in DetailPorts
      PROVE  PortDetails(q)' = PortDetails(q) /\ NeedsSnat(q)' = NeedsSnat(q)
  <2>1. Routed(PortOn[q])' <=> Routed(PortOn[q])
    BY <1>4 DEF DetailConstants
  <2>2. OutersOf(q)' = OutersOf(q) /\ FipsOn(q)' = FipsOn(q)
    BY <1>3 DEF OutersOf, FipsOn
  <2>3. GroupOf(q)' = GroupOf(q) /\ target'[q] = target[q]
    BY <1>3 DEF GroupOf, groupRows
  <2> QED BY <2>1, <2>2, <2>3, SameDetails
<1>6. RowChange(w, Unset, Unset, {}, vrfs)
  BY <1>1, <1>2, <1>4, <1>5 DEF RowChange, OrUnset, Committed
<1> QED BY <1>6, RowChangeKeeps

\* A step about one port that leaves rows and duties alone, and takes no SNAT port.
PortStep(p) ==
  /\ UNCHANGED <<topologyRows, groupRows, vrfRows, duty>>
  /\ told'.vrfs = told.vrfs /\ asked'.vrf = asked.vrf /\ known'.vrf = known.vrf
  /\ \A q \in DetailPorts \ {p} :
       /\ asked'.port[q] = asked.port[q] /\ known'.port[q] = known.port[q]
       /\ binding'[q] = binding[q] /\ (q \in told'.ports <=> q \in told.ports)
       /\ (q \in late' <=> q \in late)
  /\ exhausted \subseteq exhausted'
  /\ \A hx \in PortHosts \X OuterNets : snat[hx] \subseteq snat'[hx]
  /\ DetailWorkTypes'

LEMMA PortStepKeeps ==
  ASSUME DetailInv, NEW p \in DetailPorts, PortStep(p), PortInv(p)', SnatInv'
  PROVE  DetailInv'
<1>1. /\ \A q \in DetailPorts : PortDetails(q)' = PortDetails(q) /\ NeedsSnat(q)' = NeedsSnat(q)
      /\ \A v \in DetailVrfs : VrfSubnets(v)' = VrfSubnets(v)
      /\ DetailRowTypes'
  <2>1. UNCHANGED <<topologyRows, groupRows, vrfRows>>
    BY DEF PortStep
  <2> QED BY <2>1, SameRows DEF DetailInv
<1>2. UNCHANGED duty
  BY DEF PortStep
<1>3. ASSUME NEW q \in DetailPorts \ {p}
      PROVE  PortInv(q)'
  <2>1. \A x \in NeedsSnat(q) : x \in OuterNets
    BY DEF NeedsSnat, OutersOf, DetailInv, DetailRowTypes, OrUnset
  <2>2. \A h \in PortHosts : \A x \in NeedsSnat(q) : snat[<<h, x>>] \subseteq snat'[<<h, x>>]
    BY <2>1 DEF PortStep
  <2>3. PortInv(q) /\ (asked.port[q] # Unset => asked.port[q] \in DetailRequests)
        /\ binding \in [DetailPorts -> [host : PortHosts, bound : BOOLEAN]]
    BY DEF DetailInv, DetailWorkTypes, OrUnset
  <2>4. /\ asked'.port[q] = asked.port[q] /\ known'.port[q] = known.port[q]
        /\ binding'[q] = binding[q] /\ (q \in told'.ports <=> q \in told.ports)
        /\ (q \in late' <=> q \in late) /\ exhausted \subseteq exhausted'
    BY DEF PortStep
  <2>5. Announced(q)' <=> Announced(q)
    BY <1>2, <2>4 DEF Announced
  <2> QED BY <1>1, <2>2, <2>3, <2>4, <2>5, PortInvFramed
<1>4. ASSUME NEW v \in DetailVrfs \ {"unrouted"}
      PROVE  VrfInv(v)'
  <2>1. told'.vrfs = told.vrfs /\ asked'.vrf = asked.vrf /\ known'.vrf = known.vrf
    BY DEF PortStep
  <2>2. VrfAnnounced(v)' <=> VrfAnnounced(v)
    BY <1>2, <2>1 DEF VrfAnnounced
  <2> QED BY <1>1, <2>1, <2>2 DEF DetailInv, VrfInv
<1>5. DetailWorkTypes'
  BY DEF PortStep
<1> QED BY <1>1, <1>3, <1>4, <1>5 DEF DetailInv

\* The request of a port.
LEMMA SetAskedFacts ==
  ASSUME DetailWorkTypes, NEW p \in DetailPorts, NEW r, SetAsked(p, r),
         r = Unset \/ (r \in DetailRequests /\ AskedFits(r))
  PROVE  /\ asked' \in [port : [DetailPorts -> OrUnset(DetailRequests)],
                        vrf : [DetailVrfs -> OrUnset(SUBSET SubnetCidrs)]]
         /\ asked'.port[p] = r /\ \A q \in DetailPorts \ {p} : asked'.port[q] = asked.port[q]
         /\ asked'.vrf = asked.vrf
         /\ \A q \in DetailPorts : asked'.port[q] # Unset => AskedFits(asked'.port[q])
<1>1. asked' = [asked EXCEPT !.port = [asked.port EXCEPT ![p] = r]]
  BY DEF SetAsked, DetailWorkTypes
<1>2. [asked.port EXCEPT ![p] = r] \in [DetailPorts -> OrUnset(DetailRequests)]
  BY DEF DetailWorkTypes, OrUnset
<1>3. asked'.port = [asked.port EXCEPT ![p] = r] /\ asked'.vrf = asked.vrf
  BY <1>1 DEF DetailWorkTypes
<1>4. asked'.port[p] = r /\ \A q \in DetailPorts \ {p} : asked'.port[q] = asked.port[q]
  BY <1>3 DEF DetailWorkTypes
<1>5. asked' \in [port : [DetailPorts -> OrUnset(DetailRequests)],
                  vrf : [DetailVrfs -> OrUnset(SUBSET SubnetCidrs)]]
  BY <1>1, <1>2 DEF DetailWorkTypes
<1>6. \A q \in DetailPorts : asked'.port[q] # Unset => AskedFits(asked'.port[q])
  BY <1>4 DEF DetailWorkTypes
<1> QED BY <1>3, <1>4, <1>5, <1>6

\* The group of a target is that of a port which is not bound.
LEMMA CreateTargetKeeps ==
  ASSUME DetailConstants, DetailInv, NEW p \in DetailPorts, NEW g \in TargetGroups, CreateTarget(p, g)
  PROVE  DetailInv'
<1>1. /\ ~binding[p].bound /\ target' = [target EXCEPT ![p].group = g]
      /\ UNCHANGED <<topologyRows, snat, binding, profile, vrfRows, duty, told, asked, known, history>>
  BY DEF CreateTarget, agentState
<1>2. /\ target' \in [DetailPorts -> [group : OrUnset(TargetGroups), label : OrUnset(Labels)]]
      /\ \A q \in DetailPorts \ {p} : target'[q] = target[q]
  BY <1>1 DEF DetailInv, DetailRowTypes, OrUnset
<1>3. DetailRowTypes' /\ UNCHANGED <<links, routedNets, outerOf, fip>>
  BY <1>1, <1>2 DEF DetailInv, DetailRowTypes, topologyRows, vrfRows
<1>4. DetailWorkTypes'
  BY <1>1 DEF DetailInv, DetailWorkTypes, AskedFits, DutyFits
<1>5. (\A m \in DetailNets : Routed(m)' <=> Routed(m)) /\ \A y \in OuterNets : HasInterfaces(y)' <=> HasInterfaces(y)
  BY <1>3 DEF Routed, HasInterfaces
<1>6. ASSUME NEW q \in DetailPorts \ {p}
      PROVE  PortInv(q)'
  <2>1. Routed(PortOn[q])' <=> Routed(PortOn[q])
    BY <1>5 DEF DetailConstants
  <2>2. OutersOf(q)' = OutersOf(q) /\ FipsOn(q)' = FipsOn(q) /\ GroupOf(q)' = GroupOf(q) /\ target'[q] = target[q]
    BY <1>1, <1>2, <1>3 DEF OutersOf, FipsOn, GroupOf
  <2>3. PortDetails(q)' = PortDetails(q) /\ NeedsSnat(q)' = NeedsSnat(q)
    BY <2>1, <2>2, SameDetails
  <2>4. Announced(q)' <=> Announced(q)
    BY <1>1 DEF Announced
  <2>5. PortInv(q) /\ (asked.port[q] # Unset => asked.port[q] \in DetailRequests)
        /\ binding \in [DetailPorts -> [host : PortHosts, bound : BOOLEAN]]
    BY DEF DetailInv, DetailWorkTypes, OrUnset
  <2> QED BY <1>1, <2>3, <2>4, <2>5, PortInvFramed
<1>7. PortInv(p)'
  <2>1. (Carries(p)' <=> Carries(p)) /\ (Announced(p)' <=> Announced(p))
    BY <1>1 DEF Carries, Announced
  <2>2. Carries(p) => p \in told.ports /\ Announced(p)
    BY <1>1 DEF DetailInv, PortInv, Announced
  <2> QED BY <1>1, <2>1, <2>2 DEF DetailInv, PortInv
<1>8. SnatInv'
  <2>1. \A q \in DetailPorts : Allocates(q)' => Allocates(q) /\ asked'.port[q] = asked.port[q]
    BY <1>1 DEF Allocates
  <2> QED BY <1>1, <1>5, <2>1, SnatInvFramed DEF DetailInv
<1>9. \A v \in DetailVrfs : VrfSubnets(v)' = VrfSubnets(v)
  BY <1>1, <1>5, SameSubnets
<1>10. ASSUME NEW v \in DetailVrfs \ {"unrouted"}
      PROVE  VrfInv(v)'
  <2>1. VrfAnnounced(v)' <=> VrfAnnounced(v)
    BY <1>1 DEF VrfAnnounced
  <2> QED BY <1>1, <1>9, <2>1 DEF DetailInv, VrfInv
<1> QED BY <1>3, <1>4, <1>6, <1>7, <1>8, <1>10 DEF DetailInv

LEMMA PlugPortKeeps ==
  ASSUME DetailConstants, DetailInv, NEW p \in DetailPorts, NEW h \in PortHosts, NEW b \in BOOLEAN, PlugPort(p, h, b)
  PROVE  DetailInv'
<1>1. /\ binding' = [binding EXCEPT ![p] = [host |-> h, bound |-> b]]
      /\ told' = [told EXCEPT !.ports = @ \cup {p}] /\ known' = [known EXCEPT !.port[p] = Unset]
      /\ UNCHANGED <<topologyRows, snat, groupRows, vrfRows, duty, asked, history>>
  BY DEF PlugPort
<1>2. /\ binding' \in [DetailPorts -> [host : PortHosts, bound : BOOLEAN]]
      /\ \A q \in DetailPorts \ {p} : binding'[q] = binding[q]
  BY <1>1 DEF DetailInv, DetailWorkTypes
<1>3. /\ told' \in [ports : SUBSET DetailPorts, vrfs : SUBSET DetailVrfs]
      /\ told'.ports = told.ports \cup {p} /\ told'.vrfs = told.vrfs
  BY <1>1 DEF DetailInv, DetailWorkTypes
<1>4. /\ known' \in [port : [DetailPorts -> OrUnset(Answers)], vrf : [DetailVrfs -> SUBSET SubnetCidrs]]
      /\ known'.vrf = known.vrf /\ \A q \in DetailPorts \ {p} : known'.port[q] = known.port[q]
  <2>1. known' = [known EXCEPT !.port = [known.port EXCEPT ![p] = Unset]]
    BY <1>1 DEF DetailInv, DetailWorkTypes
  <2>2. [known.port EXCEPT ![p] = Unset] \in [DetailPorts -> OrUnset(Answers)]
    BY DEF DetailInv, DetailWorkTypes, OrUnset
  <2> QED BY <2>1, <2>2 DEF DetailInv, DetailWorkTypes
<1>5. DetailWorkTypes'
  BY <1>1, <1>2, <1>3, <1>4 DEF DetailInv, DetailWorkTypes, AskedFits, DutyFits
<1>6. PortStep(p)
  BY <1>1, <1>2, <1>3, <1>4, <1>5 DEF PortStep
<1>7. PortInv(p)'
  <2>1. p \in told'.ports
    BY <1>3
  <2> QED BY <2>1 DEF PortInv, Announced
<1>8. SnatInv'
  <2>1. \A q \in DetailPorts : Allocates(q)' => Allocates(q) /\ asked'.port[q] = asked.port[q]
    BY <1>1 DEF Allocates
  <2>2. \A y \in OuterNets : HasInterfaces(y)' <=> HasInterfaces(y)
    BY <1>1, SameRows
  <2> QED BY <1>1, <2>1, <2>2, SnatInvFramed DEF DetailInv
<1> QED BY <1>6, <1>7, <1>8, PortStepKeeps

\* A request that goes on: it changes itself, adds SNAT ports, binds the port.
LEMMA RequestStep ==
  ASSUME DetailInv, NEW p \in DetailPorts, NEW r, SetAsked(p, r),
         r = Unset \/ (r \in DetailRequests /\ AskedFits(r)),
         UNCHANGED <<topologyRows, groupRows, vrfRows, duty, told>>,
         late \ {p} \subseteq late' /\ late' \subseteq late,
         exhausted \subseteq exhausted' /\ exhausted' \subseteq OuterNets,
         known' \in [port : [DetailPorts -> OrUnset(Answers)], vrf : [DetailVrfs -> SUBSET SubnetCidrs]],
         known'.vrf = known.vrf /\ \A q \in DetailPorts \ {p} : known'.port[q] = known.port[q],
         snat' \in [PortHosts \X OuterNets -> SUBSET SnatPorts],
         \A hx \in PortHosts \X OuterNets : snat[hx] \subseteq snat'[hx],
         binding' \in [DetailPorts -> [host : PortHosts, bound : BOOLEAN]],
         \A q \in DetailPorts \ {p} : binding'[q] = binding[q]
  PROVE  PortStep(p) /\ asked'.port[p] = r /\ \A q \in DetailPorts \ {p} : asked'.port[q] = asked.port[q]
<1>1. /\ asked' \in [port : [DetailPorts -> OrUnset(DetailRequests)],
                     vrf : [DetailVrfs -> OrUnset(SUBSET SubnetCidrs)]]
      /\ asked'.port[p] = r /\ \A q \in DetailPorts \ {p} : asked'.port[q] = asked.port[q]
      /\ asked'.vrf = asked.vrf
      /\ \A q \in DetailPorts : asked'.port[q] # Unset => AskedFits(asked'.port[q])
  BY SetAskedFacts DEF DetailInv
<1>2. DetailWorkTypes'
  <2>1. /\ duty' \in [DetailWorkers -> OrUnset(Duties)]
        /\ told' \in [ports : SUBSET DetailPorts, vrfs : SUBSET DetailVrfs]
        /\ \A w \in DetailWorkers : duty'[w] # Unset => DutyFits(duty'[w])
        /\ late' \subseteq DetailPorts
    BY DEF DetailInv, DetailWorkTypes, DutyFits
  <2> QED BY <1>1, <2>1 DEF DetailWorkTypes, AskedFits, DutyFits
<1> QED BY <1>1, <1>2 DEF PortStep

LEMMA DetailsFit ==
  ASSUME DetailConstants, DetailRowTypes, NEW p \in DetailPorts
  PROVE  /\ PortDetails(p) \in Snapshots /\ NeedsSnat(p) \subseteq OuterNets
         /\ \A x \in NeedsSnat(p) : HasInterfaces(x)
<1>1. OutersOf(p) \subseteq OuterNets
  BY DEF OutersOf, DetailRowTypes, OrUnset
<1>2. GroupOf(p) \in Groupings
  <2>1. target[p].group \in OrUnset(TargetGroups) /\ PortOn[p] \in DetailNets
    BY DEF DetailRowTypes, DetailConstants
  <2> QED BY <2>1 DEF GroupOf, Groupings, DetailRowTypes, OrUnset
<1>3. Routed(PortOn[p]) \in BOOLEAN /\ FipsOn(p) \subseteq Fips /\ target[p].label \in OrUnset(Labels)
  BY DEF Routed, FipsOn, DetailRowTypes
<1>4. \A x \in OutersOf(p) : HasInterfaces(x)
  BY DEF OutersOf, HasInterfaces
<1> QED BY <1>1, <1>2, <1>3, <1>4 DEF PortDetails, Snapshots, NeedsSnat

LEMMA AskKeeps ==
  ASSUME DetailConstants, DetailInv, NEW p \in DetailPorts, Ask(p)
  PROVE  DetailInv'
<1> DEFINE r == [host |-> binding[p].host, step |-> "query", answer |-> Unset, todo |-> {}, outer |-> Unset]
<1>1. /\ asked.port[p] = Unset /\ told' = [told EXCEPT !.ports = @ \ {p}] /\ SetAsked(p, r)
      /\ UNCHANGED <<topologyRows, snat, binding, groupRows, vrfRows, duty, known, history>>
  BY DEF Ask
<1>2. r \in DetailRequests /\ AskedFits(r) /\ r.host = binding[p].host /\ r.step = "query"
  BY DEF DetailRequests, AskedFits, DetailInv, DetailWorkTypes, OrUnset
<1> HIDE DEF r
<1>3. r # Unset
  BY <1>2 DEF DetailConstants
<1>4. /\ asked' \in [port : [DetailPorts -> OrUnset(DetailRequests)],
                     vrf : [DetailVrfs -> OrUnset(SUBSET SubnetCidrs)]]
      /\ asked'.port[p] = r /\ \A q \in DetailPorts \ {p} : asked'.port[q] = asked.port[q]
      /\ asked'.vrf = asked.vrf
      /\ \A q \in DetailPorts : asked'.port[q] # Unset => AskedFits(asked'.port[q])
  BY <1>1, <1>2, SetAskedFacts DEF DetailInv
<1>5. /\ told' \in [ports : SUBSET DetailPorts, vrfs : SUBSET DetailVrfs]
      /\ told'.ports = told.ports \ {p} /\ told'.vrfs = told.vrfs
  BY <1>1 DEF DetailInv, DetailWorkTypes
<1>6. DetailWorkTypes'
  BY <1>1, <1>4, <1>5 DEF DetailInv, DetailWorkTypes, AskedFits, DutyFits
<1>7. PortStep(p)
  BY <1>1, <1>4, <1>5, <1>6 DEF PortStep
<1>8. PortInv(p)'
  BY <1>1, <1>2, <1>3, <1>4 DEF PortInv, Carries
<1>9. SnatInv'
  <2>1. \A q \in DetailPorts : Allocates(q)' => Allocates(q) /\ asked'.port[q] = asked.port[q]
    BY <1>2, <1>4 DEF Allocates
  <2>2. \A y \in OuterNets : HasInterfaces(y)' <=> HasInterfaces(y)
    BY <1>1, SameRows
  <2> QED BY <1>1, <2>1, <2>2, SnatInvFramed DEF DetailInv
<1> QED BY <1>7, <1>8, <1>9, PortStepKeeps

\* A request that has found no details: the port is to be bound, was bound, is bound
\* elsewhere or cannot be bound.
LEMMA EmptyRequestKeeps ==
  ASSUME DetailConstants, DetailInv, NEW p \in DetailPorts, NEW r, SetAsked(p, r),
         At(p, "query") \/ At(p, "bind"),
         r \in DetailRequests, r.host = asked.port[p].host,
         r.todo = {}, r.outer = Unset, r.step # "allocate", r.step = "answer" => r.answer = Unset,
         binding' \in [DetailPorts -> [host : PortHosts, bound : BOOLEAN]],
         binding'[p].host = binding[p].host,
         \A q \in DetailPorts \ {p} : binding'[q] = binding[q],
         late \ {p} \subseteq late' /\ late' \subseteq late,
         UNCHANGED <<topologyRows, snat, groupRows, vrfRows, duty, told, known, exhausted>>
  PROVE  DetailInv'
<1>1. r # Unset /\ AskedFits(r) /\ asked.port[p] # Unset
  BY DEF DetailConstants, AskedFits, At
<1>2. /\ known' \in [port : [DetailPorts -> OrUnset(Answers)], vrf : [DetailVrfs -> SUBSET SubnetCidrs]]
      /\ snat' \in [PortHosts \X OuterNets -> SUBSET SnatPorts] /\ exhausted' \subseteq OuterNets
  BY DEF DetailInv, DetailWorkTypes
<1>3. PortStep(p) /\ asked'.port[p] = r /\ \A q \in DetailPorts \ {p} : asked'.port[q] = asked.port[q]
  BY <1>1, <1>2, RequestStep
<1>4. PortInv(p)'
  BY <1>1, <1>3 DEF DetailInv, PortInv, Carries
<1>5. SnatInv'
  <2>1. \A q \in DetailPorts : Allocates(q)' => Allocates(q) /\ asked'.port[q] = asked.port[q]
    BY <1>3 DEF Allocates
  <2>2. \A y \in OuterNets : HasInterfaces(y)' <=> HasInterfaces(y)
    BY SameRows
  <2> QED BY <2>1, <2>2, SnatInvFramed DEF DetailInv
<1> QED BY <1>3, <1>4, <1>5, PortStepKeeps

LEMMA BindOnRequestKeeps ==
  ASSUME DetailConstants, DetailInv, NEW p \in DetailPorts, NEW b \in BOOLEAN, BindOnRequest(p, b)
  PROVE  DetailInv'
<1>1. PICK q \in DetailRequests : q = asked.port[p] /\ q.step = "bind" /\ q.todo = {} /\ q.outer = Unset
  BY DEF BindOnRequest, At, DetailInv, DetailWorkTypes, AskedFits, OrUnset
<1>2. At(p, "bind") /\ UNCHANGED <<topologyRows, snat, groupRows, vrfRows, duty, told, known, late, exhausted>>
  BY DEF BindOnRequest
<1>3. CASE b
  <2>1. PICK r : r = [q EXCEPT !.step = "query"]
    OBVIOUS
  <2>2. r \in DetailRequests /\ r.host = q.host /\ r.todo = {} /\ r.outer = Unset /\ r.step = "query"
    BY <1>1, <2>1 DEF DetailRequests
  <2>3. SetAsked(p, r) /\ binding' = [binding EXCEPT ![p].bound = TRUE]
    BY <1>1, <1>3, <2>1 DEF BindOnRequest
  <2>4. /\ binding' \in [DetailPorts -> [host : PortHosts, bound : BOOLEAN]]
        /\ binding'[p].host = binding[p].host /\ \A s \in DetailPorts \ {p} : binding'[s] = binding[s]
    BY <2>3 DEF DetailInv, DetailWorkTypes
  <2> QED BY <1>1, <1>2, <2>2, <2>3, <2>4, EmptyRequestKeeps
<1>4. CASE ~b
  <2>1. PICK r : r = Reply(q, Unset)
    OBVIOUS
  <2>2. /\ r \in DetailRequests /\ r.host = q.host /\ r.todo = {} /\ r.outer = Unset
        /\ r.step = "answer" /\ r.answer = Unset
    BY <1>1, <2>1 DEF DetailRequests, Reply, OrUnset
  <2>3. SetAsked(p, r) /\ UNCHANGED binding
    BY <1>1, <1>4, <2>1 DEF BindOnRequest
  <2>4. binding' \in [DetailPorts -> [host : PortHosts, bound : BOOLEAN]]
    BY <2>3 DEF DetailInv, DetailWorkTypes
  <2> QED BY <1>1, <1>2, <2>2, <2>3, <2>4, EmptyRequestKeeps
<1> QED BY <1>3, <1>4

\* What a request reads it reads at once.
LEMMA QueryDetailsKeeps ==
  ASSUME DetailConstants, DetailInv, NEW p \in DetailPorts, QueryDetails(p)
  PROVE  DetailInv'
<1>1. PICK q \in DetailRequests : q = asked.port[p] /\ q.step = "query" /\ q.todo = {} /\ q.outer = Unset
  BY DEF QueryDetails, At, DetailInv, DetailWorkTypes, AskedFits, OrUnset
<1>2. /\ At(p, "query") /\ late' = late \ {p}
      /\ UNCHANGED <<topologyRows, snat, binding, groupRows, vrfRows, duty, told, known, exhausted>>
  BY DEF QueryDetails
<1>3. binding' \in [DetailPorts -> [host : PortHosts, bound : BOOLEAN]]
  BY <1>2 DEF DetailInv, DetailWorkTypes
<1>4. CASE ~binding[p].bound
  <2>1. PICK r : r = [q EXCEPT !.step = "bind"]
    OBVIOUS
  <2>2. r \in DetailRequests /\ r.host = q.host /\ r.todo = {} /\ r.outer = Unset /\ r.step = "bind"
    BY <1>1, <2>1 DEF DetailRequests
  <2>3. SetAsked(p, r)
    BY <1>1, <1>4, <2>1 DEF QueryDetails
  <2> QED BY <1>1, <1>2, <1>3, <2>2, <2>3, EmptyRequestKeeps
<1>5. CASE binding[p].bound /\ ~BoundAt(p, q.host)
  <2>1. PICK r : r = Reply(q, Unset)
    OBVIOUS
  <2>2. /\ r \in DetailRequests /\ r.host = q.host /\ r.todo = {} /\ r.outer = Unset
        /\ r.step = "answer" /\ r.answer = Unset
    BY <1>1, <2>1 DEF DetailRequests, Reply, OrUnset
  <2>3. SetAsked(p, r)
    BY <1>1, <1>5, <2>1 DEF QueryDetails
  <2> QED BY <1>1, <1>2, <1>3, <2>2, <2>3, EmptyRequestKeeps
<1>6. CASE binding[p].bound /\ BoundAt(p, q.host)
  <2>1. PICK s \in [OuterNets -> OrUnset(SnatPorts)] :
          /\ \A x \in OuterNets : s[x] \in SnatInfo(p, q.host)[x] /\ (SnatInfo(p, q.host)[x] # {Unset} => s[x] # Unset)
          /\ SetAsked(p, [q EXCEPT !.step = "allocate", !.answer = [info |-> PortDetails(p), snat |-> s],
                                   !.todo = {x \in NeedsSnat(p) : s[x] = Unset}])
    BY <1>1, <1>6 DEF QueryDetails
  <2>2. PortDetails(p) \in Snapshots /\ NeedsSnat(p) \subseteq OuterNets /\ \A x \in NeedsSnat(p) : HasInterfaces(x)
    BY DetailsFit DEF DetailInv
  <2>3. PICK a \in Answers : a = [info |-> PortDetails(p), snat |-> s]
    BY <2>2 DEF Answers
  <2>4. PICK todo \in SUBSET OuterNets : todo = {x \in NeedsSnat(p) : s[x] = Unset}
    BY <2>2
  <2>5. PICK r : r = [q EXCEPT !.step = "allocate", !.answer = a, !.todo = todo]
    OBVIOUS
  <2>6. /\ r \in DetailRequests /\ r.host = q.host /\ r.todo = todo /\ r.outer = Unset
        /\ r.step = "allocate" /\ r.answer = a
    BY <1>1, <2>5 DEF DetailRequests, OrUnset
  <2>7. SetAsked(p, r)
    BY <2>1, <2>3, <2>4, <2>5
  <2>8. r # Unset /\ a # Unset
    BY <2>6 DEF DetailConstants
  <2>9. AskedFits(r)
    BY <2>6, <2>8 DEF AskedFits
  <2>10. /\ known' \in [port : [DetailPorts -> OrUnset(Answers)], vrf : [DetailVrfs -> SUBSET SubnetCidrs]]
         /\ snat' \in [PortHosts \X OuterNets -> SUBSET SnatPorts] /\ exhausted' \subseteq OuterNets
    BY <1>2 DEF DetailInv, DetailWorkTypes
  <2>11. PortStep(p) /\ asked'.port[p] = r /\ \A t \in DetailPorts \ {p} : asked'.port[t] = asked.port[t]
    BY <1>2, <1>3, <2>6, <2>7, <2>9, <2>10, RequestStep
  <2>12. UpToDate(p, a, q.host, todo)
    <3>1. a.info = PortDetails(p) /\ a.snat = s
      BY <2>3
    <3>2. ASSUME NEW x \in OuterNets \ todo
          PROVE  IF x \in NeedsSnat(p) THEN s[x] \in SnatAddresses(q.host, x) ELSE s[x] = Unset
      <4>1. s[x] \in SnatInfo(p, q.host)[x]
        BY <2>1
      <4> QED BY <2>4, <3>2, <4>1 DEF SnatInfo, OrUnset, SnatAddresses
    <3> QED BY <2>4, <3>1, <3>2 DEF UpToDate
  <2>13. PortInv(p)'
    <3>1. /\ PortDetails(p)' = PortDetails(p) /\ NeedsSnat(p)' = NeedsSnat(p)
      BY <1>2, SameRows
    <3>2. UpToDate(p, a, q.host, todo)'
      BY <1>2, <2>12, <3>1 DEF UpToDate, SnatAddresses
    <3>3. asked'.port[p].answer = a /\ asked'.port[p].host = q.host /\ asked'.port[p].todo = todo
      BY <2>6, <2>11
    <3>4. UpToDate(p, asked.port[p].answer, asked.port[p].host, asked.port[p].todo)'
      BY <3>2, <3>3 DEF UpToDate, SnatAddresses
    <3>5. binding'[p].bound /\ asked'.port[p] # Unset /\ (p \notin told'.ports => asked'.port[p].host = binding'[p].host)
      BY <1>2, <1>6, <2>8, <2>11, <3>3 DEF BoundAt
    <3> QED BY <3>4, <3>5 DEF PortInv
  <2>14. SnatInv'
    <3>1. \A w \in DetailWorkers : duty[w] # Unset => duty[w].step \notin {"look", "delete"}
      BY DEF QueryDetails, DetailConstants, AtJob
    <3>2. \A y \in OuterNets : HasInterfaces(y)' <=> HasInterfaces(y)
      BY <1>2, SameRows
    <3>3. \A t \in DetailPorts \ {p} : Allocates(t)' <=> Allocates(t)
      BY <2>11 DEF Allocates
    <3>4. \A t \in DetailPorts : Allocates(t)' => \A x \in asked'.port[t].todo : HasInterfaces(x)'
      <4>1. \A x \in asked'.port[p].todo : HasInterfaces(x)'
        BY <2>2, <2>4, <2>6, <2>11, <3>2
      <4>2. ASSUME NEW t \in DetailPorts \ {p}, Allocates(t)
            PROVE  \A x \in asked.port[t].todo : HasInterfaces(x) /\ x \in OuterNets
        BY <4>2 DEF DetailInv, SnatInv, Allocates, DetailWorkTypes, DetailRequests, OrUnset
      <4> QED BY <2>11, <3>2, <3>3, <4>1, <4>2
    <3>5. \A t \in DetailPorts : Allocates(t)' /\ asked'.port[t].outer # Unset =>
            /\ snat'[<<asked'.port[t].host, asked'.port[t].outer>>] = {}
            /\ \A u \in DetailPorts \ {t} : Allocates(u)' => asked'.port[u].outer = Unset
      BY <1>2, <2>6, <2>11, <3>3 DEF DetailInv, SnatInv
    <3>6. \A h \in PortHosts : \A x \in OuterNets : snat'[<<h, x>>] # {} =>
            HasInterfaces(x)' \/ \E w \in DetailWorkers : Cleans(w, x)'
      BY <1>2, <3>1, <3>2 DEF DetailInv, SnatInv, Cleans
    <3>7. \A w \in DetailWorkers : duty'[w] # Unset => duty'[w].step \notin {"look", "delete"}
      BY <1>2, <3>1
    <3> QED BY <1>2, <3>4, <3>5, <3>6, <3>7 DEF DetailInv, SnatInv
  <2> QED BY <2>11, <2>13, <2>14, PortStepKeeps
<1> QED BY <1>4, <1>5, <1>6

\* A SNAT port of the host, or none, takes the place of one still to come.
LEMMA ObtainedFits ==
  ASSUME DetailConstants, NEW q \in DetailRequests, NEW x \in q.todo, NEW s \in OrUnset(SnatPorts),
         q.step = "allocate", q.answer \in Answers
  PROVE  /\ Obtained(q, x, s) \in DetailRequests /\ AskedFits(Obtained(q, x, s))
         /\ Obtained(q, x, s).host = q.host /\ Obtained(q, x, s).step = "allocate"
         /\ Obtained(q, x, s).todo = q.todo \ {x} /\ Obtained(q, x, s).outer = Unset
         /\ Obtained(q, x, s).answer \in Answers
         /\ Obtained(q, x, s).answer.info = q.answer.info
         /\ Obtained(q, x, s).answer.snat = [q.answer.snat EXCEPT ![x] = s]
<1> DEFINE a == [q.answer EXCEPT !.snat = [q.answer.snat EXCEPT ![x] = s]]
           r == [q EXCEPT !.answer = a, !.todo = q.todo \ {x}, !.outer = Unset]
<1>1. q.answer.snat \in [OuterNets -> OrUnset(SnatPorts)] /\ x \in OuterNets
  BY DEF Answers, DetailRequests
<1>2. [q.answer.snat EXCEPT ![x] = s] \in [OuterNets -> OrUnset(SnatPorts)]
  BY <1>1 DEF OrUnset
<1>3. a \in Answers /\ a.info = q.answer.info /\ a.snat = [q.answer.snat EXCEPT ![x] = s]
  BY <1>2 DEF Answers
<1>4. Obtained(q, x, s) = r
  BY DEF Obtained, DetailRequests, Answers
<1> HIDE DEF a
<1>5. /\ r \in DetailRequests /\ r.host = q.host /\ r.step = "allocate" /\ r.answer = a
      /\ r.todo = q.todo \ {x} /\ r.outer = Unset
  BY <1>3 DEF DetailRequests, OrUnset
<1> HIDE DEF r
<1>6. AskedFits(r)
  BY <1>3, <1>5 DEF AskedFits, DetailConstants
<1> QED BY <1>3, <1>4, <1>5, <1>6

\* The request has the SNAT port in its answer, or failed to get one; its answer is
\* up to date with one more.
LEMMA ObtainedKeeps ==
  ASSUME DetailConstants, DetailInv, NEW p \in DetailPorts, Allocates(p), NEW x \in asked.port[p].todo,
         NEW s \in OrUnset(SnatPorts), SetAsked(p, Obtained(asked.port[p], x, s)),
         NEW h \in PortHosts, h = asked.port[p].host, s \in SnatAddresses(h, x)', UNCHANGED late,
         exhausted \subseteq exhausted' /\ exhausted' \subseteq OuterNets,
         snat' \in [PortHosts \X OuterNets -> SUBSET SnatPorts],
         \A hx \in PortHosts \X OuterNets : snat[hx] \subseteq snat'[hx],
         UNCHANGED <<topologyRows, binding, groupRows, vrfRows, duty, told, known>>
  PROVE  /\ PortStep(p) /\ PortInv(p)'
         /\ \A t \in DetailPorts : Allocates(t)' => Allocates(t) /\ asked'.port[t].todo \subseteq asked.port[t].todo
         /\ asked'.port[p].outer = Unset
         /\ \A t \in DetailPorts \ {p} : asked'.port[t] = asked.port[t]
<1>1. PICK q \in DetailRequests :
        q = asked.port[p] /\ q.step = "allocate" /\ q.answer \in Answers /\ q.answer # Unset
  BY DEF Allocates, DetailInv, DetailWorkTypes, AskedFits, OrUnset, DetailRequests
<1>2. PICK r : r = Obtained(q, x, s)
  OBVIOUS
<1>3. /\ r \in DetailRequests /\ AskedFits(r) /\ r.host = q.host /\ r.step = "allocate"
      /\ r.todo = q.todo \ {x} /\ r.outer = Unset
      /\ r.answer \in Answers /\ r.answer.info = q.answer.info
      /\ r.answer.snat = [q.answer.snat EXCEPT ![x] = s]
  BY <1>1, <1>2, ObtainedFits
<1>4. r # Unset /\ r.answer # Unset
  BY <1>3 DEF DetailConstants
<1>5. /\ known' \in [port : [DetailPorts -> OrUnset(Answers)], vrf : [DetailVrfs -> SUBSET SubnetCidrs]]
      /\ binding' \in [DetailPorts -> [host : PortHosts, bound : BOOLEAN]]
  BY DEF DetailInv, DetailWorkTypes
<1>6. SetAsked(p, r)
  BY <1>1, <1>2
<1>7. PortStep(p) /\ asked'.port[p] = r /\ \A t \in DetailPorts \ {p} : asked'.port[t] = asked.port[t]
  BY <1>3, <1>5, <1>6, RequestStep
<1>8. Carries(p) /\ (Announced(p)' <=> Announced(p))
  BY <1>1 DEF Carries, Allocates, Announced
<1>9. ASSUME ~Announced(p)
      PROVE  UpToDate(p, r.answer, r.host, r.todo)'
  <2>1. UpToDate(p, q.answer, q.host, q.todo)
    BY <1>1, <1>8, <1>9 DEF DetailInv, PortInv
  <2>2. PortDetails(p)' = PortDetails(p) /\ NeedsSnat(p)' = NeedsSnat(p)
    BY SameRows
  <2>3. q.answer.snat \in [OuterNets -> OrUnset(SnatPorts)] /\ q.host \in PortHosts /\ q.todo \subseteq OuterNets
    BY <1>1 DEF Answers, DetailRequests
  <2>4. r.answer.snat[x] = s /\ \A y \in OuterNets \ {x} : r.answer.snat[y] = q.answer.snat[y]
    BY <1>1, <1>3, <2>3
  <2>5. ASSUME NEW y \in OuterNets \ r.todo
        PROVE  IF y \in NeedsSnat(p) THEN r.answer.snat[y] \in SnatAddresses(r.host, y)' ELSE r.answer.snat[y] = Unset
    <3>1. CASE y = x
      BY <1>1, <1>3, <2>1, <2>4, <3>1 DEF UpToDate
    <3>2. CASE y # x
      <4>1. y \in OuterNets \ q.todo
        BY <1>3, <3>2
      <4>2. IF y \in NeedsSnat(p) THEN q.answer.snat[y] \in SnatAddresses(q.host, y) ELSE q.answer.snat[y] = Unset
        BY <2>1, <4>1 DEF UpToDate
      <4>3. SnatAddresses(q.host, y) \subseteq SnatAddresses(q.host, y)'
        BY <2>3 DEF SnatAddresses, OrUnset
      <4> QED BY <1>3, <2>4, <3>2, <4>2, <4>3
    <3> QED BY <3>1, <3>2
  <2>6. r.answer.info = PortDetails(p) /\ r.todo \subseteq NeedsSnat(p)
    BY <1>3, <2>1 DEF UpToDate
  <2> QED BY <2>2, <2>5, <2>6 DEF UpToDate
<1>10. PortInv(p)'
  <2>1. ~Announced(p)' => UpToDate(p, asked.port[p].answer, asked.port[p].host, asked.port[p].todo)'
    BY <1>7, <1>8, <1>9 DEF UpToDate
  <2>2. ~binding'[p].bound => p \in told'.ports
    BY <1>8 DEF DetailInv, PortInv
  <2>3. p \notin told'.ports => asked'.port[p].host = binding'[p].host
    BY <1>1, <1>3, <1>7, <1>8 DEF DetailInv, PortInv, Carries
  <2>4. asked'.port[p] # Unset
    BY <1>4, <1>7
  <2> QED BY <2>1, <2>2, <2>3, <2>4 DEF PortInv
<1>11. \A t \in DetailPorts : Allocates(t)' => Allocates(t) /\ asked'.port[t].todo \subseteq asked.port[t].todo
  <2>1. asked'.port[p].todo \subseteq asked.port[p].todo
    BY <1>1, <1>3, <1>7
  <2> QED BY <1>7, <2>1 DEF Allocates
<1> QED BY <1>3, <1>7, <1>10, <1>11

LEMMA LookForSnatKeeps ==
  ASSUME DetailConstants, DetailInv, NEW p \in DetailPorts, NEW x \in OuterNets, LookForSnat(p, x)
  PROVE  DetailInv'
<1>1. /\ Allocates(p) /\ asked.port[p].outer = Unset /\ x \in asked.port[p].todo
      /\ \A q \in DetailPorts : asked.port[q] # Unset => asked.port[q].outer = Unset
      /\ UNCHANGED <<topologyRows, binding, groupRows, vrfRows, duty, told, known, snat, late, exhausted>>
  BY DEF LookForSnat, At, Allocates, DetailConstants
<1>2. snat' \in [PortHosts \X OuterNets -> SUBSET SnatPorts] /\ exhausted' \subseteq OuterNets
  BY <1>1 DEF DetailInv, DetailWorkTypes
<1>3. PICK h \in PortHosts : h = asked.port[p].host
  BY <1>1 DEF DetailInv, DetailWorkTypes, DetailRequests, Allocates, OrUnset
<1>4. \A y \in OuterNets : HasInterfaces(y)' <=> HasInterfaces(y)
  BY <1>1, SameRows
<1>5. /\ \A v \in DetailWorkers : duty[v] # Unset => duty[v].step \notin {"look", "delete"}
      /\ \A g \in PortHosts : \A y \in OuterNets : snat'[<<g, y>>] # {} => HasInterfaces(y)'
      /\ \A hx, ky \in PortHosts \X OuterNets : \A s \in snat'[hx] : s \in snat'[ky] => hx = ky
      /\ \A hx \in PortHosts \X OuterNets : \A s, t \in snat'[hx] : s = t
  BY <1>1, <1>4 DEF DetailInv, SnatInv, Cleans
<1>6. \A t \in DetailPorts : Allocates(t) => \A y \in asked.port[t].todo : HasInterfaces(y) /\ y \in OuterNets
  BY DEF DetailInv, SnatInv, Allocates, DetailWorkTypes, DetailRequests, OrUnset
<1>7. CASE snat[<<asked.port[p].host, x>>] # {}
  <2>1. PICK s \in snat[<<asked.port[p].host, x>>] : SetAsked(p, Obtained(asked.port[p], x, s))
    BY <1>7 DEF LookForSnat
  <2>2. s \in OrUnset(SnatPorts) /\ s \in SnatAddresses(h, x)'
    BY <1>1, <1>3, <2>1 DEF DetailInv, DetailWorkTypes, OrUnset, SnatAddresses
  <2>3. /\ PortStep(p) /\ PortInv(p)'
        /\ \A t \in DetailPorts : Allocates(t)' => Allocates(t) /\ asked'.port[t].todo \subseteq asked.port[t].todo
        /\ asked'.port[p].outer = Unset
        /\ \A t \in DetailPorts \ {p} : asked'.port[t] = asked.port[t]
    BY <1>1, <1>2, <1>3, <2>1, <2>2, ObtainedKeeps
  <2>4. SnatInv'
    <3>1. \A t \in DetailPorts : Allocates(t)' => asked'.port[t].outer = Unset
      BY <1>1, <2>3 DEF Allocates
    <3>2. \A t \in DetailPorts : Allocates(t)' => \A y \in asked'.port[t].todo : HasInterfaces(y)'
      BY <1>4, <1>6, <2>3
    <3> QED BY <1>1, <1>5, <3>1, <3>2 DEF SnatInv
  <2> QED BY <2>3, <2>4, PortStepKeeps
<1>8. CASE snat[<<asked.port[p].host, x>>] = {}
  <2>1. PICK q \in DetailRequests : q = asked.port[p] /\ q.step = "allocate" /\ x \in q.todo /\ AskedFits(q)
    BY <1>1 DEF Allocates, DetailInv, DetailWorkTypes, OrUnset
  <2>2. PICK r : r = [q EXCEPT !.outer = x]
    OBVIOUS
  <2>3. /\ r \in DetailRequests /\ r.host = q.host /\ r.step = "allocate" /\ r.todo = q.todo
        /\ r.answer = q.answer /\ r.outer = x
    BY <2>1, <2>2 DEF DetailRequests, OrUnset
  <2>4. AskedFits(r) /\ r # Unset
    BY <2>1, <2>3 DEF AskedFits, DetailConstants
  <2>5. SetAsked(p, r)
    BY <1>8, <2>1, <2>2 DEF LookForSnat
  <2>6. /\ known' \in [port : [DetailPorts -> OrUnset(Answers)], vrf : [DetailVrfs -> SUBSET SubnetCidrs]]
        /\ binding' \in [DetailPorts -> [host : PortHosts, bound : BOOLEAN]]
    BY <1>1 DEF DetailInv, DetailWorkTypes
  <2>7. PortStep(p) /\ asked'.port[p] = r /\ \A t \in DetailPorts \ {p} : asked'.port[t] = asked.port[t]
    BY <1>1, <1>2, <2>3, <2>4, <2>5, <2>6, RequestStep
  <2>8. PortInv(p)'
    <3>1. (Announced(p)' <=> Announced(p)) /\ (Carries(p)' => Carries(p))
      <4>1. Announced(p)' <=> Announced(p)
        BY <1>1 DEF Announced
      <4>2. asked'.port[p].answer = asked.port[p].answer
        BY <2>1, <2>3, <2>7
      <4>3. Carries(p)' => Carries(p)
        BY <1>1, <4>2 DEF Carries, Allocates
      <4> QED BY <4>1, <4>3
    <3>2. PortDetails(p)' = PortDetails(p) /\ NeedsSnat(p)' = NeedsSnat(p)
      BY <1>1, SameRows
    <3>3. UpToDate(p, asked.port[p].answer, asked.port[p].host, asked.port[p].todo)'
            <=> UpToDate(p, asked.port[p].answer, asked.port[p].host, asked.port[p].todo)
      BY <1>1, <2>1, <2>3, <2>7, <3>2 DEF UpToDate, SnatAddresses
    <3>4. asked.port[p] # Unset /\ asked'.port[p] # Unset /\ asked'.port[p].host = asked.port[p].host
      BY <1>1, <2>1, <2>3, <2>4, <2>7 DEF Allocates
    <3> QED BY <1>1, <3>1, <3>3, <3>4 DEF DetailInv, PortInv
  <2>9. SnatInv'
    <3>2. \A t \in DetailPorts : Allocates(t)' => Allocates(t) /\ asked'.port[t].todo = asked.port[t].todo
      BY <1>1, <2>1, <2>3, <2>7 DEF Allocates
    <3>3. \A t \in DetailPorts : Allocates(t)' => \A y \in asked'.port[t].todo : HasInterfaces(y)'
      BY <1>4, <1>6, <3>2
    <3>4. \A t \in DetailPorts : Allocates(t)' /\ asked'.port[t].outer # Unset => t = p
      BY <1>1, <2>7 DEF Allocates
    <3>5. \A t \in DetailPorts : Allocates(t)' /\ asked'.port[t].outer # Unset =>
            /\ snat'[<<asked'.port[t].host, asked'.port[t].outer>>] = {}
            /\ \A u \in DetailPorts \ {t} : Allocates(u)' => asked'.port[u].outer = Unset
      BY <1>1, <1>8, <2>1, <2>3, <2>7, <3>4
    <3> QED BY <1>1, <1>5, <3>3, <3>5 DEF SnatInv
  <2> QED BY <2>7, <2>8, <2>9, PortStepKeeps
<1> QED BY <1>7, <1>8

LEMMA CreateSnatKeeps ==
  ASSUME DetailConstants, DetailInv, NEW p \in DetailPorts, NEW s \in SnatPorts, CreateSnat(p, s)
  PROVE  DetailInv'
<1>1. PICK h \in PortHosts, x \in OuterNets :
        /\ Allocates(p) /\ asked.port[p].outer = x /\ asked.port[p].host = h /\ x \in asked.port[p].todo /\ x # Unset
        /\ \A hx \in DOMAIN snat : s \notin snat[hx]
        /\ snat' = [snat EXCEPT ![<<h, x>>] = @ \cup {s}]
        /\ SetAsked(p, Obtained(asked.port[p], x, s))
        /\ UNCHANGED <<topologyRows, binding, groupRows, vrfRows, duty, told, known, late, exhausted>>
  <2>1. PICK q \in DetailRequests : q = asked.port[p] /\ q.step = "allocate" /\ AskedFits(q) /\ q # Unset
    BY DEF CreateSnat, At, DetailInv, DetailWorkTypes, OrUnset
  <2>2. q.outer # Unset
    BY <2>1 DEF CreateSnat
  <2>3. q.outer \in q.todo /\ q.outer \in OuterNets /\ q.host \in PortHosts
    BY <2>1, <2>2 DEF AskedFits, DetailRequests
  <2>4. NewSnatPort(q.host, q.outer, s) /\ SetAsked(p, Obtained(q, q.outer, s))
        /\ UNCHANGED <<topologyRows, binding, groupRows, vrfRows, duty, told, known, late, exhausted>>
    BY <2>1 DEF CreateSnat
  <2>5. Allocates(p)
    BY <2>1 DEF Allocates
  <2> QED BY <2>1, <2>2, <2>3, <2>4, <2>5 DEF NewSnatPort
<1>2. /\ snat' \in [PortHosts \X OuterNets -> SUBSET SnatPorts]
      /\ snat'[<<h, x>>] = snat[<<h, x>>] \cup {s}
      /\ \A ky \in PortHosts \X OuterNets : ky # <<h, x>> => snat'[ky] = snat[ky]
      /\ \A ky \in PortHosts \X OuterNets : s \notin snat[ky]
      /\ exhausted' \subseteq OuterNets
  BY <1>1 DEF DetailInv, DetailWorkTypes
<1>3. \A ky \in PortHosts \X OuterNets : snat[ky] \subseteq snat'[ky]
  BY <1>2
<1>4. /\ PortStep(p) /\ PortInv(p)'
      /\ \A t \in DetailPorts : Allocates(t)' => Allocates(t) /\ asked'.port[t].todo \subseteq asked.port[t].todo
      /\ asked'.port[p].outer = Unset
      /\ \A t \in DetailPorts \ {p} : asked'.port[t] = asked.port[t]
  <2>1. s \in OrUnset(SnatPorts) /\ s \in SnatAddresses(h, x)'
    BY <1>2 DEF OrUnset, SnatAddresses
  <2> QED BY <1>1, <1>2, <1>3, <2>1, ObtainedKeeps
<1>5. SnatInv'
  <2>1. \A y \in OuterNets : HasInterfaces(y)' <=> HasInterfaces(y)
    BY <1>1, SameRows
  <2>2. /\ snat[<<h, x>>] = {}
        /\ \A t \in DetailPorts \ {p} : Allocates(t) => asked.port[t].outer = Unset
    BY <1>1 DEF DetailInv, SnatInv
  <2>3. \A v \in DetailWorkers : duty[v] # Unset => duty[v].step \notin {"look", "delete"}
    BY <1>1 DEF DetailInv, SnatInv
  <2>4. \A t \in DetailPorts : Allocates(t) => \A y \in asked.port[t].todo : HasInterfaces(y) /\ y \in OuterNets
    BY DEF DetailInv, SnatInv, Allocates, DetailWorkTypes, DetailRequests, OrUnset
  <2>5. \A t \in DetailPorts : Allocates(t)' => \A y \in asked'.port[t].todo : HasInterfaces(y)'
    BY <1>4, <2>1, <2>4
  <2>6. \A t \in DetailPorts : Allocates(t)' => asked'.port[t].outer = Unset
    BY <1>4, <2>2
  <2>7. ASSUME NEW k \in PortHosts, NEW y \in OuterNets, snat'[<<k, y>>] # {}
        PROVE  HasInterfaces(y)'
    <3>1. HasInterfaces(x)
      BY <1>1, <2>4
    <3>2. snat[<<k, y>>] # {} => HasInterfaces(y)
      BY <2>3 DEF DetailInv, SnatInv, Cleans
    <3> QED BY <1>2, <2>1, <2>7, <3>1, <3>2
  <2>8. \A hx, ky \in PortHosts \X OuterNets : \A t \in snat'[hx] : t \in snat'[ky] => hx = ky
    <3>1. \A hx, ky \in PortHosts \X OuterNets : \A t \in snat[hx] : t \in snat[ky] => hx = ky
      BY DEF DetailInv, SnatInv
    <3> QED BY <1>2, <3>1
  <2>9. \A hx \in PortHosts \X OuterNets : \A t, u \in snat'[hx] : t = u
    <3>1. \A hx \in PortHosts \X OuterNets : \A t, u \in snat[hx] : t = u
      BY DEF DetailInv, SnatInv
    <3> QED BY <1>2, <2>2, <3>1
  <2>10. \A v \in DetailWorkers : duty'[v] # Unset => duty'[v].step \notin {"look", "delete"}
    BY <1>1, <2>3
  <2> QED BY <2>5, <2>6, <2>7, <2>8, <2>9, <2>10 DEF SnatInv
<1> QED BY <1>4, <1>5, PortStepKeeps

\* Without an address the network is one that once had none.
LEMMA FailToAllocateKeeps ==
  ASSUME DetailConstants, DetailInv, NEW p \in DetailPorts, FailToAllocate(p)
  PROVE  DetailInv'
<1>1. PICK h \in PortHosts, x \in OuterNets :
        /\ Allocates(p) /\ asked.port[p].host = h /\ x \in asked.port[p].todo
        /\ exhausted' = exhausted \cup {x} /\ SetAsked(p, Obtained(asked.port[p], x, Unset))
        /\ UNCHANGED <<topologyRows, snat, binding, groupRows, vrfRows, duty, told, known, late>>
  <2>1. PICK q \in DetailRequests : q = asked.port[p] /\ q.step = "allocate" /\ AskedFits(q) /\ q # Unset
    BY DEF FailToAllocate, At, DetailInv, DetailWorkTypes, OrUnset
  <2>2. q.outer # Unset
    BY <2>1 DEF FailToAllocate
  <2>3. q.outer \in q.todo /\ q.outer \in OuterNets /\ q.host \in PortHosts
    BY <2>1, <2>2 DEF AskedFits, DetailRequests
  <2>4. Allocates(p)
    BY <2>1 DEF Allocates
  <2> QED BY <2>1, <2>2, <2>3, <2>4 DEF FailToAllocate
<1>2. snat' \in [PortHosts \X OuterNets -> SUBSET SnatPorts] /\ exhausted' \subseteq OuterNets
  BY <1>1 DEF DetailInv, DetailWorkTypes
<1>3. /\ PortStep(p) /\ PortInv(p)'
      /\ \A t \in DetailPorts : Allocates(t)' => Allocates(t) /\ asked'.port[t].todo \subseteq asked.port[t].todo
      /\ asked'.port[p].outer = Unset
      /\ \A t \in DetailPorts \ {p} : asked'.port[t] = asked.port[t]
  <2>1. Unset \in OrUnset(SnatPorts) /\ Unset \in SnatAddresses(h, x)'
    BY <1>1 DEF OrUnset, SnatAddresses
  <2> QED BY <1>1, <1>2, <2>1, ObtainedKeeps
<1>4. SnatInv'
  <2>1. \A y \in OuterNets : HasInterfaces(y)' <=> HasInterfaces(y)
    BY <1>1, SameRows
  <2>2. \A v \in DetailWorkers : duty[v] # Unset => duty[v].step \notin {"look", "delete"}
    BY <1>1 DEF DetailInv, SnatInv
  <2>3. \A t \in DetailPorts : Allocates(t) => \A y \in asked.port[t].todo : HasInterfaces(y) /\ y \in OuterNets
    BY DEF DetailInv, SnatInv, Allocates, DetailWorkTypes, DetailRequests, OrUnset
  <2>4. \A t \in DetailPorts : Allocates(t)' => \A y \in asked'.port[t].todo : HasInterfaces(y)'
    BY <1>3, <2>1, <2>3
  <2>5. \A t \in DetailPorts : Allocates(t)' /\ asked'.port[t].outer # Unset =>
          /\ snat'[<<asked'.port[t].host, asked'.port[t].outer>>] = {}
          /\ \A u \in DetailPorts \ {t} : Allocates(u)' => asked'.port[u].outer = Unset
    BY <1>1, <1>3 DEF DetailInv, SnatInv
  <2>6. \A k \in PortHosts : \A y \in OuterNets : snat'[<<k, y>>] # {} => HasInterfaces(y)'
    BY <1>1, <2>1, <2>2 DEF DetailInv, SnatInv, Cleans
  <2>7. \A v \in DetailWorkers : duty'[v] # Unset => duty'[v].step \notin {"look", "delete"}
    BY <1>1, <2>2
  <2> QED BY <1>1, <2>4, <2>5, <2>6, <2>7 DEF DetailInv, SnatInv
<1> QED BY <1>3, <1>4, PortStepKeeps

LEMMA RespondDetailsKeeps ==
  ASSUME DetailConstants, DetailInv, NEW p \in DetailPorts, RespondDetails(p)
  PROVE  DetailInv'
<1>1. PICK q \in DetailRequests :
        /\ q = asked.port[p] /\ q.step = "allocate" /\ q.answer \in Answers /\ q.answer # Unset
        /\ q.todo = {} /\ q.outer = Unset
  BY DEF RespondDetails, At, DetailInv, DetailWorkTypes, AskedFits, OrUnset, DetailRequests
<1>2. SetAsked(p, Reply(q, q.answer))
      /\ UNCHANGED <<topologyRows, snat, binding, groupRows, vrfRows, duty, told, known, late, exhausted>>
  BY <1>1 DEF RespondDetails
<1>3. PICK r : r = Reply(q, q.answer)
  OBVIOUS
<1>4. /\ r \in DetailRequests /\ r.host = q.host /\ r.step = "answer" /\ r.todo = q.todo
      /\ r.answer = q.answer /\ r.outer = Unset
  BY <1>1, <1>3 DEF Reply, DetailRequests, OrUnset
<1>5. r # Unset /\ AskedFits(r) /\ asked.port[p] # Unset
  BY <1>1, <1>4 DEF DetailConstants, AskedFits
<1>6. /\ known' \in [port : [DetailPorts -> OrUnset(Answers)], vrf : [DetailVrfs -> SUBSET SubnetCidrs]]
      /\ binding' \in [DetailPorts -> [host : PortHosts, bound : BOOLEAN]]
      /\ snat' \in [PortHosts \X OuterNets -> SUBSET SnatPorts] /\ exhausted' \subseteq OuterNets
  BY <1>2 DEF DetailInv, DetailWorkTypes
<1>7. PortStep(p) /\ asked'.port[p] = r /\ \A t \in DetailPorts \ {p} : asked'.port[t] = asked.port[t]
  BY <1>2, <1>3, <1>4, <1>5, <1>6, RequestStep
<1>8. PortInv(p)'
  <2>1. (Announced(p)' <=> Announced(p)) /\ Carries(p)
    BY <1>1, <1>2, <1>5 DEF Announced, Carries
  <2>2. PortDetails(p)' = PortDetails(p) /\ NeedsSnat(p)' = NeedsSnat(p)
    BY <1>2, SameRows
  <2>3. UpToDate(p, asked.port[p].answer, asked.port[p].host, asked.port[p].todo)'
          <=> UpToDate(p, asked.port[p].answer, asked.port[p].host, asked.port[p].todo)
    BY <1>1, <1>2, <1>4, <1>7, <2>2 DEF UpToDate, SnatAddresses
  <2>4. asked'.port[p] # Unset /\ asked'.port[p].host = asked.port[p].host
    BY <1>1, <1>4, <1>5, <1>7
  <2> QED BY <1>2, <1>5, <2>1, <2>3, <2>4 DEF DetailInv, PortInv
<1>9. SnatInv'
  <2>1. \A t \in DetailPorts : Allocates(t)' => Allocates(t) /\ asked'.port[t] = asked.port[t]
    BY <1>4, <1>7 DEF Allocates
  <2>2. \A y \in OuterNets : HasInterfaces(y)' <=> HasInterfaces(y)
    BY <1>2, SameRows
  <2> QED BY <1>2, <2>1, <2>2, SnatInvFramed DEF DetailInv
<1> QED BY <1>7, <1>8, <1>9, PortStepKeeps

LEMMA ReceiveDetailsKeeps ==
  ASSUME DetailConstants, DetailInv, NEW p \in DetailPorts, ReceiveDetails(p)
  PROVE  DetailInv'
<1>1. PICK q \in DetailRequests :
        q = asked.port[p] /\ q.step = "answer" /\ q.todo = {} /\ q # Unset
  BY DEF ReceiveDetails, At, DetailInv, DetailWorkTypes, AskedFits, OrUnset
<1>2. PICK d \in OrUnset(Answers) : d = IF q.host = binding[p].host THEN q.answer ELSE known.port[p]
  <2>1. q.answer \in OrUnset(Answers) /\ known.port[p] \in OrUnset(Answers)
    BY DEF DetailRequests, DetailInv, DetailWorkTypes
  <2> QED BY <2>1
<1>3. /\ known' = [known EXCEPT !.port = [known.port EXCEPT ![p] = d]] /\ SetAsked(p, Unset)
      /\ UNCHANGED <<topologyRows, snat, binding, groupRows, vrfRows, duty, told, late, exhausted>>
  BY <1>1, <1>2 DEF ReceiveDetails, DetailInv, DetailWorkTypes
<1>4. /\ known' \in [port : [DetailPorts -> OrUnset(Answers)], vrf : [DetailVrfs -> SUBSET SubnetCidrs]]
      /\ known'.vrf = known.vrf /\ known'.port[p] = d
      /\ \A t \in DetailPorts \ {p} : known'.port[t] = known.port[t]
  <2>1. [known.port EXCEPT ![p] = d] \in [DetailPorts -> OrUnset(Answers)]
    BY DEF DetailInv, DetailWorkTypes
  <2> QED BY <1>3, <2>1 DEF DetailInv, DetailWorkTypes
<1>5. /\ binding' \in [DetailPorts -> [host : PortHosts, bound : BOOLEAN]]
      /\ snat' \in [PortHosts \X OuterNets -> SUBSET SnatPorts] /\ exhausted' \subseteq OuterNets
  BY <1>3 DEF DetailInv, DetailWorkTypes
<1>6. PortStep(p) /\ asked'.port[p] = Unset /\ \A t \in DetailPorts \ {p} : asked'.port[t] = asked.port[t]
  BY <1>3, <1>4, <1>5, RequestStep
<1>7. PortInv(p)'
  <2>1. Announced(p)' <=> Announced(p)
    BY <1>3 DEF Announced
  <2>2. ASSUME d # Unset, ~Announced(p)
        PROVE  UpToDate(p, d, binding[p].host, {})
    <3>1. q.host = binding[p].host /\ d = q.answer
      BY <1>1, <1>2, <2>2 DEF DetailInv, PortInv, Announced
    <3>2. Carries(p)
      BY <1>1, <2>2, <3>1 DEF Carries
    <3> QED BY <1>1, <2>2, <3>1, <3>2 DEF DetailInv, PortInv
  <2>3. PortDetails(p)' = PortDetails(p) /\ NeedsSnat(p)' = NeedsSnat(p)
    BY <1>3, SameRows
  <2>4. UpToDate(p, known.port[p], binding[p].host, {})' <=> UpToDate(p, d, binding[p].host, {})
    BY <1>3, <1>4, <2>3 DEF UpToDate, SnatAddresses
  <2> QED BY <1>4, <1>6, <2>1, <2>2, <2>4 DEF PortInv, Carries
<1>8. SnatInv'
  <2>1. \A t \in DetailPorts : Allocates(t)' => Allocates(t) /\ asked'.port[t] = asked.port[t]
    BY <1>6 DEF Allocates
  <2>2. \A y \in OuterNets : HasInterfaces(y)' <=> HasInterfaces(y)
    BY <1>3, SameRows
  <2> QED BY <1>3, <2>1, <2>2, SnatInvFramed DEF DetailInv
<1> QED BY <1>6, <1>7, <1>8, PortStepKeeps

\* A step of a worker: it takes its duty on, and whom it tells it told before.
LEMMA DutyFacts ==
  ASSUME DetailWorkTypes, NEW w \in DetailWorkers, NEW j \in OrUnset(Duties),
         j # Unset => DutyFits(j),
         duty' = [duty EXCEPT ![w] = j]
  PROVE  /\ duty' \in [DetailWorkers -> OrUnset(Duties)] /\ duty'[w] = j
         /\ \A v \in DetailWorkers \ {w} : duty'[v] = duty[v]
         /\ \A v \in DetailWorkers : duty'[v] # Unset => DutyFits(duty'[v])
<1>1. duty' \in [DetailWorkers -> OrUnset(Duties)] /\ duty'[w] = j
      /\ \A v \in DetailWorkers \ {w} : duty'[v] = duty[v]
  BY DEF DetailWorkTypes
<1> QED BY <1>1 DEF DetailWorkTypes, DutyFits

LEMMA LookForUnneededKeeps ==
  ASSUME DetailConstants, DetailInv, NEW w \in DetailWorkers, LookForUnneeded(w)
  PROVE  DetailInv'
<1>1. PICK i \in Duties : i = duty[w] /\ i.step = "look" /\ i.outer \in OuterNets /\ i # Unset /\ i.row = Unset
  BY DEF LookForUnneeded, AtJob, DetailInv, DetailWorkTypes, OrUnset, Duties, DutyFits
<1>2. PICK ids \in SUBSET SnatPorts : ids = IF HasInterfaces(i.outer) THEN {} ELSE SnatOn(i.outer)
  <2>1. SnatOn(i.outer) \subseteq SnatPorts
    <3>1. \A h \in PortHosts : snat[<<h, i.outer>>] \subseteq SnatPorts
      BY <1>1 DEF DetailInv, DetailWorkTypes
    <3> QED BY <3>1 DEF SnatOn
  <2> QED BY <2>1
<1>3. PICK j : j = [i EXCEPT !.step = "delete", !.snats = ids]
  OBVIOUS
<1>4. j \in Duties /\ j.step = "delete" /\ j.outer = i.outer /\ j.snats = ids /\ j.ports = i.ports /\ j.vrfs = i.vrfs /\ j.row = i.row
  BY <1>1, <1>2, <1>3 DEF Duties
<1>5. duty' = [duty EXCEPT ![w] = j]
      /\ UNCHANGED <<topologyRows, snat, binding, groupRows, vrfRows, told, asked, known, late, exhausted>>
  BY <1>1, <1>2, <1>3 DEF LookForUnneeded, agentState, DetailInv, DetailWorkTypes
<1>6. j # Unset /\ DutyFits(j) /\ j \in OrUnset(Duties)
  BY <1>1, <1>4 DEF DetailConstants, OrUnset, DutyFits
<1>7. /\ duty' \in [DetailWorkers -> OrUnset(Duties)] /\ duty'[w] = j
      /\ \A v \in DetailWorkers \ {w} : duty'[v] = duty[v]
      /\ \A v \in DetailWorkers : duty'[v] # Unset => DutyFits(duty'[v])
  BY <1>5, <1>6, DutyFacts DEF DetailInv
<1>8. DetailWorkTypes'
  BY <1>5, <1>7 DEF DetailInv, DetailWorkTypes, AskedFits, DutyFits
<1>9. /\ \A p \in DetailPorts : PortDetails(p)' = PortDetails(p) /\ NeedsSnat(p)' = NeedsSnat(p)
      /\ \A y \in OuterNets : HasInterfaces(y)' <=> HasInterfaces(y)
      /\ \A v \in DetailVrfs : VrfSubnets(v)' = VrfSubnets(v)
      /\ DetailRowTypes'
  BY <1>5, SameRows DEF DetailInv
<1>10. ASSUME NEW p \in DetailPorts
       PROVE  PortInv(p)'
  <2>1. Announced(p)' <=> Announced(p)
    BY <1>1, <1>4, <1>5, <1>6, <1>7 DEF Announced
  <2>2. PortInv(p) /\ (asked.port[p] # Unset => asked.port[p] \in DetailRequests)
        /\ binding \in [DetailPorts -> [host : PortHosts, bound : BOOLEAN]]
    BY DEF DetailInv, DetailWorkTypes, OrUnset
  <2> QED BY <1>5, <1>9, <2>1, <2>2, PortInvFramed
<1>11. ASSUME NEW v \in DetailVrfs \ {"unrouted"}
       PROVE  VrfInv(v)'
  <2>1. VrfAnnounced(v)' <=> VrfAnnounced(v)
    BY <1>1, <1>4, <1>5, <1>6, <1>7 DEF VrfAnnounced
  <2> QED BY <1>5, <1>9, <2>1 DEF DetailInv, VrfInv
<1>12. SnatInv'
  <2>1. \A p \in DetailPorts : ~Allocates(p)'
    BY <1>1, <1>5 DEF DetailInv, SnatInv, Allocates
  <2>2. \A v \in DetailWorkers : \A y \in OuterNets : Cleans(v, y) => Cleans(v, y)'
    BY <1>1, <1>4, <1>6, <1>7 DEF Cleans
  <2>3. \A h \in PortHosts : \A x \in OuterNets : snat'[<<h, x>>] # {} =>
          HasInterfaces(x)' \/ \E v \in DetailWorkers : Cleans(v, x)'
    BY <1>5, <1>9, <2>2 DEF DetailInv, SnatInv
  <2>4. \A x \in OuterNets : IF x = i.outer
          THEN IF HasInterfaces(x) THEN ids = {} ELSE \A h \in PortHosts : snat[<<h, x>>] \subseteq ids
          ELSE \A h \in PortHosts : snat[<<h, x>>] \cap ids = {}
    <3>1. ASSUME NEW x \in OuterNets, x # i.outer, NEW h \in PortHosts, NEW s \in snat[<<h, x>>], s \in ids
          PROVE  FALSE
      <4>1. PICK k \in PortHosts : s \in snat[<<k, i.outer>>]
        BY <1>2, <3>1 DEF SnatOn
      <4>2. <<h, x>> \in PortHosts \X OuterNets /\ <<k, i.outer>> \in PortHosts \X OuterNets
        BY <1>1
      <4>3. <<h, x>> = <<k, i.outer>>
        BY <3>1, <4>1, <4>2 DEF DetailInv, SnatInv
      <4> QED BY <3>1, <4>3
    <3>2. \A x \in OuterNets : x # i.outer => \A h \in PortHosts : snat[<<h, x>>] \cap ids = {}
      BY <3>1
    <3>3. IF HasInterfaces(i.outer) THEN ids = {} ELSE \A h \in PortHosts : snat[<<h, i.outer>>] \subseteq ids
      BY <1>2 DEF SnatOn
    <3> QED BY <3>2, <3>3
  <2>5. \A v \in DetailWorkers : duty'[v] # Unset /\ duty'[v].step = "delete" =>
          \A x \in OuterNets : IF x = duty'[v].outer
            THEN IF HasInterfaces(x)' THEN duty'[v].snats = {}
                 ELSE \A h \in PortHosts : snat'[<<h, x>>] \subseteq duty'[v].snats
            ELSE \A h \in PortHosts : snat'[<<h, x>>] \cap duty'[v].snats = {}
    <3>1. ASSUME NEW v \in DetailWorkers \ {w}, duty'[v] # Unset, duty'[v].step = "delete", NEW x \in OuterNets
          PROVE  IF x = duty[v].outer
                 THEN IF HasInterfaces(x) THEN duty[v].snats = {}
                      ELSE \A h \in PortHosts : snat[<<h, x>>] \subseteq duty[v].snats
                 ELSE \A h \in PortHosts : snat[<<h, x>>] \cap duty[v].snats = {}
      BY <1>7, <3>1 DEF DetailInv, SnatInv
    <3>2. ASSUME NEW x \in OuterNets
          PROVE  IF x = j.outer
                 THEN IF HasInterfaces(x) THEN j.snats = {}
                      ELSE \A h \in PortHosts : snat[<<h, x>>] \subseteq j.snats
                 ELSE \A h \in PortHosts : snat[<<h, x>>] \cap j.snats = {}
      BY <1>4, <2>4
    <3> QED BY <1>5, <1>7, <1>9, <3>1, <3>2
  <2> QED BY <1>5, <2>1, <2>3, <2>5 DEF DetailInv, SnatInv
<1> QED BY <1>8, <1>9, <1>10, <1>11, <1>12 DEF DetailInv

LEMMA DeleteUnneededKeeps ==
  ASSUME DetailConstants, DetailInv, NEW w \in DetailWorkers, DeleteUnneeded(w)
  PROVE  DetailInv'
<1>1. PICK i \in Duties : i = duty[w] /\ i.step = "delete" /\ i.outer \in OuterNets /\ i # Unset
  BY DEF DeleteUnneeded, AtJob, DetailInv, DetailWorkTypes, OrUnset, DutyFits, Duties
<1>2. PICK j : j = [i EXCEPT !.step = "notify", !.snats = {}]
  OBVIOUS
<1>3. j \in Duties /\ j.step = "notify" /\ j.ports = i.ports /\ j.vrfs = i.vrfs /\ j.row = i.row
  BY <1>1, <1>2 DEF Duties
<1>4. /\ duty' = [duty EXCEPT ![w] = j] /\ snat' = [hx \in DOMAIN snat |-> snat[hx] \ i.snats]
      /\ UNCHANGED <<topologyRows, binding, groupRows, vrfRows, told, asked, known, late, exhausted>>
  BY <1>1, <1>2 DEF DeleteUnneeded, SnatWithout, agentState, DetailInv, DetailWorkTypes
<1>5. j # Unset /\ DutyFits(j) /\ j \in OrUnset(Duties)
  BY <1>3 DEF DetailConstants, OrUnset, DutyFits
<1>6. /\ duty' \in [DetailWorkers -> OrUnset(Duties)] /\ duty'[w] = j
      /\ \A v \in DetailWorkers \ {w} : duty'[v] = duty[v]
      /\ \A v \in DetailWorkers : duty'[v] # Unset => DutyFits(duty'[v])
  BY <1>3, <1>4, <1>5, DutyFacts DEF DetailInv
<1>7. /\ snat' \in [PortHosts \X OuterNets -> SUBSET SnatPorts]
      /\ \A hx \in PortHosts \X OuterNets : snat'[hx] = snat[hx] \ i.snats
  BY <1>4 DEF DetailInv, DetailWorkTypes
<1>8. DetailWorkTypes'
  BY <1>4, <1>6, <1>7 DEF DetailInv, DetailWorkTypes, AskedFits, DutyFits
<1>9. /\ \A p \in DetailPorts : PortDetails(p)' = PortDetails(p) /\ NeedsSnat(p)' = NeedsSnat(p)
      /\ \A y \in OuterNets : HasInterfaces(y)' <=> HasInterfaces(y)
      /\ \A v \in DetailVrfs : VrfSubnets(v)' = VrfSubnets(v)
      /\ DetailRowTypes'
  BY <1>4, SameRows DEF DetailInv
<1>10. \A x \in OuterNets : IF x = i.outer
         THEN IF HasInterfaces(x) THEN i.snats = {} ELSE \A h \in PortHosts : snat[<<h, x>>] \subseteq i.snats
         ELSE \A h \in PortHosts : snat[<<h, x>>] \cap i.snats = {}
  BY <1>1 DEF DetailInv, SnatInv
<1>11. \A x \in OuterNets : HasInterfaces(x) => \A h \in PortHosts : snat'[<<h, x>>] = snat[<<h, x>>]
  <2>1. ASSUME NEW x \in OuterNets, HasInterfaces(x), NEW h \in PortHosts
        PROVE  snat'[<<h, x>>] = snat[<<h, x>>]
    <3>1. snat'[<<h, x>>] = snat[<<h, x>>] \ i.snats
      BY <1>7
    <3>2. snat[<<h, x>>] \cap i.snats = {}
      BY <1>10, <2>1
    <3> QED BY <3>1, <3>2
  <2> QED BY <2>1
<1>12. ASSUME NEW p \in DetailPorts
       PROVE  PortInv(p)'
  <2>1. Announced(p)' <=> Announced(p)
    BY <1>1, <1>3, <1>4, <1>5, <1>6 DEF Announced
  <2>2. PortInv(p) /\ (asked.port[p] # Unset => asked.port[p] \in DetailRequests)
        /\ binding \in [DetailPorts -> [host : PortHosts, bound : BOOLEAN]]
    BY DEF DetailInv, DetailWorkTypes, OrUnset
  <2>3. NeedsSnat(p) \subseteq OuterNets /\ \A x \in NeedsSnat(p) : HasInterfaces(x)
    BY DetailsFit DEF DetailInv
  <2>4. \A h \in PortHosts : \A x \in NeedsSnat(p) : snat[<<h, x>>] \subseteq snat'[<<h, x>>]
    BY <1>11, <2>3
  <2> QED BY <1>4, <1>9, <2>1, <2>2, <2>4, PortInvFramed
<1>13. ASSUME NEW v \in DetailVrfs \ {"unrouted"}
       PROVE  VrfInv(v)'
  <2>1. VrfAnnounced(v)' <=> VrfAnnounced(v)
    BY <1>1, <1>3, <1>4, <1>5, <1>6 DEF VrfAnnounced
  <2> QED BY <1>4, <1>9, <2>1 DEF DetailInv, VrfInv
<1>14. SnatInv'
  <2>1. \A p \in DetailPorts : ~Allocates(p)'
    BY <1>1, <1>4 DEF DetailInv, SnatInv, Allocates
  <2>2. \A v \in DetailWorkers \ {w} : \A y \in OuterNets : Cleans(v, y) => Cleans(v, y)'
    BY <1>6 DEF Cleans
  <2>3. ASSUME NEW h \in PortHosts, NEW x \in OuterNets, snat'[<<h, x>>] # {}
        PROVE  HasInterfaces(x)' \/ \E v \in DetailWorkers : Cleans(v, x)'
    <3>1. snat'[<<h, x>>] = snat[<<h, x>>] \ i.snats
      BY <1>7
    <3>2. HasInterfaces(x) \/ \E v \in DetailWorkers : Cleans(v, x)
      BY <2>3, <3>1 DEF DetailInv, SnatInv
    <3>3. CASE HasInterfaces(x)
      BY <1>9, <3>3
    <3>4. CASE \E v \in DetailWorkers \ {w} : Cleans(v, x)
      BY <2>2, <3>4
    <3>5. CASE ~HasInterfaces(x) /\ Cleans(w, x)
      <4>1. snat[<<h, x>>] \subseteq i.snats
        BY <1>1, <1>10, <3>5 DEF Cleans
      <4> QED BY <2>3, <3>1, <4>1
    <3> QED BY <3>2, <3>3, <3>4, <3>5
  <2>4. \A v \in DetailWorkers : duty'[v] # Unset /\ duty'[v].step = "delete" =>
          \A x \in OuterNets : IF x = duty'[v].outer
            THEN IF HasInterfaces(x)' THEN duty'[v].snats = {}
                 ELSE \A h \in PortHosts : snat'[<<h, x>>] \subseteq duty'[v].snats
            ELSE \A h \in PortHosts : snat'[<<h, x>>] \cap duty'[v].snats = {}
    <3>1. ASSUME NEW v \in DetailWorkers, duty'[v] # Unset, duty'[v].step = "delete", NEW x \in OuterNets
          PROVE  IF x = duty[v].outer
                 THEN IF HasInterfaces(x) THEN duty[v].snats = {}
                      ELSE \A h \in PortHosts : snat'[<<h, x>>] \subseteq duty[v].snats
                 ELSE \A h \in PortHosts : snat'[<<h, x>>] \cap duty[v].snats = {}
      <4>1. v # w /\ duty'[v] = duty[v]
        BY <1>3, <1>6, <3>1
      <4>2. IF x = duty[v].outer
            THEN IF HasInterfaces(x) THEN duty[v].snats = {}
                 ELSE \A h \in PortHosts : snat[<<h, x>>] \subseteq duty[v].snats
            ELSE \A h \in PortHosts : snat[<<h, x>>] \cap duty[v].snats = {}
        BY <3>1, <4>1 DEF DetailInv, SnatInv
      <4>3. \A h \in PortHosts : snat'[<<h, x>>] \subseteq snat[<<h, x>>]
        BY <1>7
      <4> QED BY <4>2, <4>3
    <3>2. \A v \in DetailWorkers : duty'[v] # Unset /\ duty'[v].step = "delete" => duty'[v] = duty[v]
      BY <1>3, <1>6
    <3> QED BY <1>9, <3>1, <3>2
  <2>5. \A hx, ky \in PortHosts \X OuterNets : \A s \in snat'[hx] : s \in snat'[ky] => hx = ky
    BY <1>7 DEF DetailInv, SnatInv
  <2>6. \A hx \in PortHosts \X OuterNets : \A s, t \in snat'[hx] : s = t
    BY <1>7 DEF DetailInv, SnatInv
  <2> QED BY <2>1, <2>3, <2>4, <2>5, <2>6 DEF SnatInv
<1> QED BY <1>8, <1>9, <1>12, <1>13, <1>14 DEF DetailInv

LEMMA SendNotificationsKeeps ==
  ASSUME DetailConstants, DetailInv, NEW w \in DetailWorkers, SendNotifications(w)
  PROVE  DetailInv'
<1>1. PICK i \in Duties : i = duty[w] /\ i.step = "notify" /\ i # Unset
  BY DEF SendNotifications, AtJob, DetailInv, DetailWorkTypes, OrUnset, Duties
<1>2. /\ told' = [ports |-> told.ports \cup {p \in i.ports : binding[p].bound}, vrfs |-> told.vrfs \cup i.vrfs]
      /\ UNCHANGED <<topologyRows, snat, binding, groupRows, vrfRows, asked, known, late, exhausted>>
  BY <1>1 DEF SendNotifications
<1>3. PICK j \in OrUnset(Duties) :
        /\ duty'[w] = j /\ \A v \in DetailWorkers \ {w} : duty'[v] = duty[v]
        /\ j # Unset => j.step = "write" /\ j.ports = i.ports /\ j.vrfs = {}
        /\ duty' \in [DetailWorkers -> OrUnset(Duties)]
        /\ \A v \in DetailWorkers : duty'[v] # Unset => DutyFits(duty'[v])
  <2>1. PICK k : k = IF i.row = Unset THEN Unset ELSE [i EXCEPT !.step = "write", !.vrfs = {}]
    OBVIOUS
  <2>2. CASE i.row = Unset
    <3>1. k = Unset /\ k \in OrUnset(Duties) /\ duty' = [duty EXCEPT ![w] = k]
      BY <1>1, <2>1, <2>2 DEF SendNotifications, OrUnset, DetailInv, DetailWorkTypes
    <3> QED BY <3>1, DutyFacts DEF DetailInv
  <2>3. CASE i.row # Unset
    <3>1. k \in Duties /\ k.step = "write" /\ k.ports = i.ports /\ k.vrfs = {} /\ k.row = i.row
      BY <1>1, <2>1, <2>3 DEF Duties
    <3>2. duty' = [duty EXCEPT ![w] = k]
      BY <1>1, <2>1, <2>3 DEF SendNotifications, DetailInv, DetailWorkTypes
    <3>3. k \in OrUnset(Duties) /\ DutyFits(k)
      BY <2>3, <3>1 DEF OrUnset, DutyFits
    <3> QED BY <3>1, <3>2, <3>3, DutyFacts DEF DetailInv
  <2> QED BY <2>2, <2>3
<1>4. /\ told' \in [ports : SUBSET DetailPorts, vrfs : SUBSET DetailVrfs]
      /\ told'.ports = told.ports \cup {p \in i.ports : binding[p].bound} /\ told'.vrfs = told.vrfs \cup i.vrfs
  BY <1>1, <1>2 DEF DetailInv, DetailWorkTypes, Duties
<1>5. DetailWorkTypes'
  BY <1>2, <1>3, <1>4 DEF DetailInv, DetailWorkTypes, AskedFits, DutyFits
<1>6. /\ \A p \in DetailPorts : PortDetails(p)' = PortDetails(p) /\ NeedsSnat(p)' = NeedsSnat(p)
      /\ \A y \in OuterNets : HasInterfaces(y)' <=> HasInterfaces(y)
      /\ \A v \in DetailVrfs : VrfSubnets(v)' = VrfSubnets(v)
      /\ DetailRowTypes'
  BY <1>2, SameRows DEF DetailInv
<1>7. ASSUME NEW p \in DetailPorts
      PROVE  PortInv(p)'
  <2>1. Announced(p) /\ ~Announced(p)' => p \in i.ports /\ ~binding[p].bound
    BY <1>1, <1>2, <1>3, <1>4 DEF Announced
  <2>2. PortInv(p) /\ (asked.port[p] # Unset => asked.port[p] \in DetailRequests)
        /\ binding \in [DetailPorts -> [host : PortHosts, bound : BOOLEAN]]
    BY DEF DetailInv, DetailWorkTypes, OrUnset
  <2>3. p \in told.ports => p \in told'.ports
    BY <1>4
  <2>4. CASE ~Announced(p)
    BY <1>2, <1>6, <2>2, <2>3, <2>4, PortInvFramed
  <2>5. CASE Announced(p)'
    <3>1. Carries(p)' <=> Carries(p)
      BY <1>2 DEF Carries
    <3> QED BY <1>2, <2>2, <2>3, <2>5, <3>1 DEF PortInv
  <2>6. CASE Announced(p) /\ ~Announced(p)'
    <3>1. Carries(p)' <=> Carries(p)
      BY <1>2 DEF Carries
    <3>2. ~Carries(p)
      BY <2>1, <2>2, <2>3, <2>6 DEF PortInv, Announced
    <3> QED BY <1>2, <2>1, <2>2, <2>3, <2>6, <3>1, <3>2 DEF PortInv
  <2> QED BY <2>4, <2>5, <2>6
<1>8. ASSUME NEW v \in DetailVrfs \ {"unrouted"}
      PROVE  VrfInv(v)'
  <2>1. VrfAnnounced(v) => VrfAnnounced(v)'
    BY <1>1, <1>3, <1>4 DEF VrfAnnounced
  <2> QED BY <1>2, <1>6, <2>1 DEF DetailInv, VrfInv
<1>9. SnatInv'
  <2>1. \A p \in DetailPorts : Allocates(p)' => Allocates(p) /\ asked'.port[p] = asked.port[p]
    BY <1>2 DEF Allocates
  <2>2. \A v \in DetailWorkers : duty'[v] # duty[v] =>
          /\ duty[v] # Unset => duty[v].step \notin {"look", "delete"}
          /\ duty'[v] # Unset => duty'[v].step \notin {"look", "delete"}
    BY <1>1, <1>3
  <2> QED BY <1>2, <1>6, <2>1, <2>2, SnatInvFramed DEF DetailInv
<1> QED BY <1>5, <1>6, <1>7, <1>8, <1>9 DEF DetailInv

\* The row that Neutron writes: the ports it concerns were told, and have asked
\* too early if they are not about to ask.
LEMMA WriteRowKeeps ==
  ASSUME DetailConstants, DetailInv, NEW w \in DetailWorkers, PlanFits(w), WriteRow(w)
  PROVE  DetailInv'
<1>1. PICK i \in Duties, e \in PlannedRows :
        i = duty[w] /\ i.step = "write" /\ i # Unset /\ e = i.row /\ i.vrfs = {}
  BY DEF WriteRow, AtJob, DetailInv, DetailWorkTypes, OrUnset, Duties, DutyFits
<1>2. /\ duty' = [duty EXCEPT ![w] = Unset] /\ late' = late \cup {p \in i.ports : ~AboutToAsk(p)} /\ Quiet
      /\ UNCHANGED <<routedNets, fip, snat, binding, groupRows, vrfRows, told, asked, known, exhausted>>
  BY <1>1 DEF WriteRow, agentState
<1>3. /\ duty' \in [DetailWorkers -> OrUnset(Duties)] /\ duty'[w] = Unset
      /\ \A v \in DetailWorkers \ {w} : duty'[v] = duty[v]
      /\ \A v \in DetailWorkers : duty'[v] # Unset => DutyFits(duty'[v])
  <2>1. Unset \in OrUnset(Duties)
    BY DEF OrUnset
  <2> QED BY <1>2, <2>1, DutyFacts DEF DetailInv
<1>4. late' \subseteq DetailPorts /\ late \subseteq late'
  BY <1>1, <1>2 DEF DetailInv, DetailWorkTypes, Duties
<1>5. DetailWorkTypes'
  BY <1>2, <1>3, <1>4 DEF DetailInv, DetailWorkTypes, AskedFits, DutyFits
<1>6. /\ DetailRowTypes'
      /\ \A p \in DetailPorts \ i.ports : OutersOf(p)' = OutersOf(p)
      /\ \A y \in OuterNets : HasInterfaces(y) => HasInterfaces(y)'
  <2>1. e.router \in DetailRouters /\ links[e.router] \subseteq DetailNets
    BY <1>1 DEF PlannedRows, DetailInv, DetailRowTypes
  <2>2. CASE e.outer = Unset
    <3>1. e.net \in DetailNets /\ links' = [links EXCEPT ![e.router] = @ \cup {e.net}] /\ UNCHANGED outerOf
      BY <1>1, <2>2 DEF WriteRow, PlannedRows, DetailConstants
    <3>2. /\ links'[e.router] = links[e.router] \cup {e.net}
          /\ \A r \in DetailRouters \ {e.router} : links'[r] = links[r]
      BY <2>1, <3>1 DEF DetailInv, DetailRowTypes
    <3>3. links' \in [DetailRouters -> SUBSET DetailNets]
      BY <2>1, <3>1 DEF DetailInv, DetailRowTypes
    <3>4. DetailRowTypes'
      BY <1>2, <3>1, <3>3 DEF DetailInv, DetailRowTypes, groupRows, vrfRows
    <3>5. ASSUME NEW p \in DetailPorts \ i.ports
          PROVE  OutersOf(p)' = OutersOf(p)
      <4>1. PortOn[p] = e.net => outerOf[e.router] = Unset
        BY <1>1, <2>2, <3>5 DEF PlanFits, OnNets, DetailConstants
      <4>2. \A r \in DetailRouters : outerOf[r] # Unset => (PortOn[p] \in links'[r] <=> PortOn[p] \in links[r])
        BY <3>2, <4>1
      <4> QED BY <3>1, <4>2 DEF OutersOf
    <3>6. \A y \in OuterNets : HasInterfaces(y) => HasInterfaces(y)'
      BY <3>1, <3>2 DEF HasInterfaces
    <3> QED BY <3>4, <3>5, <3>6
  <2>3. CASE e.outer # Unset
    <3>1. e.outer \in OuterNets /\ outerOf' = [outerOf EXCEPT ![e.router] = e.outer] /\ UNCHANGED links
      BY <1>1, <2>3 DEF WriteRow, PlannedRows
    <3>2. outerOf'[e.router] = e.outer /\ \A r \in DetailRouters \ {e.router} : outerOf'[r] = outerOf[r]
      BY <2>1, <3>1 DEF DetailInv, DetailRowTypes
    <3>3. outerOf' \in [DetailRouters -> OrUnset(OuterNets)]
      BY <2>1, <3>1 DEF DetailInv, DetailRowTypes, OrUnset
    <3>4. DetailRowTypes'
      BY <1>2, <3>1, <3>3 DEF DetailInv, DetailRowTypes, groupRows, vrfRows
    <3>5. outerOf[e.router] = Unset /\ OnNets(links[e.router]) \subseteq i.ports
      BY <1>1, <2>3 DEF PlanFits, DetailConstants
    <3>6. ASSUME NEW p \in DetailPorts \ i.ports
          PROVE  OutersOf(p)' = OutersOf(p)
      <4>1. PortOn[p] \notin links[e.router]
        BY <3>5, <3>6 DEF OnNets
      <4> QED BY <3>1, <3>2, <4>1 DEF OutersOf
    <3>7. \A y \in OuterNets : HasInterfaces(y) => HasInterfaces(y)'
      BY <3>1, <3>2, <3>5 DEF HasInterfaces, DetailConstants
    <3> QED BY <3>4, <3>6, <3>7
  <2> QED BY <2>2, <2>3
<1>7. \A m \in DetailNets : Routed(m)' <=> Routed(m)
  BY <1>2 DEF Routed
<1>8. ASSUME NEW p \in DetailPorts \ i.ports
      PROVE  PortInv(p)'
  <2>1. Routed(PortOn[p])' <=> Routed(PortOn[p])
    BY <1>7 DEF DetailConstants
  <2>2. FipsOn(p)' = FipsOn(p) /\ GroupOf(p)' = GroupOf(p) /\ target'[p] = target[p]
    BY <1>2 DEF FipsOn, GroupOf, groupRows
  <2>3. PortDetails(p)' = PortDetails(p) /\ NeedsSnat(p)' = NeedsSnat(p)
    BY <1>6, <2>1, <2>2, SameDetails
  <2>4. ~Announced(p)' => ~Announced(p)
    BY <1>1, <1>2, <1>3, <1>4 DEF Announced
  <2>5. PortInv(p) /\ (asked.port[p] # Unset => asked.port[p] \in DetailRequests)
        /\ binding \in [DetailPorts -> [host : PortHosts, bound : BOOLEAN]]
    BY DEF DetailInv, DetailWorkTypes, OrUnset
  <2> QED BY <1>2, <2>3, <2>4, <2>5, PortInvFramed
<1>9. ASSUME NEW p \in i.ports
      PROVE  PortInv(p)'
  <2>1. PortInv(p) /\ (Carries(p)' <=> Carries(p))
    BY <1>1, <1>2 DEF DetailInv, Duties, Carries
  <2>2. Announced(p)' \/ (asked.port[p] # Unset /\ ~Carries(p))
    BY <1>2, <1>9 DEF AboutToAsk, At, Announced, Carries
  <2> QED BY <1>2, <2>1, <2>2 DEF PortInv
<1>10. SnatInv'
  <2>1. /\ \A p \in DetailPorts : ~Allocates(p)
        /\ \A v \in DetailWorkers : duty[v] # Unset => duty[v].step # "delete"
    BY <1>2 DEF Quiet, DetailConstants, At, AtJob, Allocates
  <2>2. \A p \in DetailPorts : ~Allocates(p)'
    BY <1>2, <2>1 DEF Allocates
  <2>3. \A v \in DetailWorkers : duty'[v] # Unset => duty'[v].step # "delete"
    BY <1>3, <2>1
  <2>4. \A v \in DetailWorkers : \A y \in OuterNets : Cleans(v, y) => Cleans(v, y)'
    BY <1>1, <1>3 DEF Cleans
  <2>5. \A h \in PortHosts : \A y \in OuterNets : snat'[<<h, y>>] # {} =>
          HasInterfaces(y)' \/ \E v \in DetailWorkers : Cleans(v, y)'
    BY <1>2, <1>6, <2>4 DEF DetailInv, SnatInv
  <2> QED BY <1>2, <2>2, <2>3, <2>5 DEF DetailInv, SnatInv
<1>11. ASSUME NEW v \in DetailVrfs \ {"unrouted"}
       PROVE  VrfInv(v)'
  <2>1. VrfAnnounced(v) => VrfAnnounced(v)'
    BY <1>1, <1>2, <1>3 DEF VrfAnnounced
  <2>2. VrfSubnets(v)' = VrfSubnets(v)
    BY <1>2, <1>7, SameSubnets
  <2> QED BY <1>2, <2>1, <2>2 DEF DetailInv, VrfInv
<1> QED BY <1>5, <1>6, <1>8, <1>9, <1>10, <1>11 DEF DetailInv

LEMMA VrfRequestKeeps ==
  ASSUME DetailConstants, DetailInv, NEW v \in DetailVrfs, GetVrfDetails(v) \/ ReceiveVrf(v)
  PROVE  DetailInv'
<1>1. PICK a \in OrUnset(SUBSET SubnetCidrs), k \in SUBSET SubnetCidrs, vs \in SUBSET DetailVrfs :
        /\ told' = [told EXCEPT !.vrfs = vs] /\ asked' = [asked EXCEPT !.vrf = [asked.vrf EXCEPT ![v] = a]]
        /\ known' = [known EXCEPT !.vrf = [known.vrf EXCEPT ![v] = k]]
        /\ told.vrfs \ {v} \subseteq vs
        /\ UNCHANGED <<topologyRows, snat, binding, groupRows, vrfRows, duty, late, exhausted>>
        /\ IF a # Unset THEN a = VrfSubnets(v)
           ELSE asked.vrf[v] # Unset /\ k = asked.vrf[v] /\ vs = told.vrfs
  <2>1. /\ asked.vrf \in [DetailVrfs -> OrUnset(SUBSET SubnetCidrs)]
        /\ known.vrf \in [DetailVrfs -> SUBSET SubnetCidrs] /\ told.vrfs \in SUBSET DetailVrfs
    BY DEF DetailInv, DetailWorkTypes
  <2>2. CASE GetVrfDetails(v)
    <3>1. VrfSubnets(v) \in SUBSET SubnetCidrs
      BY DEF VrfSubnets, DetailInv, DetailRowTypes
    <3>2. VrfSubnets(v) # Unset /\ VrfSubnets(v) \in OrUnset(SUBSET SubnetCidrs)
      BY <3>1 DEF DetailConstants, OrUnset
    <3>3. told' = [told EXCEPT !.vrfs = told.vrfs \ {v}]
      BY <2>2 DEF GetVrfDetails
    <3>4. asked' = [asked EXCEPT !.vrf = [asked.vrf EXCEPT ![v] = VrfSubnets(v)]]
      BY <2>2 DEF GetVrfDetails, DetailInv, DetailWorkTypes
    <3>5. known' = [known EXCEPT !.vrf = [known.vrf EXCEPT ![v] = known.vrf[v]]]
      BY <2>1, <2>2 DEF GetVrfDetails, DetailInv, DetailWorkTypes
    <3>6. known.vrf[v] \in SUBSET SubnetCidrs /\ told.vrfs \ {v} \in SUBSET DetailVrfs
      BY <2>1
    <3>7. UNCHANGED <<topologyRows, snat, binding, groupRows, vrfRows, duty, late, exhausted>>
      BY <2>2 DEF GetVrfDetails
    <3> USE <3>2, <3>6
    <3> WITNESS VrfSubnets(v) \in OrUnset(SUBSET SubnetCidrs), known.vrf[v] \in SUBSET SubnetCidrs,
                told.vrfs \ {v} \in SUBSET DetailVrfs
    <3> QED BY <3>2, <3>3, <3>4, <3>5, <3>7
  <2>3. CASE ReceiveVrf(v)
    <3>1. asked.vrf[v] \in SUBSET SubnetCidrs /\ asked.vrf[v] # Unset /\ Unset \in OrUnset(SUBSET SubnetCidrs)
      BY <2>1, <2>3 DEF ReceiveVrf, OrUnset
    <3>2. told' = [told EXCEPT !.vrfs = told.vrfs]
      BY <2>3 DEF ReceiveVrf, DetailInv, DetailWorkTypes
    <3>3. asked' = [asked EXCEPT !.vrf = [asked.vrf EXCEPT ![v] = Unset]]
      BY <2>3 DEF ReceiveVrf, DetailInv, DetailWorkTypes
    <3>4. known' = [known EXCEPT !.vrf = [known.vrf EXCEPT ![v] = asked.vrf[v]]]
      BY <2>3 DEF ReceiveVrf, DetailInv, DetailWorkTypes
    <3> QED BY <2>1, <2>3, <3>1, <3>2, <3>3, <3>4 DEF ReceiveVrf
  <2> QED BY <2>2, <2>3
<1>2. /\ told' \in [ports : SUBSET DetailPorts, vrfs : SUBSET DetailVrfs]
      /\ told'.ports = told.ports /\ told'.vrfs = vs
  BY <1>1 DEF DetailInv, DetailWorkTypes
<1>3. /\ asked' \in [port : [DetailPorts -> OrUnset(DetailRequests)],
                     vrf : [DetailVrfs -> OrUnset(SUBSET SubnetCidrs)]]
      /\ asked'.port = asked.port /\ asked'.vrf[v] = a /\ \A u \in DetailVrfs \ {v} : asked'.vrf[u] = asked.vrf[u]
  <2>1. [asked.vrf EXCEPT ![v] = a] \in [DetailVrfs -> OrUnset(SUBSET SubnetCidrs)]
    BY DEF DetailInv, DetailWorkTypes
  <2> QED BY <1>1, <2>1 DEF DetailInv, DetailWorkTypes
<1>4. /\ known' \in [port : [DetailPorts -> OrUnset(Answers)], vrf : [DetailVrfs -> SUBSET SubnetCidrs]]
      /\ known'.port = known.port /\ known'.vrf[v] = k /\ \A u \in DetailVrfs \ {v} : known'.vrf[u] = known.vrf[u]
  <2>1. [known.vrf EXCEPT ![v] = k] \in [DetailVrfs -> SUBSET SubnetCidrs]
    BY DEF DetailInv, DetailWorkTypes
  <2> QED BY <1>1, <2>1 DEF DetailInv, DetailWorkTypes
<1>5. DetailWorkTypes'
  BY <1>1, <1>2, <1>3, <1>4 DEF DetailInv, DetailWorkTypes, AskedFits, DutyFits
<1>6. /\ \A p \in DetailPorts : PortDetails(p)' = PortDetails(p) /\ NeedsSnat(p)' = NeedsSnat(p)
      /\ \A y \in OuterNets : HasInterfaces(y)' <=> HasInterfaces(y)
      /\ \A u \in DetailVrfs : VrfSubnets(u)' = VrfSubnets(u)
      /\ DetailRowTypes'
  BY <1>1, SameRows DEF DetailInv
<1>7. ASSUME NEW p \in DetailPorts
      PROVE  PortInv(p)'
  <2>1. Announced(p)' <=> Announced(p)
    BY <1>1, <1>2 DEF Announced
  <2>2. PortInv(p) /\ (asked.port[p] # Unset => asked.port[p] \in DetailRequests)
        /\ binding \in [DetailPorts -> [host : PortHosts, bound : BOOLEAN]]
    BY DEF DetailInv, DetailWorkTypes, OrUnset
  <2> QED BY <1>1, <1>2, <1>3, <1>4, <1>6, <2>1, <2>2, PortInvFramed
<1>8. ASSUME NEW u \in DetailVrfs \ {"unrouted"}
      PROVE  VrfInv(u)'
  <2>1. CASE u # v
    <3>1. VrfAnnounced(u) => VrfAnnounced(u)'
      BY <1>1, <1>2, <2>1 DEF VrfAnnounced
    <3> QED BY <1>3, <1>4, <1>6, <2>1, <3>1 DEF DetailInv, VrfInv
  <2>2. CASE u = v
    <3>1. CASE a # Unset
      BY <1>1, <1>3, <1>6, <2>2, <3>1 DEF VrfInv
    <3>2. CASE a = Unset
      <4>1. VrfAnnounced(v) => VrfAnnounced(v)'
        BY <1>1, <1>2, <3>2 DEF VrfAnnounced
      <4> QED BY <1>1, <1>3, <1>4, <1>6, <2>2, <3>2, <4>1 DEF DetailInv, VrfInv
    <3> QED BY <3>1, <3>2
  <2> QED BY <2>1, <2>2
<1>9. SnatInv'
  <2>1. \A p \in DetailPorts : Allocates(p)' => Allocates(p) /\ asked'.port[p] = asked.port[p]
    BY <1>3 DEF Allocates
  <2> QED BY <1>1, <1>6, <2>1, SnatInvFramed DEF DetailInv
<1> QED BY <1>5, <1>6, <1>7, <1>8, <1>9 DEF DetailInv

LEMMA DetailInitEstablishes ==
  ASSUME DetailConstants, DetailInit
  PROVE  DetailInv
<1>1. DetailRowTypes
  BY DEF DetailInit, DetailRowTypes, OrUnset
<1>2. DetailWorkTypes
  BY DEF DetailInit, DetailWorkTypes, OrUnset, AskedFits, DutyFits
<1>3. \A p \in DetailPorts : PortInv(p)
  BY DEF DetailInit, PortInv, Carries
<1>4. SnatInv
  BY DEF DetailInit, SnatInv, Allocates
<1>5. ASSUME NEW v \in DetailVrfs \ {"unrouted"}
      PROVE  VrfInv(v)
  <2>1. VrfSubnets(v) = {}
    BY DEF VrfSubnets, DetailInit, DetailConstants
  <2>2. asked.vrf[v] = Unset /\ known.vrf[v] = {}
    BY DEF DetailInit
  <2> QED BY <2>1, <2>2 DEF VrfInv
<1> QED BY <1>1, <1>2, <1>3, <1>4, <1>5 DEF DetailInv

LEMMA DetailInvKept ==
  ASSUME DetailConstants, DetailInv, PlansFit, [DetailNext]_detailVars
  PROVE  DetailInv'
<1>1. CASE UNCHANGED detailVars
  <2>1. UNCHANGED <<snat, binding, duty, told, asked, known, late, exhausted>>
    BY <1>1 DEF detailVars, agentState
  <2>2. /\ \A p \in DetailPorts : PortDetails(p)' = PortDetails(p) /\ NeedsSnat(p)' = NeedsSnat(p)
        /\ \A y \in OuterNets : HasInterfaces(y)' <=> HasInterfaces(y)
        /\ \A v \in DetailVrfs : VrfSubnets(v)' = VrfSubnets(v)
        /\ DetailRowTypes'
    BY <1>1, SameRows DEF detailVars, DetailInv
  <2>3. DetailWorkTypes'
    BY <2>1 DEF DetailInv, DetailWorkTypes, AskedFits, DutyFits
  <2>4. ASSUME NEW p \in DetailPorts
        PROVE  PortInv(p)'
    <3>1. Announced(p)' <=> Announced(p)
      BY <2>1 DEF Announced
    <3>2. PortInv(p) /\ (asked.port[p] # Unset => asked.port[p] \in DetailRequests)
          /\ binding \in [DetailPorts -> [host : PortHosts, bound : BOOLEAN]]
      BY DEF DetailInv, DetailWorkTypes, OrUnset
    <3> QED BY <2>1, <2>2, <3>1, <3>2, PortInvFramed
  <2>5. SnatInv'
    <3>1. \A p \in DetailPorts : Allocates(p)' => Allocates(p) /\ asked'.port[p] = asked.port[p]
      BY <2>1 DEF Allocates
    <3> QED BY <2>1, <2>2, <3>1, SnatInvFramed DEF DetailInv
  <2>6. ASSUME NEW v \in DetailVrfs \ {"unrouted"}
        PROVE  VrfInv(v)'
    <3>1. VrfAnnounced(v)' <=> VrfAnnounced(v)
      BY <2>1 DEF VrfAnnounced
    <3> QED BY <2>1, <2>2, <3>1 DEF DetailInv, VrfInv
  <2> QED BY <2>2, <2>3, <2>4, <2>5, <2>6 DEF DetailInv
<1>2. ASSUME NEW w \in DetailWorkers, NEW r \in DetailRouters,
             \/ \E n \in DetailNets : AddInterface(w, r, n) \/ RemoveInterface(w, r, n)
             \/ ClearOuter(w, r) \/ \E x \in OuterNets : SetOuter(w, r, x)
             \/ \E f \in Fips : \E p \in DetailPorts : AssociateFip(w, f, p, r)
      PROVE  DetailInv'
  <2>1. ASSUME NEW n \in DetailNets, AddInterface(w, r, n) \/ RemoveInterface(w, r, n)
        PROVE  DetailInv'
    BY <2>1, AddInterfaceChanges, RemoveInterfaceChanges
  <2>2. ASSUME ClearOuter(w, r) \/ \E x \in OuterNets : SetOuter(w, r, x)
        PROVE  DetailInv'
    BY <2>2, SetOuterChanges, ClearOuterChanges
  <2>3. ASSUME NEW f \in Fips, NEW p \in DetailPorts, AssociateFip(w, f, p, r)
        PROVE  DetailInv'
    BY <2>3, FipChanges
  <2> QED BY <1>2, <2>1, <2>2, <2>3
<1>3. ASSUME NEW w \in DetailWorkers, NEW f \in Fips, DisassociateFip(w, f)
      PROVE  DetailInv'
  BY <1>3, FipChanges
<1>4. ASSUME NEW w \in DetailWorkers,
             \/ \E p \in DetailPorts : \E l \in OrUnset(Labels) : SetLabel(w, p, l)
             \/ \E g \in TargetGroups : \E a \in OrUnset(Profiles) : SetProfile(w, g, a)
      PROVE  DetailInv'
  BY <1>4, GroupChanges
<1>5. ASSUME NEW w \in DetailWorkers,
             \/ \E n \in DetailNets : \E cs \in SUBSET SubnetCidrs : SetSubnets(w, n, cs)
             \/ \E o \in ScopedPools : \E z \in OrUnset(PoolScopes) : \E cs \in SUBSET SubnetCidrs :
                  SetPool(w, o, [scope |-> z, prefixes |-> cs])
      PROVE  DetailInv'
  BY <1>5, SubnetChanges
<1>6. ASSUME NEW w \in DetailWorkers, AfterCommit(w)
      PROVE  DetailInv'
  BY <1>6, LookForUnneededKeeps, DeleteUnneededKeeps, SendNotificationsKeeps, WriteRowKeeps DEF AfterCommit, PlansFit
<1>7. ASSUME NEW p \in DetailPorts,
             \/ \E h \in PortHosts : \E b \in BOOLEAN : PlugPort(p, h, b)
             \/ \E g \in TargetGroups : CreateTarget(p, g)
      PROVE  DetailInv'
  BY <1>7, PlugPortKeeps, CreateTargetKeeps
<1>8. ASSUME NEW p \in DetailPorts, RequestNext(p)
      PROVE  DetailInv'
  <2>1. CASE Ask(p) \/ QueryDetails(p) \/ FailToAllocate(p) \/ RespondDetails(p) \/ ReceiveDetails(p)
    BY <2>1, AskKeeps, QueryDetailsKeeps, FailToAllocateKeeps, RespondDetailsKeeps, ReceiveDetailsKeeps
  <2>2. CASE \E b \in BOOLEAN : BindOnRequest(p, b)
    BY <2>2, BindOnRequestKeeps
  <2>3. CASE \E x \in OuterNets : LookForSnat(p, x)
    BY <2>3, LookForSnatKeeps
  <2>4. CASE \E s \in SnatPorts : CreateSnat(p, s)
    BY <2>4, CreateSnatKeeps
  <2> QED BY <1>8, <2>1, <2>2, <2>3, <2>4 DEF RequestNext
<1>9. ASSUME NEW v \in DetailVrfs, GetVrfDetails(v) \/ ReceiveVrf(v)
      PROVE  DetailInv'
  BY <1>9, VrfRequestKeeps
<1>10. CASE DetailNext
  <2>1. CASE \E w \in DetailWorkers :
       \/ \E r \in DetailRouters :
            \/ \E n \in DetailNets : AddInterface(w, r, n) \/ RemoveInterface(w, r, n)
            \/ ClearOuter(w, r) \/ \E x \in OuterNets : SetOuter(w, r, x)
            \/ \E f \in Fips : \E p \in DetailPorts : AssociateFip(w, f, p, r)
       \/ \E f \in Fips : DisassociateFip(w, f)
       \/ \E p \in DetailPorts : \E l \in OrUnset(Labels) : SetLabel(w, p, l)
       \/ \E g \in TargetGroups : \E a \in OrUnset(Profiles) : SetProfile(w, g, a)
       \/ \E n \in DetailNets : \E cs \in SUBSET SubnetCidrs : SetSubnets(w, n, cs)
       \/ \E o \in ScopedPools : \E z \in OrUnset(PoolScopes), cs \in SUBSET SubnetCidrs :
            SetPool(w, o, [scope |-> z, prefixes |-> cs])
       \/ AfterCommit(w)
    <3> PICK w \in DetailWorkers :
       \/ \E r \in DetailRouters :
            \/ \E n \in DetailNets : AddInterface(w, r, n) \/ RemoveInterface(w, r, n)
            \/ ClearOuter(w, r) \/ \E x \in OuterNets : SetOuter(w, r, x)
            \/ \E f \in Fips : \E p \in DetailPorts : AssociateFip(w, f, p, r)
       \/ \E f \in Fips : DisassociateFip(w, f)
       \/ \E p \in DetailPorts : \E l \in OrUnset(Labels) : SetLabel(w, p, l)
       \/ \E g \in TargetGroups : \E a \in OrUnset(Profiles) : SetProfile(w, g, a)
       \/ \E n \in DetailNets : \E cs \in SUBSET SubnetCidrs : SetSubnets(w, n, cs)
       \/ \E o \in ScopedPools : \E z \in OrUnset(PoolScopes), cs \in SUBSET SubnetCidrs :
            SetPool(w, o, [scope |-> z, prefixes |-> cs])
       \/ AfterCommit(w)
      BY <2>1
    <3>1. ASSUME NEW o \in ScopedPools, NEW z \in OrUnset(PoolScopes), NEW cs \in SUBSET SubnetCidrs,
                 SetPool(w, o, [scope |-> z, prefixes |-> cs])
          PROVE  DetailInv'
      BY <3>1, <1>5
    <3> QED BY <1>2, <1>3, <1>4, <1>5, <1>6, <3>1
  <2>2. CASE \E p \in DetailPorts :
       \/ \E h \in PortHosts : \E b \in BOOLEAN : PlugPort(p, h, b)
       \/ \E g \in TargetGroups : CreateTarget(p, g)
       \/ RequestNext(p)
    BY <2>2, <1>7, <1>8
  <2>3. CASE \E v \in DetailVrfs : GetVrfDetails(v) \/ ReceiveVrf(v)
    BY <2>3, <1>9
  <2> QED BY <1>10, <2>1, <2>2, <2>3 DEF DetailNext
<1> QED BY <1>1, <1>10

\* A row to be written is that of before, and so is its router.
LEMMA PlansFramed ==
  ASSUME PlansFit,
         \A w \in DetailWorkers : duty'[w] # Unset /\ duty'[w].row # Unset =>
           /\ duty[w] # Unset /\ duty[w].row = duty'[w].row /\ duty[w].ports = duty'[w].ports
           /\ links'[duty[w].row.router] = links[duty[w].row.router]
           /\ outerOf'[duty[w].row.router] = outerOf[duty[w].row.router]
  PROVE  PlansFit'
<1> SUFFICES ASSUME NEW w \in DetailWorkers, duty'[w] # Unset, duty'[w].row # Unset
             PROVE  PlanFits(w)'
  BY DEF PlansFit, PlanFits
<1>1. \A v \in DetailWorkers : \A r : Plans(v, r)' => Plans(v, r)
  BY DEF Plans
<1>2. PlanFits(w)
  BY DEF PlansFit
<1> QED BY <1>1, <1>2 DEF PlanFits, OnNets

LEMMA CommittedFacts ==
  ASSUME DetailInv, NEW w \in DetailWorkers, NEW x, NEW ports, NEW vrfs, Committed(w, x, ports, vrfs)
  PROVE  duty'[w].row = Unset /\ \A v \in DetailWorkers \ {w} : duty'[v] = duty[v]
BY DEF Committed, Planned, DetailInv, DetailWorkTypes

\* A plan is made of a router that nobody else has plans for.
LEMMA PlanMade ==
  ASSUME DetailConstants, DetailInv, PlansFit, NEW w \in DetailWorkers, NEW r \in DetailRouters,
         (\E n \in DetailNets : AddInterface(w, r, n)) \/ \E x \in OuterNets : SetOuter(w, r, x)
  PROVE  PlansFit'
<1>1. PICK j \in Duties :
        /\ duty' = [duty EXCEPT ![w] = j] /\ j.row \in PlannedRows /\ j.row.router = r
        /\ j.row.outer = Unset /\ outerOf[r] # Unset => OnNets({j.row.net}) \subseteq j.ports
        /\ j.row.outer # Unset => outerOf[r] = Unset /\ OnNets(links[r]) \subseteq j.ports
        /\ UNCHANGED <<links, outerOf>> /\ Unplanned(r)
  <2>1. ASSUME NEW n \in DetailNets, AddInterface(w, r, n)
        PROVE  \E j \in Duties :
                 /\ duty' = [duty EXCEPT ![w] = j] /\ j.row \in PlannedRows /\ j.row.router = r
                 /\ j.row.outer = Unset /\ outerOf[r] # Unset => OnNets({j.row.net}) \subseteq j.ports
                 /\ j.row.outer # Unset => outerOf[r] = Unset /\ OnNets(links[r]) \subseteq j.ports
                 /\ UNCHANGED <<links, outerOf>> /\ Unplanned(r)
    <3>1. PICK plan \in PlannedRows : plan = [router |-> r, net |-> n, outer |-> Unset]
      BY DEF PlannedRows
    <3>2. PICK ports \in SUBSET DetailPorts, vrfs \in SUBSET DetailVrfs :
            /\ Planned(w, Unset, plan, ports, vrfs)
            /\ outerOf[r] # Unset => OnNets({n}) \subseteq ports
      <4>1. PICK moves : moves = \A s \in DetailRouters : n \notin links[s]
        OBVIOUS
      <4>2. PortsAffected(r, n, moves) \in SUBSET DetailPorts
        BY DEF PortsAffected, OnNets
      <4>3. (IF moves THEN {"default"} ELSE {}) \in SUBSET DetailVrfs
        BY DEF DetailVrfs, UnscopedVrfs
      <4>4. Planned(w, Unset, plan, PortsAffected(r, n, moves), IF moves THEN {"default"} ELSE {})
        BY <2>1, <3>1, <4>1 DEF AddInterface
      <4>5. outerOf[r] # Unset => OnNets({n}) \subseteq PortsAffected(r, n, moves)
        BY DEF PortsAffected
      <4> QED BY <4>2, <4>3, <4>4, <4>5
    <3>3. PICK j : j = [step |-> FirstStep(Unset), outer |-> Unset, row |-> plan,
                        snats |-> {}, ports |-> ports, vrfs |-> vrfs]
      OBVIOUS
    <3>4. j \in Duties /\ j.row = plan /\ j.ports = ports
      BY <3>3 DEF Duties, FirstStep, OrUnset
    <3>5. duty' = [duty EXCEPT ![w] = j] /\ UNCHANGED <<links, outerOf>> /\ Unplanned(r)
      BY <2>1, <3>2, <3>3 DEF Planned, AddInterface
    <3>6. /\ j.row.router = r /\ j.row \in PlannedRows
          /\ j.row.outer = Unset /\ outerOf[r] # Unset => OnNets({j.row.net}) \subseteq j.ports
          /\ j.row.outer # Unset => outerOf[r] = Unset /\ OnNets(links[r]) \subseteq j.ports
      BY <3>1, <3>2, <3>4, <3>5
    <3> QED BY <3>4, <3>5, <3>6
  <2>2. ASSUME NEW x \in OuterNets, SetOuter(w, r, x)
        PROVE  \E j \in Duties :
                 /\ duty' = [duty EXCEPT ![w] = j] /\ j.row \in PlannedRows /\ j.row.router = r
                 /\ j.row.outer = Unset /\ outerOf[r] # Unset => OnNets({j.row.net}) \subseteq j.ports
                 /\ j.row.outer # Unset => outerOf[r] = Unset /\ OnNets(links[r]) \subseteq j.ports
                 /\ UNCHANGED <<links, outerOf>> /\ Unplanned(r)
    <3>1. PICK plan \in PlannedRows : plan = [router |-> r, net |-> Unset, outer |-> x]
      BY DEF PlannedRows
    <3>2. PICK ports \in SUBSET DetailPorts : ports = OnNets(links[r])
      BY DEF OnNets
    <3>3. PICK j : j = [step |-> FirstStep(Unset), outer |-> Unset, row |-> plan,
                        snats |-> {}, ports |-> ports, vrfs |-> {}]
      OBVIOUS
    <3>4. j \in Duties /\ j.row = plan /\ j.ports = ports
      BY <3>3 DEF Duties, FirstStep, OrUnset
    <3>5. /\ duty' = [duty EXCEPT ![w] = j] /\ UNCHANGED <<links, outerOf>>
          /\ Unplanned(r) /\ outerOf[r] = Unset /\ plan.outer # Unset
      BY <2>2, <3>1, <3>2, <3>3 DEF Planned, SetOuter, topologyRows
    <3>6. /\ j.row.router = r /\ j.row \in PlannedRows
          /\ j.row.outer = Unset /\ outerOf[r] # Unset => OnNets({j.row.net}) \subseteq j.ports
          /\ j.row.outer # Unset => outerOf[r] = Unset /\ OnNets(links[r]) \subseteq j.ports
      BY <3>1, <3>2, <3>4, <3>5
    <3> QED BY <3>4, <3>5, <3>6
  <2> QED BY <2>1, <2>2
<1>2. /\ duty'[w] = j /\ \A v \in DetailWorkers \ {w} : duty'[v] = duty[v]
      /\ j # Unset /\ j.row # Unset
  BY <1>1 DEF DetailInv, DetailWorkTypes, DetailConstants
<1>3. \A v \in DetailWorkers : ~Plans(v, r)
  BY <1>1 DEF Unplanned, DetailConstants
<1>4. PlanFits(w)'
  <2>1. \A v \in DetailWorkers \ {w} : ~Plans(v, r)'
    BY <1>2, <1>3 DEF Plans
  <2> QED BY <1>1, <1>2, <2>1 DEF PlanFits, OnNets
<1>5. ASSUME NEW v \in DetailWorkers \ {w}, duty'[v] # Unset, duty'[v].row # Unset
      PROVE  PlanFits(v)'
  <2>1. duty'[v] = duty[v] /\ duty[v].row.router # r /\ PlanFits(v)
    BY <1>2, <1>3, <1>5 DEF Plans, PlansFit
  <2>2. \A u \in DetailWorkers \ {v} : ~Plans(u, duty[v].row.router)'
    BY <1>1, <1>2, <1>5, <2>1 DEF PlanFits, Plans
  <2> QED BY <1>1, <2>1, <2>2 DEF PlanFits, OnNets
<1>6. \A v \in DetailWorkers \ {w} : PlanFits(v)'
  BY <1>5 DEF PlanFits
<1> QED BY <1>4, <1>6 DEF PlansFit

\* A router loses an interface or its gateway while nobody plans for it.
LEMMA PlansKeptByRemoval ==
  ASSUME DetailConstants, DetailInv, PlansFit, NEW w \in DetailWorkers, NEW r \in DetailRouters,
         (\E n \in DetailNets : RemoveInterface(w, r, n)) \/ ClearOuter(w, r)
  PROVE  PlansFit'
<1>1. /\ duty'[w].row = Unset /\ \A v \in DetailWorkers \ {w} : duty'[v] = duty[v]
      /\ Unplanned(r)
      /\ \A s : s # r => links'[s] = links[s] /\ outerOf'[s] = outerOf[s]
  <2>1. CASE \E n \in DetailNets : RemoveInterface(w, r, n)
    <3>1. PICK n \in DetailNets : RemoveInterface(w, r, n)
      BY <2>1
    <3>2. PICK x, ports, vrfs : Committed(w, x, ports, vrfs)
      BY <3>1 DEF RemoveInterface
    <3>3. links' = [links EXCEPT ![r] = links[r] \ {n}] /\ UNCHANGED outerOf /\ Unplanned(r)
      BY <3>1 DEF RemoveInterface
    <3> QED BY <3>2, <3>3, CommittedFacts
  <2>2. CASE ClearOuter(w, r)
    <3>1. PICK x, ports, vrfs : Committed(w, x, ports, vrfs)
      BY <2>2 DEF ClearOuter
    <3>2. outerOf' = [outerOf EXCEPT ![r] = Unset] /\ UNCHANGED links /\ Unplanned(r)
      BY <2>2 DEF ClearOuter
    <3> QED BY <3>1, <3>2, CommittedFacts
  <2> QED BY <2>1, <2>2
<1>2. \A v \in DetailWorkers : ~Plans(v, r)
  BY <1>1 DEF Unplanned, DetailConstants
<1>3. \A v \in DetailWorkers : duty'[v] # Unset /\ duty'[v].row # Unset => duty'[v] = duty[v] /\ duty[v].row.router # r
  BY <1>1, <1>2 DEF Plans
<1> QED BY <1>1, <1>3, PlansFramed

\* What a worker does after its transaction is about the row it planned.
LEMMA PlansKeptAfterCommit ==
  ASSUME DetailConstants, DetailInv, PlansFit, NEW w \in DetailWorkers, AfterCommit(w)
  PROVE  PlansFit'
<1>1. CASE LookForUnneeded(w) \/ DeleteUnneeded(w)
  <2>1. PICK i \in Duties : i = duty[w] /\ i # Unset
    BY <1>1 DEF LookForUnneeded, DeleteUnneeded, AtJob, DetailInv, DetailWorkTypes, OrUnset
  <2>2. duty'[w].row = i.row /\ duty'[w].ports = i.ports /\ \A v \in DetailWorkers \ {w} : duty'[v] = duty[v]
    BY <1>1, <2>1 DEF LookForUnneeded, DeleteUnneeded, DetailInv, DetailWorkTypes, Duties
  <2>3. UNCHANGED <<links, outerOf>>
    BY <1>1 DEF LookForUnneeded, DeleteUnneeded, topologyRows
  <2> QED BY <2>1, <2>2, <2>3, PlansFramed
<1>2. CASE SendNotifications(w)
  <2>1. PICK i \in Duties : i = duty[w] /\ i # Unset
    BY <1>2 DEF SendNotifications, AtJob, DetailInv, DetailWorkTypes, OrUnset
  <2>2. /\ duty'[w] # Unset => duty'[w].row = i.row /\ duty'[w].ports = i.ports
        /\ \A v \in DetailWorkers \ {w} : duty'[v] = duty[v]
    BY <1>2, <2>1 DEF SendNotifications, DetailInv, DetailWorkTypes, Duties
  <2>3. UNCHANGED <<links, outerOf>>
    BY <1>2 DEF SendNotifications, topologyRows
  <2> QED BY <2>1, <2>2, <2>3, PlansFramed
<1>3. CASE WriteRow(w)
  <2>1. PICK i \in Duties : i = duty[w] /\ i # Unset /\ i.row # Unset
    BY <1>3 DEF WriteRow, AtJob, DetailInv, DetailWorkTypes, OrUnset, DutyFits
  <2>2. duty'[w] = Unset /\ \A v \in DetailWorkers \ {w} : duty'[v] = duty[v]
    BY <1>3 DEF WriteRow, DetailInv, DetailWorkTypes
  <2>3. PICK r \in DetailRouters : r = i.row.router
    BY <2>1 DEF Duties, OrUnset, PlannedRows
  <2>4. \A s \in DetailRouters : s # r => links'[s] = links[s] /\ outerOf'[s] = outerOf[s]
    <3>1. \/ links' = [links EXCEPT ![r] = links[r] \cup {i.row.net}] /\ UNCHANGED outerOf
          \/ outerOf' = [outerOf EXCEPT ![r] = i.row.outer] /\ UNCHANGED links
      BY <1>3, <2>1, <2>3 DEF WriteRow
    <3> QED BY <3>1 DEF DetailInv, DetailRowTypes
  <2>5. \A v \in DetailWorkers \ {w} : ~Plans(v, r)
    BY <2>1, <2>3 DEF PlansFit, PlanFits
  <2>6. \A v \in DetailWorkers : duty'[v] # Unset /\ duty'[v].row # Unset =>
          duty'[v] = duty[v] /\ duty[v].row.router # r /\ duty[v].row.router \in DetailRouters
    BY <2>2, <2>5 DEF Plans, DetailInv, DetailWorkTypes, Duties, OrUnset, PlannedRows
  <2> QED BY <2>4, <2>6, PlansFramed
<1> QED BY <1>1, <1>2, <1>3 DEF AfterCommit

\* The other changes of rows leave routers alone.
LEMMA PlansKeptByOthers ==
  ASSUME DetailInv, PlansFit, NEW w \in DetailWorkers, NEW ports, NEW vrfs,
         Committed(w, Unset, ports, vrfs), UNCHANGED <<links, outerOf>>
  PROVE  PlansFit'
<1>1. duty'[w].row = Unset /\ \A v \in DetailWorkers \ {w} : duty'[v] = duty[v]
  BY CommittedFacts
<1> QED BY <1>1, PlansFramed

LEMMA PlansKept ==
  ASSUME DetailConstants, DetailInv, PlansFit, [DetailNext]_detailVars
  PROVE  PlansFit'
<1>1. ASSUME UNCHANGED <<topologyRows, duty>>
      PROVE  PlansFit'
  BY <1>1, PlansFramed DEF topologyRows
<1>2. CASE UNCHANGED detailVars
  BY <1>1, <1>2 DEF detailVars
<1>3. ASSUME NEW w \in DetailWorkers, NEW r \in DetailRouters,
             \/ \E n \in DetailNets : AddInterface(w, r, n) \/ RemoveInterface(w, r, n)
             \/ ClearOuter(w, r) \/ \E x \in OuterNets : SetOuter(w, r, x)
      PROVE  PlansFit'
  BY <1>3, PlanMade, PlansKeptByRemoval
<1>4. ASSUME NEW w \in DetailWorkers, NEW f \in Fips,
             DisassociateFip(w, f) \/ \E p \in DetailPorts : \E r \in DetailRouters : AssociateFip(w, f, p, r)
      PROVE  PlansFit'
  <2>1. \E ports, vrfs : Committed(w, Unset, ports, vrfs) /\ UNCHANGED <<links, outerOf>>
    BY <1>4 DEF DisassociateFip, AssociateFip
  <2> QED BY <2>1, PlansKeptByOthers
<1>5. ASSUME NEW w \in DetailWorkers,
             \/ \E p \in DetailPorts : \E l \in OrUnset(Labels) : SetLabel(w, p, l)
             \/ \E g \in TargetGroups : \E a \in OrUnset(Profiles) : SetProfile(w, g, a)
      PROVE  PlansFit'
  <2>1. \E ports, vrfs : Committed(w, Unset, ports, vrfs) /\ UNCHANGED <<links, outerOf>>
    BY <1>5 DEF SetLabel, SetProfile, topologyRows
  <2> QED BY <2>1, PlansKeptByOthers
<1>6. ASSUME NEW w \in DetailWorkers, NEW n \in DetailNets, NEW cs \in SUBSET SubnetCidrs, SetSubnets(w, n, cs)
      PROVE  PlansFit'
  <2>1. Committed(w, Unset, {}, {VrfOfNet(n)}) /\ UNCHANGED <<links, outerOf>>
    BY <1>6 DEF SetSubnets, topologyRows
  <2> QED BY <2>1, PlansKeptByOthers
<1>7. ASSUME NEW w \in DetailWorkers, NEW o \in ScopedPools, NEW new, SetPool(w, o, new)
      PROVE  PlansFit'
  <2>1. Committed(w, Unset, {}, ScopeToNotify(pool[o], new)) /\ UNCHANGED <<links, outerOf>>
    BY <1>7 DEF SetPool, topologyRows
  <2> QED BY <2>1, PlansKeptByOthers
<1>8. ASSUME NEW p \in DetailPorts,
             \/ \E h \in PortHosts : \E b \in BOOLEAN : PlugPort(p, h, b)
             \/ \E g \in TargetGroups : CreateTarget(p, g)
             \/ RequestNext(p)
      PROVE  PlansFit'
  <2>1. CASE (\E h \in PortHosts : \E b \in BOOLEAN : PlugPort(p, h, b)) \/ \E g \in TargetGroups : CreateTarget(p, g)
    BY <1>1, <2>1 DEF PlugPort, CreateTarget
  <2>2. CASE RequestNext(p)
    <3>1. CASE Ask(p) \/ QueryDetails(p) \/ FailToAllocate(p) \/ RespondDetails(p) \/ ReceiveDetails(p)
      BY <1>1, <3>1 DEF Ask, QueryDetails, FailToAllocate, RespondDetails, ReceiveDetails
    <3>2. CASE (\E b \in BOOLEAN : BindOnRequest(p, b)) \/ (\E x \in OuterNets : LookForSnat(p, x))
                 \/ \E s \in SnatPorts : CreateSnat(p, s)
      BY <1>1, <3>2 DEF BindOnRequest, LookForSnat, CreateSnat
    <3> QED BY <2>2, <3>1, <3>2 DEF RequestNext
  <2> QED BY <1>8, <2>1, <2>2
<1>9. ASSUME NEW v \in DetailVrfs, GetVrfDetails(v) \/ ReceiveVrf(v)
      PROVE  PlansFit'
  BY <1>1, <1>9 DEF GetVrfDetails, ReceiveVrf
<1>10. CASE DetailNext
  BY <1>3, <1>4, <1>5, <1>6, <1>7, <1>8, <1>9, <1>10, PlansKeptAfterCommit DEF DetailNext
<1> QED BY <1>2, <1>10

\* While workers wait for each other around SNAT ports and the rows of a router, an
\* agent that is asked for nothing more, and did not ask before the row it was told of,
\* has the details of its ports as the rows have them, and SNAT ports of its own host
\* that exist, or none where once none could be had; SNAT ports do not outlive their
\* need; and the subnets of a VRF are known.  (apic_aim/mechanism_driver.py,
\* apic_aim/rpc.py.)
THEOREM AgentsAreToldAlways ==
  ASSUME DetailConstants
  PROVE  DetailSpec => []AgentsAreTold
<1>1. DetailInit => DetailInv /\ PlansFit
  <2>1. DetailInit => PlansFit
    BY DEF DetailInit, PlansFit, PlanFits
  <2> QED BY <2>1, DetailInitEstablishes
<1>2. DetailInv /\ PlansFit /\ [DetailNext]_detailVars => (DetailInv /\ PlansFit)'
  BY DetailInvKept, PlansKept
<1>3. DetailInv => AgentsAreTold
  BY DetailInvSuffices
<1> QED BY <1>1, <1>2, <1>3, PTL DEF DetailSpec
====================
