-------------------------- MODULE DistributedSnat --------------------------
(* Distributed SNAT of the APIC mechanism driver.  A subnet of an external
   network that names a service network is a distributed SNAT subnet: its
   policy objects are programmed in AIM with it, and each host that needs
   SNAT gets a port on the service network and a range of the layer 4
   ports of the router's gateway address.

   A request of an agent is several transactions of a worker; only the
   primary key of the table of ranges, the address and the first port,
   keeps two workers from writing the same range. *)
EXTENDS FiniteSets, Integers

CONSTANTS Subnets,   \* subnets of one external network, with one router
          Hosts, Workers,
          Configs,   \* port configurations: [start, end, size]
          PortIds,   \* addresses of the service network
          Switches,  \* whether updates turn distributed SNAT on and off
          Plain,     \* the state of a subnet without service network
          None

\* Configurations that _validate_dist_snat_port_config accepts, in full.
ValidConfig(c) ==
  /\ c.start \in Nat /\ c.end \in Nat /\ c.size \in Nat
  /\ 1 <= c.start /\ c.start < c.end /\ c.end <= 65535
  /\ 1 <= c.size /\ c.size <= c.end - c.start + 1

ASSUME ConfigAssumption == \A c \in Configs : ValidConfig(c)

ASSUME NoneAssumption == None \notin Configs \cup Subnets \cup {Plain} /\ Plain \notin Configs

VARIABLES
  subnet,    \* per subnet: None, Plain or its port configuration
  gateway,   \* the subnet of the router's gateway address, or None
  contracts, \* AIM: subnets with contract, filters and external group
  graph,     \* AIM: whether the service graph of the network exists
  bdRouted,  \* AIM: whether the service bridge domain is in the L3Out's VRF
  route,     \* AIM: the subnet whose external network has the gateway's /32
  ports,     \* service ports: [id, host]
  ranges,    \* DistSnatMapping rows: [subnet, start, end, host, port]
  worker     \* the request of each worker, or None

policyVars == <<contracts, graph, bdRouted, route>>
tableVars == <<ports, ranges>>
vars == <<subnet, gateway, policyVars, tableVars, worker>>

Idle == [pc |-> "idle", host |-> None, subnet |-> None, config |-> None,
         port |-> None, created |-> FALSE, tries |-> 0, range |-> 0,
         freed |-> FALSE]

Numbers == UNION {c.start .. c.end : c \in Configs}
Rows == [subnet : Subnets, start : Numbers, end : Numbers,
         host : Hosts, port : PortIds]

TypeOK ==
  /\ subnet \in [Subnets -> Configs \cup {None, Plain}]
  /\ gateway \in Subnets \cup {None}
  /\ contracts \subseteq Subnets /\ graph \in BOOLEAN /\ bdRouted \in BOOLEAN
  /\ route \in Subnets \cup {None}
  /\ ports \subseteq [id : PortIds, host : Hosts]
  /\ ranges \subseteq Rows
  /\ worker \in [Workers ->
       [pc : {"idle", "find", "create", "read", "insert", "fail"},
        host : Hosts \cup {None}, subnet : Subnets \cup {None},
        config : Configs \cup {None}, port : PortIds \cup {None},
        created : BOOLEAN, tries : Nat, range : Numbers \cup {0},
        freed : BOOLEAN]]

Init ==
  /\ subnet = [s \in Subnets |-> None]
  /\ gateway = None
  /\ contracts = {} /\ graph = FALSE /\ bdRouted = FALSE
  /\ route = None
  /\ ports = {} /\ ranges = {}
  /\ worker = [w \in Workers |-> Idle]

Distributed(s) == subnet[s] \notin {None, Plain}

--------------------
(* Subnets and their policy. *)

CreateContract(s) == contracts' = contracts \cup {s}
CreateServiceGraph == graph' = TRUE
Reparent(routed) == bdRouted' = routed

\* The contract, the filters and the external group of the subnet, and the
\* service graph of its network.
DeletePolicy(s) == contracts' = contracts \ {s} /\ graph' = FALSE

\* Create a subnet; with a service network, also its contract, filters and
\* external group, the network's service graph, and the routed bridge domain.
CreateSubnet(s, c) ==
  /\ subnet[s] = None
  /\ subnet' = [subnet EXCEPT ![s] = c]
  /\ IF c = Plain THEN UNCHANGED policyVars
     ELSE /\ CreateContract(s) /\ CreateServiceGraph /\ Reparent(TRUE)
          /\ UNCHANGED route
  /\ UNCHANGED <<gateway, tableVars, worker>>

\* The policy is not touched.  A subnet with the gateway port on it cannot
\* stop being a distributed one.
UpdateSubnet(s, c) ==
  /\ subnet[s] \notin {None, c}
  /\ ~Switches => Distributed(s) /\ c # Plain
  /\ c = Plain => gateway # s
  /\ subnet' = [subnet EXCEPT ![s] = c]
  /\ UNCHANGED <<gateway, policyVars, tableVars, worker>>

ServiceReferences == {t \in Subnets : Distributed(t)}

\* Mutant: the references are counted as if the subnet were gone already.
DeleteSubnetCountingOthers(s) ==
  /\ subnet[s] # None /\ gateway # s
  /\ \A r \in ranges : r.subnet # s
  /\ subnet' = [subnet EXCEPT ![s] = None]
  /\ IF ~Distributed(s) THEN UNCHANGED policyVars
     ELSE /\ DeletePolicy(s)
          /\ IF ServiceReferences = {} THEN Reparent(FALSE) ELSE UNCHANGED bdRouted
          /\ UNCHANGED route
  /\ UNCHANGED <<gateway, tableVars, worker>>

\* Rows of ranges refer to the subnet, and so do the addresses of ports.
DeleteSubnet(s) ==
  /\ subnet[s] # None /\ gateway # s
  /\ \A r \in ranges : r.subnet # s
  /\ subnet' = [subnet EXCEPT ![s] = None]
  /\ IF ~Distributed(s) THEN UNCHANGED policyVars
     ELSE /\ DeletePolicy(s)
          /\ IF ServiceReferences = {s} THEN Reparent(FALSE) ELSE UNCHANGED bdRouted
          /\ UNCHANGED route
  /\ UNCHANGED <<gateway, tableVars, worker>>

\* The gateway's address is routed to the fabric for a distributed subnet.
RouteGateway(s) == route' = IF Distributed(s) THEN s ELSE route

SetGateway(s) ==
  /\ gateway = None /\ subnet[s] # None
  /\ gateway' = s
  /\ RouteGateway(s)
  /\ UNCHANGED <<subnet, contracts, graph, bdRouted, tableVars, worker>>

ClearGateway ==
  /\ gateway # None
  /\ gateway' = None
  /\ route' = IF Distributed(gateway) THEN None ELSE route
  /\ UNCHANGED <<subnet, contracts, graph, bdRouted, tableVars, worker>>

--------------------
(* A request for the range of a host. *)

Step(w, fields) == worker' = [worker EXCEPT ![w] = fields]

\* Mutant: one attempt less than there are ranges.
RangeCountLessOne(c) == (c.end - c.start + 1) \div c.size - 1

RangeCount(c) == (c.end - c.start + 1) \div c.size

\* The gateway's subnet and its configuration are read once.
Request(w, h) ==
  /\ worker[w].pc = "idle"
  /\ gateway # None /\ Distributed(gateway)
  /\ Step(w, [Idle EXCEPT !.pc = "find", !.host = h, !.subnet = gateway,
                          !.config = subnet[gateway],
                          !.tries = RangeCount(subnet[gateway])])
  /\ UNCHANGED <<subnet, gateway, policyVars, tableVars>>

FindPort(w) ==
  /\ worker[w].pc = "find"
  /\ LET mine == {p \in ports : p.host = worker[w].host}
     IN \/ \E p \in mine : Step(w, [worker[w] EXCEPT !.pc = "read", !.port = p.id])
        \/ mine = {} /\ Step(w, [worker[w] EXCEPT !.pc = "create"])
  /\ UNCHANGED <<subnet, gateway, policyVars, tableVars>>

\* Without a free address the agent gets no answer.
CreatePort(w) ==
  /\ worker[w].pc = "create"
  /\ LET free == PortIds \ {p.id : p \in ports}
     IN \/ \E i \in free :
             /\ ports' = ports \cup {[id |-> i, host |-> worker[w].host]}
             /\ Step(w, [worker[w] EXCEPT !.pc = "read", !.port = i, !.created = TRUE])
        \/ free = {} /\ Step(w, Idle) /\ UNCHANGED ports
  /\ UNCHANGED <<subnet, gateway, policyVars, ranges>>

Starts(c) == {n \in c.start .. c.end :
                (n - c.start) % c.size = 0 /\ n + c.size - 1 <= c.end}

Overlaps(c, n, rows) == \E r \in rows : n <= r.end /\ n + c.size - 1 >= r.start

\* The first range of the configuration that overlaps none in use, or 0.
FreeRange(c, rows) ==
  LET free == {n \in Starts(c) : ~Overlaps(c, n, rows)}
  IN IF free = {} THEN 0 ELSE CHOOSE n \in free : \A m \in free : n <= m

\* The range of this host and port, or a candidate, as the transaction reads
\* the table.
ReadRanges(w) ==
  /\ worker[w].pc = "read"
  /\ LET me == worker[w]
         used == {r \in ranges : r.subnet = me.subnet}
         free == FreeRange(me.config, used)
     IN Step(w, IF \E r \in used : r.host = me.host /\ r.port = me.port THEN Idle
                ELSE IF free = 0 THEN [me EXCEPT !.pc = "fail"]
                ELSE [me EXCEPT !.pc = "insert", !.range = free])
  /\ UNCHANGED <<subnet, gateway, policyVars, tableVars>>

\* Mutant: the write does not look at the primary key.
InsertAnyRange(w) ==
  /\ worker[w].pc = "insert"
  /\ LET me == worker[w]
     IN ranges' = ranges \cup
          {[subnet |-> me.subnet, start |-> me.range, host |-> me.host,
            end |-> me.range + me.config.size - 1, port |-> me.port]}
  /\ Step(w, Idle)
  /\ UNCHANGED <<subnet, gateway, policyVars, ports>>

\* Mutant: the worker tries again however often it collided.
InsertRangeForEver(w) ==
  /\ worker[w].pc = "insert"
  /\ LET me == worker[w]
         row == [subnet |-> me.subnet, start |-> me.range, host |-> me.host,
                 end |-> me.range + me.config.size - 1, port |-> me.port]
     IN IF \E r \in ranges : r.subnet = me.subnet /\ r.start = me.range
        THEN /\ Step(w, [me EXCEPT !.tries = @ - 1, !.pc = "read"])
             /\ UNCHANGED ranges
        ELSE ranges' = ranges \cup {row} /\ Step(w, Idle)
  /\ UNCHANGED <<subnet, gateway, policyVars, ports>>

\* The row is written unless another has its primary key; then the worker
\* tries again, as often as there are ranges.  For a subnet that is gone the
\* foreign key refuses the row, and the request ends with the error.
InsertRange(w) ==
  /\ worker[w].pc = "insert"
  /\ LET me == worker[w]
         row == [subnet |-> me.subnet, start |-> me.range, host |-> me.host,
                 end |-> me.range + me.config.size - 1, port |-> me.port]
     IN IF \E r \in ranges : r.subnet = me.subnet /\ r.start = me.range
        THEN /\ Step(w, [me EXCEPT !.tries = @ - 1,
                                   !.pc = IF me.tries <= 1 THEN "fail" ELSE "read"])
             /\ UNCHANGED ranges
        ELSE /\ ranges' = IF subnet[me.subnet] = None THEN ranges
                          ELSE ranges \cup {row}
             /\ Step(w, Idle)
  /\ UNCHANGED <<subnet, gateway, policyVars, ports>>

\* Deleting a service port frees the ranges that refer to it.
DropPort(i, next) ==
  LET gone == {r \in ranges : r.port = i}
  IN /\ ports' = {p \in ports : p.id # i}
     /\ ranges' = ranges \ gone
     /\ worker' = [w \in Workers |->
          IF gone # {} /\ next[w].pc # "idle"
          THEN [next[w] EXCEPT !.freed = TRUE] ELSE next[w]]

\* No range: the port goes again, if this request created it.
GiveUp(w) ==
  /\ worker[w].pc = "fail"
  /\ IF worker[w].created
     THEN DropPort(worker[w].port, [worker EXCEPT ![w] = Idle])
     ELSE Step(w, Idle) /\ UNCHANGED tableVars
  /\ UNCHANGED <<subnet, gateway, policyVars>>

\* An operator deletes a service port.
DeletePort(p) ==
  /\ p \in ports
  /\ DropPort(p.id, worker)
  /\ UNCHANGED <<subnet, gateway, policyVars>>

SubnetStep ==
  \/ \E s \in Subnets, c \in Configs \cup {Plain} : CreateSubnet(s, c)
  \/ \E s \in Subnets, c \in Configs \cup {Plain} : UpdateSubnet(s, c)
  \/ \E s \in Subnets : DeleteSubnet(s) \/ SetGateway(s)
  \/ ClearGateway

RequestStep ==
  \E w \in Workers :
    \/ \E h \in Hosts : Request(w, h)
    \/ FindPort(w) \/ CreatePort(w) \/ ReadRanges(w) \/ InsertRange(w) \/ GiveUp(w)

Next == SubnetStep \/ RequestStep \/ (\E p \in ports : DeletePort(p))

Spec == Init /\ [][Next]_vars

--------------------
(* Properties. *)

\* No port of a SNAT address is in the ranges of two hosts, although workers
\* choose ranges from tables they read before others wrote, and although the
\* range of ports of the subnet is extended or cut meanwhile.
RangesDisjoint ==
  \A q, r \in ranges :
    q.subnet = r.subnet /\ q # r => q.end < r.start \/ r.end < q.start

\* A worker gives up only if every range it may use is taken, or one was freed
\* during its request: losing to other workers is never taken for exhaustion.
NoFalseExhaustion ==
  \A w \in Workers :
    worker[w].pc = "fail" /\ ~worker[w].freed =>
      FreeRange(worker[w].config, {r \in ranges : r.subnet = worker[w].subnet}) = 0

\* The service bridge domain is in the VRF of the L3Out exactly while one of
\* the subnets uses the service network, these have their contract, and the
\* address of a gateway on one of them is routed, as long as no update of a
\* subnet turns distributed SNAT on or off (Switches).
PolicyFollowsSubnets ==
  /\ bdRouted = (\E s \in Subnets : Distributed(s))
  /\ contracts = {s \in Subnets : Distributed(s)}
  /\ route = IF gateway # None /\ Distributed(gateway) THEN gateway ELSE None

\* The service graph that the contract of a subnet names exists
\* (_create_snat_contract: in_service_graph_name, out_service_graph_name).
ContractHasGraph == contracts # {} => graph
====================
