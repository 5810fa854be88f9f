-------------------------- MODULE NetworkServices --------------------------
(* Network service policies of the resource mapping driver: floating IPs
   for a group or for each of its targets, an address reserved in the
   subnet of a group, a QoS policy for the ports; and NAT pools, where
   floating IPs come from.  One L3 policy, with at most one external
   segment, and one subnet that all groups use; requests are served one at
   a time.  Neutron (external) refuses a floating IP without a free
   address, the deletion of a subnet in use and an allocation pool that
   ends before it starts. *)
EXTENDS Integers, FiniteSets

CONSTANTS
  ServicePolicies, ServedGroups, ServedTargets, ServedGroup, \* target |-> group
  NatPools, PoolBlock,         \* NAT pool |-> its ip_pool
  NatSegments, SegmentBlock,   \* external segment |-> block of its subnet
  OverlappingBlocks,           \* pairs of different blocks that overlap
  PoolSize,                    \* floating addresses of a block
  Size,                        \* the groups' subnet has the addresses 1 .. Size
  NoOne, NoRow,
  MovesUnused                  \* do clients move only NAT pools no group uses?

VARIABLES
  params,      \* parameters of each network service policy, or NoOne
  qosPolicies, \* service policies that have a Neutron QoS policy
  policyOf,    \* policy of each group, NoOne without one, NoRow without a group
  targetRows,  \* policy targets
  attached,    \* external segment of the L3 policy
  natPool,     \* rows: segment, subnet (its block or NoOne), whether owned
  extBlocks,   \* pairs of a segment and the block of a subnet of its network
  fips,        \* floating IP mapped to a group or target: its block, or NoOne
  reserved,    \* address reserved for a group
  ranges,      \* allocation pools of the groups' subnet
  qosOf,       \* service policy whose QoS policy the port of a target has
  refused      \* groups and targets whose last request Neutron refused

natPoolVars == <<natPool, extBlocks>>
policyVars == <<params, qosPolicies>>
servedVars == <<policyOf, targetRows, fips, reserved, ranges, qosOf, refused>>
serviceVars == <<natPoolVars, policyVars, attached, servedVars>>

\* "self": ip_single self_subnet, "single": ip_single nat_pool, "pool": ip_pool
\* nat_pool, "qos": qos_maxrate or qos_burstrate.  A type is given once.
Params == {"self", "single", "pool", "qos"}
UsesNat(ps) == {"single", "pool"} \cap ps # {}

LiveGroups == {g \in ServedGroups : policyOf[g] # NoRow}
ParamsOf(v) == IF v = NoOne THEN {} ELSE params[v]
AskedBy(g) == IF g \in LiveGroups THEN ParamsOf(policyOf[g]) ELSE {}
TargetsOf(g) == {t \in targetRows : ServedGroup[t] = g}
Owners(g) == {g} \cup TargetsOf(g)
PoolsOf(e) == {n \in NatPools : natPool[n] # NoOne /\ natPool[n].segment = e}
BlocksOf(e) == {natPool[n].subnet : n \in PoolsOf(e)} \ {NoOne}

--------------------
\* _allocate_floating_ips: whoever asks gets an address of a NAT pool of the
\* segment, unless all are used.
UsedOf(f, b) == Cardinality({o \in DOMAIN f : f[o] = b})

Allocated(f, asking) ==
  {h \in {[o \in DOMAIN f |-> IF o \in asking THEN got[o] ELSE f[o]] :
             got \in [asking -> BlocksOf(attached) \cup {NoOne}]} :
     \A b \in BlocksOf(attached) :
        /\ (\E o \in asking : h[o] = b) => UsedOf(h, b) <= PoolSize
        /\ (\E o \in asking : h[o] = NoOne) => UsedOf(h, b) >= PoolSize}

\* _restore_ip_to_allocation_pool: pools are extended, but never merged.
Restored(rs, a) ==
  IF \E r \in rs : r[2] = a - 1
  THEN {IF r[2] = a - 1 THEN <<r[1], a>> ELSE r : r \in rs}
  ELSE rs \cup {<<a, a>>}

\* Mutant: the targets keep theirs.
GroupFip(g) == [fips EXCEPT ![g] = NoOne]

\* _cleanup_network_service_policy
CleanFips(g) == [o \in DOMAIN fips |-> IF o \in Owners(g) THEN NoOne ELSE fips[o]]
CleanRanges(g) == IF reserved[g] = NoOne THEN ranges ELSE Restored(ranges, reserved[g])
CleanQos(g) == [t \in ServedTargets |-> IF t \in TargetsOf(g) THEN NoOne ELSE qosOf[t]]

\* _validate_nat_pool_for_nsp
NatIsProvided(v) == UsesNat(ParamsOf(v)) => attached # NoOne /\ PoolsOf(attached) # {}

\* _handle_network_service_policy, from floating IPs f, pools rs and ports q.  The
\* last address of any pool is reserved, in use or not; if it is the only one,
\* Neutron refuses and nothing of what follows is done.
Handle(g, v, f, rs, q) ==
  LET ps == ParamsOf(v)
      asking == (IF "single" \in ps THEN {g} ELSE {})
                \cup (IF "pool" \in ps THEN TargetsOf(g) ELSE {})
      reserves == "self" \in ps
  IN \E r \in IF reserves THEN rs ELSE {<<0, 1>>} :
       LET fails == r[1] = r[2]
       IN /\ fips' \in IF fails THEN {f} ELSE Allocated(f, asking)
          /\ ranges' = IF reserves /\ ~fails THEN (rs \ {r}) \cup {<<r[1], r[2] - 1>>} ELSE rs
          /\ reserved' = [reserved EXCEPT ![g] = IF reserves /\ ~fails THEN r[2] ELSE NoOne]
          /\ qosOf' = [t \in ServedTargets |->
                         IF "qos" \in ps /\ ~fails /\ t \in TargetsOf(g) THEN v ELSE q[t]]
          /\ refused' = (refused \ Owners(g))
                        \cup (IF fails THEN Owners(g) ELSE {o \in asking : fips'[o] = NoOne})

--------------------
\* Service policies.

\* _set_params_for_network_service_policy
SetParams(v, ps) == params' = [params EXCEPT ![v] = ps]

CreateServicePolicy(v, ps) ==
  /\ params[v] = NoOne /\ ~({"self", "single"} \subseteq ps)
  /\ SetParams(v, ps)
  /\ qosPolicies' = IF "qos" \in ps THEN qosPolicies \cup {v} ELSE qosPolicies
  /\ UNCHANGED <<natPoolVars, attached, servedVars>>

DeleteServicePolicy(v) ==
  /\ params[v] # NoOne /\ \A g \in ServedGroups : policyOf[g] # v
  /\ SetParams(v, NoOne)
  /\ qosPolicies' = qosPolicies \ {v}
  /\ UNCHANGED <<natPoolVars, attached, servedVars>>

Known(v) == v \in {NoOne} \cup {p \in ServicePolicies : params[p] # NoOne}

\* A creation that fails is undone.
CreateServedGroup(g, v) ==
  /\ g \notin LiveGroups /\ Known(v) /\ NatIsProvided(v)
  /\ policyOf' = [policyOf EXCEPT ![g] = v]
  /\ Handle(g, v, fips, ranges, qosOf)
  /\ "self" \in ParamsOf(v) => reserved'[g] # NoOne
  /\ UNCHANGED <<natPoolVars, policyVars, attached, targetRows>>

SetServicePolicy(g, v) ==
  /\ g \in LiveGroups /\ Known(v) /\ v # policyOf[g] /\ NatIsProvided(v)
  /\ policyOf' = [policyOf EXCEPT ![g] = v]
  /\ IF policyOf[g] = NoOne THEN Handle(g, v, fips, ranges, qosOf)
     ELSE Handle(g, v, CleanFips(g), CleanRanges(g), CleanQos(g))
  /\ UNCHANGED <<natPoolVars, policyVars, attached, targetRows>>

\* Its targets have been deleted before.
DeleteServedGroup(g) ==
  /\ g \in LiveGroups /\ TargetsOf(g) = {}
  /\ policyOf' = [policyOf EXCEPT ![g] = NoRow]
  /\ fips' = CleanFips(g)
  /\ ranges' = CleanRanges(g)
  /\ reserved' = [reserved EXCEPT ![g] = NoOne]
  /\ refused' = refused \ {g}
  /\ UNCHANGED <<natPoolVars, policyVars, attached, targetRows, qosOf>>

WithQos(t, v) == [qosOf EXCEPT ![t] = IF "qos" \in ParamsOf(v) THEN v ELSE NoOne]

CreateServedTarget(t) ==
  /\ t \notin targetRows /\ ServedGroup[t] \in LiveGroups
  /\ targetRows' = targetRows \cup {t}
  /\ LET v == policyOf[ServedGroup[t]]
         asking == IF "pool" \in ParamsOf(v) THEN {t} ELSE {}
     IN /\ fips' \in Allocated(fips, asking)
        /\ refused' = (refused \ {t}) \cup {o \in asking : fips'[o] = NoOne}
        /\ qosOf' = WithQos(t, v)
  /\ UNCHANGED <<natPoolVars, policyVars, attached, policyOf, reserved, ranges>>

DeleteServedTarget(t) ==
  /\ t \in targetRows
  /\ targetRows' = targetRows \ {t}
  /\ fips' = [fips EXCEPT ![t] = NoOne]
  /\ qosOf' = [qosOf EXCEPT ![t] = NoOne]
  /\ refused' = refused \ {t}
  /\ UNCHANGED <<natPoolVars, policyVars, attached, policyOf, reserved, ranges>>

--------------------
\* NAT pools and the segment of the L3 policy.

NatIsUsed == \E g \in LiveGroups : UsesNat(AskedBy(g))

\* _validate_in_use_by_nsp
AttachSegment(e) ==
  /\ e # attached /\ (attached # NoOne => ~NatIsUsed)
  /\ attached' = e
  /\ UNCHANGED <<natPoolVars, policyVars, servedVars>>

Clash(b, c) == b = c \/ {b, c} \in OverlappingBlocks

\* _add_nat_pool_to_segment among the subnets of the network: the pools of the
\* segment do not overlap, and a subnet is used if it is the very block.
Fits(n, e, blocks) ==
  /\ \A m \in PoolsOf(e) \ {n} : ~Clash(PoolBlock[m], PoolBlock[n])
  /\ \A x \in blocks : x[1] = e => x[2] = PoolBlock[n] \/ ~Clash(x[2], PoolBlock[n])

\* The subnet is found, or made afterwards and then owned.
Joined(n, e, blocks) ==
  [segment |-> e, subnet |-> PoolBlock[n], owned |-> <<e, PoolBlock[n]>> \notin blocks]

CreateNatPool(n, e) ==
  /\ natPool[n] = NoOne /\ Fits(n, e, extBlocks)
  /\ natPool' = [natPool EXCEPT ![n] = Joined(n, e, extBlocks)]
  /\ extBlocks' = extBlocks \cup {<<e, PoolBlock[n]>>}
  /\ UNCHANGED <<policyVars, attached, servedVars>>

OwnSubnet(n) == IF natPool[n].owned THEN {<<natPool[n].segment, natPool[n].subnet>>} ELSE {}
HasPorts(n) == \E o \in DOMAIN fips : fips[o] = natPool[n].subnet

\* _get_nsps_using_nat_pool is asked of the segment the pool moves to.  If the
\* old subnet cannot be deleted, no new one is made.
MoveNatPool(n, e) ==
  /\ natPool[n] # NoOne /\ e # natPool[n].segment
  /\ e = attached => ~NatIsUsed
  /\ MovesUnused => ~(natPool[n].segment = attached /\ NatIsUsed)
  /\ Fits(n, e, extBlocks)
  /\ LET new == Joined(n, e, extBlocks)
     IN IF natPool[n].owned /\ HasPorts(n)
        THEN /\ natPool' = [natPool EXCEPT ![n] =
                              IF new.owned THEN [new EXCEPT !.subnet = NoOne, !.owned = FALSE] ELSE new]
             /\ UNCHANGED extBlocks
        ELSE /\ natPool' = [natPool EXCEPT ![n] = new]
             /\ extBlocks' = (extBlocks \ OwnSubnet(n)) \cup {<<e, PoolBlock[n]>>}
  /\ UNCHANGED <<policyVars, attached, servedVars>>

DeleteNatPool(n) ==
  /\ natPool[n] # NoOne /\ (natPool[n].segment = attached => ~NatIsUsed)
  /\ natPool[n].owned => ~HasPorts(n)
  /\ natPool' = [natPool EXCEPT ![n] = NoOne]
  /\ extBlocks' = extBlocks \ OwnSubnet(n)
  /\ UNCHANGED <<policyVars, attached, servedVars>>

--------------------
ServiceInit ==
  /\ params = [v \in ServicePolicies |-> NoOne] /\ qosPolicies = {}
  /\ policyOf = [g \in ServedGroups |-> NoRow] /\ targetRows = {}
  /\ attached = NoOne
  /\ natPool = [n \in NatPools |-> NoOne]
  /\ extBlocks = {<<e, SegmentBlock[e]>> : e \in NatSegments}
  /\ fips = [o \in ServedGroups \cup ServedTargets |-> NoOne]
  /\ reserved = [g \in ServedGroups |-> NoOne]
  /\ ranges = {<<1, Size>>}
  /\ qosOf = [t \in ServedTargets |-> NoOne]
  /\ refused = {}

ServiceTypeOK ==
  /\ qosPolicies \subseteq {v \in ServicePolicies : params[v] # NoOne}
  /\ targetRows \subseteq {t \in ServedTargets : ServedGroup[t] \in LiveGroups}
  /\ attached \in NatSegments \cup {NoOne}
  /\ refused \subseteq LiveGroups \cup targetRows
  /\ \A r \in ranges : 1 <= r[1] /\ r[1] <= r[2] /\ r[2] <= Size

\* A group or target has a floating IP exactly if the service policy of the group
\* asks for one, except where Neutron had none; it is of a NAT pool of the
\* segment.  _handle_nsp_update_on_ptg, _associate_fip_to_pt and the deletions
\* keep it so, and NAT pools stay while they are used.
FipsFollowPolicies ==
  LET entitled == {o \in ServedGroups : "single" \in AskedBy(o)}
                  \cup {t \in targetRows : "pool" \in AskedBy(ServedGroup[t])}
  IN /\ \A o \in DOMAIN fips : fips[o] # NoOne => o \in entitled /\ fips[o] \in BlocksOf(attached)
     /\ \A o \in entitled \ refused : fips[o] # NoOne
     /\ entitled # {} => attached # NoOne /\ PoolsOf(attached) # {}

\* No address of the groups' subnet is lost or given out twice: each is in one
\* allocation pool or reserved for one group, over all policy changes.
ReservedIsApart ==
  LET held(a) == Cardinality({g \in ServedGroups : reserved[g] = a})
                 + Cardinality({r \in ranges : r[1] <= a /\ a <= r[2]})
  IN /\ \A a \in 1 .. Size : held(a) = 1
     /\ \A g \in LiveGroups : "self" \in AskedBy(g) /\ g \notin refused <=> reserved[g] # NoOne

\* Each NAT pool has a subnet of its segment's network, no other pool uses it, and
\* no subnet made for a pool outlives it: _add_implicit_subnet_for_nat_pool_update.
PoolsHaveSubnets ==
  /\ \A n \in NatPools : natPool[n] # NoOne =>
       /\ natPool[n].subnet = PoolBlock[n] /\ <<natPool[n].segment, PoolBlock[n]>> \in extBlocks
       /\ \A m \in PoolsOf(natPool[n].segment) \ {n} : ~Clash(PoolBlock[m], PoolBlock[n])
  /\ \A x \in extBlocks : x[2] = SegmentBlock[x[1]]
                          \/ \E n \in PoolsOf(x[1]) : natPool[n].owned /\ natPool[n].subnet = x[2]

\* The port of a target has the QoS policy of the group's service policy, which
\* exists in Neutron; so after changes of either and after failures.
QosFollowsPolicies ==
  \A t \in targetRows :
     LET v == policyOf[ServedGroup[t]]
     IN IF "qos" \in ParamsOf(v) THEN t \notin refused => qosOf[t] = v /\ v \in qosPolicies
        ELSE qosOf[t] = NoOne
====================
