---------------------------- MODULE AddressPools ----------------------------
(* The addresses of L3 policies: the address scope and the subnetpools the
   mapping drivers give a policy and the subnets of groups allocated from
   them; the older allocation of group subnets from the policy's ip_pool,
   which two workers run at the same time; and what the plugin demands of
   an L3 policy and its external segments.  One address family.  Neutron
   (external) keeps the subnets of a network and the prefixes of a scope
   apart. *)
EXTENDS Naturals, FiniteSets

CONSTANTS
  L3Rows,        \* L3 policies
  Scopes,        \* address scopes
  ScopeMade,     \* the scope made for an L3 policy without one
  SubnetPools, PoolMade, DefaultPool,
  PoolGroups, GroupL3, GroupNet,   \* groups, their L3 policy and network
  PoolBlocks,    \* blocks of the ip_pool of every L3 policy
  PoolWorkers,
  Segments, SegmentCidr, SegmentTenant, Destinations, AddressIn, L3Blocks, L3Tenant,
  Nothing

VARIABLES
  scopes,      \* the address scopes there are
  poolScope,   \* scope of each subnetpool; Nothing without the pool
  l3Row,       \* rows: scope and subnetpools
  groupPool,   \* subnetpool of the subnet of each group
  directUse,   \* subnetpools users have taken subnets from themselves
  kept,        \* owned resources that could not be deleted, with a warning
  groupBlock,  \* block of the subnet of each group
  netBlocks,   \* pairs of a network and the block of one of its subnets
  allocating,  \* for each worker: group, blocks not yet tried, subnet made, and
               \* whether its block was found free
  overtaken,   \* groups whose block another group of the L3 policy was given
               \* after it had been found free for them
  l3Segments,  \* addresses an L3 policy has on its external segments
  routes       \* external routes of each segment: destinations

poolVars == <<scopes, poolScope, l3Row, groupPool, directUse, kept>>
blockVars == <<groupBlock, netBlocks, allocating, overtaken>>
segmentVars == <<l3Segments, routes>>
addressVars == <<poolVars, blockVars, segmentVars>>

Exists(f) == {x \in DOMAIN f : f[x] # Nothing}
ScopesTaken(l) == {l3Row[k].scope : k \in Exists(l3Row) \ {l}}
GroupsOf(l) == {g \in Exists(groupPool) : GroupL3[g] = l}

--------------------
\* Address scopes and subnetpools.

\* _check_subnetpools_for_same_scope
SameScope(pools, s) == \A p \in pools : poolScope[p] = s

\* _configure_l3p_for_multiple_subnetpools: the default subnetpool, if there is one
DefaultPools == {DefaultPool} \ {Nothing}

\* A scope belongs to one L3 policy; what cannot be done is undone.  (Identifiers of
\* what is made are new.)
CreateL3(l, scope, pools, prefixes) ==
  /\ l3Row[l] = Nothing /\ poolScope[PoolMade[l]] = Nothing /\ ScopeMade[l] \notin scopes
  /\ scope \in scopes \cup {Nothing} /\ pools \subseteq Exists(poolScope)
  /\ LET makes == pools = {} /\ prefixes
         default == IF pools = {} /\ ~prefixes THEN DefaultPools ELSE {}
     IN \E s \in IF scope # Nothing THEN {scope}
                 ELSE IF pools # {} THEN {poolScope[p] : p \in pools}
                 ELSE IF prefixes THEN {ScopeMade[l]}
                 ELSE {poolScope[p] : p \in default} :
          /\ s \notin ScopesTaken(l) /\ SameScope(pools \cup default, s)
          /\ scopes' = scopes \cup {s}
          /\ poolScope' = IF makes THEN [poolScope EXCEPT ![PoolMade[l]] = s] ELSE poolScope
          /\ l3Row' = [l3Row EXCEPT ![l] =
                         [scope |-> s,
                          pools |-> IF makes THEN {PoolMade[l]} ELSE pools \cup default]]
  /\ UNCHANGED <<groupPool, directUse, kept, blockVars, segmentVars>>

\* _cleanup_subnetpool of pools no policy uses any more
Owned(p) == \E l \in L3Rows : PoolMade[l] = p
InUse(p) == p \in directUse \/ \E g \in PoolGroups : groupPool[g] = p
Deleted(pools) == {p \in pools : Owned(p) /\ ~InUse(p)}
Without(pools) == [p \in SubnetPools |-> IF p \in pools THEN Nothing ELSE poolScope[p]]

\* Mutant: pools that groups have subnets of can be removed.
RemovePools(l, pools) ==
  /\ l3Row[l] # Nothing /\ pools # {} /\ pools # l3Row[l].pools
  /\ pools \subseteq Exists(poolScope) /\ SameScope(pools, l3Row[l].scope)
  /\ l3Row' = [l3Row EXCEPT ![l].pools = pools]
  /\ UNCHANGED <<scopes, poolScope, kept, groupPool, directUse, blockVars, segmentVars>>

UpdateL3Pools(l, pools) ==
  /\ l3Row[l] # Nothing /\ pools # {} /\ pools # l3Row[l].pools
  /\ pools \subseteq Exists(poolScope) /\ SameScope(pools, l3Row[l].scope)
  /\ LET removed == l3Row[l].pools \ pools
     IN /\ \A g \in GroupsOf(l) : groupPool[g] \notin removed
        /\ poolScope' = Without(Deleted(removed))
        /\ kept' = kept \cup {p \in removed \ Deleted(removed) : Owned(p)}
  /\ l3Row' = [l3Row EXCEPT ![l].pools = pools]
  /\ UNCHANGED <<scopes, groupPool, directUse, blockVars, segmentVars>>

DeleteL3(l) ==
  /\ l3Row[l] # Nothing /\ GroupsOf(l) = {}
  /\ l3Row' = [l3Row EXCEPT ![l] = Nothing]
  /\ LET gone == Deleted(l3Row[l].pools)
         s == l3Row[l].scope
         owned == \E k \in L3Rows : ScopeMade[k] = s
         used == \E p \in SubnetPools \ gone : poolScope[p] = s
     IN /\ poolScope' = Without(gone)
        /\ scopes' = IF owned /\ ~used THEN scopes \ {s} ELSE scopes
        /\ kept' = kept \cup {p \in l3Row[l].pools \ gone : Owned(p)}
                        \cup (IF owned /\ used THEN {s} ELSE {})
  /\ UNCHANGED <<groupPool, directUse, blockVars, segmentVars>>

\* The subnet of a group comes from any pool of the policy that has room.
AllocateFromPool(g) ==
  /\ groupPool[g] = Nothing /\ l3Row[GroupL3[g]] # Nothing
  /\ \E p \in l3Row[GroupL3[g]].pools : groupPool' = [groupPool EXCEPT ![g] = p]
  /\ UNCHANGED <<scopes, poolScope, l3Row, directUse, kept, blockVars, segmentVars>>

ReleaseToPool(g) ==
  /\ groupPool[g] # Nothing
  /\ groupPool' = [groupPool EXCEPT ![g] = Nothing]
  /\ UNCHANGED <<scopes, poolScope, l3Row, directUse, kept, blockVars, segmentVars>>

\* Users make pools in any scope, and subnets of any pool.
CreateUserPool(p, s) ==
  /\ ~Owned(p) /\ poolScope[p] = Nothing /\ s \in scopes
  /\ poolScope' = [poolScope EXCEPT ![p] = s]
  /\ UNCHANGED <<scopes, l3Row, groupPool, directUse, kept, blockVars, segmentVars>>

UseDirectly(p) ==
  /\ poolScope[p] # Nothing
  /\ directUse' = (directUse \ {p}) \cup ({p} \ directUse)
  /\ UNCHANGED <<scopes, poolScope, l3Row, groupPool, kept, blockVars, segmentVars>>

--------------------
\* _use_normal_implicit_subnet: blocks not allocated are read once and tried in
\* turn; a subnet is made first, its block is looked up in one transaction
\* (of the session) and the subnet added in another (of the request).

NotAllocating(w) == allocating[w] = Nothing
AllocatedBlocks(l) == {groupBlock[g] : g \in {h \in Exists(groupBlock) : GroupL3[h] = l}}

\* _generate_subnets_from_cidrs: the blocks of the ip_pool not allocated yet
FreeBlocks(g) == PoolBlocks \ AllocatedBlocks(GroupL3[g])

StartAllocation(w, g) ==
  /\ NotAllocating(w) /\ groupBlock[g] = Nothing
  /\ \A v \in PoolWorkers : ~NotAllocating(v) => allocating[v].group # g
  /\ allocating' = [allocating EXCEPT ![w] =
       [group |-> g, left |-> FreeBlocks(g), made |-> Nothing, checked |-> FALSE]]
  /\ UNCHANGED <<poolVars, groupBlock, netBlocks, overtaken, segmentVars>>

\* Neutron refuses a block its network has.
MakeSubnet(w, b) ==
  /\ ~NotAllocating(w) /\ allocating[w].made = Nothing /\ b \in allocating[w].left
  /\ LET net == GroupNet[allocating[w].group]
         clash == <<net, b>> \in netBlocks
     IN /\ allocating' = [allocating EXCEPT ![w].left = @ \ {b},
                                            ![w].made = IF clash THEN Nothing ELSE b]
        /\ netBlocks' = IF clash THEN netBlocks ELSE netBlocks \cup {<<net, b>>}
  /\ UNCHANGED <<poolVars, groupBlock, overtaken, segmentVars>>

\* _validate_and_add_subnet, the reading transaction; CidrInUse
Unchecked(w) == ~NotAllocating(w) /\ allocating[w].made # Nothing /\ ~allocating[w].checked
ValidateSubnet(w) ==
  /\ Unchecked(w)
  /\ LET g == allocating[w].group
         b == allocating[w].made
         inUse == b \in AllocatedBlocks(GroupL3[g])
     IN /\ allocating' = [allocating EXCEPT ![w].made = IF inUse THEN Nothing ELSE b,
                                            ![w].checked = ~inUse]
        /\ netBlocks' = IF inUse THEN netBlocks \ {<<GroupNet[g], b>>} ELSE netBlocks
  /\ UNCHANGED <<poolVars, groupBlock, overtaken, segmentVars>>

\* Mutant: nothing is looked up.
ValidateNothing(w) ==
  /\ Unchecked(w)
  /\ allocating' = [allocating EXCEPT ![w].checked = TRUE]
  /\ UNCHANGED <<poolVars, groupBlock, netBlocks, overtaken, segmentVars>>

\* Its writing transaction, add_subnet of the context: others may have found the
\* same block free.
AddSubnet(w) ==
  /\ ~NotAllocating(w) /\ allocating[w].checked
  /\ LET g == allocating[w].group
         b == allocating[w].made
     IN /\ groupBlock' = [groupBlock EXCEPT ![g] = b]
        /\ overtaken' = overtaken \cup
             {h \in PoolGroups : /\ h # g /\ GroupL3[h] = GroupL3[g]
                                 /\ \E v \in PoolWorkers : /\ ~NotAllocating(v) /\ allocating[v].group = h
                                                           /\ allocating[v].checked /\ allocating[v].made = b}
  /\ allocating' = [allocating EXCEPT ![w] = Nothing]
  /\ UNCHANGED <<poolVars, netBlocks, segmentVars>>

NoSubnetAvailable(w) ==
  /\ ~NotAllocating(w) /\ allocating[w].made = Nothing /\ allocating[w].left = {}
  /\ allocating' = [allocating EXCEPT ![w] = Nothing]
  /\ UNCHANGED <<poolVars, groupBlock, netBlocks, overtaken, segmentVars>>

ReleaseBlock(g) ==
  /\ groupBlock[g] # Nothing
  /\ groupBlock' = [groupBlock EXCEPT ![g] = Nothing]
  /\ netBlocks' = netBlocks \ {<<GroupNet[g], groupBlock[g]>>}
  /\ overtaken' = overtaken \ {g}
  /\ UNCHANGED <<poolVars, allocating, segmentVars>>

--------------------
\* External segments.

\* _validate_identical_external_routes: the first of the list with the others
NotIdentical(first, others) == \A e \in others : routes[first] \cap routes[e] = {}
AddressesOf(e) == UNION {l3Segments[l][e] : l \in {k \in Exists(l3Segments) : e \in DOMAIN l3Segments[k]}}

\* The resource mapping driver keeps the ip_pools of a tenant apart, when they are
\* created.
PoolIsApart(l) ==
  \A k \in Exists(l3Segments) : L3Tenant[k] = L3Tenant[l] => L3Blocks[k] \cap L3Blocks[l] = {}

\* create_l3_policy and update_l3_policy.  Only segments that were not attached
\* before are looked at.
SetSegments(l, given) ==
  /\ l3Segments[l] = Nothing => PoolIsApart(l)
  /\ given # l3Segments[l]
  /\ LET old == IF l3Segments[l] = Nothing THEN <<>> ELSE l3Segments[l]
         mine(e) == IF e \in DOMAIN old THEN old[e] ELSE {}
         new == DOMAIN given \ DOMAIN old
     IN /\ \A e \in DOMAIN given : \A k \in Exists(l3Segments) \ {l} :
             e \in DOMAIN l3Segments[k] => l3Segments[k][e] \cap given[e] = {}
        /\ \A e \in new : /\ (routes[e] \cup SegmentCidr[e]) \cap L3Blocks[l] = {}
                          /\ given[e] \subseteq AddressIn[e]
        /\ new # {} => \E first \in DOMAIN given : NotIdentical(first, DOMAIN given \ {first})
  /\ l3Segments' = [l3Segments EXCEPT ![l] = given]
  /\ UNCHANGED <<poolVars, blockVars, routes>>

ClearSegments(l) ==
  /\ l3Segments[l] # Nothing
  /\ l3Segments' = [l3Segments EXCEPT ![l] = Nothing]
  /\ UNCHANGED <<poolVars, blockVars, routes>>

\* _validate_routes looks at the whole segment if a route is added, but only at L3
\* policies the request sees: those of its tenant, and an administrator all.
Sees(e, l) == L3Tenant[l] = SegmentTenant[e]
SetRoutes(e, dests, admin) ==
  /\ dests # routes[e]
  /\ dests \subseteq routes[e] \/
       \A l \in {k \in Exists(l3Segments) : e \in DOMAIN l3Segments[k] /\ (admin \/ Sees(e, k))} :
          /\ (dests \ routes[e]) \cap L3Blocks[l] = {}
          /\ \A f \in DOMAIN l3Segments[l] \ {e} : routes[f] \cap dests = {}
  /\ routes' = [routes EXCEPT ![e] = dests]
  /\ UNCHANGED <<poolVars, blockVars, l3Segments>>

--------------------
AddressInit ==
  /\ scopes = Scopes \ {ScopeMade[l] : l \in L3Rows}
  /\ poolScope \in [SubnetPools -> scopes \cup {Nothing}]
  /\ \A p \in SubnetPools : poolScope[p] # Nothing <=> p = DefaultPool
  /\ l3Row = [l \in L3Rows |-> Nothing]
  /\ groupPool = [g \in PoolGroups |-> Nothing]
  /\ directUse = {} /\ kept = {}
  /\ groupBlock = [g \in PoolGroups |-> Nothing] /\ netBlocks = {}
  /\ allocating = [w \in PoolWorkers |-> Nothing] /\ overtaken = {}
  /\ l3Segments = [l \in L3Rows |-> Nothing]
  /\ routes = [e \in Segments |-> {}]

AddressTypeOK ==
  /\ scopes \subseteq Scopes /\ poolScope \in [SubnetPools -> Scopes \cup {Nothing}]
  /\ groupPool \in [PoolGroups -> SubnetPools \cup {Nothing}]
  /\ groupBlock \in [PoolGroups -> PoolBlocks \cup {Nothing}]
  /\ netBlocks \subseteq {GroupNet[g] : g \in PoolGroups} \X PoolBlocks
  /\ routes \in [Segments -> SUBSET Destinations]

\* The subnetpools of an L3 policy are of its own address scope, the subnets of its
\* groups come from them, and what was made for a policy goes with it or is kept
\* with a warning; over updates that remove a pool and deletions in any order.
PoolsBelongToPolicies ==
  /\ \A l \in Exists(l3Row) : LET r == l3Row[l] IN
       /\ r.scope \in scopes /\ r.pools # {} /\ \A p \in r.pools : poolScope[p] = r.scope
       /\ \A k \in Exists(l3Row) \ {l} : l3Row[k].scope # r.scope
       /\ \A g \in GroupsOf(l) : groupPool[g] \in r.pools
  /\ \A g \in Exists(groupPool) : l3Row[GroupL3[g]] # Nothing
  /\ \A p \in Exists(poolScope) : /\ poolScope[p] \in scopes
                                  /\ Owned(p) /\ p \notin kept => \E l \in Exists(l3Row) : p \in l3Row[l].pools
  /\ \A l \in L3Rows : ScopeMade[l] \in scopes \ kept => l3Row[l] # Nothing

\* Two groups of an L3 policy do not have the same block, whoever allocates at the
\* same time, unless their networks differ and one had been found free before the
\* other was added ("when a concurrent request has beat this one", CidrInUse, is
\* noticed only then); and no subnet is left of a block that was given up.
BlocksAreApart ==
  /\ \A g, h \in Exists(groupBlock) :
       g # h /\ GroupL3[g] = GroupL3[h] /\ groupBlock[g] = groupBlock[h] =>
         GroupNet[g] # GroupNet[h] /\ {g, h} \cap overtaken # {}
  /\ netBlocks = {<<GroupNet[g], groupBlock[g]>> : g \in Exists(groupBlock)}
                 \cup {<<GroupNet[allocating[w].group], allocating[w].made>> :
                         w \in {v \in Exists(allocating) : allocating[v].made # Nothing}}

\* An L3 policy and its external segments do not contradict each other, whichever of
\* them changed last: no segment overlaps the ip_pool, no address is given twice, and,
\* among segments whose tenant sees the policy, no route overlaps the ip_pool and no
\* two segments have a route to the same destination.
SegmentsAreCompatible ==
  \A l \in Exists(l3Segments) : \A e \in DOMAIN l3Segments[l] :
     /\ SegmentCidr[e] \cap L3Blocks[l] = {}
     /\ Sees(e, l) => routes[e] \cap L3Blocks[l] = {}
     /\ Sees(e, l) => \A f \in DOMAIN l3Segments[l] \ {e} : Sees(f, l) => routes[e] \cap routes[f] = {}
     /\ \A k \in Exists(l3Segments) \ {l} :
          e \in DOMAIN l3Segments[k] => l3Segments[k][e] \cap l3Segments[l][e] = {}
====================
