# Group Based Policy: specification, model checking and proofs

This directory specifies the Group Based Policy (GBP) service for OpenStack
Neutron in TLA+: the policy model and its sharing rules, the way requests run
through transactions and policy drivers, the policies that a driver creates
implicitly, what the mapping drivers and the APIC mechanism driver make of
policies, networks and ports, and the tool that validates it. TLC checks the
specifications on small instances; TLAPS proves the safety of several of them
for every number of rows, tenants and workers.

Paths below are relative to `src/gbpservice/neutron/` unless they begin with
`src/`. `PROJECT.json` maps every definition to the lines it models.

## 1. Inventory of the system

### Parts and how they interact

A client talks to the Neutron server; each API worker (a process or green
thread, on one of several servers) serves one request at a time. A request for
a GBP resource runs through

1. the **service plugin** (`services/grouppolicy/plugin.py`), a mixin over
2. the **database layer** (`db/grouppolicy/group_policy_db.py`,
   `group_policy_mapping_db.py`), inside one transaction, in which the
   **extension drivers** and then the *precommit* methods of the **policy
   drivers** are called by their managers; an error rolls everything back;
3. the *postcommit* methods of the policy drivers, behind the transaction.
   These call the Neutron API of the same server through `local_api.py`
   (networks, subnets, ports, routers), or GBP itself (the implicit driver),
   each call in transactions of its own;
4. in a creation, a nested deletion if a postcommit method fails.

Neutron's own resources run through the **ML2Plus plugin** to the **APIC
mechanism driver**, which writes the corresponding AIM resources (endpoint
groups, bridge domains, VRFs, contracts) in the same transaction. Agents on the
hosts ask for endpoint details, report the owners of addresses and obtain SNAT
addresses through **RPC**; changes are announced to them behind the
transactions. Everything that is shared between workers is in the database, but
for a per-server project cache.

| Part | State it keeps | Operations | What makes it correct |
|---|---|---|---|
| Plugin and database | rows of thirteen resource types, references between them | create, update, delete, read | references name rows; a shared row uses shared rows; a row in use is not deleted; rule sets form one level of hierarchy |
| Driver manager | none; the stages of a request | ordered calls, error classes, undo, retry | a creation happens once or not at all; what drivers realised follows the rows; requests end |
| Implicit driver | ownership marks of L2 and L3 policies | find, create, mark, link, clean up | each row gets its policy; no policy leaks; policies of clients stay; one default |
| Policy context | none | `set_*_id`, in further transactions | links obey the sharing rules |
| Extension manager and drivers | extension columns | process create, update, delete | in the transaction of the request |
| API extensions | none | attribute conversion and validation | per-value |
| Resource mapping driver | ownership of ports, subnets, networks, routers, address scopes | postcommit calls of Neutron | implicit resources go with their last user; subnets of an L3 policy do not overlap |
| AIM mapping driver | ownership as above; AIM resources | pre- and postcommit | groups and contracts follow policy rows; failed creations leave nothing |
| ML2Plus and its manager | subnet pool and address scope extensions | pre- and postcommit of mechanism drivers | drivers are called in order |
| Implicit subnet pools | a flag per pool | create, update | one implicit pool per tenant and family |
| APIC mechanism driver: topology | mappings of networks and address scopes to AIM | router interfaces, external gateways | routers and networks that are connected share a VRF |
| APIC mechanism driver: SNAT | ports per host, port ranges | allocate on demand, remove | one address per host, disjoint ranges, none removed that is needed |
| APIC mechanism driver: addresses | owner of each shared address | agent reports | the last report wins, old and new owner are told |
| APIC mechanism driver: the rest | AIM resources of networks, subnets, ports, security groups | precommit methods | AIM follows Neutron |
| Endpoint RPC | none | read, bind, answer | an answer shows one state of the database |
| Cache, mapper, notifications | project names; machine names | refresh, map, notify | changes reach the agents |
| L3 plugin | none | Neutron L3 with precommit calls | as the mechanism driver |
| SFC driver | service graph mappings | port pairs, groups, classifiers, chains | AIM follows the chain and its bindings |
| Validation | none | compare, repair | a repaired deployment validates |
| Migrations, contributions, dummy driver | – | – | outside this project |

### What is hard

* **Interleaving of transactions.** A request of one client is a sequence of
  transactions and of reads used in later ones: the deletion of a group
  (`services/grouppolicy/plugin.py:637`), implicit policies
  (`services/grouppolicy/drivers/implicit_policy.py`), `set_l3_policy_id`
  (`services/grouppolicy/group_policy_context.py:134`).
* **Partial failure.** One driver of several raises behind the transaction; a
  creation is undone by a deletion that can fail too; an update is not undone.
* **Retry.** A retriable error repeats the whole request, after rows were
  committed or undone.
* **Long sequences of legal requests.** Sharing, linking and reverting by
  several tenants and an administrator.
* **Stale lists.** What a deletion listed at its start and acts on later.

`PROJECT.json` lists each hazard at the line where it bites, with the
properties that watch it, or the reason why none does yet.

## 2. Modules

| Module | Models | Role |
|---|---|---|
| `GroupPolicy` | plugin and database layer | core specification |
| `PolicyObjects` | what clients are promised of creations, updates and deletions | abstract specification |
| `DriverManager` | plugin, driver manager and retries around one resource | refines `PolicyObjects` |
| `ImplicitPolicy` | implicit L2 and L3 policies, transaction by transaction | specification |
| `SecurityGroups` | resource mapping driver: security groups of rule sets | specification |
| `AddressPools` | address scopes, subnet pools and subnets of L3 policies, routes | specification |
| `NetworkServices` | network service policies, floating addresses, NAT pools | specification |
| `AimPolicy` | AIM mapping driver: filters, contracts, endpoint groups | specification |
| `AimRouting` | AIM mapping driver: routers, gateways, subnets, step by step | specification |
| `Ml2Plus` | mechanism manager, implicit subnet pools, project cache | specification |
| `RoutedTopology` | APIC mechanism driver: router interfaces, VRFs, gateways | specification |
| `RoutedValidation` | what the validation tool computes of the same rows | the statement of `RoutedTopology` |
| `PortBindings` | APIC mechanism driver: bindings, static paths, domains, links | specification |
| `RemoteGroups` | APIC mechanism driver: remote security groups | specification |
| `EndpointRpc` | owners of shared addresses, notices, requests for details | specification |
| `EndpointDetails` | what details and VRF subnets are made of, SNAT ports | specification |
| `DistributedSnat` | port ranges of SNAT addresses, policy of subnets | specification |
| `ExternalNetworks` | external networks, their L3 outsides, SVI networks | specification |
| `ServiceChains` | service function chaining driver | specification |
| `Validation` | validation with a scope, and repair | specification |
| `GroupPolicyProofs` | – | TLAPS proofs about `GroupPolicy` and its composition `MCRequests` |
| `ImplicitPolicyProofs`, `DistributedSnatProofs`, `DriverManagerProofs`, `EndpointDetailsProofs` | – | proofs about the module of that name |
| `MechanismDriverProofs` | – | proofs about `PortBindings`, `RemoteGroups`, `EndpointRpc` and the installation `MCMechanismDriver` |
| `MappingDriversProofs` | – | proofs about `AimPolicy` and `SecurityGroups`, in `MCMappingDrivers` |
| `ServicesProofs` | – | proofs about `Ml2Plus`, `ExternalNetworks`, `AddressPools`, `NetworkServices` and `Validation` |
| `MC...` | – | instances for TLC, one or several modules each |

Definitions whose comment begins with *Mutant* are not part of a specification:
each is a definition changed the way a slip in the code would change it, and
shows that a property notices.

The modules are about different tables, and the code joins them by identifiers
only. Where two parts run on one table or one thread of control they are one
module, or one refines the other (`DriverManager` and `PolicyObjects`), or one
judges the other (`RoutedTopology` and `RoutedValidation`). `MCRequests`,
`MCMappingDrivers`, `MCMechanismDriver` and `MCServices` put modules that share
no state side by side: the variable `topic`, chosen in the initial state, says
which of them moves in a behaviour. The actions are those of the modules, and no
property is weakened: each conjunct is about the variables of its own module.

### GroupPolicy

The rows are identified by uuids, one set per table; `owner` holds the tenant of
each row, `shared` the rows whose column is true. All references, be they
foreign keys or association rows, are edges in `uses`, named for the attribute
that holds them: most of what can go wrong is about edges, and one definition
then serves all thirteen types, as `usage_graph` does in the plugin.
`management` and `bound` hold one column of groups and the state of the ports of
policy targets; `deletion` the deletions of groups that are under way.

Every method that is one transaction is one action: `Insert`, `Modify` and
`Remove` are what `create_*`, `update_*` and `delete_*` share, with the scope of
queries (`Visible`), the API policy (`MayUpdate`, `MayDelete`, `SharedValues`),
`_validate_shared_create`, the `_validate_*_unshare` methods
(`_validate_unshare`) and the in-use checks of each deletion. Policy rule sets
have creations and updates of their own, because a request on the parent sets
the columns of its children.

`delete_policy_target_group` is not one transaction. Its steps are
`DeletePolicyTargetGroup` (reads the group, its proxy and its targets, checks
for bound ports), `ClearRuleSets`, `DeleteProxyGroup` (pushes a frame: the
proxy is deleted by the same method), `ListTargets`, `DeleteTarget`,
`DeleteGroupRow`. All other requests run in between. What the first transaction
read stays in the frame, whatever becomes of the rows.

`Room` is not code: it bounds the rows that exist at the same time.

### DriverManager and PolicyObjects

One worker's request passes the stages `txn` (the transaction with the
precommit methods), `post` (one driver after the other), `read`, and in a failed
creation `undo_txn` and `undo_post`, the stages of the nested deletion. The
errors of drivers fall in the four classes that `_call_on_drivers` and the retry
decorator tell apart: retriable, invalid, known, other. `Failed` says where each
stage goes with an error, `Retried` when the request begins again, `UndoFailed`
what happens to an error of the nested deletion. A driver that raises may have
done its work or not. `realised` records what each driver made of each row, so
that properties can relate it to the rows.

`PolicyObjects` knows objects and calls only: a creation is answered in the
moment the object comes to be, a failed creation leaves nothing, an update may
take effect before it fails. `ImplementsObjects` maps the rows of a running
creation to no object, and an undone and repeated creation to one that has not
happened yet.

### ImplicitPolicy

The rows of one tenant, their columns, and the ownership marks. A request makes
its first transaction (`Create...`, `Update...`, `Delete...`) and goes on in
`worker`: `l3_find`, `l3_txn`, `l3_refind`, `l3_own`, `l3_check`, `l3_set` are
`_use_implicit_l3_policy`; `l2_txn`, `l2_own`, `l2_check`, `l2_set` are
`_use_implicit_l2_policy`, which runs the former in the nested creation;
`l2_undo`, `group_read`, `group_delete` are deletions in except clauses;
`l2_cleanup`, `l2_delete`, `l3_cleanup`, `l3_delete` end deletions. `Fail` says
where an exception goes at each of them. Each step is one transaction, or a
read that is used later.

A new row takes an identity that no running request remembers, as a new uuid
does. With all identities of a kind taken a creation waits; this is an artefact
of the finite set, and the reason why no liveness is claimed of this module.

`Patient` restricts the clients: they name no row in a request before its
creation was answered.

### The mapping drivers

`SecurityGroups`: each rule set has a security group for its providers and one
for its consumers; rules admit the addresses of the other side. A request commits
its rows in one step; its postcommit method then changes the rules of security
groups by the difference of the request (`Recomputed`, `SetGroupRules`,
`UnsetGroupRules` and their like) and the security groups of ports one port after
the other: `_update_sgs_on_ptg` lists the targets, `ReadPort` and `WritePort` are
transactions of their own, for a new target `ReadGroup` reads what its group
provides and consumes now, and `LeaveOldSgs` takes away what an update gave up.
Clients are `Careful`: no two requests at once about rows that one of them changes,
and no update of a group while a target is added to it.

`AimPolicy`: a rule is a filter and perhaps a reverse one, a rule set a contract
with a subject, a group an endpoint group in an application profile. Rules and
rule sets are mapped in the transaction, endpoint groups in a later step
(`CreateEpg`), from the row as the request has it and whatever has become of that
row: the deletion of a group does not stop its creation.

`AimRouting`: the steps of routers, gateways, subnets and router interfaces
between the Neutron calls, by several workers, with the lock on the L2 policy.
Neutron itself is external: what each call of it refuses is in the guards.

`AddressPools` has the address scope and pools of an L3 policy (explicit, implicit
or the tenant's default), subnets of groups allocated from them, the older
allocation from `ip_pool` by two workers at once, each of which validates a subnet in
one transaction and writes it in another, and the routes of external segments, which
a request compares with those of the L3 policies its tenant can see.
`NetworkServices` has the parameters of network service policies, the
addresses they reserve and the floating addresses they make, and the NAT pools
these come from.

### The plugins and the mechanism driver

`Ml2Plus`: creations, updates and deletions of subnet pools, address scopes and
security groups through the stages of the mechanism manager, the implicit flag
of pools, and the cache of projects against Keystone.

`RoutedTopology` keeps Neutron's interfaces and gateways and, in `aim`, the VRF
and tenant of each network, the contracts of its endpoint group, subnets, VRFs
and external connections. `AddInterface` and `RemoveInterface` are the precommit
work of an interface port, `Record...` the transaction in which Neutron adds its
own row. `Choices` is which VRF wins and which topology moves, `Move` the move,
`Connect` the external connectivity. `RoutedValidation` computes from Neutron's
rows alone what `validate_aim_mapping` would expect.

`PortBindings`: a binding is chosen in one transaction and committed in another.
A report of a changed link (`UpdateLink`) lists the networks with ports on the host
and then rebuilds the paths of each in a step that reads the link and one that
writes; on a `Flapping` host the next report may come while one is at it
(`overtaken`). `delete_link` has no action: its RPC endpoint deliberately never calls
the driver (`rpc.py:180-187`). `RemoteGroups`: members
of a remote group are addresses in rules or, once normalized, in a container.
`EndpointRpc`: a report of an owner is several transactions, followed by notices
to the ports concerned and their agents' requests. `EndpointDetails`: a change is
a transaction, the deletion of SNAT ports no longer needed, the notifications, and
only then the row that Neutron writes for a gateway or an interface (`WriteRow`),
from which an agent's answer is made; requests allocate SNAT ports, or fail to when
there is no SNAT subnet or no address left (`FailToAllocate`). `DistributedSnat`: an agent's request
is the steps `find`, `create`, `read`, `insert` and `fail` of a worker; only the
primary key of the table keeps two workers from writing one range.
`ExternalNetworks`: several networks of one L3 outside, whose AIM resources must
outlive each of them and go with the last.

### ServiceChains and Validation

`ServiceChains`: the precommit method of a request checks, undoes the mapping of
the chains it touches and maps them again; bindings, links and VRFs are announced
to it by the mechanism driver. `Validation`: a resource or record is right, wrong
or missing; a run computes from the rows what is expected, compares it within its
scope, and commits repairs or rolls back. What a row implies is in the tenant that the
drivers map it to: routers in the common tenant, networks in that of the VRF of their
topology, NAT resources in that of the L3Outside.

## 3. What the runs check

| Run | Properties | Instance |
|---|---|---|
| `gp_rules` | `SharedUsesShared`, `OneHierarchyLevel`, `UnshareKeepsOtherTenantsOut` | three rule sets, one row of each of seven other types, three of them at a time |
| `gp_groups` | `UserLinksStayInTenant`, `DeletionTakesNoReference` | two groups and one row of each of five other types, two rows at a time, one running deletion |
| `requests` | `TypeOK`, `ReferencesExist`, `CreationsAreClean`, `RequestsAndDeletionsEnd` | `GroupPolicy` with two groups (one the proxy of the other), a policy target and a running deletion; or `DriverManager` with two drivers, two workers and every method raising anything |
| `dm_drivers` | `UndoneIsForgotten`, `DriversAreStacked`, `AnsweredIsRealised`, `ImplementsObjects` | two drivers, two workers, two contents, three rows; creations and updates raise anything; patient clients |
| `ip_lifecycle` | `EveryRowHasItsPolicy`, `NoPolicyIsLeaked`, `OneDefaultL3Policy`, `SharedUsesShared` | three workers, two identities of each kind, shared and private rows |
| `ip_anything` | `TypeOK`, `ExplicitPoliciesStay` | two workers, every operation, at any moment |
| `sn_ranges` | `TypeOK`, `RangesDisjoint`, `NoFalseExhaustion`, `PolicyFollowsSubnets` | one subnet whose range of ports is cut and extended, two hosts, two workers, three service addresses |
| `md_installation` | `TopologyIsValid`, `BindingsFollowPorts`, `AddressesAreKnown` | five networks and four routers of two projects, one shared network; three ports on four hosts, one with a link that moves, one whose reports overlap; two remote groups with two ports; two endpoints and a virtual address |
| `mapping` | `SecurityFollowsPolicy`, `SubjectsFollowRules`, `EpgsFollowGroups` | two rule sets, two rules, two classifiers, two groups and two L3 policies, two requests at once, each port in transactions of its own; for filters one rule set |
| `ar_routing` | `RoutingFollowsPolicy`, `Answered` | two L3 policies, L2 policies, external segments and groups, two subnets in the pool, two workers |
| `sv_services` | `ResourcesAreKnown`, `ExternalNetworksAreKept`, `L3PoliciesFit`, `ServicesAreProvided`, `ChainsAreRealised`, `RepairsLast`, `AgentsAreTold`, `ScopedRunsAgree` | two of what each part can have several of, see `MCServices` |
| `md_connectivity` | `ValidConnectivity`, violated | two networks, two routers, an external network |

What the properties of the composed instances say:

* `TopologyIsValid`: what the validation tool would compute from Neutron's rows is
  in AIM at any moment (VRFs, tenants, contracts, subnets, clean-up of default
  VRFs); no two subnets of an unscoped VRF overlap; interfaces of a network share
  the router or the subnet.
* `BindingsFollowPorts`: each bound port has the domains of its host on its endpoint
  group and, once the reports of its host have ended, the path of the host's link. In the
  other direction less is true: a listed path that is the present link of a host, an
  interface of an SVI, and a dynamic segment have a port that needs them; domains, and
  the paths of former links, may stay on an endpoint group (section 5). Interfaces of
  SVIs on a `Flapping` host are exempt.
* `AddressesAreKnown`: rules let in exactly the current addresses of the members
  of their remote group, normalized or not; an agent that has heard every notice
  knows the addresses its endpoints own.
* `SecurityFollowsPolicy`: once no request is between its rows and its rules, every
  security group has the rules of its rule set, its parent and the addresses on
  the other side, and each port is in the groups of its group; while requests run,
  a rule for a group's addresses is of a rule set the group has or is giving up.
* `SubjectsFollowRules`, `EpgsFollowGroups`: filters, subjects and endpoint groups
  are those that rules and groups demand, and profiles go with the last group; except
  the endpoint groups of groups that were updated or deleted, they or their application
  group, while they were created (`detached`).
* `RoutingFollowsPolicy`: routers, gateways, provided contracts and subnets follow
  the segments, external policies and groups of each L3 policy once nobody works
  on it; an L2 policy has one subnet until it is used up; no lock is left behind.
* `ResourcesAreKnown`: implicit pools are unique, what drivers are told follows the
  rows, a tenant is named after its project.
* `ExternalNetworksAreKept`: NAT EPGs, APIC networks and gateways of external
  networks, and the peers of SVI networks, exist while, and only while, a network needs
  them. CIDRs are routed while a network has them, and are not when none has, on the APIC
  networks whose networks have an EPG each.
* `L3PoliciesFit`: pools and scopes are those of the policy; routes differ as far as the
  tenant of the segment sees the policies; two groups hold one block only if both
  had validated it before either wrote it.
* `ServicesAreProvided`: floating and reserved addresses follow the service policy of a
  group.
* `ChainsAreRealised`: clusters, graphs and contracts are those of the chains, but for
  what is consumed in an external network that two classifiers have as their source
  (`SharedSources`) and for the health groups of pairs that have left a group.
* `RepairsLast`: a repaired deployment validates. `ScopedRunsAgree`: what a run with a
  scope changes, a full run would change. Both are claimed of all kinds and tenants but
  those named in section 5 (`CannotKnow`, `CannotExpect`).
* `AgentsAreTold`: an agent that has heard everything knows the current details, unless
  it was answered between a notification and the row it was about (`late`); where an
  address could not be allocated (`exhausted`), it may lack this address.

Every property of a passing run is violated when the definition named in
`PROJECT.json` is replaced by its mutant.

### Bounds

* *Rows.* `MaxRows` (3 in `gp_rules`, 2 in `gp_groups`) is how many of the rows
  exist together. `OneHierarchyLevel` speaks of a chain of two parents and needs
  three rows; the properties of `gp_groups` speak of one edge, a user and the row
  it uses. The theorems are about any number.
* *Tenants and contexts.* Two tenants; a user of one, and an administrator, who
  can do what the other tenant's users can and create rows for both.
* *Drivers and retries.* Two drivers show the order of calls and the undoing
  of the first when the second fails. One retry (`MaxRetries`) is enough for an
  attempt that follows an undone one. `MaxIds` bounds the rows ever created;
  `IdsSuffice` admits a creation only if there are rows for all its attempts, so
  that no request is cut short. In `requests` this is one creation, with
  another client's updates and deletions around it; in `dm_drivers` two, one after
  the other: that creations run side by side is in the theorems. The workers and
  the contents of `dm_drivers` are symmetric.
* *Workers.* Two for most modules; three for implicit policies, where one
  creates, one deletes and one comes in between. `RoutedTopology` has one worker:
  two that add interfaces to one network at the same time can both pass the check
  that interfaces share the router, which Neutron itself does not prevent.
* *Faults.* `CleanDeletes` in `dm_drivers`: when deletions fail as well, what a
  driver has not forgotten is its own doing, and the row of a failed creation
  may stay (section 5).
* *Port ranges.* Blocks of two ports, one of them or two: a full table, a cut one
  and a collision of two workers are reached with the first block.
* *External segments.* Two: with three the code lets identical routes in (section 5,
  `MCServicesRoutes`).
* *Topics.* The parts put together in one instance share no variable, so that the
  product of their states would show nothing that the sum does not.

### Assumptions about clients

Some modules have a constant that keeps clients from doing what the code does not
protect them from; with the other value TLC finds the property violated, and the
README names it under divergences or limits: `Patient` (`DriverManager`,
`ImplicitPolicy`, `AimRouting`, `Ml2Plus`): a row is left alone until the request
on it was answered. `Careful` (`SecurityGroups`): no request next to a
change of classifiers, rules or rule sets, and one at a time about the outside; no
update of a group while a target is added to it; no
two rules of a rule set for the same traffic; a rule that changes its classifier is in
no rule set with children, and a rule set that is deleted has none; the routes of
an external segment change while an L3 policy is on it, and an L3 policy goes while
there is no external policy. `Careful` (`PortBindings`): the link of a host does not change while a
port is about to be bound to it, nor to a path that another host has or an endpoint
group lists; no port leaves a host whose paths are rebuilt; the choice of a dynamic
segment that no other port uses is committed. Reports of one host overlap on those in
`Flapping` only. `Careful` (`RemoteGroups`): no two
ports have an address in common; a port does not leave a group and change its
addresses in one update; a group is deleted when only its own rules point to it;
the groups of rules have addresses of the rule's family when containers come into
use. `Careful` (`EndpointRpc`): the reports of one address come one after the
other, and a port's addresses are not changed while one is reported for it. `Serial` (`Ml2Plus`): no two creations of implicit pools at once.
`Exclusive` (`EndpointDetails`): no two requests of one host at once, no allocation of
a SNAT port beside the clean-up of them, and one change of a router at a time. `Switches`
(`DistributedSnat`): updates of a subnet do not turn distributed SNAT on and off.

### Fairness

`RequestsAndDeletionsEnd` assumes weak fairness of each worker's `DeletionStep` and
`Serve`, `Answered` of each worker's `Step`: a worker that has begun a request goes
on with it until it returns or raises. It is scheduled by the operating system and
waits for nothing but the database. Nothing is assumed of clients, of the order
of workers, or of errors ceasing: requests end with drivers that raise for ever.

`CHECK_DEADLOCK FALSE` is set where requests are bounded by identities and the
system may really have nothing to do.

## 4. What is proved

Eight modules hold theorems about sixteen of the specifications. Every property of
`gp_rules`, `gp_groups`, `dm_drivers`, `ip_lifecycle`, `ip_anything`, `sn_ranges` and
`mapping`, all of `sv_services` but `ChainsAreRealised`, all safety properties of
`requests`, and those of `md_installation` are the properties of them; the
runs show them on an instance, the theorem for every value of the constants that
satisfies its hypotheses.

### The policy model

The theorems of `GroupPolicyProofs` hold for any sets of rows, tenants, contexts
and workers, under the assumptions of `GroupPolicy`: the tables are disjoint,
contexts name tenants, `None` is none of them, and `MaxRows` is a natural number.

| Theorem | Property |
|---|---|
| `Safety` | the inductive invariant `SafeInv` |
| `TypeCorrect` | `TypeOK` |
| `NoDanglingReference` | `ReferencesExist` |
| `SharingIsClosed` | `SharedUsesShared` |
| `RuleSetHierarchy` | `OneHierarchyLevel` |
| `UnshareIsSafe` | `UnshareKeepsOtherTenantsOut` |
| `UserLinksAreSafe` | `UserLinksStayInTenant` |
| `DeletionIsSafe` | `DeletionTakesNoReference` |

**Argument.** `SharedUsesShared` is not inductive: a row created anew could be
named by an edge that was left behind, and a shared flag left behind would
belong to it. `SafeInv` adds that no reference hangs, that every shared row
exists, and the hierarchy of rule sets (a creation that takes children moves
their edges). Three lemmas carry it: `InsertSafe`, `ModifySafe`, `EraseSafe`,
one for each kind of transaction. `ModifySafe` rests on `UnshareCoversUsage`:
the types of users that the `_validate_*_unshare` methods visit are exactly those
that `usage_graph` validates, but for the parent of a rule set. The *shape*
lemmas reduce every request to one of these transactions with references of its
own (`OwnLinks`); policy rule sets have lemmas of their own, over
`HierarchyKept`. `TypeInv` adds the columns and the frames of deletions, for
`TypeCorrect` and `DeletionIsSafe`. The action properties follow from the
invariant: a row leaves `shared` in an update only (`OnlyModifyUnshares`).

### Implicit policies

The theorems of `ImplicitPolicyProofs` hold for any sets of rows and workers, any
choice of operations and clients patient or not, under the assumptions of
`ImplicitPolicy`: the three kinds of rows are disjoint, and `None` is no row.

| Theorem | Property |
|---|---|
| `TypeCorrect` | `TypeOK`, which holds that references name rows that exist |
| `ExplicitPoliciesAreKept` | `ExplicitPoliciesStay` |
| `OneDefault` | `OneDefaultL3Policy`, if `"rename_l3"` is not in `Requests` |

**Argument.** Two facts make the types inductive. `DeadRowsAreEmpty`: the columns
of a row that is gone are empty, so the users that the deletion of a policy looks
for are all there are. `CondemnedIsOwned`: the ownership that `_cleanup_l2_policy`
and `_cleanup_l3_policy` read is still true when the policy is deleted in a later
transaction, if the policy still exists; it holds because a mark goes with its
policy only, and because no new row takes an identity that a worker remembers.
From it `ExplicitPoliciesAreKept` follows. Each step is reduced to one of four
kinds, with a lemma each: it moves a worker (`MoveKeeps`), changes columns
(`StayKeeps`), inserts a row (`CreationKeeps`) or deletes one (`ErasureKeeps`).
`OneDefault` needs none of this: both creations look for the default name in the
transaction that takes it. The assumption on `Requests` is necessary, as
the configuration `MCImplicitPolicyRename` shows.

### Implicit policies: their life cycle

The second part of `ImplicitPolicyProofs` is about what a request leaves when it
ends, for any sets of rows and workers.

| Theorem | Property | Clients |
|---|---|---|
| `SharingIsClosed` | `SharedUsesShared` | any, but none reverts the sharing of an L3 policy |
| `EveryRowGetsItsPolicy` | `EveryRowHasItsPolicy` | patient, none moves an L2 policy to another L3 policy |
| `NothingIsLeaked` | `NoPolicyIsLeaked` | both of these |

The last two say something of a state in which no worker works, and nothing of
any other. The invariants therefore name a worker that will see to what is
missing.

* `SharingInv`: what a worker remembers of the sharing of its rows (`Remembers`) is
  true, or the rows are gone. Clients can revert the sharing of an L3 policy only,
  and that behind the back of a worker which is about to link it: the revert looks
  for users, and a link that is going to be made is none yet.
* `Owed`: a group without an L2 policy, or an L2 policy without an L3 policy, has
  a worker that gives it one or deletes it (`GroupsAreOwed`, `L2sAreOwed`). It is
  inductive only with what keeps the workers out of each other's way: the rows of
  requests that run are different (`AllApart`), and nobody uses or links what a
  worker has made before it does so itself (`Solo`), so that the deletion with
  which it gives up is not refused.
* `Minded`: an owned policy that no row uses has a worker that links it or deletes
  it (`L2sAreMinded`, `L3sAreMinded`). The worker that takes the last user away is
  the one whose clean-up finds none; a second that finds it gone does nothing.

The hypotheses are those without which TLC has a counterexample: the sharing that
is reverted in between is `MCImplicitPolicyUnshare`, impatient clients and updates
are in section 5.

### Requests and drivers

The theorems of `DriverManagerProofs` hold for any number of drivers, workers, rows
and retries, and any choice of errors but for the hypotheses named here: `Patient`,
clients name a row only when its creation was answered and one request at a
time; `~MaySkip`, no postcommit method of a deletion raises an error that
makes the manager skip the driver and go on; `DeletesPass`, no
postcommit method of a deletion raises; `UndosBegin`, no precommit method of a
deletion raises.

| Theorem | Property | Hypotheses |
|---|---|---|
| `TypeCorrect` | `TypeOK` | none |
| `OneRowIsLeft` | `OneRowPerCreation` | none |
| `AnswersAreTrue` | `AnsweredIsRealised` | `Patient` |
| `DriversStayStacked` | `DriversAreStacked` | `Patient`, `~MaySkip` |
| `UndoneRowsAreForgotten` | `UndoneIsForgotten` | `Patient`, `DeletesPass` |
| `ObjectsAreImplemented` | `ImplementsObjects` | `Patient`, `UndosBegin` |

**Argument.** `Sound` relates the stage of a request to its other fields, and says
that nobody knows a row before it is created. `OneRow` follows the rows a creation
has made through its retries: all but the last are gone, and from the nested
deletion's commit on the last is gone too. With patient clients the rows that
running requests know are disjoint (`Apart`), therefore what a request wrote is
still there at the next stage (`RowsAreKept`), the drivers it has called have it
(`DriversHaveWritten`), and in a deletion have forgotten it (`DriversHaveErased`,
`Forgotten`).

`CreationsAreCleanAlways` (`GroupPolicyProofs`) carries the types and
`OneRowPerCreation` to `MCRequests`, where requests meet the rows of the group policy
model: each of its steps is a step of `DriverManager` or leaves its variables alone
(`ManagerMoves`).

**The refinement.** `objects` hides the row of a creation until it is answered.
A step of a running request maps to a stutter or to the commit of its update or
deletion; the step that answers a creation maps to `Create` (`AnswerKinds`). What
has to be shown is that nothing hidden is seen: that a failed creation has no row
left (from `OneRow` and `UndosBegin`), and that an undone attempt is that of no
other request (from `Apart`). If a precommit method could refuse the nested
deletion, the creation would be answered with an error and its row would stay:
the code does that, and `PolicyObjects` forbids it.

### Distributed SNAT

The theorems of `DistributedSnatProofs` hold for any subnets, hosts, workers and
configurations of ports.

| Theorem | Property | Hypotheses |
|---|---|---|
| `TypeCorrect` | `TypeOK` | none |
| `RangesAreDisjoint` | `RangesDisjoint` | `OneGrid` |
| `ExhaustionIsReal` | `NoFalseExhaustion` | none |
| `PolicyIsFollowed` | `PolicyFollowsSubnets` | `Switches = FALSE` |

**Argument.** Two ranges overlap only if one begins inside the other. If all
configurations begin at one port and have blocks of one size (`OneGrid`), first
ports are multiples of the size apart (`StartsApart`), so ranges that differ are
apart and the primary key of the table, which a stale read cannot get round,
does the rest. Without `OneGrid` the ranges of the old configuration stay and
the key does not see that a new one overlaps them. `ExhaustionIsReal` counts: a
worker makes as many attempts as there are ranges, and each one that it loses
uncovers a range that is taken for as long as none is freed; the set of ranges
seen so far grows with every attempt. `PolicyIsFollowed` splits the
policy of a subnet by what each operation reads of the other subnets of its
network; turning distributed SNAT on or off in an update does not do what
creation and deletion do.

### Port bindings

The theorems of `MechanismDriverProofs` about bindings hold for any networks, ports,
hosts, VLANs, paths and domains, under the assumptions of `PortBindings`: a domain
that is mapped to one host is not what another gets by default, ports have networks,
and `Absent` and the opflex segment are no VLANs.

| Theorem | Property | Hypotheses |
|---|---|---|
| `BindingsAreRight` | `BindingsFollowPorts`, of `BindingSpec` | `Careful`; `Flapping` is empty; `Absent` is no record |
| `BindingsStayRight` | the same, of the installation | the same |

**Argument.** What goes with a port is decided by a question about other ports: is
one on a host with the domain, on the same segment of the host, on the segment of
the network? `ResourcesApart` makes the questions right although they do not name
the network: a VLAN is the dynamic segment of one network, and a path the link of
one host. The rest relates what the fabric lists to the ports:

* `PathsAreUsed`: the path of a link is listed only for a port that is bound behind
  it. So the rebuild of an endpoint group that finds its path finds it with the
  right VLAN, although it changes the host only.
* `PathsAreListed` and `InterfacesAreUsed`: a path that a port needs is listed, and
  an interface of an SVI is on its host's link, or a rebuild of the host will come
  to the network (`WillRebuild`). A rebuild has not lost what it has to do, nor is
  what it has read out of date when it writes (`RebuildsGoOn`), because no port leaves
  its host and no second report overtakes it (`NoneOvertaken`).
* `AddressesAreThere`: the node of a link has its address on the SVI when the binding
  is committed, since the link is still the one it had when the address was made.
* `SegmentsAreUsed`: a dynamic segment has a port that is bound to it or about to be.

`DomainAssumption` is necessary for the domains: `WantedApart` says that what a
host gets by default is not taken away with the domains that are mapped to another.
TLC checks the whole invariant (`BindingInv`) on the instance of `md_installation`.
What a host with overlapping reports keeps is shown by the run alone.

### Routed topology

The theorems about the topology (`MechanismDriverProofs`) hold for any projects, networks,
routers, subnets, scopes and pools, under `RoutingAssumption`: there are finitely many
rows, `None` is none of them, no project is `common`, and the VRFs of scopes are no
default VRFs.

| Theorem | Property | Hypotheses |
|---|---|---|
| `RoutingIsValid` | VRFs, tenants, bridge domains and subnets are what the validation computes, subnets do not overlap, interfaces share | one request at a time (`OneAtATime`) |
| `ConnectivityIsValid` | `ValidConnectivity` | the same; one project owns all networks |
| `TopologyStaysValid` | `TopologyIsValid`, of the installation | `OneAtATime`; no topic `"joined"` |

The last two hypotheses are necessary: `md_connectivity`, whose topic is `"joined"`,
shows what happens to the gateways of one project when it joins another (section 5).

**Argument.** The invariant `RoutedInv` is the types, what a request in progress has
been given (`CallsFit`), and `Good`: that routers are on networks of their project or
shared ones (`Permitted`), that each network is in the right VRF (`Placed`), that tenants,
contracts and subnets are those of its VRF and interfaces (`Kept`), that VRFs have users
(`VrfsKept`), that the subnets of a default VRF do not overlap (`Apart`), and that the
interfaces of a network share the router or the subnet (`OneIsShared`).

* The driver and the validation find the VRF of a network by a walk over routers and
  networks. `Placed` says it without the walk: networks on one router have one VRF; a
  shared network has that of its project; and if a set of unshared networks is closed
  under the walk (`Walled`), its VRF is of the project. What the walk reaches is the least
  such set, so both come to the same.
* Adding an interface moves the topology of the router, or that of the network, to the
  other's VRF (`Choices`). Whichever moves has one VRF before (`Uniform`) and is all that
  has to move.
* Removing one splits a topology into two parts at most (`SplitInto`): the driver walks
  from the router and from the network anew, and what neither reaches stays.
* `ConnectivityIsValid` adds `Conn`, which routers are connected in a VRF. If one project
  owns all networks, all default VRFs in use are one, so that no topology changes its VRF
  and there is nothing to connect anew but the interface's router.

### Remote groups and the owners of addresses

| Theorem | Property | Hypotheses |
|---|---|---|
| `RemoteTypesCorrect` | `RemoteTypeOK` | `Careful`; `Absent` is no row |
| `RulesAreRight` | `RulesLetMembersIn` | the same |
| `EndpointTypesCorrect` | `EndpointTypeOK` | `Careful`; `Absent` is nothing else |
| `AgentsLearnTheirAddresses` | `AgentsKnowTheirAddresses` | the same |
| `AddressesStayKnown` | `AddressesAreKnown`, of the installation | all of these |

**Argument.** The handlers of ports know which addresses come to a group and which
go, not whose they are: taking them out of a rule is right because no two ports have
an address in common (`AddressesApart`). Once containers are in use they hold the
members of every group, with rules or without (`ContainersAreFull`), which a
rule that comes later relies on.

What an agent knows may be out of date at any time; then something is on its way to
it (`Told`): a notice, an answer that was not read, or a report that will notify its
port. That a report notifies the port that has lost the address rests on
`OwnersAreOld`: between the read of the old owner and the write of the new one, the
owner can only have gone. `AgentsKnowTheirAddresses` is `Told` of a port of
which nothing is on its way.

`RemoteMoves` and `EndpointsMove` carry the theorems to the installation: each of its
steps is a step of the part or leaves its variables alone.

### The mapping drivers

The theorems of `MappingDriversProofs` hold for any numbers of rows, and of the
composition `MCMappingDrivers`, which moves the fabric as `AimPolicy` does or not at
all (`FabricMoves`), and the security groups as `SecurityGroups` does (`PolicyMoves`).

| Theorem | Property | Hypotheses |
|---|---|---|
| `SubjectsFollowRulesAlways` | `SubjectsFollowRules` | `AimConstants`: `None` is no row and no value of a column |
| `EpgsFollowGroupsAlways` | `EpgsFollowGroups` | the same |
| `SecurityFollowsPolicyAlways` | `SecurityFollowsPolicy` | `SecurityConstants`; `Careful` clients; `UseSubnetpools` is off, as in the run |

`SecurityConstants` says that `None` is no row, that a group's addresses are no block,
that routes lead to addresses, and that each address of a set is in a largest block
of it, which holds for finitely many blocks (`BlocksAssumption` has each address a block
of its own). TLC finds it true of the instance.

**Argument of the AIM driver.** The driver writes a subject in two ways: anew from the filters that it
finds in AIM, when a rule set changes, and in place, filter by filter of one
classifier, when a classifier does. Both come to the same because a list can be
said filter by filter, by the classifier of the filter's rule (`Listed`, `Lines`), and
because the filters in AIM are those of the rules (`FiltersFollowRules`), so that the
driver finds what it looks for (`PopulatedIsWanted`). An update that leaves a rule's
classifier alike leaves its filters where they are (`SteadySubjects`).

An endpoint group is looked up by the row of its group. `Mapping` is why it is found:
a group that waits for its postcommit method has no endpoint group yet, and one that
does not wait has that of its row, unless it is one of those that the driver is known
to lose (`detached`). So the members of an application group, counted in the rows, are
those of its profile, and the last one takes it along.

**Argument of the resource mapping driver.** It never computes what security groups
should hold; a postcommit method adds and removes the difference of its request. What
they hold while requests run is said from what the driver has been told (`Told`): the
rows, except where a worker that has committed still keeps the old value. Then a rule is
there exactly when its rule set exists, the driver was told of the other side, and the
rules and classifiers it was told of say so (`Exact`, for old classifiers and rules;
`SgFits`, for a rule set that changes, whose children hold no more than their rules say
until the method looks at them). A postcommit method turns what was told into what is
in the rows, and the order of the methods does not matter: no two at work are about the
same row, the policy, or the outside (`JobsApart`). Taking away the rules of an old
classifier takes nothing that another rule says, because no two rules of a rule set are
for the same traffic (`Distinct`). A port is in all the security groups that its
group had before and has after an update, and in none that it has neither (`PortFits`):
a target created in between finds the new relations, one created before is told the
difference; a port is read and written in two transactions, and in between the worker
holds what it read, which is what the port still has (`PortsInv`; `WorkersWhole` has
the types of what workers hold). The
list of ports yet to be visited may miss a target created since, because no target is
added to a group that is being updated. That the addresses outside a new pool are those outside the others less the
pool is an argument about sets (`PoolGoesInside`).

### The parts of `sv_services`

Each theorem is about a specification of the part alone (`ServicesProofs`,
`EndpointDetailsProofs`), whose clients ask for anything but what is named here: more
than those of `MCServices`, whose steps are all steps of the part.

| Theorem | Property | Hypotheses |
|---|---|---|
| `RepairsLastAlways` | `RepairsLast` | `ValidationRows`: projects are tenants, and none of them is `Common`; the VRFs and L3 outsides that rows are given are such and have a tenant; what nobody may delete is no mapping record |
| `ScopedRunsAgreeAlways` | `ScopedRunsAgree` | the same |
| `ResourcesAreKnownAlways` | `ResourcesAreKnown` | `Serial`, `Patient`; there is a driver |
| `L3PoliciesFitAlways` | `L3PoliciesFit` | `AddressConstants`: there is a default subnet pool, and identities that a policy makes are its own; `TwoSegments` |
| `ExternalNetworksAreKeptAlways` | `ExternalNetworksAreKept` | clients: `GoesWith` |
| `ServicesAreProvidedAlways` | `ServicesAreProvided` | `MovesUnused`; different NAT pools have different blocks; no policy asks for both kinds of address |
| `AgentsAreToldAlways` | `AgentsAreTold` | `Exclusive` |

In each, the model values for nothing are no rows.

* *Validation.* What a run wants is computed kind by kind from the rows
  (`ImpliedKinds`), what it has from AIM. That a run with a scope agrees with a full one
  is a statement about sets: what it deletes nobody in another tenant or of another kind
  requires, but for the scopes in which that is not so of the code (`CannotKnow`,
  `CannotExpect`; section 5). The invariant adds that what nobody may delete is always
  right.
* *ML2Plus.* `JobsFit` says where each request stands, `Told` that the drivers before
  its current one know the row or have raised, and `DriversKnow` that all do when
  nobody is telling them. One implicit pool is said without counting (`ImplicitApart`),
  the count follows. `TenantsAreThere` needs that a project whose tenant goes has no
  request left (`Lives`).
* *Addresses.* `PoolInv`: scopes and pools agree in both directions, and a pool that
  goes has no group (`GroupFits`). `BlockInv`: a group holds the block in
  its row, or the one its worker has made a subnet of; a network lists the blocks that
  its groups hold (`NetsAgree`), no two of them the same (`HoldersApart`, where the
  Neutron network decides). Of groups on different networks, those that hold one block
  are such that a worker had found it free (`CheckedFree`) before another was
  given it (`GroupsApart`, up to `overtaken`). `SegmentInv` is the property, row by row; `TwoSegments` is necessary (section 5). That there is a default
  pool is an assumption: a policy with an explicit scope and neither pools nor prefixes
  would otherwise be left without pools (`resource_mapping.py:1497-1518`).
* *External networks.* What a deletion takes away it takes when no other network is
  found that needs it. That is right because what is there is exactly what the networks
  need: `NetworksInv` for EPGs and routes, `SubnetsInv` for gateways. Of routes this is
  so of the APIC networks whose networks have an EPG each (`MultiApicNets`). `GoesWith` is
  the restriction of the instance (`Apart`, `DnsOf`) for any networks: those of an
  L3Out have an EPG each or one together, networks with EPGs of their own on one APIC
  network have no CIDR in common, and an L3Out that was there before is
  used with own EPGs. A subnet below an EPG keeps its gateway, one without is
  not given one.
* *Network services.* `Divided`: at any time the allocation pools and the reserved
  addresses divide the addresses of the subnet, so that one given back joins its
  neighbours without overlap and one taken leaves none out; for a subnet of any
  size. `FipsInv` says who has a floating address: whoever asks, unless refused.
* *Details of endpoints.* `PortInv`: what an agent has, or will have with the answer
  on its way, is what the rows say, unless the port is announced (in the list of a
  worker that has not notified yet, or in a notice) or was answered too early (`late`).
  `VrfInv` is the same of VRFs. `SnatInv`: nobody cleans up while somebody allocates
  (`Exclusive`), so that what a worker found unneeded is so when it deletes. `PlansFit`:
  the row that Neutron is about to write is of a router that nobody else changes.

### Only model-checked

* *Out of the prover's reach*: liveness under fairness (`RequestsAndDeletionsEnd`,
  `Answered`).
* *Under hypotheses only*: what the theorems above exclude, the runs exclude too, but
  for the clients of a part, which ask for less in a run than in its theorem.
* *A fold over a list*: the mechanism driver of service chains walks the flows and
  groups of a chain (`ChainsAreRealised`); what its loop computes for every list takes
  an induction, which the installed provers cannot do.
* *Not proved yet*: the routing of the AIM driver (`RoutingFollowsPolicy`).
* *The run alone*: bindings on hosts whose reports overlap (`Flapping`).

## 5. Findings and divergences

`md_connectivity` is a run that TLC shows violated, against the code's own
comment and validation tool (quoted in `PROJECT.json`): when an interface moves a
topology to another VRF, only the router of the interface is connected anew; the
other routers of the topology with a gateway keep their contracts in the VRF they
have left.

More configurations stand beside the runs. TLC finds each of their properties
violated, against the text named here:

| Configuration | Property | What the code does |
|---|---|---|
| `MCGroupPolicyTargets` | `GroupDeletionLeavesNoTarget` | the deletion of a group leaves policy targets that the request cannot see, of another tenant in a shared group or created since (`plugin.py:637`; "Delete the PTG's PTs", 660) |
| `MCDriverManagerContinue` | `EveryDriverIsNotified` | `continue_on_failure` does not continue when a driver raises an error of GBP or Neutron (`policy_driver_manager.py:142`; 114-115) |
| `MCImplicitPolicyRename` | `OneDefaultL3Policy` | an L3 policy can be renamed to the default name beside another (`implicit_policy.py:331`; `exceptions.py:202`) |
| `MCImplicitPolicyUnshare` | `SharedUsesShared` | the default L3 policy can be reverted to private between the validation of a link to it and the write of the link (`group_policy_context.py:134`; `plugin.py:87`) |
| `MCImplicitPolicyOvertake` | `GroupKeepsL2Policy` | an L2 policy that an update gives a group during its creation is replaced by the implicit one (`group_policy_context.py:63`; `exceptions.py:65`) |
| `MCDistributedSnatGraph` | `ContractHasGraph` | the service graph of a network goes with any of its distributed SNAT subnets (`distributed_snat_helper.py:745`; 730) |
| `MCMappingDriversSubjects` | `ContractsHoldOwnRules` | when the direction of a classifier changes, the subject of each rule set gets the filters of the rules of others (`aim_mapping.py:847`; `test_aim_mapping_driver.py:851`) |
| `MCServicesVrfs` | `UnroutedVrfIsKnown` | the VRF that a network leaves is read after the new one was set, and not notified (`mechanism_driver.py:4845`; 4843) |
| `MCServicesRoutes` | `SegmentsAreCompatible` | the external segments of an L3 policy are compared with the first of them only, so the second and the third can have one route (`services/grouppolicy/plugin.py:312-323`; "cannot have identical external route CIDR", `common/exceptions.py:331`) |

Limits of the code that shaped the properties, found while modelling:

* The link of a rule set to its parent is exempt in `SharedUsesShared`: a
  private parent can take a shared child, since the child's references are not
  validated in the parent's request.
* The one service management group of a tenant is guarded in creations; an
  update of `service_management` can make a second one.
* A port bound after the check of a group's deletion is deleted with its target.
* The deletion that undoes a creation can be refused; the row then stays and the
  client gets the second error. No second row is left all the same (`OneRowIsLeft`).
* With impatient clients a group may use an L2 policy whose creation then fails
  and cannot be undone; an update of an L2 policy to an implicit L3 policy is
  not undone when the driver fails. `EveryRowHasItsPolicy` is therefore claimed
  for patient clients that make no updates.
* There is no `_validate_application_policy_group_unshare`: the model gives that
  type no transition to private.
* `DistributedSnat`: with configurations that differ in their first port or in the
  size of a block, a change of the subnet's configuration between the requests of
  two hosts makes candidates that the primary key does not tell apart; the proof
  of `RangesDisjoint` has that as a hypothesis. Switching distributed SNAT
  on and off in updates leaves policy behind (`Switches`).
* `SecurityGroups`: a target reads the rule sets of its group and then writes the security
  groups of its port in other transactions than the ones in which an update of the group
  lists the targets and writes their ports. When the two overlap, the port keeps a
  security group that its group has given up, or lacks a new one, with no request left
  that would notice (`resource_mapping.py:2769-2796`, 2733-2741; `Careful`).
* `AimPolicy`: a group that is deleted between the commit of its creation and its
  postcommit method gets an endpoint group, and a profile, that nothing deletes
  (`aim_mapping.py:499-534`; `detached`).
* `AddressPools`: two workers may both find a block free before either writes its subnet
  (`resource_mapping.py:447-463`, `group_policy_context.py:86-91`; `overtaken`). The
  update of routes asks for L3 policies in the context of the request and so does not
  see private ones of other tenants that use the segment
  (`services/grouppolicy/plugin.py:246`).
* `PortBindings`: the query that releases a domain does not filter by network, so that a
  domain stays when a port of another network is on a host with it as the last one of
  the network leaves. Default domains stay in any case, since only those mapped to the
  host itself are taken away, and the path of a former link stays, since a rebuild of an
  endpoint group adds the new path only. A comment
  (`mechanism_driver.py:6494-6501`) expects that the last of a rapid series of topology
  RPCs puts an SVI right, but an older rebuild may end after it, delete the interfaces
  it has made and write its own (6258-6276).
* `ExternalNetworks`: the deletion of a network without an EPG of its own that shares its
  APIC network with another leaves its CIDRs routed (`mechanism_driver.py:1263-1281`;
  the comments at 855 and 1097 speak of the CIDRs of all networks, and so does the
  validation, 8392-8396).
* `RemoteGroups`: a port that leaves a group and changes its addresses in one
  update leaves an old address in the rules (`mechanism_driver.py:3545-3563`).
* `EndpointRpc`: two first reports of one address at the same time collide
  (`db.py:443`).
* `EndpointDetails`: agents are notified in `create_port_postcommit`
  (`mechanism_driver.py:3324-3325`), before Neutron writes the gateway or the interface
  that details are read from; an agent that asks in between keeps old details (`late`). A
  gateway that is set while an interface of the router is being added notifies no port of
  that interface's network (`Exclusive`). When an interface goes while another router's
  interface on the network waits for its row, the network becomes unrouted. A port whose SNAT address could not be allocated
  (6032-6036, 6076-6084) is not notified when addresses become free.
* `ServiceChains`: a port on a host without a link is never mapped until it is
  bound again; the health groups of pairs that are removed from a mapped group stay
  (`sfc_driver.py:439-443`); `processed_ppgs` makes the driver pass over a
  network of two chains (545), for which reason the instance gives each chain groups of
  its own. Before the external network of a classifier's source is removed with a
  chain, the driver looks for the contracts provided there, twice, where it means the
  consumed ones as well (688-696): what another chain consumes in it goes along
  (`SharedSources`). Two classifiers of the instance share a source and two a
  destination; one group is monitored.
* `Validation`: four runs with a scope do not do what a full run does. One limited to
  routers or address scopes takes the NAT contracts, or the VRF, of an L3 outside that is
  not in the common tenant for unexpected and deletes them (`aim_validation.py:427-434`,
  446; `CannotExpect`). One limited to networks expects these and raises once they exist,
  because it has not registered them (`CannotKnow`). One limited to the tenant of a VRF
  deletes the mapping record of an address scope of another project, and the VRF with it
  (402-419; `CannotExpect`). And the first repair of an address scope whose record was
  lost, with a VRF that is another's, makes a VRF of its own for it; networks routed in
  the VRF of a lost record move to the default VRF in the first repair and back in the
  second (`mechanism_driver.py:7985-8035`): this damage is kept out by `MayBe`.
* `NetworkServices`: a service policy that is changed on a group in use is
  claimed for policies whose floating addresses are unused (`MovesUnused`).

## 6. Not modelled

* Values no reference hangs on: prefix lengths, action values, status, quotas.
* Default external segments in the implicit driver; the automatic group and
  cluster membership in the mapping drivers.
* Bare metal, trunk, DVS and VPP ports, ERSPAN sessions, names derived from
  identifiers, and the cache of machine names in the mechanism driver.
* Snapshot reads: a transaction is one step, as if serialisable. Galera
  certifies writes, not reads, so two transactions may each miss what the other
  writes.
* A server that stops in the middle of a request: nothing resumes it, and a
  client sees a row that no driver has realised.
* The parts listed `not_modelled` in `PROJECT.json`, each with its reason.

## 7. Plan

* *Done.* The specifications of section 2 and their runs; the proofs of section 4.
* *Next*: `AimRouting` (`RoutingFollowsPolicy`), in `MappingDriversProofs`, then bindings on
  hosts whose reports overlap.
* *Later.* A variant of `GroupPolicy` with snapshot reads; a server that stops
  between the stages of a request.
