------------------------------ MODULE Ml2Plus ------------------------------
(* The ML2Plus plugin and its mechanism manager: subnet pools, address
   scopes and security groups are written in a transaction that runs the
   precommit methods of the extended drivers, and then told to each of
   them in order.  Before a creation the AIM tenant of the project is made
   sure of, named as the cache of Keystone projects says; Keystone tells
   of renamed and deleted projects.  One server, several workers. *)
EXTENDS Integers, Sequences, FiniteSets

CONSTANTS
  Ml2Workers,
  Drivers,        \* sequence of the extended drivers, in their order
  Ml2Resources, OwnerProject,      \* resource |-> project
  Subnetpools, SharedPools,  \* those that are subnet pools, shared ones
  GroupResources,            \* those that are security groups
  Projects, ProjectNames,
  NoName,
  Idle,           \* a worker without a request
  Serial,         \* do transactions see each other's writes?
  Patient         \* no project is purged under a creation, and the cache is
                  \* not loaded while Keystone has news

ASSUME Ml2Assumption == SharedPools \subseteq Subnetpools /\ Subnetpools \subseteq Ml2Resources

VARIABLES
  row,        \* 0, or the version of the row: an update switches 1 and 2
  implicit,   \* subnet pools marked implicit
  knows,      \* driver |-> resource |-> the version it was told
  missed,     \* pairs of a driver and a resource it raised for or was not told
  job,        \* request a worker serves
  keystone,   \* name of each project
  cached,     \* name in the cache of project details
  aimTenant,  \* display name of the AIM tenant
  notices,    \* notifications not yet handled: <<"updated" or "deleted", p>>
  purging     \* deleted projects whose resources are being purged

rowVars == <<row, implicit, knows, missed>>
tenantVars == <<cached, aimTenant>>
projectVars == <<keystone, notices, purging>>
ml2Vars == <<rowVars, job, tenantVars, projectVars>>

Busy == {w \in Ml2Workers : job[w] # Idle}
Serving(r) == {w \in Busy : job[w].resource = r}
RowsOf(p) == {r \in Ml2Resources : OwnerProject[r] = p /\ row[r] # 0}
CreationsIn(p) == {w \in Busy : job[w].op = "create" /\ OwnerProject[job[w].resource] = p}
DriverSet == {Drivers[i] : i \in DOMAIN Drivers}

Finish(w) == job' = [job EXCEPT ![w] = Idle]
Proceed(w, step) == job' = [job EXCEPT ![w].step = step]

--------------------
\* ensure_project, load_projects: an unknown project makes the server read the
\* names of all.
Loaded(p) ==
  IF cached[p] # NoName THEN cached
  ELSE [q \in Projects |-> IF keystone[q] # NoName THEN keystone[q] ELSE cached[q]]
MayLoad(p) == Patient /\ cached[p] = NoName => notices = {}

\* The AIM tenant and its application profile are created if missing.
WithTenant(p, names) ==
  IF aimTenant[p] # NoName THEN aimTenant ELSE [aimTenant EXCEPT ![p] = names[p]]

MakeSure(p) ==
  /\ MayLoad(p)
  /\ cached' = Loaded(p)
  /\ aimTenant' = WithTenant(p, Loaded(p))

\* What a transaction that does not see others' writes will go by.
Seen == IF Serial THEN {} ELSE implicit

\* A request.  A subnet pool is created, or updated, with a value of
\* is_implicit or without one ("unset").
StartRequest(w, op, r, flag) ==
  /\ job[w] = Idle /\ Serving(r) = {}
  /\ (op = "create") <=> (row[r] = 0)
  /\ op = "create" =>
       /\ keystone[OwnerProject[r]] # NoName
       /\ Patient => OwnerProject[r] \notin purging
  /\ r \notin Subnetpools \/ op = "delete" => flag = "unset"
  /\ job' = [job EXCEPT ![w] =
       [op |-> op, resource |-> r, flag |-> flag, seen |-> Seen, next |-> 1,
        step |-> IF op = "create" /\ r \notin GroupResources THEN "tenant"
                 ELSE "transaction"]]
  /\ UNCHANGED <<rowVars, tenantVars, projectVars>>

\* _ensure_tenant: before the transaction, in one of its own.
EnsureTenant(w) ==
  /\ w \in Busy /\ job[w].step = "tenant"
  /\ MakeSure(OwnerProject[job[w].resource])
  /\ job' = [job EXCEPT ![w].step = "transaction", ![w].seen = Seen]
  /\ UNCHANGED <<rowVars, projectVars>>

\* Mutant: shared pools count for their tenant only.
ImplicitInTenant(r, seen) == \A o \in seen \ {r} : OwnerProject[o] # OwnerProject[r]

\* update_implicit_subnetpool: no other pool may be implicit for the tenant, nor,
\* if the pool is shared, for all.
MayBeImplicit(r, seen) ==
  LET others == seen \ {r} IN
  /\ \A o \in others : OwnerProject[o] # OwnerProject[r]
  /\ r \in SharedPools => others \cap SharedPools = {}

ImplicitAfter(r, op, flag) ==
  IF op = "delete" \/ flag = "no" THEN implicit \ {r}
  ELSE IF flag = "yes" THEN implicit \cup {r} ELSE implicit

VersionAfter(r, op) ==
  CASE op = "create" -> 1 [] op = "update" -> 3 - row[r] [] op = "delete" -> 0

\* _handle_security_group_change: a callback of Neutron, in the transaction
HandleSecurityGroup(r, op) ==
  IF r \in GroupResources /\ op = "create" THEN MakeSure(OwnerProject[r])
  ELSE UNCHANGED tenantVars

\* The transaction, with the precommit methods of all drivers: any of them may
\* raise, and nothing is written then.  For a security group the tenant is made
\* sure of inside it, and drivers are not called after it.
Transaction(w) ==
  /\ w \in Busy /\ job[w].step = "transaction"
  /\ LET r == job[w].resource  op == job[w].op IN
     /\ op # "delete" /\ job[w].flag = "yes" =>
          MayBeImplicit(r, IF Serial THEN implicit ELSE job[w].seen)
     /\ HandleSecurityGroup(r, op)
     /\ row' = [row EXCEPT ![r] = VersionAfter(r, op)]
     /\ implicit' = ImplicitAfter(r, op, job[w].flag)
     /\ IF r \in GroupResources THEN Finish(w)
        ELSE job' = [job EXCEPT ![w].step = "drivers", ![w].next = 1]
  /\ UNCHANGED <<knows, missed, projectVars>>

AbortTransaction(w) ==
  /\ w \in Busy /\ job[w].step \in {"tenant", "transaction"}
  /\ Finish(w)
  /\ UNCHANGED <<rowVars, tenantVars, projectVars>>

\* _call_on_extended_drivers, after the commit.  One that raises during a creation
\* ends it: the plugin deletes the row, with all a deletion does.
TellDriver(w) ==
  /\ w \in Busy /\ job[w].step = "drivers"
  /\ LET i == job[w].next  d == Drivers[i]  r == job[w].resource IN
     /\ knows' = [knows EXCEPT ![d][r] = row[r]]
     /\ missed' = missed \ {<<d, r>>}
     /\ IF i < Len(Drivers) THEN job' = [job EXCEPT ![w].next = i + 1] ELSE Finish(w)
  /\ UNCHANGED <<row, implicit, tenantVars, projectVars>>

ContinueOnFailure(op) == op # "create"

DriverRaises(w) ==
  /\ w \in Busy /\ job[w].step = "drivers"
  /\ LET i == job[w].next  r == job[w].resource IN
     IF ContinueOnFailure(job[w].op)
     THEN /\ missed' = missed \cup {<<Drivers[i], r>>}
          /\ IF i < Len(Drivers) THEN job' = [job EXCEPT ![w].next = i + 1] ELSE Finish(w)
     ELSE /\ missed' = missed \cup {<<Drivers[k], r>> : k \in i .. Len(Drivers)}
          /\ job' = [job EXCEPT ![w].op = "delete", ![w].step = "transaction"]
  /\ UNCHANGED <<row, implicit, knows, tenantVars, projectVars>>

--------------------
\* Keystone (external): a project is renamed, or deleted, and a notification sent.
RenameProject(p, n) ==
  /\ keystone[p] \notin {n, NoName}
  /\ keystone' = [keystone EXCEPT ![p] = n]
  /\ notices' = notices \cup {<<"updated", p>>}
  /\ UNCHANGED <<rowVars, job, tenantVars, purging>>

DeleteProject(p) ==
  /\ keystone[p] # NoName
  /\ keystone' = [keystone EXCEPT ![p] = NoName]
  /\ notices' = notices \cup {<<"deleted", p>>}
  /\ UNCHANGED <<rowVars, job, tenantVars, purging>>

\* identity.project.updated: nothing is done if the cache has the name already.
ProjectUpdated(p) ==
  /\ <<"updated", p>> \in notices
  /\ notices' = notices \ {<<"updated", p>>}
  /\ IF keystone[p] \in {cached[p], NoName} THEN UNCHANGED tenantVars
     ELSE /\ cached' = [cached EXCEPT ![p] = keystone[p]]
          /\ aimTenant' = IF aimTenant[p] = NoName THEN aimTenant
                          ELSE [aimTenant EXCEPT ![p] = keystone[p]]
  /\ UNCHANGED <<rowVars, job, keystone, purging>>

\* identity.project.deleted: purge_gbp deletes the resources through the API, then
\* the AIM tenant goes with all that is in it.
StartPurge(p) ==
  /\ <<"deleted", p>> \in notices
  /\ Patient => CreationsIn(p) = {}
  /\ purging' = purging \cup {p}
  /\ notices' = notices \ {<<"deleted", p>>}
  /\ UNCHANGED <<rowVars, job, keystone, tenantVars>>

\* Mutant: without waiting for the resources to go.
PurgeAtOnce(p) ==
  /\ p \in purging
  /\ purging' = purging \ {p}
  /\ aimTenant' = [aimTenant EXCEPT ![p] = NoName]
  /\ UNCHANGED <<rowVars, job, keystone, notices, cached>>

PurgeTenant(p) ==
  /\ p \in purging
  /\ RowsOf(p) = {}
  /\ purging' = purging \ {p}
  /\ aimTenant' = [aimTenant EXCEPT ![p] = NoName]
  /\ UNCHANGED <<rowVars, job, keystone, notices, cached>>

Ml2Init ==
  /\ row = [r \in Ml2Resources |-> 0] /\ implicit = {}
  /\ knows = [d \in DriverSet |-> [r \in Ml2Resources |-> 0]] /\ missed = {}
  /\ job = [w \in Ml2Workers |-> Idle]
  /\ keystone \in [Projects -> ProjectNames]
  /\ cached = [p \in Projects |-> NoName] /\ aimTenant = cached
  /\ notices = {} /\ purging = {}

Ml2Next ==
  \/ \E w \in Ml2Workers :
       \/ \E op \in {"create", "update", "delete"}, r \in Ml2Resources,
             flag \in {"yes", "no", "unset"} : StartRequest(w, op, r, flag)
       \/ EnsureTenant(w) \/ Transaction(w) \/ AbortTransaction(w)
       \/ TellDriver(w) \/ DriverRaises(w)
  \/ \E p \in Projects :
       \/ \E n \in ProjectNames : RenameProject(p, n)
       \/ DeleteProject(p) \/ ProjectUpdated(p) \/ StartPurge(p) \/ PurgeTenant(p)

--------------------
Ml2TypeOK ==
  /\ row \in [Ml2Resources -> 0 .. 2] /\ implicit \subseteq Subnetpools
  /\ knows \in [DriverSet -> [Ml2Resources -> 0 .. 2]]
  /\ missed \subseteq DriverSet \X Ml2Resources
  /\ \A w \in Busy : job[w].step \in {"tenant", "transaction", "drivers"}
  /\ keystone \in [Projects -> ProjectNames \cup {NoName}]
  /\ cached \in [Projects -> ProjectNames \cup {NoName}]
  /\ aimTenant \in [Projects -> ProjectNames \cup {NoName}]
  /\ notices \subseteq {"updated", "deleted"} \X Projects
  /\ purging \subseteq Projects

\* When no request for a resource is being served, every driver was told of its
\* row as it is, or raised for it, or stands behind one that did in a creation
\* that could not be undone.
DriversFollowRows ==
  \A r \in Ml2Resources \ GroupResources, d \in DriverSet :
    Serving(r) = {} /\ <<d, r>> \notin missed => knows[d][r] = row[r]

\* At most one implicit subnet pool per tenant, and one for all
\* (implicitsubnetpool_db.py, update_implicit_subnetpool).
OneImplicitPool ==
  /\ implicit \subseteq {r \in Ml2Resources : row[r] # 0}
  /\ \A r, o \in implicit : r # o => OwnerProject[r] # OwnerProject[o]
  /\ Cardinality(implicit \cap SharedPools) <= 1

\* A resource is never without the AIM tenant of its project, and the tenant has
\* the name of the project unless news of it are on the way.
TenantsFollowProjects ==
  \A p \in Projects :
    /\ RowsOf(p) # {} => aimTenant[p] # NoName
    /\ aimTenant[p] # NoName =>
         \/ aimTenant[p] = keystone[p]
         \/ keystone[p] = NoName \/ <<"updated", p>> \in notices
====================
