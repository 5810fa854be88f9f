----------------------------- MODULE Validation -----------------------------
(* gbp-validate: the ValidationManager (aim_validation.py) and the drivers'
   validate_aim_mapping.  From the rows of Neutron and GBP it computes the
   AIM resources and mapping records a deployment must have, compares them
   with those there are and, when asked to repair, adds, overwrites and
   deletes, all in one transaction; ports left unbound are bound after it.
   A run may be limited to kinds of Neutron resources and to tenants: what
   it then expects, registers as actual and dares to delete differs.
   Classes that are treated alike are one class here. *)
EXTENDS FiniteSets

CONSTANTS
  NeutronRows,    \* rows of Neutron and GBP, and the static resources
  KindOf,         \* their kind
  ProjectOf,      \* their project
  VrfOf,          \* the VRF of an address scope's mapping, or of a network's topology
  L3OutsideOf,    \* the L3Outside of each external network
  Unrepairable,   \* rows validation cannot handle: SVI networks, GBP and SFC rows
  WithoutDn,      \* external networks for which no DN is configured to migrate to
  ApicOwned,      \* pre-existing resources, that nobody may delete
  BoundPorts,
  Tenants, Common, NoTenant

VARIABLES
  rows,      \* the rows there are
  bare,      \* networks without extension data, of another plugin
  actual,    \* the resources there are: "missing", "right" or "wrong"
  badly,     \* ports bound by a driver or host that is gone
  unbound,   \* ports with a host that are not bound
  outcome,   \* of the last run, both forgotten when something changes
  scope

validationVars == <<rows, bare, actual, badly, unbound, outcome, scope>>

NoScope == [kinds |-> {"none"}, tenants |-> {}]
Everything == [kinds |-> {}, tenants |-> {}]

--------------------
\* What rows imply: resources and records, by class and tenant.  The tenant of a
\* Tenant is itself.
Resource(c, t, w) == [class |-> c, tenant |-> t, of |-> w]
OfRow(cs, t, w) == {Resource(c, t, w) : c \in cs}

\* The VRF an address scope has if it is not given that of another.
OwnVrf(w) == Resource("VRF", ProjectOf[w], w)

OfProject(p) == OfRow({"Tenant", "ApplicationProfile"}, p, p)
OfStatic == OfRow({"Tenant", "VRF", "Filter"}, Common, Common)
OfScope(w) == {VrfOf[w], Resource("AddressScopeMapping", VrfOf[w].tenant, w)}
OfRouter(w) == OfRow({"Contract", "ContractSubject"}, Common, w)

\* A network is in the tenant of its VRF, unless that is common; the default VRF of
\* a project is there for the networks that have it.
OfNetwork(w) ==
  LET tenant == IF VrfOf[w].tenant = Common THEN ProjectOf[w] ELSE VrfOf[w].tenant
  IN OfRow({"BridgeDomain", "EndpointGroup", "NetworkMapping"}, tenant, w)
     \cup {v \in {VrfOf[w]} : v.class = "DefaultVRF"}

\* The NAT resources of an external network are its L3Outside's, and in its tenant;
\* an L3Outside that is not pre-existing has a VRF of its own.
OfExternal(w) ==
  LET out == L3OutsideOf[w]
  IN OfRow({"ApplicationProfile"}, out.tenant, out.tenant)
     \cup OfRow({"BridgeDomain", "EndpointGroup", "Contract", "ContractSubject", "Filter"},
                out.tenant, out.of)
     \cup OfRow({"NetworkMapping"}, out.tenant, w)
     \cup IF out \in ApicOwned THEN {out} ELSE {out, Resource("VRF", out.tenant, out.of)}

OfSecurityGroup(w) ==
  OfRow({"SecurityGroup", "SecurityGroupSubject", "SecurityGroupRule"}, ProjectOf[w], w)

Networks == {"network", "external_network"}

Implied(w) ==
  CASE KindOf[w] = "static" -> OfStatic
    [] KindOf[w] = "policy" -> {}
    [] OTHER -> OfProject(ProjectOf[w]) \cup
         CASE KindOf[w] = "address_scope" -> OfScope(w)
           [] KindOf[w] = "router" -> OfRouter(w)
           [] KindOf[w] = "network" -> OfNetwork(w)
           [] KindOf[w] = "external_network" -> OfExternal(w)
           [] KindOf[w] = "security_group" -> OfSecurityGroup(w)
           [] OTHER -> {}

Resources == ApicOwned \cup UNION {Implied(w) : w \in NeutronRows}
Records == {r \in Resources : r.class \in {"AddressScopeMapping", "NetworkMapping"}}

--------------------
\* What a run looks at.
Kinds == {"router", "security_group", "network", "port", "subnetpool",
          "floatingip", "address_scope"}

\* The classes a run limited to a kind looks at.
ClassesOf ==
  LET perProject == {"Tenant", "ApplicationProfile"}
  IN [router |-> perProject \cup {"Contract", "ContractSubject"},
      security_group |-> perProject \cup
        {"SecurityGroup", "SecurityGroupSubject", "SecurityGroupRule"},
      network |-> perProject \cup
        {"BridgeDomain", "EndpointGroup", "L3Outside", "VRF", "DefaultVRF",
         "NetworkMapping", "AddressScopeMapping"},
      port |-> perProject \cup {"Span"},
      subnetpool |-> perProject,
      floatingip |-> perProject,
      address_scope |-> perProject \cup {"VRF", "DefaultVRF", "AddressScopeMapping"}]
Classes(s) == UNION {ClassesOf[k] : k \in s.kinds}

Limited(s) == s # Everything
LookedAt(c, s) == s.kinds # {} => c \in Classes(s)
InTenants(t, s) == s.tenants # {} => t \in s.tenants

--------------------
\* Rows.

OfKind(k, s) == s.kinds # {} => k \in s.kinds

\* All networks and ports are processed whatever the tenants.  Subnet pools
\* are asked for by a name that no argument has.
Processed(w, s) ==
  LET k == KindOf[w]
      mine == InTenants(ProjectOf[w], s)
  IN CASE k \in {"static", "policy"} -> TRUE
       [] k \in Networks -> OfKind("network", s)
       [] k = "port" -> OfKind(k, s)
       [] k = "address_scope" -> mine /\ (OfKind(k, s) \/ OfKind("network", s))
       [] k = "subnetpool" -> mine /\ OfKind("subnet_pool", s)
       [] OTHER -> mine /\ OfKind(k, s)

ProcessedRows(s) == {w \in rows : Processed(w, s)}

--------------------
\* Resources.

HasTenantName(r) == r.class # "Tenant" /\ r.tenant # NoTenant

\* What the run knows of the actual resources.
Registered(r, s) ==
  IF r \in Records THEN LookedAt(r.class, s)
  ELSE IF r.class = "Tenant" THEN r.tenant = Common \/ InTenants(r.tenant, s)
  ELSE \/ ~HasTenantName(r) \/ r.tenant = Common
       \/ LookedAt(r.class, s) /\ InTenants(r.tenant, s)

\* Pre-existing resources for external networking are expected as they are.
Copied(r, s) ==
  /\ r \in ApicOwned /\ actual[r] # "missing" /\ Registered(r, s)
  /\ r.class \in {"L3Outside", "VRF"}
  /\ r.tenant = Common \/ InTenants(r.tenant, s)

ExpectedBy(s) ==
  (UNION {Implied(w) : w \in ProcessedRows(s)}) \cup {r \in Resources : Copied(r, s)}

\* Mutant: mapping records of all tenants are deleted.
DeletableRecord(r, s) ==
  \/ r \in Records
  \/ /\ r \notin ApicOwned
     /\ Limited(s) => /\ r.class \notin {"Tenant", "ApplicationProfile", "DefaultVRF"}
                      /\ HasTenantName(r) /\ r.tenant # Common
                      /\ InTenants(r.tenant, s)

\* Whether a resource nothing implies is deleted.
Deletable(r, s) ==
  IF r \in Records
  THEN s.tenants # {} /\ r.tenant # NoTenant => r.tenant \in s.tenants
  ELSE /\ r \notin ApicOwned
       /\ Limited(s) => /\ r.class \notin {"Tenant", "ApplicationProfile", "DefaultVRF"}
                        /\ HasTenantName(r) /\ r.tenant # Common
                        /\ InTenants(r.tenant, s)

\* Whether a resource that is not registered is created.
Creatable(r, s) ==
  r \in Records \/ r.tenant \in {Common, NoTenant} \/ InTenants(r.tenant, s)

Unexpected(s) ==
  LET present == {r \in Resources : /\ actual[r] # "missing"
                                    /\ Registered(r, s) /\ Deletable(r, s)}
  IN present \ ExpectedBy(s)
Incorrect(s) == {r \in ExpectedBy(s) : actual[r] = "wrong" /\ Registered(r, s)}
Missing(s) == {r \in ExpectedBy(s) : /\ Registered(r, s) => actual[r] = "missing"
                                     /\ Creatable(r, s)}

\* Resources that exist, but not for the run: creating one fails.
Clashing(s) == {r \in Missing(s) : actual[r] # "missing"}

BareRows(s) == {w \in bare \cap rows : OfKind("network", s)}

Problems(s) == Unexpected(s) \cup Incorrect(s) \cup Missing(s) \cup BareRows(s) \cup badly

\* Mutant: what is unexpected stays.
AddedOnly(s) ==
  [r \in Resources |-> IF r \in Incorrect(s) \cup Missing(s) THEN "right" ELSE actual[r]]

RepairedBy(wanted, unwanted) ==
  [r \in Resources |-> IF r \in unwanted THEN "missing"
                       ELSE IF r \in wanted THEN "right"
                       ELSE actual[r]]

Repaired(s) == RepairedBy(Incorrect(s) \cup Missing(s), Unexpected(s))

CannotRepair(s) == ProcessedRows(s) \cap Unrepairable # {}

ResultOf(s, repair) ==
  IF CannotRepair(s) \/ BareRows(s) \cap WithoutDn # {}
  THEN "failed unrepairable"
  ELSE IF Clashing(s) # {} THEN "failed with exception"
  ELSE IF Problems(s) = {} THEN "passed"
  ELSE IF repair THEN "repaired"
  ELSE "failed repairable"

--------------------
ValidationInit ==
  /\ rows \in SUBSET NeutronRows
  /\ {w \in NeutronRows : KindOf[w] = "static"} \subseteq rows
  /\ bare = {} /\ badly = {} /\ unbound = {}
  /\ actual = [r \in Resources |->
                 IF r \in ApicOwned \cup UNION {Implied(w) : w \in rows}
                 THEN "right" ELSE "missing"]
  /\ outcome = "none" /\ scope = NoScope

Forget == scope' = NoScope /\ outcome' = "none"

\* Without a driver for their binding, ports are left unbound.
Unbind(committed) == badly' = IF committed THEN {} ELSE badly

\* Any of the ports may be one that cannot be bound.
BindUnbound(open, result) ==
  \E failed \in SUBSET open :
    /\ unbound' = failed
    /\ outcome' = IF failed = {} THEN result ELSE "failed binding ports"

\* Commits the repairs, and binds again the ports left.
FinishRun(s, repair, result) ==
  LET committed == result = "repaired"
      binds == repair /\ result \in {"passed", "repaired"}
      open == IF committed THEN unbound \cup badly ELSE unbound
  IN /\ actual' = IF committed THEN Repaired(s) ELSE actual
     /\ bare' = IF committed THEN bare \ BareRows(s) ELSE bare
     /\ Unbind(committed)
     /\ IF binds
        THEN BindUnbound(open, result)
        ELSE unbound' = open /\ outcome' = result
     /\ scope' = s
     /\ UNCHANGED rows

\* One run.
Validate(s, repair) == FinishRun(s, repair, ResultOf(s, repair))

\* Records go with their rows.  That of an address scope says which VRF is its own,
\* and without it a repair makes another of one that is not; and networks routed in
\* the VRF are moved to the default one until it is there again.
MayBe(r, value) ==
  /\ r \in Records => r.of \in rows
  /\ r.class = "AddressScopeMapping" =>
       value # "wrong" /\ VrfOf[r.of] = OwnVrf(r.of)
       /\ \A w \in rows : KindOf[w] = "network" => VrfOf[w] # VrfOf[r.of]

\* Whatever happened to AIM or to the records behind the drivers' back.
Damage(r, value) ==
  /\ actual[r] # value /\ r \notin ApicOwned /\ MayBe(r, value)
  /\ actual' = [actual EXCEPT ![r] = value]
  /\ Forget
  /\ UNCHANGED <<rows, bare, badly, unbound>>

\* A network of another plugin, and a binding of a driver that is gone.
Migrated(w) ==
  /\ w \in rows \ bare /\ KindOf[w] \in Networks
  /\ bare' = bare \cup {w} /\ Forget
  /\ UNCHANGED <<rows, actual, badly, unbound>>
LoseBinding(p) ==
  /\ p \notin badly \cup unbound
  /\ badly' = badly \cup {p} /\ Forget
  /\ UNCHANGED <<rows, bare, actual, unbound>>

--------------------
ValidationTypeOK ==
  /\ rows \subseteq NeutronRows /\ bare \subseteq rows
  /\ actual \in [Resources -> {"missing", "right", "wrong"}]
  /\ badly \cup unbound \subseteq BoundPorts /\ badly \cap unbound = {}

RequiredBy(r) == \E w \in rows : r \in Implied(w)

\* NAT resources of an L3Outside that is not in the common tenant.
OutsideCommon(s) ==
  \E w \in rows : /\ KindOf[w] = "external_network" /\ L3OutsideOf[w].tenant # Common
                  /\ InTenants(L3OutsideOf[w].tenant, s)

\* Runs limited to networks do not know of the NAT resources they expect, and raise
\* once these are there; those limited to routers or to address scopes do not
\* expect the ones they know of.
CannotKnow(s) == "network" \in s.kinds /\ OutsideCommon(s)
CannotExpect(s) ==
  \/ s.kinds \cap {"router", "address_scope"} # {} /\ "network" \notin s.kinds
     /\ OutsideCommon(s)
  \/ \E w \in rows : /\ KindOf[w] = "address_scope" /\ ProjectOf[w] \notin s.tenants
                     /\ VrfOf[w].tenant \in s.tenants

\* After a run that passed or repaired, the same run passes, unless it cannot know
\* what is there; after one of everything, AIM and the records are what the rows
\* imply (ValidationManager.validate).
RepairsConverge ==
  outcome \in {"passed", "repaired", "failed binding ports"} =>
    /\ ~CannotKnow(scope) => Problems(scope) = {}
    /\ scope = Everything =>
         \A r \in Resources \ ApicOwned : (actual[r] = "right") <=> RequiredBy(r)

\* What a limited run changes, the run of everything would have changed the
\* same way: it deletes nothing that a row it does not look at implies, and
\* creates nothing that none implies (_should_register_resource,
\* _should_validate_unexpected_resource, _should_handle_missing_resource).  Not so
\* the runs that do not expect what they know of: they delete resources of external
\* networks, and records and VRFs of the address scopes of other tenants.
ScopedRunsAgree ==
  [][scope' # NoScope /\ ~CannotExpect(scope') =>
       \A r \in Resources : actual'[r] # actual[r] =>
         actual'[r] = IF RequiredBy(r) THEN "right" ELSE "missing"]_validationVars
====================
