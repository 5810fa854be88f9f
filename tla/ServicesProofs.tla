---------------------------- MODULE ServicesProofs ----------------------------
(* Theorems about parts that MCServices composes, each for any values of
   its constants: validation and repair, the ML2Plus plugin, the addresses
   of L3 policies, external networks, network services.

   The parts share no state.  Each has a specification of its own here,
   with clients that ask for anything but what a definition excludes.
   What MCServices checks with one formula for a part is proved of that
   specification, from an inductive invariant that says in addition what
   holds between the steps of a request. *)
EXTENDS MCServices, FiniteSetTheorems, TLAPS

--------------------
(* Validation and repair *)

\* What is said of the rows: their projects are tenants of their own, the VRFs and
\* L3Outsides they are given are such, and what nobody may delete is no record.
ValidationRows ==
  /\ \A w \in NeutronRows : KindOf[w] \notin {"static", "policy"} => ProjectOf[w] \in Tenants
  /\ Common \notin Tenants /\ NoTenant \notin Tenants /\ Common # NoTenant
  /\ \A w \in NeutronRows :
       /\ KindOf[w] = "address_scope" => VrfOf[w].class = "VRF" /\ VrfOf[w].tenant # NoTenant
       /\ KindOf[w] = "network" => VrfOf[w].tenant # NoTenant
       /\ KindOf[w] = "external_network" =>
            L3OutsideOf[w].class = "L3Outside" /\ L3OutsideOf[w].tenant # NoTenant
  /\ \A r \in ApicOwned : r.class \notin {"AddressScopeMapping", "NetworkMapping"}

\* Runs over any of the kinds and tenants, repairing or not; and any damage.
ValidationScopes == [kinds : SUBSET Kinds, tenants : SUBSET Tenants]
AnyValidation ==
  \/ \E s \in ValidationScopes, repair \in BOOLEAN : Validate(s, repair)
  \/ \E r \in Resources, v \in {"missing", "right", "wrong"} : Damage(r, v)
  \/ \E w \in NeutronRows : Migrated(w)
  \/ \E p \in BoundPorts : LoseBinding(p)
ValidationSpec == ValidationInit /\ [][AnyValidation]_validationVars

ValidationInv ==
  /\ ValidationTypeOK
  /\ outcome \in {"passed", "repaired", "failed binding ports"} /\ ~CannotKnow(scope) =>
       Problems(scope) = {}
  /\ \A r \in ApicOwned : actual[r] = "right"

\* What a row implies is of the classes of its kind, and of a tenant of its own.
ImpliedClass(w, r) ==
  \/ r.class \in {"Tenant", "ApplicationProfile"}
  \/ KindOf[w] = "address_scope" /\ r.class \in {"VRF", "AddressScopeMapping"}
       /\ r.tenant = VrfOf[w].tenant
  \/ KindOf[w] = "router" /\ r.class \in {"Contract", "ContractSubject"} /\ r.tenant = Common
  \/ KindOf[w] = "network"
       /\ r.class \in {"BridgeDomain", "EndpointGroup", "NetworkMapping", "DefaultVRF"}
  \/ KindOf[w] = "external_network" /\ r.tenant = L3OutsideOf[w].tenant
       /\ r.class \in {"BridgeDomain", "EndpointGroup", "Contract", "ContractSubject", "Filter",
                       "NetworkMapping", "L3Outside", "VRF"}
  \/ KindOf[w] = "security_group" /\ r.tenant = ProjectOf[w]
       /\ r.class \in {"SecurityGroup", "SecurityGroupSubject", "SecurityGroupRule"}

LEMMA OfRowHas ==
  ASSUME NEW cs, NEW t, NEW w, NEW r \in OfRow(cs, t, w)
  PROVE  r.class \in cs /\ r.tenant = t
  BY DEF OfRow, Resource

LEMMA ImpliedKinds ==
  ASSUME ValidationRows, NEW w \in NeutronRows, NEW r \in Implied(w)
  PROVE  /\ r.tenant # NoTenant
         /\ \/ /\ KindOf[w] = "static" /\ r.tenant = Common
               /\ r.class \in {"Tenant", "VRF", "Filter"}
            \/ KindOf[w] \notin {"static", "policy"} /\ ImpliedClass(w, r)
<1>1. CASE KindOf[w] = "static"
  <2>1. Implied(w) = OfStatic
    BY <1>1 DEF Implied
  <2>2. r.class \in {"Tenant", "VRF", "Filter"} /\ r.tenant = Common
    BY <2>1, OfRowHas DEF OfStatic
  <2> QED BY <1>1, <2>2 DEF ValidationRows
<1>2. CASE KindOf[w] = "policy"
  BY <1>2 DEF Implied
<1>3. CASE KindOf[w] \notin {"static", "policy"}
  <2> DEFINE mine == CASE KindOf[w] = "address_scope" -> OfScope(w)
                       [] KindOf[w] = "router" -> OfRouter(w)
                       [] KindOf[w] = "network" -> OfNetwork(w)
                       [] KindOf[w] = "external_network" -> OfExternal(w)
                       [] KindOf[w] = "security_group" -> OfSecurityGroup(w)
                       [] OTHER -> {}
  <2>1. r \in OfProject(ProjectOf[w]) \cup mine
    BY <1>3 DEF Implied
  <2>2. ProjectOf[w] \in Tenants /\ ProjectOf[w] # NoTenant /\ Common # NoTenant
    BY <1>3 DEF ValidationRows
  <2>3. CASE r \in OfProject(ProjectOf[w])
    <3>1. r.class \in {"Tenant", "ApplicationProfile"} /\ r.tenant = ProjectOf[w]
      BY <2>3, OfRowHas DEF OfProject
    <3> QED BY <3>1, <2>2, <1>3 DEF ImpliedClass
  <2>4. CASE r \in mine
    <3>1. CASE KindOf[w] = "address_scope"
      <4>1. r \in OfScope(w) /\ VrfOf[w].class = "VRF" /\ VrfOf[w].tenant # NoTenant
        BY <2>4, <3>1 DEF ValidationRows
      <4> QED BY <4>1, <3>1 DEF OfScope, Resource, ImpliedClass
    <3>2. CASE KindOf[w] = "router"
      BY <2>2, <2>4, <3>2 DEF OfRouter, OfRow, Resource, ImpliedClass
    <3>3. CASE KindOf[w] = "network"
      <4>1. r \in OfNetwork(w) /\ VrfOf[w].tenant # NoTenant
        BY <2>4, <3>3 DEF ValidationRows
      <4> QED BY <4>1, <3>3, <2>2 DEF OfNetwork, OfRow, Resource, ImpliedClass
    <3>4. CASE KindOf[w] = "external_network"
      <4>1. /\ r \in OfExternal(w) /\ L3OutsideOf[w].tenant # NoTenant
            /\ L3OutsideOf[w].class = "L3Outside"
        BY <2>4, <3>4 DEF ValidationRows
      <4> DEFINE out == L3OutsideOf[w]
      <4>2. \/ r \in OfRow({"ApplicationProfile"}, out.tenant, out.tenant)
            \/ r \in OfRow({"BridgeDomain", "EndpointGroup", "Contract", "ContractSubject",
                            "Filter"}, out.tenant, out.of)
            \/ r \in OfRow({"NetworkMapping"}, out.tenant, w)
            \/ r = out \/ r = Resource("VRF", out.tenant, out.of)
        BY <4>1 DEF OfExternal
      <4>3. CASE r = out \/ r = Resource("VRF", out.tenant, out.of)
        <5>1. r.class \in {"L3Outside", "VRF"} /\ r.tenant = out.tenant
          BY <4>1, <4>3 DEF Resource
        <5> QED BY <4>1, <5>1, <3>4 DEF ImpliedClass
      <4>4. CASE r \in OfRow({"ApplicationProfile"}, out.tenant, out.tenant)
        <5>1. r.class \in {"ApplicationProfile"} /\ r.tenant = out.tenant
          BY <4>4, OfRowHas
        <5> QED BY <4>1, <5>1, <1>3 DEF ImpliedClass
      <4>5. CASE r \in OfRow({"BridgeDomain", "EndpointGroup", "Contract", "ContractSubject",
                            "Filter"}, out.tenant, out.of)
        <5>1. /\ r.class \in {"BridgeDomain", "EndpointGroup", "Contract", "ContractSubject", "Filter"}
              /\ r.tenant = out.tenant
          BY <4>5, OfRowHas
        <5> QED BY <4>1, <5>1, <3>4 DEF ImpliedClass
      <4>6. CASE r \in OfRow({"NetworkMapping"}, out.tenant, w)
        <5>1. r.class \in {"NetworkMapping"} /\ r.tenant = out.tenant
          BY <4>6, OfRowHas
        <5> QED BY <4>1, <5>1, <3>4 DEF ImpliedClass
      <4> QED BY <4>2, <4>3, <4>4, <4>5, <4>6
    <3>5. CASE KindOf[w] = "security_group"
      BY <2>2, <2>4, <3>5 DEF OfSecurityGroup, OfRow, Resource, ImpliedClass
    <3> QED BY <2>4, <3>1, <3>2, <3>3, <3>4, <3>5
  <2> QED BY <1>3, <2>1, <2>3, <2>4
<1> QED BY <1>1, <1>2, <1>3

\* The classes a run over a kind looks at.
LEMMA KindIsLookedAt ==
  ASSUME NEW s \in ValidationScopes, NEW k \in s.kinds, NEW c \in ClassesOf[k]
  PROVE  LookedAt(c, s)
  BY DEF LookedAt, Classes, ValidationScopes

\* What a run is to create, it knows of if it exists already.
LEMMA CreatableIsRegistered ==
  ASSUME ValidationRows, NEW s \in ValidationScopes, ~CannotKnow(s), rows \subseteq NeutronRows,
         NEW w \in rows, Processed(w, s), NEW r \in Implied(w), Creatable(r, s)
  PROVE  Registered(r, s)
<1>1. s.kinds \subseteq Kinds /\ s.tenants \subseteq Tenants /\ w \in NeutronRows
  BY DEF ValidationScopes
<1>2. CASE KindOf[w] = "static" \/ KindOf[w] = "policy"
  BY <1>1, <1>2, ImpliedKinds DEF Registered, Records, HasTenantName
<1>3. CASE KindOf[w] \notin {"static", "policy"}
  <2>1. r.tenant # NoTenant /\ ImpliedClass(w, r)
    BY <1>1, <1>3, ImpliedKinds
  <2>2. CASE r.tenant = Common /\ r \notin Records
    BY <2>2 DEF Registered
  <2>3. CASE r.tenant # Common \/ r \in Records
    <3> SUFFICES LookedAt(r.class, s)
      BY <2>1, <2>3 DEF Registered, Creatable
    <3>1. CASE s.kinds = {}
      BY <3>1 DEF LookedAt
    <3>2. CASE s.kinds # {}
      <4>1. PICK k \in s.kinds : TRUE
        BY <3>2
      <4>2. {"Tenant", "ApplicationProfile"} \subseteq ClassesOf[k]
        BY <1>1 DEF ClassesOf, Kinds
      <4>3. CASE r.class \in {"Tenant", "ApplicationProfile"}
        BY <4>2, <4>3, KindIsLookedAt
      <4>4. CASE KindOf[w] = "address_scope" /\ r.class \in {"VRF", "AddressScopeMapping"}
        <5>1. "address_scope" \in s.kinds \/ "network" \in s.kinds
          BY <3>2, <4>4 DEF Processed, OfKind, Networks
        <5>2. r.class \in ClassesOf["address_scope"] /\ r.class \in ClassesOf["network"]
          BY <4>4 DEF ClassesOf
        <5> QED BY <5>1, <5>2, KindIsLookedAt
      <4>5. CASE KindOf[w] = "router" /\ r.class \in {"Contract", "ContractSubject"}
        <5>1. "router" \in s.kinds
          BY <3>2, <4>5 DEF Processed, OfKind, Networks
        <5>2. r.class \in ClassesOf["router"]
          BY <4>5 DEF ClassesOf
        <5> QED BY <5>1, <5>2, KindIsLookedAt
      <4>6. CASE /\ KindOf[w] \in Networks
                 /\ r.class \in {"BridgeDomain", "EndpointGroup", "NetworkMapping", "DefaultVRF",
                                 "L3Outside", "VRF"}
        <5>1. "network" \in s.kinds
          BY <3>2, <4>6 DEF Processed, OfKind, Networks
        <5>2. r.class \in ClassesOf["network"]
          BY <4>6 DEF ClassesOf
        <5> QED BY <5>1, <5>2, KindIsLookedAt
      <4>7. CASE /\ KindOf[w] = "external_network" /\ r.tenant = L3OutsideOf[w].tenant
                 /\ r.class \in {"Contract", "ContractSubject", "Filter"}
        <5>1. "network" \in s.kinds
          BY <3>2, <4>7 DEF Processed, OfKind, Networks
        <5>2. r \notin Records
          BY <4>7 DEF Records
        <5>3. r.tenant # Common /\ InTenants(r.tenant, s)
          BY <5>2, <2>1, <2>3 DEF Creatable
        <5> QED BY <5>1, <5>3, <4>7 DEF CannotKnow, OutsideCommon
      <4>8. CASE /\ KindOf[w] = "security_group"
                 /\ r.class \in {"SecurityGroup", "SecurityGroupSubject", "SecurityGroupRule"}
        <5>1. "security_group" \in s.kinds
          BY <3>2, <4>8 DEF Processed, OfKind, Networks
        <5>2. r.class \in ClassesOf["security_group"]
          BY <4>8 DEF ClassesOf
        <5> QED BY <5>1, <5>2, KindIsLookedAt
      <4> QED BY <2>1, <4>3, <4>4, <4>5, <4>6, <4>7, <4>8 DEF ImpliedClass, Networks
    <3> QED BY <3>1, <3>2
  <2> QED BY <2>2, <2>3
<1> QED BY <1>2, <1>3

\* What a run dares to delete, no row it does not look at implies.
LEMMA DeletableIsProcessed ==
  ASSUME ValidationRows, NEW s \in ValidationScopes, ~CannotExpect(s), rows \subseteq NeutronRows,
         NEW w \in rows, NEW r \in Implied(w), r \in Resources, Registered(r, s), Deletable(r, s)
  PROVE  Processed(w, s)
<1>1. s.kinds \subseteq Kinds /\ s.tenants \subseteq Tenants /\ w \in NeutronRows
  BY DEF ValidationScopes
<1>2. CASE KindOf[w] = "static" \/ KindOf[w] = "policy"
  BY <1>2 DEF Processed, Networks
<1>3. CASE KindOf[w] \notin {"static", "policy"}
  <2>1. r.tenant # NoTenant /\ ImpliedClass(w, r)
    BY <1>1, <1>3, ImpliedKinds
  <2>2. CASE s = Everything
    BY <2>2 DEF Everything, Processed, OfKind, InTenants
  <2>3. CASE s # Everything
    <3>1. /\ LookedAt(r.class, s) /\ InTenants(r.tenant, s)
          /\ r.class \notin {"Tenant", "ApplicationProfile"}
          /\ r \notin Records => r.tenant # Common /\ r.class # "DefaultVRF"
      <4>1. CASE r \in Records
        BY <4>1, <2>1 DEF Registered, Deletable, InTenants, Records
      <4>2. CASE r \notin Records
        BY <4>2, <2>1, <2>3 DEF Registered, Deletable, Limited, HasTenantName
      <4> QED BY <4>1, <4>2
    <3>2. \A k \in Kinds : (s.kinds # {} => k \in s.kinds) => OfKind(k, s)
      BY DEF OfKind
    <3>3. s.kinds # {} => \E k \in s.kinds : k \in Kinds /\ r.class \in ClassesOf[k]
      BY <1>1, <3>1 DEF LookedAt, Classes
    <3>4. CASE KindOf[w] = "address_scope" /\ r.class \in {"VRF", "AddressScopeMapping"}
                 /\ r.tenant = VrfOf[w].tenant
      <4>1. s.kinds # {} => "address_scope" \in s.kinds \/ "network" \in s.kinds
        BY <3>3, <3>4 DEF ClassesOf, Kinds
      <4>2. InTenants(ProjectOf[w], s)
        BY <3>1, <3>4 DEF InTenants, CannotExpect
      <4> QED BY <4>1, <4>2, <3>4 DEF Processed, OfKind, Networks
    <3>5. CASE KindOf[w] = "router" /\ r.class \in {"Contract", "ContractSubject"} /\ r.tenant = Common
      BY <3>1, <3>5 DEF Records
    <3>6. CASE KindOf[w] \in Networks /\ r.class \in {"BridgeDomain", "EndpointGroup", "NetworkMapping",
                                                     "L3Outside"}
      <4>1. s.kinds # {} => "network" \in s.kinds
        BY <3>3, <3>6 DEF ClassesOf, Kinds
      <4> QED BY <4>1, <3>6 DEF Processed, OfKind, Networks
    <3>7. CASE KindOf[w] = "network" /\ r.class = "DefaultVRF"
      BY <3>1, <3>7 DEF Records
    <3>8. CASE /\ KindOf[w] = "external_network" /\ r.tenant = L3OutsideOf[w].tenant
               /\ r.class \in {"Contract", "ContractSubject", "Filter", "VRF"}
      <4>1. OutsideCommon(s)
        BY <3>1, <3>8 DEF OutsideCommon, Records
      <4>2. \A k \in Kinds : r.class \in ClassesOf[k] => k \in {"router", "address_scope", "network"}
        <5> SUFFICES ASSUME NEW k \in Kinds, r.class \in ClassesOf[k]
                     PROVE  k \in {"router", "address_scope", "network"}
          OBVIOUS
        <5>1. k \notin {"security_group", "port", "subnetpool", "floatingip"}
          BY <3>8 DEF ClassesOf
        <5> QED BY <5>1 DEF Kinds
      <4>3. ASSUME s.kinds # {}, "network" \notin s.kinds
            PROVE  FALSE
        <5>1. PICK k \in s.kinds : k \in {"router", "address_scope"}
          BY <3>3, <4>2, <4>3
        <5>2. s.kinds \cap {"router", "address_scope"} # {}
          BY <5>1
        <5> QED BY <4>1, <4>3, <5>2 DEF CannotExpect
      <4> QED BY <4>3, <3>8 DEF Processed, OfKind, Networks
    <3>9. CASE /\ KindOf[w] = "security_group" /\ r.tenant = ProjectOf[w]
               /\ r.class \in {"SecurityGroup", "SecurityGroupSubject", "SecurityGroupRule"}
      <4>1. s.kinds # {} => "security_group" \in s.kinds
        BY <3>3, <3>9 DEF ClassesOf, Kinds
      <4> QED BY <4>1, <3>1, <3>9 DEF Processed, OfKind, Networks
    <3> QED BY <2>1, <3>1, <3>4, <3>5, <3>6, <3>7, <3>8, <3>9 DEF ImpliedClass, Networks
  <2> QED BY <2>2, <2>3
<1> QED BY <1>2, <1>3

\* What a run expects, a row it looks at implies, or it is kept as it is.
LEMMA InUnion ==
  ASSUME NEW P, NEW Q, NEW r
  PROVE  r \in (UNION {Implied(w) : w \in P}) \cup Q <=> (\E w \in P : r \in Implied(w)) \/ r \in Q
<1>1. ASSUME r \in UNION {Implied(w) : w \in P}
      PROVE  \E w \in P : r \in Implied(w)
  <2>1. PICK S \in {Implied(w) : w \in P} : r \in S
    BY <1>1
  <2>2. PICK w \in P : S = Implied(w)
    OBVIOUS
  <2> QED BY <2>1, <2>2
<1>2. ASSUME NEW w \in P, r \in Implied(w)
      PROVE  r \in UNION {Implied(v) : v \in P}
  <2>1. Implied(w) \in {Implied(v) : v \in P}
    OBVIOUS
  <2> QED BY <1>2, <2>1
<1> QED BY <1>1, <1>2

LEMMA ExpectedIsImplied ==
  ASSUME NEW s, NEW r
  PROVE  r \in ExpectedBy(s) <=>
           (\E w \in ProcessedRows(s) : r \in Implied(w)) \/ (r \in Resources /\ Copied(r, s))
<1>1. r \in ExpectedBy(s) <=>
        (\E w \in ProcessedRows(s) : r \in Implied(w)) \/ r \in {q \in Resources : Copied(q, s)}
  BY InUnion DEF ExpectedBy
<1> QED BY <1>1

\* What is expected is of the resources, since rows are.
LEMMA ExpectedIsKnown ==
  ASSUME rows \subseteq NeutronRows, NEW s
  PROVE  ExpectedBy(s) \subseteq Resources
<1> SUFFICES ASSUME NEW r \in ExpectedBy(s) PROVE r \in Resources
  OBVIOUS
<1>1. CASE \E w \in ProcessedRows(s) : r \in Implied(w)
  BY <1>1 DEF ProcessedRows, Resources
<1> QED BY <1>1, ExpectedIsImplied

\* What is missing and does not clash is known and not there.
LEMMA MissingIsAbsent ==
  ASSUME ValidationRows, rows \subseteq NeutronRows, NEW s \in ValidationScopes,
         NEW r \in Missing(s), Clashing(s) = {}
  PROVE  /\ actual[r] = "missing" /\ (~CannotKnow(s) => Registered(r, s))
         /\ \E w \in ProcessedRows(s) : r \in Implied(w)
<1>1. r \in ExpectedBy(s) /\ Creatable(r, s) /\ actual[r] = "missing"
  BY DEF Missing, Clashing
<1>2. PICK w \in ProcessedRows(s) : r \in Implied(w)
  BY <1>1, ExpectedIsImplied DEF Copied
<1> QED BY <1>1, <1>2, CreatableIsRegistered DEF ProcessedRows

\* A run changes what rows imply, and makes it what they imply.
LEMMA RunsAgree ==
  ASSUME ValidationRows, ValidationTypeOK, \A r \in ApicOwned : actual[r] = "right",
         NEW s \in ValidationScopes, ~CannotExpect(s), Clashing(s) = {}, NEW r \in Resources,
         Repaired(s)[r] # actual[r]
  PROVE  Repaired(s)[r] = (IF RequiredBy(r) THEN "right" ELSE "missing")
<1>1. rows \subseteq NeutronRows
  BY DEF ValidationTypeOK
<1>2. CASE r \in Unexpected(s)
  <2>1. r \notin ExpectedBy(s) /\ Registered(r, s) /\ Deletable(r, s)
    BY <1>2 DEF Unexpected
  <2>2. ~RequiredBy(r)
    <3> SUFFICES ASSUME NEW w \in rows, r \in Implied(w) PROVE FALSE
      BY DEF RequiredBy
    <3>1. Processed(w, s)
      BY <2>1, <1>1, DeletableIsProcessed
    <3> QED BY <2>1, <3>1 DEF ExpectedBy, ProcessedRows
  <2> QED BY <1>2, <2>2 DEF Repaired, RepairedBy
<1>3. CASE r \notin Unexpected(s)
  <2>1. r \in Incorrect(s) \cup Missing(s)
    BY <1>3 DEF Repaired, RepairedBy
  <2>2. RequiredBy(r)
    <3>1. CASE r \in Missing(s)
      BY <3>1, <1>1, MissingIsAbsent DEF RequiredBy, ProcessedRows
    <3>2. CASE r \in Incorrect(s)
      <4>1. r \in ExpectedBy(s) /\ actual[r] = "wrong"
        BY <3>2 DEF Incorrect
      <4>2. r \notin ApicOwned
        BY <4>1
      <4> QED BY <4>1, <4>2, ExpectedIsImplied DEF RequiredBy, ProcessedRows, Copied
    <3> QED BY <2>1, <3>1, <3>2
  <2> QED BY <1>3, <2>1, <2>2 DEF Repaired, RepairedBy
<1> QED BY <1>2, <1>3

\* After a repair, what was expected is there, what else the run may delete is not.
LEMMA RepairSettles ==
  ASSUME ValidationRows, ValidationTypeOK, NEW s \in ValidationScopes, ~CannotKnow(s),
         Clashing(s) = {}, actual' = Repaired(s), UNCHANGED rows, bare' = bare \ BareRows(s), badly' = {}
  PROVE  Problems(s)' = {}
<1>1. rows \subseteq NeutronRows /\ bare \subseteq rows
  BY DEF ValidationTypeOK
<1>2. \A r \in Resources : actual'[r] = IF r \in Unexpected(s) THEN "missing"
                                        ELSE IF r \in Incorrect(s) \cup Missing(s) THEN "right"
                                        ELSE actual[r]
  BY DEF Repaired, RepairedBy
<1>9. ASSUME NEW r
      PROVE  r \in ExpectedBy(s)' <=>
               (\E w \in ProcessedRows(s) : r \in Implied(w)) \/ (r \in Resources /\ Copied(r, s)')
  <2>1. ProcessedRows(s)' = ProcessedRows(s)
    BY DEF ProcessedRows
  <2>2. r \in ExpectedBy(s)' <=>
          (\E w \in ProcessedRows(s)' : r \in Implied(w)) \/ r \in {q \in Resources : Copied(q, s)'}
    <3>1. ExpectedBy(s)' = (UNION {Implied(w) : w \in ProcessedRows(s)'})
                           \cup {q \in Resources : Copied(q, s)'}
      BY DEF ExpectedBy
    <3> QED BY <3>1, InUnion
  <2> QED BY <2>1, <2>2
<1>3. ASSUME NEW r \in Resources
      PROVE  (r \in ExpectedBy(s)') <=> (r \in ExpectedBy(s))
  <2>1. ASSUME r \in ExpectedBy(s)
        PROVE  r \in ExpectedBy(s)'
    <3>1. CASE Copied(r, s)
      <4>1. r \notin Unexpected(s)
        BY <2>1 DEF Unexpected
      <4>2. actual'[r] # "missing"
        BY <4>1, <1>2, <3>1 DEF Copied
      <4> QED BY <4>2, <3>1, <1>9 DEF Copied
    <3>2. CASE \E w \in ProcessedRows(s) : r \in Implied(w)
      BY <3>2, <1>9
    <3> QED BY <2>1, <3>1, <3>2, ExpectedIsImplied
  <2>2. ASSUME r \in ExpectedBy(s)'
        PROVE  r \in ExpectedBy(s)
    <3>1. CASE \E w \in ProcessedRows(s) : r \in Implied(w)
      BY <3>1, ExpectedIsImplied
    <3>2. CASE Copied(r, s)'
      <4>1. CASE actual[r] # "missing"
        BY <4>1, <3>2, ExpectedIsImplied DEF Copied
      <4>2. CASE actual[r] = "missing"
        BY <4>2, <3>2, <1>2 DEF Copied, Incorrect, Missing
      <4> QED BY <4>1, <4>2
    <3> QED BY <2>2, <3>1, <3>2, <1>9
  <2> QED BY <2>1, <2>2
<1>4. ExpectedBy(s) \subseteq Resources /\ ExpectedBy(s)' \subseteq Resources
  <2>1. ExpectedBy(s) \subseteq Resources
    BY <1>1, ExpectedIsKnown
  <2>2. ExpectedBy(s)' \subseteq Resources
    <3> SUFFICES ASSUME NEW r \in ExpectedBy(s)' PROVE r \in Resources
      OBVIOUS
    <3>1. CASE \E w \in ProcessedRows(s) : r \in Implied(w)
      BY <3>1, ExpectedIsImplied, <2>1
    <3> QED BY <3>1, <1>9
  <2> QED BY <2>1, <2>2
<1>5. Unexpected(s)' = {}
  <2> SUFFICES ASSUME NEW r \in Resources, actual'[r] # "missing", Registered(r, s),
                      Deletable(r, s), r \notin ExpectedBy(s)
               PROVE FALSE
    BY <1>3, <1>4 DEF Unexpected
  <2>1. actual[r] = "missing"
    BY <1>2 DEF Unexpected
  <2>2. r \in Missing(s)
    BY <2>1, <1>2 DEF Incorrect
  <2> QED BY <2>2 DEF Missing
<1>6. Incorrect(s)' = {}
  <2> SUFFICES ASSUME NEW r \in ExpectedBy(s), actual'[r] = "wrong", Registered(r, s)
               PROVE FALSE
    BY <1>3, <1>4 DEF Incorrect
  <2>1. r \in Resources
    BY <1>4
  <2>2. actual[r] = "wrong"
    BY <1>2, <2>1
  <2> QED BY <1>2, <2>1, <2>2 DEF Incorrect
<1>7. Missing(s)' = {}
  <2> SUFFICES ASSUME NEW r \in ExpectedBy(s), Registered(r, s) => actual'[r] = "missing",
                      Creatable(r, s)
               PROVE FALSE
    BY <1>3, <1>4 DEF Missing
  <2>1. r \in Resources /\ r \notin Unexpected(s)
    BY <1>4 DEF Unexpected
  <2>2. CASE r \in Missing(s)
    <3>1. Registered(r, s)
      BY <1>1, <2>2, MissingIsAbsent
    <3> QED BY <3>1, <1>2, <2>1, <2>2
  <2>3. CASE r \notin Missing(s)
    <3>1. Registered(r, s) /\ actual[r] # "missing"
      BY <2>3 DEF Missing
    <3> QED BY <3>1, <1>2, <2>1
  <2> QED BY <2>2, <2>3
<1>8. BareRows(s)' = {}
  BY DEF BareRows
<1> QED BY <1>5, <1>6, <1>7, <1>8 DEF Problems

\* A run of everything that finds no problem has found what the rows imply.
LEMMA NoProblemsOfAll ==
  ASSUME ValidationRows, ValidationTypeOK, Problems(Everything) = {},
         NEW r \in Resources \ ApicOwned
  PROVE  (actual[r] = "right") <=> RequiredBy(r)
<1>1. \A c, t : LookedAt(c, Everything) /\ InTenants(t, Everything)
  BY DEF LookedAt, InTenants, Everything
<1>2. Registered(r, Everything) /\ Deletable(r, Everything) /\ Creatable(r, Everything)
  BY <1>1 DEF Registered, Deletable, Creatable, Limited, Everything
<1>3. \A w \in rows : Processed(w, Everything)
  BY DEF Processed, InTenants, OfKind, Everything
<1>4. r \in ExpectedBy(Everything) <=> RequiredBy(r)
  BY <1>3, ExpectedIsImplied DEF ProcessedRows, Copied, RequiredBy
<1>5. actual[r] \in {"missing", "right", "wrong"}
  BY DEF ValidationTypeOK
<1>6. /\ r \notin Unexpected(Everything) /\ r \notin Incorrect(Everything)
      /\ r \notin Missing(Everything)
  BY DEF Problems
<1>7. CASE RequiredBy(r)
  BY <1>7, <1>4, <1>2, <1>5, <1>6 DEF Incorrect, Missing
<1>8. CASE ~RequiredBy(r)
  BY <1>8, <1>4, <1>2, <1>6 DEF Unexpected
<1> QED BY <1>7, <1>8

LEMMA ValidationStep ==
  ASSUME ValidationRows, ValidationInv, [AnyValidation]_validationVars
  PROVE  /\ ValidationInv'
         /\ scope' # NoScope /\ ~CannotExpect(scope') /\ validationVars' # validationVars =>
              \A r \in Resources : actual'[r] # actual[r] =>
                actual'[r] = IF RequiredBy(r) THEN "right" ELSE "missing"
<1>1. ValidationTypeOK /\ \A r \in ApicOwned : actual[r] = "right"
  BY DEF ValidationInv
<1>2. ASSUME NEW s \in ValidationScopes, NEW repair \in BOOLEAN, Validate(s, repair)
      PROVE  /\ ValidationInv'
             /\ scope' = s
             /\ ~CannotExpect(s) => \A r \in Resources : actual'[r] # actual[r] =>
                  actual'[r] = IF RequiredBy(r) THEN "right" ELSE "missing"
  <2> DEFINE result == ResultOf(s, repair)
             committed == result = "repaired"
             open == IF committed THEN unbound \cup badly ELSE unbound
  <2>1. /\ actual' = (IF committed THEN Repaired(s) ELSE actual)
        /\ bare' = (IF committed THEN bare \ BareRows(s) ELSE bare)
        /\ badly' = (IF committed THEN {} ELSE badly)
        /\ unbound' \subseteq open /\ scope' = s /\ UNCHANGED rows
        /\ outcome' \in {"passed", "repaired", "failed binding ports"} => result \in {"passed", "repaired"}
    <3>1. FinishRun(s, repair, result)
      BY <1>2 DEF Validate
    <3>2. CASE repair /\ result \in {"passed", "repaired"}
      BY <3>1, <3>2 DEF FinishRun, Unbind, BindUnbound
    <3>3. CASE ~(repair /\ result \in {"passed", "repaired"})
      <4>1. result # "failed binding ports"
        BY DEF ResultOf
      <4> QED BY <3>1, <3>3, <4>1 DEF FinishRun, Unbind
    <3> QED BY <3>2, <3>3
  <2>2. committed => Clashing(s) = {}
    BY DEF ResultOf
  <2>3. ValidationTypeOK'
    <3>1. \A r \in Resources : Repaired(s)[r] \in {"missing", "right", "wrong"}
      BY <1>1 DEF Repaired, RepairedBy, ValidationTypeOK
    <3>2. Repaired(s) \in [Resources -> {"missing", "right", "wrong"}]
      BY <3>1 DEF Repaired, RepairedBy
    <3> QED BY <3>2, <2>1, <1>1 DEF ValidationTypeOK
  <2>4. \A r \in ApicOwned : actual'[r] = "right"
    <3> SUFFICES ASSUME NEW r \in ApicOwned, committed PROVE Repaired(s)[r] = "right"
      BY <2>1, <1>1
    <3>1. r \in Resources /\ r \notin Records
      BY DEF ValidationRows, Resources, Records
    <3>2. r \notin Unexpected(s)
      BY <3>1 DEF Unexpected, Deletable
    <3> QED BY <3>1, <3>2, <1>1 DEF Repaired, RepairedBy
  <2>5. result \in {"passed", "repaired"} /\ ~CannotKnow(s) => Problems(s)' = {}
    <3>1. CASE result = "repaired" /\ ~CannotKnow(s)
      BY <3>1, <2>1, <2>2, <1>1, RepairSettles
    <3>2. CASE result = "passed"
      <4>1. Problems(s) = {}
        BY <3>2 DEF ResultOf
      <4>2. UNCHANGED <<rows, bare, actual, badly>>
        BY <3>2, <2>1
      <4>3. /\ Unexpected(s)' = Unexpected(s) /\ Incorrect(s)' = Incorrect(s)
            /\ Missing(s)' = Missing(s) /\ BareRows(s)' = BareRows(s)
        BY <4>2 DEF Unexpected, Incorrect, Missing, BareRows, ExpectedBy, ProcessedRows, Copied
      <4> QED BY <4>1, <4>2, <4>3 DEF Problems
    <3> QED BY <3>1, <3>2
  <2>6. CannotKnow(s)' = CannotKnow(s)
    BY <2>1 DEF CannotKnow, OutsideCommon
  <2>7. ASSUME ~CannotExpect(s), NEW r \in Resources, actual'[r] # actual[r]
        PROVE  actual'[r] = IF RequiredBy(r) THEN "right" ELSE "missing"
    BY <2>7, <2>1, <2>2, <1>1, RunsAgree
  <2> QED BY <2>1, <2>3, <2>4, <2>5, <2>6, <2>7 DEF ValidationInv
<1>3. ASSUME NEW r \in Resources, NEW v \in {"missing", "right", "wrong"}, Damage(r, v)
      PROVE  ValidationInv' /\ scope' = NoScope
  <2>1. /\ actual' = [actual EXCEPT ![r] = v] /\ r \notin ApicOwned
        /\ UNCHANGED <<rows, bare, badly, unbound>> /\ scope' = NoScope /\ outcome' = "none"
    BY <1>3 DEF Damage, Forget
  <2>2. ValidationTypeOK'
    BY <1>1, <2>1 DEF ValidationTypeOK
  <2>3. \A q \in ApicOwned : actual'[q] = actual[q]
    BY <1>1, <2>1 DEF ValidationTypeOK
  <2> QED BY <1>1, <2>1, <2>2, <2>3 DEF ValidationInv
<1>4. ASSUME NEW w \in NeutronRows, Migrated(w)
      PROVE  ValidationInv' /\ scope' = NoScope
  BY <1>1, <1>4 DEF Migrated, Forget, ValidationInv, ValidationTypeOK
<1>5. ASSUME NEW p \in BoundPorts, LoseBinding(p)
      PROVE  ValidationInv' /\ scope' = NoScope
  BY <1>1, <1>5 DEF LoseBinding, Forget, ValidationInv, ValidationTypeOK
<1>6. CASE UNCHANGED validationVars
  <2>1. UNCHANGED <<rows, bare, actual, badly, unbound, outcome, scope>>
    BY <1>6 DEF validationVars
  <2>2. /\ Unexpected(scope)' = Unexpected(scope) /\ Incorrect(scope)' = Incorrect(scope)
        /\ Missing(scope)' = Missing(scope) /\ BareRows(scope)' = BareRows(scope)
    BY <2>1 DEF Unexpected, Incorrect, Missing, BareRows, ExpectedBy, ProcessedRows, Copied
  <2>3. Problems(scope)' = Problems(scope) /\ CannotKnow(scope)' = CannotKnow(scope)
    BY <2>1, <2>2 DEF Problems, CannotKnow, OutsideCommon
  <2>4. ValidationTypeOK'
    BY <2>1, <1>1 DEF ValidationTypeOK
  <2> QED BY <2>1, <2>3, <2>4 DEF ValidationInv
<1> QED BY <1>2, <1>3, <1>4, <1>5, <1>6 DEF AnyValidation

\* Validation and repair (aim_validation.py): the types, and what a run that passed
\* or repaired leaves to do, over runs limited to any kinds and tenants but those that
\* cannot know of the NAT resources they expect.
THEOREM RepairsLastAlways ==
  ASSUME ValidationRows
  PROVE  ValidationSpec => []RepairsLast
<1>1. ValidationInit => ValidationInv
  <2> SUFFICES ASSUME ValidationInit PROVE ValidationInv
    OBVIOUS
  <2>1. \A r \in ApicOwned : r \in Resources /\ actual[r] = "right"
    BY DEF ValidationInit, Resources
  <2> QED BY <2>1 DEF ValidationInit, ValidationInv, ValidationTypeOK
<1>2. ValidationInv => RepairsLast
  <2> SUFFICES ASSUME ValidationInv PROVE RepairsLast
    OBVIOUS
  <2>1. ~CannotKnow(Everything)
    BY DEF CannotKnow, Everything
  <2> QED BY <2>1, NoProblemsOfAll DEF ValidationInv, RepairsLast, RepairsConverge
<1> QED BY <1>1, <1>2, ValidationStep, PTL DEF ValidationSpec

\* A run that is limited to kinds or tenants changes nothing that a run of everything
\* would not change the same way (_should_register_resource and its neighbours), unless
\* it knows of NAT resources or of scopes' VRFs and records it does not expect.
THEOREM ScopedRunsAgreeAlways ==
  ASSUME ValidationRows
  PROVE  ValidationSpec => ScopedRunsAgree
<1>1. ValidationInit => ValidationInv
  <2> SUFFICES ASSUME ValidationInit PROVE ValidationInv
    OBVIOUS
  <2>1. \A r \in ApicOwned : r \in Resources /\ actual[r] = "right"
    BY DEF ValidationInit, Resources
  <2> QED BY <2>1 DEF ValidationInit, ValidationInv, ValidationTypeOK
<1>2. ValidationInv /\ [AnyValidation]_validationVars =>
        [scope' # NoScope /\ ~CannotExpect(scope') => \A r \in Resources : actual'[r] # actual[r] =>
           actual'[r] = IF RequiredBy(r) THEN "right" ELSE "missing"]_validationVars
  BY ValidationStep
<1> QED BY <1>1, <1>2, ValidationStep, PTL DEF ValidationSpec, ScopedRunsAgree
--------------------
(* The ML2Plus plugin *)

\* Requests: the form of what a worker serves.
Jobs == [op : {"create", "update", "delete"}, resource : Ml2Resources,
         flag : {"yes", "no", "unset"}, seen : SUBSET Subnetpools, next : Nat,
         step : {"tenant", "transaction", "drivers"}]

\* Transactions see what others have written, and Keystone and the clients are
\* patient; there is a driver.
Ml2Constants ==
  /\ Serial /\ Patient
  /\ OwnerProject \in [Ml2Resources -> Projects]
  /\ NoName \notin ProjectNames /\ Idle \notin Jobs
  /\ Drivers \in Seq(DriverSet) /\ Drivers # <<>>

Ml2Spec == Ml2Init /\ [][Ml2Next]_ml2Vars

\* The drivers a request has told know the row, or have raised for it.
Told(r, i) == <<Drivers[i], r>> \notin missed => knows[Drivers[i]][r] = row[r]

\* A project that exists, or whose deletion is not handled yet.
Lives(p) == keystone[p] # NoName \/ <<"deleted", p>> \in notices

\* Where a request stands: whether its row is there, the tenant it was started for,
\* the drivers it has told.
JobFits(j) ==
  /\ j.op = "create" /\ j.step # "drivers" => row[j.resource] = 0
  /\ j.op # "create" /\ j.step # "drivers" => row[j.resource] # 0
  /\ j.op # "delete" /\ j.step = "drivers" => row[j.resource] # 0
  /\ j.flag = "yes" => j.resource \in Subnetpools
  /\ j.step = "tenant" => j.op = "create"
  /\ j.step # "transaction" => j.resource \notin GroupResources
  /\ j.op = "create" => OwnerProject[j.resource] \notin purging /\ Lives(OwnerProject[j.resource])
  /\ j.op = "create" /\ j.step # "tenant" /\ j.resource \notin GroupResources =>
       aimTenant[OwnerProject[j.resource]] # NoName
  /\ j.step = "drivers" => j.next \in DOMAIN Drivers /\ \A i \in 1 .. j.next - 1 : Told(j.resource, i)

JobsFit ==
  /\ job \in [Ml2Workers -> Jobs \cup {Idle}]
  /\ \A w, v \in Ml2Workers :
       job[w] # Idle /\ job[v] # Idle /\ job[w].resource = job[v].resource => w = v
  /\ \A w \in Ml2Workers : job[w] # Idle => JobFits(job[w])

\* While no request tells the drivers of a row, each knows it or has raised.
NobodyTells(r) == \A w \in Ml2Workers : job[w] # Idle /\ job[w].resource = r => job[w].step # "drivers"
DriversKnow ==
  \A r \in Ml2Resources \ GroupResources : NobodyTells(r) => \A i \in DOMAIN Drivers : Told(r, i)

\* At most one implicit pool per tenant and one for all, without counting.
ImplicitApart ==
  \A r \in implicit : /\ r \in Subnetpools /\ row[r] # 0
    /\ \A o \in implicit \ {r} : OwnerProject[o] # OwnerProject[r] /\ ~(r \in SharedPools /\ o \in SharedPools)

\* The cache knows the name of a project, unless news of it are on the way.
Fresh(p, n) == n = keystone[p] \/ keystone[p] = NoName \/ <<"updated", p>> \in notices
NamesFit ==
  \A p \in Projects : /\ cached[p] # NoName => Fresh(p, cached[p])
                      /\ aimTenant[p] # NoName => aimTenant[p] = cached[p]
TenantsAreThere == \A r \in Ml2Resources : row[r] # 0 => aimTenant[OwnerProject[r]] # NoName

Ml2Types ==
  /\ row \in [Ml2Resources -> 0 .. 2] /\ implicit \subseteq Subnetpools
  /\ knows \in [DriverSet -> [Ml2Resources -> 0 .. 2]]
  /\ missed \subseteq DriverSet \X Ml2Resources
  /\ keystone \in [Projects -> ProjectNames \cup {NoName}]
  /\ cached \in [Projects -> ProjectNames \cup {NoName}]
  /\ aimTenant \in [Projects -> ProjectNames \cup {NoName}]
  /\ notices \subseteq {"updated", "deleted"} \X Projects
  /\ purging \subseteq Projects

Ml2Inv == Ml2Types /\ JobsFit /\ DriversKnow /\ ImplicitApart /\ NamesFit /\ TenantsAreThere

LEMMA DriversAreListed ==
  ASSUME Ml2Constants
  PROVE  /\ Len(Drivers) \in Nat \ {0} /\ DOMAIN Drivers = 1 .. Len(Drivers)
         /\ \A i \in DOMAIN Drivers : Drivers[i] \in DriverSet
         /\ \A d \in DriverSet : \E i \in DOMAIN Drivers : d = Drivers[i]
  BY DEF Ml2Constants, DriverSet

\* The invariant says what the run checks.
LEMMA Ml2InvSuffices ==
  ASSUME Ml2Constants, Ml2Inv
  PROVE  ResourcesAreKnown
<1>1. Ml2TypeOK
  BY DEF Ml2Inv, Ml2Types, Ml2TypeOK, JobsFit, Busy, Jobs
<1>2. DriversFollowRows
  <2> SUFFICES ASSUME NEW r \in Ml2Resources \ GroupResources, NEW d \in DriverSet,
                      Serving(r) = {}, <<d, r>> \notin missed
               PROVE  knows[d][r] = row[r]
    BY DEF DriversFollowRows
  <2>1. NobodyTells(r)
    BY DEF NobodyTells, Serving, Busy
  <2>2. PICK i \in DOMAIN Drivers : d = Drivers[i]
    BY DriversAreListed
  <2>3. Told(r, i)
    BY <2>1 DEF Ml2Inv, DriversKnow
  <2> QED BY <2>2, <2>3 DEF Told
<1>3. OneImplicitPool
  <2>1. implicit \subseteq {r \in Ml2Resources : row[r] # 0}
    BY Ml2Assumption DEF Ml2Inv, ImplicitApart
  <2>2. \A r, o \in implicit : r # o => OwnerProject[r] # OwnerProject[o]
    BY DEF Ml2Inv, ImplicitApart
  <2>3. Cardinality(implicit \cap SharedPools) <= 1
    <3>1. CASE implicit \cap SharedPools = {}
      BY <3>1, FS_EmptySet
    <3>2. CASE implicit \cap SharedPools # {}
      <4>1. PICK r : r \in implicit \cap SharedPools
        BY <3>2
      <4>2. implicit \cap SharedPools = {r}
        BY <4>1 DEF Ml2Inv, ImplicitApart
      <4>3. Cardinality({r}) = 1
        BY FS_Singleton
      <4> QED BY <4>2, <4>3
    <3> QED BY <3>1, <3>2
  <2> QED BY <2>1, <2>2, <2>3 DEF OneImplicitPool
<1>4. TenantsFollowProjects
  <2> SUFFICES ASSUME NEW p \in Projects
               PROVE  /\ RowsOf(p) # {} => aimTenant[p] # NoName
                      /\ aimTenant[p] # NoName => Fresh(p, aimTenant[p])
    BY DEF TenantsFollowProjects, Fresh
  <2>1. RowsOf(p) # {} => aimTenant[p] # NoName
    BY DEF RowsOf, Ml2Inv, TenantsAreThere
  <2>2. aimTenant[p] # NoName => Fresh(p, aimTenant[p])
    BY DEF Ml2Inv, NamesFit
  <2> QED BY <2>1, <2>2
<1> QED BY <1>1, <1>2, <1>3, <1>4 DEF ResourcesAreKnown

LEMMA Ml2Starts ==
  ASSUME Ml2Constants, Ml2Init
  PROVE  Ml2Inv
<1>1. Ml2Types
  BY DEF Ml2Init, Ml2Types
<1>2. JobsFit
  BY DEF Ml2Init, JobsFit
<1>3. DriversKnow
  BY DriversAreListed DEF Ml2Init, DriversKnow, Told
<1>4. ImplicitApart /\ NamesFit /\ TenantsAreThere
  BY DEF Ml2Init, ImplicitApart, NamesFit, TenantsAreThere, Ml2Constants
<1> QED BY <1>1, <1>2, <1>3, <1>4 DEF Ml2Inv

\* A request goes on as it is if its row, what its drivers know and its tenant stay.
LEMMA JobStays ==
  ASSUME Ml2Constants, NEW j \in Jobs, JobFits(j),
         row'[j.resource] = row[j.resource],
         \A i \in DOMAIN Drivers : Told(j.resource, i) => Told(j.resource, i)',
         j.op = "create" =>
           /\ OwnerProject[j.resource] \notin purging' /\ Lives(OwnerProject[j.resource])'
           /\ aimTenant[OwnerProject[j.resource]] # NoName => aimTenant'[OwnerProject[j.resource]] # NoName
  PROVE  JobFits(j)'
<1>1. j.step = "drivers" =>
        j.next \in DOMAIN Drivers /\ \A i \in 1 .. j.next - 1 : i \in DOMAIN Drivers /\ Told(j.resource, i)
  BY DriversAreListed DEF JobFits, Jobs
<1>2. j.step = "drivers" => \A i \in 1 .. j.next - 1 : Told(j.resource, i)'
  BY <1>1
<1> QED BY <1>1, <1>2 DEF JobFits

\* A worker that takes up, changes or ends its own request leaves the others theirs.
LEMMA JobsFitAfter ==
  ASSUME Ml2Constants, JobsFit, NEW w \in Ml2Workers, NEW k \in Jobs \cup {Idle},
         job' = [job EXCEPT ![w] = k],
         k # Idle => /\ JobFits(k)'
                     /\ \/ job[w] # Idle /\ job[w].resource = k.resource
                        \/ \A v \in Ml2Workers : job[v] # Idle => job[v].resource # k.resource,
         \A v \in Ml2Workers \ {w}, j \in Jobs : job[v] = j => JobFits(j)'
  PROVE  JobsFit'
<1>1. job' \in [Ml2Workers -> Jobs \cup {Idle}] /\ job'[w] = k
      /\ \A v \in Ml2Workers \ {w} : job'[v] = job[v]
  BY DEF JobsFit
<1>2. ASSUME NEW u \in Ml2Workers, NEW v \in Ml2Workers, job'[u] # Idle, job'[v] # Idle,
             job'[u].resource = job'[v].resource
      PROVE  u = v
  BY <1>1, <1>2 DEF JobsFit
<1>4. ASSUME NEW v \in Ml2Workers, job'[v] # Idle
      PROVE  JobFits(job[v])'
  <2>1. PICK j \in Jobs : j = job'[v]
    BY <1>1, <1>4
  <2>2. JobFits(j)'
    <3>1. CASE v = w
      BY <2>1, <3>1, <1>1, <1>4
    <3>2. CASE v # w
      BY <2>1, <3>2, <1>1
    <3> QED BY <3>1, <3>2
  <2> QED BY <2>1, <2>2
<1> QED BY <1>1, <1>2, <1>4 DEF JobsFit

\* The other requests, when a step leaves rows, drivers and tenants to them.
OthersKeep(w) ==
  \A v \in Ml2Workers \ {w}, j \in Jobs : job[v] = j => JobFits(j)'

LEMMA ServedTypes ==
  ASSUME Ml2Constants, JobsFit, NEW w \in Ml2Workers, job[w] # Idle
  PROVE  /\ job[w] \in Jobs /\ JobFits(job[w])
         /\ \A v \in Ml2Workers : job[v] # Idle /\ job[v].resource = job[w].resource => v = w
  BY DEF JobsFit

\* Steps that leave rows and drivers, the projects of creations and tenants.
LEMMA OthersUntouched ==
  ASSUME Ml2Constants, JobsFit, NEW w \in Ml2Workers, UNCHANGED <<row, knows, missed>>,
         \A p \in Projects : /\ (Lives(p) => Lives(p)') /\ (p \notin purging => p \notin purging')
                             /\ (aimTenant[p] # NoName => aimTenant'[p] # NoName)
  PROVE  OthersKeep(w)
<1> SUFFICES ASSUME NEW v \in Ml2Workers \ {w}, NEW j \in Jobs, job[v] = j
             PROVE  JobFits(j)'
  BY DEF OthersKeep
<1>1. JobFits(j) /\ OwnerProject[j.resource] \in Projects
  BY DEF JobsFit, Jobs, Ml2Constants
<1>2. \A i \in DOMAIN Drivers : Told(j.resource, i) => Told(j.resource, i)'
  BY DEF Told
<1>3. j.op = "create" => OwnerProject[j.resource] \notin purging /\ Lives(OwnerProject[j.resource])
  BY <1>1 DEF JobFits
<1> QED BY <1>1, <1>2, <1>3, JobStays

LEMMA StartRequestKeeps ==
  ASSUME Ml2Constants, Ml2Inv, NEW w \in Ml2Workers, NEW op \in {"create", "update", "delete"},
         NEW r \in Ml2Resources, NEW flag \in {"yes", "no", "unset"}, StartRequest(w, op, r, flag)
  PROVE  Ml2Inv'
<1> DEFINE k == [op |-> op, resource |-> r, flag |-> flag, seen |-> {}, next |-> 1,
                 step |-> IF op = "create" /\ r \notin GroupResources THEN "tenant"
                          ELSE "transaction"]
<1>1. job' = [job EXCEPT ![w] = k] /\ job[w] = Idle
  BY DEF StartRequest, Seen, Ml2Constants
<1>2. UNCHANGED <<row, implicit, knows, missed, cached, aimTenant, keystone, notices, purging>>
  BY DEF StartRequest, rowVars, tenantVars, projectVars
<1>3. k \in Jobs
  BY DEF Jobs, Ml2Constants
<1>4. JobFits(k)'
  <2>1. (op = "create") <=> (row[r] = 0)
    BY DEF StartRequest
  <2>2. op = "create" => keystone[OwnerProject[r]] # NoName /\ OwnerProject[r] \notin purging
    BY DEF StartRequest, Ml2Constants
  <2>3. flag = "yes" => r \in Subnetpools
    BY DEF StartRequest
  <2> QED BY <1>2, <2>1, <2>2, <2>3 DEF JobFits, Lives
<1>5. \A v \in Ml2Workers : job[v] # Idle => job[v].resource # r
  BY DEF StartRequest, Serving, Busy
<1>6. OthersKeep(w)
  BY <1>2, OthersUntouched DEF Ml2Inv, Lives
<1>7. JobsFit'
  <2>1. \A v \in Ml2Workers : job[v] # Idle => job[v].resource # k.resource
    BY <1>5
  <2> HIDE DEF k
  <2> QED BY <1>1, <1>3, <1>4, <2>1, <1>6, JobsFitAfter DEF OthersKeep, Ml2Inv
<1>8. DriversKnow'
  <2> SUFFICES ASSUME NEW q \in Ml2Resources \ GroupResources, NobodyTells(q)',
                      NEW i \in DOMAIN Drivers
               PROVE  Told(q, i)'
    BY DEF DriversKnow
  <2>1. NobodyTells(q)
    BY <1>1, <1>5 DEF NobodyTells, Ml2Inv, JobsFit
  <2> QED BY <2>1, <1>2 DEF DriversKnow, Told, Ml2Inv
<1>9. Ml2Types' /\ ImplicitApart' /\ NamesFit' /\ TenantsAreThere'
  BY <1>2 DEF Ml2Inv, Ml2Types, ImplicitApart, NamesFit, TenantsAreThere, Fresh
<1> QED BY <1>7, <1>8, <1>9 DEF Ml2Inv

LEMMA AbortTransactionKeeps ==
  ASSUME Ml2Constants, Ml2Inv, NEW w \in Ml2Workers, AbortTransaction(w)
  PROVE  Ml2Inv'
<1>1. job' = [job EXCEPT ![w] = Idle] /\ job[w] # Idle /\ job[w].step \in {"tenant", "transaction"}
  BY DEF AbortTransaction, Finish, Busy
<1>2. UNCHANGED <<row, implicit, knows, missed, cached, aimTenant, keystone, notices, purging>>
  BY DEF AbortTransaction, rowVars, tenantVars, projectVars
<1>6. OthersKeep(w)
  BY <1>2, OthersUntouched DEF Ml2Inv, Lives
<1>7. JobsFit'
  BY <1>1, <1>6, JobsFitAfter DEF OthersKeep, Ml2Inv
<1>8. DriversKnow'
  <2> SUFFICES ASSUME NEW q \in Ml2Resources \ GroupResources, NobodyTells(q)',
                      NEW i \in DOMAIN Drivers
               PROVE  Told(q, i)'
    BY DEF DriversKnow
  <2>1. NobodyTells(q)
    BY <1>1 DEF NobodyTells, Ml2Inv, JobsFit
  <2> QED BY <2>1, <1>2 DEF DriversKnow, Told, Ml2Inv
<1>9. Ml2Types' /\ ImplicitApart' /\ NamesFit' /\ TenantsAreThere'
  BY <1>2 DEF Ml2Inv, Ml2Types, ImplicitApart, NamesFit, TenantsAreThere, Fresh
<1> QED BY <1>7, <1>8, <1>9 DEF Ml2Inv

\* ensure_project and the tenant that is made: the names in the cache and in AIM
\* stay fresh, and the tenant of a project that lives is there.
LEMMA MakeSureKeeps ==
  ASSUME Ml2Constants, Ml2Inv, NEW p \in Projects, MakeSure(p), UNCHANGED <<keystone, notices>>
  PROVE  /\ NamesFit'
         /\ cached' \in [Projects -> ProjectNames \cup {NoName}]
         /\ aimTenant' \in [Projects -> ProjectNames \cup {NoName}]
         /\ \A q \in Projects : aimTenant[q] # NoName => aimTenant'[q] # NoName
         /\ Lives(p) => aimTenant'[p] # NoName
<1>1. /\ cached \in [Projects -> ProjectNames \cup {NoName}]
      /\ aimTenant \in [Projects -> ProjectNames \cup {NoName}]
      /\ keystone \in [Projects -> ProjectNames \cup {NoName}]
      /\ \A q \in Projects : /\ cached[q] # NoName => Fresh(q, cached[q])
                             /\ aimTenant[q] # NoName => aimTenant[q] = cached[q]
  BY DEF Ml2Inv, Ml2Types, NamesFit
<1>2. CASE cached[p] # NoName
  <2>1. cached' = cached /\ aimTenant' = IF aimTenant[p] # NoName THEN aimTenant
                                         ELSE [aimTenant EXCEPT ![p] = cached[p]]
    BY <1>2 DEF MakeSure, Loaded, WithTenant
  <2>2. \A q \in Projects : \A n : Fresh(q, n)' <=> Fresh(q, n)
    BY DEF Fresh
  <2> QED BY <1>1, <1>2, <2>1, <2>2 DEF NamesFit
<1>3. CASE cached[p] = NoName
  <2>1. PICK names : names = [q \in Projects |-> IF keystone[q] # NoName THEN keystone[q] ELSE cached[q]]
    OBVIOUS
  <2>2. /\ notices = {} /\ cached' = names
        /\ aimTenant' = IF aimTenant[p] # NoName THEN aimTenant
                        ELSE [aimTenant EXCEPT ![p] = names[p]]
    BY <1>3, <2>1 DEF MakeSure, MayLoad, Loaded, WithTenant, Ml2Constants
  <2>3. names \in [Projects -> ProjectNames \cup {NoName}]
    BY <1>1, <2>1
  <2>4. \A q \in Projects : names[q] # NoName => names[q] = keystone[q] \/ keystone[q] = NoName
    BY <2>1
  <2>5. \A q \in Projects : aimTenant[q] # NoName => aimTenant[q] = names[q]
    <3> SUFFICES ASSUME NEW q \in Projects, aimTenant[q] # NoName, keystone[q] # NoName
                 PROVE  aimTenant[q] = keystone[q]
      BY <1>1, <2>1
    <3> QED BY <1>1, <2>2 DEF Fresh
  <2>6. Lives(p) => names[p] # NoName
    BY <2>1, <2>2 DEF Lives
  <2>7. \A q \in Projects : aimTenant'[q] # NoName => aimTenant'[q] = names[q]
    BY <1>1, <2>2, <2>5
  <2>8. NamesFit'
    BY <2>2, <2>4, <2>7 DEF NamesFit, Fresh
  <2> QED BY <1>1, <2>2, <2>3, <2>6, <2>8
<1> QED BY <1>2, <1>3

LEMMA EnsureTenantKeeps ==
  ASSUME Ml2Constants, Ml2Inv, NEW w \in Ml2Workers, EnsureTenant(w)
  PROVE  Ml2Inv'
<1>1. PICK j \in Jobs : j = job[w] /\ JobFits(j) /\ j.step = "tenant"
  BY ServedTypes DEF EnsureTenant, Busy, Ml2Inv
<1> DEFINE k == [j EXCEPT !.step = "transaction", !.seen = {}]
<1>2. job[w] # Idle /\ MakeSure(OwnerProject[j.resource])
      /\ UNCHANGED <<row, implicit, knows, missed, keystone, notices, purging>>
  BY <1>1 DEF EnsureTenant, Busy, rowVars, projectVars
<1>3. job' = [job EXCEPT ![w] = k]
  BY <1>1 DEF EnsureTenant, Seen, Ml2Constants
<1>4. k \in Jobs /\ k.resource = j.resource
  BY DEF Jobs
<1>5. OwnerProject[j.resource] \in Projects /\ j.op = "create" /\ Lives(OwnerProject[j.resource])
  BY <1>1 DEF Jobs, Ml2Constants, JobFits
<1>6. /\ NamesFit'
      /\ cached' \in [Projects -> ProjectNames \cup {NoName}]
      /\ aimTenant' \in [Projects -> ProjectNames \cup {NoName}]
      /\ \A q \in Projects : aimTenant[q] # NoName => aimTenant'[q] # NoName
      /\ aimTenant'[OwnerProject[j.resource]] # NoName
  BY <1>2, <1>5, MakeSureKeeps
<1>7. JobFits(k)'
  BY <1>1, <1>2, <1>6 DEF JobFits, Jobs, Lives
<1>8. OthersKeep(w)
  BY <1>2, <1>6, OthersUntouched DEF Ml2Inv, Lives
<1>9. JobsFit'
  <2> HIDE DEF k
  <2> QED BY <1>1, <1>2, <1>3, <1>4, <1>7, <1>8, JobsFitAfter DEF OthersKeep, Ml2Inv
<1>10. DriversKnow'
  <2> SUFFICES ASSUME NEW q \in Ml2Resources \ GroupResources, NobodyTells(q)',
                      NEW i \in DOMAIN Drivers
               PROVE  Told(q, i)'
    BY DEF DriversKnow
  <2>1. NobodyTells(q)
    BY <1>1, <1>3, <1>4 DEF NobodyTells, Ml2Inv, JobsFit
  <2> QED BY <2>1, <1>2 DEF DriversKnow, Told, Ml2Inv
<1>11. Ml2Types' /\ ImplicitApart'
  BY <1>2, <1>6 DEF Ml2Inv, Ml2Types, ImplicitApart
<1>12. TenantsAreThere'
  BY <1>2, <1>6 DEF Ml2Inv, TenantsAreThere, Ml2Constants
<1> QED BY <1>6, <1>9, <1>10, <1>11, <1>12 DEF Ml2Inv

LEMMA TransactionKeeps ==
  ASSUME Ml2Constants, Ml2Inv, NEW w \in Ml2Workers, Transaction(w)
  PROVE  Ml2Inv'
<1>1. PICK j \in Jobs : j = job[w] /\ JobFits(j) /\ j.step = "transaction"
  BY ServedTypes DEF Transaction, Busy, Ml2Inv
<1>2. PICK r \in Ml2Resources : r = j.resource
  BY DEF Jobs
<1> DEFINE k == IF r \in GroupResources THEN Idle ELSE [j EXCEPT !.step = "drivers", !.next = 1]
<1>3. /\ job[w] # Idle /\ UNCHANGED <<knows, missed, keystone, notices, purging>>
      /\ row' = [row EXCEPT ![r] = VersionAfter(r, j.op)]
      /\ implicit' = ImplicitAfter(r, j.op, j.flag)
      /\ HandleSecurityGroup(r, j.op)
      /\ j.op # "delete" /\ j.flag = "yes" => MayBeImplicit(r, implicit)
  BY <1>1, <1>2 DEF Transaction, Busy, projectVars, Ml2Constants
<1>4. job' = [job EXCEPT ![w] = k]
  BY <1>1, <1>2 DEF Transaction, Finish
<1>5. k \in Jobs \cup {Idle} /\ (k # Idle => k.resource = r)
  BY <1>2 DEF Jobs
<1>6. OwnerProject[r] \in Projects /\ (j.op = "create" => Lives(OwnerProject[r]))
  BY <1>1, <1>2 DEF Ml2Constants, JobFits
<1>7. /\ NamesFit'
      /\ cached' \in [Projects -> ProjectNames \cup {NoName}]
      /\ aimTenant' \in [Projects -> ProjectNames \cup {NoName}]
      /\ \A q \in Projects : aimTenant[q] # NoName => aimTenant'[q] # NoName
      /\ j.op = "create" => aimTenant'[OwnerProject[r]] # NoName
  <2>1. CASE r \in GroupResources /\ j.op = "create"
    <3>1. MakeSure(OwnerProject[r])
      BY <2>1, <1>3 DEF HandleSecurityGroup
    <3> QED BY <3>1, <1>3, <1>6, <2>1, MakeSureKeeps
  <2>2. CASE ~(r \in GroupResources /\ j.op = "create")
    <3>1. UNCHANGED <<cached, aimTenant>>
      BY <2>2, <1>3 DEF HandleSecurityGroup, tenantVars
    <3>2. j.op = "create" => aimTenant[OwnerProject[r]] # NoName
      BY <2>2, <1>1, <1>2 DEF JobFits
    <3> QED BY <3>1, <3>2, <1>3 DEF Ml2Inv, Ml2Types, NamesFit, Fresh
  <2> QED BY <2>1, <2>2
<1>8. /\ row \in [Ml2Resources -> 0 .. 2] /\ row'[r] \in 0 .. 2
      /\ (j.op = "delete" => row'[r] = 0) /\ (j.op # "delete" => row'[r] # 0)
      /\ row' \in [Ml2Resources -> 0 .. 2]
      /\ \A q \in Ml2Resources \ {r} : row'[q] = row[q]
  <2>1. row \in [Ml2Resources -> 0 .. 2]
    BY DEF Ml2Inv, Ml2Types
  <2>2. j.op = "update" => row[r] \in 1 .. 2
    BY <1>1, <1>2, <2>1 DEF JobFits
  <2>3. j.op \in {"create", "update", "delete"}
    BY DEF Jobs
  <2>4. VersionAfter(r, j.op) \in 0 .. 2 /\ (j.op = "delete" <=> VersionAfter(r, j.op) = 0)
    BY <2>2, <2>3 DEF VersionAfter
  <2> QED BY <2>1, <2>4, <1>3
<1>9. k # Idle => JobFits(k)'
  <2> SUFFICES ASSUME r \notin GroupResources PROVE JobFits(k)'
    OBVIOUS
  <2>1. k.op = j.op /\ k.flag = j.flag /\ k.resource = r /\ k.step = "drivers" /\ k.next = 1
    BY <1>2 DEF Jobs
  <2>2. 1 \in DOMAIN Drivers /\ 1 .. k.next - 1 = {}
    BY <2>1, DriversAreListed
  <2> HIDE DEF k
  <2> QED BY <2>1, <2>2, <1>1, <1>2, <1>3, <1>7, <1>8 DEF JobFits, Lives
<1>10. OthersKeep(w)
  <2> SUFFICES ASSUME NEW v \in Ml2Workers \ {w}, NEW q \in Jobs, job[v] = q
               PROVE  JobFits(q)'
    BY DEF OthersKeep
  <2>1. JobFits(q) /\ q.resource \in Ml2Resources \ {r} /\ OwnerProject[q.resource] \in Projects
    BY <1>1, <1>2, <1>3 DEF Ml2Inv, JobsFit, Jobs, Ml2Constants
  <2>2. \A i \in DOMAIN Drivers : Told(q.resource, i) => Told(q.resource, i)'
    BY <1>3, <1>8, <2>1 DEF Told
  <2>3. q.op = "create" => OwnerProject[q.resource] \notin purging /\ Lives(OwnerProject[q.resource])
    BY <2>1 DEF JobFits
  <2>4. Lives(OwnerProject[q.resource])' <=> Lives(OwnerProject[q.resource])
    BY <1>3 DEF Lives
  <2> QED BY <2>1, <2>2, <2>3, <2>4, <1>3, <1>7, <1>8, JobStays
<1>11. JobsFit'
  <2>1. k # Idle => job[w] # Idle /\ job[w].resource = k.resource
    BY <1>1, <1>2, <1>3, <1>5
  <2> HIDE DEF k
  <2> QED BY <1>4, <1>5, <1>9, <2>1, <1>10, JobsFitAfter DEF OthersKeep, Ml2Inv
<1>12. DriversKnow'
  <2> SUFFICES ASSUME NEW q \in Ml2Resources \ GroupResources, NobodyTells(q)',
                      NEW i \in DOMAIN Drivers
               PROVE  Told(q, i)'
    BY DEF DriversKnow
  <2>1. q # r
    <3> SUFFICES ASSUME q = r PROVE FALSE
      OBVIOUS
    <3>1. job'[w] # Idle /\ job'[w].resource = q /\ job'[w].step = "drivers"
      <4>1. k = [j EXCEPT !.step = "drivers", !.next = 1]
        OBVIOUS
      <4>2. k \in Jobs /\ k.resource = q /\ k.step = "drivers"
        BY <4>1, <1>2 DEF Jobs
      <4>3. job'[w] = k /\ k # Idle
        BY <4>2, <1>4 DEF Ml2Inv, JobsFit, Ml2Constants
      <4> QED BY <4>2, <4>3
    <3> QED BY <3>1 DEF NobodyTells
  <2>2. NobodyTells(q)
    BY <2>1, <1>1, <1>2, <1>4 DEF NobodyTells, Ml2Inv, JobsFit
  <2> QED BY <2>1, <2>2, <1>3, <1>8 DEF DriversKnow, Told, Ml2Inv
<1>13. Ml2Types'
  <2>1. implicit' \subseteq Subnetpools
    BY <1>1, <1>2, <1>3 DEF ImplicitAfter, Ml2Inv, Ml2Types, JobFits
  <2> QED BY <2>1, <1>3, <1>7, <1>8 DEF Ml2Inv, Ml2Types
<1>14. ImplicitApart'
  <2>1. \A q \in implicit' : q \in implicit \/ (q = r /\ j.flag = "yes" /\ j.op # "delete")
    BY <1>3 DEF ImplicitAfter
  <2>2. j.op = "delete" => r \notin implicit'
    BY <1>3 DEF ImplicitAfter
  <2>3. j.flag = "yes" /\ j.op # "delete" =>
          /\ r \in Subnetpools
          /\ \A o \in implicit \ {r} : /\ OwnerProject[o] # OwnerProject[r]
                                       /\ ~(r \in SharedPools /\ o \in SharedPools)
    BY <1>1, <1>2, <1>3 DEF MayBeImplicit, JobFits
  <2>4. \A q \in implicit' : q \in Subnetpools /\ row'[q] # 0
    <3> SUFFICES ASSUME NEW q \in implicit' PROVE q \in Subnetpools /\ row'[q] # 0
      OBVIOUS
    <3>1. q \in Subnetpools /\ q \in Ml2Resources
      BY <2>1, <2>3, Ml2Assumption DEF Ml2Inv, ImplicitApart
    <3>2. CASE q = r
      BY <3>1, <3>2, <2>2, <1>8
    <3>3. CASE q # r
      BY <3>1, <3>3, <2>1, <1>8 DEF Ml2Inv, ImplicitApart
    <3> QED BY <3>1, <3>2, <3>3
  <2> QED BY <2>1, <2>3, <2>4 DEF Ml2Inv, ImplicitApart
<1>15. TenantsAreThere'
  <2> SUFFICES ASSUME NEW q \in Ml2Resources, row'[q] # 0
               PROVE  aimTenant'[OwnerProject[q]] # NoName
    BY DEF TenantsAreThere
  <2>1. CASE row[q] # 0
    BY <2>1, <1>7 DEF Ml2Inv, TenantsAreThere, Ml2Constants
  <2>2. CASE row[q] = 0
    <3>1. q = r /\ j.op = "create"
      BY <2>2, <1>8, <1>1, <1>2 DEF JobFits, Jobs
    <3> QED BY <3>1, <1>7
  <2> QED BY <2>1, <2>2
<1> QED BY <1>7, <1>11, <1>12, <1>13, <1>14, <1>15 DEF Ml2Inv

LEMMA TellDriverKeeps ==
  ASSUME Ml2Constants, Ml2Inv, NEW w \in Ml2Workers, TellDriver(w) \/ DriverRaises(w)
  PROVE  Ml2Inv'
<1>1. PICK j \in Jobs : j = job[w] /\ JobFits(j) /\ j.step = "drivers" /\ job[w] # Idle
  BY ServedTypes DEF TellDriver, DriverRaises, Busy, Ml2Inv
<1>2. PICK r \in Ml2Resources, i \in DOMAIN Drivers, d \in DriverSet :
        /\ r = j.resource /\ i = j.next /\ d = Drivers[i] /\ i \in 1 .. Len(Drivers)
        /\ \A m \in 1 .. i - 1 : Told(r, m)
  BY <1>1, DriversAreListed DEF Jobs, JobFits
<1> DEFINE k == IF DriverRaises(w) /\ j.op = "create" THEN [j EXCEPT !.op = "delete", !.step = "transaction"]
                ELSE IF i < Len(Drivers) THEN [j EXCEPT !.next = i + 1]
                ELSE Idle
<1>3. UNCHANGED <<row, implicit, cached, aimTenant, keystone, notices, purging>>
  BY DEF TellDriver, DriverRaises, tenantVars, projectVars
<1>4. PICK q \in Jobs \cup {Idle} :
        /\ job' = [job EXCEPT ![w] = q]
        /\ q # Idle => q.resource = r /\ q.flag = j.flag
        /\ \/ /\ q # Idle /\ q.op = j.op /\ q.step = "drivers" /\ i < Len(Drivers) /\ q.next = i + 1
              /\ Told(r, i)'
           \/ /\ q # Idle /\ j.op = "create" /\ q.op = "delete" /\ q.step = "transaction"
              /\ \A m \in i .. Len(Drivers) : Told(r, m)'
           \/ q = Idle /\ i = Len(Drivers) /\ Told(r, i)'
  <2>1. Len(Drivers) \in Nat \ {0} /\ i \in Nat
    BY DriversAreListed, <1>2
  <2>2. [j EXCEPT !.next = i + 1] \in Jobs /\ [j EXCEPT !.op = "delete", !.step = "transaction"] \in Jobs
    <3>1. [j EXCEPT !.next = i + 1] \in Jobs
      BY <2>1 DEF Jobs
    <3>2. [j EXCEPT !.op = "delete", !.step = "transaction"] \in Jobs
      BY DEF Jobs
    <3> QED BY <3>1, <3>2
  <2>3. CASE TellDriver(w)
    <3>1. Told(r, i)'
      <4>1. knows' = [knows EXCEPT ![d][r] = row[r]] /\ UNCHANGED row
        BY <2>3, <1>1, <1>2 DEF TellDriver
      <4>2. knows'[d][r] = row[r]
        BY <4>1 DEF Ml2Inv, Ml2Types
      <4> QED BY <4>1, <4>2, <1>2 DEF Told
    <3>2. CASE i < Len(Drivers)
      <4> DEFINE q == [j EXCEPT !.next = i + 1]
      <4>1. job' = [job EXCEPT ![w].next = i + 1]
        BY <2>3, <1>1, <1>2, <3>2 DEF TellDriver
      <4>2. job' = [job EXCEPT ![w] = q]
        BY <4>1, <1>1
      <4>3. q \in Jobs /\ q # Idle /\ q.resource = r /\ q.flag = j.flag /\ q.op = j.op /\ q.step = "drivers"
            /\ q.next = i + 1
        BY <2>2, <1>1, <1>2 DEF Jobs, Ml2Constants
      <4> HIDE DEF q
      <4> QED BY <4>2, <4>3, <3>1, <3>2
    <3>3. CASE ~(i < Len(Drivers))
      <4>1. job' = [job EXCEPT ![w] = Idle] /\ i = Len(Drivers)
        BY <2>3, <1>1, <1>2, <3>3, <2>1 DEF TellDriver, Finish
      <4> QED BY <4>1, <3>1
    <3> QED BY <3>2, <3>3
  <2>4. CASE DriverRaises(w) /\ j.op # "create"
    <3>1. Told(r, i)'
      <4>1. missed' = missed \cup {<<d, r>>}
        BY <2>4, <1>1, <1>2 DEF DriverRaises, ContinueOnFailure
      <4> QED BY <4>1, <1>2 DEF Told
    <3>2. CASE i < Len(Drivers)
      <4> DEFINE q == [j EXCEPT !.next = i + 1]
      <4>1. job' = [job EXCEPT ![w].next = i + 1]
        BY <2>4, <1>1, <1>2, <3>2 DEF DriverRaises, ContinueOnFailure
      <4>2. job' = [job EXCEPT ![w] = q]
        BY <4>1, <1>1
      <4>3. q \in Jobs /\ q # Idle /\ q.resource = r /\ q.flag = j.flag /\ q.op = j.op /\ q.step = "drivers"
            /\ q.next = i + 1
        BY <2>2, <1>1, <1>2 DEF Jobs, Ml2Constants
      <4> HIDE DEF q
      <4> QED BY <4>2, <4>3, <3>1, <3>2
    <3>3. CASE ~(i < Len(Drivers))
      <4>1. job' = [job EXCEPT ![w] = Idle] /\ i = Len(Drivers)
        BY <2>4, <1>1, <1>2, <3>3, <2>1 DEF DriverRaises, ContinueOnFailure, Finish
      <4> QED BY <4>1, <3>1
    <3> QED BY <3>2, <3>3
  <2>5. CASE DriverRaises(w) /\ j.op = "create"
    <3> DEFINE q == [j EXCEPT !.op = "delete", !.step = "transaction"]
    <3>1. /\ missed' = missed \cup {<<Drivers[m], r>> : m \in i .. Len(Drivers)}
          /\ job' = [job EXCEPT ![w].op = "delete", ![w].step = "transaction"]
      BY <2>5, <1>1, <1>2 DEF DriverRaises, ContinueOnFailure
    <3>2. \A m \in i .. Len(Drivers) : Told(r, m)'
      BY <3>1 DEF Told
    <3>3. job' = [job EXCEPT ![w] = q]
      BY <3>1, <1>1 DEF Ml2Inv, JobsFit
    <3>4. q \in Jobs /\ q # Idle /\ q.resource = r /\ q.flag = j.flag /\ q.op = "delete" /\ q.step = "transaction"
      BY ZenonT(40), <2>2, <1>1, <1>2 DEF Jobs, Ml2Constants
    <3> HIDE DEF q
    <3> QED BY <3>2, <3>3, <3>4, <2>5
  <2> QED BY <2>3, <2>4, <2>5
<1> HIDE DEF k
<1>5. \* A driver that was told is told still, and other rows are not touched.
      \A s \in Ml2Resources, m \in DOMAIN Drivers : Told(s, m) => Told(s, m)'
  <2> SUFFICES ASSUME NEW s \in Ml2Resources, NEW m \in DOMAIN Drivers, Told(s, m)
               PROVE  Told(s, m)'
    OBVIOUS
  <2>1. Drivers[m] \in DriverSet
    BY DriversAreListed
  <2>2. CASE TellDriver(w)
    <3>1. /\ knows' = [knows EXCEPT ![d][r] = row[r]] /\ missed' = missed \ {<<d, r>>}
      BY <2>2, <1>1, <1>2 DEF TellDriver
    <3>2. CASE Drivers[m] = d /\ s = r
      BY <3>1, <3>2, <1>3 DEF Told, Ml2Inv, Ml2Types
    <3>3. CASE ~(Drivers[m] = d /\ s = r)
      <4>1. knows'[Drivers[m]][s] = knows[Drivers[m]][s]
        BY <3>1, <3>3, <2>1 DEF Ml2Inv, Ml2Types
      <4> QED BY <4>1, <3>1, <3>3, <1>3 DEF Told
    <3> QED BY <3>2, <3>3
  <2>3. CASE DriverRaises(w)
    <3>1. UNCHANGED knows /\ missed \subseteq missed'
      BY <2>3 DEF DriverRaises
    <3> QED BY <3>1, <1>3 DEF Told
  <2> QED BY <2>2, <2>3
<1>6. \A m \in 1 .. i - 1 : m \in DOMAIN Drivers /\ Told(r, m)'
  BY <1>2, <1>5, DriversAreListed
<1>7. q # Idle => JobFits(q)'
  <2>1. CASE q.step = "drivers" /\ q.op = j.op /\ q.next = i + 1 /\ i < Len(Drivers) /\ Told(r, i)'
    <3>1. i + 1 \in DOMAIN Drivers /\ \A m \in 1 .. q.next - 1 : Told(r, m)'
      BY <2>1, <1>2, <1>6, DriversAreListed
    <3> QED BY <2>1, <3>1, <1>1, <1>2, <1>3, <1>4 DEF JobFits, Lives
  <2>2. CASE q.step = "transaction" /\ q.op = "delete" /\ j.op = "create"
    BY <2>2, <1>1, <1>2, <1>3, <1>4 DEF JobFits
  <2> QED BY <1>4, <2>1, <2>2
<1>8. OthersKeep(w)
  <2> SUFFICES ASSUME NEW v \in Ml2Workers \ {w}, NEW o \in Jobs, job[v] = o
               PROVE  JobFits(o)'
    BY DEF OthersKeep
  <2>1. JobFits(o) /\ o.resource \in Ml2Resources
    BY DEF Ml2Inv, JobsFit, Jobs, Ml2Constants
  <2>2. o.op = "create" => OwnerProject[o.resource] \notin purging /\ Lives(OwnerProject[o.resource])
    BY <2>1 DEF JobFits
  <2>3. Lives(OwnerProject[o.resource])' <=> Lives(OwnerProject[o.resource])
    BY <1>3 DEF Lives
  <2> QED BY <2>1, <2>2, <2>3, <1>3, <1>5, JobStays
<1>9. JobsFit'
  BY <1>1, <1>2, <1>4, <1>7, <1>8, JobsFitAfter DEF OthersKeep, Ml2Inv
<1>10. DriversKnow'
  <2> SUFFICES ASSUME NEW s \in Ml2Resources \ GroupResources, NobodyTells(s)',
                      NEW m \in DOMAIN Drivers
               PROVE  Told(s, m)'
    BY DEF DriversKnow
  <2>1. CASE s # r
    <3>1. NobodyTells(s)
      BY <2>1, <1>1, <1>2, <1>4 DEF NobodyTells, Ml2Inv, JobsFit
    <3> QED BY <3>1, <1>5 DEF DriversKnow, Ml2Inv
  <2>2. CASE s = r
    <3>1. job'[w] = q
      BY <1>4 DEF Ml2Inv, JobsFit
    <3>2. ~(q # Idle /\ q.step = "drivers")
      BY <2>2, <3>1, <1>4 DEF NobodyTells
    <3>3. m \in 1 .. i - 1 \/ m \in i .. Len(Drivers)
      BY <1>2, DriversAreListed
    <3>4. CASE m \in 1 .. i - 1
      BY <3>4, <2>2, <1>6
    <3>5. CASE m \in i .. Len(Drivers)
      BY <3>5, <3>2, <2>2, <1>4, <1>2
    <3> QED BY <3>3, <3>4, <3>5
  <2> QED BY <2>1, <2>2
<1>11. Ml2Types'
  <2>1. knows' \in [DriverSet -> [Ml2Resources -> 0 .. 2]]
    <3>1. knows \in [DriverSet -> [Ml2Resources -> 0 .. 2]] /\ row[r] \in 0 .. 2
      BY DEF Ml2Inv, Ml2Types
    <3>2. CASE TellDriver(w)
      <4>1. knows' = [knows EXCEPT ![d][r] = row[r]]
        BY <3>2, <1>1, <1>2 DEF TellDriver
      <4> QED BY <4>1, <3>1
    <3>3. CASE DriverRaises(w)
      BY <3>1, <3>3 DEF DriverRaises
    <3> QED BY <3>2, <3>3
  <2>2. missed' \subseteq DriverSet \X Ml2Resources
    <3>1. \A m \in i .. Len(Drivers) : Drivers[m] \in DriverSet
      BY <1>2, DriversAreListed
    <3>2. CASE TellDriver(w)
      BY <3>2 DEF TellDriver, Ml2Inv, Ml2Types
    <3>3. CASE DriverRaises(w)
      BY <3>1, <3>3, <1>1, <1>2 DEF DriverRaises, Ml2Inv, Ml2Types
    <3> QED BY <3>2, <3>3
  <2> QED BY <2>1, <2>2, <1>3 DEF Ml2Inv, Ml2Types
<1>12. ImplicitApart' /\ NamesFit' /\ TenantsAreThere'
  BY <1>3 DEF Ml2Inv, ImplicitApart, NamesFit, TenantsAreThere, Fresh
<1> QED BY <1>9, <1>10, <1>11, <1>12 DEF Ml2Inv

\* Steps of Keystone and of its notifications leave the rows and the requests alone.
LEMMA ProjectsKeep ==
  ASSUME Ml2Constants, Ml2Inv, UNCHANGED <<row, implicit, knows, missed, job>>,
         NEW p \in Projects,
         \A q \in Projects \ {p} : Lives(q)' <=> Lives(q),
         \A q \in Projects \ {p} : q \in purging' => q \in purging,
         \A q \in Projects \ {p} : aimTenant'[q] = aimTenant[q],
         CreationsIn(p) # {} => p \notin purging' /\ Lives(p)',
         (RowsOf(p) # {} \/ CreationsIn(p) # {}) /\ aimTenant[p] # NoName => aimTenant'[p] # NoName
  PROVE  JobsFit' /\ DriversKnow' /\ ImplicitApart' /\ TenantsAreThere'
<1>1. ASSUME NEW w \in Ml2Workers, NEW j \in Jobs, job[w] = j
      PROVE  JobFits(j)'
  <2>1. JobFits(j) /\ OwnerProject[j.resource] \in Projects
    BY <1>1 DEF Ml2Inv, JobsFit, Jobs, Ml2Constants
  <2>2. \A i \in DOMAIN Drivers : Told(j.resource, i) => Told(j.resource, i)'
    BY DEF Told
  <2>3. ASSUME j.op = "create"
        PROVE  /\ OwnerProject[j.resource] \notin purging' /\ Lives(OwnerProject[j.resource])'
               /\ aimTenant[OwnerProject[j.resource]] # NoName =>
                    aimTenant'[OwnerProject[j.resource]] # NoName
    <3>1. CASE OwnerProject[j.resource] = p
      <4>1. w \in CreationsIn(p)
        BY <2>3, <3>1, <1>1 DEF CreationsIn, Busy, Ml2Constants
      <4> QED BY <4>1, <3>1
    <3>2. CASE OwnerProject[j.resource] # p
      BY <3>2, <2>1, <2>3 DEF JobFits
    <3> QED BY <3>1, <3>2
  <2> QED BY <2>1, <2>2, <2>3, JobStays
<1>2. JobsFit'
  <2>1. \A w \in Ml2Workers : job'[w] # Idle => JobFits(job[w])'
    <3> SUFFICES ASSUME NEW w \in Ml2Workers, job'[w] # Idle PROVE JobFits(job[w])'
      OBVIOUS
    <3>1. PICK j \in Jobs : job[w] = j
      BY DEF Ml2Inv, JobsFit
    <3>2. JobFits(j)' /\ job'[w] = j
      BY <3>1, <1>1
    <3> QED BY <3>2
  <2> QED BY <2>1 DEF Ml2Inv, JobsFit
<1>3. DriversKnow' /\ ImplicitApart'
  BY DEF Ml2Inv, DriversKnow, ImplicitApart, NobodyTells, Told
<1>4. TenantsAreThere'
  <2> SUFFICES ASSUME NEW q \in Ml2Resources, row[q] # 0
               PROVE  aimTenant'[OwnerProject[q]] # NoName
    BY DEF TenantsAreThere
  <2>1. aimTenant[OwnerProject[q]] # NoName /\ OwnerProject[q] \in Projects
    BY DEF Ml2Inv, TenantsAreThere, Ml2Constants
  <2>2. OwnerProject[q] = p => q \in RowsOf(p)
    BY DEF RowsOf
  <2> QED BY <2>1, <2>2
<1> QED BY <1>2, <1>3, <1>4

\* A worker that creates in a project: the project is not being purged.
LEMMA CreationsLive ==
  ASSUME Ml2Constants, Ml2Inv, NEW p \in Projects, CreationsIn(p) # {}
  PROVE  p \notin purging /\ Lives(p)
<1>1. PICK w \in Ml2Workers : job[w] # Idle /\ job[w].op = "create" /\ OwnerProject[job[w].resource] = p
  BY DEF CreationsIn, Busy
<1>2. JobFits(job[w])
  BY <1>1 DEF Ml2Inv, JobsFit
<1> QED BY <1>1, <1>2 DEF JobFits

LEMMA ProjectStepsKeep ==
  ASSUME Ml2Constants, Ml2Inv, NEW p \in Projects,
         (\E n \in ProjectNames : RenameProject(p, n)) \/ DeleteProject(p) \/ ProjectUpdated(p)
           \/ StartPurge(p) \/ PurgeTenant(p)
  PROVE  Ml2Inv'
<1>1. /\ keystone \in [Projects -> ProjectNames \cup {NoName}]
      /\ cached \in [Projects -> ProjectNames \cup {NoName}]
      /\ aimTenant \in [Projects -> ProjectNames \cup {NoName}]
      /\ \A q \in Projects : /\ cached[q] # NoName => Fresh(q, cached[q])
                             /\ aimTenant[q] # NoName => aimTenant[q] = cached[q]
  BY DEF Ml2Inv, Ml2Types, NamesFit
<1>2. UNCHANGED <<row, implicit, knows, missed, job>>
  BY DEF RenameProject, DeleteProject, ProjectUpdated, StartPurge, PurgeTenant, rowVars
<1>3. CASE \E n \in ProjectNames : RenameProject(p, n)
  <2>1. PICK n \in ProjectNames : RenameProject(p, n)
    BY <1>3
  <2>2. /\ keystone' = [keystone EXCEPT ![p] = n] /\ notices' = notices \cup {<<"updated", p>>}
        /\ UNCHANGED <<cached, aimTenant, purging>> /\ keystone[p] # NoName
    BY <2>1 DEF RenameProject, tenantVars
  <2>3. \A q \in Projects : Lives(q)' <=> Lives(q)
    BY <2>2, <1>1 DEF Lives, Ml2Constants
  <2>4. JobsFit' /\ DriversKnow' /\ ImplicitApart' /\ TenantsAreThere'
    BY <1>2, <2>2, <2>3, CreationsLive, ProjectsKeep
  <2>5. NamesFit'
    BY <1>1, <2>2 DEF NamesFit, Fresh
  <2>6. Ml2Types'
    BY <1>1, <1>2, <2>2 DEF Ml2Inv, Ml2Types
  <2> QED BY <2>4, <2>5, <2>6 DEF Ml2Inv
<1>4. CASE DeleteProject(p)
  <2>2. /\ keystone' = [keystone EXCEPT ![p] = NoName] /\ notices' = notices \cup {<<"deleted", p>>}
        /\ UNCHANGED <<cached, aimTenant, purging>>
    BY <1>4 DEF DeleteProject, tenantVars
  <2>3. Lives(p)' /\ \A q \in Projects \ {p} : Lives(q)' <=> Lives(q)
    BY <2>2, <1>1 DEF Lives
  <2>4. JobsFit' /\ DriversKnow' /\ ImplicitApart' /\ TenantsAreThere'
    BY <1>2, <2>2, <2>3, CreationsLive, ProjectsKeep
  <2>5. NamesFit'
    BY <1>1, <2>2 DEF NamesFit, Fresh
  <2>6. Ml2Types'
    BY <1>1, <1>2, <2>2 DEF Ml2Inv, Ml2Types
  <2> QED BY <2>4, <2>5, <2>6 DEF Ml2Inv
<1>5. CASE ProjectUpdated(p)
  <2>1. /\ notices' = notices \ {<<"updated", p>>} /\ UNCHANGED <<keystone, purging>>
        /\ IF keystone[p] \in {cached[p], NoName} THEN UNCHANGED <<cached, aimTenant>>
           ELSE /\ cached' = [cached EXCEPT ![p] = keystone[p]]
                /\ aimTenant' = IF aimTenant[p] = NoName THEN aimTenant
                                ELSE [aimTenant EXCEPT ![p] = keystone[p]]
    BY <1>5 DEF ProjectUpdated, tenantVars
  <2>2. \A q \in Projects : Lives(q)' <=> Lives(q)
    BY <2>1 DEF Lives
  <2>3. /\ \A q \in Projects \ {p} : aimTenant'[q] = aimTenant[q]
        /\ aimTenant[p] # NoName => aimTenant'[p] # NoName
    BY <2>1, <1>1
  <2>4. JobsFit' /\ DriversKnow' /\ ImplicitApart' /\ TenantsAreThere'
    BY <1>2, <2>1, <2>2, <2>3, CreationsLive, ProjectsKeep
  <2>5. NamesFit'
    <3> SUFFICES ASSUME NEW q \in Projects
                 PROVE  /\ cached'[q] # NoName => Fresh(q, cached[q])'
                        /\ aimTenant'[q] # NoName => aimTenant'[q] = cached'[q]
      BY DEF NamesFit
    <3>1. CASE q # p
      BY <3>1, <1>1, <2>1 DEF Fresh
    <3>2. CASE q = p
      BY <3>2, <1>1, <2>1 DEF Fresh
    <3> QED BY <3>1, <3>2
  <2>6. Ml2Types'
    BY <1>1, <1>2, <2>1 DEF Ml2Inv, Ml2Types
  <2> QED BY <2>4, <2>5, <2>6 DEF Ml2Inv
<1>6. CASE StartPurge(p)
  <2>1. /\ CreationsIn(p) = {} /\ purging' = purging \cup {p} /\ notices' = notices \ {<<"deleted", p>>}
        /\ UNCHANGED <<keystone, cached, aimTenant>>
    BY <1>6 DEF StartPurge, tenantVars, Ml2Constants
  <2>2. \A q \in Projects \ {p} : Lives(q)' <=> Lives(q)
    BY <2>1 DEF Lives
  <2>4. JobsFit' /\ DriversKnow' /\ ImplicitApart' /\ TenantsAreThere'
    BY <1>2, <2>1, <2>2, ProjectsKeep
  <2>5. NamesFit'
    BY <1>1, <2>1 DEF NamesFit, Fresh
  <2>6. Ml2Types'
    BY <1>1, <1>2, <2>1 DEF Ml2Inv, Ml2Types
  <2> QED BY <2>4, <2>5, <2>6 DEF Ml2Inv
<1>7. CASE PurgeTenant(p)
  <2>1. /\ p \in purging /\ RowsOf(p) = {} /\ purging' = purging \ {p}
        /\ aimTenant' = [aimTenant EXCEPT ![p] = NoName] /\ UNCHANGED <<keystone, notices, cached>>
    BY <1>7 DEF PurgeTenant
  <2>2. CreationsIn(p) = {}
    BY <2>1, CreationsLive
  <2>3. \A q \in Projects : Lives(q)' <=> Lives(q)
    BY <2>1 DEF Lives
  <2>4. JobsFit' /\ DriversKnow' /\ ImplicitApart' /\ TenantsAreThere'
    <3>1. \A q \in Projects \ {p} : aimTenant'[q] = aimTenant[q]
      BY <2>1, <1>1
    <3> QED BY <1>2, <2>1, <2>2, <2>3, <3>1, ProjectsKeep
  <2>5. NamesFit'
    BY <1>1, <2>1 DEF NamesFit, Fresh
  <2>6. Ml2Types'
    BY <1>1, <1>2, <2>1 DEF Ml2Inv, Ml2Types
  <2> QED BY <2>4, <2>5, <2>6 DEF Ml2Inv
<1> QED BY <1>3, <1>4, <1>5, <1>6, <1>7

LEMMA Ml2Step ==
  ASSUME Ml2Constants, Ml2Inv, [Ml2Next]_ml2Vars
  PROVE  Ml2Inv'
<1>1. CASE UNCHANGED ml2Vars
  <2>1. UNCHANGED <<row, implicit, knows, missed, job, cached, aimTenant, keystone, notices, purging>>
    BY <1>1 DEF ml2Vars, rowVars, tenantVars, projectVars
  <2>2. JobsFit'
    BY <2>1 DEF Ml2Inv, JobsFit, JobFits, Told, Lives
  <2> QED BY <2>1, <2>2 DEF Ml2Inv, Ml2Types, DriversKnow, NobodyTells, Told, ImplicitApart, NamesFit,
             TenantsAreThere, Fresh
<1> QED BY <1>1, StartRequestKeeps, EnsureTenantKeeps, TransactionKeeps, AbortTransactionKeeps,
           TellDriverKeeps, ProjectStepsKeep DEF Ml2Next

\* Subnet pools, address scopes and security groups (plugin.py, managers.py,
\* implicitsubnetpool_db.py and cache.py of ml2plus), for any number of workers,
\* drivers and projects, transactions that see each other's writes and patience.
THEOREM ResourcesAreKnownAlways ==
  ASSUME Ml2Constants
  PROVE  Ml2Spec => []ResourcesAreKnown
<1>1. Ml2Init => Ml2Inv
  BY Ml2Starts
<1>2. Ml2Inv /\ [Ml2Next]_ml2Vars => Ml2Inv'
  BY Ml2Step
<1>3. Ml2Inv => ResourcesAreKnown
  BY Ml2InvSuffices
<1> QED BY <1>1, <1>2, <1>3, PTL DEF Ml2Spec
--------------------
(* The addresses of L3 policies *)

\* Identities of what is made are new and of one policy each, there is a default
\* subnetpool, and nothing is not a row.
L3Records == [scope : Scopes, pools : SUBSET SubnetPools]
Allocations ==
  [group : PoolGroups, left : SUBSET PoolBlocks, made : PoolBlocks \cup {Nothing}, checked : BOOLEAN]
AddressConstants ==
  /\ ScopeMade \in [L3Rows -> Scopes] /\ \A k, l \in L3Rows : ScopeMade[k] = ScopeMade[l] => k = l
  /\ PoolMade \in [L3Rows -> SubnetPools] /\ GroupL3 \in [PoolGroups -> L3Rows]
  /\ DefaultPool \in SubnetPools /\ ~Owned(DefaultPool)
  /\ Nothing \notin Scopes \cup SubnetPools \cup PoolBlocks \cup L3Records \cup Allocations

\* Clients ask for anything; of external segments, whatever addresses.
AnyPools ==
  \/ \E l \in L3Rows :
       \/ \E s \in Scopes \cup {Nothing}, ps \in SUBSET SubnetPools, b \in BOOLEAN : CreateL3(l, s, ps, b)
       \/ \E ps \in SUBSET SubnetPools : UpdateL3Pools(l, ps)
       \/ DeleteL3(l)
  \/ \E g \in PoolGroups : AllocateFromPool(g) \/ ReleaseToPool(g)
  \/ \E p \in SubnetPools : UseDirectly(p) \/ \E s \in Scopes : CreateUserPool(p, s)
AnyBlocks ==
  \/ \E w \in PoolWorkers :
       \/ \E g \in PoolGroups : StartAllocation(w, g)
       \/ \E b \in PoolBlocks : MakeSubnet(w, b)
       \/ ValidateSubnet(w) \/ AddSubnet(w) \/ NoSubnetAvailable(w)
  \/ \E g \in PoolGroups : ReleaseBlock(g)
AnySegments ==
  \/ \E l \in L3Rows :
       \/ \E given : given # Nothing /\ DOMAIN given \subseteq Segments /\ SetSegments(l, given)
       \/ ClearSegments(l)
  \/ \E e \in Segments, ds \in SUBSET Destinations, admin \in BOOLEAN : SetRoutes(e, ds, admin)
AddressSpec == AddressInit /\ [][AnyPools \/ AnyBlocks \/ AnySegments]_addressVars

\* Subnetpools: the property, the default pool, and the scope a policy was made
\* for, which goes with it.
PoolTypes ==
  /\ scopes \subseteq Scopes /\ poolScope \in [SubnetPools -> Scopes \cup {Nothing}]
  /\ l3Row \in [L3Rows -> L3Records \cup {Nothing}]
  /\ groupPool \in [PoolGroups -> SubnetPools \cup {Nothing}]
RowFits(l) ==
  LET r == l3Row[l] IN
  /\ r.scope \in scopes /\ r.pools # {} /\ \A p \in r.pools : poolScope[p] = r.scope
  /\ \A k \in L3Rows \ {l} : l3Row[k] # Nothing => l3Row[k].scope # r.scope
GroupFits(g) == l3Row[GroupL3[g]] # Nothing /\ groupPool[g] \in l3Row[GroupL3[g]].pools
PoolFits(p) ==
  /\ poolScope[p] \in scopes
  /\ Owned(p) /\ p \notin kept => \E l \in L3Rows : l3Row[l] # Nothing /\ p \in l3Row[l].pools
ScopeFits(l) ==
  ScopeMade[l] \in scopes \ kept => l3Row[l] # Nothing /\ l3Row[l].scope = ScopeMade[l]
PoolInv ==
  /\ PoolTypes
  /\ \A l \in L3Rows : l3Row[l] # Nothing => RowFits(l)
  /\ \A g \in PoolGroups : groupPool[g] # Nothing => GroupFits(g)
  /\ \A p \in SubnetPools : poolScope[p] # Nothing => PoolFits(p)
  /\ \A l \in L3Rows : ScopeFits(l)
  /\ poolScope[DefaultPool] # Nothing

LEMMA PoolInvSuffices ==
  ASSUME AddressConstants, PoolInv
  PROVE  PoolsBelongToPolicies
<1>1. \A l \in L3Rows : l3Row[l] # Nothing =>
        /\ l3Row[l].scope \in scopes /\ l3Row[l].pools # {} /\ \A p \in l3Row[l].pools : poolScope[p] = l3Row[l].scope
        /\ \A k \in L3Rows \ {l} : l3Row[k] # Nothing => l3Row[k].scope # l3Row[l].scope
  BY DEF PoolInv, RowFits
<1>2. Exists(l3Row) = {l \in L3Rows : l3Row[l] # Nothing} /\ Exists(groupPool) = {g \in PoolGroups : groupPool[g] # Nothing}
      /\ Exists(poolScope) = {p \in SubnetPools : poolScope[p] # Nothing}
  BY DEF PoolInv, PoolTypes, Exists
<1>3. \A g \in PoolGroups : groupPool[g] # Nothing => l3Row[GroupL3[g]] # Nothing /\ groupPool[g] \in l3Row[GroupL3[g]].pools
  BY DEF PoolInv, GroupFits
<1>4. \A p \in SubnetPools : poolScope[p] # Nothing =>
        /\ poolScope[p] \in scopes
        /\ Owned(p) /\ p \notin kept => \E l \in L3Rows : l3Row[l] # Nothing /\ p \in l3Row[l].pools
  BY DEF PoolInv, PoolFits
<1>5. \A l \in L3Rows : ScopeMade[l] \in scopes \ kept => l3Row[l] # Nothing
  BY DEF PoolInv, ScopeFits
<1> QED BY <1>1, <1>2, <1>3, <1>4, <1>5 DEF PoolsBelongToPolicies, GroupsOf

LEMMA CreateL3Keeps ==
  ASSUME AddressConstants, PoolInv, NEW l \in L3Rows, NEW sc \in Scopes \cup {Nothing},
         NEW ps \in SUBSET SubnetPools, NEW b \in BOOLEAN, CreateL3(l, sc, ps, b)
  PROVE  PoolInv'
<1>1. l3Row[l] = Nothing /\ poolScope[PoolMade[l]] = Nothing /\ ScopeMade[l] \notin scopes
      /\ ps \subseteq {p \in SubnetPools : poolScope[p] # Nothing} /\ UNCHANGED <<groupPool, kept>>
  BY DEF CreateL3, Exists, PoolInv, PoolTypes
<1> DEFINE makes == ps = {} /\ b
           default == IF ps = {} /\ ~b THEN DefaultPools ELSE {}
           mine == IF makes THEN {PoolMade[l]} ELSE ps \cup default
<1>2. PICK s : /\ s \in IF sc # Nothing THEN {sc}
                        ELSE IF ps # {} THEN {poolScope[p] : p \in ps}
                        ELSE IF b THEN {ScopeMade[l]}
                        ELSE {poolScope[p] : p \in default}
               /\ s \notin ScopesTaken(l) /\ SameScope(ps \cup default, s)
               /\ scopes' = scopes \cup {s}
               /\ poolScope' = IF makes THEN [poolScope EXCEPT ![PoolMade[l]] = s] ELSE poolScope
               /\ l3Row' = [l3Row EXCEPT ![l] = [scope |-> s, pools |-> mine]]
  BY DEF CreateL3
<1>3. PoolMade[l] \in SubnetPools /\ Owned(PoolMade[l]) /\ DefaultPools = {DefaultPool}
      /\ PoolMade[l] # DefaultPool
  BY DEF AddressConstants, Owned, DefaultPools
<1>4. sc \in scopes \cup {Nothing}
  BY DEF CreateL3
<1>5. s \in Scopes /\ s # Nothing /\ (s \in scopes \/ s = ScopeMade[l])
  <2>1. \A p \in ps \cup default : poolScope[p] \in scopes
    BY <1>1, <1>3 DEF PoolInv, PoolFits, AddressConstants
  <2>2. s \in scopes \/ s = ScopeMade[l]
    BY <1>2, <1>4, <2>1
  <2> QED BY <2>2 DEF PoolInv, PoolTypes, AddressConstants
<1>6. \A k \in L3Rows \ {l} : l3Row[k] # Nothing => l3Row[k].scope # s
  BY <1>2 DEF ScopesTaken, Exists, PoolInv, PoolTypes
<1>7. mine \subseteq SubnetPools /\ mine # {} /\ \A p \in mine : poolScope'[p] = s
  <2>1. CASE makes
    BY <2>1, <1>2, <1>3 DEF PoolInv, PoolTypes
  <2>2. CASE ~makes
    BY <2>2, <1>1, <1>2, <1>3 DEF SameScope, AddressConstants
  <2> QED BY <2>1, <2>2
<1>8. \A p \in SubnetPools : /\ poolScope[p] # Nothing => poolScope'[p] = poolScope[p]
                             /\ poolScope'[p] # poolScope[p] => p = PoolMade[l] /\ makes /\ poolScope'[p] = s
  BY <1>1, <1>2, <1>3 DEF PoolInv, PoolTypes
<1>9. PICK q \in L3Records : q = [scope |-> s, pools |-> mine]
  BY <1>5, <1>7 DEF L3Records
<1>10. /\ l3Row' = [l3Row EXCEPT ![l] = q] /\ q.scope = s /\ q # Nothing
       /\ q.pools # {} /\ \A p \in q.pools : p \in SubnetPools /\ poolScope'[p] = s
       /\ makes => q.pools = {PoolMade[l]}
  BY <1>2, <1>7, <1>9 DEF AddressConstants
<1> HIDE DEF makes, default, mine
<1>11. PoolTypes'
  BY <1>1, <1>2, <1>3, <1>5, <1>10 DEF PoolInv, PoolTypes
<1>12. l3Row'[l] = q /\ \A k \in L3Rows \ {l} : l3Row'[k] = l3Row[k]
  BY <1>10 DEF PoolInv, PoolTypes
<1>13. ASSUME NEW k \in L3Rows, l3Row'[k] # Nothing
       PROVE  RowFits(k)'
  <2>1. CASE k = l
    BY <2>1, <1>2, <1>6, <1>10, <1>12 DEF RowFits
  <2>2. CASE k # l
    <3>1. RowFits(k) /\ l3Row'[k] = l3Row[k] /\ l3Row[k] \in L3Records
      BY <2>2, <1>12, <1>13 DEF PoolInv, PoolTypes
    <3>2. \A p \in l3Row[k].pools : poolScope'[p] = l3Row[k].scope
      <4> SUFFICES ASSUME NEW p \in l3Row[k].pools PROVE poolScope'[p] = l3Row[k].scope
        OBVIOUS
      <4>1. p \in SubnetPools /\ poolScope[p] = l3Row[k].scope /\ l3Row[k].scope \in Scopes
        BY <3>1 DEF RowFits, L3Records
      <4> QED BY <4>1, <1>8 DEF AddressConstants
    <3>3. \A m \in L3Rows \ {k} : l3Row'[m] # Nothing => l3Row'[m].scope # l3Row[k].scope
      BY <3>1, <2>2, <1>6, <1>10, <1>12, <1>13 DEF RowFits
    <3> QED BY <3>1, <3>2, <3>3, <1>2 DEF RowFits
  <2> QED BY <2>1, <2>2
<1>14. ASSUME NEW g \in PoolGroups, groupPool'[g] # Nothing
       PROVE  GroupFits(g)'
  <2>1. GroupFits(g) /\ GroupL3[g] \in L3Rows
    BY <1>1, <1>14 DEF PoolInv, AddressConstants
  <2>2. l3Row'[GroupL3[g]] = l3Row[GroupL3[g]]
    BY <2>1, <1>1, <1>12 DEF GroupFits
  <2> QED BY <2>1, <2>2, <1>1 DEF GroupFits
<1>15. ASSUME NEW p \in SubnetPools, poolScope'[p] # Nothing
       PROVE  PoolFits(p)'
  <2>1. CASE poolScope'[p] = poolScope[p]
    <3>1. PoolFits(p)
      BY <2>1, <1>15 DEF PoolInv
    <3>2. \A k \in L3Rows : l3Row[k] # Nothing => l3Row'[k] = l3Row[k]
      BY <1>1, <1>12
    <3> QED BY <3>1, <3>2, <2>1, <1>1, <1>2 DEF PoolFits, Owned
  <2>2. CASE poolScope'[p] # poolScope[p]
    <3>1. p = PoolMade[l] /\ makes /\ poolScope'[p] = s
      BY <2>2, <1>8
    <3>2. p \in l3Row'[l].pools /\ l3Row'[l] # Nothing
      BY <3>1, <1>10, <1>12
    <3> QED BY <3>1, <3>2, <1>2 DEF PoolFits
  <2> QED BY <2>1, <2>2
<1>16. ASSUME NEW k \in L3Rows
       PROVE  ScopeFits(k)'
  <2> SUFFICES ASSUME ScopeMade[k] \in scopes', ScopeMade[k] \notin kept
               PROVE  l3Row'[k] # Nothing /\ l3Row'[k].scope = ScopeMade[k]
    BY <1>1 DEF ScopeFits
  <2>1. CASE ScopeMade[k] \in scopes
    <3>1. k # l /\ l3Row[k] # Nothing /\ l3Row[k].scope = ScopeMade[k]
      BY <2>1, <1>1 DEF PoolInv, ScopeFits
    <3> QED BY <3>1, <1>12
  <2>2. CASE ScopeMade[k] \notin scopes
    <3>1. ScopeMade[k] = s /\ s = ScopeMade[l]
      BY <2>2, <1>2, <1>5
    <3>2. k = l
      BY <3>1 DEF AddressConstants
    <3> QED BY <3>1, <3>2, <1>10, <1>12
  <2> QED BY <2>1, <2>2
<1>17. poolScope'[DefaultPool] # Nothing
  BY <1>8 DEF PoolInv, AddressConstants
<1> QED BY <1>11, <1>13, <1>14, <1>15, <1>16, <1>17 DEF PoolInv

\* Pools that no policy uses go with the last one: nobody else loses a pool.
LEMMA PoolsGoAlone ==
  ASSUME AddressConstants, PoolInv, NEW l \in L3Rows, l3Row[l] # Nothing,
         NEW gone \in SUBSET l3Row[l].pools, poolScope' = Without(Deleted(gone))
  PROVE  /\ poolScope' \in [SubnetPools -> Scopes \cup {Nothing}]
         /\ \A p \in SubnetPools : IF p \in Deleted(gone) THEN poolScope'[p] = Nothing
                                   ELSE poolScope'[p] = poolScope[p]
         /\ Deleted(gone) \subseteq gone /\ DefaultPool \notin Deleted(gone)
         /\ \A k \in L3Rows \ {l} : l3Row[k] # Nothing =>
              \A p \in l3Row[k].pools : p \notin gone /\ poolScope'[p] = poolScope[p]
<1>1. RowFits(l) /\ l3Row[l] \in L3Records
  BY DEF PoolInv, PoolTypes
<1>2. gone \subseteq SubnetPools /\ \A p \in gone : poolScope[p] = l3Row[l].scope
  BY <1>1 DEF RowFits, L3Records
<1>3. Deleted(gone) \subseteq gone /\ DefaultPool \notin Deleted(gone)
  BY DEF Deleted, AddressConstants
<1>4. \A p \in SubnetPools : IF p \in Deleted(gone) THEN poolScope'[p] = Nothing
                                   ELSE poolScope'[p] = poolScope[p]
  BY DEF Without
<1>5. poolScope' \in [SubnetPools -> Scopes \cup {Nothing}]
  BY DEF Without, PoolInv, PoolTypes
<1>6. ASSUME NEW k \in L3Rows \ {l}, l3Row[k] # Nothing, NEW p \in l3Row[k].pools
      PROVE  p \notin gone /\ poolScope'[p] = poolScope[p]
  <2>1. poolScope[p] = l3Row[k].scope /\ p \in SubnetPools /\ l3Row[k].scope # l3Row[l].scope
    BY <1>1, <1>6 DEF PoolInv, PoolTypes, RowFits, L3Records
  <2> QED BY <2>1, <1>2, <1>3, <1>4
<1> QED BY <1>3, <1>4, <1>5, <1>6

LEMMA UpdateL3PoolsKeeps ==
  ASSUME AddressConstants, PoolInv, NEW l \in L3Rows, NEW ps \in SUBSET SubnetPools, UpdateL3Pools(l, ps)
  PROVE  PoolInv'
<1> DEFINE removed == l3Row[l].pools \ ps
<1>1. /\ l3Row[l] # Nothing /\ ps # {} /\ \A p \in ps : poolScope[p] = l3Row[l].scope
      /\ \A g \in GroupsOf(l) : groupPool[g] \notin removed
      /\ poolScope' = Without(Deleted(removed))
      /\ kept' = kept \cup {p \in removed \ Deleted(removed) : Owned(p)}
      /\ l3Row' = [l3Row EXCEPT ![l].pools = ps]
      /\ UNCHANGED <<scopes, groupPool>>
  BY DEF UpdateL3Pools, SameScope
<1>2. /\ poolScope' \in [SubnetPools -> Scopes \cup {Nothing}]
      /\ \A p \in SubnetPools : IF p \in Deleted(removed) THEN poolScope'[p] = Nothing
                                ELSE poolScope'[p] = poolScope[p]
      /\ Deleted(removed) \subseteq removed /\ DefaultPool \notin Deleted(removed)
      /\ \A k \in L3Rows \ {l} : l3Row[k] # Nothing =>
           \A p \in l3Row[k].pools : p \notin removed /\ poolScope'[p] = poolScope[p]
  <2>1. removed \in SUBSET l3Row[l].pools /\ l3Row[l] # Nothing /\ poolScope' = Without(Deleted(removed))
    BY <1>1
  <2> HIDE DEF removed
  <2> QED BY <2>1, PoolsGoAlone
<1>3. l3Row[l] \in L3Records
  BY <1>1 DEF PoolInv, PoolTypes
<1>4. PICK q \in L3Records : q = [l3Row[l] EXCEPT !.pools = ps]
  BY <1>3 DEF L3Records
<1>5. q.scope = l3Row[l].scope /\ q.pools = ps /\ q # Nothing /\ l3Row' = [l3Row EXCEPT ![l] = q]
  BY <1>1, <1>3, <1>4 DEF L3Records, AddressConstants
<1>6. l3Row'[l] = q /\ \A k \in L3Rows \ {l} : l3Row'[k] = l3Row[k]
  BY <1>5 DEF PoolInv, PoolTypes
<1>7. PoolTypes'
  <2>1. l3Row' \in [L3Rows -> L3Records \cup {Nothing}]
    BY <1>5 DEF PoolInv, PoolTypes
  <2> QED BY <2>1, <1>1, <1>2 DEF PoolInv, PoolTypes
<1>8. \A k \in L3Rows : l3Row'[k] # Nothing => l3Row[k] # Nothing /\ l3Row'[k].scope = l3Row[k].scope
  BY <1>1, <1>5, <1>6
<1>9. ASSUME NEW k \in L3Rows, l3Row'[k] # Nothing
      PROVE  RowFits(k)'
  <2>1. RowFits(k) /\ l3Row[k] # Nothing
    BY <1>8, <1>9 DEF PoolInv
  <2>2. \A m \in L3Rows \ {k} : l3Row'[m] # Nothing => l3Row'[m].scope # l3Row'[k].scope
    BY <2>1, <1>8, <1>9 DEF RowFits
  <2>3. l3Row'[k].scope \in scopes'
    BY <2>1, <1>1, <1>8, <1>9 DEF RowFits
  <2>4. l3Row'[k].pools # {} /\ \A p \in l3Row'[k].pools : poolScope'[p] = l3Row'[k].scope
    <3>1. CASE k = l
      BY ZenonT(40), <3>1, <1>1, <1>2, <1>5, <1>6
    <3>2. CASE k # l
      BY <3>2, <2>1, <1>2, <1>6 DEF RowFits
    <3> QED BY <3>1, <3>2
  <2> QED BY <2>2, <2>3, <2>4 DEF RowFits
<1>10. ASSUME NEW g \in PoolGroups, groupPool'[g] # Nothing
       PROVE  GroupFits(g)'
  <2>1. GroupFits(g) /\ GroupL3[g] \in L3Rows /\ groupPool[g] # Nothing
    BY <1>1, <1>10 DEF PoolInv, AddressConstants
  <2>2. l3Row'[GroupL3[g]] # Nothing /\ groupPool[g] \in l3Row'[GroupL3[g]].pools
    <3>1. CASE GroupL3[g] = l
      <4>1. g \in GroupsOf(l)
        BY <3>1, <2>1 DEF GroupsOf, Exists, PoolInv, PoolTypes
      <4> QED BY <4>1, <3>1, <2>1, <1>1, <1>5, <1>6 DEF GroupFits
    <3>2. CASE GroupL3[g] # l
      BY <3>2, <2>1, <1>6 DEF GroupFits
    <3> QED BY <3>1, <3>2
  <2> QED BY <2>2, <1>1 DEF GroupFits
<1>11. ASSUME NEW p \in SubnetPools, poolScope'[p] # Nothing
       PROVE  PoolFits(p)'
  <2>1. p \notin Deleted(removed) /\ poolScope'[p] = poolScope[p] /\ PoolFits(p)
    BY <1>2, <1>11 DEF PoolInv
  <2>2. ASSUME Owned(p), p \notin kept'
        PROVE  \E k \in L3Rows : l3Row'[k] # Nothing /\ p \in l3Row'[k].pools
    <3>1. p \notin removed /\ p \notin kept
      BY <2>1, <2>2, <1>1
    <3>2. PICK k \in L3Rows : l3Row[k] # Nothing /\ p \in l3Row[k].pools
      BY <3>1, <2>1, <2>2 DEF PoolFits
    <3> QED BY <3>1, <3>2, <1>5, <1>6
  <2> QED BY <2>1, <2>2, <1>1 DEF PoolFits, Owned
<1>12. ASSUME NEW k \in L3Rows
       PROVE  ScopeFits(k)'
  BY <1>1, <1>5, <1>6 DEF PoolInv, ScopeFits
<1>13. poolScope'[DefaultPool] # Nothing
  BY <1>2 DEF PoolInv, AddressConstants
<1> QED BY <1>7, <1>9, <1>10, <1>11, <1>12, <1>13 DEF PoolInv

LEMMA DeleteL3Keeps ==
  ASSUME AddressConstants, PoolInv, NEW l \in L3Rows, DeleteL3(l)
  PROVE  PoolInv'
<1> DEFINE mine == l3Row[l].pools
           gone == Deleted(mine)
           s == l3Row[l].scope
           owned == \E k \in L3Rows : ScopeMade[k] = s
           used == \E p \in SubnetPools \ gone : poolScope[p] = s
<1>1. /\ l3Row[l] # Nothing /\ GroupsOf(l) = {}
      /\ l3Row' = [l3Row EXCEPT ![l] = Nothing]
      /\ poolScope' = Without(gone)
      /\ scopes' = IF owned /\ ~used THEN scopes \ {s} ELSE scopes
      /\ kept' = kept \cup {p \in mine \ gone : Owned(p)} \cup (IF owned /\ used THEN {s} ELSE {})
      /\ UNCHANGED groupPool
  BY DEF DeleteL3
<1>2. /\ poolScope' \in [SubnetPools -> Scopes \cup {Nothing}]
      /\ \A p \in SubnetPools : IF p \in gone THEN poolScope'[p] = Nothing
                                ELSE poolScope'[p] = poolScope[p]
      /\ gone \subseteq mine /\ DefaultPool \notin gone
      /\ \A k \in L3Rows \ {l} : l3Row[k] # Nothing =>
           \A p \in l3Row[k].pools : p \notin mine /\ poolScope'[p] = poolScope[p]
  BY <1>1, PoolsGoAlone
<1>3. RowFits(l) /\ l3Row[l] \in L3Records
  BY <1>1 DEF PoolInv, PoolTypes
<1>4. l3Row'[l] = Nothing /\ \A k \in L3Rows \ {l} : l3Row'[k] = l3Row[k]
  BY <1>1 DEF PoolInv, PoolTypes
<1>5. PoolTypes'
  BY <1>1, <1>2 DEF PoolInv, PoolTypes
<1>6. \A k \in L3Rows : l3Row'[k] # Nothing => k # l /\ l3Row[k] # Nothing /\ l3Row'[k] = l3Row[k]
  BY <1>4
<1>7. \A k \in L3Rows \ {l} : l3Row[k] # Nothing => l3Row[k].scope # s
  BY <1>3 DEF RowFits
<1>8. s \in Scopes /\ s # Nothing
  BY <1>3 DEF L3Records, AddressConstants
<1>9. scopes' \subseteq scopes /\ \A t \in scopes : t # s => t \in scopes'
  BY <1>1
<1>10. \A p \in SubnetPools : poolScope'[p] # Nothing => poolScope'[p] = poolScope[p] /\ p \notin gone
  BY <1>2
<1>11. s \in scopes /\ s \notin scopes' => owned /\ ~used
  BY <1>1
<1>12. mine \subseteq SubnetPools
  BY <1>3 DEF L3Records
<1>13. \A p \in SubnetPools : Owned(p) /\ p \in mine /\ p \notin gone => p \in kept'
  BY <1>1
<1>14. kept \subseteq kept' /\ (owned /\ used => s \in kept')
  BY <1>1
<1>15. s \in scopes' => ~owned \/ used
  BY <1>1
<1>16. \A k \in L3Rows : ScopeMade[k] = s => owned
  OBVIOUS
<1>17. \A p \in SubnetPools \ gone : poolScope[p] = s => used
  OBVIOUS
<1> HIDE DEF mine, gone, s, owned, used
<1>18. ASSUME NEW k \in L3Rows, l3Row'[k] # Nothing
       PROVE  RowFits(k)'
  <2>1. RowFits(k) /\ k # l /\ l3Row[k] # Nothing /\ l3Row'[k] = l3Row[k]
    BY <1>6, <1>18 DEF PoolInv
  <2>2. l3Row[k].scope \in scopes'
    BY <2>1, <1>7, <1>9 DEF RowFits
  <2>3. \A p \in l3Row[k].pools : poolScope'[p] = l3Row[k].scope
    BY <2>1, <1>2 DEF RowFits
  <2>4. \A m \in L3Rows \ {k} : l3Row'[m] # Nothing => l3Row'[m].scope # l3Row[k].scope
    BY <2>1, <1>6 DEF RowFits
  <2> QED BY <2>1, <2>2, <2>3, <2>4 DEF RowFits
<1>19. ASSUME NEW g \in PoolGroups, groupPool'[g] # Nothing
       PROVE  GroupFits(g)'
  <2>1. GroupFits(g) /\ GroupL3[g] \in L3Rows /\ groupPool[g] # Nothing
    BY <1>1, <1>19 DEF PoolInv, AddressConstants
  <2>2. GroupL3[g] # l
    BY <2>1, <1>1 DEF GroupsOf, Exists, PoolInv, PoolTypes
  <2>3. l3Row'[GroupL3[g]] = l3Row[GroupL3[g]]
    BY <2>1, <2>2, <1>4
  <2> QED BY <2>1, <2>3, <1>1 DEF GroupFits
<1>20. ASSUME NEW p \in SubnetPools, poolScope'[p] # Nothing
       PROVE  PoolFits(p)'
  <2>1. p \notin gone /\ poolScope'[p] = poolScope[p] /\ PoolFits(p)
    BY <1>10, <1>20 DEF PoolInv
  <2>2. poolScope'[p] \in scopes'
    BY <2>1, <1>9, <1>11, <1>17 DEF PoolFits
  <2>3. ASSUME Owned(p), p \notin kept'
        PROVE  \E k \in L3Rows : l3Row'[k] # Nothing /\ p \in l3Row'[k].pools
    <3>1. p \notin mine /\ p \notin kept
      BY <2>1, <2>3, <1>13, <1>14
    <3>2. PICK k \in L3Rows : l3Row[k] # Nothing /\ p \in l3Row[k].pools
      BY <3>1, <2>1, <2>3 DEF PoolFits
    <3>3. k # l
      BY <3>1, <3>2 DEF mine
    <3> QED BY <3>2, <3>3, <1>4
  <2> QED BY <2>2, <2>3, <1>1 DEF PoolFits, Owned
<1>21. ASSUME NEW k \in L3Rows
       PROVE  ScopeFits(k)'
  <2> SUFFICES ASSUME ScopeMade[k] \in scopes', ScopeMade[k] \notin kept'
               PROVE  l3Row'[k] # Nothing /\ l3Row'[k].scope = ScopeMade[k]
    BY DEF ScopeFits
  <2>1. l3Row[k] # Nothing /\ l3Row[k].scope = ScopeMade[k]
    BY <1>9, <1>14 DEF PoolInv, ScopeFits
  <2>2. k # l
    BY <2>1, <1>14, <1>15, <1>16 DEF s
  <2> QED BY <2>1, <2>2, <1>4
<1>22. poolScope'[DefaultPool] # Nothing
  BY <1>2 DEF PoolInv, AddressConstants
<1> QED BY <1>5, <1>18, <1>19, <1>20, <1>21, <1>22 DEF PoolInv

\* Groups take and give back their pools; users make pools in the scopes there are.
LEMMA OtherPoolStepsKeep ==
  ASSUME AddressConstants, PoolInv,
         \/ \E g \in PoolGroups : AllocateFromPool(g) \/ ReleaseToPool(g)
         \/ \E p \in SubnetPools : UseDirectly(p) \/ \E t \in Scopes : CreateUserPool(p, t)
         \/ UNCHANGED poolVars
  PROVE  PoolInv'
<1>1. ASSUME NEW g \in PoolGroups, AllocateFromPool(g) PROVE PoolInv'
  <2>1. PICK p \in l3Row[GroupL3[g]].pools : groupPool' = [groupPool EXCEPT ![g] = p]
    BY <1>1 DEF AllocateFromPool
  <2>2. l3Row[GroupL3[g]] # Nothing /\ UNCHANGED <<scopes, poolScope, l3Row, kept>>
    BY <1>1 DEF AllocateFromPool
  <2>3. GroupL3[g] \in L3Rows /\ p \in SubnetPools
    BY <2>1, <2>2 DEF PoolInv, PoolTypes, L3Records, AddressConstants
  <2>4. groupPool' \in [PoolGroups -> SubnetPools \cup {Nothing}]
    BY <2>1, <2>3 DEF PoolInv, PoolTypes
  <2>5. \A h \in PoolGroups : groupPool'[h] # Nothing => GroupFits(h)'
    BY <2>1, <2>2 DEF PoolInv, PoolTypes, GroupFits
  <2> QED BY <2>2, <2>4, <2>5 DEF PoolInv, PoolTypes, RowFits, PoolFits, ScopeFits, Owned
<1>2. ASSUME NEW g \in PoolGroups, ReleaseToPool(g) PROVE PoolInv'
  <2>1. groupPool' = [groupPool EXCEPT ![g] = Nothing] /\ UNCHANGED <<scopes, poolScope, l3Row, kept>>
    BY <1>2 DEF ReleaseToPool
  <2>2. groupPool' \in [PoolGroups -> SubnetPools \cup {Nothing}]
    BY <2>1 DEF PoolInv, PoolTypes
  <2>3. \A h \in PoolGroups : groupPool'[h] # Nothing => GroupFits(h)'
    BY <2>1 DEF PoolInv, PoolTypes, GroupFits
  <2> QED BY <2>1, <2>2, <2>3 DEF PoolInv, PoolTypes, RowFits, PoolFits, ScopeFits, Owned
<1>3. ASSUME NEW p \in SubnetPools, NEW t \in Scopes, CreateUserPool(p, t) PROVE PoolInv'
  <2>1. /\ ~Owned(p) /\ poolScope[p] = Nothing /\ t \in scopes
        /\ poolScope' = [poolScope EXCEPT ![p] = t]
        /\ UNCHANGED <<scopes, l3Row, groupPool, kept>>
    BY <1>3 DEF CreateUserPool
  <2>2. poolScope' \in [SubnetPools -> Scopes \cup {Nothing}] /\ poolScope'[DefaultPool] # Nothing
    BY <2>1 DEF PoolInv, PoolTypes, AddressConstants
  <2>3. ASSUME NEW k \in L3Rows, l3Row'[k] # Nothing PROVE RowFits(k)'
    <3>1. RowFits(k) /\ l3Row[k] \in L3Records /\ l3Row' = l3Row
      BY <2>1, <2>3 DEF PoolInv, PoolTypes
    <3>2. \A r \in l3Row[k].pools : poolScope'[r] = l3Row[k].scope
      <4> SUFFICES ASSUME NEW r \in l3Row[k].pools PROVE poolScope'[r] = l3Row[k].scope
        OBVIOUS
      <4>1. r \in SubnetPools /\ poolScope[r] = l3Row[k].scope /\ l3Row[k].scope # Nothing
        BY <3>1 DEF RowFits, L3Records, AddressConstants
      <4>2. r # p
        BY <4>1, <2>1
      <4> QED BY <4>1, <4>2, <2>1 DEF PoolInv, PoolTypes
    <3> QED BY <3>1, <3>2, <2>1 DEF RowFits
  <2>4. \A r \in SubnetPools : poolScope'[r] # Nothing => PoolFits(r)'
    <3> SUFFICES ASSUME NEW r \in SubnetPools, poolScope'[r] # Nothing PROVE PoolFits(r)'
      OBVIOUS
    <3>1. CASE r = p
      BY <3>1, <2>1 DEF PoolFits, PoolInv, PoolTypes, Owned
    <3>2. CASE r # p
      BY <3>2, <2>1 DEF PoolFits, PoolInv, PoolTypes, Owned
    <3> QED BY <3>1, <3>2
  <2> QED BY <2>1, <2>2, <2>3, <2>4 DEF PoolInv, PoolTypes, GroupFits, ScopeFits
<1>4. CASE UNCHANGED poolVars \/ \E p \in SubnetPools : UseDirectly(p)
  <2>1. UNCHANGED <<scopes, poolScope, l3Row, groupPool, kept>>
    BY <1>4 DEF UseDirectly, poolVars
  <2> QED BY <2>1 DEF PoolInv, PoolTypes, RowFits, GroupFits, PoolFits, ScopeFits, Owned
<1> QED BY <1>1, <1>2, <1>3, <1>4

\* Blocks: a group holds the block it has been given and the one its worker has
\* made a subnet of; the network has a subnet for each holder and no other.
Holds(g, b) ==
  \/ groupBlock[g] = b
  \/ \E w \in PoolWorkers : allocating[w] # Nothing /\ allocating[w].group = g /\ allocating[w].made = b
BlockTypes ==
  /\ groupBlock \in [PoolGroups -> PoolBlocks \cup {Nothing}]
  /\ allocating \in [PoolWorkers -> Allocations \cup {Nothing}]
WorkersApart ==
  /\ \A v, w \in PoolWorkers :
       allocating[v] # Nothing /\ allocating[w] # Nothing /\ allocating[v].group = allocating[w].group => v = w
  /\ \A w \in PoolWorkers : allocating[w] # Nothing => groupBlock[allocating[w].group] = Nothing
HoldersApart ==
  \A g, h \in PoolGroups : \A b \in PoolBlocks :
    Holds(g, b) /\ Holds(h, b) /\ GroupNet[g] = GroupNet[h] => g = h
NetsAgree ==
  /\ \A g \in PoolGroups : \A b \in PoolBlocks : Holds(g, b) => <<GroupNet[g], b>> \in netBlocks
  /\ \A x \in netBlocks : \E g \in PoolGroups : \E b \in PoolBlocks : Holds(g, b) /\ x = <<GroupNet[g], b>>
GroupsApart ==
  \A g, h \in PoolGroups :
    groupBlock[g] # Nothing /\ g # h /\ GroupL3[g] = GroupL3[h] /\ groupBlock[g] = groupBlock[h] =>
      g \in overtaken \/ h \in overtaken
\* A block found free is still free, or its group was overtaken.
CheckedFree ==
  \A w \in PoolWorkers : allocating[w] # Nothing /\ allocating[w].checked =>
    /\ allocating[w].made # Nothing
    /\ \A h \in PoolGroups :
         GroupL3[h] = GroupL3[allocating[w].group] /\ groupBlock[h] = allocating[w].made =>
           allocating[w].group \in overtaken
BlockInv == BlockTypes /\ WorkersApart /\ HoldersApart /\ NetsAgree /\ GroupsApart /\ CheckedFree

LEMMA BlockInvSuffices ==
  ASSUME AddressConstants, BlockInv
  PROVE  BlocksAreApart /\ netBlocks \subseteq {GroupNet[g] : g \in PoolGroups} \X PoolBlocks
<1>1. Exists(groupBlock) = {g \in PoolGroups : groupBlock[g] # Nothing}
      /\ Exists(allocating) = {w \in PoolWorkers : allocating[w] # Nothing}
  BY DEF BlockInv, BlockTypes, Exists
<1>2. ASSUME NEW g \in Exists(groupBlock), NEW h \in Exists(groupBlock),
             g # h, GroupL3[g] = GroupL3[h], groupBlock[g] = groupBlock[h]
      PROVE  GroupNet[g] # GroupNet[h] /\ {g, h} \cap overtaken # {}
  <2>1. g \in PoolGroups /\ h \in PoolGroups /\ groupBlock[g] \in PoolBlocks /\ groupBlock[g] # Nothing
    BY <1>1 DEF BlockInv, BlockTypes
  <2>2. Holds(g, groupBlock[g]) /\ Holds(h, groupBlock[g])
    BY <1>2 DEF Holds
  <2> QED BY <1>2, <2>1, <2>2 DEF BlockInv, GroupsApart, HoldersApart
<1>3. netBlocks = {<<GroupNet[g], groupBlock[g]>> : g \in Exists(groupBlock)}
                  \cup {<<GroupNet[allocating[w].group], allocating[w].made>> :
                          w \in {v \in Exists(allocating) : allocating[v].made # Nothing}}
  <2>1. ASSUME NEW x \in netBlocks
        PROVE  \/ x \in {<<GroupNet[g], groupBlock[g]>> : g \in Exists(groupBlock)}
               \/ x \in {<<GroupNet[allocating[w].group], allocating[w].made>> :
                          w \in {v \in Exists(allocating) : allocating[v].made # Nothing}}
    <3>1. PICK g \in PoolGroups, b \in PoolBlocks : Holds(g, b) /\ x = <<GroupNet[g], b>>
      BY <2>1 DEF BlockInv, NetsAgree
    <3>2. b # Nothing
      BY DEF AddressConstants
    <3>3. CASE groupBlock[g] = b
      BY <3>1, <3>2, <3>3, <1>1
    <3>4. CASE groupBlock[g] # b
      <4>1. PICK w \in PoolWorkers : allocating[w] # Nothing /\ allocating[w].group = g /\ allocating[w].made = b
        BY <3>1, <3>4 DEF Holds
      <4> QED BY <4>1, <3>1, <3>2, <1>1
    <3> QED BY <3>3, <3>4
  <2>2. ASSUME NEW g \in Exists(groupBlock)
        PROVE  <<GroupNet[g], groupBlock[g]>> \in netBlocks
    <3>1. g \in PoolGroups /\ groupBlock[g] \in PoolBlocks /\ Holds(g, groupBlock[g])
      BY <1>1, <2>2 DEF BlockInv, BlockTypes, Holds
    <3> QED BY <3>1 DEF BlockInv, NetsAgree
  <2>3. ASSUME NEW w \in Exists(allocating), allocating[w].made # Nothing
        PROVE  <<GroupNet[allocating[w].group], allocating[w].made>> \in netBlocks
    <3>1. w \in PoolWorkers /\ allocating[w] # Nothing /\ allocating[w] \in Allocations
      BY <1>1 DEF BlockInv, BlockTypes
    <3>2. allocating[w].group \in PoolGroups /\ allocating[w].made \in PoolBlocks
      BY <3>1, <2>3 DEF Allocations
    <3>3. Holds(allocating[w].group, allocating[w].made)
      BY <3>1 DEF Holds
    <3> QED BY <3>2, <3>3 DEF BlockInv, NetsAgree
  <2> QED BY <2>1, <2>2, <2>3
<1>4. netBlocks \subseteq {GroupNet[g] : g \in PoolGroups} \X PoolBlocks
  BY DEF BlockInv, NetsAgree
<1> QED BY <1>2, <1>3, <1>4 DEF BlocksAreApart

\* Who holds what is unchanged.
LEMMA SameHolders ==
  ASSUME HoldersApart, NetsAgree, netBlocks' = netBlocks,
         \A g \in PoolGroups : \A b \in PoolBlocks : Holds(g, b)' <=> Holds(g, b)
  PROVE  HoldersApart' /\ NetsAgree'
BY DEF HoldersApart, NetsAgree

\* A holder gives its block up.
LEMMA HolderGone ==
  ASSUME HoldersApart, NetsAgree, NEW h \in PoolGroups, NEW c \in PoolBlocks,
         netBlocks' = netBlocks \ {<<GroupNet[h], c>>}, Holds(h, c),
         \A g \in PoolGroups : \A b \in PoolBlocks : Holds(g, b)' <=> Holds(g, b) /\ ~(g = h /\ b = c)
  PROVE  HoldersApart' /\ NetsAgree'
<1>1. HoldersApart'
  BY DEF HoldersApart
<1>2. ASSUME NEW g \in PoolGroups, NEW b \in PoolBlocks, Holds(g, b)'
      PROVE  <<GroupNet[g], b>> \in netBlocks'
  <2>1. Holds(g, b) /\ ~(g = h /\ b = c)
    BY <1>2
  <2>2. <<GroupNet[g], b>> # <<GroupNet[h], c>>
    BY <2>1 DEF HoldersApart
  <2>3. <<GroupNet[g], b>> \in netBlocks
    BY <2>1 DEF NetsAgree
  <2> QED BY <2>2, <2>3
<1>3. ASSUME NEW x \in netBlocks'
      PROVE  \E g \in PoolGroups : \E b \in PoolBlocks : Holds(g, b)' /\ x = <<GroupNet[g], b>>
  <2>1. PICK g \in PoolGroups, b \in PoolBlocks : Holds(g, b) /\ x = <<GroupNet[g], b>>
    BY <1>3 DEF NetsAgree
  <2> QED BY <2>1, <1>3
<1> QED BY <1>1, <1>2, <1>3 DEF NetsAgree

LEMMA StartAllocationKeeps ==
  ASSUME AddressConstants, BlockInv, NEW w \in PoolWorkers, NEW g \in PoolGroups, StartAllocation(w, g)
  PROVE  BlockInv'
<1>1. /\ allocating[w] = Nothing /\ groupBlock[g] = Nothing
      /\ \A v \in PoolWorkers : allocating[v] # Nothing => allocating[v].group # g
      /\ UNCHANGED <<groupBlock, netBlocks, overtaken>>
  BY DEF StartAllocation, NotAllocating
<1>2. PICK q \in Allocations : q = [group |-> g, left |-> FreeBlocks(g), made |-> Nothing, checked |-> FALSE]
  BY DEF Allocations, FreeBlocks
<1>3. allocating' = [allocating EXCEPT ![w] = q] /\ q # Nothing /\ q.group = g /\ q.made = Nothing /\ ~q.checked
  BY <1>2 DEF StartAllocation, AddressConstants
<1>4. allocating'[w] = q /\ \A v \in PoolWorkers \ {w} : allocating'[v] = allocating[v]
  BY <1>3 DEF BlockInv, BlockTypes
<1>5. BlockTypes'
  BY <1>1, <1>3 DEF BlockInv, BlockTypes
<1>6. WorkersApart'
  BY <1>1, <1>3, <1>4 DEF BlockInv, WorkersApart
<1>7. \A h \in PoolGroups : \A b \in PoolBlocks : Holds(h, b)' <=> Holds(h, b)
  BY <1>1, <1>3, <1>4 DEF Holds, AddressConstants
<1>8. GroupsApart' /\ CheckedFree'
  BY <1>1, <1>3, <1>4 DEF BlockInv, GroupsApart, CheckedFree
<1> QED BY <1>1, <1>5, <1>6, <1>7, <1>8, SameHolders DEF BlockInv

LEMMA MakeSubnetKeeps ==
  ASSUME AddressConstants, BlockInv, NEW w \in PoolWorkers, NEW b \in PoolBlocks, MakeSubnet(w, b)
  PROVE  BlockInv'
<1> DEFINE g == allocating[w].group
           clash == <<GroupNet[g], b>> \in netBlocks
<1>1. /\ allocating[w] # Nothing /\ allocating[w].made = Nothing /\ b # Nothing
      /\ netBlocks' = IF clash THEN netBlocks ELSE netBlocks \cup {<<GroupNet[g], b>>}
      /\ UNCHANGED <<groupBlock, overtaken>>
      /\ allocating' = [allocating EXCEPT ![w].left = @ \ {b},
                                          ![w].made = IF clash THEN Nothing ELSE b]
  BY DEF MakeSubnet, NotAllocating, AddressConstants
<1>2. allocating[w] \in Allocations /\ g \in PoolGroups
  BY <1>1 DEF BlockInv, BlockTypes, Allocations
<1>3. PICK q \in Allocations : q = [allocating[w] EXCEPT !.left = @ \ {b}, !.made = IF clash THEN Nothing ELSE b]
  BY <1>2 DEF Allocations
<1>4. q # Nothing /\ q.group = g /\ (q.made = IF clash THEN Nothing ELSE b) /\ q.checked = allocating[w].checked
  BY <1>2, <1>3 DEF Allocations, AddressConstants
<1>5. allocating' = [allocating EXCEPT ![w] = q]
  BY <1>1, <1>2, <1>3 DEF BlockInv, BlockTypes, Allocations
<1>6. allocating'[w] = q /\ \A v \in PoolWorkers \ {w} : allocating'[v] = allocating[v]
  BY <1>5 DEF BlockInv, BlockTypes
<1>7. BlockTypes'
  <2>1. allocating' \in [PoolWorkers -> Allocations \cup {Nothing}]
    BY <1>5 DEF BlockInv, BlockTypes
  <2> QED BY <2>1, <1>1 DEF BlockInv, BlockTypes
<1>8. WorkersApart'
  <2>1. \A v \in PoolWorkers : allocating'[v] # Nothing =>
          allocating[v] # Nothing /\ allocating'[v].group = allocating[v].group
    BY <1>1, <1>4, <1>6
  <2> QED BY ZenonT(40), <2>1, <1>1 DEF BlockInv, WorkersApart
<1>9. GroupsApart' /\ CheckedFree'
  <2>1. ~q.checked
    BY <1>1, <1>4 DEF BlockInv, CheckedFree
  <2>2. \A v \in PoolWorkers : allocating'[v] # Nothing /\ allocating'[v].checked => v # w
    BY <2>1, <1>6
  <2>3. ASSUME NEW v \in PoolWorkers, allocating'[v] # Nothing, allocating'[v].checked
        PROVE  /\ allocating'[v].made # Nothing
               /\ \A h \in PoolGroups :
                    GroupL3[h] = GroupL3[allocating'[v].group] /\ groupBlock[h] = allocating'[v].made =>
                      allocating'[v].group \in overtaken
    <3>1. allocating'[v] = allocating[v]
      BY <2>2, <2>3, <1>6
    <3> QED BY <3>1, <2>3 DEF BlockInv, CheckedFree
  <2> QED BY <2>3, <1>1 DEF BlockInv, GroupsApart, CheckedFree
<1>10. CASE clash
  <2>1. \A h \in PoolGroups : \A c \in PoolBlocks : Holds(h, c)' <=> Holds(h, c)
    BY ZenonT(40), <1>1, <1>4, <1>6, <1>10 DEF Holds, AddressConstants
  <2>2. netBlocks' = netBlocks
    BY <1>1, <1>10
  <2> QED BY <2>1, <2>2, <1>7, <1>8, <1>9, SameHolders DEF BlockInv
<1>11. CASE ~clash
  <2>1. \A h \in PoolGroups : \A c \in PoolBlocks : Holds(h, c)' <=> Holds(h, c) \/ (h = g /\ c = b)
    BY ZenonT(40), <1>1, <1>2, <1>4, <1>6, <1>11 DEF Holds, AddressConstants
  <2>2. netBlocks' = netBlocks \cup {<<GroupNet[g], b>>}
    BY <1>1, <1>11
  <2>3. \A h \in PoolGroups : Holds(h, b) => GroupNet[h] # GroupNet[g]
    BY <1>11 DEF BlockInv, NetsAgree
  <2> HIDE DEF g, clash
  <2>4. HoldersApart'
    <3> SUFFICES ASSUME NEW h \in PoolGroups, NEW k \in PoolGroups, NEW c \in PoolBlocks,
                        Holds(h, c)', Holds(k, c)', GroupNet[h] = GroupNet[k]
                 PROVE  h = k
      BY DEF HoldersApart
    <3>1. (Holds(h, c) \/ (h = g /\ c = b)) /\ (Holds(k, c) \/ (k = g /\ c = b))
      BY <2>1
    <3> QED BY <3>1, <2>3 DEF BlockInv, HoldersApart
  <2>5. NetsAgree'
    <3>1. \A h \in PoolGroups : \A c \in PoolBlocks : Holds(h, c)' => <<GroupNet[h], c>> \in netBlocks'
      BY <2>1, <2>2 DEF BlockInv, NetsAgree
    <3>2. ASSUME NEW x \in netBlocks'
          PROVE  \E h \in PoolGroups : \E c \in PoolBlocks : Holds(h, c)' /\ x = <<GroupNet[h], c>>
      <4>1. CASE x \in netBlocks
        <5>1. PICK h \in PoolGroups, c \in PoolBlocks : Holds(h, c) /\ x = <<GroupNet[h], c>>
          BY <4>1 DEF BlockInv, NetsAgree
        <5> QED BY <5>1, <2>1
      <4>2. CASE x = <<GroupNet[g], b>>
        BY <4>2, <2>1, <1>2
      <4> QED BY <4>1, <4>2, <2>2, <3>2
    <3> QED BY <3>1, <3>2 DEF NetsAgree
  <2> QED BY <2>4, <2>5, <1>7, <1>8, <1>9 DEF BlockInv
<1> QED BY <1>10, <1>11

\* The block found in use is given up with its subnet; one that is free may be added.
LEMMA ValidateSubnetKeeps ==
  ASSUME AddressConstants, BlockInv, NEW w \in PoolWorkers, ValidateSubnet(w)
  PROVE  BlockInv'
<1> DEFINE g == allocating[w].group
           b == allocating[w].made
           inUse == b \in AllocatedBlocks(GroupL3[g])
<1>1. /\ allocating[w] # Nothing /\ b # Nothing /\ UNCHANGED <<groupBlock, overtaken>>
      /\ allocating' = [allocating EXCEPT ![w].made = IF inUse THEN Nothing ELSE b, ![w].checked = ~inUse]
      /\ netBlocks' = IF inUse THEN netBlocks \ {<<GroupNet[g], b>>} ELSE netBlocks
  BY DEF ValidateSubnet, Unchecked, NotAllocating
<1>2. allocating[w] \in Allocations /\ g \in PoolGroups /\ b \in PoolBlocks
  BY <1>1 DEF BlockInv, BlockTypes, Allocations
<1>3. Holds(g, b) /\ groupBlock[g] = Nothing /\ g \notin {allocating[v].group : v \in {u \in PoolWorkers \ {w} : allocating[u] # Nothing}}
  BY <1>1 DEF Holds, BlockInv, WorkersApart
<1>4. PICK q \in Allocations : q = [allocating[w] EXCEPT !.made = IF inUse THEN Nothing ELSE b, !.checked = ~inUse]
  <2>1. inUse \in BOOLEAN
    OBVIOUS
  <2> HIDE DEF inUse
  <2> QED BY <1>2, <2>1 DEF Allocations
<1>5. q # Nothing /\ q.group = g /\ (q.made = IF inUse THEN Nothing ELSE b) /\ (q.checked <=> ~inUse)
  BY <1>2, <1>4 DEF Allocations, AddressConstants
<1>6. allocating' = [allocating EXCEPT ![w] = q]
  BY <1>1, <1>2, <1>4 DEF BlockInv, BlockTypes, Allocations
<1>7. allocating'[w] = q /\ \A v \in PoolWorkers \ {w} : allocating'[v] = allocating[v]
  BY <1>6 DEF BlockInv, BlockTypes
<1>8. BlockTypes'
  <2>1. allocating' \in [PoolWorkers -> Allocations \cup {Nothing}]
    BY <1>6 DEF BlockInv, BlockTypes
  <2> QED BY <2>1, <1>1 DEF BlockInv, BlockTypes
<1>9. WorkersApart'
  <2>1. \A v \in PoolWorkers : allocating'[v] # Nothing =>
          allocating[v] # Nothing /\ allocating'[v].group = allocating[v].group
    BY <1>1, <1>5, <1>7
  <2> QED BY ZenonT(40), <2>1, <1>1 DEF BlockInv, WorkersApart
<1>10. GroupsApart'
  BY <1>1 DEF BlockInv, GroupsApart
<1>11. ~inUse => \A h \in PoolGroups : GroupL3[h] = GroupL3[g] => groupBlock[h] # b
  BY <1>1 DEF AllocatedBlocks, Exists, BlockInv, BlockTypes
<1>12. CheckedFree'
  <2> SUFFICES ASSUME NEW v \in PoolWorkers, allocating'[v] # Nothing, allocating'[v].checked
               PROVE  /\ allocating'[v].made # Nothing
                      /\ \A h \in PoolGroups :
                           GroupL3[h] = GroupL3[allocating'[v].group] /\ groupBlock[h] = allocating'[v].made =>
                             allocating'[v].group \in overtaken
    BY <1>1 DEF CheckedFree
  <2>1. CASE v = w
    <3>1. ~inUse /\ q.group = g /\ q.made = b
      BY <2>1, <1>5, <1>7
    <3> QED BY <3>1, <2>1, <1>1, <1>7, <1>11
  <2>2. CASE v # w
    BY <2>2, <1>7 DEF BlockInv, CheckedFree
  <2> QED BY <2>1, <2>2
<1>13. CASE inUse
  <2>1. \A h \in PoolGroups : \A c \in PoolBlocks : Holds(h, c)' <=> Holds(h, c) /\ ~(h = g /\ c = b)
    <3> SUFFICES ASSUME NEW h \in PoolGroups, NEW c \in PoolBlocks
                 PROVE  Holds(h, c)' <=> Holds(h, c) /\ ~(h = g /\ c = b)
      OBVIOUS
    <3>1. c # Nothing /\ q.made = Nothing
      BY <1>5, <1>13 DEF AddressConstants
    <3>2. CASE h = g
      <4>1. ~Holds(h, c)'
        <5>1. groupBlock'[h] # c
          BY <3>1, <3>2, <1>1, <1>3
        <5>2. \A v \in PoolWorkers : allocating'[v] # Nothing /\ allocating'[v].group = h => allocating'[v].made # c
          BY <3>1, <3>2, <1>3, <1>7
        <5> QED BY <5>1, <5>2 DEF Holds
      <4>2. Holds(h, c) => c = b
        BY <3>1, <3>2, <1>3 DEF Holds
      <4> QED BY <4>1, <4>2, <3>2
    <3>3. CASE h # g
      BY <3>3, <1>1, <1>5, <1>7 DEF Holds
    <3> QED BY <3>2, <3>3
  <2>2. netBlocks' = netBlocks \ {<<GroupNet[g], b>>}
    BY <1>1, <1>13
  <2> HIDE DEF g, b, inUse
  <2> QED BY <1>2, <1>3, <2>1, <2>2, <1>8, <1>9, <1>10, <1>12, HolderGone DEF BlockInv
<1>14. CASE ~inUse
  <2>1. netBlocks' = netBlocks /\ q.made = b
    BY <1>1, <1>5, <1>14
  <2>2. \A h \in PoolGroups : \A c \in PoolBlocks : Holds(h, c)' <=> Holds(h, c)
    BY ZenonT(40), <2>1, <1>1, <1>5, <1>7 DEF Holds
  <2> QED BY <2>1, <2>2, <1>8, <1>9, <1>10, <1>12, SameHolders DEF BlockInv
<1> QED BY <1>13, <1>14

\* The block moves from the worker to the group.
LEMMA AddSubnetKeeps ==
  ASSUME AddressConstants, BlockInv, NEW w \in PoolWorkers, AddSubnet(w)
  PROVE  BlockInv'
<1> DEFINE g == allocating[w].group
           b == allocating[w].made
           found == {h \in PoolGroups : /\ h # g /\ GroupL3[h] = GroupL3[g]
                                       /\ \E v \in PoolWorkers : /\ allocating[v] # Nothing /\ allocating[v].group = h
                                                                 /\ allocating[v].checked /\ allocating[v].made = b}
<1>1. allocating[w] # Nothing /\ allocating[w].checked /\ b # Nothing
  BY DEF AddSubnet, NotAllocating, BlockInv, CheckedFree
<1>2. allocating[w] \in Allocations /\ g \in PoolGroups /\ b \in PoolBlocks
  BY <1>1 DEF BlockInv, BlockTypes, Allocations
<1>3. Holds(g, b) /\ groupBlock[g] = Nothing /\ g \notin {allocating[v].group : v \in {u \in PoolWorkers \ {w} : allocating[u] # Nothing}}
  BY <1>1 DEF Holds, BlockInv, WorkersApart
<1>4. /\ groupBlock' = [groupBlock EXCEPT ![g] = b]
      /\ allocating' = [allocating EXCEPT ![w] = Nothing] /\ UNCHANGED netBlocks
      /\ overtaken' = overtaken \cup found
  BY DEF AddSubnet, NotAllocating
<1>5. \A h \in PoolGroups : GroupL3[h] = GroupL3[g] /\ groupBlock[h] = b => g \in overtaken
  BY <1>1 DEF BlockInv, CheckedFree
<1>6. allocating'[w] = Nothing /\ \A v \in PoolWorkers \ {w} : allocating'[v] = allocating[v]
  BY <1>4 DEF BlockInv, BlockTypes
<1>7. groupBlock'[g] = b /\ \A h \in PoolGroups \ {g} : groupBlock'[h] = groupBlock[h]
  BY <1>4, <1>2 DEF BlockInv, BlockTypes
<1>8. BlockTypes'
  BY <1>4, <1>2 DEF BlockInv, BlockTypes
<1>9. \A v \in PoolWorkers : allocating'[v] # Nothing =>
        /\ v # w /\ allocating[v] # Nothing /\ allocating'[v] = allocating[v]
        /\ allocating[v].group # g /\ allocating[v].group \in PoolGroups
  BY <1>6, <1>3 DEF BlockInv, BlockTypes, Allocations
<1>10. WorkersApart'
  BY <1>9, <1>7 DEF BlockInv, WorkersApart
<1>11. GroupsApart'
  <2> HIDE DEF g, b, found
  <2> SUFFICES ASSUME NEW h \in PoolGroups, NEW k \in PoolGroups, groupBlock'[h] # Nothing, h # k,
                      GroupL3[h] = GroupL3[k], groupBlock'[h] = groupBlock'[k]
               PROVE  h \in overtaken' \/ k \in overtaken'
    BY DEF GroupsApart
  <2>1. CASE h = g \/ k = g
    BY <2>1, <1>4, <1>5, <1>7
  <2>2. CASE h # g /\ k # g
    BY <2>2, <1>4, <1>7 DEF BlockInv, GroupsApart
  <2> QED BY <2>1, <2>2
<1>12. CheckedFree'
  <2> SUFFICES ASSUME NEW v \in PoolWorkers, allocating'[v] # Nothing, allocating'[v].checked
               PROVE  /\ allocating'[v].made # Nothing
                      /\ \A h \in PoolGroups :
                           GroupL3[h] = GroupL3[allocating'[v].group] /\ groupBlock'[h] = allocating'[v].made =>
                             allocating'[v].group \in overtaken'
    BY DEF CheckedFree
  <2>1. /\ allocating[v] # Nothing /\ allocating'[v] = allocating[v]
        /\ allocating[v].group # g /\ allocating[v].group \in PoolGroups
    BY <1>9
  <2>2. ASSUME GroupL3[g] = GroupL3[allocating[v].group], allocating[v].made = b
        PROVE  allocating[v].group \in found
    BY <2>1, <2>2
  <2> HIDE DEF g, b, found
  <2>3. \A h \in PoolGroups :
          GroupL3[h] = GroupL3[allocating[v].group] /\ groupBlock'[h] = allocating[v].made =>
            allocating[v].group \in overtaken'
    <3> SUFFICES ASSUME NEW h \in PoolGroups, GroupL3[h] = GroupL3[allocating[v].group],
                        groupBlock'[h] = allocating[v].made
                 PROVE  allocating[v].group \in overtaken'
      OBVIOUS
    <3>1. CASE h = g
      BY <3>1, <2>2, <1>4, <1>7
    <3>2. CASE h # g
      BY <3>2, <2>1, <1>4, <1>7 DEF BlockInv, CheckedFree
    <3> QED BY <3>1, <3>2
  <2> QED BY <2>1, <2>3 DEF BlockInv, CheckedFree
<1>13. \A h \in PoolGroups : \A c \in PoolBlocks : Holds(h, c)' <=> Holds(h, c)
  <2> SUFFICES ASSUME NEW h \in PoolGroups, NEW c \in PoolBlocks
               PROVE  Holds(h, c)' <=> Holds(h, c)
    OBVIOUS
  <2>1. c # Nothing
    BY DEF AddressConstants
  <2>2. CASE h = g
    BY <2>1, <2>2, <1>3, <1>6, <1>7 DEF Holds
  <2>3. CASE h # g
    BY <2>3, <1>6, <1>7 DEF Holds
  <2> QED BY <2>2, <2>3
<1> QED BY <1>4, <1>8, <1>10, <1>11, <1>12, <1>13, SameHolders DEF BlockInv

LEMMA OtherBlockStepsKeep ==
  ASSUME AddressConstants, BlockInv,
         \/ \E w \in PoolWorkers : NoSubnetAvailable(w)
         \/ \E g \in PoolGroups : ReleaseBlock(g)
         \/ UNCHANGED blockVars
  PROVE  BlockInv'
<1>1. ASSUME NEW w \in PoolWorkers, NoSubnetAvailable(w) PROVE BlockInv'
  <2>1. /\ allocating[w] # Nothing /\ allocating[w].made = Nothing
        /\ allocating' = [allocating EXCEPT ![w] = Nothing] /\ UNCHANGED <<groupBlock, netBlocks, overtaken>>
    BY <1>1 DEF NoSubnetAvailable, NotAllocating
  <2>2. allocating'[w] = Nothing /\ \A v \in PoolWorkers \ {w} : allocating'[v] = allocating[v]
    BY <2>1 DEF BlockInv, BlockTypes
  <2>3. BlockTypes' /\ WorkersApart' /\ GroupsApart' /\ CheckedFree'
    BY <2>1, <2>2 DEF BlockInv, BlockTypes, WorkersApart, GroupsApart, CheckedFree
  <2>4. \A h \in PoolGroups : \A c \in PoolBlocks : Holds(h, c)' <=> Holds(h, c)
    BY <2>1, <2>2 DEF Holds, AddressConstants
  <2> QED BY <2>1, <2>3, <2>4, SameHolders DEF BlockInv
<1>2. ASSUME NEW g \in PoolGroups, ReleaseBlock(g) PROVE BlockInv'
  <2>1. /\ groupBlock[g] # Nothing /\ groupBlock' = [groupBlock EXCEPT ![g] = Nothing]
        /\ netBlocks' = netBlocks \ {<<GroupNet[g], groupBlock[g]>>} /\ UNCHANGED allocating
        /\ overtaken' = overtaken \ {g}
    BY <1>2 DEF ReleaseBlock
  <2>2. PICK c \in PoolBlocks : c = groupBlock[g]
    BY <2>1 DEF BlockInv, BlockTypes
  <2>3. groupBlock'[g] = Nothing /\ \A h \in PoolGroups \ {g} : groupBlock'[h] = groupBlock[h]
    BY <2>1 DEF BlockInv, BlockTypes
  <2>4. BlockTypes' /\ WorkersApart' /\ GroupsApart' /\ CheckedFree'
    <3>1. BlockTypes'
      BY <2>1 DEF BlockInv, BlockTypes
    <3>2. GroupsApart'
      BY <2>1, <2>3 DEF BlockInv, GroupsApart
    <3>3. \A w \in PoolWorkers : allocating[w] # Nothing => allocating[w].group \in PoolGroups
      BY DEF BlockInv, BlockTypes, Allocations
    <3>4. WorkersApart'
      BY <2>1, <2>3, <3>3 DEF BlockInv, WorkersApart
    <3>5. \A w \in PoolWorkers : allocating[w] # Nothing => allocating[w].group # g
      BY <2>1 DEF BlockInv, WorkersApart
    <3>6. CheckedFree'
      <4> SUFFICES ASSUME NEW v \in PoolWorkers, allocating[v] # Nothing, allocating[v].checked
                   PROVE  /\ allocating[v].made # Nothing
                          /\ \A h \in PoolGroups :
                               GroupL3[h] = GroupL3[allocating[v].group] /\ groupBlock'[h] = allocating[v].made =>
                                 allocating[v].group \in overtaken'
        BY <2>1 DEF CheckedFree
      <4>1. allocating[v].made # Nothing
        BY DEF BlockInv, CheckedFree
      <4>2. \A h \in PoolGroups : groupBlock'[h] = allocating[v].made => groupBlock[h] = allocating[v].made
        BY <4>1, <2>3
      <4> QED BY <4>1, <4>2, <2>1, <3>5 DEF BlockInv, CheckedFree
    <3> QED BY <3>1, <3>2, <3>4, <3>6
  <2>5. \A w \in PoolWorkers : allocating[w] # Nothing => allocating[w].group # g
    BY <2>1 DEF BlockInv, WorkersApart
  <2>6. \A h \in PoolGroups : \A b \in PoolBlocks : Holds(h, b)' <=> Holds(h, b) /\ ~(h = g /\ b = c)
    BY <2>1, <2>2, <2>3, <2>5 DEF Holds, AddressConstants
  <2>7. Holds(g, c) /\ netBlocks' = netBlocks \ {<<GroupNet[g], c>>}
    BY <2>1, <2>2 DEF Holds
  <2> QED BY <2>4, <2>6, <2>7, HolderGone DEF BlockInv
<1>3. CASE UNCHANGED blockVars
  BY <1>3 DEF blockVars, BlockInv, BlockTypes, WorkersApart, HoldersApart, NetsAgree, GroupsApart, CheckedFree, Holds
<1> QED BY <1>1, <1>2, <1>3

\* External segments.  The comparison of external routes takes one segment of the
\* list with the others: it compares any two only if there are no more than two.
TwoSegments == \A d, e, f \in Segments : d = e \/ d = f \/ e = f
SegmentTypes ==
  /\ DOMAIN l3Segments = L3Rows /\ routes \in [Segments -> SUBSET Destinations]
  /\ \A l \in L3Rows : l3Segments[l] # Nothing => DOMAIN l3Segments[l] \subseteq Segments
Compatible(l, e) ==
  /\ SegmentCidr[e] \cap L3Blocks[l] = {}
  /\ Sees(e, l) => routes[e] \cap L3Blocks[l] = {}
  /\ \A f \in DOMAIN l3Segments[l] : f # e /\ Sees(e, l) /\ Sees(f, l) => routes[e] \cap routes[f] = {}
  /\ \A k \in L3Rows \ {l} : l3Segments[k] # Nothing /\ e \in DOMAIN l3Segments[k] =>
       l3Segments[k][e] \cap l3Segments[l][e] = {}
SegmentInv ==
  SegmentTypes /\ \A l \in L3Rows : l3Segments[l] # Nothing => \A e \in DOMAIN l3Segments[l] : Compatible(l, e)

LEMMA SegmentInvSuffices ==
  ASSUME SegmentInv
  PROVE  SegmentsAreCompatible
<1>1. Exists(l3Segments) = {l \in L3Rows : l3Segments[l] # Nothing}
  BY DEF SegmentInv, SegmentTypes, Exists
<1>2. ASSUME NEW l \in L3Rows, l3Segments[l] # Nothing, NEW e \in DOMAIN l3Segments[l]
      PROVE  /\ SegmentCidr[e] \cap L3Blocks[l] = {}
             /\ Sees(e, l) => routes[e] \cap L3Blocks[l] = {}
             /\ Sees(e, l) => \A f \in DOMAIN l3Segments[l] \ {e} : Sees(f, l) => routes[e] \cap routes[f] = {}
             /\ \A k \in Exists(l3Segments) \ {l} :
                  e \in DOMAIN l3Segments[k] => l3Segments[k][e] \cap l3Segments[l][e] = {}
  BY <1>1, <1>2 DEF SegmentInv, Compatible
<1> QED BY <1>1, <1>2 DEF SegmentsAreCompatible

LEMMA SetSegmentsKeeps ==
  ASSUME TwoSegments, SegmentInv, NEW l \in L3Rows, NEW given, given # Nothing,
         DOMAIN given \subseteq Segments, SetSegments(l, given)
  PROVE  SegmentInv'
<1> DEFINE old == IF l3Segments[l] = Nothing THEN <<>> ELSE l3Segments[l]
           new == DOMAIN given \ DOMAIN old
<1>1. /\ \A e \in DOMAIN given : \A k \in Exists(l3Segments) \ {l} :
           e \in DOMAIN l3Segments[k] => l3Segments[k][e] \cap given[e] = {}
      /\ \A e \in new : (routes[e] \cup SegmentCidr[e]) \cap L3Blocks[l] = {}
      /\ new # {} => \E first \in DOMAIN given : \A e \in DOMAIN given \ {first} : routes[first] \cap routes[e] = {}
      /\ l3Segments' = [l3Segments EXCEPT ![l] = given] /\ routes' = routes
  BY DEF SetSegments, NotIdentical
<1>2. l3Segments'[l] = given /\ \A k \in L3Rows \ {l} : l3Segments'[k] = l3Segments[k]
  BY <1>1 DEF SegmentInv, SegmentTypes
<1>3. SegmentTypes'
  BY <1>1, <1>2 DEF SegmentInv, SegmentTypes
<1>4. Exists(l3Segments) = {k \in L3Rows : l3Segments[k] # Nothing}
  BY DEF SegmentInv, SegmentTypes, Exists
<1>5. \A e \in DOMAIN old : l3Segments[l] # Nothing /\ e \in DOMAIN l3Segments[l]
  OBVIOUS
<1>6. \A e \in DOMAIN given : \A k \in L3Rows \ {l} :
        l3Segments[k] # Nothing /\ e \in DOMAIN l3Segments[k] => l3Segments[k][e] \cap given[e] = {}
  BY <1>1, <1>4
<1>7. ASSUME NEW e \in DOMAIN given
      PROVE  SegmentCidr[e] \cap L3Blocks[l] = {} /\ (Sees(e, l) => routes[e] \cap L3Blocks[l] = {})
  <2>1. CASE e \in DOMAIN old
    BY <2>1, <1>5 DEF SegmentInv, Compatible
  <2> QED BY <2>1, <1>1
<1>8. ASSUME NEW e \in DOMAIN given, NEW f \in DOMAIN given, f # e, Sees(e, l), Sees(f, l)
      PROVE  routes[e] \cap routes[f] = {}
  <2>1. CASE new = {}
    <3>1. l3Segments[l] # Nothing /\ e \in DOMAIN l3Segments[l] /\ f \in DOMAIN l3Segments[l]
      BY <2>1, <1>5
    <3> QED BY <3>1, <1>8 DEF SegmentInv, Compatible
  <2>2. CASE new # {}
    <3>1. PICK first \in DOMAIN given : \A d \in DOMAIN given \ {first} : routes[first] \cap routes[d] = {}
      BY <2>2, <1>1
    <3>2. first = e \/ first = f
      BY <1>8, <3>1 DEF TwoSegments
    <3> QED BY <3>1, <3>2, <1>8
  <2> QED BY <2>1, <2>2
<1> HIDE DEF old, new
<1>9. ASSUME NEW k \in L3Rows, l3Segments'[k] # Nothing, NEW e \in DOMAIN l3Segments'[k]
      PROVE  Compatible(k, e)'
  <2>1. CASE k = l
    <3>1. e \in DOMAIN given /\ l3Segments'[k] = given
      BY <2>1, <1>2, <1>9
    <3>2. \A m \in L3Rows \ {k} : l3Segments'[m] # Nothing /\ e \in DOMAIN l3Segments'[m] =>
            l3Segments'[m][e] \cap l3Segments'[k][e] = {}
      BY <2>1, <3>1, <1>2, <1>6
    <3>3. SegmentCidr[e] \cap L3Blocks[k] = {} /\ (Sees(e, k) => routes[e] \cap L3Blocks[k] = {})
      BY <3>1, <2>1, <1>7
    <3>4. \A f \in DOMAIN l3Segments'[k] : f # e /\ Sees(e, k) /\ Sees(f, k) => routes[e] \cap routes[f] = {}
      BY <2>1, <3>1, <1>8
    <3> QED BY <3>2, <3>3, <3>4, <1>1 DEF Compatible
  <2>2. CASE k # l
    <3>1. l3Segments'[k] = l3Segments[k] /\ l3Segments[k] # Nothing /\ e \in DOMAIN l3Segments[k]
      BY <2>2, <1>2, <1>9
    <3>2. Compatible(k, e)
      BY <3>1 DEF SegmentInv
    <3>3. \A m \in L3Rows \ {k} : l3Segments'[m] # Nothing /\ e \in DOMAIN l3Segments'[m] =>
            l3Segments'[m][e] \cap l3Segments'[k][e] = {}
      <4> SUFFICES ASSUME NEW m \in L3Rows \ {k}, l3Segments'[m] # Nothing, e \in DOMAIN l3Segments'[m]
                   PROVE  l3Segments'[m][e] \cap l3Segments[k][e] = {}
        BY <3>1
      <4>1. CASE m = l
        <5>1. e \in DOMAIN given
          BY <4>1, <1>2
        <5>2. l3Segments[k][e] \cap given[e] = {}
          BY <5>1, <3>1, <2>2, <1>6
        <5> QED BY <5>2, <4>1, <1>2
      <4>2. CASE m # l
        BY <4>2, <3>2, <1>2 DEF Compatible
      <4> QED BY <4>1, <4>2
    <3> QED BY <3>1, <3>2, <3>3, <1>1 DEF Compatible
  <2> QED BY <2>1, <2>2
<1> QED BY <1>3, <1>9 DEF SegmentInv

LEMMA SetRoutesKeeps ==
  ASSUME SegmentInv, NEW e \in Segments, NEW ds \in SUBSET Destinations, NEW admin \in BOOLEAN, SetRoutes(e, ds, admin)
  PROVE  SegmentInv'
<1>1. /\ ds \subseteq routes[e] \/
           \A l \in Exists(l3Segments) : e \in DOMAIN l3Segments[l] /\ Sees(e, l) =>
              /\ (ds \ routes[e]) \cap L3Blocks[l] = {}
              /\ \A f \in DOMAIN l3Segments[l] \ {e} : routes[f] \cap ds = {}
      /\ routes' = [routes EXCEPT ![e] = ds] /\ l3Segments' = l3Segments
  BY DEF SetRoutes
<1>2. Exists(l3Segments) = {k \in L3Rows : l3Segments[k] # Nothing}
  BY DEF SegmentInv, SegmentTypes, Exists
<1>3. SegmentTypes'
  BY <1>1 DEF SegmentInv, SegmentTypes
<1>4. routes'[e] = ds /\ \A f \in Segments \ {e} : routes'[f] = routes[f]
  BY <1>1 DEF SegmentInv, SegmentTypes
<1>5. ASSUME NEW l \in L3Rows, l3Segments[l] # Nothing, e \in DOMAIN l3Segments[l], Sees(e, l)
      PROVE  ds \cap L3Blocks[l] = {}
             /\ \A f \in DOMAIN l3Segments[l] : f # e /\ Sees(f, l) => routes[f] \cap ds = {}
  <2>1. Compatible(l, e)
    BY <1>5 DEF SegmentInv
  <2>2. CASE ds \subseteq routes[e]
    BY <2>1, <2>2, <1>5 DEF Compatible
  <2>3. CASE ~(ds \subseteq routes[e])
    <3>1. /\ (ds \ routes[e]) \cap L3Blocks[l] = {}
          /\ \A f \in DOMAIN l3Segments[l] \ {e} : routes[f] \cap ds = {}
      BY <2>3, <1>1, <1>2, <1>5
    <3> QED BY <3>1, <2>1, <1>5 DEF Compatible
  <2> QED BY <2>2, <2>3
<1>6. ASSUME NEW l \in L3Rows, l3Segments[l] # Nothing, NEW d \in DOMAIN l3Segments[l]
      PROVE  Compatible(l, d)'
  <2>1. Compatible(l, d) /\ DOMAIN l3Segments[l] \subseteq Segments
    BY <1>6 DEF SegmentInv, SegmentTypes
  <2>2. SegmentCidr[d] \cap L3Blocks[l] = {} /\ (Sees(d, l) => routes'[d] \cap L3Blocks[l] = {})
    BY <2>1, <1>4, <1>5, <1>6 DEF Compatible
  <2>3. \A f \in DOMAIN l3Segments[l] : f # d /\ Sees(d, l) /\ Sees(f, l) => routes'[d] \cap routes'[f] = {}
    <3> SUFFICES ASSUME NEW f \in DOMAIN l3Segments[l], f # d, Sees(d, l), Sees(f, l) PROVE routes'[d] \cap routes'[f] = {}
      OBVIOUS
    <3>1. f \in Segments /\ d \in Segments
      BY <2>1
    <3>2. CASE d = e
      <4>1. routes[f] \cap ds = {}
        BY <3>2, <1>5, <1>6
      <4>2. routes'[d] = ds /\ routes'[f] = routes[f]
        BY <3>1, <3>2, <1>4
      <4> QED BY <4>1, <4>2
    <3>3. CASE f = e
      <4>1. routes[d] \cap ds = {}
        BY <3>3, <1>5, <1>6
      <4>2. routes'[f] = ds /\ routes'[d] = routes[d]
        BY <3>1, <3>3, <1>4
      <4> QED BY <4>1, <4>2
    <3>4. CASE d # e /\ f # e
      BY <3>1, <3>4, <2>1, <1>4 DEF Compatible
    <3> QED BY <3>2, <3>3, <3>4
  <2> QED BY <2>1, <2>2, <2>3, <1>1 DEF Compatible
<1> QED BY <1>1, <1>3, <1>6 DEF SegmentInv

LEMMA OtherSegmentStepsKeep ==
  ASSUME SegmentInv, UNCHANGED segmentVars \/ \E l \in L3Rows : ClearSegments(l)
  PROVE  SegmentInv'
<1>1. CASE UNCHANGED segmentVars
  BY <1>1 DEF segmentVars, SegmentInv, SegmentTypes, Compatible
<1>2. ASSUME NEW l \in L3Rows, ClearSegments(l) PROVE SegmentInv'
  <2>1. l3Segments' = [l3Segments EXCEPT ![l] = Nothing] /\ routes' = routes
    BY <1>2 DEF ClearSegments
  <2>2. l3Segments'[l] = Nothing /\ \A k \in L3Rows \ {l} : l3Segments'[k] = l3Segments[k]
    BY <2>1 DEF SegmentInv, SegmentTypes
  <2>3. SegmentTypes'
    BY <2>1, <2>2 DEF SegmentInv, SegmentTypes
  <2>4. ASSUME NEW k \in L3Rows, l3Segments'[k] # Nothing, NEW e \in DOMAIN l3Segments'[k]
        PROVE  Compatible(k, e)'
    <3>1. k # l /\ l3Segments'[k] = l3Segments[k] /\ Compatible(k, e)
      BY <2>2, <2>4 DEF SegmentInv
    <3>2. \A m \in L3Rows : l3Segments'[m] # Nothing => l3Segments'[m] = l3Segments[m]
      BY <2>2
    <3> QED BY <3>1, <3>2, <2>1 DEF Compatible
  <2> QED BY <2>3, <2>4 DEF SegmentInv
<1> QED BY <1>1, <1>2

AddressInv == PoolInv /\ BlockInv /\ SegmentInv

\* A step touches one of the three parts.
LEMMA AddressStepsKeep ==
  ASSUME AddressConstants, TwoSegments, AddressInv, [AnyPools \/ AnyBlocks \/ AnySegments]_addressVars
  PROVE  AddressInv'
<1>1. AnyPools => UNCHANGED <<blockVars, segmentVars>>
  BY ZenonT(40) DEF AnyPools, CreateL3, UpdateL3Pools, DeleteL3, AllocateFromPool, ReleaseToPool,
    UseDirectly, CreateUserPool
<1>2. AnyBlocks => UNCHANGED <<poolVars, segmentVars>>
  BY DEF AnyBlocks, StartAllocation, MakeSubnet, ValidateSubnet, AddSubnet, NoSubnetAvailable, ReleaseBlock
<1>3. AnySegments => UNCHANGED <<poolVars, blockVars>>
  BY DEF AnySegments, SetSegments, ClearSegments, SetRoutes
<1>4. PoolInv'
  <2>1. CASE AnyPools
    BY <2>1, CreateL3Keeps, UpdateL3PoolsKeeps, DeleteL3Keeps, OtherPoolStepsKeep DEF AddressInv, AnyPools
  <2>2. CASE ~AnyPools
    BY <2>2, <1>2, <1>3, OtherPoolStepsKeep DEF AddressInv, addressVars
  <2> QED BY <2>1, <2>2
<1>5. BlockInv'
  <2>1. CASE AnyBlocks
    BY <2>1, StartAllocationKeeps, MakeSubnetKeeps, ValidateSubnetKeeps, AddSubnetKeeps, OtherBlockStepsKeep DEF AddressInv, AnyBlocks
  <2>2. CASE ~AnyBlocks
    BY <2>2, <1>1, <1>3, OtherBlockStepsKeep DEF AddressInv, addressVars
  <2> QED BY <2>1, <2>2
<1>6. SegmentInv'
  <2>1. CASE AnySegments
    BY <2>1, SetSegmentsKeeps, SetRoutesKeeps, OtherSegmentStepsKeep DEF AddressInv, AnySegments
  <2>2. CASE ~AnySegments
    BY <2>2, <1>1, <1>2, OtherSegmentStepsKeep DEF AddressInv, addressVars
  <2> QED BY <2>1, <2>2
<1> QED BY <1>4, <1>5, <1>6 DEF AddressInv

LEMMA AddressInvHolds ==
  ASSUME AddressConstants, TwoSegments
  PROVE  AddressSpec => []AddressInv
<1>1. AddressInit => AddressInv
  <2> SUFFICES ASSUME AddressInit PROVE AddressInv
    OBVIOUS
  <2>1. PoolInv
    <3>1. PoolTypes
      BY DEF AddressInit, PoolTypes
    <3>2. poolScope[DefaultPool] # Nothing
      BY DEF AddressInit, AddressConstants
    <3>3. \A p \in SubnetPools : poolScope[p] # Nothing => PoolFits(p)
      BY DEF AddressInit, PoolFits, AddressConstants
    <3>4. \A l \in L3Rows : l3Row[l] = Nothing /\ ScopeMade[l] \notin scopes
      BY DEF AddressInit
    <3>5. \A g \in PoolGroups : groupPool[g] = Nothing
      BY DEF AddressInit
    <3> QED BY <3>1, <3>2, <3>3, <3>4, <3>5 DEF PoolInv, ScopeFits
  <2>2. BlockInv
    BY DEF AddressInit, BlockInv, BlockTypes, WorkersApart, HoldersApart, NetsAgree, GroupsApart, CheckedFree,
      Holds, AddressConstants
  <2>3. SegmentInv
    BY DEF AddressInit, SegmentInv, SegmentTypes
  <2> QED BY <2>1, <2>2, <2>3 DEF AddressInv
<1>2. AddressInv /\ [AnyPools \/ AnyBlocks \/ AnySegments]_addressVars => AddressInv'
  BY AddressStepsKeep
<1> QED BY <1>1, <1>2, PTL DEF AddressSpec

\* Every pool and scope of a policy is its own and goes with it or is kept with a
\* warning; two groups of a policy have one block only on different networks, if it
\* was found free for one of them before the other was given it; and a policy does
\* not contradict the external segments whose tenant sees it.
THEOREM L3PoliciesFitAlways ==
  ASSUME AddressConstants, TwoSegments
  PROVE  AddressSpec => []L3PoliciesFit
<1>1. AddressInv => L3PoliciesFit
  <2> SUFFICES ASSUME AddressInv PROVE L3PoliciesFit
    OBVIOUS
  <2>1. PoolsBelongToPolicies /\ SegmentsAreCompatible
    BY PoolInvSuffices, SegmentInvSuffices DEF AddressInv
  <2>2. BlocksAreApart /\ netBlocks \subseteq {GroupNet[g] : g \in PoolGroups} \X PoolBlocks
    BY BlockInvSuffices DEF AddressInv
  <2>3. AddressTypeOK
    BY <2>2 DEF AddressTypeOK, AddressInv, PoolInv, PoolTypes, BlockInv, BlockTypes, SegmentInv, SegmentTypes
  <2> QED BY <2>1, <2>2, <2>3 DEF L3PoliciesFit
<1> QED BY <1>1, AddressInvHolds, PTL

--------------------
(* External networks *)

ExtRecords == [dn : ApicNets \cup {Absent}, multi : BOOLEAN, cidrs : SUBSET ExtCidrs]
ExtSubnetRecords ==
  [net : ExtNets, block : ExtBlocks, gateway : Gateways \cup {Absent}, epg : BOOLEAN]
SviRecords == [bgp : BOOLEAN, type : {"default_export", ""}, given : BOOLEAN]
ExternalConstants ==
  Absent \notin ApicNets \cup ExtNets \cup ExtRecords \cup ExtSubnetRecords \cup SviRecords

\* The external networks of an L3Out either all have an EPG of their own (multi_ext_nets)
\* or all share one; they do not share the one of an L3Out that was there before.  Networks
\* with an EPG of their own that map to one APIC network have no CIDR in common.
GoesWith(n, new) ==
  new.dn # Absent =>
    /\ L3OutOf[new.dn] \in PreExisting \/ new.dn \in MultiApicNets => new.multi
    /\ \A m \in Managed \ {n} : L3OutOf[extNet[m].dn] = L3OutOf[new.dn] => extNet[m].multi = new.multi
    /\ new.multi => \A m \in Managed \ {n} : extNet[m].dn = new.dn => extNet[m].cidrs \cap new.cidrs = {}

\* Clients ask for anything that goes with what there is; a subnet below an EPG keeps
\* its gateway, and one without gateway is not given one.
AnyExtNets ==
  \E n \in ExtNets :
    \/ \E new \in ExtRecords : GoesWith(n, new) /\ CreateExtNet(n, new)
    \/ \E ks \in SUBSET ExtCidrs :
         n \in Managed /\ GoesWith(n, [extNet[n] EXCEPT !.cidrs = ks]) /\ UpdateExtCidrs(n, ks)
    \/ DeleteExtNet(n)
AnyExtSubnets ==
  \E x \in ExtSubnets :
    \/ \E new \in ExtSubnetRecords : CreateExtSubnet(x, new)
    \/ \E gw \in Gateways \cup {Absent} :
         /\ extSubnet[x] # Absent /\ ~extSubnet[x].epg /\ (gw # Absent => extSubnet[x].gateway # Absent)
         /\ UpdateGateway(x, gw)
    \/ DeleteExtSubnet(x)
AnySvis ==
  \E n \in SviNetworks :
    \/ \E new \in SviRecords : CreateSvi(n, new)
    \/ \E p \in SviPaths : AddSviPath(n, p) \/ RemoveSviPath(n, p)
    \/ \E b \in BOOLEAN : \E t \in {"default_export", ""} : UpdateBgp(n, b, t)
    \/ DeleteSvi(n)
ExternalSpec == ExternalInit /\ [][AnyExtNets \/ AnyExtSubnets \/ AnySvis]_externalVars

ExternalTypes ==
  /\ extNet \in [ExtNets -> ExtRecords \cup {Absent}]
  /\ extSubnet \in [ExtSubnets -> ExtSubnetRecords \cup {Absent}]

\* The networks go with each other; each has its EPG, its APIC network and its routes.
NetworksInv ==
  /\ \A n \in Managed : GoesWith(n, extNet[n])
  /\ \A e : e \in natEpgs <=> \E n \in Managed : e = EpgOf(n, extNet[n])
  /\ apicNets \subseteq ApicNets
  /\ \A a \in apicNets : L3OutOf[a] \notin PreExisting => \E n \in Managed : extNet[n].dn = a
  /\ \A n \in Managed : extNet[n].dn \in apicNets
  /\ routed \subseteq ApicNets \X ExtCidrs /\ CidrsAreRouted /\ CidrsGo

\* The gateways below an EPG are those of its networks' subnets, which do not overlap.
InBridge(x, g) ==
  /\ extSubnet[x].gateway # Absent /\ extSubnet[x].net \in Managed
  /\ g = <<EpgOf(extSubnet[x].net, extNet[extSubnet[x].net]),
           <<extSubnet[x].block, extSubnet[x].gateway>>, Place(extSubnet[x])>>
SubnetsInv ==
  /\ \A x \in Rows(extSubnet) : extSubnet[x].net \in Rows(extNet)
  /\ \A x, y \in Rows(extSubnet) :
       x # y /\ extSubnet[x].net = extSubnet[y].net => extSubnet[x].block # extSubnet[y].block
  /\ SubnetsAreDisjoint
  /\ \A g : g \in natSubnets <=> \E x \in Rows(extSubnet) : InBridge(x, g)

SviInv ==
  /\ svi \in [SviNetworks -> SviRecords \cup {Absent}]
  /\ sviPaths \subseteq SviNetworks \X SviPaths /\ \A y \in sviPaths : svi[y[1]] # Absent
  /\ PeersFollowBgp

ExternalInv == ExternalTypes /\ NetworksInv /\ SubnetsInv /\ SviInv

LEMMA ManagedRows ==
  ASSUME ExternalConstants, ExternalTypes
  PROVE  /\ Rows(extNet) = {n \in ExtNets : extNet[n] # Absent}
         /\ \A n : n \in Managed <=> n \in ExtNets /\ extNet[n] # Absent /\ extNet[n].dn # Absent
         /\ \A n \in Managed : extNet[n] \in ExtRecords /\ extNet[n].dn \in ApicNets
         /\ Rows(extSubnet) = {x \in ExtSubnets : extSubnet[x] # Absent}
         /\ \A x \in Rows(extSubnet) : extSubnet[x] \in ExtSubnetRecords
<1>1. Rows(extNet) = {n \in ExtNets : extNet[n] # Absent} /\ \A n \in Rows(extNet) : extNet[n] \in ExtRecords
  BY DEF Rows, ExternalTypes
<1>2. Rows(extSubnet) = {x \in ExtSubnets : extSubnet[x] # Absent}
      /\ \A x \in Rows(extSubnet) : extSubnet[x] \in ExtSubnetRecords
  BY DEF Rows, ExternalTypes
<1>3. \A n : n \in Managed <=> n \in ExtNets /\ extNet[n] # Absent /\ extNet[n].dn # Absent
  BY <1>1 DEF Managed
<1>4. \A n \in Managed : extNet[n] \in ExtRecords /\ extNet[n].dn \in ApicNets
  BY <1>1 DEF Managed, ExtRecords
<1> QED BY <1>1, <1>2, <1>3, <1>4

LEMMA ExternalInvSuffices ==
  ASSUME ExternalConstants, ExternalInv
  PROVE  ExternalNetworksAreKept
<1>1. /\ Rows(extNet) = {n \in ExtNets : extNet[n] # Absent}
      /\ \A n : n \in Managed <=> n \in ExtNets /\ extNet[n] # Absent /\ extNet[n].dn # Absent
      /\ \A n \in Managed : extNet[n] \in ExtRecords /\ extNet[n].dn \in ApicNets
      /\ Rows(extSubnet) = {x \in ExtSubnets : extSubnet[x] # Absent}
      /\ \A x \in Rows(extSubnet) : extSubnet[x] \in ExtSubnetRecords
  BY ManagedRows DEF ExternalInv
<1>2. ExternalTypeOK
  <2>1. \A n \in Rows(extNet) : extNet[n].cidrs \subseteq ExtCidrs
    BY <1>1 DEF ExternalInv, ExternalTypes, ExtRecords
  <2>2. natEpgs \subseteq L3Outs \X (ExtNets \cup {Absent})
    <3>1. ASSUME NEW e \in natEpgs
          PROVE  e \in L3Outs \X (ExtNets \cup {Absent})
      <4>1. PICK n \in Managed : e = EpgOf(n, extNet[n])
        BY DEF ExternalInv, NetworksInv
      <4>2. n \in ExtNets /\ L3OutOf[extNet[n].dn] \in L3Outs
        BY <1>1 DEF L3Outs
      <4> QED BY <4>1, <4>2 DEF EpgOf
    <3> QED BY <3>1
  <2>3. peers \subseteq sviPaths
    BY DEF ExternalInv, SviInv, PeersFollowBgp
  <2> QED BY <2>1, <2>2, <2>3 DEF ExternalTypeOK, ExternalInv, NetworksInv
<1>3. NatFollowsNetworks
  <2>1. natEpgs = {EpgOf(n, extNet[n]) : n \in Managed}
    BY DEF ExternalInv, NetworksInv
  <2>2. apicNets \ {a \in ApicNets : L3OutOf[a] \in PreExisting} \subseteq {extNet[n].dn : n \in Managed}
    BY DEF ExternalInv, NetworksInv
  <2>3. \A n \in Managed : extNet[n].dn \in apicNets
    BY DEF ExternalInv, NetworksInv
  <2> DEFINE Shown == {extSubnet[x] : x \in {y \in Rows(extSubnet) :
                         extSubnet[y].gateway # Absent /\ extSubnet[y].net \in Managed}}
  <2>4. \A g : g \in natSubnets <=> \E s \in Shown : g \in InNat(s, <<s.block, s.gateway>>, Place(s))
    <3>1. \A g : \A x \in Rows(extSubnet) : InBridge(x, g) <=>
            /\ extSubnet[x] \in Shown
            /\ g \in InNat(extSubnet[x], <<extSubnet[x].block, extSubnet[x].gateway>>, Place(extSubnet[x]))
      BY DEF InBridge, InNat
    <3>2. \A s \in Shown : \E x \in Rows(extSubnet) : s = extSubnet[x]
      OBVIOUS
    <3> HIDE DEF Shown
    <3> QED BY <3>1, <3>2 DEF ExternalInv, SubnetsInv
  <2>5. natSubnets = UNION {InNat(s, <<s.block, s.gateway>>, Place(s)) : s \in Shown}
    <3> HIDE DEF Shown
    <3> QED BY <2>4
  <2> QED BY <2>1, <2>2, <2>3, <2>5 DEF NatFollowsNetworks
<1> QED BY <1>2, <1>3 DEF ExternalNetworksAreKept, ExternalInv, NetworksInv, SubnetsInv, SviInv

LEMMA NetworksFramed ==
  ASSUME NetworksInv, UNCHANGED <<extNet, natEpgs, apicNets, routed>>
  PROVE  NetworksInv'
<1>1. Managed' = Managed
  BY DEF Managed, Rows
<1> QED BY <1>1 DEF NetworksInv, GoesWith, EpgOf, CidrsAreRouted, CidrsGo, CidrsOf, OnApicNet

LEMMA SviFramed ==
  ASSUME SviInv, UNCHANGED sviVars
  PROVE  SviInv'
BY DEF SviInv, sviVars, PeersFollowBgp, Exports, Rows

\* The networks that have subnets stay what they are.
LEMMA SubnetsFramed ==
  ASSUME ExternalConstants, ExternalTypes, ExternalTypes', SubnetsInv, UNCHANGED <<extSubnet, natSubnets>>,
         \A x \in Rows(extSubnet) :
           /\ extNet'[extSubnet[x].net] # Absent
           /\ extNet'[extSubnet[x].net].dn = extNet[extSubnet[x].net].dn
           /\ extNet'[extSubnet[x].net].multi = extNet[extSubnet[x].net].multi
  PROVE  SubnetsInv'
<1>1. /\ Rows(extNet) = {n \in ExtNets : extNet[n] # Absent}
      /\ \A n : n \in Managed <=> n \in ExtNets /\ extNet[n] # Absent /\ extNet[n].dn # Absent
      /\ \A x \in Rows(extSubnet) : extSubnet[x] \in ExtSubnetRecords
  BY ManagedRows
<1>2. /\ Rows(extNet)' = {n \in ExtNets : extNet'[n] # Absent}
      /\ \A n : n \in Managed' <=> n \in ExtNets /\ extNet'[n] # Absent /\ extNet'[n].dn # Absent
  <2>1. ExternalConstants /\ ExternalTypes'
    OBVIOUS
  <2>2. Rows(extNet)' = {n \in ExtNets : extNet'[n] # Absent}
    BY DEF Rows, ExternalTypes
  <2> QED BY <2>2 DEF Managed
<1>3. Rows(extSubnet)' = Rows(extSubnet)
  BY DEF Rows
<1>4. \A x \in Rows(extSubnet) : extSubnet[x].net \in ExtNets
        /\ (extSubnet[x].net \in Managed' <=> extSubnet[x].net \in Managed)
        /\ extSubnet[x].net \in Rows(extNet)'
  BY <1>1, <1>2 DEF SubnetsInv, ExtSubnetRecords
<1>5. ASSUME NEW x \in Rows(extSubnet), NEW g
      PROVE  InBridge(x, g)' <=> InBridge(x, g)
  <2>1. EpgOf(extSubnet[x].net, extNet'[extSubnet[x].net]) = EpgOf(extSubnet[x].net, extNet[extSubnet[x].net])
    BY DEF EpgOf
  <2>2. extSubnet'[x] = extSubnet[x]
    OBVIOUS
  <2> QED BY <1>4, <2>1, <2>2 DEF InBridge
<1>6. \A g : g \in natSubnets' <=> \E x \in Rows(extSubnet)' : InBridge(x, g)'
  BY <1>3, <1>5 DEF SubnetsInv
<1>7. SubnetsAreDisjoint'
  <2> SUFFICES ASSUME NEW x \in Rows(extSubnet), NEW y \in Rows(extSubnet),
                      extSubnet[x].net # extSubnet[y].net, extSubnet[x].net \in Managed', extSubnet[y].net \in Managed',
                      L3OutOf[extNet'[extSubnet[x].net].dn] = L3OutOf[extNet'[extSubnet[y].net].dn],
                      extSubnet[x].gateway # Absent, extSubnet[y].gateway # Absent
               PROVE  extSubnet[x].block # extSubnet[y].block
    BY <1>3 DEF SubnetsAreDisjoint
  <2> QED BY <1>4 DEF SubnetsInv, SubnetsAreDisjoint
<1> QED BY <1>3, <1>4, <1>6, <1>7 DEF SubnetsInv

LEMMA CreateExtNetKeeps ==
  ASSUME ExternalConstants, ExternalInv, NEW n \in ExtNets, NEW new \in ExtRecords,
         GoesWith(n, new), CreateExtNet(n, new)
  PROVE  ExternalInv'
<1>1. /\ extNet[n] = Absent /\ extNet' = [extNet EXCEPT ![n] = new]
      /\ UNCHANGED <<extSubnet, natSubnets, sviVars>> /\ new # Absent
  BY DEF CreateExtNet, SetNetworkExtn, ExternalConstants
<1>2. /\ ExternalTypes' /\ extNet'[n] = new /\ \A m \in ExtNets \ {n} : extNet'[m] = extNet[m]
  BY <1>1 DEF ExternalInv, ExternalTypes
<1>3. /\ \A m : m \in Managed <=> m \in ExtNets /\ extNet[m] # Absent /\ extNet[m].dn # Absent
      /\ \A m \in Managed : extNet[m] \in ExtRecords /\ extNet[m].dn \in ApicNets
      /\ Rows(extNet) = {m \in ExtNets : extNet[m] # Absent}
      /\ \A x \in Rows(extSubnet) : extSubnet[x] \in ExtSubnetRecords
  BY ManagedRows DEF ExternalInv
<1>4. \A m : m \in Managed' <=> m \in ExtNets /\ extNet'[m] # Absent /\ extNet'[m].dn # Absent
  BY <1>2 DEF Managed, Rows, ExternalTypes
<1>5. n \notin Managed /\ \A m : m \in Managed' <=> m \in Managed \/ (m = n /\ new.dn # Absent)
  BY <1>1, <1>2, <1>3, <1>4
<1>6. \A m \in Managed : m # n /\ extNet'[m] = extNet[m]
  BY <1>2, <1>3, <1>5
<1>7. SubnetsInv'
  <2>1. \A x \in Rows(extSubnet) : extSubnet[x].net \in ExtNets \ {n} /\ extNet[extSubnet[x].net] # Absent
    BY <1>1, <1>3 DEF ExternalInv, SubnetsInv, ExtSubnetRecords
  <2> QED BY <1>1, <1>2, <2>1, SubnetsFramed DEF ExternalInv
<1>8. ASSUME NEW m \in Managed'
      PROVE  GoesWith(m, extNet[m])'
  <2>1. CASE m = n
    <3>1. \A k \in Managed' \ {n} : k \in Managed /\ extNet'[k] = extNet[k]
      BY <1>5, <1>6
    <3> QED BY <1>2, <2>1, <3>1 DEF GoesWith
  <2>2. CASE m # n
    <3>1. m \in Managed /\ extNet'[m] = extNet[m] /\ GoesWith(m, extNet[m])
      BY <1>5, <1>6, <2>2 DEF ExternalInv, NetworksInv
    <3>2. CASE new.dn # Absent
      <4>1. L3OutOf[extNet[m].dn] = L3OutOf[new.dn] => extNet[m].multi = new.multi
        BY <3>1, <3>2, <1>6 DEF GoesWith
      <4>2. new.multi /\ extNet[m].dn = new.dn => extNet[m].cidrs \cap new.cidrs = {}
        BY <3>1, <3>2, <1>6 DEF GoesWith
      <4>3. \A k \in Managed' \ {m} : (k \in Managed /\ extNet'[k] = extNet[k]) \/ (k = n /\ extNet'[k] = new)
        BY <1>2, <1>5, <1>6
      <4> QED BY <3>1, <4>1, <4>2, <4>3 DEF GoesWith
    <3>3. CASE new.dn = Absent
      <4>1. \A k \in Managed' \ {m} : k \in Managed /\ extNet'[k] = extNet[k]
        BY <1>5, <1>6, <3>3
      <4> QED BY <3>1, <4>1 DEF GoesWith
    <3> QED BY <3>2, <3>3
  <2> QED BY <2>1, <2>2
<1>9. CASE new.dn = Absent
  <2>1. UNCHANGED <<natEpgs, apicNets, routed>> /\ Managed' = Managed
    BY <1>5, <1>9 DEF CreateExtNet
  <2>2. NetworksInv'
    BY <1>6, <1>8, <2>1 DEF ExternalInv, NetworksInv, CidrsAreRouted, CidrsGo, CidrsOf, OnApicNet
  <2> QED BY <1>1, <1>2, <1>7, <2>2, SviFramed DEF ExternalInv
<1>10. CASE new.dn # Absent
  <2>1. /\ natEpgs' = natEpgs \cup {EpgOf(n, new)} /\ apicNets' = apicNets \cup {new.dn}
        /\ routed' = {r \in routed : r[1] # new.dn} \cup {new.dn} \X (CidrsOf(new.dn) \cup new.cidrs)
    BY <1>10 DEF CreateExtNet
  <2>2. new.dn \in ApicNets /\ new.cidrs \subseteq ExtCidrs
    BY <1>10 DEF ExtRecords
  <2>3. CidrsOf(new.dn) \subseteq ExtCidrs /\ \A m \in Managed : extNet[m].dn = new.dn => extNet[m].cidrs \subseteq CidrsOf(new.dn)
    BY <1>3 DEF CidrsOf, OnApicNet, ExtRecords
  <2>4. \A e : e \in natEpgs' <=> \E m \in Managed' : e = EpgOf(m, extNet'[m])
    BY <1>2, <1>5, <1>6, <1>10, <2>1 DEF ExternalInv, NetworksInv
  <2>5. /\ apicNets' \subseteq ApicNets
        /\ \A a \in apicNets' : L3OutOf[a] \notin PreExisting => \E m \in Managed' : extNet'[m].dn = a
        /\ \A m \in Managed' : extNet'[m].dn \in apicNets'
    BY <1>2, <1>5, <1>6, <1>10, <2>1, <2>2 DEF ExternalInv, NetworksInv
  <2>6. routed' \subseteq ApicNets \X ExtCidrs
    BY <2>1, <2>2, <2>3 DEF ExternalInv, NetworksInv
  <2>7. ASSUME NEW m \in Managed'
        PROVE  {extNet'[m].dn} \X extNet'[m].cidrs \subseteq routed'
    <3>1. CASE extNet'[m].dn = new.dn
      <4>1. extNet'[m].cidrs \subseteq CidrsOf(new.dn) \cup new.cidrs
        BY <1>2, <1>5, <1>6, <2>3, <3>1
      <4> QED BY <2>1, <3>1, <4>1
    <3>2. CASE extNet'[m].dn # new.dn
      <4>1. m \in Managed /\ extNet'[m] = extNet[m]
        BY <1>2, <1>5, <1>6, <3>2
      <4>2. {extNet[m].dn} \X extNet[m].cidrs \subseteq routed
        BY <4>1 DEF ExternalInv, NetworksInv, CidrsAreRouted
      <4> QED BY <2>1, <3>2, <4>1, <4>2
    <3> QED BY <3>1, <3>2
  <2>9. CidrsGo'
    <3>1. CidrsOf(new.dn)' = CidrsOf(new.dn) \cup new.cidrs
      BY <1>2, <1>5, <1>6, <1>10 DEF CidrsOf, OnApicNet
    <3>2. ASSUME NEW b, b # new.dn
          PROVE  CidrsOf(b)' = CidrsOf(b)
      BY <1>2, <1>5, <1>6, <3>2 DEF CidrsOf, OnApicNet
    <3> QED BY <2>1, <3>1, <3>2 DEF ExternalInv, NetworksInv, CidrsGo
  <2>8. NetworksInv'
    BY <1>8, <2>4, <2>5, <2>6, <2>7, <2>9 DEF NetworksInv, CidrsAreRouted
  <2> QED BY <1>1, <1>2, <1>7, <2>8, SviFramed DEF ExternalInv
<1> QED BY <1>9, <1>10

LEMMA UpdateExtCidrsKeeps ==
  ASSUME ExternalConstants, ExternalInv, NEW n \in Managed, NEW ks \in SUBSET ExtCidrs,
         GoesWith(n, [extNet[n] EXCEPT !.cidrs = ks]), UpdateExtCidrs(n, ks)
  PROVE  ExternalInv'
<1>1. /\ n \in ExtNets /\ extNet[n] \in ExtRecords
      /\ \A m : m \in Managed <=> m \in ExtNets /\ extNet[m] # Absent /\ extNet[m].dn # Absent
      /\ \A m \in Managed : extNet[m] \in ExtRecords /\ extNet[m].dn \in ApicNets
      /\ \A x \in Rows(extSubnet) : extSubnet[x] \in ExtSubnetRecords
      /\ Rows(extNet) = {m \in ExtNets : extNet[m] # Absent}
  BY ManagedRows DEF ExternalInv
<1>2. PICK new \in ExtRecords :
        /\ new = [extNet[n] EXCEPT !.cidrs = ks] /\ new.dn = extNet[n].dn /\ new.multi = extNet[n].multi
        /\ new.cidrs = ks
  BY <1>1 DEF ExtRecords
<1>3. /\ extNet' = [extNet EXCEPT ![n] = new] /\ new # Absent
      /\ routed' = {r \in routed : r[1] # new.dn} \cup {new.dn} \X CidrsOf(new.dn)'
      /\ UNCHANGED <<extSubnet, natEpgs, apicNets, natSubnets, sviVars>>
  <2>1. extNet' = [extNet EXCEPT ![n] = new] /\ new # Absent
    BY <1>2 DEF UpdateExtCidrs, SetNetworkExtn, ExternalConstants
  <2>2. extNet'[n].dn = new.dn /\ extNet[n].dn = new.dn
    BY <1>1, <1>2, <2>1 DEF ExternalInv, ExternalTypes
  <2>3. \A m : m \in OnApicNet(extNet[n].dn)' <=> m \in OnApicNet(new.dn)'
    BY <2>2 DEF OnApicNet
  <2>4. routed' = {r \in routed : r[1] # new.dn} \cup {new.dn} \X CidrsOf(new.dn)'
    BY <2>2 DEF UpdateExtCidrs, CidrsOf, OnApicNet
  <2> QED BY <2>1, <2>4 DEF UpdateExtCidrs
<1>4. /\ ExternalTypes' /\ extNet'[n] = new /\ \A m \in ExtNets \ {n} : extNet'[m] = extNet[m]
  BY <1>1, <1>3 DEF ExternalInv, ExternalTypes
<1>5. \A m : m \in Managed' <=> m \in Managed
  <2>1. \A m : m \in Managed' <=> m \in ExtNets /\ extNet'[m] # Absent /\ extNet'[m].dn # Absent
    BY <1>4 DEF Managed, Rows, ExternalTypes
  <2> QED BY <1>1, <1>2, <1>3, <1>4, <2>1
<1>6. \A m \in Managed : extNet'[m].dn = extNet[m].dn /\ extNet'[m].multi = extNet[m].multi
                         /\ (m # n => extNet'[m] = extNet[m])
  BY <1>1, <1>2, <1>4
<1>7. SubnetsInv'
  <2>1. \A x \in Rows(extSubnet) : extSubnet[x].net \in ExtNets /\ extNet[extSubnet[x].net] # Absent
    BY <1>1 DEF ExternalInv, SubnetsInv, ExtSubnetRecords
  <2>2. \A m \in ExtNets : extNet[m] # Absent =>
          extNet'[m] # Absent /\ extNet'[m].dn = extNet[m].dn /\ extNet'[m].multi = extNet[m].multi
    BY <1>2, <1>3, <1>4
  <2> QED BY <1>3, <1>4, <2>1, <2>2, SubnetsFramed DEF ExternalInv
<1>8. ASSUME NEW m \in Managed'
      PROVE  GoesWith(m, extNet[m])'
  <2>0. \A k \in Managed' : k \in Managed /\ (k # n => extNet'[k] = extNet[k])
    BY <1>5, <1>6
  <2>1. CASE m = n
    <3>1. GoesWith(n, new)
      BY <1>2
    <3> QED BY <1>4, <2>0, <2>1, <3>1 DEF GoesWith
  <2>2. CASE m # n
    <3>1. m \in Managed /\ extNet'[m] = extNet[m] /\ GoesWith(m, extNet[m]) /\ GoesWith(n, new)
      BY <1>2, <1>5, <1>6, <2>2 DEF ExternalInv, NetworksInv
    <3>2. extNet[m].multi /\ new.dn = extNet[m].dn => new.cidrs \cap extNet[m].cidrs = {}
      <4>1. ASSUME extNet[m].multi, new.dn = extNet[m].dn
            PROVE  new.cidrs \cap extNet[m].cidrs = {}
        <5>1. extNet[n].multi
          BY <1>1, <1>2, <2>2, <3>1, <4>1 DEF GoesWith
        <5>2. extNet[m].cidrs \cap new.cidrs = {}
          BY <1>1, <1>2, <2>2, <3>1, <4>1, <5>1 DEF GoesWith
        <5> QED BY <5>2
      <4> QED BY <4>1
    <3>3. L3OutOf[new.dn] = L3OutOf[extNet[m].dn] => new.multi = extNet[m].multi
      BY <1>1, <1>2, <2>2, <3>1 DEF GoesWith
    <3>4. \A k \in Managed' \ {m} : k \in Managed /\ (extNet'[k] = extNet[k] \/ (k = n /\ extNet'[k] = new))
      BY <1>4, <2>0
    <3> QED BY <3>1, <3>2, <3>3, <3>4 DEF GoesWith
  <2> QED BY <2>1, <2>2
<1>9. \A e : e \in natEpgs' <=> \E m \in Managed' : e = EpgOf(m, extNet'[m])
  <2>1. \A m \in Managed : EpgOf(m, extNet'[m]) = EpgOf(m, extNet[m])
    BY <1>6 DEF EpgOf
  <2> QED BY <1>3, <1>5, <2>1 DEF ExternalInv, NetworksInv
<1>10. /\ apicNets' \subseteq ApicNets
       /\ \A a \in apicNets' : L3OutOf[a] \notin PreExisting => \E m \in Managed' : extNet'[m].dn = a
       /\ \A m \in Managed' : extNet'[m].dn \in apicNets'
  BY <1>3, <1>5, <1>6 DEF ExternalInv, NetworksInv
<1>11. CidrsOf(new.dn)' \subseteq ExtCidrs
       /\ \A m \in Managed' : extNet'[m].dn = new.dn => extNet'[m].cidrs \subseteq CidrsOf(new.dn)'
  <2>1. \A m \in Managed' : extNet'[m] \in ExtRecords
    BY <1>1, <1>4, <1>5, <1>6
  <2> QED BY <2>1 DEF CidrsOf, OnApicNet, ExtRecords
<1>12. routed' \subseteq ApicNets \X ExtCidrs
  <2>1. new.dn \in ApicNets
    BY <1>1, <1>2
  <2> QED BY <1>3, <1>11, <2>1 DEF ExternalInv, NetworksInv
<1>13. ASSUME NEW m \in Managed'
       PROVE  {extNet'[m].dn} \X extNet'[m].cidrs \subseteq routed'
  <2>1. CASE extNet'[m].dn = new.dn
    <3>1. extNet'[m].cidrs \subseteq CidrsOf(new.dn)'
      BY <1>11, <2>1
    <3> QED BY <1>3, <2>1, <3>1
  <2>2. CASE extNet'[m].dn # new.dn
    <3>1. m \in Managed /\ extNet'[m] = extNet[m]
      BY <1>4, <1>5, <1>6, <2>2
    <3>2. {extNet[m].dn} \X extNet[m].cidrs \subseteq routed
      BY <3>1 DEF ExternalInv, NetworksInv, CidrsAreRouted
    <3> QED BY <1>3, <2>2, <3>1, <3>2
  <2> QED BY <2>1, <2>2
<1>15. CidrsGo'
  <2>1. ASSUME NEW b, b # new.dn
        PROVE  CidrsOf(b)' = CidrsOf(b)
    BY <1>4, <1>5, <1>6, <2>1 DEF CidrsOf, OnApicNet
  <2> QED BY <1>3, <2>1 DEF ExternalInv, NetworksInv, CidrsGo
<1>14. NetworksInv'
  BY <1>8, <1>9, <1>10, <1>12, <1>13, <1>15 DEF NetworksInv, CidrsAreRouted
<1> QED BY <1>3, <1>4, <1>7, <1>14, SviFramed DEF ExternalInv

LEMMA DeleteExtNetKeeps ==
  ASSUME ExternalConstants, ExternalInv, NEW n \in ExtNets, DeleteExtNet(n)
  PROVE  ExternalInv'
<1>1. /\ n \in Rows(extNet) /\ SubnetsOf(n) = {} /\ extNet' = [extNet EXCEPT ![n] = Absent]
      /\ UNCHANGED <<extSubnet, natSubnets, sviVars>>
  BY DEF DeleteExtNet
<1>2. /\ \A m : m \in Managed <=> m \in ExtNets /\ extNet[m] # Absent /\ extNet[m].dn # Absent
      /\ \A m \in Managed : extNet[m] \in ExtRecords /\ extNet[m].dn \in ApicNets
      /\ \A x \in Rows(extSubnet) : extSubnet[x] \in ExtSubnetRecords
      /\ Rows(extNet) = {m \in ExtNets : extNet[m] # Absent}
  BY ManagedRows DEF ExternalInv
<1>3. /\ ExternalTypes' /\ extNet'[n] = Absent /\ \A m \in ExtNets \ {n} : extNet'[m] = extNet[m]
  BY <1>1 DEF ExternalInv, ExternalTypes
<1>4. \A m : m \in Managed' <=> m \in Managed \ {n}
  <2>1. \A m : m \in Managed' <=> m \in ExtNets /\ extNet'[m] # Absent /\ extNet'[m].dn # Absent
    BY <1>3 DEF Managed, Rows, ExternalTypes
  <2> QED BY <1>2, <1>3, <2>1
<1>5. \A m \in Managed' : m \in Managed \ {n} /\ extNet'[m] = extNet[m]
  BY <1>2, <1>3, <1>4
<1>6. SubnetsInv'
  <2>1. \A x \in Rows(extSubnet) : extSubnet[x].net \in ExtNets \ {n} /\ extNet[extSubnet[x].net] # Absent
    BY <1>1, <1>2 DEF ExternalInv, SubnetsInv, ExtSubnetRecords, SubnetsOf
  <2> QED BY <1>1, <1>3, <2>1, SubnetsFramed DEF ExternalInv
<1>7. \A m \in Managed' : GoesWith(m, extNet[m])'
  <2>1. ASSUME NEW m \in Managed'
        PROVE  GoesWith(m, extNet[m])'
    <3>1. m \in Managed /\ extNet'[m] = extNet[m] /\ GoesWith(m, extNet[m])
      BY <1>5 DEF ExternalInv, NetworksInv
    <3>2. \A k \in Managed' \ {m} : k \in Managed \ {m} /\ extNet'[k] = extNet[k]
      BY <1>5
    <3> QED BY <3>1, <3>2 DEF GoesWith
  <2> QED BY <2>1
<1>8. CASE extNet[n].dn = Absent
  <2>1. UNCHANGED <<natEpgs, apicNets, routed>> /\ Managed' = Managed
    BY <1>2, <1>4, <1>8 DEF DeleteExtNet
  <2>2. NetworksInv'
    BY <1>5, <1>7, <2>1 DEF ExternalInv, NetworksInv, CidrsAreRouted, CidrsGo, CidrsOf, OnApicNet
  <2> QED BY <1>1, <1>3, <1>6, <2>2, SviFramed DEF ExternalInv
<1>9. CASE extNet[n].dn # Absent
  <2> DEFINE a == extNet[n].dn
             own == {a} \X extNet[n].cidrs
             others == OnApicNet(a) \ {n}
             detached == extNet[n].multi \/ {m \in others : ~extNet[m].multi} = {}
             last == OnL3Out(L3OutOf[a]) \ {n} = {} /\ ~HasMonitored(a)
  <2>1. /\ routed' = IF detached THEN routed \ own ELSE routed
        /\ apicNets' = IF detached /\ others = {} /\ ~HasMonitored(a) THEN apicNets \ {a} ELSE apicNets
        /\ natEpgs' = IF extNet[n].multi \/ last THEN natEpgs \ {EpgOf(n, extNet[n])} ELSE natEpgs
    BY <1>9 DEF DeleteExtNet
  <2>2. n \in Managed /\ a \in ApicNets /\ GoesWith(n, extNet[n])
    BY <1>1, <1>2, <1>9 DEF ExternalInv, NetworksInv
  <2>3. /\ L3OutOf[a] \in PreExisting => extNet[n].multi
        /\ \A m \in Managed \ {n} : L3OutOf[extNet[m].dn] = L3OutOf[a] => extNet[m].multi = extNet[n].multi
        /\ extNet[n].multi => \A m \in Managed \ {n} : extNet[m].dn = a => extNet[m].cidrs \cap extNet[n].cidrs = {}
    BY <1>9, <2>2 DEF GoesWith
  <2>4. others = {m \in Managed \ {n} : extNet[m].dn = a}
    BY DEF OnApicNet
  <2>5. OnL3Out(L3OutOf[a]) \ {n} = {m \in Managed \ {n} : L3OutOf[extNet[m].dn] = L3OutOf[a]}
    BY DEF OnL3Out
  <2>6. HasMonitored(a) <=> L3OutOf[a] \in PreExisting
    BY DEF HasMonitored
  <2>7. \A e : e \in natEpgs' <=> \E m \in Managed' : e = EpgOf(m, extNet'[m])
    <3>1. CASE extNet[n].multi
      <4>1. \A m \in Managed \ {n} : EpgOf(m, extNet[m]) # EpgOf(n, extNet[n])
        BY <1>2, <2>2, <3>1 DEF EpgOf, ExternalConstants
      <4> QED BY <1>4, <1>5, <2>1, <2>2, <3>1, <4>1 DEF ExternalInv, NetworksInv
    <3>2. CASE ~extNet[n].multi /\ last
      <4>1. \A m \in Managed \ {n} : EpgOf(m, extNet[m]) # EpgOf(n, extNet[n])
        BY <2>5, <3>2 DEF EpgOf
      <4> QED BY <1>4, <1>5, <2>1, <2>2, <3>2, <4>1 DEF ExternalInv, NetworksInv
    <3>3. CASE ~extNet[n].multi /\ ~last
      <4>1. PICK m \in Managed \ {n} : L3OutOf[extNet[m].dn] = L3OutOf[a]
        BY <2>3, <2>5, <2>6, <3>3
      <4>2. EpgOf(m, extNet[m]) = EpgOf(n, extNet[n])
        BY <2>3, <3>3, <4>1 DEF EpgOf
      <4> QED BY <1>4, <1>5, <2>1, <3>3, <4>1, <4>2 DEF ExternalInv, NetworksInv
    <3> QED BY <3>1, <3>2, <3>3
  <2>8. others = {} => detached
    OBVIOUS
  <2>9. \A m \in others : m \in Managed' /\ extNet'[m].dn = a
    BY <1>4, <1>5, <2>4
  <2>10. \A b \in apicNets' : L3OutOf[b] \notin PreExisting => \E m \in Managed' : extNet'[m].dn = b
    <3> SUFFICES ASSUME NEW b \in apicNets', L3OutOf[b] \notin PreExisting
                 PROVE  \E m \in Managed' : extNet'[m].dn = b
      OBVIOUS
    <3>1. b \in apicNets
      BY <2>1
    <3>2. PICK m \in Managed : extNet[m].dn = b
      BY <3>1 DEF ExternalInv, NetworksInv
    <3>3. CASE m # n
      BY <1>4, <1>5, <3>2, <3>3
    <3>4. CASE m = n
      <4>1. others # {}
        BY <2>1, <2>6, <2>8, <3>2, <3>4
      <4> QED BY <2>9, <3>2, <3>4, <4>1
    <3> QED BY <3>3, <3>4
  <2>11. apicNets' \subseteq ApicNets /\ \A m \in Managed' : extNet'[m].dn \in apicNets'
    <3>1. apicNets' \subseteq apicNets
      BY <2>1
    <3>2. ASSUME NEW m \in Managed'
          PROVE  extNet'[m].dn \in apicNets'
      <4>1. extNet'[m].dn \in apicNets
        BY <1>5 DEF ExternalInv, NetworksInv
      <4>2. extNet'[m].dn = a => others # {}
        BY <1>5, <2>4
      <4> QED BY <2>1, <4>1, <4>2
    <3> QED BY <3>1, <3>2 DEF ExternalInv, NetworksInv
  <2>12. routed' \subseteq ApicNets \X ExtCidrs
    BY <2>1 DEF ExternalInv, NetworksInv
  <2>13. ASSUME NEW m \in Managed'
         PROVE  {extNet'[m].dn} \X extNet'[m].cidrs \subseteq routed'
    <3>1. m \in Managed \ {n} /\ extNet'[m] = extNet[m] /\ {extNet[m].dn} \X extNet[m].cidrs \subseteq routed
      BY <1>5 DEF ExternalInv, NetworksInv, CidrsAreRouted
    <3>2. detached /\ extNet[m].dn = a => extNet[m].cidrs \cap extNet[n].cidrs = {}
      <4>1. extNet[m].dn = a => m \in others /\ extNet[m].multi = extNet[n].multi
        BY <2>3, <2>4, <3>1
      <4>2. detached /\ extNet[m].dn = a => extNet[n].multi
        BY <4>1
      <4> QED BY <2>3, <3>1, <4>2
    <3>3. detached => ({extNet[m].dn} \X extNet[m].cidrs) \cap own = {}
      BY <3>2
    <3> HIDE DEF detached, own
    <3> QED BY <2>1, <3>1, <3>3
  \* Where a network had an EPG of its own its routes went with it.
  <2>15. CidrsGo'
    <3>1. ASSUME NEW b, NEW k \in CidrsOf(b), b = a => k \notin extNet[n].cidrs
          PROVE  k \in CidrsOf(b)'
      <4>1. PICK m \in OnApicNet(b) : k \in extNet[m].cidrs
        BY <3>1 DEF CidrsOf
      <4>2. m \in Managed \ {n}
        BY <3>1, <4>1 DEF OnApicNet
      <4>3. m \in OnApicNet(b)' /\ extNet'[m] = extNet[m]
        BY <1>4, <1>5, <4>1, <4>2 DEF OnApicNet
      <4> QED BY <4>1, <4>3 DEF CidrsOf
    <3>2. a \in MultiApicNets => detached
      BY <1>9, <2>2 DEF GoesWith
    <3>3. \A b, k : <<b, k>> \in own <=> b = a /\ k \in extNet[n].cidrs
      OBVIOUS
    <3>4. routed \subseteq ApicNets \X ExtCidrs /\ CidrsGo
      BY DEF ExternalInv, NetworksInv
    <3> SUFFICES ASSUME NEW q \in routed', q[1] \in MultiApicNets
                 PROVE  q[2] \in CidrsOf(q[1])'
      BY DEF CidrsGo
    <3> HIDE DEF detached, own, a
    <3>5. q \in routed /\ (q[1] = a => q \notin own) /\ q = <<q[1], q[2]>>
      BY <2>1, <3>2, <3>4
    <3>6. q[2] \in CidrsOf(q[1]) /\ (q[1] = a => q[2] \notin extNet[n].cidrs)
      BY <3>3, <3>4, <3>5 DEF CidrsGo
    <3> QED BY <3>1, <3>6
  <2>14. NetworksInv'
    BY <1>7, <2>7, <2>10, <2>11, <2>12, <2>13, <2>15 DEF NetworksInv, CidrsAreRouted
  <2> QED BY <1>1, <1>3, <1>6, <2>14, SviFramed DEF ExternalInv
<1> QED BY <1>8, <1>9

\* What a subnet needs of its network stays as it is.
LEMMA SubnetRows ==
  ASSUME ExternalConstants, ExternalInv, UNCHANGED <<extNet, natEpgs, apicNets, routed, sviVars>>
  PROVE  /\ Managed' = Managed /\ Rows(extNet)' = Rows(extNet)
         /\ NetworksInv' /\ SviInv'
         /\ \A x \in Rows(extSubnet) : extSubnet[x] \in ExtSubnetRecords /\ x \in ExtSubnets
         /\ Rows(extSubnet) = {x \in ExtSubnets : extSubnet[x] # Absent}
         /\ \A m \in Managed : m \in ExtNets /\ extNet[m] \in ExtRecords /\ extNet[m].dn \in ApicNets
<1>1. Managed' = Managed /\ Rows(extNet)' = Rows(extNet)
  BY DEF Managed, Rows
<1>2. NetworksInv' /\ SviInv'
  BY NetworksFramed, SviFramed DEF ExternalInv
<1> QED BY <1>1, <1>2, ManagedRows DEF ExternalInv

\* Two subnets never put the same gateway below one EPG.
LEMMA GatewaysDiffer ==
  ASSUME ExternalConstants, ExternalInv, NEW x \in Rows(extSubnet), NEW y \in Rows(extSubnet),
         NEW g, NEW h, InBridge(x, g), InBridge(y, h), g[1] = h[1], g[2][1] = h[2][1]
  PROVE  x = y
<1>1. /\ \A m \in Managed : m \in ExtNets /\ extNet[m] \in ExtRecords /\ extNet[m].dn \in ApicNets
  BY ManagedRows DEF ExternalInv
<1> DEFINE n == extSubnet[x].net
           m == extSubnet[y].net
<1>2. /\ n \in Managed /\ m \in Managed
      /\ extSubnet[x].gateway # Absent /\ extSubnet[y].gateway # Absent
      /\ EpgOf(n, extNet[n]) = EpgOf(m, extNet[m]) /\ extSubnet[x].block = extSubnet[y].block
  BY DEF InBridge
<1>3. L3OutOf[extNet[n].dn] = L3OutOf[extNet[m].dn]
  BY <1>2 DEF EpgOf
<1>4. n = m
  BY <1>2, <1>3 DEF ExternalInv, SubnetsInv, SubnetsAreDisjoint
<1> QED BY <1>2, <1>4 DEF ExternalInv, SubnetsInv

LEMMA CreateExtSubnetKeeps ==
  ASSUME ExternalConstants, ExternalInv, NEW x \in ExtSubnets, NEW new \in ExtSubnetRecords,
         CreateExtSubnet(x, new)
  PROVE  ExternalInv'
<1>1. /\ extSubnet[x] = Absent /\ new.net \in Rows(extNet) /\ extSubnet' = [extSubnet EXCEPT ![x] = new]
      /\ \A y \in SubnetsOf(new.net) : extSubnet[y].block # new.block
      /\ UNCHANGED <<extNet, natEpgs, apicNets, routed, sviVars>> /\ new # Absent
  BY DEF CreateExtSubnet, ExternalConstants
<1>2. /\ Managed' = Managed /\ Rows(extNet)' = Rows(extNet)
      /\ NetworksInv' /\ SviInv'
      /\ \A y \in Rows(extSubnet) : extSubnet[y] \in ExtSubnetRecords /\ y \in ExtSubnets
      /\ Rows(extSubnet) = {y \in ExtSubnets : extSubnet[y] # Absent}
  BY <1>1, SubnetRows
<1>3. ExternalTypes' /\ extSubnet'[x] = new /\ \A y \in ExtSubnets \ {x} : extSubnet'[y] = extSubnet[y]
  BY <1>1 DEF ExternalInv, ExternalTypes
<1>4. x \notin Rows(extSubnet) /\ \A y : y \in Rows(extSubnet)' <=> y \in Rows(extSubnet) \/ y = x
  <2>1. Rows(extSubnet)' = {y \in ExtSubnets : extSubnet'[y] # Absent}
    BY <1>3 DEF ExternalTypes, Rows
  <2> QED BY <1>1, <1>2, <1>3, <2>1
<1>5. \A y \in Rows(extSubnet) : extSubnet'[y] = extSubnet[y]
  BY <1>2, <1>3, <1>4
<1>6. /\ \A y \in Rows(extSubnet)' : extSubnet'[y].net \in Rows(extNet)'
      /\ \A y, z \in Rows(extSubnet)' :
           y # z /\ extSubnet'[y].net = extSubnet'[z].net => extSubnet'[y].block # extSubnet'[z].block
  <2>1. \A y \in Rows(extSubnet) : extSubnet[y].net = new.net => extSubnet[y].block # new.block
    BY <1>1 DEF SubnetsOf
  <2>2. ASSUME NEW y \in Rows(extSubnet), NEW z \in Rows(extSubnet), y # z, extSubnet[y].net = extSubnet[z].net
        PROVE  extSubnet[y].block # extSubnet[z].block
    BY <2>2 DEF ExternalInv, SubnetsInv
  <2>3. \A y \in Rows(extSubnet)' : extSubnet'[y].net \in Rows(extNet)'
    BY <1>1, <1>2, <1>3, <1>4, <1>5 DEF ExternalInv, SubnetsInv
  <2>4. ASSUME NEW y \in Rows(extSubnet)', NEW z \in Rows(extSubnet)', y # z, extSubnet'[y].net = extSubnet'[z].net
        PROVE  extSubnet'[y].block # extSubnet'[z].block
    BY <1>3, <1>4, <1>5, <2>1, <2>2, <2>4
  <2> QED BY <2>3, <2>4
<1>7. ASSUME new.gateway # Absent, new.net \in Managed, NEW y \in Rows(extSubnet),
             extSubnet[y].net # new.net, extSubnet[y].net \in Managed,
             L3OutOf[extNet[extSubnet[y].net].dn] = L3OutOf[extNet[new.net].dn]
      PROVE  extSubnet[y].block # new.block
  <2>1. ~Overlapping(new.net, new.block)
    BY <1>7 DEF CreateExtSubnet
  <2> QED BY <1>7, <2>1 DEF Overlapping, OnL3Out
<1>8. SubnetsAreDisjoint'
  <2> SUFFICES ASSUME NEW y \in Rows(extSubnet)', NEW z \in Rows(extSubnet)',
                      extSubnet'[y].net # extSubnet'[z].net,
                      extSubnet'[y].net \in Managed, extSubnet'[z].net \in Managed,
                      L3OutOf[extNet[extSubnet'[y].net].dn] = L3OutOf[extNet[extSubnet'[z].net].dn],
                      extSubnet'[y].gateway # Absent, extSubnet'[z].gateway # Absent
               PROVE  extSubnet'[y].block # extSubnet'[z].block
    <3>1. extNet' = extNet
      BY <1>1
    <3> QED BY <1>2, <3>1 DEF SubnetsAreDisjoint
  <2>1. CASE y = x
    BY <1>3, <1>4, <1>5, <1>7, <2>1
  <2>2. CASE z = x
    BY <1>3, <1>4, <1>5, <1>7, <2>2
  <2>3. CASE y # x /\ z # x
    BY <1>4, <1>5, <2>3 DEF ExternalInv, SubnetsInv, SubnetsAreDisjoint
  <2> QED BY <2>1, <2>2, <2>3
<1>9. \A y \in Rows(extSubnet) : \A g : InBridge(y, g)' <=> InBridge(y, g)
  BY <1>1, <1>2, <1>5 DEF InBridge, EpgOf
<1>10. \A g : g \in natSubnets' <=> \E y \in Rows(extSubnet)' : InBridge(y, g)'
  <2>1. CASE new.gateway = Absent \/ new.net \notin Managed
    <3>1. natSubnets' = natSubnets
      BY <2>1 DEF CreateExtSubnet
    <3>2. \A g : ~InBridge(x, g)'
      BY <1>2, <1>3, <2>1 DEF InBridge
    <3> QED BY <1>4, <1>9, <3>1, <3>2 DEF ExternalInv, SubnetsInv
  <2>2. CASE new.gateway # Absent /\ new.net \in Managed
    <3>1. natSubnets' = natSubnets \cup InNat(new, <<new.block, new.gateway>>, Place(new))
      BY <2>2 DEF CreateExtSubnet
    <3>2. \A g : InBridge(x, g)' <=> g \in InNat(new, <<new.block, new.gateway>>, Place(new))
      BY <1>1, <1>2, <1>3, <2>2 DEF InBridge, InNat, EpgOf
    <3> QED BY <1>4, <1>9, <3>1, <3>2 DEF ExternalInv, SubnetsInv
  <2> QED BY <2>1, <2>2
<1> QED BY <1>2, <1>3, <1>6, <1>8, <1>10 DEF ExternalInv, SubnetsInv

LEMMA DeleteExtSubnetKeeps ==
  ASSUME ExternalConstants, ExternalInv, NEW x \in ExtSubnets, DeleteExtSubnet(x)
  PROVE  ExternalInv'
<1>1. /\ x \in Rows(extSubnet) /\ extSubnet' = [extSubnet EXCEPT ![x] = Absent]
      /\ UNCHANGED <<extNet, natEpgs, apicNets, routed, sviVars>>
  BY DEF DeleteExtSubnet
<1>2. /\ Managed' = Managed /\ Rows(extNet)' = Rows(extNet)
      /\ NetworksInv' /\ SviInv'
      /\ \A y \in Rows(extSubnet) : extSubnet[y] \in ExtSubnetRecords /\ y \in ExtSubnets
      /\ Rows(extSubnet) = {y \in ExtSubnets : extSubnet[y] # Absent}
  BY <1>1, SubnetRows
<1>3. ExternalTypes' /\ extSubnet'[x] = Absent /\ \A y \in ExtSubnets \ {x} : extSubnet'[y] = extSubnet[y]
  BY <1>1 DEF ExternalInv, ExternalTypes
<1>4. Rows(extSubnet)' = Rows(extSubnet) \ {x}
  <2>1. Rows(extSubnet)' = {y \in ExtSubnets : extSubnet'[y] # Absent}
    BY <1>3 DEF ExternalTypes, Rows
  <2> QED BY <1>2, <1>3, <2>1
<1>5. \A y \in Rows(extSubnet) \ {x} : extSubnet'[y] = extSubnet[y]
  BY <1>2, <1>3
<1>6. /\ \A y \in Rows(extSubnet)' : extSubnet'[y].net \in Rows(extNet)'
      /\ \A y, z \in Rows(extSubnet)' :
           y # z /\ extSubnet'[y].net = extSubnet'[z].net => extSubnet'[y].block # extSubnet'[z].block
  BY <1>2, <1>4, <1>5 DEF ExternalInv, SubnetsInv
<1>7. SubnetsAreDisjoint'
  <2> SUFFICES ASSUME NEW y \in Rows(extSubnet)', NEW z \in Rows(extSubnet)',
                      extSubnet'[y].net # extSubnet'[z].net,
                      extSubnet'[y].net \in Managed, extSubnet'[z].net \in Managed,
                      L3OutOf[extNet[extSubnet'[y].net].dn] = L3OutOf[extNet[extSubnet'[z].net].dn],
                      extSubnet'[y].gateway # Absent, extSubnet'[z].gateway # Absent
               PROVE  extSubnet'[y].block # extSubnet'[z].block
    <3>1. extNet' = extNet
      BY <1>1
    <3> QED BY <1>2, <3>1 DEF SubnetsAreDisjoint
  <2> QED BY <1>4, <1>5 DEF ExternalInv, SubnetsInv, SubnetsAreDisjoint
<1>8. \A y \in Rows(extSubnet) \ {x} : \A g : InBridge(y, g)' <=> InBridge(y, g)
  BY <1>1, <1>2, <1>5 DEF InBridge, EpgOf
<1>9. \A g : g \in natSubnets' <=> g \in natSubnets /\ ~InBridge(x, g)
  BY DEF DeleteExtSubnet, InBridge, InNat
<1>10. \A y \in Rows(extSubnet) \ {x} : \A g : ~(InBridge(y, g) /\ InBridge(x, g))
  BY <1>1, GatewaysDiffer
<1>11. \A g : g \in natSubnets' <=> \E y \in Rows(extSubnet)' : InBridge(y, g)'
  BY <1>1, <1>4, <1>8, <1>9, <1>10 DEF ExternalInv, SubnetsInv
<1> QED BY <1>2, <1>3, <1>6, <1>7, <1>11 DEF ExternalInv, SubnetsInv

LEMMA UpdateGatewayKeeps ==
  ASSUME ExternalConstants, ExternalInv, NEW x \in ExtSubnets, NEW gw \in Gateways \cup {Absent},
         ~extSubnet[x].epg, gw # Absent => extSubnet[x].gateway # Absent, UpdateGateway(x, gw)
  PROVE  ExternalInv'
<1>1. /\ x \in Rows(extSubnet) /\ extSubnet' = [extSubnet EXCEPT ![x].gateway = gw]
      /\ UNCHANGED <<extNet, natEpgs, apicNets, routed, sviVars>>
  BY DEF UpdateGateway
<1>2. /\ Managed' = Managed /\ Rows(extNet)' = Rows(extNet)
      /\ NetworksInv' /\ SviInv'
      /\ \A y \in Rows(extSubnet) : extSubnet[y] \in ExtSubnetRecords /\ y \in ExtSubnets
      /\ Rows(extSubnet) = {y \in ExtSubnets : extSubnet[y] # Absent}
  BY <1>1, SubnetRows
<1>3. PICK new \in ExtSubnetRecords :
        /\ new = [extSubnet[x] EXCEPT !.gateway = gw]
        /\ new.net = extSubnet[x].net /\ new.block = extSubnet[x].block /\ new.gateway = gw
        /\ new.epg = extSubnet[x].epg
  <2>1. extSubnet[x] \in ExtSubnetRecords
    BY <1>1, <1>2
  <2>2. [extSubnet[x] EXCEPT !.gateway = gw] \in ExtSubnetRecords
    BY <2>1 DEF ExtSubnetRecords
  <2> QED BY <2>1, <2>2 DEF ExtSubnetRecords
<1>4. /\ ExternalTypes' /\ extSubnet'[x] = new /\ new # Absent
      /\ \A y \in ExtSubnets \ {x} : extSubnet'[y] = extSubnet[y]
  BY <1>1, <1>3 DEF ExternalInv, ExternalTypes, ExternalConstants
<1>5. Rows(extSubnet)' = Rows(extSubnet)
  <2>1. Rows(extSubnet)' = {y \in ExtSubnets : extSubnet'[y] # Absent}
    BY <1>4 DEF ExternalTypes, Rows
  <2> QED BY <1>1, <1>2, <1>4, <2>1
<1>6. \A y \in Rows(extSubnet) :
        /\ extSubnet'[y].net = extSubnet[y].net /\ extSubnet'[y].block = extSubnet[y].block
        /\ extSubnet'[y].gateway # Absent => extSubnet[y].gateway # Absent
        /\ y # x => extSubnet'[y] = extSubnet[y]
  BY <1>2, <1>3, <1>4
<1>7. /\ \A y \in Rows(extSubnet)' : extSubnet'[y].net \in Rows(extNet)'
      /\ \A y, z \in Rows(extSubnet)' :
           y # z /\ extSubnet'[y].net = extSubnet'[z].net => extSubnet'[y].block # extSubnet'[z].block
  BY <1>2, <1>5, <1>6 DEF ExternalInv, SubnetsInv
<1>8. SubnetsAreDisjoint'
  <2> SUFFICES ASSUME NEW y \in Rows(extSubnet)', NEW z \in Rows(extSubnet)',
                      extSubnet'[y].net # extSubnet'[z].net,
                      extSubnet'[y].net \in Managed, extSubnet'[z].net \in Managed,
                      L3OutOf[extNet[extSubnet'[y].net].dn] = L3OutOf[extNet[extSubnet'[z].net].dn],
                      extSubnet'[y].gateway # Absent, extSubnet'[z].gateway # Absent
               PROVE  extSubnet'[y].block # extSubnet'[z].block
    <3>1. extNet' = extNet
      BY <1>1
    <3> QED BY <1>2, <3>1 DEF SubnetsAreDisjoint
  <2> QED BY <1>5, <1>6 DEF ExternalInv, SubnetsInv, SubnetsAreDisjoint
<1>9. \A y \in Rows(extSubnet) \ {x} : \A g : InBridge(y, g)' <=> InBridge(y, g)
  BY <1>1, <1>2, <1>6 DEF InBridge, EpgOf
<1>10. CASE new.net \notin Managed
  <2>1. natSubnets' = natSubnets
    BY <1>3, <1>10 DEF UpdateGateway
  <2>2. \A g : ~InBridge(x, g)' /\ ~InBridge(x, g)
    BY <1>2, <1>3, <1>4, <1>10 DEF InBridge
  <2>3. \A g : g \in natSubnets' <=> \E y \in Rows(extSubnet)' : InBridge(y, g)'
    BY <1>5, <1>9, <2>1, <2>2 DEF ExternalInv, SubnetsInv
  <2> QED BY <1>2, <1>4, <1>7, <1>8, <2>3 DEF ExternalInv, SubnetsInv
<1>11. CASE new.net \in Managed
  <2>1. Place(extSubnet[x]) = "bd" /\ Place(new) = "bd"
    BY <1>3 DEF Place
  <2>2. \A g : g \in natSubnets' <=> \/ InBridge(x, g)'
                                     \/ g \in natSubnets /\ ~InBridge(x, g)
    <3>1. \A g : InBridge(x, g) <=>
            extSubnet[x].gateway # Absent /\ g \in InNat(extSubnet[x], <<extSubnet[x].block, extSubnet[x].gateway>>, "bd")
      BY <1>3, <1>11, <2>1 DEF InBridge, InNat
    <3>2. \A g : InBridge(x, g)' <=> gw # Absent /\ g \in InNat(extSubnet[x], <<extSubnet[x].block, gw>>, "bd")
      <4>1. extNet' = extNet
        BY <1>1
      <4>2. \A g : InBridge(x, g)' <=>
              gw # Absent /\ g = <<EpgOf(new.net, extNet[new.net]), <<new.block, gw>>, "bd">>
        <5>1. extSubnet'[x] = new /\ Managed' = Managed /\ ~new.epg
          BY <1>2, <1>3, <1>4
        <5>2. \A g : InBridge(x, g)' <=>
                /\ new.gateway # Absent /\ new.net \in Managed
                /\ g = <<EpgOf(new.net, extNet[new.net]), <<new.block, new.gateway>>, "bd">>
          BY <4>1, <5>1 DEF InBridge, EpgOf, Place
        <5> QED BY <1>3, <1>11, <5>2
      <4> QED BY <1>3, <4>2 DEF InNat
    <3> QED BY <1>3, <1>11, <3>1, <3>2 DEF UpdateGateway
  <2>3. \A y \in Rows(extSubnet) \ {x} : \A g : ~(InBridge(y, g) /\ InBridge(x, g))
    BY <1>1, GatewaysDiffer
  <2>4. \A g : g \in natSubnets' <=> \E y \in Rows(extSubnet)' : InBridge(y, g)'
    BY <1>1, <1>5, <1>9, <2>2, <2>3 DEF ExternalInv, SubnetsInv
  <2> QED BY <1>2, <1>4, <1>7, <1>8, <2>4 DEF ExternalInv, SubnetsInv
<1> QED BY <1>10, <1>11

\* An SVI network's request leaves the external networks alone.
LEMMA NatFramed ==
  ASSUME ExternalConstants, ExternalInv, UNCHANGED natVars, SviInv'
  PROVE  ExternalInv'
<1>1. UNCHANGED <<extNet, natEpgs, apicNets, routed>> /\ UNCHANGED <<extSubnet, natSubnets>>
  BY DEF natVars
<1>2. ExternalTypes' /\ NetworksInv'
  BY <1>1, NetworksFramed DEF ExternalInv, ExternalTypes
<1>3. \A x \in Rows(extSubnet) : extNet[extSubnet[x].net] # Absent
  BY DEF ExternalInv, SubnetsInv, Rows
<1>4. SubnetsInv'
  BY <1>1, <1>2, <1>3, SubnetsFramed DEF ExternalInv
<1> QED BY <1>2, <1>4 DEF ExternalInv

LEMMA SviStepKeeps ==
  ASSUME ExternalConstants, ExternalInv, NEW n \in SviNetworks,
         \/ \E new \in SviRecords : CreateSvi(n, new)
         \/ \E p \in SviPaths : AddSviPath(n, p) \/ RemoveSviPath(n, p)
         \/ \E b \in BOOLEAN : \E t \in {"default_export", ""} : UpdateBgp(n, b, t)
         \/ DeleteSvi(n)
  PROVE  ExternalInv'
<1>1. /\ svi \in [SviNetworks -> SviRecords \cup {Absent}]
      /\ sviPaths \subseteq SviNetworks \X SviPaths /\ \A y \in sviPaths : svi[y[1]] # Absent
      /\ peers = {y \in sviPaths : Exports(svi[y[1]])}
      /\ exported = {m \in Rows(svi) : ~svi[m].given /\ Exports(svi[m])}
      /\ Rows(svi) = {m \in SviNetworks : svi[m] # Absent}
  BY DEF ExternalInv, SviInv, PeersFollowBgp, Rows
<1>2. UNCHANGED natVars
  BY DEF CreateSvi, AddSviPath, RemoveSviPath, UpdateBgp, DeleteSvi
<1>3. ASSUME NEW new \in SviRecords, CreateSvi(n, new)
      PROVE  SviInv'
  <2>1. /\ svi[n] = Absent /\ svi' = [svi EXCEPT ![n] = new] /\ new # Absent
        /\ exported' = IF ~new.given /\ Exports(new) THEN exported \cup {n} ELSE exported
        /\ UNCHANGED <<sviPaths, peers>>
    BY <1>3 DEF CreateSvi, ExternalConstants
  <2>2. /\ svi' \in [SviNetworks -> SviRecords \cup {Absent}] /\ svi'[n] = new
        /\ \A m \in SviNetworks \ {n} : svi'[m] = svi[m]
    BY <1>1, <2>1
  <2>3. Rows(svi)' = Rows(svi) \cup {n} /\ n \notin Rows(svi)
    <3>1. Rows(svi)' = {m \in SviNetworks : svi'[m] # Absent}
      BY <2>2 DEF Rows
    <3>2. \A m \in SviNetworks : svi'[m] # Absent <=> svi[m] # Absent \/ m = n
      BY <2>1, <2>2
    <3>3. {m \in SviNetworks : svi'[m] # Absent} = {m \in SviNetworks : svi[m] # Absent} \cup {n}
      BY <3>2
    <3> QED BY <1>1, <2>1, <3>1, <3>3
  <2>4. \A y \in sviPaths : svi'[y[1]] = svi[y[1]] /\ y[1] # n
    BY <1>1, <2>1, <2>2
  <2>5. peers' = {y \in sviPaths' : Exports(svi'[y[1]])}
    BY <1>1, <2>1, <2>4
  <2>6. exported' = {m \in Rows(svi)' : ~svi'[m].given /\ Exports(svi'[m])}
    BY <1>1, <2>1, <2>2, <2>3
  <2> QED BY <1>1, <2>1, <2>2, <2>4, <2>5, <2>6 DEF SviInv, PeersFollowBgp, Exports
<1>4. ASSUME NEW p \in SviPaths, AddSviPath(n, p)
      PROVE  SviInv'
  <2>1. /\ n \in Rows(svi) /\ sviPaths' = sviPaths \cup {<<n, p>>}
        /\ peers' = IF Exports(svi[n]) THEN peers \cup {<<n, p>>} ELSE peers
        /\ UNCHANGED <<svi, exported>>
    BY <1>4 DEF AddSviPath
  <2>2. peers' = {y \in sviPaths' : Exports(svi[y[1]])}
    <3>1. <<n, p>>[1] = n
      OBVIOUS
    <3>2. \A y : y \in peers' <=> y \in sviPaths' /\ Exports(svi[y[1]])
      BY <1>1, <2>1, <3>1
    <3>3. peers' \subseteq sviPaths'
      BY <3>2
    <3> QED BY <3>2, <3>3
  <2>3. Rows(svi)' = Rows(svi)
    BY <2>1 DEF Rows
  <2>4. sviPaths' \subseteq SviNetworks \X SviPaths /\ \A y \in sviPaths' : svi[y[1]] # Absent
    <3>1. <<n, p>>[1] = n /\ <<n, p>> \in SviNetworks \X SviPaths
      OBVIOUS
    <3>2. svi[n] # Absent
      BY <1>1, <2>1
    <3>3. \A y \in sviPaths' : y \in sviPaths \/ y = <<n, p>>
      BY <2>1
    <3> QED BY <1>1, <3>1, <3>2, <3>3
  <2> QED BY <1>1, <2>1, <2>2, <2>3, <2>4 DEF SviInv, PeersFollowBgp, Exports
<1>5. ASSUME NEW p \in SviPaths, RemoveSviPath(n, p)
      PROVE  SviInv'
  <2>1. /\ sviPaths' = sviPaths \ {<<n, p>>} /\ peers' = peers \ {<<n, p>>}
        /\ UNCHANGED <<svi, exported>>
    BY <1>5 DEF RemoveSviPath
  <2>2. peers' = {y \in sviPaths' : Exports(svi[y[1]])}
    BY <1>1, <2>1
  <2>3. Rows(svi)' = Rows(svi)
    BY <2>1 DEF Rows
  <2> QED BY <1>1, <2>1, <2>2, <2>3 DEF SviInv, PeersFollowBgp, Exports
<1>6. ASSUME NEW b \in BOOLEAN, NEW t \in {"default_export", ""}, UpdateBgp(n, b, t)
      PROVE  SviInv'
  <2> DEFINE old == svi[n]
             Of(set) == {y \in set : y[1] = n}
             disabled == old.bgp /\ ~b
             written == b /\ (t # old.type \/ ~old.bgp)
  <2>1. /\ n \in Rows(svi) /\ svi' = [svi EXCEPT ![n].bgp = b, ![n].type = t] /\ sviPaths' = sviPaths
        /\ peers' = IF disabled \/ (written /\ t = "") THEN peers \ Of(peers)
                    ELSE IF written THEN peers \cup Of(sviPaths) ELSE peers
        /\ exported' = IF old.given \/ ~(disabled \/ written) THEN exported
                       ELSE IF written /\ t # "" THEN exported \cup {n} ELSE exported \ {n}
    BY <1>6 DEF UpdateBgp
  <2>2. old \in SviRecords
    BY <1>1, <2>1
  <2>3. PICK new \in SviRecords : /\ new = [old EXCEPT !.bgp = b, !.type = t]
                                  /\ new.bgp = b /\ new.type = t /\ new.given = old.given
    <3>1. [old EXCEPT !.bgp = b, !.type = t] \in SviRecords
      BY <2>2 DEF SviRecords
    <3> QED BY <2>2, <3>1 DEF SviRecords
  <2>4. svi' = [svi EXCEPT ![n] = new] /\ new # Absent
    BY <1>1, <2>1, <2>3 DEF ExternalConstants
  <2>5. /\ svi' \in [SviNetworks -> SviRecords \cup {Absent}] /\ svi'[n] = new
        /\ \A m \in SviNetworks \ {n} : svi'[m] = svi[m]
    BY <1>1, <2>4
  <2>6. Rows(svi)' = Rows(svi)
    BY <1>1, <2>1, <2>4, <2>5 DEF Rows
  <2>7. Exports(new) <=> b /\ t = "default_export"
    BY <2>3 DEF Exports
  <2>8. /\ disabled \/ (written /\ t = "") => ~Exports(new)
        /\ written /\ t # "" => Exports(new)
        /\ ~disabled /\ ~written => (Exports(new) <=> Exports(old))
    <3>1. old.bgp \in BOOLEAN
      BY <2>2 DEF SviRecords
    <3>2. t # "" => t = "default_export"
      OBVIOUS
    <3>3. ~disabled /\ ~written => (b = old.bgp) /\ (b => t = old.type)
      BY <3>1
    <3> QED BY <2>7, <3>2, <3>3 DEF Exports
  <2>9. \A y \in sviPaths : y[1] # n => svi'[y[1]] = svi[y[1]]
    BY <1>1, <2>5
  <2> HIDE DEF disabled, written
  <2>10. peers' = {y \in sviPaths' : Exports(svi'[y[1]])}
    BY ZenonT(40), <1>1, <2>1, <2>5, <2>8, <2>9
  <2>11. exported' = {m \in Rows(svi)' : ~svi'[m].given /\ Exports(svi'[m])}
    <3>1. n \in exported' <=> ~new.given /\ Exports(new)
      BY <1>1, <2>1, <2>3, <2>8
    <3>2. \A m \in Rows(svi) \ {n} : m \in exported' <=> ~svi'[m].given /\ Exports(svi'[m])
      BY <1>1, <2>1, <2>5
    <3>3. exported' \subseteq Rows(svi)
      BY <1>1, <2>1
    <3> QED BY <2>5, <2>6, <3>1, <3>2, <3>3
  <2>12. \A y \in sviPaths : svi'[y[1]] # Absent
    BY <1>1, <2>4, <2>5, <2>9
  <2> QED BY <1>1, <2>1, <2>5, <2>10, <2>11, <2>12 DEF SviInv, PeersFollowBgp, Exports
<1>7. ASSUME DeleteSvi(n)
      PROVE  SviInv'
  <2>1. /\ svi' = [svi EXCEPT ![n] = Absent] /\ exported' = exported \ {n}
        /\ sviPaths' = {y \in sviPaths : y[1] # n} /\ peers' = {y \in peers : y[1] # n}
    BY <1>7 DEF DeleteSvi
  <2>2. /\ svi' \in [SviNetworks -> SviRecords \cup {Absent}] /\ svi'[n] = Absent
        /\ \A m \in SviNetworks \ {n} : svi'[m] = svi[m]
    BY <1>1, <2>1
  <2>3. Rows(svi)' = Rows(svi) \ {n}
    BY <1>1, <2>1, <2>2 DEF Rows
  <2>4. \A y \in sviPaths' : y \in sviPaths /\ y[1] # n /\ svi'[y[1]] = svi[y[1]]
    BY <1>1, <2>1, <2>2
  <2>5. peers' = {y \in sviPaths' : Exports(svi'[y[1]])}
    BY <1>1, <2>1, <2>4
  <2>6. exported' = {m \in Rows(svi)' : ~svi'[m].given /\ Exports(svi'[m])}
    BY <1>1, <2>1, <2>2, <2>3
  <2> QED BY <1>1, <2>1, <2>2, <2>4, <2>5, <2>6 DEF SviInv, PeersFollowBgp, Exports
<1>8. SviInv'
  BY <1>3, <1>4, <1>5, <1>6, <1>7
<1> QED BY <1>2, <1>8, NatFramed

LEMMA ExternalInitHolds ==
  ASSUME ExternalConstants, ExternalInit
  PROVE  ExternalInv
<1>1. ExternalTypes /\ Rows(extNet) = {} /\ Rows(extSubnet) = {} /\ Rows(svi) = {}
  BY DEF ExternalInit, ExternalTypes, Rows
<1>2. Managed = {}
  BY <1>1 DEF Managed
<1>3. NetworksInv
  BY <1>2 DEF ExternalInit, NetworksInv, CidrsAreRouted, CidrsGo
<1>4. SubnetsInv
  BY <1>1 DEF ExternalInit, SubnetsInv, SubnetsAreDisjoint
<1>5. SviInv
  BY <1>1 DEF ExternalInit, SviInv, PeersFollowBgp
<1> QED BY <1>1, <1>3, <1>4, <1>5 DEF ExternalInv

\* Whatever happens to the other networks of an L3Out or of an APIC external network,
\* every external network keeps its NAT EPG, its APIC network, the routes of its CIDRs
\* and the gateways of its subnets; of a network that is gone no EPG, APIC network or
\* gateway is left, nor routes if it had an EPG of its own (MultiApicNets); and the peers
\* of SVI networks follow their BGP settings (create_network_precommit to
\* delete_subnet_precommit of the mechanism driver).
THEOREM ExternalNetworksAreKeptAlways ==
  ASSUME ExternalConstants
  PROVE  ExternalSpec => []ExternalNetworksAreKept
<1>1. ExternalInit => ExternalInv
  BY ExternalInitHolds
<1>2. ASSUME ExternalInv, [AnyExtNets \/ AnyExtSubnets \/ AnySvis]_externalVars
      PROVE  ExternalInv'
  <2>1. ASSUME NEW n \in ExtNets, NEW new \in ExtRecords, GoesWith(n, new), CreateExtNet(n, new)
        PROVE  ExternalInv'
    BY <1>2, <2>1, CreateExtNetKeeps
  <2>2. ASSUME NEW n \in ExtNets, NEW ks \in SUBSET ExtCidrs, n \in Managed,
               GoesWith(n, [extNet[n] EXCEPT !.cidrs = ks]), UpdateExtCidrs(n, ks)
        PROVE  ExternalInv'
    BY <1>2, <2>2, UpdateExtCidrsKeeps
  <2>3. ASSUME NEW n \in ExtNets, DeleteExtNet(n)
        PROVE  ExternalInv'
    BY <1>2, <2>3, DeleteExtNetKeeps
  <2>4. ASSUME NEW x \in ExtSubnets, NEW new \in ExtSubnetRecords, CreateExtSubnet(x, new)
        PROVE  ExternalInv'
    BY <1>2, <2>4, CreateExtSubnetKeeps
  <2>5. ASSUME NEW x \in ExtSubnets, NEW gw \in Gateways \cup {Absent}, ~extSubnet[x].epg,
               gw # Absent => extSubnet[x].gateway # Absent, UpdateGateway(x, gw)
        PROVE  ExternalInv'
    BY <1>2, <2>5, UpdateGatewayKeeps
  <2>6. ASSUME NEW x \in ExtSubnets, DeleteExtSubnet(x)
        PROVE  ExternalInv'
    BY <1>2, <2>6, DeleteExtSubnetKeeps
  <2>7. CASE AnyExtNets
    BY <2>1, <2>2, <2>3, <2>7 DEF AnyExtNets
  <2>8. CASE AnyExtSubnets
    BY <2>4, <2>5, <2>6, <2>8 DEF AnyExtSubnets
  <2>9. CASE AnySvis
    BY <1>2, <2>9, SviStepKeeps DEF AnySvis
  <2>10. CASE UNCHANGED externalVars
    <3>1. UNCHANGED natVars /\ UNCHANGED sviVars
      BY <2>10 DEF externalVars
    <3>2. SviInv'
      BY <1>2, <3>1, SviFramed DEF ExternalInv
    <3> QED BY <1>2, <3>1, <3>2, NatFramed
  <2> QED BY <1>2, <2>7, <2>8, <2>9, <2>10
<1>3. ExternalInv => ExternalNetworksAreKept
  BY ExternalInvSuffices
<1> QED BY <1>1, <1>2, <1>3, PTL DEF ExternalSpec

--------------------
(* Network services *)

Holders == ServedGroups \cup ServedTargets
PoolSubnets == {PoolBlock[n] : n \in NatPools}
NatRecords == [segment : NatSegments, subnet : PoolSubnets, owned : BOOLEAN]

\* Different NAT pools have different blocks: a subnet is known by its block.
ServiceConstants ==
  /\ ServedGroups \cap ServedTargets = {} /\ ServedGroup \in [ServedTargets -> ServedGroups]
  /\ Size \in Nat \ {0} /\ MovesUnused
  /\ \A m, n \in NatPools : PoolBlock[m] = PoolBlock[n] => m = n
  /\ NoRow \notin ServicePolicies \cup {NoOne}
  /\ NoOne \notin ServicePolicies \cup NatSegments \cup PoolSubnets \cup NatRecords
                  \cup Nat \cup (SUBSET Params)

\* Clients ask for any service policies, groups, targets, NAT pools and segments.
AnyServicePolicies ==
  \E v \in ServicePolicies :
    (\E ps \in SUBSET Params : CreateServicePolicy(v, ps)) \/ DeleteServicePolicy(v)
AnyServedGroups ==
  \E g \in ServedGroups :
    \/ \E v \in ServicePolicies \cup {NoOne} : CreateServedGroup(g, v) \/ SetServicePolicy(g, v)
    \/ DeleteServedGroup(g)
AnyServedTargets == \E t \in ServedTargets : CreateServedTarget(t) \/ DeleteServedTarget(t)
AnyNatPools ==
  \/ \E e \in NatSegments \cup {NoOne} : AttachSegment(e)
  \/ \E n \in NatPools : \/ \E e \in NatSegments : CreateNatPool(n, e) \/ MoveNatPool(n, e)
                          \/ DeleteNatPool(n)
ServiceSpec ==
  ServiceInit /\ [][AnyServicePolicies \/ AnyServedGroups \/ AnyServedTargets \/ AnyNatPools]_serviceVars

ServedRows ==
  /\ params \in [ServicePolicies -> (SUBSET Params) \cup {NoOne}]
  /\ \A v \in ServicePolicies : params[v] # NoOne => ~({"self", "single"} \subseteq params[v])
  /\ qosPolicies = {v \in ServicePolicies : params[v] # NoOne /\ "qos" \in params[v]}
  /\ policyOf \in [ServedGroups -> ServicePolicies \cup {NoOne, NoRow}]
  /\ \A g \in ServedGroups : policyOf[g] \in ServicePolicies => params[policyOf[g]] # NoOne
  /\ targetRows \subseteq ServedTargets /\ \A t \in targetRows : ServedGroup[t] \in LiveGroups
  /\ attached \in NatSegments \cup {NoOne}
  /\ refused \subseteq LiveGroups \cup targetRows

\* Who asks for a floating IP has one of a NAT pool of the segment, or was refused.
Asks(o) ==
  \/ o \in LiveGroups /\ "single" \in ParamsOf(policyOf[o])
  \/ o \in targetRows /\ "pool" \in ParamsOf(policyOf[ServedGroup[o]])
FipsInv ==
  /\ fips \in [Holders -> PoolSubnets \cup {NoOne}]
  /\ \A o \in Holders : fips[o] # NoOne => Asks(o) /\ fips[o] \in BlocksOf(attached)
  /\ \A o \in Holders : Asks(o) /\ o \notin refused => fips[o] # NoOne
  /\ \A g \in LiveGroups : UsesNat(ParamsOf(policyOf[g])) => attached # NoOne /\ PoolsOf(attached) # {}

\* Allocation pools and reserved addresses divide the addresses of the subnet.
Within(a, r) == r[1] <= a /\ a <= r[2]
Divided(rs, res) ==
  /\ rs \subseteq Int \X Int /\ \A r \in rs : 1 <= r[1] /\ r[1] <= r[2] /\ r[2] <= Size
  /\ res \in [ServedGroups -> 1 .. Size \cup {NoOne}]
  /\ \A r, s \in rs : \A a \in 1 .. Size : Within(a, r) /\ Within(a, s) => r = s
  /\ \A g, h \in ServedGroups : res[g] = res[h] /\ res[g] # NoOne => g = h
  /\ \A g \in ServedGroups : \A r \in rs : res[g] # NoOne => ~Within(res[g], r)
  /\ \A a \in 1 .. Size : (\E g \in ServedGroups : res[g] = a) \/ (\E r \in rs : Within(a, r))
ReservesAddress(g) == g \in LiveGroups /\ "self" \in ParamsOf(policyOf[g]) /\ g \notin refused
AddressesInv ==
  Divided(ranges, reserved) /\ \A g \in ServedGroups : reserved[g] # NoOne <=> ReservesAddress(g)

\* PoolsHaveSubnets, said of the rows one by one.
PoolsFit ==
  /\ \A n \in NatPools : natPool[n] # NoOne =>
       /\ natPool[n].subnet = PoolBlock[n] /\ <<natPool[n].segment, PoolBlock[n]>> \in extBlocks
       /\ \A m \in NatPools \ {n} :
            natPool[m] # NoOne /\ natPool[m].segment = natPool[n].segment => ~Clash(PoolBlock[m], PoolBlock[n])
  /\ \A x \in extBlocks :
       \/ x[2] = SegmentBlock[x[1]]
       \/ \E n \in NatPools : /\ natPool[n] # NoOne /\ natPool[n].segment = x[1]
                              /\ natPool[n].owned /\ natPool[n].subnet = x[2]
NatPoolsInv ==
  /\ natPool \in [NatPools -> NatRecords \cup {NoOne}] /\ PoolsFit
  /\ \A x \in extBlocks : x = <<x[1], x[2]>>

QosInv == qosOf \in [ServedTargets -> ServicePolicies \cup {NoOne}] /\ QosFollowsPolicies

ServiceInv == ServedRows /\ FipsInv /\ AddressesInv /\ NatPoolsInv /\ QosInv

--------------------
LEMMA PoolSubnetsAreBlocks ==
  ASSUME ServiceConstants, NatPoolsInv, NEW e
  PROVE  BlocksOf(e) \subseteq PoolSubnets /\ NoOne \notin BlocksOf(e)
         /\ \A n \in PoolsOf(e) : natPool[n].subnet = PoolBlock[n] /\ PoolBlock[n] \in BlocksOf(e)
<1>1. \A n \in PoolsOf(e) : n \in NatPools /\ natPool[n].subnet = PoolBlock[n] /\ PoolBlock[n] \in PoolSubnets
  BY DEF NatPoolsInv, PoolsFit, PoolsOf, PoolSubnets
<1>2. NoOne \notin PoolSubnets
  BY DEF ServiceConstants
<1> QED BY <1>1, <1>2 DEF BlocksOf

\* _allocate_floating_ips leaves those alone that do not ask.
LEMMA AllocatedMeans ==
  ASSUME ServiceConstants, NatPoolsInv, NEW f \in [Holders -> PoolSubnets \cup {NoOne}],
         NEW asking \in SUBSET Holders, NEW h \in Allocated(f, asking)
  PROVE  /\ h \in [Holders -> PoolSubnets \cup {NoOne}]
         /\ \A o \in Holders : /\ o \notin asking => h[o] = f[o]
                               /\ o \in asking => h[o] \in BlocksOf(attached) \cup {NoOne}
<1>1. PICK got \in [asking -> BlocksOf(attached) \cup {NoOne}] :
        h = [o \in DOMAIN f |-> IF o \in asking THEN got[o] ELSE f[o]]
  BY DEF Allocated
<1>2. BlocksOf(attached) \subseteq PoolSubnets
  BY PoolSubnetsAreBlocks
<1> QED BY <1>1, <1>2

LEMMA RestoredDivided ==
  ASSUME ServiceConstants, NEW rs, NEW res, Divided(rs, res), NEW g \in ServedGroups, res[g] # NoOne
  PROVE  Divided(Restored(rs, res[g]), [res EXCEPT ![g] = NoOne])
<1> DEFINE a == res[g]
           new == Restored(rs, a)
           left == [res EXCEPT ![g] = NoOne]
<1>1. a \in 1 .. Size /\ a \in Int /\ Size \in Nat
  BY DEF Divided, ServiceConstants
<1>2. /\ left \in [ServedGroups -> 1 .. Size \cup {NoOne}] /\ left[g] = NoOne
      /\ \A h \in ServedGroups \ {g} : left[h] = res[h]
  BY DEF Divided
<1>3. \A r \in rs : r \in Int \X Int /\ 1 <= r[1] /\ r[1] <= r[2] /\ r[2] <= Size
                    /\ r[1] \in Int /\ r[2] \in Int /\ ~Within(a, r)
  BY DEF Divided
<1>4. \A r, s \in rs : r[2] = s[2] => r = s
  <2>1. \A r \in rs : r[2] \in 1 .. Size /\ Within(r[2], r)
    BY <1>1, <1>3 DEF Within
  <2>2. \A r, s \in rs : r[2] = s[2] => Within(r[2], s)
    BY <2>1
  <2> QED BY <2>1, <2>2 DEF Divided
<1>5. CASE \E r \in rs : r[2] = a - 1
  <2>1. PICK r \in rs : r[2] = a - 1
    BY <1>5
  <2>2. \A s \in rs : s[2] = a - 1 <=> s = r
    BY <1>4, <2>1
  <2>3. new = {IF s[2] = a - 1 THEN <<s[1], a>> ELSE s : s \in rs}
    BY <1>5 DEF Restored
  <2>4. \A s : s \in new <=> (s \in rs /\ s # r) \/ s = <<r[1], a>>
    BY <2>1, <2>2, <2>3
  <2>5. \A b \in Int : Within(b, <<r[1], a>>) <=> Within(b, r) \/ b = a
    BY <1>1, <1>3, <2>1 DEF Within
  <2>6. <<r[1], a>> \in Int \X Int /\ 1 <= r[1] /\ r[1] <= a /\ a <= Size
    BY <1>1, <1>3, <2>1
  <2> HIDE DEF new, left, a
  <2>7. new \subseteq Int \X Int /\ \A s \in new : 1 <= s[1] /\ s[1] <= s[2] /\ s[2] <= Size
    BY <1>3, <2>4, <2>6
  <2>8. ASSUME NEW s \in new, NEW t \in new, NEW b \in 1 .. Size, Within(b, s), Within(b, t)
        PROVE  s = t
    <3>1. \A u \in rs : Within(b, u) => b # a
      BY <1>3
    <3>2. \A u, w \in rs : Within(b, u) /\ Within(b, w) => u = w
      BY DEF Divided
    <3> QED BY <2>1, <2>4, <2>5, <2>8, <3>1, <3>2
  <2>9. \A h, k \in ServedGroups : left[h] = left[k] /\ left[h] # NoOne => h = k
    BY <1>2 DEF Divided
  <2>10. \A h \in ServedGroups : \A s \in new : left[h] # NoOne => ~Within(left[h], s)
    <3>1. \A h \in ServedGroups : left[h] # NoOne => left[h] = res[h] /\ res[h] # a /\ res[h] \in Int
      BY <1>2 DEF Divided, a
    <3>2. \A h \in ServedGroups : \A s \in rs : left[h] # NoOne => ~Within(left[h], s)
      BY <3>1 DEF Divided
    <3> QED BY <2>1, <2>4, <2>5, <3>1, <3>2
  <2>11. ASSUME NEW b \in 1 .. Size
         PROVE  (\E h \in ServedGroups : left[h] = b) \/ (\E s \in new : Within(b, s))
    <3>1. CASE b = a
      BY <1>1, <2>4, <2>5, <3>1
    <3>2. CASE b # a /\ \E h \in ServedGroups : res[h] = b
      BY <1>2, <3>2 DEF a
    <3>3. CASE \E s \in rs : Within(b, s)
      BY <2>4, <2>5, <3>3
    <3> QED BY <3>1, <3>2, <3>3 DEF Divided
  <2> QED BY <1>2, <2>7, <2>8, <2>9, <2>10, <2>11 DEF Divided, new, left, a
<1>6. CASE ~\E r \in rs : r[2] = a - 1
  <2>3. new = rs \cup {<<a, a>>}
    BY <1>6 DEF Restored
  <2>4. \A b \in Int : Within(b, <<a, a>>) <=> b = a
    BY <1>1 DEF Within
  <2>5. <<a, a>> \in Int \X Int /\ 1 <= a /\ a <= Size
    BY <1>1
  <2> HIDE DEF new, left, a
  <2>7. new \subseteq Int \X Int /\ \A s \in new : 1 <= s[1] /\ s[1] <= s[2] /\ s[2] <= Size
    BY <1>1, <1>3, <2>3, <2>5
  <2>8. ASSUME NEW s \in new, NEW t \in new, NEW b \in 1 .. Size, Within(b, s), Within(b, t)
        PROVE  s = t
    <3>1. \A u \in rs : Within(b, u) => b # a
      BY <1>3
    <3>2. \A u, w \in rs : Within(b, u) /\ Within(b, w) => u = w
      BY DEF Divided
    <3> QED BY <2>3, <2>4, <2>8, <3>1, <3>2
  <2>9. \A h, k \in ServedGroups : left[h] = left[k] /\ left[h] # NoOne => h = k
    BY <1>2 DEF Divided
  <2>10. \A h \in ServedGroups : \A s \in new : left[h] # NoOne => ~Within(left[h], s)
    <3>1. \A h \in ServedGroups : left[h] # NoOne => left[h] = res[h] /\ res[h] # a /\ res[h] \in Int
      BY <1>2 DEF Divided, a
    <3>2. \A h \in ServedGroups : \A s \in rs : left[h] # NoOne => ~Within(left[h], s)
      BY <3>1 DEF Divided
    <3> QED BY <2>3, <2>4, <3>1, <3>2
  <2>11. ASSUME NEW b \in 1 .. Size
         PROVE  (\E h \in ServedGroups : left[h] = b) \/ (\E s \in new : Within(b, s))
    <3>1. CASE b = a
      BY <1>1, <2>3, <2>4, <3>1
    <3>2. CASE b # a /\ \E h \in ServedGroups : res[h] = b
      BY <1>2, <3>2 DEF a
    <3>3. CASE \E s \in rs : Within(b, s)
      BY <2>3, <3>3
    <3> QED BY <3>1, <3>2, <3>3 DEF Divided
  <2> QED BY <1>2, <2>7, <2>8, <2>9, <2>10, <2>11 DEF Divided, new, left, a
<1> QED BY <1>5, <1>6

\* The last address of a pool that has another is reserved.
LEMMA TakenDivided ==
  ASSUME ServiceConstants, NEW rs, NEW res, Divided(rs, res), NEW g \in ServedGroups, res[g] = NoOne,
         NEW r \in rs, r[1] # r[2]
  PROVE  Divided((rs \ {r}) \cup {<<r[1], r[2] - 1>>}, [res EXCEPT ![g] = r[2]])
<1> DEFINE a == r[2]
           cut == <<r[1], r[2] - 1>>
           new == (rs \ {r}) \cup {cut}
           left == [res EXCEPT ![g] = a]
<1>1. \A s \in rs : s \in Int \X Int /\ 1 <= s[1] /\ s[1] <= s[2] /\ s[2] <= Size
                    /\ s[1] \in Int /\ s[2] \in Int
  BY DEF Divided
<1>2. a \in 1 .. Size /\ a \in Int /\ Size \in Nat /\ a # NoOne /\ Within(a, r) /\ r[1] <= a - 1
  BY <1>1 DEF ServiceConstants, Within
<1>3. /\ left \in [ServedGroups -> 1 .. Size \cup {NoOne}] /\ left[g] = a
      /\ \A h \in ServedGroups \ {g} : left[h] = res[h]
  BY <1>2 DEF Divided
<1>4. \A b \in Int : Within(b, cut) <=> Within(b, r) /\ b # a
  BY <1>1, <1>2 DEF Within
<1>5. cut \in Int \X Int /\ 1 <= cut[1] /\ cut[1] <= cut[2] /\ cut[2] <= Size
  BY <1>1, <1>2
<1>6. \A s : s \in new <=> (s \in rs /\ s # r) \/ s = cut
  OBVIOUS
<1>7. \A s \in rs : \A b \in 1 .. Size : Within(b, s) /\ Within(b, r) => s = r
  BY DEF Divided
<1> HIDE DEF cut, new, left, a
<1>8. new \subseteq Int \X Int /\ \A s \in new : 1 <= s[1] /\ s[1] <= s[2] /\ s[2] <= Size
  BY <1>1, <1>5, <1>6
<1>9. ASSUME NEW s \in new, NEW t \in new, NEW b \in 1 .. Size, Within(b, s), Within(b, t)
      PROVE  s = t
  <2>1. \A u, w \in rs : Within(b, u) /\ Within(b, w) => u = w
    BY DEF Divided
  <2> QED BY <1>4, <1>6, <1>7, <1>9, <2>1
<1>10. \A h \in ServedGroups \ {g} : res[h] # NoOne => res[h] # a /\ res[h] \in Int
  BY <1>2 DEF Divided
<1>11. \A h, k \in ServedGroups : left[h] = left[k] /\ left[h] # NoOne => h = k
  BY <1>2, <1>3, <1>10 DEF Divided
<1>12. ASSUME NEW h \in ServedGroups, NEW s \in new, left[h] # NoOne
       PROVE  ~Within(left[h], s)
  <2>1. CASE h = g
    BY <1>2, <1>3, <1>4, <1>6, <1>7, <2>1
  <2>2. CASE h # g
    <3>1. left[h] = res[h] /\ res[h] \in Int /\ \A u \in rs : ~Within(res[h], u)
      BY <1>3, <1>10, <1>12, <2>2 DEF Divided
    <3> QED BY <1>4, <1>6, <3>1
  <2> QED BY <2>1, <2>2
<1>13. ASSUME NEW b \in 1 .. Size
       PROVE  (\E h \in ServedGroups : left[h] = b) \/ (\E s \in new : Within(b, s))
  <2>1. CASE b = a
    BY <1>3, <2>1
  <2>2. CASE \E h \in ServedGroups : res[h] = b
    <3>1. PICK h \in ServedGroups : res[h] = b
      BY <2>2
    <3>2. b # NoOne
      BY DEF ServiceConstants
    <3> QED BY <1>3, <3>1, <3>2
  <2>3. CASE b # a /\ \E s \in rs : Within(b, s)
    BY <1>4, <1>6, <2>3
  <2> QED BY <2>1, <2>2, <2>3 DEF Divided
<1> QED BY <1>3, <1>8, <1>9, <1>11, <1>12, <1>13 DEF Divided, cut, new, left, a

\* Each address is held once if allocation pools and reservations divide them.
LEMMA HeldOnce ==
  ASSUME ServiceConstants, NEW rs, NEW res, Divided(rs, res), NEW a \in 1 .. Size
  PROVE  Cardinality({g \in ServedGroups : res[g] = a})
         + Cardinality({r \in rs : r[1] <= a /\ a <= r[2]}) = 1
<1> DEFINE holders == {g \in ServedGroups : res[g] = a}
           around == {r \in rs : r[1] <= a /\ a <= r[2]}
<1>1. around = {r \in rs : Within(a, r)} /\ a # NoOne
  BY DEF Within, ServiceConstants
<1>2. CASE \E g \in ServedGroups : res[g] = a
  <2>1. PICK g \in ServedGroups : res[g] = a
    BY <1>2
  <2>2. holders = {g} /\ around = {}
    BY <1>1, <2>1 DEF Divided
  <2> HIDE DEF holders, around
  <2>3. Cardinality(holders) = 1 /\ Cardinality(around) = 0
    BY <2>2, FS_EmptySet, FS_Singleton
  <2> QED BY <2>3 DEF holders, around
<1>3. CASE ~\E g \in ServedGroups : res[g] = a
  <2>1. PICK r \in rs : Within(a, r)
    BY <1>3 DEF Divided
  <2>2. holders = {} /\ around = {r}
    BY <1>1, <1>3, <2>1 DEF Divided
  <2> HIDE DEF holders, around
  <2>3. Cardinality(holders) = 0 /\ Cardinality(around) = 1
    BY <2>2, FS_EmptySet, FS_Singleton
  <2> QED BY <2>3 DEF holders, around
<1> QED BY <1>2, <1>3

LEMMA LiveRows ==
  ASSUME ServiceConstants, ServedRows
  PROVE  /\ \A g \in ServedGroups : g \in LiveGroups <=> policyOf[g] # NoRow
         /\ LiveGroups \subseteq ServedGroups
         /\ \A g \in LiveGroups : AskedBy(g) = ParamsOf(policyOf[g])
         /\ \A o \in Holders : Asks(o) <=>
              \/ o \in ServedGroups /\ "single" \in AskedBy(o)
              \/ o \in targetRows /\ "pool" \in AskedBy(ServedGroup[o])
         /\ \A g \in ServedGroups : policyOf[g] # NoRow =>
              policyOf[g] \in ServicePolicies \cup {NoOne} /\ ParamsOf(policyOf[g]) \in SUBSET Params
         /\ \A g \in ServedGroups : g \notin ServedTargets
<1>1. /\ \A g \in ServedGroups : g \in LiveGroups <=> policyOf[g] # NoRow
      /\ LiveGroups \subseteq ServedGroups
      /\ \A g \in LiveGroups : AskedBy(g) = ParamsOf(policyOf[g])
      /\ \A g : g \notin LiveGroups => AskedBy(g) = {}
  BY DEF LiveGroups, AskedBy
<1>2. \A g \in ServedGroups : g \notin ServedTargets
  BY DEF ServiceConstants
<1>3. \A g \in ServedGroups : policyOf[g] # NoRow =>
        policyOf[g] \in ServicePolicies \cup {NoOne} /\ ParamsOf(policyOf[g]) \in SUBSET Params
  <2>1. ASSUME NEW v \in ServicePolicies \cup {NoOne}, v = NoOne \/ params[v] # NoOne
        PROVE  ParamsOf(v) \in SUBSET Params
    <3>1. CASE v = NoOne
      BY <3>1 DEF ParamsOf
    <3>2. CASE v # NoOne
      <4>1. v \in ServicePolicies /\ params[v] \in SUBSET Params /\ ParamsOf(v) = params[v]
        BY <2>1, <3>2 DEF ServedRows, ParamsOf
      <4> QED BY <4>1
    <3> QED BY <3>1, <3>2
  <2>2. \A g \in ServedGroups : policyOf[g] # NoRow => policyOf[g] \in ServicePolicies \cup {NoOne}
    BY DEF ServedRows
  <2> QED BY <2>1, <2>2 DEF ServedRows
<1>4. \A o \in Holders : Asks(o) <=>
              \/ o \in ServedGroups /\ "single" \in AskedBy(o)
              \/ o \in targetRows /\ "pool" \in AskedBy(ServedGroup[o])
  BY <1>1, <1>2 DEF Asks, ServedRows
<1> QED BY <1>1, <1>2, <1>3, <1>4

\* Who asks for a floating IP does so by a policy of a group that uses NAT pools.
LEMMA AskingUsesNat ==
  ASSUME ServedRows, NEW o, Asks(o)
  PROVE  \E g \in LiveGroups : UsesNat(ParamsOf(policyOf[g]))
<1>1. CASE o \in LiveGroups /\ "single" \in ParamsOf(policyOf[o])
  BY <1>1 DEF UsesNat
<1>2. CASE o \in targetRows /\ "pool" \in ParamsOf(policyOf[ServedGroup[o]])
  BY <1>2 DEF UsesNat, ServedRows
<1> QED BY <1>1, <1>2 DEF Asks

LEMMA ServiceInvSuffices ==
  ASSUME ServiceConstants, ServiceInv
  PROVE  ServicesAreProvided
<1>0. /\ LiveGroups \subseteq ServedGroups
      /\ \A g \in LiveGroups : AskedBy(g) = ParamsOf(policyOf[g])
      /\ \A o \in Holders : Asks(o) <=>
              \/ o \in ServedGroups /\ "single" \in AskedBy(o)
              \/ o \in targetRows /\ "pool" \in AskedBy(ServedGroup[o])
  BY LiveRows DEF ServiceInv
<1>1. ServiceTypeOK
  BY DEF ServiceInv, ServedRows, AddressesInv, Divided, ServiceTypeOK
<1>2. FipsFollowPolicies
  <2> DEFINE entitled == {o \in ServedGroups : "single" \in AskedBy(o)}
                         \cup {t \in targetRows : "pool" \in AskedBy(ServedGroup[t])}
  <2>1. DOMAIN fips = Holders /\ entitled \subseteq Holders /\ \A o \in Holders : o \in entitled <=> Asks(o)
    BY <1>0 DEF ServiceInv, FipsInv, ServedRows, Holders
  <2> HIDE DEF entitled
  <2>2. /\ \A o \in DOMAIN fips : fips[o] # NoOne => o \in entitled /\ fips[o] \in BlocksOf(attached)
        /\ \A o \in entitled \ refused : fips[o] # NoOne
        /\ entitled # {} => attached # NoOne /\ PoolsOf(attached) # {}
    <3>1. entitled # {} => \E o : Asks(o)
      BY <2>1
    <3> QED BY <2>1, <3>1, AskingUsesNat DEF ServiceInv, FipsInv
  <2> QED BY <2>2 DEF FipsFollowPolicies, entitled
<1>3. ReservedIsApart
  <2>1. \A a \in 1 .. Size : Cardinality({g \in ServedGroups : reserved[g] = a})
                             + Cardinality({r \in ranges : r[1] <= a /\ a <= r[2]}) = 1
    BY HeldOnce DEF ServiceInv, AddressesInv
  <2>2. \A g \in LiveGroups : "self" \in AskedBy(g) /\ g \notin refused <=> reserved[g] # NoOne
    BY <1>0 DEF ServiceInv, AddressesInv, ReservesAddress
  <2> QED BY <2>1, <2>2 DEF ReservedIsApart
<1>4. PoolsHaveSubnets
  BY DEF ServiceInv, NatPoolsInv, PoolsFit, PoolsHaveSubnets, PoolsOf
<1> QED BY <1>1, <1>2, <1>3, <1>4 DEF ServiceInv, QosInv, ServicesAreProvided

\* Policies that nobody uses come and go.
LEMMA PolicyStepKeeps ==
  ASSUME ServiceConstants, ServiceInv, NEW v \in ServicePolicies,
         (\E ps \in SUBSET Params : CreateServicePolicy(v, ps)) \/ DeleteServicePolicy(v)
  PROVE  ServiceInv'
<1>1. /\ UNCHANGED <<natPoolVars, attached, servedVars>>
      /\ \E ps \in (SUBSET Params) \cup {NoOne} :
           /\ params' = [params EXCEPT ![v] = ps] /\ (ps # NoOne => ~({"self", "single"} \subseteq ps))
           /\ qosPolicies' = IF ps # NoOne /\ "qos" \in ps THEN qosPolicies \cup {v} ELSE qosPolicies \ {v}
      /\ \A g \in ServedGroups : policyOf[g] # v
  <2>1. CASE DeleteServicePolicy(v)
    <3>1. /\ UNCHANGED <<natPoolVars, attached, servedVars>>
          /\ params' = [params EXCEPT ![v] = NoOne] /\ qosPolicies' = qosPolicies \ {v}
          /\ \A g \in ServedGroups : policyOf[g] # v
      BY <2>1 DEF DeleteServicePolicy, SetParams
    <3>2. NoOne \in (SUBSET Params) \cup {NoOne}
      OBVIOUS
    <3>3. qosPolicies' = IF NoOne # NoOne /\ "qos" \in NoOne THEN qosPolicies \cup {v} ELSE qosPolicies \ {v}
      BY <3>1
    <3> QED BY <3>1, <3>2, <3>3
  <2>2. ASSUME NEW ps \in SUBSET Params, CreateServicePolicy(v, ps)
        PROVE  /\ UNCHANGED <<natPoolVars, attached, servedVars>>
               /\ params' = [params EXCEPT ![v] = ps] /\ ~({"self", "single"} \subseteq ps) /\ ps # NoOne
               /\ qosPolicies' = IF "qos" \in ps THEN qosPolicies \cup {v} ELSE qosPolicies \ {v}
               /\ \A g \in ServedGroups : policyOf[g] # v
    <3>1. params[v] = NoOne /\ ps # NoOne
      BY <2>2 DEF CreateServicePolicy, ServiceConstants
    <3>2. v \notin qosPolicies /\ \A g \in ServedGroups : policyOf[g] # v
      BY <3>1 DEF ServiceInv, ServedRows
    <3> QED BY <2>2, <3>1, <3>2 DEF CreateServicePolicy, SetParams
  <2> QED BY <2>1, <2>2
<1>2. PICK ps \in (SUBSET Params) \cup {NoOne} :
           /\ params' = [params EXCEPT ![v] = ps] /\ (ps # NoOne => ~({"self", "single"} \subseteq ps))
           /\ qosPolicies' = IF ps # NoOne /\ "qos" \in ps THEN qosPolicies \cup {v} ELSE qosPolicies \ {v}
  BY <1>1
<1>3. UNCHANGED <<natPool, extBlocks>> /\ UNCHANGED <<attached, policyOf, targetRows, fips, reserved, ranges, qosOf, refused>>
  BY <1>1 DEF natPoolVars, servedVars
<1>4. /\ params' \in [ServicePolicies -> (SUBSET Params) \cup {NoOne}] /\ params'[v] = ps
      /\ \A w \in ServicePolicies \ {v} : params'[w] = params[w]
  BY <1>2 DEF ServiceInv, ServedRows
<1>5. LiveGroups' = LiveGroups /\ LiveGroups \subseteq ServedGroups
  BY <1>3 DEF LiveGroups
<1>6. \A g \in LiveGroups : policyOf[g] \in ServicePolicies \cup {NoOne} /\ policyOf[g] # v
  BY <1>1 DEF LiveGroups, ServiceInv, ServedRows
<1>7. \A g \in LiveGroups : ParamsOf(policyOf[g])' = ParamsOf(policyOf[g])
  BY <1>3, <1>4, <1>6 DEF ParamsOf
<1>8. ServedRows'
  <2>1. qosPolicies' = {w \in ServicePolicies : params'[w] # NoOne /\ "qos" \in params'[w]}
    BY <1>2, <1>4 DEF ServiceInv, ServedRows
  <2>2. \A w \in ServicePolicies : params'[w] # NoOne => ~({"self", "single"} \subseteq params'[w])
    BY <1>2, <1>4 DEF ServiceInv, ServedRows
  <2>3. \A g \in ServedGroups : policyOf'[g] \in ServicePolicies => params'[policyOf'[g]] # NoOne
    BY <1>1, <1>3, <1>4 DEF ServiceInv, ServedRows
  <2> QED BY <1>3, <1>4, <1>5, <2>1, <2>2, <2>3 DEF ServiceInv, ServedRows
<1>9. \A t \in targetRows : ServedGroup[t] \in LiveGroups
  BY DEF ServiceInv, ServedRows
<1>10. \A o : Asks(o)' <=> Asks(o)
  BY <1>3, <1>5, <1>7, <1>9 DEF Asks
<1>11. FipsInv'
  <2>1. BlocksOf(attached)' = BlocksOf(attached) /\ PoolsOf(attached)' = PoolsOf(attached)
    BY <1>3 DEF BlocksOf, PoolsOf
  <2> QED BY <1>3, <1>5, <1>7, <1>10, <2>1 DEF ServiceInv, FipsInv
<1>12. AddressesInv'
  <2>1. \A g : ReservesAddress(g)' <=> ReservesAddress(g)
    BY <1>3, <1>5, <1>7 DEF ReservesAddress
  <2> QED BY <1>3, <2>1 DEF ServiceInv, AddressesInv, Divided
<1>13. NatPoolsInv'
  BY <1>3 DEF ServiceInv, NatPoolsInv, PoolsFit
<1>14. QosInv'
  <2>1. \A t \in targetRows : ParamsOf(policyOf[ServedGroup[t]])' = ParamsOf(policyOf[ServedGroup[t]])
    BY <1>7, <1>9
  <2>2. \A w \in qosPolicies : w # v => w \in qosPolicies'
    BY <1>2
  <2>3. \A t \in targetRows : policyOf[ServedGroup[t]] # v
    BY <1>6, <1>9
  <2> QED BY <1>3, <2>1, <2>2, <2>3 DEF ServiceInv, QosInv, QosFollowsPolicies
<1> QED BY <1>8, <1>11, <1>12, <1>13, <1>14 DEF ServiceInv

\* What a policy gives the group and its targets, once what another policy gave is
\* cleaned up, is what the policy asks for.
LEMMA HandleKeeps ==
  ASSUME ServiceConstants, ServiceInv, NEW g \in ServedGroups, NEW v \in ServicePolicies \cup {NoOne},
         v # NoOne => params[v] # NoOne, NatIsProvided(v),
         policyOf' = [policyOf EXCEPT ![g] = v],
         UNCHANGED <<natPool, extBlocks>>, UNCHANGED <<params, qosPolicies, attached, targetRows>>,
         NEW f \in [Holders -> PoolSubnets \cup {NoOne}],
         \A o \in Holders : f[o] = IF o \in Owners(g) THEN NoOne ELSE fips[o],
         NEW rs, NEW res, Divided(rs, res), res = [reserved EXCEPT ![g] = NoOne],
         NEW q, \A t \in ServedTargets : q[t] = IF t \in TargetsOf(g) THEN NoOne ELSE qosOf[t],
         Handle(g, v, f, rs, q)
  PROVE  ServiceInv'
<1> DEFINE ps == ParamsOf(v)
           asking == (IF "single" \in ps THEN {g} ELSE {}) \cup (IF "pool" \in ps THEN TargetsOf(g) ELSE {})
           reserves == "self" \in ps
<1>1. /\ LiveGroups \subseteq ServedGroups
      /\ \A h \in ServedGroups : h \in LiveGroups <=> policyOf[h] # NoRow
      /\ \A h \in ServedGroups : h \notin ServedTargets
  BY LiveRows DEF ServiceInv
<1>2. /\ policyOf' \in [ServedGroups -> ServicePolicies \cup {NoOne, NoRow}] /\ policyOf'[g] = v
      /\ \A h \in ServedGroups \ {g} : policyOf'[h] = policyOf[h]
      /\ v # NoRow
  BY DEF ServiceInv, ServedRows, ServiceConstants
<1>3. LiveGroups' = LiveGroups \cup {g} /\ \A h \in LiveGroups' \ {g} : h \in LiveGroups
  <2>1. LiveGroups' = {h \in ServedGroups : policyOf'[h] # NoRow}
    BY DEF LiveGroups
  <2> QED BY <1>1, <1>2, <2>1
<1>4. \A w : ParamsOf(w)' = ParamsOf(w)
  BY DEF ParamsOf
<1>5. /\ TargetsOf(g) \subseteq targetRows /\ targetRows \subseteq ServedTargets
      /\ \A t \in targetRows : ServedGroup[t] \in LiveGroups /\ (t \in TargetsOf(g) <=> ServedGroup[t] = g)
  BY DEF TargetsOf, ServiceInv, ServedRows
<1>6. /\ asking \subseteq Owners(g) /\ Owners(g) \subseteq Holders /\ Owners(g) = {g} \cup TargetsOf(g)
      /\ asking \subseteq Holders
  BY <1>5 DEF Owners, Holders
<1>7. PICK r \in IF reserves THEN rs ELSE {<<0, 1>>} :
        LET fails == r[1] = r[2]
        IN /\ fips' \in IF fails THEN {f} ELSE Allocated(f, asking)
           /\ ranges' = IF reserves /\ ~fails THEN (rs \ {r}) \cup {<<r[1], r[2] - 1>>} ELSE rs
           /\ reserved' = [reserved EXCEPT ![g] = IF reserves /\ ~fails THEN r[2] ELSE NoOne]
           /\ qosOf' = [t \in ServedTargets |->
                         IF "qos" \in ps /\ ~fails /\ t \in TargetsOf(g) THEN v ELSE q[t]]
           /\ refused' = (refused \ Owners(g))
                         \cup (IF fails THEN Owners(g) ELSE {o \in asking : fips'[o] = NoOne})
  BY DEF Handle
<1> DEFINE broken == r[1] = r[2]
<1>8. /\ fips' \in IF broken THEN {f} ELSE Allocated(f, asking)
      /\ ranges' = IF reserves /\ ~broken THEN (rs \ {r}) \cup {<<r[1], r[2] - 1>>} ELSE rs
      /\ reserved' = [reserved EXCEPT ![g] = IF reserves /\ ~broken THEN r[2] ELSE NoOne]
      /\ qosOf' = [t \in ServedTargets |->
                     IF "qos" \in ps /\ ~broken /\ t \in TargetsOf(g) THEN v ELSE q[t]]
      /\ refused' = (refused \ Owners(g))
                    \cup (IF broken THEN Owners(g) ELSE {o \in asking : fips'[o] = NoOne})
  BY <1>7
<1>9. (~reserves => ~broken) /\ (reserves => r \in rs)
  BY <1>7
<1>10. /\ fips' \in [Holders -> PoolSubnets \cup {NoOne}]
       /\ \A o \in Holders : broken \/ o \notin asking => fips'[o] = f[o]
       /\ \A o \in asking : ~broken => fips'[o] \in BlocksOf(attached) \cup {NoOne}
  <2>1. CASE broken
    <3>1. fips' = f
      BY <1>8, <2>1
    <3> QED BY <2>1, <3>1
  <2>2. CASE ~broken
    <3>1. fips' \in Allocated(f, asking) /\ NatPoolsInv /\ asking \in SUBSET Holders
      BY <1>6, <1>8, <2>2 DEF ServiceInv
    <3> HIDE DEF asking, broken
    <3>2. /\ fips' \in [Holders -> PoolSubnets \cup {NoOne}]
          /\ \A o \in Holders : /\ o \notin asking => fips'[o] = f[o]
                                /\ o \in asking => fips'[o] \in BlocksOf(attached) \cup {NoOne}
      BY <3>1, AllocatedMeans
    <3> QED BY <1>6, <2>2, <3>2
  <2> QED BY <2>1, <2>2
<1>11. /\ refused' \subseteq LiveGroups' \cup targetRows
       /\ (broken => Owners(g) \subseteq refused')
       /\ \A o \in Holders \ Owners(g) : o \in refused' <=> o \in refused
       /\ (~broken => \A o \in Owners(g) : o \in refused' <=> o \in asking /\ fips'[o] = NoOne)
  <2>1. refused \subseteq LiveGroups \cup targetRows
    BY DEF ServiceInv, ServedRows
  <2>2. Owners(g) \subseteq LiveGroups' \cup targetRows
    BY <1>3, <1>5, <1>6
  <2> HIDE DEF asking, broken
  <2> QED BY <1>3, <1>6, <1>8, <2>1, <2>2
<1>12. ServedRows'
  <2>1. \A h \in ServedGroups : policyOf'[h] \in ServicePolicies => params[policyOf'[h]] # NoOne
    <3>1. v \in ServicePolicies => v # NoOne
      BY DEF ServiceConstants
    <3> QED BY <1>2, <3>1 DEF ServiceInv, ServedRows
  <2>2. \A t \in targetRows : ServedGroup[t] \in LiveGroups'
    BY <1>3, <1>5
  <2> QED BY <1>2, <1>11, <2>1, <2>2 DEF ServiceInv, ServedRows
<1>13. ASSUME NEW o \in Holders \ Owners(g)
       PROVE  Asks(o)' <=> Asks(o)
  <2>1. o \in LiveGroups' <=> o \in LiveGroups
    BY <1>3, <1>6
  <2>2. o \in LiveGroups => policyOf'[o] = policyOf[o]
    BY <1>1, <1>2, <1>6
  <2>3. o \in targetRows => policyOf'[ServedGroup[o]] = policyOf[ServedGroup[o]]
    BY <1>1, <1>2, <1>5, <1>6
  <2> QED BY <1>4, <2>1, <2>2, <2>3 DEF Asks
<1>14. ASSUME NEW o \in Owners(g)
       PROVE  Asks(o)' <=> o \in asking
  <2>1. CASE o = g
    <3>1. g \in LiveGroups' /\ g \notin targetRows /\ g \notin TargetsOf(g) /\ policyOf'[g] = v
      BY <1>1, <1>2, <1>3, <1>5
    <3> QED BY <1>4, <2>1, <3>1 DEF Asks
  <2>2. CASE o \in TargetsOf(g)
    <3>1. o \in targetRows /\ ServedGroup[o] = g /\ o # g /\ o \notin LiveGroups' /\ policyOf'[ServedGroup[o]] = v
      BY <1>1, <1>2, <1>3, <1>5, <2>2
    <3> QED BY <1>4, <2>2, <3>1 DEF Asks
  <2> QED BY <1>6, <2>1, <2>2
<1>15. BlocksOf(attached)' = BlocksOf(attached) /\ PoolsOf(attached)' = PoolsOf(attached)
  BY DEF BlocksOf, PoolsOf
<1>16. FipsInv'
  <2> HIDE DEF asking, broken
  <2>1. ASSUME NEW o \in Holders, fips'[o] # NoOne
        PROVE  Asks(o)' /\ fips'[o] \in BlocksOf(attached)
    <3>1. CASE o \in asking /\ ~broken
      BY <1>6, <1>10, <1>14, <2>1, <3>1
    <3>2. CASE o \notin asking \/ broken
      <4>1. fips'[o] = f[o] /\ o \notin Owners(g) /\ f[o] = fips[o]
        BY <1>10, <2>1, <3>2
      <4>2. Asks(o) /\ fips[o] \in BlocksOf(attached)
        BY <2>1, <4>1 DEF ServiceInv, FipsInv
      <4> QED BY <1>13, <4>1, <4>2
    <3> QED BY <3>1, <3>2
  <2>2. ASSUME NEW o \in Holders, Asks(o)', o \notin refused'
        PROVE  fips'[o] # NoOne
    <3>1. CASE o \in Owners(g)
      BY <1>11, <1>14, <2>2, <3>1
    <3>2. CASE o \notin Owners(g)
      <4>1. Asks(o) /\ o \notin refused
        BY <1>11, <1>13, <2>2, <3>2
      <4>2. fips[o] # NoOne /\ o \notin asking
        BY <1>6, <3>2, <4>1 DEF ServiceInv, FipsInv
      <4> QED BY <1>10, <3>2, <4>2
    <3> QED BY <3>1, <3>2
  <2>3. ASSUME NEW h \in LiveGroups', UsesNat(ParamsOf(policyOf'[h]))
        PROVE  attached # NoOne /\ PoolsOf(attached) # {}
    <3>1. CASE h = g
      BY <1>2, <2>3, <3>1 DEF NatIsProvided
    <3>2. CASE h # g
      BY <1>1, <1>2, <1>3, <2>3, <3>2 DEF ServiceInv, FipsInv
    <3> QED BY <3>1, <3>2
  <2> QED BY <1>4, <1>10, <1>15, <2>1, <2>2, <2>3 DEF FipsInv
<1>17. AddressesInv'
  <2>0. g \in Owners(g) /\ res \in [ServedGroups -> 1 .. Size \cup {NoOne}] /\ res[g] = NoOne
        /\ reserved \in [ServedGroups -> 1 .. Size \cup {NoOne}]
        /\ \A h \in ServedGroups \ {g} : res[h] = reserved[h] /\ h \notin Owners(g)
    BY <1>1, <1>5, <1>6 DEF ServiceInv, AddressesInv, Divided
  <2>1. \A h \in ServedGroups \ {g} : reserved'[h] = reserved[h] /\ (ReservesAddress(h)' <=> ReservesAddress(h))
    <3>1. ASSUME NEW h \in ServedGroups \ {g}
          PROVE  reserved'[h] = reserved[h] /\ (ReservesAddress(h)' <=> ReservesAddress(h))
      <4>1. h \in refused' <=> h \in refused
        BY <1>11, <2>0 DEF Holders
      <4>2. h \in LiveGroups' <=> h \in LiveGroups
        BY <1>3
      <4>3. policyOf'[h] = policyOf[h]
        BY <1>2
      <4>4. reserved'[h] = reserved[h]
        BY <1>8, <2>0
      <4> QED BY <1>4, <4>1, <4>2, <4>3, <4>4 DEF ReservesAddress
    <3> QED BY <3>1
  <2>2. ReservesAddress(g)' <=> reserves /\ g \notin refused'
    BY <1>2, <1>3, <1>4 DEF ReservesAddress
  <2>3. CASE reserves /\ ~broken
    <3>1. ranges' = (rs \ {r}) \cup {<<r[1], r[2] - 1>>} /\ reserved' = [res EXCEPT ![g] = r[2]]
      BY <1>8, <2>0, <2>3
    <3>2. Divided(ranges', reserved')
      BY <1>9, <2>0, <2>3, <3>1, TakenDivided
    <3>3. reserved'[g] # NoOne
      <4>1. reserved'[g] = r[2]
        BY <2>0, <3>1
      <4>2. r[2] \in Nat
        BY <1>9, <2>3 DEF Divided
      <4> QED BY <4>1, <4>2 DEF ServiceConstants
    <3>4. g \notin asking
      <4>1. "single" \notin ps
        <5>1. ps = {} \/ (v \in ServicePolicies /\ ps = params[v] /\ params[v] # NoOne)
          BY DEF ParamsOf
        <5> QED BY <2>3, <5>1 DEF ServiceInv, ServedRows
      <4> QED BY <1>1, <1>5, <4>1
    <3>5. g \notin refused'
      BY <1>11, <2>0, <2>3, <3>4
    <3>6. \A h \in ServedGroups : reserved'[h] # NoOne <=> ReservesAddress(h)'
      BY <2>1, <2>2, <2>3, <3>3, <3>5 DEF ServiceInv, AddressesInv
    <3> QED BY <3>2, <3>6 DEF AddressesInv, Divided
  <2>4. CASE ~(reserves /\ ~broken)
    <3>1. ranges' = rs /\ reserved' = res
      BY <1>8, <2>4
    <3>2. reserves => g \in refused'
      BY <1>11, <2>0, <2>4
    <3>3. \A h \in ServedGroups : reserved'[h] # NoOne <=> ReservesAddress(h)'
      BY <2>0, <2>1, <2>2, <3>1, <3>2 DEF ServiceInv, AddressesInv
    <3> QED BY <3>1, <3>3 DEF AddressesInv, Divided
  <2> QED BY <2>3, <2>4
<1>18. NatPoolsInv'
  BY DEF ServiceInv, NatPoolsInv, PoolsFit
<1>19. QosInv'
  <2>1. v \in ServicePolicies /\ "qos" \in ps => v \in qosPolicies
    <3>1. v \in ServicePolicies => v # NoOne /\ ps = params[v]
      BY DEF ParamsOf, ServiceConstants
    <3> QED BY <3>1 DEF ServiceInv, ServedRows
  <2>2. "qos" \in ps => v \in ServicePolicies
    BY DEF ParamsOf
  <2>3. qosOf' \in [ServedTargets -> ServicePolicies \cup {NoOne}]
    BY <1>8 DEF ServiceInv, QosInv
  <2>4. ASSUME NEW t \in targetRows
        PROVE  LET w == policyOf'[ServedGroup[t]]
               IN IF "qos" \in ParamsOf(w) THEN t \notin refused' => qosOf'[t] = w /\ w \in qosPolicies
                  ELSE qosOf'[t] = NoOne
    <3>1. CASE t \in TargetsOf(g)
      <4>1. policyOf'[ServedGroup[t]] = v /\ q[t] = NoOne /\ t \in Owners(g) /\ t \in ServedTargets
        BY <1>2, <1>5, <1>6, <3>1
      <4>2. qosOf'[t] = IF "qos" \in ps /\ ~broken THEN v ELSE NoOne
        BY <1>8, <3>1, <4>1
      <4>3. broken => t \in refused'
        BY <1>11, <4>1
      <4> HIDE DEF broken
      <4> QED BY <2>1, <2>2, <4>1, <4>2, <4>3
    <3>2. CASE t \notin TargetsOf(g)
      <4>1. /\ policyOf'[ServedGroup[t]] = policyOf[ServedGroup[t]] /\ qosOf'[t] = qosOf[t]
            /\ t \in Holders \ Owners(g)
        BY <1>1, <1>2, <1>5, <1>6, <1>8, <3>2 DEF Holders
      <4>2. t \in refused' <=> t \in refused
        BY <1>11, <4>1
      <4> QED BY <4>1, <4>2 DEF ServiceInv, QosInv, QosFollowsPolicies
    <3> QED BY <3>1, <3>2
  <2> QED BY <1>4, <2>3, <2>4 DEF QosInv, QosFollowsPolicies
<1> QED BY <1>12, <1>16, <1>17, <1>18, <1>19 DEF ServiceInv

\* Without a policy a group and its targets have nothing; with one, what the clean-up
\* leaves of it is nothing.
LEMMA CleanedUp ==
  ASSUME ServiceConstants, ServiceInv, NEW g \in ServedGroups
  PROVE  /\ CleanFips(g) \in [Holders -> PoolSubnets \cup {NoOne}]
         /\ \A o \in Holders : CleanFips(g)[o] = IF o \in Owners(g) THEN NoOne ELSE fips[o]
         /\ Divided(CleanRanges(g), [reserved EXCEPT ![g] = NoOne])
         /\ \A t \in ServedTargets : CleanQos(g)[t] = IF t \in TargetsOf(g) THEN NoOne ELSE qosOf[t]
         /\ g \notin LiveGroups \/ policyOf[g] = NoOne =>
              CleanFips(g) = fips /\ CleanRanges(g) = ranges /\ CleanQos(g) = qosOf
<1>1. /\ fips \in [Holders -> PoolSubnets \cup {NoOne}]
      /\ reserved \in [ServedGroups -> 1 .. Size \cup {NoOne}] /\ Divided(ranges, reserved)
      /\ qosOf \in [ServedTargets -> ServicePolicies \cup {NoOne}]
  BY DEF ServiceInv, FipsInv, AddressesInv, QosInv, Divided
<1>2. /\ CleanFips(g) = [o \in Holders |-> IF o \in Owners(g) THEN NoOne ELSE fips[o]]
      /\ CleanQos(g) = [t \in ServedTargets |-> IF t \in TargetsOf(g) THEN NoOne ELSE qosOf[t]]
  BY <1>1 DEF CleanFips, CleanQos
<1>3. Divided(CleanRanges(g), [reserved EXCEPT ![g] = NoOne])
  <2>1. CASE reserved[g] = NoOne
    <3>1. [reserved EXCEPT ![g] = NoOne] = reserved /\ CleanRanges(g) = ranges
      BY <1>1, <2>1 DEF CleanRanges
    <3> QED BY <1>1, <3>1
  <2>2. CASE reserved[g] # NoOne
    <3>1. CleanRanges(g) = Restored(ranges, reserved[g])
      BY <2>2 DEF CleanRanges
    <3>2. Divided(Restored(ranges, reserved[g]), [reserved EXCEPT ![g] = NoOne])
      BY <1>1, <2>2, RestoredDivided
    <3> QED BY <3>1, <3>2
  <2> QED BY <2>1, <2>2
<1>4. ASSUME g \notin LiveGroups \/ policyOf[g] = NoOne
      PROVE  CleanFips(g) = fips /\ CleanRanges(g) = ranges /\ CleanQos(g) = qosOf
  <2>0. /\ \A t \in targetRows : ServedGroup[t] \in LiveGroups /\ t \in ServedTargets
        /\ LiveGroups \subseteq ServedGroups /\ \A h \in ServedGroups : h \notin ServedTargets
    BY LiveRows DEF ServiceInv, ServedRows
  <2>1. \A t \in TargetsOf(g) : t \in targetRows /\ ServedGroup[t] = g /\ policyOf[g] = NoOne
    BY <1>4, <2>0 DEF TargetsOf
  <2>2. policyOf[g] = NoOne => ParamsOf(policyOf[g]) = {}
    BY DEF ParamsOf
  <2>3. \A o \in Owners(g) : o \in Holders /\ ~Asks(o)
    BY <1>4, <2>0, <2>1, <2>2 DEF Owners, Holders, Asks
  <2>4. \A o \in Owners(g) : fips[o] = NoOne
    BY <2>3 DEF ServiceInv, FipsInv
  <2>5. \A t \in TargetsOf(g) : qosOf[t] = NoOne
    BY <2>1, <2>2 DEF ServiceInv, QosInv, QosFollowsPolicies
  <2>6. reserved[g] = NoOne
    BY <1>4, <2>2 DEF ServiceInv, AddressesInv, ReservesAddress
  <2>7. CleanFips(g) = fips
    BY <1>1, <1>2, <2>4
  <2>8. CleanQos(g) = qosOf
    BY <1>1, <1>2, <2>5
  <2> QED BY <2>6, <2>7, <2>8 DEF CleanRanges
<1>5. CleanFips(g) \in [Holders -> PoolSubnets \cup {NoOne}]
  BY <1>1, <1>2
<1> QED BY <1>2, <1>3, <1>4, <1>5

LEMMA GroupStepKeeps ==
  ASSUME ServiceConstants, ServiceInv, NEW g \in ServedGroups, NEW v \in ServicePolicies \cup {NoOne},
         CreateServedGroup(g, v) \/ SetServicePolicy(g, v)
  PROVE  ServiceInv'
<1>1. /\ Known(v) /\ NatIsProvided(v) /\ policyOf' = [policyOf EXCEPT ![g] = v]
      /\ UNCHANGED <<natPoolVars, policyVars, attached, targetRows>>
      /\ IF g \notin LiveGroups \/ policyOf[g] = NoOne THEN Handle(g, v, fips, ranges, qosOf)
         ELSE Handle(g, v, CleanFips(g), CleanRanges(g), CleanQos(g))
  BY DEF CreateServedGroup, SetServicePolicy
<1>2. UNCHANGED <<natPool, extBlocks>> /\ UNCHANGED <<params, qosPolicies, attached, targetRows>>
  BY <1>1 DEF natPoolVars, policyVars
<1>3. v # NoOne => params[v] # NoOne
  BY <1>1 DEF Known
<1>4. /\ CleanFips(g) \in [Holders -> PoolSubnets \cup {NoOne}]
      /\ \A o \in Holders : CleanFips(g)[o] = IF o \in Owners(g) THEN NoOne ELSE fips[o]
      /\ Divided(CleanRanges(g), [reserved EXCEPT ![g] = NoOne])
      /\ \A t \in ServedTargets : CleanQos(g)[t] = IF t \in TargetsOf(g) THEN NoOne ELSE qosOf[t]
      /\ g \notin LiveGroups \/ policyOf[g] = NoOne =>
           CleanFips(g) = fips /\ CleanRanges(g) = ranges /\ CleanQos(g) = qosOf
  BY CleanedUp
<1>5. Handle(g, v, CleanFips(g), CleanRanges(g), CleanQos(g))
  BY <1>1, <1>4
<1> QED BY <1>1, <1>2, <1>3, <1>4, <1>5, HandleKeeps

\* What is left when a group is deleted, or a target comes or goes.
LEMMA DeleteServedGroupKeeps ==
  ASSUME ServiceConstants, ServiceInv, NEW g \in ServedGroups, DeleteServedGroup(g)
  PROVE  ServiceInv'
<1>1. /\ g \in LiveGroups /\ TargetsOf(g) = {} /\ policyOf' = [policyOf EXCEPT ![g] = NoRow]
      /\ fips' = CleanFips(g) /\ ranges' = CleanRanges(g)
      /\ reserved' = [reserved EXCEPT ![g] = NoOne] /\ refused' = refused \ {g}
  BY DEF DeleteServedGroup
<1>2. UNCHANGED <<natPool, extBlocks>> /\ UNCHANGED <<params, qosPolicies, attached, targetRows, qosOf>>
  BY DEF DeleteServedGroup, natPoolVars, policyVars
<1>3. /\ CleanFips(g) \in [Holders -> PoolSubnets \cup {NoOne}]
      /\ \A o \in Holders : CleanFips(g)[o] = IF o \in Owners(g) THEN NoOne ELSE fips[o]
      /\ Divided(CleanRanges(g), [reserved EXCEPT ![g] = NoOne])
  BY CleanedUp
<1>4. Owners(g) = {g}
  BY <1>1 DEF Owners
<1>5. /\ LiveGroups \subseteq ServedGroups /\ \A h \in ServedGroups : h \in LiveGroups <=> policyOf[h] # NoRow
      /\ \A h \in ServedGroups : h \notin ServedTargets
  BY LiveRows DEF ServiceInv
<1>6. /\ policyOf' \in [ServedGroups -> ServicePolicies \cup {NoOne, NoRow}] /\ policyOf'[g] = NoRow
      /\ \A h \in ServedGroups \ {g} : policyOf'[h] = policyOf[h]
  BY <1>1 DEF ServiceInv, ServedRows
<1>7. LiveGroups' = LiveGroups \ {g}
  <2>1. LiveGroups' = {h \in ServedGroups : policyOf'[h] # NoRow}
    BY DEF LiveGroups
  <2> QED BY <1>5, <1>6, <2>1
<1>8. \A w : ParamsOf(w)' = ParamsOf(w)
  BY <1>2 DEF ParamsOf
<1>9. \A t \in targetRows : /\ ServedGroup[t] \in LiveGroups \ {g} /\ t \in ServedTargets
                             /\ policyOf'[ServedGroup[t]] = policyOf[ServedGroup[t]]
  <2>1. \A t \in targetRows : ServedGroup[t] \in LiveGroups \ {g} /\ t \in ServedTargets
    BY <1>1 DEF TargetsOf, ServiceInv, ServedRows
  <2> QED BY <1>5, <1>6, <2>1
<1>10. ServedRows'
  <2>1. refused' \subseteq LiveGroups' \cup targetRows
    BY <1>1, <1>7 DEF ServiceInv, ServedRows
  <2>2. \A h \in ServedGroups : policyOf'[h] \in ServicePolicies => params[policyOf'[h]] # NoOne
    BY <1>6 DEF ServiceInv, ServedRows, ServiceConstants
  <2> QED BY <1>2, <1>6, <1>7, <1>9, <2>1, <2>2 DEF ServiceInv, ServedRows
<1>11. \A o \in Holders : Asks(o)' <=> Asks(o) /\ o # g
  <2>1. ASSUME NEW o \in Holders
        PROVE  Asks(o)' <=> Asks(o) /\ o # g
    <3>1. o \in targetRows => o # g
      BY <1>5, <1>9
    <3>2. o \in LiveGroups' <=> o \in LiveGroups /\ o # g
      BY <1>7
    <3>3. o \in LiveGroups' => policyOf'[o] = policyOf[o]
      BY <1>5, <1>6, <3>2
    <3> QED BY <1>2, <1>8, <1>9, <3>1, <3>2, <3>3 DEF Asks
  <2> QED BY <2>1
<1>12. FipsInv'
  <2>0. \A h \in LiveGroups' : UsesNat(ParamsOf(policyOf'[h])) => attached # NoOne /\ PoolsOf(attached) # {}
    BY <1>5, <1>6, <1>7 DEF ServiceInv, FipsInv
  <2>1. BlocksOf(attached)' = BlocksOf(attached) /\ PoolsOf(attached)' = PoolsOf(attached)
    BY <1>2 DEF BlocksOf, PoolsOf
  <2>2. \A o \in Holders : fips'[o] = IF o = g THEN NoOne ELSE fips[o]
    BY <1>1, <1>3, <1>4
  <2> QED BY <1>1, <1>2, <1>3, <1>8, <1>11, <2>0, <2>1, <2>2 DEF ServiceInv, FipsInv
<1>13. AddressesInv'
  <2>1. \A h \in ServedGroups \ {g} : reserved'[h] = reserved[h] /\ (ReservesAddress(h)' <=> ReservesAddress(h))
    BY <1>1, <1>6, <1>7, <1>8 DEF ReservesAddress, ServiceInv, AddressesInv, Divided
  <2>2. reserved'[g] = NoOne /\ ~ReservesAddress(g)'
    BY <1>1, <1>7 DEF ReservesAddress, ServiceInv, AddressesInv, Divided
  <2>3. \A h \in ServedGroups : reserved'[h] # NoOne <=> ReservesAddress(h)'
    BY <2>1, <2>2 DEF ServiceInv, AddressesInv
  <2> QED BY <1>1, <1>3, <2>3 DEF AddressesInv, Divided
<1>14. NatPoolsInv'
  BY <1>2 DEF ServiceInv, NatPoolsInv, PoolsFit
<1>15. QosInv'
  <2>1. \A t \in targetRows : t \in refused' <=> t \in refused
    BY <1>1, <1>5, <1>9
  <2> QED BY <1>2, <1>8, <1>9, <2>1 DEF ServiceInv, QosInv, QosFollowsPolicies
<1> QED BY <1>10, <1>12, <1>13, <1>14, <1>15 DEF ServiceInv

LEMMA TargetStepKeeps ==
  ASSUME ServiceConstants, ServiceInv, NEW t \in ServedTargets,
         CreateServedTarget(t) \/ DeleteServedTarget(t)
  PROVE  ServiceInv'
<1> DEFINE g == ServedGroup[t]
           ps == ParamsOf(policyOf[g])
<1>1. /\ UNCHANGED <<natPool, extBlocks>>
      /\ UNCHANGED <<params, qosPolicies, attached, policyOf, reserved, ranges>>
  BY DEF CreateServedTarget, DeleteServedTarget, natPoolVars, policyVars
<1>2. /\ LiveGroups \subseteq ServedGroups /\ \A h \in ServedGroups : h \in LiveGroups <=> policyOf[h] # NoRow
      /\ \A h \in ServedGroups : h \notin ServedTargets
      /\ fips \in [Holders -> PoolSubnets \cup {NoOne}] /\ t \in Holders
      /\ qosOf \in [ServedTargets -> ServicePolicies \cup {NoOne}]
  BY LiveRows DEF ServiceInv, FipsInv, QosInv, Holders
<1>3. LiveGroups' = LiveGroups /\ \A w : ParamsOf(w)' = ParamsOf(w)
  BY <1>1 DEF LiveGroups, ParamsOf
\* Whether the target comes or goes, it alone is touched.
<1>4. /\ fips' \in [Holders -> PoolSubnets \cup {NoOne}]
      /\ qosOf' \in [ServedTargets -> ServicePolicies \cup {NoOne}]
      /\ targetRows' \subseteq targetRows \cup {t} /\ targetRows \subseteq targetRows' \cup {t}
      /\ refused' \subseteq refused \cup {t} /\ refused \subseteq refused' \cup {t}
      /\ t \in refused' => t \in targetRows'
      /\ \A o \in Holders \ {t} : fips'[o] = fips[o]
      /\ \A u \in ServedTargets \ {t} : qosOf'[u] = qosOf[u]
      /\ t \in targetRows' => /\ g \in LiveGroups
                              /\ fips'[t] # NoOne => "pool" \in ps /\ fips'[t] \in BlocksOf(attached)
                              /\ "pool" \in ps /\ t \notin refused' => fips'[t] # NoOne
                              /\ qosOf'[t] = IF "qos" \in ps THEN policyOf[g] ELSE NoOne
      /\ t \notin targetRows' => fips'[t] = NoOne
  <2>1. CASE DeleteServedTarget(t)
    <3>1. /\ targetRows' = targetRows \ {t} /\ refused' = refused \ {t}
          /\ fips' = [fips EXCEPT ![t] = NoOne] /\ qosOf' = [qosOf EXCEPT ![t] = NoOne]
      BY <2>1 DEF DeleteServedTarget
    <3> QED BY <1>2, <3>1
  <2>2. CASE CreateServedTarget(t)
    <3> DEFINE asking == IF "pool" \in ps THEN {t} ELSE {}
    <3>1. /\ t \notin targetRows /\ g \in LiveGroups /\ targetRows' = targetRows \cup {t}
          /\ fips' \in Allocated(fips, asking)
          /\ refused' = (refused \ {t}) \cup {o \in asking : fips'[o] = NoOne}
          /\ qosOf' = [qosOf EXCEPT ![t] = IF "qos" \in ps THEN policyOf[g] ELSE NoOne]
      BY <2>2 DEF CreateServedTarget, WithQos
    <3>2. asking \in SUBSET Holders /\ (t \in asking <=> "pool" \in ps) /\ \A o \in asking : o = t
      BY <1>2
    <3> HIDE DEF asking
    <3>3. /\ fips' \in [Holders -> PoolSubnets \cup {NoOne}]
          /\ \A o \in Holders : /\ o \notin asking => fips'[o] = fips[o]
                                /\ o \in asking => fips'[o] \in BlocksOf(attached) \cup {NoOne}
      BY <1>2, <3>1, <3>2, AllocatedMeans DEF ServiceInv
    <3>4. fips[t] = NoOne
      <4>1. ~Asks(t)
        BY <1>2, <3>1 DEF Asks
      <4> QED BY <1>2, <4>1 DEF ServiceInv, FipsInv
    <3>5. "qos" \in ps => policyOf[g] \in ServicePolicies
      BY <1>2, <3>1 DEF ParamsOf, ServiceInv, ServedRows
    <3>6. qosOf' \in [ServedTargets -> ServicePolicies \cup {NoOne}]
          /\ qosOf'[t] = (IF "qos" \in ps THEN policyOf[g] ELSE NoOne)
          /\ \A u \in ServedTargets \ {t} : qosOf'[u] = qosOf[u]
      BY <1>2, <3>1, <3>5
    <3>7. t \in refused' <=> t \in asking /\ fips'[t] = NoOne
      BY <3>1
    <3>8. \A o \in Holders \ {t} : fips'[o] = fips[o]
      BY <3>2, <3>3
    <3>9. /\ fips'[t] # NoOne => "pool" \in ps /\ fips'[t] \in BlocksOf(attached)
          /\ "pool" \in ps /\ t \notin refused' => fips'[t] # NoOne
      BY <1>2, <3>2, <3>3, <3>4, <3>7
    <3>10. refused' \subseteq refused \cup {t} /\ refused \subseteq refused' \cup {t}
      BY <3>1, <3>2
    <3> QED BY <3>1, <3>3, <3>6, <3>8, <3>9, <3>10
  <2> QED BY <2>1, <2>2
<1>5. ServedRows'
  <2>1. refused' \subseteq LiveGroups \cup targetRows'
    BY <1>4 DEF ServiceInv, ServedRows
  <2>2. targetRows' \subseteq ServedTargets /\ \A u \in targetRows' : ServedGroup[u] \in LiveGroups
    BY <1>4 DEF ServiceInv, ServedRows
  <2> QED BY <1>1, <1>3, <2>1, <2>2 DEF ServiceInv, ServedRows
<1>6. \A o \in Holders \ {t} : (Asks(o)' <=> Asks(o)) /\ (o \in refused' <=> o \in refused)
  BY <1>1, <1>3, <1>4 DEF Asks
<1>7. Asks(t)' <=> t \in targetRows' /\ "pool" \in ps
  BY <1>1, <1>2, <1>3 DEF Asks
<1>8. FipsInv'
  <2>1. BlocksOf(attached)' = BlocksOf(attached) /\ PoolsOf(attached)' = PoolsOf(attached)
    BY <1>1 DEF BlocksOf, PoolsOf
  <2>2. /\ fips'[t] # NoOne => Asks(t)' /\ fips'[t] \in BlocksOf(attached)
        /\ Asks(t)' /\ t \notin refused' => fips'[t] # NoOne
    BY <1>4, <1>7
  <2>3. \A h \in LiveGroups : UsesNat(ParamsOf(policyOf[h])) => attached # NoOne /\ PoolsOf(attached) # {}
    BY DEF ServiceInv, FipsInv
  <2>5. \A o \in Holders \ {t} : /\ fips[o] # NoOne => Asks(o) /\ fips[o] \in BlocksOf(attached)
                                 /\ Asks(o) /\ o \notin refused => fips[o] # NoOne
    BY DEF ServiceInv, FipsInv
  <2> QED BY <1>1, <1>3, <1>4, <1>6, <2>1, <2>2, <2>3, <2>5 DEF FipsInv
<1>9. AddressesInv'
  <2>1. \A h \in ServedGroups : ReservesAddress(h)' <=> ReservesAddress(h)
    BY <1>1, <1>2, <1>3, <1>4 DEF ReservesAddress
  <2> QED BY <1>1, <2>1 DEF ServiceInv, AddressesInv, Divided
<1>10. NatPoolsInv'
  BY <1>1 DEF ServiceInv, NatPoolsInv, PoolsFit
<1>11. QosInv'
  <2>1. g \in LiveGroups /\ "qos" \in ps => policyOf[g] \in qosPolicies
    BY <1>2 DEF ParamsOf, ServiceInv, ServedRows
  <2>2. ASSUME NEW u \in targetRows'
        PROVE  LET w == policyOf[ServedGroup[u]]
               IN IF "qos" \in ParamsOf(w) THEN u \notin refused' => qosOf'[u] = w /\ w \in qosPolicies
                  ELSE qosOf'[u] = NoOne
    <3>1. CASE u = t
      BY <1>4, <2>1, <2>2, <3>1
    <3>2. CASE u # t
      <4>1. u \in targetRows /\ u \in ServedTargets /\ qosOf'[u] = qosOf[u] /\ (u \in refused' <=> u \in refused)
        BY <1>4, <2>2, <3>2 DEF ServiceInv, ServedRows
      <4> QED BY <4>1 DEF ServiceInv, QosInv, QosFollowsPolicies
    <3> QED BY <3>1, <3>2
  <2> QED BY <1>1, <1>3, <1>4, <2>2 DEF QosInv, QosFollowsPolicies
<1> QED BY <1>5, <1>8, <1>9, <1>10, <1>11 DEF ServiceInv

\* Where the segment or its NAT pools change, no policy in use asks for floating IPs,
\* so nobody has one.
LEMMA NatStepKeeps ==
  ASSUME ServiceConstants, ServiceInv, UNCHANGED <<policyVars, servedVars>>, NatPoolsInv',
         attached' \in NatSegments \cup {NoOne},
         \/ ~NatIsUsed
         \/ /\ BlocksOf(attached) \subseteq BlocksOf(attached)'
            /\ attached # NoOne => attached' # NoOne
            /\ PoolsOf(attached) # {} => PoolsOf(attached)' # {}
  PROVE  ServiceInv'
<1>1. UNCHANGED <<params, qosPolicies, policyOf, targetRows, fips, reserved, ranges, qosOf, refused>>
  BY DEF policyVars, servedVars
<1>2. LiveGroups' = LiveGroups /\ \A w : ParamsOf(w)' = ParamsOf(w)
  BY <1>1 DEF LiveGroups, ParamsOf
<1>3. \A o : Asks(o)' <=> Asks(o)
  BY <1>1, <1>2 DEF Asks
<1>4. ServedRows' /\ QosInv'
  BY <1>1, <1>2 DEF ServiceInv, ServedRows, QosInv, QosFollowsPolicies
<1>5. AddressesInv'
  <2>1. \A g : ReservesAddress(g)' <=> ReservesAddress(g)
    BY <1>1, <1>2 DEF ReservesAddress
  <2> QED BY <1>1, <2>1 DEF ServiceInv, AddressesInv, Divided
<1>6. FipsInv'
  <2>1. CASE ~NatIsUsed
    <3>1. \A g \in LiveGroups : ~UsesNat(ParamsOf(policyOf[g]))
      BY <2>1, LiveRows DEF NatIsUsed, ServiceInv
    <3>2. \A o : ~Asks(o)
      BY <3>1, AskingUsesNat DEF ServiceInv
    <3>3. \A o \in Holders : fips[o] = NoOne
      BY <3>2 DEF ServiceInv, FipsInv
    <3> QED BY <1>1, <1>2, <1>3, <3>1, <3>2, <3>3 DEF ServiceInv, FipsInv
  <2>2. CASE NatIsUsed
    BY <1>1, <1>2, <1>3, <2>2 DEF ServiceInv, FipsInv
  <2> QED BY <2>1, <2>2
<1> QED BY <1>4, <1>5, <1>6 DEF ServiceInv

LEMMA AttachSegmentKeeps ==
  ASSUME ServiceConstants, ServiceInv, NEW e \in NatSegments \cup {NoOne}, AttachSegment(e)
  PROVE  ServiceInv'
<1>1. /\ attached # NoOne => ~NatIsUsed
      /\ attached' = e /\ UNCHANGED <<natPool, extBlocks>> /\ UNCHANGED <<policyVars, servedVars>>
  BY DEF AttachSegment, natPoolVars
<1>2. ~NatIsUsed
  BY <1>1, LiveRows DEF ServiceInv, FipsInv, NatIsUsed
<1>3. NatPoolsInv'
  BY <1>1 DEF ServiceInv, NatPoolsInv, PoolsFit
<1> QED BY <1>1, <1>2, <1>3, NatStepKeeps

\* Of a pool that joins a segment where it fits, the subnet is there, and made for it
\* unless it was the segment's own.
LEMMA JoinedFits ==
  ASSUME ServiceConstants, ServiceInv, NEW n \in NatPools, NEW e \in NatSegments,
         n \notin PoolsOf(e), Fits(n, e, extBlocks),
         NEW blocks, blocks = (IF natPool[n] = NoOne THEN extBlocks ELSE extBlocks \ OwnSubnet(n))
                              \cup {<<e, PoolBlock[n]>>},
         natPool' = [natPool EXCEPT ![n] = Joined(n, e, extBlocks)], extBlocks' = blocks
  PROVE  NatPoolsInv' /\ \A m \in NatPools \ {n} : natPool'[m] = natPool[m]
<1> DEFINE new == Joined(n, e, extBlocks)
<1>1. /\ new \in NatRecords /\ new.segment = e /\ new.subnet = PoolBlock[n] /\ new # NoOne
      /\ new.owned <=> <<e, PoolBlock[n]>> \notin extBlocks
  <2>1. PoolBlock[n] \in PoolSubnets /\ (<<e, PoolBlock[n]>> \notin extBlocks) \in BOOLEAN
    BY DEF PoolSubnets
  <2>2. new \in NatRecords
    BY <2>1 DEF Joined, NatRecords
  <2>3. new.segment = e /\ new.subnet = PoolBlock[n] /\ new.owned = (<<e, PoolBlock[n]>> \notin extBlocks)
    BY DEF Joined
  <2> QED BY <2>2, <2>3 DEF ServiceConstants
<1> HIDE DEF new
<1>2. natPool' = [natPool EXCEPT ![n] = new]
  BY DEF new
<1>3. /\ natPool' \in [NatPools -> NatRecords \cup {NoOne}] /\ natPool'[n] = new
      /\ \A m \in NatPools \ {n} : natPool'[m] = natPool[m]
  BY <1>1, <1>2 DEF ServiceInv, NatPoolsInv
<1>4. ASSUME NEW m \in NatPools \ {n}, natPool[m] # NoOne, natPool[m].segment = e
      PROVE  ~Clash(PoolBlock[m], PoolBlock[n]) /\ ~Clash(PoolBlock[n], PoolBlock[m])
  <2>1. ~Clash(PoolBlock[m], PoolBlock[n])
    BY <1>4 DEF Fits, PoolsOf
  <2>2. {PoolBlock[m], PoolBlock[n]} = {PoolBlock[n], PoolBlock[m]}
    OBVIOUS
  <2> QED BY <2>1, <2>2 DEF Clash
<1>5. natPool[n] # NoOne => natPool[n].segment # e
  BY DEF PoolsOf
<1>6. PoolsFit
  BY DEF ServiceInv, NatPoolsInv
<1>7. ASSUME NEW m \in NatPools, natPool'[m] # NoOne
      PROVE  /\ natPool'[m].subnet = PoolBlock[m] /\ <<natPool'[m].segment, PoolBlock[m]>> \in extBlocks'
             /\ \A k \in NatPools \ {m} :
                  natPool'[k] # NoOne /\ natPool'[k].segment = natPool'[m].segment => ~Clash(PoolBlock[k], PoolBlock[m])
  <2>1. CASE m = n
    BY <1>1, <1>3, <1>4, <2>1
  <2>2. CASE m # n
    <3>1. natPool'[m] = natPool[m] /\ natPool[m] # NoOne
      BY <1>3, <1>7, <2>2
    <3>2. natPool[m].subnet = PoolBlock[m] /\ <<natPool[m].segment, PoolBlock[m]>> \in extBlocks
      BY <1>6, <3>1 DEF PoolsFit
    <3>3. natPool[n] # NoOne => OwnSubnet(n) \subseteq {<<natPool[n].segment, PoolBlock[n]>>}
      BY <1>6 DEF OwnSubnet, PoolsFit
    <3>4. PoolBlock[m] # PoolBlock[n]
      BY <2>2 DEF ServiceConstants
    <3>5. <<natPool[m].segment, PoolBlock[m]>> \in extBlocks'
      BY <3>2, <3>3, <3>4
    <3>6. ASSUME NEW k \in NatPools \ {m}, natPool'[k] # NoOne, natPool'[k].segment = natPool[m].segment
          PROVE  ~Clash(PoolBlock[k], PoolBlock[m])
      <4>1. CASE k = n
        BY <1>1, <1>3, <1>4, <2>2, <3>1, <3>6, <4>1
      <4>2. CASE k # n
        BY <1>3, <1>6, <3>1, <3>6, <4>2 DEF PoolsFit
      <4> QED BY <4>1, <4>2
    <3> QED BY <3>1, <3>2, <3>5, <3>6
  <2> QED BY <2>1, <2>2
<1>8. ASSUME NEW x \in extBlocks'
      PROVE  \/ x[2] = SegmentBlock[x[1]]
             \/ \E m \in NatPools : /\ natPool'[m] # NoOne /\ natPool'[m].segment = x[1]
                                    /\ natPool'[m].owned /\ natPool'[m].subnet = x[2]
  <2>1. CASE x \in extBlocks /\ (natPool[n] = NoOne \/ x \notin OwnSubnet(n))
    <3>1. CASE x[2] = SegmentBlock[x[1]]
      BY <3>1
    <3>2. CASE x[2] # SegmentBlock[x[1]]
      <4>1. PICK m \in NatPools : /\ natPool[m] # NoOne /\ natPool[m].segment = x[1]
                                  /\ natPool[m].owned /\ natPool[m].subnet = x[2]
        BY <1>6, <2>1, <3>2 DEF PoolsFit
      <4>2. m # n
        <5>1. x = <<x[1], x[2]>>
          BY <2>1 DEF ServiceInv, NatPoolsInv
        <5> QED BY <2>1, <4>1, <5>1 DEF OwnSubnet
      <4> QED BY <1>3, <4>1, <4>2
    <3> QED BY <3>1, <3>2
  <2>2. CASE x = <<e, PoolBlock[n]>>
    <3>1. x[1] = e /\ x[2] = PoolBlock[n]
      BY <2>2
    <3>2. CASE new.owned
      BY <1>1, <1>3, <3>1, <3>2
    <3>3. CASE ~new.owned
      <4>1. x \in extBlocks
        BY <1>1, <2>2, <3>3
      <4>2. \A m \in NatPools : natPool[m] # NoOne /\ natPool[m].segment = e => natPool[m].subnet # PoolBlock[n]
        <5>1. \A m \in NatPools : natPool[m] # NoOne => natPool[m].subnet = PoolBlock[m]
          BY <1>6 DEF PoolsFit
        <5>2. \A m \in NatPools : PoolBlock[m] = PoolBlock[n] => m = n
          BY DEF ServiceConstants
        <5> QED BY <1>5, <5>1, <5>2
      <4> QED BY <1>6, <3>1, <4>1, <4>2 DEF PoolsFit
    <3> QED BY <3>2, <3>3
  <2>3. (x \in extBlocks /\ (natPool[n] = NoOne \/ x \notin OwnSubnet(n))) \/ x = <<e, PoolBlock[n]>>
    OBVIOUS
  <2> QED BY <2>1, <2>2, <2>3
<1>9. PoolsFit'
  BY <1>7, <1>8 DEF PoolsFit
<1>10. \A x \in extBlocks' : x = <<x[1], x[2]>>
  BY DEF ServiceInv, NatPoolsInv
<1> QED BY <1>3, <1>9, <1>10 DEF NatPoolsInv

LEMMA CreateNatPoolKeeps ==
  ASSUME ServiceConstants, ServiceInv, NEW n \in NatPools, NEW e \in NatSegments, CreateNatPool(n, e)
  PROVE  ServiceInv'
<1>1. /\ natPool[n] = NoOne /\ Fits(n, e, extBlocks)
      /\ natPool' = [natPool EXCEPT ![n] = Joined(n, e, extBlocks)]
      /\ extBlocks' = extBlocks \cup {<<e, PoolBlock[n]>>}
      /\ UNCHANGED <<policyVars, servedVars>> /\ UNCHANGED attached
  BY DEF CreateNatPool
<1>2. n \notin PoolsOf(e)
  BY <1>1 DEF PoolsOf
<1>3. NatPoolsInv' /\ \A m \in NatPools \ {n} : natPool'[m] = natPool[m]
  BY <1>1, <1>2, JoinedFits
<1>4. /\ \A m \in PoolsOf(attached) : m \in PoolsOf(attached)' /\ natPool'[m] = natPool[m]
      /\ BlocksOf(attached) \subseteq BlocksOf(attached)'
  BY <1>1, <1>3 DEF PoolsOf, BlocksOf
<1>5. attached' \in NatSegments \cup {NoOne}
  BY <1>1 DEF ServiceInv, ServedRows
<1> QED BY <1>1, <1>3, <1>4, <1>5, NatStepKeeps

\* A pool that is moved or deleted is on another segment, or its segment's are not used.
LEMMA OtherPoolsStay ==
  ASSUME ServiceInv, NEW n \in NatPools, natPool[n] # NoOne, natPool[n].segment # attached,
         UNCHANGED attached, \A m \in NatPools \ {n} : natPool'[m] = natPool[m]
  PROVE  /\ BlocksOf(attached) \subseteq BlocksOf(attached)'
         /\ PoolsOf(attached) # {} => PoolsOf(attached)' # {}
<1>1. \A m \in PoolsOf(attached) : m \in PoolsOf(attached)' /\ natPool'[m] = natPool[m]
  BY DEF PoolsOf
<1> QED BY <1>1 DEF BlocksOf

LEMMA MoveNatPoolKeeps ==
  ASSUME ServiceConstants, ServiceInv, NEW n \in NatPools, NEW e \in NatSegments, MoveNatPool(n, e)
  PROVE  ServiceInv'
<1>1. /\ natPool[n] # NoOne /\ e # natPool[n].segment /\ Fits(n, e, extBlocks)
      /\ natPool[n].segment = attached => ~NatIsUsed
      /\ UNCHANGED <<policyVars, servedVars>> /\ UNCHANGED attached
  BY DEF MoveNatPool, ServiceConstants
<1>2. ~HasPorts(n) \/ ~natPool[n].owned
  <2> SUFFICES ASSUME HasPorts(n)
               PROVE  FALSE
    OBVIOUS
  <2>1. PICK o \in DOMAIN fips : fips[o] = natPool[n].subnet
    BY DEF HasPorts
  <2>2. natPool[n].subnet = PoolBlock[n] /\ PoolBlock[n] # NoOne
    <3>1. natPool[n].subnet = PoolBlock[n]
      BY <1>1 DEF ServiceInv, NatPoolsInv, PoolsFit
    <3>2. PoolBlock[n] \in PoolSubnets
      BY DEF PoolSubnets
    <3> QED BY <3>1, <3>2 DEF ServiceConstants
  <2>3. o \in Holders /\ Asks(o) /\ fips[o] \in BlocksOf(attached)
    BY <2>1, <2>2 DEF ServiceInv, FipsInv
  <2>4. PICK m \in PoolsOf(attached) : natPool[m].subnet = PoolBlock[n]
    BY <2>1, <2>2, <2>3 DEF BlocksOf
  <2>5. m \in NatPools /\ natPool[m].segment = attached /\ natPool[m].subnet = PoolBlock[m]
    BY <2>4 DEF PoolsOf, ServiceInv, NatPoolsInv, PoolsFit
  <2>6. m = n
    BY <2>4, <2>5 DEF ServiceConstants
  <2>7. NatIsUsed
    BY <2>3, AskingUsesNat, LiveRows DEF ServiceInv, NatIsUsed
  <2> QED BY <1>1, <2>5, <2>6, <2>7
<1>3. /\ natPool' = [natPool EXCEPT ![n] = Joined(n, e, extBlocks)]
      /\ extBlocks' = (extBlocks \ OwnSubnet(n)) \cup {<<e, PoolBlock[n]>>}
  BY <1>2 DEF MoveNatPool
<1>4. n \notin PoolsOf(e)
  BY <1>1 DEF PoolsOf
<1>5. NatPoolsInv' /\ \A m \in NatPools \ {n} : natPool'[m] = natPool[m]
  BY <1>1, <1>3, <1>4, JoinedFits
<1>6. attached' \in NatSegments \cup {NoOne}
  BY <1>1 DEF ServiceInv, ServedRows
<1>7. natPool[n].segment # attached =>
        /\ BlocksOf(attached) \subseteq BlocksOf(attached)'
        /\ PoolsOf(attached) # {} => PoolsOf(attached)' # {}
  BY <1>1, <1>5, OtherPoolsStay
<1> QED BY <1>1, <1>5, <1>6, <1>7, NatStepKeeps

LEMMA DeleteNatPoolKeeps ==
  ASSUME ServiceConstants, ServiceInv, NEW n \in NatPools, DeleteNatPool(n)
  PROVE  ServiceInv'
<1>1. /\ natPool[n] # NoOne /\ (natPool[n].segment = attached => ~NatIsUsed)
      /\ natPool' = [natPool EXCEPT ![n] = NoOne] /\ extBlocks' = extBlocks \ OwnSubnet(n)
      /\ UNCHANGED <<policyVars, servedVars>> /\ UNCHANGED attached
  BY DEF DeleteNatPool
<1>2. /\ natPool' \in [NatPools -> NatRecords \cup {NoOne}] /\ natPool'[n] = NoOne
      /\ \A m \in NatPools \ {n} : natPool'[m] = natPool[m]
  BY <1>1 DEF ServiceInv, NatPoolsInv
<1>4. PoolsFit
  BY DEF ServiceInv, NatPoolsInv
<1>5. ASSUME NEW m \in NatPools, natPool'[m] # NoOne
      PROVE  /\ natPool'[m].subnet = PoolBlock[m] /\ <<natPool'[m].segment, PoolBlock[m]>> \in extBlocks'
             /\ \A k \in NatPools \ {m} :
                  natPool'[k] # NoOne /\ natPool'[k].segment = natPool'[m].segment => ~Clash(PoolBlock[k], PoolBlock[m])
  <2>1. m # n /\ natPool'[m] = natPool[m] /\ natPool[m] # NoOne
    BY <1>2, <1>5
  <2>2. OwnSubnet(n) \subseteq {<<natPool[n].segment, PoolBlock[n]>>}
    BY <1>1, <1>4 DEF OwnSubnet, PoolsFit
  <2>3. PoolBlock[m] # PoolBlock[n]
    BY <2>1 DEF ServiceConstants
  <2>4. \A k \in NatPools : natPool'[k] # NoOne => natPool'[k] = natPool[k] /\ natPool[k] # NoOne
    BY <1>2
  <2> QED BY <1>1, <1>4, <2>1, <2>2, <2>3, <2>4 DEF PoolsFit
<1>6. ASSUME NEW x \in extBlocks'
      PROVE  \/ x[2] = SegmentBlock[x[1]]
             \/ \E m \in NatPools : /\ natPool'[m] # NoOne /\ natPool'[m].segment = x[1]
                                    /\ natPool'[m].owned /\ natPool'[m].subnet = x[2]
  <2>1. x \in extBlocks /\ x \notin OwnSubnet(n) /\ x = <<x[1], x[2]>>
    BY <1>1 DEF ServiceInv, NatPoolsInv
  <2>2. CASE x[2] # SegmentBlock[x[1]]
    <3>1. PICK m \in NatPools : /\ natPool[m] # NoOne /\ natPool[m].segment = x[1]
                                /\ natPool[m].owned /\ natPool[m].subnet = x[2]
      BY <1>4, <2>1, <2>2 DEF PoolsFit
    <3>2. m # n
      BY <2>1, <3>1 DEF OwnSubnet
    <3> QED BY <1>2, <3>1, <3>2
  <2> QED BY <2>2
<1>7. NatPoolsInv'
  <2>1. \A x \in extBlocks' : x = <<x[1], x[2]>>
    BY <1>1 DEF ServiceInv, NatPoolsInv
  <2> QED BY <1>2, <1>5, <1>6, <2>1 DEF NatPoolsInv, PoolsFit
<1>8. attached' \in NatSegments \cup {NoOne}
  BY <1>1 DEF ServiceInv, ServedRows
<1>9. natPool[n].segment # attached =>
        /\ BlocksOf(attached) \subseteq BlocksOf(attached)'
        /\ PoolsOf(attached) # {} => PoolsOf(attached)' # {}
  BY <1>1, <1>2, OtherPoolsStay
<1> QED BY <1>1, <1>7, <1>8, <1>9, NatStepKeeps

LEMMA ServiceInitHolds ==
  ASSUME ServiceConstants, ServiceInit
  PROVE  ServiceInv
<1>1. LiveGroups = {}
  BY DEF ServiceInit, LiveGroups
<1>2. ServedRows
  BY <1>1 DEF ServiceInit, ServedRows, ServiceConstants
<1>3. \A o : ~Asks(o)
  BY <1>1 DEF ServiceInit, Asks
<1>4. FipsInv
  BY <1>1, <1>3 DEF ServiceInit, FipsInv, Holders
<1>5. Divided(ranges, reserved)
  <2>1. /\ ranges = {<<1, Size>>} /\ reserved = [g \in ServedGroups |-> NoOne] /\ Size \in Nat \ {0}
    BY DEF ServiceInit, ServiceConstants
  <2>2. \A a \in 1 .. Size : Within(a, <<1, Size>>)
    BY <2>1 DEF Within
  <2> QED BY <2>1, <2>2 DEF Divided
<1>6. AddressesInv
  BY <1>1, <1>5 DEF ServiceInit, AddressesInv, ReservesAddress
<1>7. NatPoolsInv
  BY DEF ServiceInit, NatPoolsInv, PoolsFit
<1>8. QosInv
  BY DEF ServiceInit, QosInv, QosFollowsPolicies
<1> QED BY <1>2, <1>4, <1>6, <1>7, <1>8 DEF ServiceInv

\* What the service policy of a group asks for is there and goes with it: floating IPs
\* of the NAT pools of the segment, one reserved address of the groups' subnet, whose
\* addresses are never lost or held twice, and the QoS policy of the ports; NAT pools
\* have their subnets as long as they exist (_handle_network_service_policy,
\* _cleanup_network_service_policy and the handlers of NAT pools).
THEOREM ServicesAreProvidedAlways ==
  ASSUME ServiceConstants
  PROVE  ServiceSpec => []ServicesAreProvided
<1>1. ServiceInit => ServiceInv
  BY ServiceInitHolds
<1>2. ASSUME ServiceInv,
             [AnyServicePolicies \/ AnyServedGroups \/ AnyServedTargets \/ AnyNatPools]_serviceVars
      PROVE  ServiceInv'
  <2>1. CASE AnyServicePolicies
    BY <1>2, <2>1, PolicyStepKeeps DEF AnyServicePolicies
  <2>2. CASE AnyServedGroups
    BY <1>2, <2>2, GroupStepKeeps, DeleteServedGroupKeeps DEF AnyServedGroups
  <2>3. CASE AnyServedTargets
    BY <1>2, <2>3, TargetStepKeeps DEF AnyServedTargets
  <2>4. CASE AnyNatPools
    BY <1>2, <2>4, AttachSegmentKeeps, CreateNatPoolKeeps, MoveNatPoolKeeps, DeleteNatPoolKeeps DEF AnyNatPools
  <2>5. CASE UNCHANGED serviceVars
    <3>1. /\ UNCHANGED <<policyVars, servedVars>> /\ UNCHANGED attached
          /\ UNCHANGED <<natPool, extBlocks>>
      BY <2>5 DEF serviceVars, natPoolVars
    <3>2. NatPoolsInv' /\ PoolsOf(attached)' = PoolsOf(attached) /\ BlocksOf(attached)' = BlocksOf(attached)
      BY <1>2, <3>1 DEF ServiceInv, NatPoolsInv, PoolsFit, PoolsOf, BlocksOf
    <3>3. attached' \in NatSegments \cup {NoOne}
      BY <1>2, <3>1 DEF ServiceInv, ServedRows
    <3> QED BY <1>2, <3>1, <3>2, <3>3, NatStepKeeps
  <2> QED BY <1>2, <2>1, <2>2, <2>3, <2>4, <2>5
<1>3. ServiceInv => ServicesAreProvided
  BY ServiceInvSuffices
<1> QED BY <1>1, <1>2, <1>3, PTL DEF ServiceSpec
====================
