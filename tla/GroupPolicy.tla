----------------------------- MODULE GroupPolicy -----------------------------
(* The Group Based Policy service plugin over its database layer: the rows
   of the thirteen resource types, the references between them, the
   sharing rules that every create and update re-validates, the in-use
   checks of the deletions, and the deletion of a policy target group,
   which runs over several transactions while other requests are served.

   A reference is an edge [from, attr, to]: `from' is the row that holds
   the attribute (a foreign key or an association row) and `to' the row it
   names.  Every transaction of the plugin is one step. *)
EXTENDS Naturals, Sequences, FiniteSets

CONSTANTS
  Tenants,                 \* projects
  Contexts,                \* request contexts: [tenant, admin]
  Workers,                 \* API workers that may be deleting a group
  PolicyTargets, PolicyTargetGroups, ApplicationPolicyGroups,
  L2Policies, L3Policies, NetworkServicePolicies,
  PolicyClassifiers, PolicyActions, PolicyRules, PolicyRuleSets,
  ExternalSegments, ExternalPolicies, NatPools,
  MaxRows,                 \* bound: rows that exist at the same time
  None                     \* no row, no proxy group

\* The tables; every row has a uuid of its own.
Types ==
  [PolicyTarget |-> PolicyTargets, PolicyTargetGroup |-> PolicyTargetGroups,
   ApplicationPolicyGroup |-> ApplicationPolicyGroups,
   L2Policy |-> L2Policies, L3Policy |-> L3Policies,
   NetworkServicePolicy |-> NetworkServicePolicies,
   PolicyClassifier |-> PolicyClassifiers, PolicyAction |-> PolicyActions,
   PolicyRule |-> PolicyRules, PolicyRuleSet |-> PolicyRuleSets,
   ExternalSegment |-> ExternalSegments, ExternalPolicy |-> ExternalPolicies,
   NatPool |-> NatPools]

ASSUME TypesAreDisjoint ==
  \A s \in DOMAIN Types, u \in DOMAIN Types : s # u => Types[s] \cap Types[u] = {}

Resources == UNION {Types[s] : s \in DOMAIN Types}

ASSUME MaxRowsAssumption == MaxRows \in Nat

ASSUME ContextsAssumption ==
  /\ Contexts \subseteq [tenant : Tenants, admin : BOOLEAN]
  /\ None \notin Tenants \cup Contexts \cup Resources

\* The rows that may hold each attribute and the rows it may name.
Reference ==
  LET Ref(holders, targets) == [holders |-> holders, targets |-> targets] IN
  [external_segments |-> Ref(L3Policies \cup ExternalPolicies, ExternalSegments),
   l3_policy_id      |-> Ref(L2Policies, L3Policies),
   l2_policy_id      |-> Ref(PolicyTargetGroups, L2Policies),
   network_service_policy_id |-> Ref(PolicyTargetGroups, NetworkServicePolicies),
   provided_policy_rule_sets |->
     Ref(PolicyTargetGroups \cup ExternalPolicies, PolicyRuleSets),
   consumed_policy_rule_sets |->
     Ref(PolicyTargetGroups \cup ExternalPolicies, PolicyRuleSets),
   policy_classifier_id   |-> Ref(PolicyRules, PolicyClassifiers),
   policy_actions         |-> Ref(PolicyRules, PolicyActions),
   policy_rules           |-> Ref(PolicyRuleSets, PolicyRules),
   parent_id              |-> Ref(PolicyRuleSets, PolicyRuleSets),
   external_segment_id    |-> Ref(NatPools, ExternalSegments),
   policy_target_group_id |-> Ref(PolicyTargets, PolicyTargetGroups),
   application_policy_group_id |->
     Ref(PolicyTargetGroups, ApplicationPolicyGroups),
   proxied_group_id       |-> Ref(PolicyTargetGroups, PolicyTargetGroups)]

Attrs ==
  {"external_segments", "l3_policy_id", "l2_policy_id",
   "network_service_policy_id", "provided_policy_rule_sets",
   "consumed_policy_rule_sets", "policy_classifier_id", "policy_actions",
   "policy_rules", "parent_id", "external_segment_id",
   "policy_target_group_id", "application_policy_group_id", "proxied_group_id"}

Edges == [from : Resources, attr : Attrs, to : Resources]

WellTyped(e) ==
  /\ e.from \in Reference[e.attr].holders
  /\ e.to \in Reference[e.attr].targets

\* The attributes of usage_graph; the other two are foreign keys only.
usage_graph == Attrs \ {"application_policy_group_id", "proxied_group_id"}

\* Mutant: a type of user that an unshare forgets to visit.
ForgetNatPools == usage_graph \ {"parent_id", "external_segment_id"}

\* The attributes whose holders the _validate_<type>_unshare methods visit.
unshare_graph ==
  {"l3_policy_id",                                             \* l3_policy
   "l2_policy_id",                                             \* l2_policy
   "policy_target_group_id",                         \* policy_target_group
   "network_service_policy_id",                   \* network_service_policy
   "provided_policy_rule_sets", "consumed_policy_rule_sets",
                                                         \* policy_rule_set
   "policy_classifier_id",                             \* policy_classifier
   "policy_rules",                                           \* policy_rule
   "policy_actions",                                       \* policy_action
   "external_segments", "external_segment_id"}          \* external_segment

VARIABLES
  owner,      \* tenant_id of each row, None when there is no such row
  shared,     \* the rows whose shared column is true
  uses,       \* the references between rows
  management, \* the groups whose service_management column is true
  bound,      \* the policy targets whose Neutron port is bound
  deletion    \* per worker, the delete_policy_target_group it is running

vars == <<owner, shared, uses, management, bound, deletion>>

--------------------
(* Reads *)

live == {r \in Resources : owner[r] # None}

\* The scope of every query: an admin sees all rows, anyone else the rows of
\* the own project and the shared ones.
Visible(c, r) == c.admin \/ owner[r] = c.tenant \/ r \in shared

LinksFrom(r, attr) == {e.to : e \in {x \in uses : x.from = r /\ x.attr = attr}}
LinksTo(r, attr) == {e.from : e \in {x \in uses : x.to = r /\ x.attr = attr}}

Link(r, attr, targets) == {[from |-> r, attr |-> attr, to |-> u] : u \in targets}

Found(c, S) == {r \in S \cap live : Visible(c, r)}
Some(S) == {{}} \cup {{r} : r \in S}

--------------------
(* The sharing rules *)

\* Mutants: a shared row may use what its tenant can; a shared row may use
\* anything.
ConsistentInTenant(c, t, isShared, reference) ==
  reference \in shared \/ c.admin \/ t = owner[reference]
ConsistentIfShared(c, t, isShared, reference) ==
  reference \in shared \/ isShared \/ c.admin \/ t = owner[reference]

\* _verify_sharing_consistency of a row of tenant t against one it refers to.
_verify_sharing_consistency(c, t, isShared, reference) ==
  \/ reference \in shared
  \/ ~isShared /\ (c.admin \/ t = owner[reference])

\* _validate_shared_create: every validated reference is found in the scope
\* of the request and is consistent.
_validate_shared_create(c, t, isShared, links) ==
  \A e \in links : e.attr \in usage_graph =>
    /\ e.to \in live
    /\ Visible(c, e.to)
    /\ _verify_sharing_consistency(c, t, isShared, e.to)

\* Mutant: users of other tenants are not looked for.
UnshareSharedOnly(r, links) ==
  \A e \in links : e.to = r /\ e.attr \in unshare_graph => e.from \notin shared

\* _check_shared_or_different_tenant over all the users of row r.
_validate_unshare(r, links) ==
  \A e \in links : e.to = r /\ e.attr \in unshare_graph =>
    e.from \notin shared /\ owner[e.from] = owner[r]

\* _get_tenant_id_for_create
TenantsFor(c) == IF c.admin THEN Tenants ELSE {c.tenant}

\* The API policy: who may update or delete a row, and share one.
MayDelete(c, r) == c.admin \/ owner[r] = c.tenant
MayUpdate(c, r) == MayDelete(c, r) \/ r \in PolicyTargetGroups \cap shared
SharedValues(c, now) == IF c.admin THEN BOOLEAN ELSE {now}

--------------------
(* The three transactions every resource type has *)

\* Rows that a running deletion still refers to; a new row gets a new uuid.
Held == UNION {UNION {{f.group, f.proxy} \cup f.todo :
                        f \in {deletion[w].frames[i] : i \in DOMAIN deletion[w].frames}} :
                 w \in Workers}

\* Bound: there is room for one more row.
Room == Cardinality(live) < MaxRows

Insert(c, r, t, isShared, links) ==
  /\ Room /\ r \notin live \cup Held
  /\ _validate_shared_create(c, t, isShared, links)
  /\ owner' = [owner EXCEPT ![r] = t]
  /\ shared' = IF isShared THEN shared \cup {r} ELSE shared
  /\ uses' = uses \cup links
  /\ UNCHANGED <<bound, deletion>>

\* replaced: the edges the request drops; added: the ones it sets.
Modify(c, r, isShared, replaced, added) ==
  LET after == (uses \ replaced) \cup added IN
  /\ r \in live
  /\ Visible(c, r)
  /\ MayUpdate(c, r)
  /\ _validate_shared_create(c, owner[r], isShared, {e \in after : e.from = r})
  /\ isShared # (r \in shared) => _validate_unshare(r, after)
  /\ shared' = IF isShared THEN shared \cup {r} ELSE shared \ {r}
  /\ uses' = after
  /\ UNCHANGED <<owner, deletion>>

\* Mutants: the columns that name the row keep their value; the row's own
\* flag outlives it.
EraseRowOnly(r) ==
  /\ owner' = [owner EXCEPT ![r] = None]
  /\ shared' = shared \ {r}
  /\ uses' = {e \in uses : e.from # r}
  /\ management' = management \ {r}
  /\ bound' = bound \ {r}
EraseKeepsFlag(r) ==
  /\ owner' = [owner EXCEPT ![r] = None]
  /\ UNCHANGED shared
  /\ uses' = {e \in uses : e.from # r /\ e.to # r}
  /\ management' = management \ {r}
  /\ bound' = bound \ {r}

\* The ORM deletes the association rows of a deleted row and sets the foreign
\* keys that name it to null.
Erase(r) ==
  /\ owner' = [owner EXCEPT ![r] = None]
  /\ shared' = shared \ {r}
  /\ uses' = {e \in uses : e.from # r /\ e.to # r}
  /\ management' = management \ {r}
  /\ bound' = bound \ {r}

\* inUse: the attributes whose holders make the deletion fail.
Remove(c, r, inUse) ==
  /\ r \in live
  /\ MayDelete(c, r)
  /\ \A e \in uses : e.to = r => e.attr \notin inUse
  /\ Erase(r)
  /\ UNCHANGED deletion

Replaced(r, attrs) == {e \in uses : e.from = r /\ e.attr \in attrs}

--------------------
(* Policy targets *)

CreatePolicyTarget(c, r) ==
  \E t \in TenantsFor(c), ptg \in Some(Found(c, PolicyTargetGroups)) :
    /\ Insert(c, r, t, FALSE, Link(r, "policy_target_group_id", ptg))
    /\ UNCHANGED management

UpdatePolicyTarget(c, r) ==
  \E ptg \in Some(Found(c, PolicyTargetGroups)) :
    /\ Modify(c, r, FALSE, Replaced(r, {"policy_target_group_id"}),
              Link(r, "policy_target_group_id", ptg))
    /\ UNCHANGED <<management, bound>>

DeletePolicyTarget(c, r) == Remove(c, r, {})

\* Neutron binds or unbinds the port of a policy target (_is_port_bound).
BindPort(r) ==
  /\ r \in live
  /\ bound' = IF r \in bound THEN bound \ {r} ELSE bound \cup {r}
  /\ UNCHANGED <<owner, shared, uses, management, deletion>>

--------------------
(* Policy target groups *)

GroupLinks(r, l2p, nsp, apg, provided, consumed) ==
  UNION {Link(r, "l2_policy_id", l2p),
         Link(r, "network_service_policy_id", nsp),
         Link(r, "application_policy_group_id", apg),
         Link(r, "provided_policy_rule_sets", provided),
         Link(r, "consumed_policy_rule_sets", consumed)}

\* _validate_service_management_ptg
_validate_service_management_ptg(t) ==
  \A g \in management : owner[g] # t

\* A group may be created as the proxy of a group that has none.
CreatePolicyTargetGroup(c, r) ==
  \E t \in TenantsFor(c), isShared \in SharedValues(c, FALSE), isManagement \in BOOLEAN,
     l2p \in Some(Found(c, L2Policies)),
     nsp \in Some(Found(c, NetworkServicePolicies)),
     apg \in Some(ApplicationPolicyGroups \cap live),
     provided \in SUBSET Found(c, PolicyRuleSets),
     consumed \in SUBSET Found(c, PolicyRuleSets),
     proxied \in Some(PolicyTargetGroups \cap live) :
    /\ isManagement => c.admin /\ _validate_service_management_ptg(t)
    /\ \A g \in proxied : LinksTo(g, "proxied_group_id") = {}
    /\ Insert(c, r, t, isShared,
              GroupLinks(r, l2p, nsp, apg, provided, consumed)
                \cup Link(r, "proxied_group_id", proxied))
    /\ management' = IF isManagement THEN management \cup {r} ELSE management

\* The L2 policy of a group may be set once and never changed.
UpdatePolicyTargetGroup(c, r) ==
  \E isShared \in SharedValues(c, r \in shared), isManagement \in BOOLEAN,
     l2p \in Some(Found(c, L2Policies)),
     nsp \in Some(Found(c, NetworkServicePolicies)),
     apg \in Some(ApplicationPolicyGroups \cap live),
     provided \in SUBSET Found(c, PolicyRuleSets),
     consumed \in SUBSET Found(c, PolicyRuleSets) :
    /\ LinksFrom(r, "l2_policy_id") \in {{}, l2p}
    /\ Modify(c, r, isShared,
              Replaced(r, Attrs \ {"proxied_group_id"}),
              GroupLinks(r, l2p, nsp, apg, provided, consumed))
    /\ management' = IF isManagement THEN management \cup {r} ELSE management \ {r}
    /\ UNCHANGED bound

Idle == [by |-> None, frames |-> <<>>]
Top(w) == deletion[w].frames[Len(deletion[w].frames)]
Below(w) == SubSeq(deletion[w].frames, 1, Len(deletion[w].frames) - 1)
Running(w, stage) == deletion[w].frames # <<>> /\ Top(w).stage = stage

\* What delete_policy_target_group reads of group g before anything else.
Frame(g) ==
  [group |-> g, stage |-> "rule_sets",
   proxy |-> IF LinksTo(g, "proxied_group_id") = {} THEN None
             ELSE CHOOSE p \in LinksTo(g, "proxied_group_id") : TRUE,
   todo |-> LinksTo(g, "policy_target_group_id")]

\* No policy target of the group has a bound port (PolicyTargetGroupInUse).
NoneBound(g) == LinksTo(g, "policy_target_group_id") \cap bound = {}

At(w, stage) == [Top(w) EXCEPT !.stage = stage]
Continue(w, frames) ==
  deletion' = [deletion EXCEPT ![w] = IF frames = <<>> THEN Idle
                                      ELSE [@ EXCEPT !.frames = frames]]
\* An exception ends the request: what was committed stays.
Abort(w) == Continue(w, <<>>)
\* PolicyTargetGroupNotFound is caught around the deletion of a proxy group.
NotFound(w) == Continue(w, Below(w))

Rows == <<owner, shared, uses, management, bound>>

\* First transaction: the snapshot and the check for bound ports.
DeletePolicyTargetGroup(w, c, g) ==
  /\ deletion[w] = Idle
  /\ g \in live
  /\ MayDelete(c, g)
  /\ NoneBound(g)
  /\ deletion' = [deletion EXCEPT ![w] = [by |-> c, frames |-> <<Frame(g)>>]]
  /\ UNCHANGED Rows

\* Second: an update of the group clears its policy rule sets, and validates
\* its other references again.
ClearRuleSets(w) ==
  LET g == Top(w).group
      c == deletion[w].by
      after == uses \ Replaced(g, {"provided_policy_rule_sets",
                                   "consumed_policy_rule_sets"}) IN
  /\ Running(w, "rule_sets")
  /\ \/ /\ g \in live /\ Visible(c, g)
        /\ _validate_shared_create(c, owner[g], g \in shared,
                                   {e \in after : e.from = g})
        /\ uses' = after
        /\ Continue(w, Append(Below(w), At(w, "proxy")))
     \/ /\ g \in live /\ Visible(c, g)
        /\ ~_validate_shared_create(c, owner[g], g \in shared,
                                    {e \in after : e.from = g})
        /\ Abort(w)
        /\ UNCHANGED uses
     \/ /\ g \notin Found(c, {g})
        /\ NotFound(w)
        /\ UNCHANGED uses
  /\ UNCHANGED <<owner, shared, management, bound>>

\* Third: the proxy group read in the first transaction is deleted the same
\* way before the group goes on.
DeleteProxyGroup(w) ==
  LET p == Top(w).proxy
      next == Append(Below(w), At(w, "targets")) IN
  /\ Running(w, "proxy")
  /\ \/ p \notin Found(deletion[w].by, {p}) /\ Continue(w, next)
     \/ /\ p \in Found(deletion[w].by, {p})
        /\ NoneBound(p)
        /\ Continue(w, Append(next, Frame(p)))
     \/ /\ p \in Found(deletion[w].by, {p})
        /\ ~NoneBound(p)
        /\ Abort(w)
  /\ UNCHANGED Rows

\* Fourth: of the policy targets read in the first transaction, those the
\* request can see are listed ...
ListTargets(w) ==
  /\ Running(w, "targets")
  /\ Continue(w, Append(Below(w),
       [At(w, "delete") EXCEPT !.todo = Found(deletion[w].by, Top(w).todo)]))
  /\ UNCHANGED Rows

\* Mutant: the deletion of a target that is gone is tried again.
RetryTarget(w) ==
  /\ Running(w, "delete")
  /\ \E r \in Top(w).todo :
       \/ /\ r \in live
          /\ Erase(r)
          /\ Continue(w, Append(Below(w), [Top(w) EXCEPT !.todo = @ \ {r}]))
       \/ r \notin live /\ UNCHANGED vars

\* ... and deleted, each in a transaction of its own.
DeleteTarget(w) ==
  /\ Running(w, "delete")
  /\ \E r \in Top(w).todo :
       \/ /\ r \in live
          /\ Erase(r)
          /\ Continue(w, Append(Below(w), [Top(w) EXCEPT !.todo = @ \ {r}]))
       \/ /\ r \notin live
          /\ Abort(w)
          /\ UNCHANGED Rows

\* Last: the row itself.  A group that names it as its proxied group makes the
\* database refuse.
DeleteGroupRow(w) ==
  LET g == Top(w).group IN
  /\ Running(w, "delete")
  /\ Top(w).todo = {}
  /\ \/ /\ g \in live
        /\ LinksTo(g, "proxied_group_id") = {}
        /\ Erase(g)
        /\ Continue(w, Below(w))
     \/ /\ g \in live
        /\ LinksTo(g, "proxied_group_id") # {}
        /\ Abort(w)
        /\ UNCHANGED Rows
     \/ /\ g \notin live
        /\ NotFound(w)
        /\ UNCHANGED Rows

--------------------
(* Application policy groups: their shared flag cannot change, as there is
   no _validate_application_policy_group_unshare to call. *)

Quiet == UNCHANGED management
Still == UNCHANGED <<management, bound>>

CreateApplicationPolicyGroup(c, r) ==
  \E t \in TenantsFor(c), isShared \in SharedValues(c, FALSE) :
    Insert(c, r, t, isShared, {}) /\ Quiet

UpdateApplicationPolicyGroup(c, r) == Modify(c, r, r \in shared, {}, {}) /\ Still

DeleteApplicationPolicyGroup(c, r) == Remove(c, r, {})

--------------------
(* L2 and L3 policies *)

CreateL2Policy(c, r) ==
  \E t \in TenantsFor(c), isShared \in SharedValues(c, FALSE), l3p \in Some(Found(c, L3Policies)) :
    Insert(c, r, t, isShared, Link(r, "l3_policy_id", l3p)) /\ Quiet

UpdateL2Policy(c, r) ==
  \E isShared \in SharedValues(c, r \in shared), l3p \in Some(Found(c, L3Policies)) :
    /\ Modify(c, r, isShared, Replaced(r, {"l3_policy_id"}),
              Link(r, "l3_policy_id", l3p))
    /\ Still

DeleteL2Policy(c, r) == Remove(c, r, {"l2_policy_id"})

CreateL3Policy(c, r) ==
  \E t \in TenantsFor(c), isShared \in SharedValues(c, FALSE),
     es \in SUBSET Found(c, ExternalSegments) :
    Insert(c, r, t, isShared, Link(r, "external_segments", es)) /\ Quiet

UpdateL3Policy(c, r) ==
  \E isShared \in SharedValues(c, r \in shared), es \in SUBSET Found(c, ExternalSegments) :
    /\ Modify(c, r, isShared, Replaced(r, {"external_segments"}),
              Link(r, "external_segments", es))
    /\ Still

DeleteL3Policy(c, r) == Remove(c, r, {"l3_policy_id"})

--------------------
(* Network service policies, classifiers and actions refer to nothing *)

CreateNetworkServicePolicy(c, r) ==
  \E t \in TenantsFor(c), isShared \in SharedValues(c, FALSE) :
    Insert(c, r, t, isShared, {}) /\ Quiet
UpdateNetworkServicePolicy(c, r) ==
  \E isShared \in SharedValues(c, r \in shared) :
    Modify(c, r, isShared, {}, {}) /\ Still
\* Mutant: no in-use check.
DeleteServicePolicyUnchecked(c, r) == Remove(c, r, {})
DeleteNetworkServicePolicy(c, r) == Remove(c, r, {"network_service_policy_id"})

CreatePolicyClassifier(c, r) ==
  \E t \in TenantsFor(c), isShared \in SharedValues(c, FALSE) :
    Insert(c, r, t, isShared, {}) /\ Quiet
UpdatePolicyClassifier(c, r) ==
  \E isShared \in SharedValues(c, r \in shared) :
    Modify(c, r, isShared, {}, {}) /\ Still
DeletePolicyClassifier(c, r) == Remove(c, r, {"policy_classifier_id"})

CreatePolicyAction(c, r) ==
  \E t \in TenantsFor(c), isShared \in SharedValues(c, FALSE) :
    Insert(c, r, t, isShared, {}) /\ Quiet
UpdatePolicyAction(c, r) ==
  \E isShared \in SharedValues(c, r \in shared) :
    Modify(c, r, isShared, {}, {}) /\ Still
DeletePolicyAction(c, r) == Remove(c, r, {"policy_actions"})

--------------------
(* Policy rules: exactly one classifier *)

RuleLinks(r, classifier, actions) ==
  Link(r, "policy_classifier_id", {classifier}) \cup Link(r, "policy_actions", actions)

CreatePolicyRule(c, r) ==
  \E t \in TenantsFor(c), isShared \in SharedValues(c, FALSE),
     classifier \in Found(c, PolicyClassifiers),
     actions \in SUBSET Found(c, PolicyActions) :
    Insert(c, r, t, isShared, RuleLinks(r, classifier, actions)) /\ Quiet

UpdatePolicyRule(c, r) ==
  \E isShared \in SharedValues(c, r \in shared), classifier \in Found(c, PolicyClassifiers),
     actions \in SUBSET Found(c, PolicyActions) :
    /\ Modify(c, r, isShared, Replaced(r, Attrs), RuleLinks(r, classifier, actions))
    /\ Still

DeletePolicyRule(c, r) == Remove(c, r, {"policy_rules"})

--------------------
(* Policy rule sets *)

Children(r) == LinksTo(r, "parent_id")

\* Mutant: a rule set with a parent takes children.
ChildrenOfChild(r, children) ==
  \A child \in children : child # r /\ Children(child) = {}

\* _set_children_for_policy_rule_set: a child must have no child of its own and
\* not be the parent; a rule set that has a parent takes no child.
_set_children_allowed(r, children) ==
  children # {} =>
    /\ LinksFrom(r, "parent_id") = {}
    /\ \A child \in children : child # r /\ Children(child) = {}

ChildLinks(r, children) == UNION {Link(child, "parent_id", {r}) : child \in children}
\* A child leaves the parent it had.
FormerLinks(r, children) ==
  {e \in uses : e.attr = "parent_id" /\ (e.to = r \/ e.from \in children)}

\* A new row has no parent: its own references are its rules, and those of
\* its children are not validated.
CreatePolicyRuleSet(c, r) ==
  \E t \in TenantsFor(c), isShared \in SharedValues(c, FALSE),
     rules \in SUBSET Found(c, PolicyRules),
     children \in SUBSET Found(c, PolicyRuleSets) :
    LET links == Link(r, "policy_rules", rules) IN
    /\ Room /\ r \notin live \cup Held
    /\ _set_children_allowed(r, children)
    /\ _validate_shared_create(c, t, isShared, links)
    /\ owner' = [owner EXCEPT ![r] = t]
    /\ shared' = IF isShared THEN shared \cup {r} ELSE shared
    /\ uses' = (uses \ FormerLinks(r, children)) \cup links \cup ChildLinks(r, children)
    /\ UNCHANGED <<management, bound, deletion>>

UpdatePolicyRuleSet(c, r) ==
  \E isShared \in SharedValues(c, r \in shared),
     rules \in SUBSET Found(c, PolicyRules),
     children \in SUBSET Found(c, PolicyRuleSets) :
    /\ _set_children_allowed(r, children)
    /\ Modify(c, r, isShared,
              Replaced(r, {"policy_rules"}) \cup FormerLinks(r, children),
              Link(r, "policy_rules", rules) \cup ChildLinks(r, children))
    /\ Still

DeletePolicyRuleSet(c, r) ==
  Remove(c, r, {"provided_policy_rule_sets", "consumed_policy_rule_sets"})

--------------------
(* External segments, external policies and NAT pools *)

CreateExternalSegment(c, r) ==
  \E t \in TenantsFor(c), isShared \in SharedValues(c, FALSE) :
    Insert(c, r, t, isShared, {}) /\ Quiet
UpdateExternalSegment(c, r) ==
  \E isShared \in SharedValues(c, r \in shared) :
    Modify(c, r, isShared, {}, {}) /\ Still
DeleteExternalSegment(c, r) ==
  Remove(c, r, {"external_segments", "external_segment_id"})

PolicyLinks(r, es, provided, consumed) ==
  UNION {Link(r, "external_segments", es),
         Link(r, "provided_policy_rule_sets", provided),
         Link(r, "consumed_policy_rule_sets", consumed)}

CreateExternalPolicy(c, r) ==
  \E t \in TenantsFor(c), isShared \in SharedValues(c, FALSE),
     es \in SUBSET Found(c, ExternalSegments),
     provided \in SUBSET Found(c, PolicyRuleSets),
     consumed \in SUBSET Found(c, PolicyRuleSets) :
    Insert(c, r, t, isShared, PolicyLinks(r, es, provided, consumed)) /\ Quiet

UpdateExternalPolicy(c, r) ==
  \E isShared \in SharedValues(c, r \in shared),
     es \in SUBSET Found(c, ExternalSegments),
     provided \in SUBSET Found(c, PolicyRuleSets),
     consumed \in SUBSET Found(c, PolicyRuleSets) :
    /\ Modify(c, r, isShared, Replaced(r, Attrs), PolicyLinks(r, es, provided, consumed))
    /\ Still

DeleteExternalPolicy(c, r) == Remove(c, r, {})

CreateNatPool(c, r) ==
  \E t \in TenantsFor(c), isShared \in SharedValues(c, FALSE), es \in Some(Found(c, ExternalSegments)) :
    Insert(c, r, t, isShared, Link(r, "external_segment_id", es)) /\ Quiet

UpdateNatPool(c, r) ==
  \E isShared \in SharedValues(c, r \in shared), es \in Some(Found(c, ExternalSegments)) :
    /\ Modify(c, r, isShared, Replaced(r, Attrs), Link(r, "external_segment_id", es))
    /\ Still

DeleteNatPool(c, r) == Remove(c, r, {})

--------------------
Init ==
  /\ owner = [r \in Resources |-> None]
  /\ shared = {} /\ uses = {} /\ management = {} /\ bound = {}
  /\ deletion = [w \in Workers |-> Idle]

\* Every worker that deletes a group goes on with it, or fails.
DeletionStep(w) ==
  \/ ClearRuleSets(w) \/ DeleteProxyGroup(w)
  \/ ListTargets(w) \/ DeleteTarget(w) \/ DeleteGroupRow(w)

\* A request of the API, in context c.
Request(c) ==
  \/ \E r \in PolicyTargets :
       CreatePolicyTarget(c, r) \/ UpdatePolicyTarget(c, r) \/ DeletePolicyTarget(c, r)
  \/ \E r \in PolicyTargetGroups :
       CreatePolicyTargetGroup(c, r) \/ UpdatePolicyTargetGroup(c, r)
  \/ \E r \in ApplicationPolicyGroups :
       \/ CreateApplicationPolicyGroup(c, r)
       \/ UpdateApplicationPolicyGroup(c, r)
       \/ DeleteApplicationPolicyGroup(c, r)
  \/ \E r \in L2Policies :
       CreateL2Policy(c, r) \/ UpdateL2Policy(c, r) \/ DeleteL2Policy(c, r)
  \/ \E r \in L3Policies :
       CreateL3Policy(c, r) \/ UpdateL3Policy(c, r) \/ DeleteL3Policy(c, r)
  \/ \E r \in NetworkServicePolicies :
       \/ CreateNetworkServicePolicy(c, r)
       \/ UpdateNetworkServicePolicy(c, r)
       \/ DeleteNetworkServicePolicy(c, r)
  \/ \E r \in PolicyClassifiers :
       \/ CreatePolicyClassifier(c, r)
       \/ UpdatePolicyClassifier(c, r)
       \/ DeletePolicyClassifier(c, r)
  \/ \E r \in PolicyActions :
       CreatePolicyAction(c, r) \/ UpdatePolicyAction(c, r) \/ DeletePolicyAction(c, r)
  \/ \E r \in PolicyRules :
       CreatePolicyRule(c, r) \/ UpdatePolicyRule(c, r) \/ DeletePolicyRule(c, r)
  \/ \E r \in PolicyRuleSets :
       CreatePolicyRuleSet(c, r) \/ UpdatePolicyRuleSet(c, r) \/ DeletePolicyRuleSet(c, r)
  \/ \E r \in ExternalSegments :
       \/ CreateExternalSegment(c, r)
       \/ UpdateExternalSegment(c, r)
       \/ DeleteExternalSegment(c, r)
  \/ \E r \in ExternalPolicies :
       CreateExternalPolicy(c, r) \/ UpdateExternalPolicy(c, r) \/ DeleteExternalPolicy(c, r)
  \/ \E r \in NatPools :
       CreateNatPool(c, r) \/ UpdateNatPool(c, r) \/ DeleteNatPool(c, r)
  \/ \E w \in Workers, g \in PolicyTargetGroups : DeletePolicyTargetGroup(w, c, g)

Next ==
  \/ \E c \in Contexts : Request(c)
  \/ \E r \in PolicyTargets : BindPort(r)
  \/ \E w \in Workers : DeletionStep(w)

Spec == Init /\ [][Next]_vars

--------------------
(* Properties *)

FairSpec == Spec /\ \A w \in Workers : WF_vars(DeletionStep(w))

\* However rows come and go around it, the deletion of a group ends.
GroupDeletionEnds == \A w \in Workers : (deletion[w] # Idle) ~> (deletion[w] = Idle)

Frames == [group : PolicyTargetGroups,
           stage : {"rule_sets", "proxy", "targets", "delete"},
           proxy : PolicyTargetGroups \cup {None},
           todo : SUBSET PolicyTargets]

\* Every variable has its type: only group rows are management groups, only
\* policy targets have ports, and a running deletion is a stack of frames.
TypeOK ==
  /\ owner \in [Resources -> Tenants \cup {None}]
  /\ shared \subseteq live
  /\ uses \subseteq Edges
  /\ management \subseteq PolicyTargetGroups
  /\ bound \subseteq PolicyTargets
  /\ deletion \in [Workers -> {Idle} \cup [by : Contexts, frames : Seq(Frames)]]

\* The rows whose references are validated against rows that exist: no create,
\* update or deletion of any type leaves an edge that hangs in the air, or one
\* that names a row of the wrong type.
ReferencesExist ==
  \A e \in uses : WellTyped(e) /\ e.from \in live /\ e.to \in live

\* "A shared resource cannot use/link a non-shared resource", for every link
\* but that of a policy rule set to its parent.
SharedUsesShared ==
  \A e \in uses :
    e.attr \in usage_graph \ {"parent_id"} /\ e.from \in shared => e.to \in shared

\* "Only one hierarchy level allowed for now": no rule set has a parent and a
\* child, so the hierarchy has no loop either.
OneHierarchyLevel ==
  \A d, e \in uses : d.attr = "parent_id" /\ e.attr = "parent_id" => d.from # e.to

\* Reverting a shared resource leaves it with users of its own tenant only.
UnshareKeepsOtherTenantsOut ==
  [][\A r \in (shared \cap live) \ shared' : r \in live' =>
       \A e \in uses' : e.to = r /\ e.attr # "parent_id" /\ e.attr \in usage_graph
                          => owner'[e.from] = owner'[r]]_vars

\* A request that is not an admin's makes no row use a private row of another
\* tenant, whatever is shared, reverted or deleted around it.
UserLinksStayInTenant ==
  [][\A e \in uses' \ uses :
       (/\ e.attr \in usage_graph \ {"parent_id"}
        /\ e.to \notin shared' /\ owner'[e.from] # owner'[e.to])
         => ~ \E c \in Contexts : ~c.admin /\ Request(c)]_vars

\* The deletion of a row never takes a reference away from a row that stays,
\* but for the columns that are set to null on purpose: the parent of a rule
\* set and the application policy group of a group.
DeletionTakesNoReference ==
  [][\A r \in live \ live' : \A e \in uses :
       e.to = r /\ e.from \in live' =>
         e.attr \in {"parent_id", "application_policy_group_id",
                     "policy_target_group_id"}]_vars

\* "Delete the PTG's PTs, which should not be in-use": deleting a group leaves
\* no policy target behind that has lost its group.
GroupDeletionLeavesNoTarget ==
  [][\A g \in PolicyTargetGroups : g \in live /\ g \notin live' =>
       LinksTo(g, "policy_target_group_id") = {}]_vars

====================
