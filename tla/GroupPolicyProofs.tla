-------------------------- MODULE GroupPolicyProofs --------------------------
(* Proofs about GroupPolicy.  SafeInv is inductive: that no reference
   hangs, that the shared column holds only existing rows, and that the
   policy rule sets form one level of hierarchy are what the sharing rule
   needs to survive a create, an update and a deletion.

   At the end, what DriverManagerProofs shows of requests is carried over
   to MCRequests, where they meet the rows of the group policy model. *)
EXTENDS MCRequests, TLAPS

ManagerProofs ==
  INSTANCE DriverManagerProofs WITH Workers <- RequestWorkers, Faults <- AnyFault

LEMMA TypesValues ==
  /\ DOMAIN Types = {"PolicyTarget", "PolicyTargetGroup", "ApplicationPolicyGroup",
                     "L2Policy", "L3Policy", "NetworkServicePolicy",
                     "PolicyClassifier", "PolicyAction", "PolicyRule",
                     "PolicyRuleSet", "ExternalSegment", "ExternalPolicy",
                     "NatPool"}
  /\ Types["PolicyTarget"] = PolicyTargets
  /\ Types["PolicyTargetGroup"] = PolicyTargetGroups
  /\ Types["ApplicationPolicyGroup"] = ApplicationPolicyGroups
  /\ Types["L2Policy"] = L2Policies
  /\ Types["L3Policy"] = L3Policies
  /\ Types["NetworkServicePolicy"] = NetworkServicePolicies
  /\ Types["PolicyClassifier"] = PolicyClassifiers
  /\ Types["PolicyAction"] = PolicyActions
  /\ Types["PolicyRule"] = PolicyRules
  /\ Types["PolicyRuleSet"] = PolicyRuleSets
  /\ Types["ExternalSegment"] = ExternalSegments
  /\ Types["ExternalPolicy"] = ExternalPolicies
  /\ Types["NatPool"] = NatPools
  BY DEF Types

LEMMA TypesOfResources ==
  /\ PolicyTargets \subseteq Resources
  /\ PolicyTargetGroups \subseteq Resources
  /\ ApplicationPolicyGroups \subseteq Resources
  /\ L2Policies \subseteq Resources
  /\ L3Policies \subseteq Resources
  /\ NetworkServicePolicies \subseteq Resources
  /\ PolicyClassifiers \subseteq Resources
  /\ PolicyActions \subseteq Resources
  /\ PolicyRules \subseteq Resources
  /\ PolicyRuleSets \subseteq Resources
  /\ ExternalSegments \subseteq Resources
  /\ ExternalPolicies \subseteq Resources
  /\ NatPools \subseteq Resources
<1>1. \A s \in DOMAIN Types : Types[s] \subseteq Resources
  BY DEF Resources
<1> QED BY <1>1, TypesValues

RowsOK ==
  /\ owner \in [Resources -> Tenants \cup {None}]
  /\ shared \subseteq live
  /\ uses \subseteq Edges

SafeInv == RowsOK /\ ReferencesExist /\ SharedUsesShared /\ OneHierarchyLevel

\* Every validated attribute but the parent's is visited on an unshare.
LEMMA UnshareCoversUsage == usage_graph \ {"parent_id"} = unshare_graph
  BY DEF usage_graph, unshare_graph, Attrs

\* The references a request sets in a row r that is not a rule set's child.
OwnLinks(r, links) ==
  /\ links \subseteq Edges
  /\ \A e \in links : e.from = r /\ e.attr # "parent_id" /\ WellTyped(e) /\ e.to \in live

\* Inserting a row whose references are validated preserves the invariant.
LEMMA InsertSafe ==
  ASSUME NEW c \in Contexts, NEW r \in Resources, NEW t \in Tenants,
         NEW isShared \in BOOLEAN, NEW links, OwnLinks(r, links),
         SafeInv, Insert(c, r, t, isShared, links)
  PROVE  SafeInv'
<1>1. r \notin live /\ owner[r] = None
  BY DEF Insert, live
<1>2. t # None
  BY ContextsAssumption
<1>3. owner' = [owner EXCEPT ![r] = t] /\ live' = live \cup {r}
  BY <1>1, <1>2 DEF Insert, live, SafeInv, RowsOK
<1>4. uses' = uses \cup links /\ shared' = IF isShared THEN shared \cup {r} ELSE shared
  BY DEF Insert
<1>5. RowsOK'
  BY <1>3, <1>4 DEF SafeInv, RowsOK, OwnLinks
<1>6. ReferencesExist'
  BY <1>3, <1>4 DEF SafeInv, ReferencesExist, OwnLinks, WellTyped
<1>7. SharedUsesShared'
  <2> SUFFICES ASSUME NEW e \in uses', e.attr \in usage_graph \ {"parent_id"},
                      e.from \in shared'
               PROVE  e.to \in shared'
    BY DEF SharedUsesShared
  <2>1. CASE e \in links
    <3>1. isShared
      BY <2>1, <1>1, <1>4 DEF OwnLinks, SafeInv, RowsOK
    <3>2. e.to \in shared
      BY <2>1, <3>1 DEF Insert, _validate_shared_create, _verify_sharing_consistency
    <3> QED BY <3>2, <1>4
  <2>2. CASE e \in uses
    <3>1. e.from \in live /\ e.from # r
      BY <2>2, <1>1 DEF SafeInv, ReferencesExist
    <3> QED BY <2>2, <3>1, <1>4 DEF SafeInv, SharedUsesShared
  <2> QED BY <2>1, <2>2, <1>4
<1>8. OneHierarchyLevel'
  BY <1>4 DEF SafeInv, OneHierarchyLevel, OwnLinks
<1> QED BY <1>5, <1>6, <1>7, <1>8 DEF SafeInv

\* So does an update of row r; the references it sets are its own or name r as
\* a parent.
LEMMA ModifySafe ==
  ASSUME NEW c \in Contexts, NEW r \in Resources, NEW isShared \in BOOLEAN,
         NEW replaced, NEW added,
         added \subseteq Edges,
         \A e \in added : /\ WellTyped(e) /\ e.from \in live /\ e.to \in live
                          /\ e.from = r \/ e.attr = "parent_id",
         RowsOK, ReferencesExist, SharedUsesShared,
         Modify(c, r, isShared, replaced, added)
  PROVE  RowsOK' /\ ReferencesExist' /\ SharedUsesShared'
<1> DEFINE after == (uses \ replaced) \cup added
<1>1. /\ r \in live /\ owner' = owner /\ live' = live
      /\ shared' = IF isShared THEN shared \cup {r} ELSE shared \ {r}
      /\ uses' = after
  BY DEF Modify, live
<1>2. RowsOK'
  BY <1>1 DEF RowsOK
<1>3. ReferencesExist'
  BY <1>1 DEF ReferencesExist, WellTyped
<1>4. SharedUsesShared'
  <2> SUFFICES ASSUME NEW e \in after, e.attr \in usage_graph \ {"parent_id"},
                      e.from \in shared', e.to \notin shared'
               PROVE  FALSE
    BY <1>1 DEF SharedUsesShared
  <2>1. CASE e.from = r
    <3>1. isShared
      BY <2>1, <1>1
    <3>2. e.to \in shared
      BY <2>1, <3>1 DEF Modify, _validate_shared_create, _verify_sharing_consistency
    <3> QED BY <3>1, <3>2, <1>1
  <2>2. CASE e.from # r
    <3>1. e \in uses /\ e.from \in shared /\ e.to \in shared
      BY <2>2, <1>1 DEF SharedUsesShared
    <3>2. e.to = r /\ ~isShared
      BY <3>1, <1>1
    <3>3. _validate_unshare(r, after)
      BY <3>1, <3>2 DEF Modify
    <3> QED BY <3>1, <3>2, <3>3, UnshareCoversUsage DEF _validate_unshare
  <2> QED BY <2>1, <2>2
<1> QED BY <1>2, <1>3, <1>4

\* An update that sets no parent keeps the hierarchy as well.
LEMMA ModifyOwnSafe ==
  ASSUME NEW c \in Contexts, NEW r \in Resources, NEW isShared \in BOOLEAN,
         NEW replaced, NEW added, OwnLinks(r, added),
         SafeInv, Modify(c, r, isShared, replaced, added)
  PROVE  SafeInv'
<1>1. r \in live /\ uses' = (uses \ replaced) \cup added
  BY DEF Modify
<1>2. RowsOK' /\ ReferencesExist' /\ SharedUsesShared'
  BY <1>1, ModifySafe DEF OwnLinks, SafeInv
<1>3. OneHierarchyLevel'
  BY <1>1 DEF SafeInv, OneHierarchyLevel, OwnLinks
<1> QED BY <1>2, <1>3 DEF SafeInv

\* So does the deletion of a row.
LEMMA EraseSafe ==
  ASSUME NEW r, SafeInv, Erase(r)
  PROVE  SafeInv'
<1>1. /\ owner' = [owner EXCEPT ![r] = None] /\ shared' = shared \ {r}
      /\ uses' = {e \in uses : e.from # r /\ e.to # r}
  BY DEF Erase
<1>2. live' = live \ {r}
  BY <1>1 DEF SafeInv, RowsOK, live
<1>3. RowsOK'
  BY <1>1, <1>2 DEF SafeInv, RowsOK
<1>4. ReferencesExist'
  BY <1>1, <1>2 DEF SafeInv, ReferencesExist, WellTyped
<1>5. SharedUsesShared' /\ OneHierarchyLevel'
  BY <1>1 DEF SafeInv, SharedUsesShared, OneHierarchyLevel
<1> QED BY <1>3, <1>4, <1>5 DEF SafeInv

\* The references one attribute sets are well typed when its values are rows
\* of the type the attribute names.
LEMMA LinkOwn ==
  ASSUME NEW attr \in Attrs \ {"parent_id"},
         NEW r \in Reference[attr].holders,
         NEW targets \in SUBSET (Reference[attr].targets \cap live)
  PROVE  OwnLinks(r, Link(r, attr, targets))
<1>1. r \in Resources
  BY TypesOfResources DEF Reference, Attrs
<1>2. targets \subseteq Resources
  BY DEF live
<1> QED BY <1>1, <1>2 DEF OwnLinks, Link, WellTyped, Edges

LEMMA OwnUnion ==
  ASSUME NEW r, NEW S, NEW T, OwnLinks(r, S), OwnLinks(r, T)
  PROVE  OwnLinks(r, S \cup T)
  BY DEF OwnLinks

LEMMA OwnNothing == ASSUME NEW r PROVE OwnLinks(r, {})
  BY DEF OwnLinks

LEMMA FoundTyped ==
  ASSUME NEW c, NEW S
  PROVE  /\ Found(c, S) \subseteq S \cap live
         /\ \A T \in SUBSET Found(c, S) : T \in SUBSET (S \cap live)
         /\ \A T \in Some(Found(c, S)) : T \in SUBSET (S \cap live)
  BY DEF Found, Some

LEMMA ReferenceValues ==
  /\ Reference["external_segments"].holders = L3Policies \cup ExternalPolicies
  /\ Reference["external_segments"].targets = ExternalSegments
  /\ Reference["l3_policy_id"] = [holders |-> L2Policies, targets |-> L3Policies]
  /\ Reference["l2_policy_id"] = [holders |-> PolicyTargetGroups, targets |-> L2Policies]
  /\ Reference["network_service_policy_id"] =
       [holders |-> PolicyTargetGroups, targets |-> NetworkServicePolicies]
  /\ Reference["provided_policy_rule_sets"] =
       [holders |-> PolicyTargetGroups \cup ExternalPolicies, targets |-> PolicyRuleSets]
  /\ Reference["consumed_policy_rule_sets"] =
       [holders |-> PolicyTargetGroups \cup ExternalPolicies, targets |-> PolicyRuleSets]
  /\ Reference["policy_classifier_id"] =
       [holders |-> PolicyRules, targets |-> PolicyClassifiers]
  /\ Reference["policy_actions"] = [holders |-> PolicyRules, targets |-> PolicyActions]
  /\ Reference["policy_rules"] = [holders |-> PolicyRuleSets, targets |-> PolicyRules]
  /\ Reference["parent_id"] = [holders |-> PolicyRuleSets, targets |-> PolicyRuleSets]
  /\ Reference["external_segment_id"] = [holders |-> NatPools, targets |-> ExternalSegments]
  /\ Reference["policy_target_group_id"] =
       [holders |-> PolicyTargets, targets |-> PolicyTargetGroups]
  /\ Reference["application_policy_group_id"] =
       [holders |-> PolicyTargetGroups, targets |-> ApplicationPolicyGroups]
  /\ Reference["proxied_group_id"] =
       [holders |-> PolicyTargetGroups, targets |-> PolicyTargetGroups]
  BY DEF Reference

\* The references of a group, of a rule and of an external policy.
LEMMA GroupLinksOwn ==
  ASSUME NEW r \in PolicyTargetGroups,
         NEW l2p \in SUBSET (L2Policies \cap live),
         NEW nsp \in SUBSET (NetworkServicePolicies \cap live),
         NEW apg \in SUBSET (ApplicationPolicyGroups \cap live),
         NEW provided \in SUBSET (PolicyRuleSets \cap live),
         NEW consumed \in SUBSET (PolicyRuleSets \cap live)
  PROVE  OwnLinks(r, GroupLinks(r, l2p, nsp, apg, provided, consumed))
<1>1. OwnLinks(r, Link(r, "l2_policy_id", l2p))
  BY LinkOwn, ReferenceValues DEF Attrs
<1>2. OwnLinks(r, Link(r, "network_service_policy_id", nsp))
  BY LinkOwn, ReferenceValues DEF Attrs
<1>3. OwnLinks(r, Link(r, "application_policy_group_id", apg))
  BY LinkOwn, ReferenceValues DEF Attrs
<1>4. OwnLinks(r, Link(r, "provided_policy_rule_sets", provided))
  BY LinkOwn, ReferenceValues DEF Attrs
<1>5. OwnLinks(r, Link(r, "consumed_policy_rule_sets", consumed))
  BY LinkOwn, ReferenceValues DEF Attrs
<1> QED BY <1>1, <1>2, <1>3, <1>4, <1>5 DEF OwnLinks, GroupLinks

LEMMA RuleLinksOwn ==
  ASSUME NEW r \in PolicyRules, NEW classifier \in PolicyClassifiers \cap live,
         NEW actions \in SUBSET (PolicyActions \cap live)
  PROVE  OwnLinks(r, RuleLinks(r, classifier, actions))
<1>1. OwnLinks(r, Link(r, "policy_classifier_id", {classifier}))
  BY LinkOwn, ReferenceValues DEF Attrs
<1>2. OwnLinks(r, Link(r, "policy_actions", actions))
  BY LinkOwn, ReferenceValues DEF Attrs
<1> QED BY <1>1, <1>2, OwnUnion DEF RuleLinks

LEMMA PolicyLinksOwn ==
  ASSUME NEW r \in ExternalPolicies,
         NEW es \in SUBSET (ExternalSegments \cap live),
         NEW provided \in SUBSET (PolicyRuleSets \cap live),
         NEW consumed \in SUBSET (PolicyRuleSets \cap live)
  PROVE  OwnLinks(r, PolicyLinks(r, es, provided, consumed))
<1>1. OwnLinks(r, Link(r, "external_segments", es))
  BY LinkOwn, ReferenceValues DEF Attrs
<1>2. OwnLinks(r, Link(r, "provided_policy_rule_sets", provided))
  BY LinkOwn, ReferenceValues DEF Attrs
<1>3. OwnLinks(r, Link(r, "consumed_policy_rule_sets", consumed))
  BY LinkOwn, ReferenceValues DEF Attrs
<1> QED BY <1>1, <1>2, <1>3 DEF OwnLinks, PolicyLinks


\* What the quantifiers of the actions range over.
LEMMA TenantsForTyped == \A c \in Contexts : TenantsFor(c) \subseteq Tenants
  BY ContextsAssumption DEF TenantsFor

LEMMA SharedValuesTyped ==
  ASSUME NEW c, NEW now \in BOOLEAN
  PROVE  SharedValues(c, now) \subseteq BOOLEAN
  BY DEF SharedValues

--------------------
(* The requests of each type of resource: each inserts one row, modifies
   one row, or erases one row. *)

Inserts(c, r) ==
  \E t \in TenantsFor(c), isShared \in BOOLEAN : \E links :
    OwnLinks(r, links) /\ Insert(c, r, t, isShared, links)

Modifies(c, r) ==
  \E isShared \in BOOLEAN : \E replaced, added :
    OwnLinks(r, added) /\ Modify(c, r, isShared, replaced, added)

LEMMA InsertsIntro ==
  ASSUME NEW c, NEW r, NEW t \in TenantsFor(c), NEW isShared \in BOOLEAN, NEW links,
         OwnLinks(r, links), Insert(c, r, t, isShared, links)
  PROVE  Inserts(c, r)
  BY DEF Inserts

LEMMA ModifiesIntro ==
  ASSUME NEW c, NEW r, NEW isShared \in BOOLEAN, NEW replaced, NEW added,
         OwnLinks(r, added), Modify(c, r, isShared, replaced, added)
  PROVE  Modifies(c, r)
  BY DEF Modifies

LEMMA PolicyTargetShape ==
  ASSUME NEW c \in Contexts, NEW r \in PolicyTargets
  PROVE  /\ CreatePolicyTarget(c, r) => Inserts(c, r)
         /\ UpdatePolicyTarget(c, r) => Modifies(c, r)
         /\ DeletePolicyTarget(c, r) => Erase(r)
<1> r \in Resources
  BY TypesOfResources
<1>1. \A ptg \in Some(Found(c, PolicyTargetGroups)) :
        OwnLinks(r, Link(r, "policy_target_group_id", ptg))
  BY LinkOwn, ReferenceValues, FoundTyped DEF Attrs
<1>2. ASSUME CreatePolicyTarget(c, r) PROVE Inserts(c, r)
  BY <1>1, <1>2, InsertsIntro DEF CreatePolicyTarget
<1>3. ASSUME UpdatePolicyTarget(c, r) PROVE Modifies(c, r)
  BY <1>1, <1>3, ModifiesIntro DEF UpdatePolicyTarget
<1>4. ASSUME DeletePolicyTarget(c, r) PROVE Erase(r)
  BY <1>4 DEF DeletePolicyTarget, Remove
<1> QED BY <1>2, <1>3, <1>4

LEMMA ApplicationPolicyGroupShape ==
  ASSUME NEW c \in Contexts, NEW r \in ApplicationPolicyGroups
  PROVE  /\ CreateApplicationPolicyGroup(c, r) => Inserts(c, r)
         /\ UpdateApplicationPolicyGroup(c, r) => Modifies(c, r)
         /\ DeleteApplicationPolicyGroup(c, r) => Erase(r)
<1> r \in Resources /\ (r \in shared) \in BOOLEAN
  BY TypesOfResources
<1>1. ASSUME CreateApplicationPolicyGroup(c, r) PROVE Inserts(c, r)
  BY <1>1, OwnNothing, InsertsIntro, SharedValuesTyped DEF CreateApplicationPolicyGroup
<1>2. ASSUME UpdateApplicationPolicyGroup(c, r) PROVE Modifies(c, r)
  BY <1>2, OwnNothing, ModifiesIntro, SharedValuesTyped DEF UpdateApplicationPolicyGroup
<1>3. ASSUME DeleteApplicationPolicyGroup(c, r) PROVE Erase(r)
  BY <1>3 DEF DeleteApplicationPolicyGroup, Remove
<1> QED BY <1>1, <1>2, <1>3

LEMMA L2PolicyShape ==
  ASSUME NEW c \in Contexts, NEW r \in L2Policies
  PROVE  /\ CreateL2Policy(c, r) => Inserts(c, r)
         /\ UpdateL2Policy(c, r) => Modifies(c, r)
         /\ DeleteL2Policy(c, r) => Erase(r)
<1> r \in Resources /\ (r \in shared) \in BOOLEAN
  BY TypesOfResources
<1>1. \A l3p \in Some(Found(c, L3Policies)) : OwnLinks(r, Link(r, "l3_policy_id", l3p))
  BY LinkOwn, ReferenceValues, FoundTyped DEF Attrs
<1>2. ASSUME CreateL2Policy(c, r) PROVE Inserts(c, r)
  BY <1>1, <1>2, InsertsIntro, SharedValuesTyped DEF CreateL2Policy
<1>3. ASSUME UpdateL2Policy(c, r) PROVE Modifies(c, r)
  BY <1>1, <1>3, ModifiesIntro, SharedValuesTyped DEF UpdateL2Policy
<1>4. ASSUME DeleteL2Policy(c, r) PROVE Erase(r)
  BY <1>4 DEF DeleteL2Policy, Remove
<1> QED BY <1>2, <1>3, <1>4

LEMMA L3PolicyShape ==
  ASSUME NEW c \in Contexts, NEW r \in L3Policies
  PROVE  /\ CreateL3Policy(c, r) => Inserts(c, r)
         /\ UpdateL3Policy(c, r) => Modifies(c, r)
         /\ DeleteL3Policy(c, r) => Erase(r)
<1> r \in Resources /\ (r \in shared) \in BOOLEAN
  BY TypesOfResources
<1>1. \A es \in SUBSET Found(c, ExternalSegments) :
        OwnLinks(r, Link(r, "external_segments", es))
  BY LinkOwn, ReferenceValues, FoundTyped DEF Attrs
<1>2. ASSUME CreateL3Policy(c, r) PROVE Inserts(c, r)
  BY <1>1, <1>2, InsertsIntro, SharedValuesTyped DEF CreateL3Policy
<1>3. ASSUME UpdateL3Policy(c, r) PROVE Modifies(c, r)
  BY <1>1, <1>3, ModifiesIntro, SharedValuesTyped DEF UpdateL3Policy
<1>4. ASSUME DeleteL3Policy(c, r) PROVE Erase(r)
  BY <1>4 DEF DeleteL3Policy, Remove
<1> QED BY <1>2, <1>3, <1>4

LEMMA NetworkServicePolicyShape ==
  ASSUME NEW c \in Contexts, NEW r \in NetworkServicePolicies
  PROVE  /\ CreateNetworkServicePolicy(c, r) => Inserts(c, r)
         /\ UpdateNetworkServicePolicy(c, r) => Modifies(c, r)
         /\ DeleteNetworkServicePolicy(c, r) => Erase(r)
<1> r \in Resources /\ (r \in shared) \in BOOLEAN
  BY TypesOfResources
<1>1. ASSUME CreateNetworkServicePolicy(c, r) PROVE Inserts(c, r)
  BY <1>1, OwnNothing, InsertsIntro, SharedValuesTyped DEF CreateNetworkServicePolicy
<1>2. ASSUME UpdateNetworkServicePolicy(c, r) PROVE Modifies(c, r)
  BY <1>2, OwnNothing, ModifiesIntro, SharedValuesTyped DEF UpdateNetworkServicePolicy
<1>3. ASSUME DeleteNetworkServicePolicy(c, r) PROVE Erase(r)
  BY <1>3 DEF DeleteNetworkServicePolicy, Remove
<1> QED BY <1>1, <1>2, <1>3

LEMMA PolicyClassifierShape ==
  ASSUME NEW c \in Contexts, NEW r \in PolicyClassifiers
  PROVE  /\ CreatePolicyClassifier(c, r) => Inserts(c, r)
         /\ UpdatePolicyClassifier(c, r) => Modifies(c, r)
         /\ DeletePolicyClassifier(c, r) => Erase(r)
<1> r \in Resources /\ (r \in shared) \in BOOLEAN
  BY TypesOfResources
<1>1. ASSUME CreatePolicyClassifier(c, r) PROVE Inserts(c, r)
  BY <1>1, OwnNothing, InsertsIntro, SharedValuesTyped DEF CreatePolicyClassifier
<1>2. ASSUME UpdatePolicyClassifier(c, r) PROVE Modifies(c, r)
  BY <1>2, OwnNothing, ModifiesIntro, SharedValuesTyped DEF UpdatePolicyClassifier
<1>3. ASSUME DeletePolicyClassifier(c, r) PROVE Erase(r)
  BY <1>3 DEF DeletePolicyClassifier, Remove
<1> QED BY <1>1, <1>2, <1>3

LEMMA PolicyActionShape ==
  ASSUME NEW c \in Contexts, NEW r \in PolicyActions
  PROVE  /\ CreatePolicyAction(c, r) => Inserts(c, r)
         /\ UpdatePolicyAction(c, r) => Modifies(c, r)
         /\ DeletePolicyAction(c, r) => Erase(r)
<1> r \in Resources /\ (r \in shared) \in BOOLEAN
  BY TypesOfResources
<1>1. ASSUME CreatePolicyAction(c, r) PROVE Inserts(c, r)
  BY <1>1, OwnNothing, InsertsIntro, SharedValuesTyped DEF CreatePolicyAction
<1>2. ASSUME UpdatePolicyAction(c, r) PROVE Modifies(c, r)
  BY <1>2, OwnNothing, ModifiesIntro, SharedValuesTyped DEF UpdatePolicyAction
<1>3. ASSUME DeletePolicyAction(c, r) PROVE Erase(r)
  BY <1>3 DEF DeletePolicyAction, Remove
<1> QED BY <1>1, <1>2, <1>3

LEMMA ExternalSegmentShape ==
  ASSUME NEW c \in Contexts, NEW r \in ExternalSegments
  PROVE  /\ CreateExternalSegment(c, r) => Inserts(c, r)
         /\ UpdateExternalSegment(c, r) => Modifies(c, r)
         /\ DeleteExternalSegment(c, r) => Erase(r)
<1> r \in Resources /\ (r \in shared) \in BOOLEAN
  BY TypesOfResources
<1>1. ASSUME CreateExternalSegment(c, r) PROVE Inserts(c, r)
  BY <1>1, OwnNothing, InsertsIntro, SharedValuesTyped DEF CreateExternalSegment
<1>2. ASSUME UpdateExternalSegment(c, r) PROVE Modifies(c, r)
  BY <1>2, OwnNothing, ModifiesIntro, SharedValuesTyped DEF UpdateExternalSegment
<1>3. ASSUME DeleteExternalSegment(c, r) PROVE Erase(r)
  BY <1>3 DEF DeleteExternalSegment, Remove
<1> QED BY <1>1, <1>2, <1>3

LEMMA PolicyRuleShape ==
  ASSUME NEW c \in Contexts, NEW r \in PolicyRules
  PROVE  /\ CreatePolicyRule(c, r) => Inserts(c, r)
         /\ UpdatePolicyRule(c, r) => Modifies(c, r)
         /\ DeletePolicyRule(c, r) => Erase(r)
<1> r \in Resources /\ (r \in shared) \in BOOLEAN
  BY TypesOfResources
<1>1. \A classifier \in Found(c, PolicyClassifiers), actions \in SUBSET Found(c, PolicyActions) :
        OwnLinks(r, RuleLinks(r, classifier, actions))
  BY RuleLinksOwn, FoundTyped
<1>2. ASSUME CreatePolicyRule(c, r) PROVE Inserts(c, r)
  BY <1>1, <1>2, InsertsIntro, SharedValuesTyped DEF CreatePolicyRule
<1>3. ASSUME UpdatePolicyRule(c, r) PROVE Modifies(c, r)
  BY <1>1, <1>3, ModifiesIntro, SharedValuesTyped DEF UpdatePolicyRule
<1>4. ASSUME DeletePolicyRule(c, r) PROVE Erase(r)
  BY <1>4 DEF DeletePolicyRule, Remove
<1> QED BY <1>2, <1>3, <1>4

LEMMA ExternalPolicyShape ==
  ASSUME NEW c \in Contexts, NEW r \in ExternalPolicies
  PROVE  /\ CreateExternalPolicy(c, r) => Inserts(c, r)
         /\ UpdateExternalPolicy(c, r) => Modifies(c, r)
         /\ DeleteExternalPolicy(c, r) => Erase(r)
<1> r \in Resources /\ (r \in shared) \in BOOLEAN
  BY TypesOfResources
<1>1. \A es \in SUBSET Found(c, ExternalSegments),
         provided, consumed \in SUBSET Found(c, PolicyRuleSets) :
        OwnLinks(r, PolicyLinks(r, es, provided, consumed))
  BY PolicyLinksOwn, FoundTyped
<1>2. ASSUME CreateExternalPolicy(c, r) PROVE Inserts(c, r)
  BY <1>1, <1>2, InsertsIntro, SharedValuesTyped DEF CreateExternalPolicy
<1>3. ASSUME UpdateExternalPolicy(c, r) PROVE Modifies(c, r)
  BY <1>1, <1>3, ModifiesIntro, SharedValuesTyped DEF UpdateExternalPolicy
<1>4. ASSUME DeleteExternalPolicy(c, r) PROVE Erase(r)
  BY <1>4 DEF DeleteExternalPolicy, Remove
<1> QED BY <1>2, <1>3, <1>4

LEMMA NatPoolShape ==
  ASSUME NEW c \in Contexts, NEW r \in NatPools
  PROVE  /\ CreateNatPool(c, r) => Inserts(c, r)
         /\ UpdateNatPool(c, r) => Modifies(c, r)
         /\ DeleteNatPool(c, r) => Erase(r)
<1> r \in Resources /\ (r \in shared) \in BOOLEAN
  BY TypesOfResources
<1>1. \A es \in Some(Found(c, ExternalSegments)) :
        OwnLinks(r, Link(r, "external_segment_id", es))
  BY LinkOwn, ReferenceValues, FoundTyped DEF Attrs
<1>2. ASSUME CreateNatPool(c, r) PROVE Inserts(c, r)
  BY <1>1, <1>2, InsertsIntro, SharedValuesTyped DEF CreateNatPool
<1>3. ASSUME UpdateNatPool(c, r) PROVE Modifies(c, r)
  BY <1>1, <1>3, ModifiesIntro, SharedValuesTyped DEF UpdateNatPool
<1>4. ASSUME DeleteNatPool(c, r) PROVE Erase(r)
  BY <1>4 DEF DeleteNatPool, Remove
<1> QED BY <1>2, <1>3, <1>4

\* A group's own references, and the group it is the proxy of.
LEMMA PolicyTargetGroupShape ==
  ASSUME NEW c \in Contexts, NEW r \in PolicyTargetGroups
  PROVE  /\ CreatePolicyTargetGroup(c, r) => Inserts(c, r)
         /\ UpdatePolicyTargetGroup(c, r) => Modifies(c, r)
<1> r \in Resources /\ (r \in shared) \in BOOLEAN
  BY TypesOfResources
<1>1. \A l2p \in Some(Found(c, L2Policies)),
         nsp \in Some(Found(c, NetworkServicePolicies)),
         apg \in Some(ApplicationPolicyGroups \cap live),
         provided \in SUBSET Found(c, PolicyRuleSets),
         consumed \in SUBSET Found(c, PolicyRuleSets) :
        OwnLinks(r, GroupLinks(r, l2p, nsp, apg, provided, consumed))
  <2>1. \A apg \in Some(ApplicationPolicyGroups \cap live) :
          apg \in SUBSET (ApplicationPolicyGroups \cap live)
    BY DEF Some
  <2> QED BY <2>1, FoundTyped, GroupLinksOwn
<1>2. \A proxied \in Some(PolicyTargetGroups \cap live) :
        OwnLinks(r, Link(r, "proxied_group_id", proxied))
  <2>1. \A proxied \in Some(PolicyTargetGroups \cap live) :
          proxied \in SUBSET (PolicyTargetGroups \cap live)
    BY DEF Some
  <2> QED BY <2>1, LinkOwn, ReferenceValues DEF Attrs
<1>3. ASSUME CreatePolicyTargetGroup(c, r) PROVE Inserts(c, r)
  <2>1. PICK t \in TenantsFor(c), isShared \in SharedValues(c, FALSE),
             l2p \in Some(Found(c, L2Policies)),
             nsp \in Some(Found(c, NetworkServicePolicies)),
             apg \in Some(ApplicationPolicyGroups \cap live),
             provided \in SUBSET Found(c, PolicyRuleSets),
             consumed \in SUBSET Found(c, PolicyRuleSets),
             proxied \in Some(PolicyTargetGroups \cap live) :
               Insert(c, r, t, isShared,
                      GroupLinks(r, l2p, nsp, apg, provided, consumed)
                        \cup Link(r, "proxied_group_id", proxied))
    BY <1>3, Zenon DEF CreatePolicyTargetGroup
  <2>2. OwnLinks(r, GroupLinks(r, l2p, nsp, apg, provided, consumed))
    BY <1>1
  <2>3. OwnLinks(r, GroupLinks(r, l2p, nsp, apg, provided, consumed)
                      \cup Link(r, "proxied_group_id", proxied))
    BY <1>2, <2>2, OwnUnion
  <2>4. isShared \in BOOLEAN
    BY SharedValuesTyped
  <2> QED BY <2>1, <2>3, <2>4, InsertsIntro
<1>4. ASSUME UpdatePolicyTargetGroup(c, r) PROVE Modifies(c, r)
  <2>1. PICK isShared \in SharedValues(c, r \in shared),
             l2p \in Some(Found(c, L2Policies)),
             nsp \in Some(Found(c, NetworkServicePolicies)),
             apg \in Some(ApplicationPolicyGroups \cap live),
             provided \in SUBSET Found(c, PolicyRuleSets),
             consumed \in SUBSET Found(c, PolicyRuleSets) :
               Modify(c, r, isShared, Replaced(r, Attrs \ {"proxied_group_id"}),
                      GroupLinks(r, l2p, nsp, apg, provided, consumed))
    BY <1>4, Zenon DEF UpdatePolicyTargetGroup
  <2>2. OwnLinks(r, GroupLinks(r, l2p, nsp, apg, provided, consumed))
    BY <1>1
  <2>3. isShared \in BOOLEAN
    BY SharedValuesTyped
  <2> QED BY <2>1, <2>2, <2>3, ModifiesIntro
<1> QED BY <1>3, <1>4

\* The links a rule set gets as a parent are well typed.
LEMMA ChildLinksTyped ==
  ASSUME NEW r \in PolicyRuleSets, NEW children \in SUBSET (PolicyRuleSets \cap live),
         NEW e \in ChildLinks(r, children)
  PROVE  /\ e \in Edges /\ e.attr = "parent_id" /\ e.to = r
         /\ e.from \in children /\ e.from \in live
         /\ e.from \in Reference[e.attr].holders /\ e.to \in Reference[e.attr].targets
<1>1. /\ e = [from |-> e.from, attr |-> "parent_id", to |-> r]
      /\ e.from \in children
  BY DEF ChildLinks, Link
<1>2. e.from \in PolicyRuleSets /\ e.from \in Resources /\ r \in Resources
  BY <1>1, TypesOfResources
<1> QED BY <1>1, <1>2, ReferenceValues DEF Edges, Attrs

\* Adding children under the rule set r keeps one level: a child has none of
\* its own, and r, which gets them, has no parent.
LEMMA HierarchyKept ==
  ASSUME NEW r \in PolicyRuleSets, NEW children \in SUBSET (PolicyRuleSets \cap live),
         NEW own, \A e \in own : e.attr # "parent_id",
         NEW kept \in SUBSET uses,
         OneHierarchyLevel, _set_children_allowed(r, children),
         NEW d \in kept \cup own \cup ChildLinks(r, children), d.attr = "parent_id",
         NEW e \in kept \cup own \cup ChildLinks(r, children), e.attr = "parent_id"
  PROVE  d.from # e.to
<1>1. CASE d \in kept /\ e \in kept
  BY <1>1 DEF OneHierarchyLevel
<1>2. CASE d \in ChildLinks(r, children) /\ e \in kept
  <2>1. d.from \in children
    BY <1>2, ChildLinksTyped
  <2>2. Children(d.from) = {}
    BY <2>1 DEF _set_children_allowed
  <2> QED BY <1>2, <2>2 DEF Children, LinksTo
<1>3. CASE d \in kept /\ e \in ChildLinks(r, children)
  <2>1. e.to = r /\ children # {}
    BY <1>3, ChildLinksTyped
  <2>2. LinksFrom(r, "parent_id") = {}
    BY <2>1 DEF _set_children_allowed
  <2> QED BY <1>3, <2>1, <2>2 DEF LinksFrom
<1>4. CASE d \in ChildLinks(r, children) /\ e \in ChildLinks(r, children)
  <2>1. d.from \in children /\ e.to = r
    BY <1>4, ChildLinksTyped
  <2> QED BY <2>1 DEF _set_children_allowed
<1> QED BY <1>1, <1>2, <1>3, <1>4

LEMMA RuleSetLinksOwn ==
  ASSUME NEW c, NEW r \in PolicyRuleSets, NEW rules \in SUBSET Found(c, PolicyRules)
  PROVE  OwnLinks(r, Link(r, "policy_rules", rules))
  BY LinkOwn, ReferenceValues, FoundTyped DEF Attrs

LEMMA CreatePolicyRuleSetSafe ==
  ASSUME NEW c \in Contexts, NEW r \in PolicyRuleSets, SafeInv,
         CreatePolicyRuleSet(c, r)
  PROVE  SafeInv'
<1> r \in Resources
  BY TypesOfResources
<1>1. PICK t \in TenantsFor(c), isShared \in SharedValues(c, FALSE),
           rules \in SUBSET Found(c, PolicyRules),
           children \in SUBSET Found(c, PolicyRuleSets) :
             /\ r \notin live
             /\ _set_children_allowed(r, children)
             /\ _validate_shared_create(c, t, isShared, Link(r, "policy_rules", rules))
             /\ owner' = [owner EXCEPT ![r] = t]
             /\ shared' = IF isShared THEN shared \cup {r} ELSE shared
             /\ uses' = (uses \ FormerLinks(r, children))
                          \cup Link(r, "policy_rules", rules) \cup ChildLinks(r, children)
  BY DEF CreatePolicyRuleSet
<1> DEFINE own == Link(r, "policy_rules", rules)
           hung == ChildLinks(r, children)
           kept == uses \ FormerLinks(r, children)
<1>2. t \in Tenants /\ t # None /\ isShared \in BOOLEAN
  BY TenantsForTyped, SharedValuesTyped, ContextsAssumption
<1>3. children \in SUBSET (PolicyRuleSets \cap live)
  BY FoundTyped
<1>4. live' = live \cup {r} /\ owner' \in [Resources -> Tenants \cup {None}]
  BY <1>1, <1>2 DEF live, SafeInv, RowsOK
<1>5. OwnLinks(r, own)
  BY RuleSetLinksOwn
<1>6. \A e \in hung : /\ e \in Edges /\ e.attr = "parent_id" /\ e.to = r /\ e.from \in live
                      /\ WellTyped(e)
  BY <1>3, ChildLinksTyped DEF WellTyped
<1> HIDE DEF own, hung, kept
<1>7. uses' = kept \cup own \cup hung /\ kept \subseteq uses
  BY <1>1 DEF own, hung, kept
<1>8. RowsOK'
  BY <1>1, <1>4, <1>5, <1>6, <1>7 DEF SafeInv, RowsOK, OwnLinks
<1>9. ReferencesExist'
  BY <1>4, <1>5, <1>6, <1>7 DEF SafeInv, ReferencesExist, OwnLinks, WellTyped
<1>10. SharedUsesShared'
  <2> SUFFICES ASSUME NEW e \in uses', e.attr \in usage_graph \ {"parent_id"},
                      e.from \in shared'
               PROVE  e.to \in shared'
    BY DEF SharedUsesShared
  <2>1. CASE e \in own
    <3>1. e.from = r /\ isShared
      BY <2>1, <1>1, <1>5 DEF OwnLinks, SafeInv, RowsOK
    <3>2. e.to \in shared
      BY <2>1, <3>1, <1>1 DEF own, _validate_shared_create, _verify_sharing_consistency
    <3> QED BY <3>2, <1>1
  <2>2. CASE e \in uses
    <3>1. e.from \in live /\ e.from # r
      BY <2>2, <1>1 DEF SafeInv, ReferencesExist
    <3> QED BY <2>2, <3>1, <1>1 DEF SafeInv, SharedUsesShared
  <2> QED BY <2>1, <2>2, <1>6, <1>7
<1>11. OneHierarchyLevel'
  <2> SUFFICES ASSUME NEW d \in uses', NEW e \in uses',
                      d.attr = "parent_id", e.attr = "parent_id"
               PROVE  d.from # e.to
    BY DEF OneHierarchyLevel
  <2> QED BY <1>1, <1>3, <1>5, <1>7, HierarchyKept DEF SafeInv, OwnLinks, hung
<1> QED BY <1>8, <1>9, <1>10, <1>11 DEF SafeInv

LEMMA UpdatePolicyRuleSetSafe ==
  ASSUME NEW c \in Contexts, NEW r \in PolicyRuleSets, SafeInv,
         UpdatePolicyRuleSet(c, r)
  PROVE  SafeInv'
<1> r \in Resources /\ (r \in shared) \in BOOLEAN
  BY TypesOfResources
<1>1. PICK isShared \in SharedValues(c, r \in shared),
           rules \in SUBSET Found(c, PolicyRules),
           children \in SUBSET Found(c, PolicyRuleSets) :
             /\ _set_children_allowed(r, children)
             /\ Modify(c, r, isShared,
                       Replaced(r, {"policy_rules"}) \cup FormerLinks(r, children),
                       Link(r, "policy_rules", rules) \cup ChildLinks(r, children))
  BY DEF UpdatePolicyRuleSet
<1> DEFINE own == Link(r, "policy_rules", rules)
           hung == ChildLinks(r, children)
           replaced == Replaced(r, {"policy_rules"}) \cup FormerLinks(r, children)
           kept == uses \ replaced
<1>2. isShared \in BOOLEAN
  BY SharedValuesTyped
<1>3. children \in SUBSET (PolicyRuleSets \cap live)
  BY FoundTyped
<1>4. OwnLinks(r, own)
  BY RuleSetLinksOwn
<1>5. \A e \in hung : /\ e \in Edges /\ e.attr = "parent_id" /\ e.to = r /\ e.from \in live
                      /\ WellTyped(e)
  BY <1>3, ChildLinksTyped DEF WellTyped
<1>6. r \in live /\ uses' = kept \cup own \cup hung /\ kept \subseteq uses
  BY <1>1 DEF Modify
<1> HIDE DEF own, hung, kept
<1>7. RowsOK' /\ ReferencesExist' /\ SharedUsesShared'
  <2>1. own \cup hung \subseteq Edges
    BY <1>4, <1>5 DEF OwnLinks
  <2>2. \A e \in own \cup hung : /\ WellTyped(e) /\ e.from \in live /\ e.to \in live
                                 /\ e.from = r \/ e.attr = "parent_id"
    BY <1>4, <1>5, <1>6 DEF OwnLinks
  <2>3. Modify(c, r, isShared, replaced, own \cup hung)
    BY <1>1 DEF own, hung
  <2> HIDE DEF replaced
  <2> QED BY <2>1, <2>2, <2>3, <1>2, ModifySafe DEF SafeInv
<1>8. OneHierarchyLevel'
  <2> SUFFICES ASSUME NEW d \in uses', NEW e \in uses',
                      d.attr = "parent_id", e.attr = "parent_id"
               PROVE  d.from # e.to
    BY DEF OneHierarchyLevel
  <2>1. /\ \A x \in own : x.attr # "parent_id"
        /\ kept \in SUBSET uses
        /\ d \in kept \cup own \cup ChildLinks(r, children)
        /\ e \in kept \cup own \cup ChildLinks(r, children)
    BY <1>4, <1>6 DEF OwnLinks, hung
  <2> QED BY <1>1, <1>3, <2>1, HierarchyKept DEF SafeInv
<1> QED BY <1>7, <1>8 DEF SafeInv

--------------------
(* The deletion of a group, and the specification *)

\* A step of a running deletion only takes rows and references away.
LEMMA DeletionStepSafe ==
  ASSUME NEW w \in Workers, SafeInv, DeletionStep(w)
  PROVE  SafeInv'
<1>1. ASSUME NEW r, Erase(r) PROVE SafeInv'
  BY <1>1, EraseSafe
<1>2. ASSUME UNCHANGED Rows PROVE SafeInv'
  BY <1>2 DEF Rows, SafeInv, RowsOK, ReferencesExist, SharedUsesShared,
       OneHierarchyLevel, live, WellTyped
<1>3. CASE ClearRuleSets(w)
  <2>1. owner' = owner /\ shared' = shared /\ uses' \subseteq uses
    BY <1>3 DEF ClearRuleSets
  <2> QED BY <2>1 DEF SafeInv, RowsOK, ReferencesExist, SharedUsesShared,
            OneHierarchyLevel, live, WellTyped
<1>4. CASE DeleteProxyGroup(w)
  BY <1>2, <1>4 DEF DeleteProxyGroup
<1>5. CASE ListTargets(w)
  BY <1>2, <1>5 DEF ListTargets
<1>6. CASE DeleteTarget(w)
  BY <1>1, <1>2, <1>6 DEF DeleteTarget
<1>7. CASE DeleteGroupRow(w)
  BY <1>1, <1>2, <1>7 DEF DeleteGroupRow
<1> QED BY <1>3, <1>4, <1>5, <1>6, <1>7 DEF DeletionStep

LEMMA InitSafe == Init => SafeInv
<1> SUFFICES ASSUME Init PROVE SafeInv
  OBVIOUS
<1> QED BY DEF Init, SafeInv, RowsOK, ReferencesExist, SharedUsesShared,
             OneHierarchyLevel, live

LEMMA RequestShape ==
  ASSUME NEW c \in Contexts, Request(c)
  PROVE  \/ \E r \in Resources : Inserts(c, r) \/ Modifies(c, r) \/ Erase(r)
         \/ \E r \in PolicyRuleSets : CreatePolicyRuleSet(c, r) \/ UpdatePolicyRuleSet(c, r)
         \/ UNCHANGED Rows
<1>1. ASSUME NEW r \in PolicyRuleSets, DeletePolicyRuleSet(c, r)
      PROVE  Erase(r) /\ r \in Resources
  BY <1>1, TypesOfResources DEF DeletePolicyRuleSet, Remove
<1>2. ASSUME NEW w \in Workers, NEW g \in PolicyTargetGroups,
             DeletePolicyTargetGroup(w, c, g)
      PROVE  UNCHANGED Rows
  BY <1>2 DEF DeletePolicyTargetGroup
<1>3. /\ PolicyTargets \subseteq Resources /\ PolicyTargetGroups \subseteq Resources
      /\ ApplicationPolicyGroups \subseteq Resources /\ L2Policies \subseteq Resources
      /\ L3Policies \subseteq Resources /\ NetworkServicePolicies \subseteq Resources
      /\ PolicyClassifiers \subseteq Resources /\ PolicyActions \subseteq Resources
      /\ PolicyRules \subseteq Resources /\ ExternalSegments \subseteq Resources
      /\ ExternalPolicies \subseteq Resources /\ NatPools \subseteq Resources
  BY TypesOfResources
<1> QED BY <1>1, <1>2, <1>3, PolicyTargetShape, PolicyTargetGroupShape,
          ApplicationPolicyGroupShape, L2PolicyShape, L3PolicyShape,
          NetworkServicePolicyShape, PolicyClassifierShape, PolicyActionShape,
          PolicyRuleShape, ExternalSegmentShape, ExternalPolicyShape, NatPoolShape
     DEF Request

LEMMA RequestSafe ==
  ASSUME NEW c \in Contexts, SafeInv, Request(c)
  PROVE  SafeInv'
<1>1. ASSUME NEW r \in Resources, Inserts(c, r) PROVE SafeInv'
  BY <1>1, InsertSafe, TenantsForTyped DEF Inserts
<1>2. ASSUME NEW r \in Resources, Modifies(c, r) PROVE SafeInv'
  BY <1>2, ModifyOwnSafe DEF Modifies
<1>3. ASSUME NEW r \in Resources, Erase(r) PROVE SafeInv'
  BY <1>3, EraseSafe
<1>4. ASSUME UNCHANGED Rows PROVE SafeInv'
  BY <1>4 DEF Rows, SafeInv, RowsOK, ReferencesExist, SharedUsesShared,
       OneHierarchyLevel, live, WellTyped
<1> QED BY <1>1, <1>2, <1>3, <1>4, RequestShape,
          CreatePolicyRuleSetSafe, UpdatePolicyRuleSetSafe

LEMMA NextSafe == SafeInv /\ [Next]_vars => SafeInv'
<1> SUFFICES ASSUME SafeInv, [Next]_vars PROVE SafeInv'
  OBVIOUS
<1>1. ASSUME NEW r \in PolicyTargets, BindPort(r) PROVE SafeInv'
  BY <1>1 DEF BindPort, SafeInv, RowsOK, ReferencesExist, SharedUsesShared,
       OneHierarchyLevel, live, WellTyped
<1>2. CASE UNCHANGED vars
  BY <1>2 DEF vars, SafeInv, RowsOK, ReferencesExist, SharedUsesShared,
       OneHierarchyLevel, live, WellTyped
<1> QED BY <1>1, <1>2, RequestSafe, DeletionStepSafe DEF Next

\* SafeInv is an inductive invariant of the plugin.
THEOREM Safety == Spec => []SafeInv
  BY InitSafe, NextSafe, PTL DEF Spec

\* No reference of any resource names a row that is gone or of another type.
THEOREM NoDanglingReference == Spec => []ReferencesExist
<1>1. SafeInv => ReferencesExist
  BY DEF SafeInv
<1> QED BY <1>1, Safety, PTL

\* A shared resource uses shared resources only.
THEOREM SharingIsClosed == Spec => []SharedUsesShared
<1>1. SafeInv => SharedUsesShared
  BY DEF SafeInv
<1> QED BY <1>1, Safety, PTL

\* The policy rule sets form a hierarchy of one level.
THEOREM RuleSetHierarchy == Spec => []OneHierarchyLevel
<1>1. SafeInv => OneHierarchyLevel
  BY DEF SafeInv
<1> QED BY <1>1, Safety, PTL

--------------------
(* What a request may never do *)

\* No step but an update takes the shared flag of a row that stays.
LEMMA OnlyModifyUnshares ==
  ASSUME SafeInv, [Next]_vars, NEW q \in shared, q \notin shared', q \in live'
  PROVE  \E c \in Contexts : \E isShared \in BOOLEAN : \E replaced, added :
           Modify(c, q, isShared, replaced, added) /\ ~isShared
<1>1. ASSUME NEW c \in Contexts, NEW r, NEW isShared \in BOOLEAN, NEW replaced, NEW added,
             Modify(c, r, isShared, replaced, added)
      PROVE  q = r /\ ~isShared
  BY <1>1 DEF Modify
<1>2. ASSUME NEW c \in Contexts, NEW r \in Resources,
             Inserts(c, r) \/ Modifies(c, r) \/ Erase(r)
      PROVE  Modifies(c, r)
  <2>1. ~Inserts(c, r)
    BY DEF Inserts, Insert
  <2>2. ASSUME Erase(r) PROVE FALSE
    <3>1. q = r /\ owner' = [owner EXCEPT ![r] = None]
      BY <2>2 DEF Erase
    <3> QED BY <3>1 DEF live, SafeInv, RowsOK
  <2> QED BY <1>2, <2>1, <2>2
<1>3. ASSUME NEW c \in Contexts, NEW r \in PolicyRuleSets, UpdatePolicyRuleSet(c, r)
      PROVE  \E isShared \in BOOLEAN : \E replaced, added :
               Modify(c, r, isShared, replaced, added)
  <2>1. (r \in shared) \in BOOLEAN
    OBVIOUS
  <2> QED BY <1>3, <2>1, SharedValuesTyped DEF UpdatePolicyRuleSet
<1>4. ASSUME NEW c \in Contexts, NEW r \in PolicyRuleSets PROVE ~CreatePolicyRuleSet(c, r)
  BY DEF CreatePolicyRuleSet
<1>5. ASSUME UNCHANGED shared PROVE FALSE
  BY <1>5
<1>6. ASSUME NEW w \in Workers, DeletionStep(w) PROVE FALSE
  <2>1. ASSUME NEW r, Erase(r) PROVE FALSE
    <3>1. q = r /\ owner' = [owner EXCEPT ![r] = None]
      BY <2>1 DEF Erase
    <3> QED BY <3>1 DEF live, SafeInv, RowsOK
  <2> QED BY <1>6, <2>1 DEF DeletionStep, ClearRuleSets, DeleteProxyGroup,
            ListTargets, DeleteTarget, DeleteGroupRow, Rows
<1>7. ASSUME NEW c \in Contexts, Request(c)
      PROVE  \E isShared \in BOOLEAN : \E replaced, added :
               Modify(c, q, isShared, replaced, added) /\ ~isShared
  <2>1. ASSUME NEW r \in Resources, Inserts(c, r) \/ Modifies(c, r) \/ Erase(r)
        PROVE  \E isShared \in BOOLEAN : \E replaced, added :
                 Modify(c, q, isShared, replaced, added) /\ ~isShared
    BY <1>1, <1>2, <2>1 DEF Modifies
  <2>2. ASSUME NEW r \in PolicyRuleSets, UpdatePolicyRuleSet(c, r)
        PROVE  \E isShared \in BOOLEAN : \E replaced, added :
                 Modify(c, q, isShared, replaced, added) /\ ~isShared
    BY <1>1, <1>3, <2>2
  <2>3. ~UNCHANGED Rows
    BY <1>5 DEF Rows
  <2> QED BY <1>4, <1>7, <2>1, <2>2, <2>3, RequestShape
<1> QED BY <1>5, <1>6, <1>7 DEF Next, vars, BindPort

\* Reverting a shared resource leaves it with users of its own tenant.
THEOREM UnshareIsSafe == Spec => UnshareKeepsOtherTenantsOut
<1>1. ASSUME SafeInv, [Next]_vars,
             NEW r \in (shared \cap live) \ shared', r \in live',
             NEW e \in uses', e.to = r, e.attr # "parent_id", e.attr \in usage_graph
      PROVE  owner'[e.from] = owner'[r]
  <2>1. PICK c \in Contexts, isShared \in BOOLEAN : \E replaced, added :
               Modify(c, r, isShared, replaced, added) /\ ~isShared
    BY <1>1, OnlyModifyUnshares
  <2>2. PICK replaced, added : Modify(c, r, isShared, replaced, added) /\ ~isShared
    BY <2>1
  <2>3. _validate_unshare(r, uses') /\ owner' = owner
    BY <1>1, <2>2 DEF Modify
  <2> QED BY <1>1, <2>3, UnshareCoversUsage DEF _validate_unshare
<1>2. SafeInv /\ [Next]_vars =>
        [\A r \in (shared \cap live) \ shared' : r \in live' =>
           \A e \in uses' : e.to = r /\ e.attr # "parent_id" /\ e.attr \in usage_graph
                              => owner'[e.from] = owner'[r]]_vars
  BY <1>1
<1> QED BY <1>2, Safety, PTL DEF Spec, UnshareKeepsOtherTenantsOut

\* A request of a user links no row to a private row of another tenant.
LEMMA UserLinks ==
  ASSUME SafeInv, NEW c \in Contexts, ~c.admin, Request(c),
         NEW e \in uses' \ uses, e.attr \in usage_graph \ {"parent_id"},
         e.to \notin shared'
  PROVE  owner'[e.from] = owner'[e.to]
<1>1. ASSUME NEW r \in Resources, NEW t \in TenantsFor(c), NEW isShared \in BOOLEAN, NEW links,
             r \notin live, e.from = r, e \in links,
             _validate_shared_create(c, t, isShared, links),
             owner' = [owner EXCEPT ![r] = t], shared \subseteq shared'
      PROVE  owner'[e.from] = owner'[e.to]
  <2>1. e.to \in live /\ (e.to \in shared \/ t = owner[e.to])
    BY <1>1 DEF _validate_shared_create, _verify_sharing_consistency
  <2>2. e.to # r /\ e.to \in Resources
    BY <1>1, <2>1 DEF live
  <2>3. t = owner[e.to]
    BY <1>1, <2>1
  <2>4. owner'[e.to] = owner[e.to]
    BY <1>1, <2>2 DEF SafeInv, RowsOK
  <2> QED BY <1>1, <2>3, <2>4 DEF SafeInv, RowsOK
<1>2. ASSUME NEW r, NEW isShared \in BOOLEAN, NEW replaced, NEW added,
             e.from = r, Modify(c, r, isShared, replaced, added)
      PROVE  owner'[e.from] = owner'[e.to]
  <2>1. /\ _validate_shared_create(c, owner[r], isShared, {x \in uses' : x.from = r})
        /\ owner' = owner /\ shared' = IF isShared THEN shared \cup {r} ELSE shared \ {r}
    BY <1>2 DEF Modify
  <2>2. e.to \in shared \/ owner[r] = owner[e.to]
    BY <1>2, <2>1 DEF _validate_shared_create, _verify_sharing_consistency
  <2>3. CASE e.to \in shared
    BY <1>2, <2>1, <2>3
  <2> QED BY <1>2, <2>1, <2>2, <2>3
<1>3. ASSUME NEW r \in Resources, Inserts(c, r) PROVE owner'[e.from] = owner'[e.to]
  <2>1. PICK t \in TenantsFor(c), isShared \in BOOLEAN : \E links :
               OwnLinks(r, links) /\ Insert(c, r, t, isShared, links)
    BY <1>3 DEF Inserts
  <2>2. PICK links : OwnLinks(r, links) /\ Insert(c, r, t, isShared, links)
    BY <2>1
  <2>3. /\ r \notin live /\ e \in links /\ e.from = r
        /\ _validate_shared_create(c, t, isShared, links)
        /\ owner' = [owner EXCEPT ![r] = t] /\ shared \subseteq shared'
    BY <2>2 DEF Insert, OwnLinks
  <2> QED BY <2>3, <1>1
<1>4. ASSUME NEW r \in Resources, Modifies(c, r) PROVE owner'[e.from] = owner'[e.to]
  <2>1. PICK isShared \in BOOLEAN : \E replaced, added :
               OwnLinks(r, added) /\ Modify(c, r, isShared, replaced, added)
    BY <1>4 DEF Modifies
  <2>2. PICK replaced, added : OwnLinks(r, added) /\ Modify(c, r, isShared, replaced, added)
    BY <2>1
  <2>3. e.from = r
    BY <2>2 DEF Modify, OwnLinks
  <2> QED BY <2>2, <2>3, <1>2
<1>5. ASSUME NEW r, Erase(r) PROVE FALSE
  BY <1>5 DEF Erase
<1>6. ASSUME NEW r \in PolicyRuleSets, CreatePolicyRuleSet(c, r)
      PROVE  owner'[e.from] = owner'[e.to]
  <2>1. PICK t \in TenantsFor(c), isShared \in SharedValues(c, FALSE),
             rules \in SUBSET Found(c, PolicyRules),
             children \in SUBSET Found(c, PolicyRuleSets) :
               /\ r \notin live
               /\ _validate_shared_create(c, t, isShared, Link(r, "policy_rules", rules))
               /\ owner' = [owner EXCEPT ![r] = t]
               /\ shared' = IF isShared THEN shared \cup {r} ELSE shared
               /\ uses' = (uses \ FormerLinks(r, children))
                            \cup Link(r, "policy_rules", rules) \cup ChildLinks(r, children)
    BY <1>6 DEF CreatePolicyRuleSet
  <2>2. children \in SUBSET (PolicyRuleSets \cap live)
    BY FoundTyped
  <2>3. e \notin ChildLinks(r, children)
    BY <2>2, ChildLinksTyped
  <2>4. e \in Link(r, "policy_rules", rules) /\ e.from = r
    BY <2>1, <2>3 DEF Link
  <2>5. isShared \in BOOLEAN /\ r \in Resources
    BY SharedValuesTyped, TypesOfResources
  <2> QED BY <2>1, <2>4, <2>5, <1>1
<1>7. ASSUME NEW r \in PolicyRuleSets, UpdatePolicyRuleSet(c, r)
      PROVE  owner'[e.from] = owner'[e.to]
  <2> (r \in shared) \in BOOLEAN
    OBVIOUS
  <2>1. PICK isShared \in SharedValues(c, r \in shared),
             rules \in SUBSET Found(c, PolicyRules),
             children \in SUBSET Found(c, PolicyRuleSets) :
               Modify(c, r, isShared,
                      Replaced(r, {"policy_rules"}) \cup FormerLinks(r, children),
                      Link(r, "policy_rules", rules) \cup ChildLinks(r, children))
    BY <1>7 DEF UpdatePolicyRuleSet
  <2>2. children \in SUBSET (PolicyRuleSets \cap live)
    BY FoundTyped
  <2>3. e \notin ChildLinks(r, children)
    BY <2>2, ChildLinksTyped
  <2>4. e.from = r
    BY <2>1, <2>3 DEF Link, Modify
  <2>5. isShared \in BOOLEAN
    BY SharedValuesTyped
  <2> QED BY <2>1, <2>4, <2>5, <1>2
<1>8. ~UNCHANGED Rows
  BY DEF Rows
<1> QED BY <1>3, <1>4, <1>5, <1>6, <1>7, <1>8, RequestShape

\* Only an administrator links a row to a private row of another tenant.
THEOREM UserLinksAreSafe == Spec => UserLinksStayInTenant
<1>1. SafeInv =>
        [\A e \in uses' \ uses :
           (/\ e.attr \in usage_graph \ {"parent_id"}
            /\ e.to \notin shared' /\ owner'[e.from] # owner'[e.to])
             => ~ \E c \in Contexts : ~c.admin /\ Request(c)]_vars
  BY UserLinks
<1> QED BY <1>1, Safety, PTL DEF UserLinksStayInTenant

--------------------
(* The in-use checks of the deletions *)

\* The references that may name a row of each type.
LEMMA UsersOfType ==
  ASSUME NEW e \in Edges, WellTyped(e)
  PROVE  /\ e.to \notin PolicyTargets /\ e.to \notin ExternalPolicies /\ e.to \notin NatPools
         /\ e.to \in PolicyTargetGroups =>
              e.attr \in {"policy_target_group_id", "proxied_group_id"}
         /\ e.to \in ApplicationPolicyGroups => e.attr = "application_policy_group_id"
         /\ e.to \in L2Policies => e.attr = "l2_policy_id"
         /\ e.to \in L3Policies => e.attr = "l3_policy_id"
         /\ e.to \in NetworkServicePolicies => e.attr = "network_service_policy_id"
         /\ e.to \in PolicyClassifiers => e.attr = "policy_classifier_id"
         /\ e.to \in PolicyActions => e.attr = "policy_actions"
         /\ e.to \in PolicyRules => e.attr = "policy_rules"
         /\ e.to \in PolicyRuleSets =>
              e.attr \in {"parent_id", "provided_policy_rule_sets", "consumed_policy_rule_sets"}
         /\ e.to \in ExternalSegments =>
              e.attr \in {"external_segments", "external_segment_id"}
<1>1. \A s \in DOMAIN Types, u \in DOMAIN Types :
        e.to \in Types[s] /\ e.to \in Types[u] => s = u
  BY TypesAreDisjoint
<1>2. CASE e.attr = "external_segments"
  <2>1. e.to \in Types["ExternalSegment"]
    BY <1>2, ReferenceValues, TypesValues DEF WellTyped
  <2> QED BY <1>1, <1>2, <2>1, TypesValues
<1>3. CASE e.attr = "l3_policy_id"
  <2>1. e.to \in Types["L3Policy"]
    BY <1>3, ReferenceValues, TypesValues DEF WellTyped
  <2> QED BY <1>1, <1>3, <2>1, TypesValues
<1>4. CASE e.attr = "l2_policy_id"
  <2>1. e.to \in Types["L2Policy"]
    BY <1>4, ReferenceValues, TypesValues DEF WellTyped
  <2> QED BY <1>1, <1>4, <2>1, TypesValues
<1>5. CASE e.attr = "network_service_policy_id"
  <2>1. e.to \in Types["NetworkServicePolicy"]
    BY <1>5, ReferenceValues, TypesValues DEF WellTyped
  <2> QED BY <1>1, <1>5, <2>1, TypesValues
<1>6. CASE e.attr = "provided_policy_rule_sets"
  <2>1. e.to \in Types["PolicyRuleSet"]
    BY <1>6, ReferenceValues, TypesValues DEF WellTyped
  <2> QED BY <1>1, <1>6, <2>1, TypesValues
<1>7. CASE e.attr = "consumed_policy_rule_sets"
  <2>1. e.to \in Types["PolicyRuleSet"]
    BY <1>7, ReferenceValues, TypesValues DEF WellTyped
  <2> QED BY <1>1, <1>7, <2>1, TypesValues
<1>8. CASE e.attr = "policy_classifier_id"
  <2>1. e.to \in Types["PolicyClassifier"]
    BY <1>8, ReferenceValues, TypesValues DEF WellTyped
  <2> QED BY <1>1, <1>8, <2>1, TypesValues
<1>9. CASE e.attr = "policy_actions"
  <2>1. e.to \in Types["PolicyAction"]
    BY <1>9, ReferenceValues, TypesValues DEF WellTyped
  <2> QED BY <1>1, <1>9, <2>1, TypesValues
<1>10. CASE e.attr = "policy_rules"
  <2>1. e.to \in Types["PolicyRule"]
    BY <1>10, ReferenceValues, TypesValues DEF WellTyped
  <2> QED BY <1>1, <1>10, <2>1, TypesValues
<1>11. CASE e.attr = "parent_id"
  <2>1. e.to \in Types["PolicyRuleSet"]
    BY <1>11, ReferenceValues, TypesValues DEF WellTyped
  <2> QED BY <1>1, <1>11, <2>1, TypesValues
<1>12. CASE e.attr = "external_segment_id"
  <2>1. e.to \in Types["ExternalSegment"]
    BY <1>12, ReferenceValues, TypesValues DEF WellTyped
  <2> QED BY <1>1, <1>12, <2>1, TypesValues
<1>13. CASE e.attr = "policy_target_group_id"
  <2>1. e.to \in Types["PolicyTargetGroup"]
    BY <1>13, ReferenceValues, TypesValues DEF WellTyped
  <2> QED BY <1>1, <1>13, <2>1, TypesValues
<1>14. CASE e.attr = "application_policy_group_id"
  <2>1. e.to \in Types["ApplicationPolicyGroup"]
    BY <1>14, ReferenceValues, TypesValues DEF WellTyped
  <2> QED BY <1>1, <1>14, <2>1, TypesValues
<1>15. CASE e.attr = "proxied_group_id"
  <2>1. e.to \in Types["PolicyTargetGroup"]
    BY <1>15, ReferenceValues, TypesValues DEF WellTyped
  <2> QED BY <1>1, <1>15, <2>1, TypesValues
<1>16. e.attr \in Attrs
  BY DEF Edges
<1> QED BY <1>2, <1>3, <1>4, <1>5, <1>6, <1>7, <1>8, <1>9,
           <1>10, <1>11, <1>12, <1>13, <1>14, <1>15, <1>16 DEF Attrs

--------------------
(* Type correctness *)

\* What a request may do to the columns that only groups and targets have.
Columns ==
  /\ management' \subseteq management \cup PolicyTargetGroups
  /\ bound' \subseteq bound
  /\ deletion' = deletion

LEMMA InsertColumns ==
  ASSUME NEW c, NEW r, NEW t, NEW isShared, NEW links, Insert(c, r, t, isShared, links)
  PROVE  bound' = bound /\ deletion' = deletion
  BY DEF Insert

LEMMA ModifyColumns ==
  ASSUME NEW c, NEW r, NEW isShared, NEW replaced, NEW added,
         Modify(c, r, isShared, replaced, added)
  PROVE  deletion' = deletion
  BY DEF Modify

LEMMA RemoveColumns ==
  ASSUME NEW c, NEW r, NEW inUse, Remove(c, r, inUse)
  PROVE  Columns
  BY DEF Remove, Erase, Columns

LEMMA RequestColumns ==
  ASSUME NEW c \in Contexts, Request(c)
  PROVE  Columns \/ \E w \in Workers, g \in PolicyTargetGroups : DeletePolicyTargetGroup(w, c, g)
<1>1. ASSUME NEW r, CreatePolicyTarget(c, r) \/ UpdatePolicyTarget(c, r) \/ DeletePolicyTarget(c, r)
      PROVE  Columns
  BY <1>1, InsertColumns, ModifyColumns, RemoveColumns
  DEF Columns, Quiet, Still, CreatePolicyTarget, UpdatePolicyTarget, DeletePolicyTarget
<1>2. ASSUME NEW r \in PolicyTargetGroups, CreatePolicyTargetGroup(c, r) \/ UpdatePolicyTargetGroup(c, r)
      PROVE  Columns
  BY <1>2, InsertColumns, ModifyColumns DEF Columns, CreatePolicyTargetGroup, UpdatePolicyTargetGroup
<1>3. ASSUME NEW r, CreateApplicationPolicyGroup(c, r) \/ UpdateApplicationPolicyGroup(c, r) \/ DeleteApplicationPolicyGroup(c, r)
      PROVE  Columns
  BY <1>3, InsertColumns, ModifyColumns, RemoveColumns
  DEF Columns, Quiet, Still, CreateApplicationPolicyGroup, UpdateApplicationPolicyGroup, DeleteApplicationPolicyGroup
<1>4. ASSUME NEW r, CreateL2Policy(c, r) \/ UpdateL2Policy(c, r) \/ DeleteL2Policy(c, r)
      PROVE  Columns
  BY <1>4, InsertColumns, ModifyColumns, RemoveColumns
  DEF Columns, Quiet, Still, CreateL2Policy, UpdateL2Policy, DeleteL2Policy
<1>5. ASSUME NEW r, CreateL3Policy(c, r) \/ UpdateL3Policy(c, r) \/ DeleteL3Policy(c, r)
      PROVE  Columns
  BY <1>5, InsertColumns, ModifyColumns, RemoveColumns
  DEF Columns, Quiet, Still, CreateL3Policy, UpdateL3Policy, DeleteL3Policy
<1>6. ASSUME NEW r, CreateNetworkServicePolicy(c, r) \/ UpdateNetworkServicePolicy(c, r) \/ DeleteNetworkServicePolicy(c, r)
      PROVE  Columns
  BY <1>6, InsertColumns, ModifyColumns, RemoveColumns
  DEF Columns, Quiet, Still, CreateNetworkServicePolicy, UpdateNetworkServicePolicy, DeleteNetworkServicePolicy
<1>7. ASSUME NEW r, CreatePolicyClassifier(c, r) \/ UpdatePolicyClassifier(c, r) \/ DeletePolicyClassifier(c, r)
      PROVE  Columns
  BY <1>7, InsertColumns, ModifyColumns, RemoveColumns
  DEF Columns, Quiet, Still, CreatePolicyClassifier, UpdatePolicyClassifier, DeletePolicyClassifier
<1>8. ASSUME NEW r, CreatePolicyAction(c, r) \/ UpdatePolicyAction(c, r) \/ DeletePolicyAction(c, r)
      PROVE  Columns
  BY <1>8, InsertColumns, ModifyColumns, RemoveColumns
  DEF Columns, Quiet, Still, CreatePolicyAction, UpdatePolicyAction, DeletePolicyAction
<1>9. ASSUME NEW r, CreatePolicyRule(c, r) \/ UpdatePolicyRule(c, r) \/ DeletePolicyRule(c, r)
      PROVE  Columns
  BY <1>9, InsertColumns, ModifyColumns, RemoveColumns
  DEF Columns, Quiet, Still, CreatePolicyRule, UpdatePolicyRule, DeletePolicyRule
<1>10. ASSUME NEW r, CreatePolicyRuleSet(c, r) \/ UpdatePolicyRuleSet(c, r) \/ DeletePolicyRuleSet(c, r)
      PROVE  Columns
  BY <1>10, ModifyColumns, RemoveColumns
  DEF Columns, Still, CreatePolicyRuleSet, UpdatePolicyRuleSet, DeletePolicyRuleSet
<1>11. ASSUME NEW r, CreateExternalSegment(c, r) \/ UpdateExternalSegment(c, r) \/ DeleteExternalSegment(c, r)
      PROVE  Columns
  BY <1>11, InsertColumns, ModifyColumns, RemoveColumns
  DEF Columns, Quiet, Still, CreateExternalSegment, UpdateExternalSegment, DeleteExternalSegment
<1>12. ASSUME NEW r, CreateExternalPolicy(c, r) \/ UpdateExternalPolicy(c, r) \/ DeleteExternalPolicy(c, r)
      PROVE  Columns
  BY <1>12, InsertColumns, ModifyColumns, RemoveColumns
  DEF Columns, Quiet, Still, CreateExternalPolicy, UpdateExternalPolicy, DeleteExternalPolicy
<1>13. ASSUME NEW r, CreateNatPool(c, r) \/ UpdateNatPool(c, r) \/ DeleteNatPool(c, r)
      PROVE  Columns
  BY <1>13, InsertColumns, ModifyColumns, RemoveColumns
  DEF Columns, Quiet, Still, CreateNatPool, UpdateNatPool, DeleteNatPool
<1> QED BY <1>1, <1>2, <1>3, <1>4, <1>5, <1>6, <1>7, <1>8, <1>9, <1>10, <1>11, <1>12, <1>13 DEF Request

DeletionOK == deletion \in [Workers -> {Idle} \cup [by : Contexts, frames : Seq(Frames)]]

TypeInv == SafeInv /\ management \subseteq PolicyTargetGroups /\ bound \subseteq PolicyTargets
                   /\ DeletionOK

LEMMA FrameTyped ==
  ASSUME ReferencesExist, uses \subseteq Edges, NEW g \in PolicyTargetGroups
  PROVE  Frame(g) \in Frames
<1>1. LinksTo(g, "proxied_group_id") \subseteq PolicyTargetGroups
  BY ReferenceValues DEF LinksTo, ReferencesExist, WellTyped
<1>2. LinksTo(g, "policy_target_group_id") \subseteq PolicyTargets
  BY ReferenceValues DEF LinksTo, ReferencesExist, WellTyped
<1> DEFINE p == IF LinksTo(g, "proxied_group_id") = {} THEN None
                ELSE CHOOSE x \in LinksTo(g, "proxied_group_id") : TRUE
<1>3. p \in PolicyTargetGroups \cup {None}
  BY <1>1
<1> QED BY <1>2, <1>3 DEF Frame, Frames

\* A running deletion has a frame on top of a stack of frames.
LEMMA TopTyped ==
  ASSUME DeletionOK, NEW w \in Workers, NEW stage, Running(w, stage)
  PROVE  /\ deletion[w] \in [by : Contexts, frames : Seq(Frames)]
         /\ Top(w) \in Frames /\ Below(w) \in Seq(Frames)
<1>1. deletion[w] \in [by : Contexts, frames : Seq(Frames)]
  BY DEF DeletionOK, Running, Idle
<1>2. PICK s \in Seq(Frames) : s = deletion[w].frames
  BY <1>1
<1>3. s # <<>> /\ Len(s) \in Nat /\ Len(s) # 0
  BY <1>2 DEF Running
<1>4. s[Len(s)] \in Frames
  BY <1>3
<1>5. SubSeq(s, 1, Len(s) - 1) \in Seq(Frames)
  BY <1>3
<1> QED BY <1>1, <1>2, <1>4, <1>5 DEF Top, Below

LEMMA ContinueTyped ==
  ASSUME DeletionOK, NEW w \in Workers,
         deletion[w] \in [by : Contexts, frames : Seq(Frames)],
         NEW fs \in Seq(Frames), Continue(w, fs)
  PROVE  DeletionOK'
<1>1. (IF fs = <<>> THEN Idle ELSE [deletion[w] EXCEPT !.frames = fs])
        \in {Idle} \cup [by : Contexts, frames : Seq(Frames)]
  OBVIOUS
<1> QED BY <1>1 DEF DeletionOK, Continue

LEMMA AppendTyped ==
  ASSUME NEW s \in Seq(Frames), NEW f \in Frames PROVE Append(s, f) \in Seq(Frames)
  OBVIOUS

LEMMA EmptyTyped == <<>> \in Seq(Frames)
  OBVIOUS

LEMMA DeletionStepTyped ==
  ASSUME TypeInv, NEW w \in Workers, DeletionStep(w)
  PROVE  DeletionOK'
<1>1. ASSUME NEW stage, Running(w, stage)
      PROVE  /\ deletion[w] \in [by : Contexts, frames : Seq(Frames)]
             /\ Top(w) \in Frames /\ Below(w) \in Seq(Frames)
  BY <1>1, TopTyped DEF TypeInv
<1>2. ASSUME NEW stage, Running(w, stage), Abort(w) \/ NotFound(w)
      PROVE  DeletionOK'
  BY <1>1, <1>2, EmptyTyped, ContinueTyped DEF TypeInv, Abort, NotFound
<1>3. ASSUME NEW stage, Running(w, stage), NEW f \in Frames, Continue(w, Append(Below(w), f))
      PROVE  DeletionOK'
  BY <1>1, <1>3, AppendTyped, ContinueTyped DEF TypeInv
<1>4. \A stage \in {"rule_sets", "proxy", "targets", "delete"} :
        Top(w) \in Frames => At(w, stage) \in Frames
  BY DEF At, Frames
<1>5. CASE ClearRuleSets(w)
  <2>1. Running(w, "rule_sets") /\ At(w, "proxy") \in Frames
    BY <1>1, <1>4, <1>5 DEF ClearRuleSets
  <2> QED BY <1>2, <1>3, <1>5, <2>1 DEF ClearRuleSets
<1>6. CASE DeleteProxyGroup(w)
  <2> DEFINE p == Top(w).proxy
             next == Append(Below(w), At(w, "targets"))
  <2>1. Running(w, "proxy") /\ At(w, "targets") \in Frames
    BY <1>1, <1>4, <1>6 DEF DeleteProxyGroup
  <2>2. next \in Seq(Frames) /\ deletion[w] \in [by : Contexts, frames : Seq(Frames)]
    BY <1>1, <2>1, AppendTyped
  <2>3. CASE Continue(w, next)
    BY <1>3, <2>1, <2>3
  <2>4. CASE p \in Found(deletion[w].by, {p}) /\ Continue(w, Append(next, Frame(p)))
    <3>1. p \in PolicyTargetGroups \cup {None} /\ p \in Resources
      BY <1>1, <2>1, <2>4 DEF Frames, Found, live
    <3>2. Frame(p) \in Frames
      BY <3>1, FrameTyped, ContextsAssumption DEF TypeInv, SafeInv, RowsOK
    <3> QED BY <2>2, <2>4, <3>2, AppendTyped, ContinueTyped DEF TypeInv
  <2>5. CASE Abort(w)
    BY <1>2, <2>1, <2>5
  <2> QED BY <1>6, <2>3, <2>4, <2>5 DEF DeleteProxyGroup
<1>7. CASE ListTargets(w)
  <2>1. Running(w, "targets")
    BY <1>7 DEF ListTargets
  <2>2. At(w, "delete") \in Frames /\ Found(deletion[w].by, Top(w).todo) \subseteq PolicyTargets
    BY <1>1, <1>4, <2>1 DEF Found, Frames
  <2>3. [At(w, "delete") EXCEPT !.todo = Found(deletion[w].by, Top(w).todo)] \in Frames
    BY <2>2 DEF Frames
  <2> QED BY <1>3, <1>7, <2>1, <2>3 DEF ListTargets
<1>8. CASE DeleteTarget(w)
  <2>1. Running(w, "delete")
    BY <1>8 DEF DeleteTarget
  <2>2. \A r : [Top(w) EXCEPT !.todo = @ \ {r}] \in Frames
    BY <1>1, <2>1 DEF Frames
  <2> QED BY <1>2, <1>3, <1>8, <2>1, <2>2 DEF DeleteTarget
<1>9. CASE DeleteGroupRow(w)
  <2>1. Running(w, "delete")
    BY <1>9 DEF DeleteGroupRow
  <2> QED BY <1>2, <1>9, <2>1 DEF DeleteGroupRow, NotFound
<1> QED BY <1>5, <1>6, <1>7, <1>8, <1>9 DEF DeletionStep

LEMMA InitTyped == Init => TypeInv
<1> SUFFICES ASSUME Init PROVE TypeInv
  OBVIOUS
<1> QED BY InitSafe DEF Init, TypeInv, DeletionOK

LEMMA NextTyped == TypeInv /\ [Next]_vars => TypeInv'
<1> SUFFICES ASSUME TypeInv, [Next]_vars PROVE TypeInv'
  OBVIOUS
<1>1. SafeInv'
  BY NextSafe DEF TypeInv
<1>2. ASSUME Columns PROVE TypeInv'
  BY <1>1, <1>2 DEF Columns, TypeInv, DeletionOK
<1>3. ASSUME NEW c \in Contexts, NEW w \in Workers, NEW g \in PolicyTargetGroups,
             DeletePolicyTargetGroup(w, c, g)
      PROVE  TypeInv'
  <2>1. Frame(g) \in Frames
    BY FrameTyped DEF TypeInv, SafeInv, RowsOK
  <2>2. [by |-> c, frames |-> <<Frame(g)>>] \in [by : Contexts, frames : Seq(Frames)]
    BY <2>1
  <2>3. DeletionOK'
    BY <1>3, <2>2 DEF DeletePolicyTargetGroup, TypeInv, DeletionOK
  <2> QED BY <1>1, <1>3, <2>3 DEF DeletePolicyTargetGroup, Rows, TypeInv
<1>4. ASSUME NEW c \in Contexts, Request(c) PROVE TypeInv'
  BY <1>2, <1>3, <1>4, RequestColumns
<1>5. ASSUME NEW r \in PolicyTargets, BindPort(r) PROVE TypeInv'
  BY <1>1, <1>5 DEF BindPort, TypeInv, DeletionOK
<1>6. ASSUME NEW w \in Workers, DeletionStep(w) PROVE TypeInv'
  <2>1. DeletionOK'
    BY <1>6, DeletionStepTyped
  <2>2. management' \subseteq management /\ bound' \subseteq bound
    BY <1>6 DEF DeletionStep, ClearRuleSets, DeleteProxyGroup, ListTargets,
         DeleteTarget, DeleteGroupRow, Rows, Erase
  <2> QED BY <1>1, <2>1, <2>2 DEF TypeInv
<1>7. CASE UNCHANGED vars
  BY <1>1, <1>7 DEF vars, TypeInv, DeletionOK
<1> QED BY <1>4, <1>5, <1>6, <1>7 DEF Next

LEMMA TypeInvAlways == Spec => []TypeInv
  BY InitTyped, NextTyped, PTL DEF Spec

\* Every column has its type in every reachable state, and every running
\* deletion holds groups and policy targets only.
THEOREM TypeCorrect == Spec => []TypeOK
<1>1. TypeInv => TypeOK
  BY DEF TypeInv, TypeOK, SafeInv, RowsOK, DeletionOK
<1> QED BY <1>1, TypeInvAlways, PTL

--------------------
(* No deletion takes a reference *)

\* The columns the database sets to null when the row they name goes.
Nullable == {"parent_id", "application_policy_group_id", "policy_target_group_id"}

LEMMA EraseTakes ==
  ASSUME SafeInv, NEW r, Erase(r), NEW q \in live \ live'
  PROVE  q = r
  BY DEF Erase, SafeInv, RowsOK, live

LEMMA RemoveTakes ==
  ASSUME SafeInv, NEW c, NEW r, NEW inUse, Remove(c, r, inUse),
         NEW e \in uses, e.to \in live \ live'
  PROVE  e.to = r /\ e.attr \notin inUse
  BY EraseTakes DEF Remove

LEMMA NoneTaken ==
  ASSUME SafeInv, NEW c \in Contexts,
         \/ \E r \in Resources : Inserts(c, r) \/ Modifies(c, r)
         \/ \E r \in PolicyRuleSets : CreatePolicyRuleSet(c, r) \/ UpdatePolicyRuleSet(c, r)
         \/ UNCHANGED owner
  PROVE  live \ live' = {}
<1>1. ASSUME NEW r, NEW t \in Tenants, owner' = [owner EXCEPT ![r] = t]
      PROVE  live \ live' = {}
  BY <1>1, ContextsAssumption DEF live, SafeInv, RowsOK
<1>2. ASSUME NEW r \in Resources, Inserts(c, r) PROVE live \ live' = {}
  BY <1>1, <1>2, TenantsForTyped DEF Inserts, Insert
<1>3. ASSUME owner' = owner PROVE live \ live' = {}
  BY <1>3 DEF live
<1>4. ASSUME NEW r \in Resources, Modifies(c, r) PROVE live \ live' = {}
  BY <1>3, <1>4 DEF Modifies, Modify
<1>5. ASSUME NEW r \in PolicyRuleSets, CreatePolicyRuleSet(c, r) PROVE live \ live' = {}
  BY <1>1, <1>5, TenantsForTyped DEF CreatePolicyRuleSet
<1>6. ASSUME NEW r \in PolicyRuleSets, UpdatePolicyRuleSet(c, r) PROVE live \ live' = {}
  BY <1>3, <1>6 DEF UpdatePolicyRuleSet, Modify
<1> QED BY <1>2, <1>3, <1>4, <1>5, <1>6

LEMMA RequestTakesNoReference ==
  ASSUME SafeInv, NEW c \in Contexts, Request(c),
         NEW e \in uses, e.to \in live \ live'
  PROVE  e.attr \in Nullable
<1> e \in Edges /\ WellTyped(e)
  BY DEF SafeInv, RowsOK, ReferencesExist
<1>0. ~(\/ \E r \in Resources : Inserts(c, r) \/ Modifies(c, r)
        \/ \E r \in PolicyRuleSets : CreatePolicyRuleSet(c, r) \/ UpdatePolicyRuleSet(c, r)
        \/ UNCHANGED owner)
  BY NoneTaken
<1>1. ASSUME NEW r \in PolicyTargets, DeletePolicyTarget(c, r) PROVE e.attr \in Nullable
  BY <1>1, RemoveTakes, UsersOfType DEF DeletePolicyTarget, Nullable
<1>2. ASSUME NEW w \in Workers, NEW g \in PolicyTargetGroups,
             DeletePolicyTargetGroup(w, c, g)
      PROVE  FALSE
  BY <1>0, <1>2 DEF DeletePolicyTargetGroup, Rows
<1>3. ASSUME NEW r \in ApplicationPolicyGroups, DeleteApplicationPolicyGroup(c, r) PROVE e.attr \in Nullable
  BY <1>3, RemoveTakes, UsersOfType DEF DeleteApplicationPolicyGroup, Nullable
<1>4. ASSUME NEW r \in L2Policies, DeleteL2Policy(c, r) PROVE e.attr \in Nullable
  BY <1>4, RemoveTakes, UsersOfType DEF DeleteL2Policy, Nullable
<1>5. ASSUME NEW r \in L3Policies, DeleteL3Policy(c, r) PROVE e.attr \in Nullable
  BY <1>5, RemoveTakes, UsersOfType DEF DeleteL3Policy, Nullable
<1>6. ASSUME NEW r \in NetworkServicePolicies, DeleteNetworkServicePolicy(c, r) PROVE e.attr \in Nullable
  BY <1>6, RemoveTakes, UsersOfType DEF DeleteNetworkServicePolicy, Nullable
<1>7. ASSUME NEW r \in PolicyClassifiers, DeletePolicyClassifier(c, r) PROVE e.attr \in Nullable
  BY <1>7, RemoveTakes, UsersOfType DEF DeletePolicyClassifier, Nullable
<1>8. ASSUME NEW r \in PolicyActions, DeletePolicyAction(c, r) PROVE e.attr \in Nullable
  BY <1>8, RemoveTakes, UsersOfType DEF DeletePolicyAction, Nullable
<1>9. ASSUME NEW r \in PolicyRules, DeletePolicyRule(c, r) PROVE e.attr \in Nullable
  BY <1>9, RemoveTakes, UsersOfType DEF DeletePolicyRule, Nullable
<1>10. ASSUME NEW r \in PolicyRuleSets, DeletePolicyRuleSet(c, r) PROVE e.attr \in Nullable
  BY <1>10, RemoveTakes, UsersOfType DEF DeletePolicyRuleSet, Nullable
<1>11. ASSUME NEW r \in ExternalSegments, DeleteExternalSegment(c, r) PROVE e.attr \in Nullable
  BY <1>11, RemoveTakes, UsersOfType DEF DeleteExternalSegment, Nullable
<1>12. ASSUME NEW r \in ExternalPolicies, DeleteExternalPolicy(c, r) PROVE e.attr \in Nullable
  BY <1>12, RemoveTakes, UsersOfType DEF DeleteExternalPolicy, Nullable
<1>13. ASSUME NEW r \in NatPools, DeleteNatPool(c, r) PROVE e.attr \in Nullable
  BY <1>13, RemoveTakes, UsersOfType DEF DeleteNatPool, Nullable
<1> QED BY <1>0, <1>1, <1>2, <1>3, <1>4, <1>5, <1>6, <1>7, <1>8, <1>9, <1>10, <1>11, <1>12, <1>13,
          TypesOfResources, PolicyTargetShape, PolicyTargetGroupShape, ApplicationPolicyGroupShape,
          L2PolicyShape, L3PolicyShape, NetworkServicePolicyShape,
          PolicyClassifierShape, PolicyActionShape, PolicyRuleShape,
          ExternalSegmentShape, ExternalPolicyShape, NatPoolShape
     DEF Request

LEMMA DeletionTakesAllowed ==
  ASSUME TypeInv, NEW w \in Workers, DeletionStep(w),
         NEW e \in uses, e.to \in live \ live'
  PROVE  e.attr \in Nullable
<1>1. e \in Edges /\ WellTyped(e) /\ SafeInv
  BY DEF TypeInv, SafeInv, RowsOK, ReferencesExist
<1>2. ASSUME UNCHANGED owner PROVE FALSE
  BY <1>2 DEF live
<1>3. CASE DeleteTarget(w)
  <2>1. Running(w, "delete") /\ Top(w).todo \subseteq PolicyTargets
    BY <1>3, TopTyped DEF DeleteTarget, TypeInv, Frames
  <2>2. e.to \in PolicyTargets
    BY <1>1, <1>2, <1>3, <2>1, EraseTakes DEF DeleteTarget, Rows
  <2> QED BY <1>1, <2>2, UsersOfType
<1>4. CASE DeleteGroupRow(w)
  <2> DEFINE g == Top(w).group
  <2>1. Running(w, "delete") /\ g \in PolicyTargetGroups
    BY <1>4, TopTyped DEF DeleteGroupRow, TypeInv, Frames
  <2>2. Erase(g) /\ LinksTo(g, "proxied_group_id") = {}
    BY <1>2, <1>4 DEF DeleteGroupRow, Rows
  <2>3. e.to = g
    BY <1>1, <2>2, EraseTakes
  <2>4. e.attr # "proxied_group_id"
    BY <2>2, <2>3 DEF LinksTo
  <2> QED BY <1>1, <2>1, <2>3, <2>4, UsersOfType DEF Nullable
<1>5. ASSUME ClearRuleSets(w) \/ DeleteProxyGroup(w) \/ ListTargets(w) PROVE FALSE
  BY <1>2, <1>5 DEF ClearRuleSets, DeleteProxyGroup, ListTargets, Rows
<1> QED BY <1>3, <1>4, <1>5 DEF DeletionStep

\* The deletion of a row takes no reference from a row that stays, but for the
\* columns that are set to null.
THEOREM DeletionIsSafe == Spec => DeletionTakesNoReference
<1>1. ASSUME TypeInv, [Next]_vars, NEW r \in live \ live', NEW e \in uses, e.to = r
      PROVE  e.attr \in Nullable
  <2>1. SafeInv
    BY <1>1 DEF TypeInv
  <2>2. ASSUME UNCHANGED owner PROVE FALSE
    BY <1>1, <2>2 DEF live
  <2>3. ASSUME NEW c \in Contexts, Request(c) PROVE e.attr \in Nullable
    BY <1>1, <2>1, <2>3, RequestTakesNoReference
  <2>4. ASSUME NEW w \in Workers, DeletionStep(w) PROVE e.attr \in Nullable
    BY <1>1, <2>4, DeletionTakesAllowed
  <2> QED BY <1>1, <2>2, <2>3, <2>4 DEF Next, BindPort, vars
<1>2. TypeInv /\ [Next]_vars =>
        [\A r \in live \ live' : \A e \in uses :
           e.to = r /\ e.from \in live' =>
             e.attr \in {"parent_id", "application_policy_group_id",
                         "policy_target_group_id"}]_vars
  BY <1>1 DEF Nullable
<1> QED BY <1>2, TypeInvAlways, PTL DEF Spec, DeletionTakesNoReference

--------------------
(* Requests that are retried and undone *)

\* Whichever topic a behaviour follows, the driver manager moves as its own
\* specification says or not at all.
LEMMA ManagerMoves ==
  MCSpec => ManagerProofs!Spec
<1>1. MCInit => ManagerProofs!Init
  BY DEF MCInit, Manager!Init, ManagerProofs!Init, Manager!Ids, ManagerProofs!Ids, Manager!Drivers,
    ManagerProofs!Drivers, Manager!NoRequest, ManagerProofs!NoRequest
<1>2. Manager!Next => ManagerProofs!Next
  <2>1. /\ \A q, e : Manager!Retried(q, e) = ManagerProofs!Retried(q, e)
        /\ \A q, a : Manager!Answered(q, a) = ManagerProofs!Answered(q, a)
        /\ \A q : Manager!Rewound(q) = ManagerProofs!Rewound(q)
    BY DEF
      Manager!Retried, ManagerProofs!Retried, Manager!Rewound, ManagerProofs!Rewound,
      Manager!Answered, ManagerProofs!Answered
  <2>2. \A q, e : Manager!Failed(q, e) = ManagerProofs!Failed(q, e)
    <3>1. \A q, e : Manager!UndoFailed(q, e) = ManagerProofs!UndoFailed(q, e)
      BY <2>1 DEF Manager!UndoFailed, ManagerProofs!UndoFailed
    <3> QED BY <2>1, <3>1, Zenon DEF Manager!Failed, ManagerProofs!Failed
  <2>3. \A q : Manager!Completed(q) = ManagerProofs!Completed(q)
    BY <2>1 DEF
      Manager!Completed, ManagerProofs!Completed, Manager!Answered, ManagerProofs!Answered
  <2>4. \A q : Manager!Passed(q) = ManagerProofs!Passed(q) /\ Manager!Eaten(q) = ManagerProofs!Eaten(q)
    BY <2>2 DEF
      Manager!Passed, ManagerProofs!Passed, Manager!Eaten, ManagerProofs!Eaten,
      Manager!continue_on_failure, ManagerProofs!continue_on_failure, Manager!Deleting,
      ManagerProofs!Deleting, Manager!ordered_policy_drivers,
      ManagerProofs!ordered_policy_drivers
  <2>5. Manager!IdsSuffice <=> ManagerProofs!IdsSuffice
    <3>1. \A S : Manager!Cardinality(S) = ManagerProofs!Cardinality(S)
      BY DEF Manager!Cardinality, ManagerProofs!Cardinality
    <3> QED BY <3>1 DEF Manager!IdsSuffice, ManagerProofs!IdsSuffice, Manager!Creating,
                        ManagerProofs!Creating, Manager!Busy, ManagerProofs!Busy
  <2>6. Manager!Addressed = ManagerProofs!Addressed
    BY DEF Manager!Addressed, ManagerProofs!Addressed, Manager!Busy, ManagerProofs!Busy
  <2>7. SUFFICES ASSUME NEW w \in RequestWorkers, Manager!Receives(w) \/ Manager!Serve(w)
                 PROVE  ManagerProofs!Receives(w) \/ ManagerProofs!Serve(w)
    BY DEF Manager!Next, ManagerProofs!Next
  <2>8. (Manager!Exists(w) <=> ManagerProofs!Exists(w)) /\ (Manager!Erasing(w) <=> ManagerProofs!Erasing(w))
    BY DEF Manager!Exists, ManagerProofs!Exists, Manager!Erasing, ManagerProofs!Erasing
  <2>9. Manager!Receives(w) => ManagerProofs!Receives(w)
    BY <2>5, <2>6 DEF
      Manager!Receives, ManagerProofs!Receives, Manager!ReceiveCreate,
      ManagerProofs!ReceiveCreate, Manager!ReceiveUpdate, ManagerProofs!ReceiveUpdate,
      Manager!ReceiveDelete, ManagerProofs!ReceiveDelete, Manager!Receive,
      ManagerProofs!Receive, Manager!NoRequest, ManagerProofs!NoRequest
  <2>10. Manager!CommitCreate(w) => ManagerProofs!CommitCreate(w)
    BY DEF
      Manager!CommitCreate, ManagerProofs!CommitCreate
  <2>11. Manager!CommitUpdate(w) => ManagerProofs!CommitUpdate(w)
    BY <2>8 DEF
      Manager!CommitUpdate, ManagerProofs!CommitUpdate
  <2>12. Manager!CommitDelete(w) => ManagerProofs!CommitDelete(w)
    BY <2>8 DEF
      Manager!CommitDelete, ManagerProofs!CommitDelete
  <2>13. Manager!NotFound(w) => ManagerProofs!NotFound(w)
    BY <2>2, <2>8 DEF
      Manager!NotFound, ManagerProofs!NotFound
  <2>14. Manager!RollBack(w) => ManagerProofs!RollBack(w)
    BY <2>2, <2>8 DEF
      Manager!RollBack, ManagerProofs!RollBack, Manager!Seen, ManagerProofs!Seen
  <2>15. Manager!CallDriver(w) => ManagerProofs!CallDriver(w)
    BY <2>4 DEF
      Manager!CallDriver, ManagerProofs!CallDriver, Manager!CallAhead,
      ManagerProofs!CallAhead, Manager!Realise, ManagerProofs!Realise, Manager!Deleting,
      ManagerProofs!Deleting, Manager!ordered_policy_drivers,
      ManagerProofs!ordered_policy_drivers
  <2>16. Manager!DriverRaises(w) => ManagerProofs!DriverRaises(w)
    BY <2>2, <2>4 DEF
      Manager!DriverRaises, ManagerProofs!DriverRaises, Manager!CallAhead,
      ManagerProofs!CallAhead, Manager!Realise, ManagerProofs!Realise, Manager!Deleting,
      ManagerProofs!Deleting, Manager!ordered_policy_drivers,
      ManagerProofs!ordered_policy_drivers, Manager!Seen, ManagerProofs!Seen
  <2>17. Manager!Return(w) => ManagerProofs!Return(w)
    BY <2>2, <2>3 DEF
      Manager!Return, ManagerProofs!Return
  <2>18. Manager!ReadBack(w) => ManagerProofs!ReadBack(w)
    BY <2>1 DEF
      Manager!ReadBack, ManagerProofs!ReadBack
  <2> QED BY <2>7, <2>9, <2>10, <2>11, <2>12, <2>13, <2>14, <2>15, <2>16, <2>17, <2>18
       DEF Manager!Serve, ManagerProofs!Serve
<1>3. [MCNext]_<<topic, vars, requestVars>> => [ManagerProofs!Next]_(ManagerProofs!vars)
  BY <1>2 DEF MCNext, requestVars, ManagerProofs!vars
<1> QED BY <1>1, <1>3, PTL DEF MCSpec, ManagerProofs!Spec

\* A creation leaves one row or none, through its retries and also when the deletion that
\* undoes an attempt fails (policy_driver_manager.py, plugin.py): in the composition, for
\* any number of drivers, workers and retries and any faults.
THEOREM CreationsAreCleanAlways ==
  ASSUME Manager!DriverManagerAssumption
  PROVE  MCSpec => []CreationsAreClean
<1>1. ManagerProofs!DriverManagerAssumption
  BY DEF Manager!DriverManagerAssumption, ManagerProofs!DriverManagerAssumption, Manager!Ops,
    ManagerProofs!Ops, Manager!Kinds, ManagerProofs!Kinds, Manager!Ids, ManagerProofs!Ids
<1>2. ManagerProofs!Spec => []ManagerProofs!TypeOK
  BY <1>1, ManagerProofs!TypeCorrect
<1>3. ManagerProofs!Spec => []ManagerProofs!OneRowPerCreation
  BY <1>1, ManagerProofs!OneRowIsLeft
<1>4. ManagerProofs!TypeOK /\ ManagerProofs!OneRowPerCreation => CreationsAreClean
  BY DEF CreationsAreClean,
    Manager!TypeOK, ManagerProofs!TypeOK, Manager!OneRowPerCreation,
    ManagerProofs!OneRowPerCreation, Manager!Left, ManagerProofs!Left, Manager!Ids,
    ManagerProofs!Ids, Manager!Drivers, ManagerProofs!Drivers, Manager!Stages,
    ManagerProofs!Stages, Manager!Ops, ManagerProofs!Ops
<1> QED BY <1>2, <1>3, <1>4, ManagerMoves, PTL
====================
