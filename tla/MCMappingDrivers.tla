-------------------------- MODULE MCMappingDrivers --------------------------
(* Small instances of what the two mapping drivers make of policy: security
   groups (SecurityGroups, with four addresses) and resources of the fabric
   (AimPolicy).  Each behaviour has a topic and leaves the other driver as
   it is.  Security groups: rule sets with fixed groups, groups and targets
   with fixed policy, or the outside.  Fabric: filters and subjects, or
   groups and rule sets without rules, which meet in contracts only. *)
EXTENDS SecurityGroups, TLC

CONSTANTS x1, x2, p1, p2, r1, r2, c1, c2, g1, g2,
          Applications, FabricClassifiers, FabricGroups, Protocols, Reversible,
          MaxRuleSets  \* bound: rule sets that exist while filters are the topic

VARIABLES
  topic,
  fabricClassifier, fabricRule, ruleSet, filter, subject, astray,
  application, fabricGroup, pending, epg, profile, detached

fabricVars == <<fabricClassifier, fabricRule, ruleSet, filter, subject, astray,
                application, fabricGroup, pending, epg, profile, detached>>

Aim == INSTANCE AimPolicy WITH
         Classifiers <- FabricClassifiers, RuleSets <- Sets, Groups <- FabricGroups,
         classifier <- fabricClassifier, rule <- fabricRule,
         group <- fabricGroup

--------------------
MCBlocks == {{1}, {2}, {3}, {4}, {1, 2}, {3, 4}, {1, 2, 3, 4}}
MCRoutes == {{1, 2}, {1, 2, 3, 4}}
MCPoolOf == (x1 :> {1}) @@ (x2 :> {3})

SecurityTopics == {"rules", "groups", "outside"}

About(t) ==
  /\ classifier'[c2] = classifier[c2]
  /\ classifier'[c1].direction # "out"
  /\ t # "rules" => classifier' = classifier /\ set'[p2] = None /\ rule'[r2] = None
  /\ t = "rules" => group'[g2] = None /\ (group'[g1] # None => group'[g1].consumed = {})
  /\ t # "groups" => \A u \in Targets : target'[u] = None
  /\ t # "outside" => external' = None /\ l3' = {} /\ routes' = {}
  /\ t = "outside" => group'[g2] = None

FiltersNext ==
  Aim!RuleStep /\ Cardinality({p \in Sets : ruleSet'[p] # None}) <= MaxRuleSets

\* The second group has no contracts.
EpgsNext ==
  /\ \/ Aim!GroupStep
     \/ \E p \in Sets : Aim!SetRules(p, {}) \/ Aim!DeleteRuleSet(p)
  /\ \A g \in FabricGroups \ {g1} : fabricGroup'[g] # None => fabricGroup'[g].contracts = {}

MCInit ==
  /\ Init /\ Aim!Init
  /\ topic \in SecurityTopics \cup {"filters", "endpoint groups"}
  /\ classifier[c1].traffic # classifier[c2].traffic
  /\ classifier[c2].direction = "in"
  /\ classifier[c1].direction = "bi"
  /\ classifier[c1].traffic = CHOOSE t \in Traffic : TRUE

MCNext ==
  /\ UNCHANGED topic
  /\ \/ topic \in SecurityTopics /\ Next /\ About(topic) /\ UNCHANGED fabricVars
     \/ topic = "filters" /\ FiltersNext /\ UNCHANGED vars
     \/ topic = "endpoint groups" /\ EpgsNext /\ UNCHANGED vars

MCSpec == MCInit /\ [][MCNext]_<<vars, fabricVars, topic>>

Symmetry == Permutations(Workers)

--------------------
\* When no request is in progress the security groups hold what the policy amounts
\* to, and ports are in those of their groups; a rule for a group's addresses is
\* always one the group is owed (resource_mapping.py).
SecurityFollowsPolicy == TypeOK /\ RulesFollowPolicy /\ PortsFollowGroups /\ RulesAreOwed

\* Filters and the subjects that list them are those of the rules, over all updates
\* the driver follows (aim_mapping.py).
SubjectsFollowRules == Aim!TypeOK /\ Aim!FiltersFollowRules /\ Aim!SubjectFollowsRules

\* Endpoint groups have the contracts and the profile of their rows, and these
\* exist, whatever comes between a group's creation and its postcommit method
\* except an update or the deletion of the group or of its application group.
EpgsFollowGroups == Aim!EpgFollowsGroup /\ Aim!ProfilesAreUsed /\ Aim!EpgContractsExist

\* A contract allows only what the rules of its rule set do
\* (test_aim_mapping_driver.py, _validate_contract_subject_filters).
ContractsHoldOwnRules == Aim!SubjectHoldsOwnRules
====================
