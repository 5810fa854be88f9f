----------------------------- MODULE AimPolicy -----------------------------
(* The AIM mapping driver's image of policy in the fabric: a rule becomes
   a filter and perhaps a reverse filter, a rule set a contract with one
   subject that lists filters, a policy target group an endpoint group in
   the application profile of its application policy group.

   Rules and rule sets are mapped in the transaction of the request.  A
   group's endpoint group is created in the postcommit method, from the
   row the request wrote; other requests may come in between (pending),
   also one that deletes the group: the method then goes on, and may leave
   an endpoint group that belongs to no group. *)
CONSTANTS Classifiers, Rules, RuleSets, Groups, Applications,
          Protocols,   \* protocols, with their ports
          Reversible,  \* those in REVERSIBLE_PROTOCOLS
          None

Directions == {"in", "out", "bi"}
Ways == {"forward", "reverse"}
Filters == Rules \X Ways

VARIABLES
  classifier, \* rows: None or [direction, protocol]
  rule,       \* rows: None or the classifier; every action allows
  ruleSet,    \* rows: None or a set of rules
  filter,     \* AIM: the protocol that the entries of a filter match, or None
  subject,    \* AIM: None or the [in, out] filters of a contract's subject
  astray,     \* history: rule sets with an update their subject did not follow
  application, \* rows: the application policy groups
  group,      \* rows: None or [app, contracts]
  pending,    \* groups to be mapped: None or the row as it was created
  epg,        \* AIM: None or [app, contracts] of an endpoint group
  profile,    \* AIM: the application profiles, those of application groups
  detached    \* history: groups whose endpoint group the driver lost, and
              \* deleted groups for which it may still make one

ruleVars == <<classifier, rule, ruleSet, filter, subject, astray>>
groupVars == <<application, group, pending, epg, profile, detached>>
vars == <<ruleVars, groupVars>>

Rows == [app : Applications \cup {None}, contracts : SUBSET RuleSets] \cup {None}
Lists == SUBSET (Filters \cup {None})

TypeOK ==
  /\ classifier \in [Classifiers ->
       [direction : Directions, protocol : Protocols] \cup {None}]
  /\ rule \in [Rules -> Classifiers \cup {None}]
  /\ ruleSet \in [RuleSets -> (SUBSET Rules) \cup {None}]
  /\ filter \in [Filters -> Protocols \cup {None}]
  /\ subject \in [RuleSets -> [in : Lists, out : Lists] \cup {None}]
  /\ astray \subseteq RuleSets
  /\ application \subseteq Applications
  /\ group \in [Groups -> Rows] /\ pending \in [Groups -> Rows]
  /\ epg \in [Groups -> Rows]
  /\ profile \subseteq Applications /\ detached \subseteq Groups

Init ==
  /\ classifier = [c \in Classifiers |-> None] /\ rule = [r \in Rules |-> None]
  /\ ruleSet = [p \in RuleSets |-> None]
  /\ filter = [f \in Filters |-> None] /\ subject = [p \in RuleSets |-> None]
  /\ astray = {}
  /\ application = {} /\ group = [g \in Groups |-> None]
  /\ pending = group /\ epg = group /\ profile = {} /\ detached = {}

--------------------
(* Classifiers, rules and rule sets. *)

RulesOf(c) == {r \in Rules : rule[r] = c}
Holding(r) == {p \in RuleSets : ruleSet[p] # None /\ r \in ruleSet[p]}
SetsOf(c) == UNION {Holding(r) : r \in RulesOf(c)}

\* Mutant: the reverse filter that a protocol does not need is kept.
MappedKeepingReverse(rules, p) ==
  [f \in Filters |->
     IF f[1] \notin rules THEN filter[f]
     ELSE IF f[2] = "forward" \/ p \in Reversible THEN p ELSE filter[f]]

\* The filters of these rules are made anew, for a classifier's protocol.
Mapped(rules, p) ==
  [f \in Filters |->
     IF f[1] \notin rules THEN filter[f]
     ELSE IF f[2] = "forward" \/ p \in Reversible THEN p ELSE None]

\* The lists of a subject where the filters of one direction belong.
Directed(d, forward, reverse) ==
  [in |-> CASE d = "in" -> forward [] d = "out" -> reverse
            [] d = "bi" -> forward \cup reverse,
   out |-> CASE d = "in" -> reverse [] d = "out" -> forward
             [] d = "bi" -> forward \cup reverse]

Existing(r, way) == IF filter[<<r, way>>] = None THEN {} ELSE {<<r, way>>}

\* The lists of these rules: the filters they have in AIM.
Populated(rules) ==
  LET lists == {Directed(classifier[rule[r]].direction,
                         Existing(r, "forward"), Existing(r, "reverse")) : r \in rules}
  IN [in |-> UNION {l.in : l \in lists}, out |-> UNION {l.out : l \in lists}]

CreateClassifier(c, value) ==
  /\ classifier[c] = None
  /\ classifier' = [classifier EXCEPT ![c] = value]
  /\ UNCHANGED <<rule, ruleSet, filter, subject, astray, groupVars>>

DeleteClassifier(c) ==
  /\ classifier[c] # None /\ RulesOf(c) = {}
  /\ classifier' = [classifier EXCEPT ![c] = None]
  /\ UNCHANGED <<rule, ruleSet, filter, subject, astray, groupVars>>

\* Mutant: the filters are added to the lists, and stay in the old ones.
RedirectedAlso(s, c, d, removed) ==
  LET rules == RulesOf(c)
      lists == Directed(d, rules \X {"forward"},
                        IF removed THEN {None} ELSE rules \X {"reverse"})
  IN [in |-> s.in \cup lists.in, out |-> s.out \cup lists.out]

\* A subject after the direction changed: every rule of the classifier takes
\* its place in it.  A reverse filter that was removed has lost its name.
Redirected(s, c, d, removed) ==
  LET rules == RulesOf(c)
      names == (rules \X Ways) \cup (IF removed THEN {None} ELSE {})
      lists == Directed(d, rules \X {"forward"},
                        IF removed THEN {None} ELSE rules \X {"reverse"})
  IN [in |-> (s.in \ names) \cup lists.in, out |-> (s.out \ names) \cup lists.out]

WithoutReverse(s, c) ==
  LET gone == RulesOf(c) \X {"reverse"}
  IN [in |-> s.in \ gone, out |-> s.out \ gone]

\* The cases in which the subject of rule set p follows the update.
Follows(p, c, new) ==
  IF new.direction = classifier[c].direction
  THEN classifier[c].protocol \in Reversible \/ new.protocol \notin Reversible
  ELSE new.protocol \in Reversible /\ RulesOf(c) \subseteq ruleSet[p]

UpdateClassifier(c, new) ==
  /\ classifier[c] \notin {None, new}
  /\ LET removed == /\ new.protocol \notin Reversible
                    /\ \E r \in RulesOf(c) : filter[<<r, "reverse">>] # None
         turned == new.direction # classifier[c].direction
     IN /\ classifier' = [classifier EXCEPT ![c] = new]
        /\ filter' = Mapped(RulesOf(c), new.protocol)
        /\ subject' = [p \in RuleSets |->
             IF p \notin SetsOf(c) THEN subject[p]
             ELSE IF turned THEN Redirected(subject[p], c, new.direction, removed)
             ELSE IF removed THEN WithoutReverse(subject[p], c)
             ELSE subject[p]]
  /\ astray' = astray \cup {p \in SetsOf(c) : ~Follows(p, c, new)}
  /\ UNCHANGED <<rule, ruleSet, groupVars>>

CreateRule(r, c) ==
  /\ rule[r] = None /\ classifier[c] # None
  /\ rule' = [rule EXCEPT ![r] = c]
  /\ filter' = Mapped({r}, classifier[c].protocol)
  /\ UNCHANGED <<classifier, ruleSet, subject, astray, groupVars>>

Alike(c, d) ==
  /\ classifier[c].direction = classifier[d].direction
  /\ classifier[c].protocol \in Reversible <=> classifier[d].protocol \in Reversible

\* The filters are deleted and made again; no subject is changed.
UpdateRule(r, c) ==
  /\ rule[r] # None /\ classifier[c] # None
  /\ rule' = [rule EXCEPT ![r] = c]
  /\ filter' = Mapped({r}, classifier[c].protocol)
  /\ astray' = astray \cup (IF Alike(rule[r], c) THEN {} ELSE Holding(r))
  /\ UNCHANGED <<classifier, ruleSet, subject, groupVars>>

DeleteRule(r) ==
  /\ rule[r] # None /\ Holding(r) = {}
  /\ rule' = [rule EXCEPT ![r] = None]
  /\ filter' = [f \in Filters |-> IF f[1] = r THEN None ELSE filter[f]]
  /\ UNCHANGED <<classifier, ruleSet, subject, astray, groupVars>>

\* Create a rule set, or give it other rules.
SetRules(p, rules) ==
  /\ ruleSet[p] # rules /\ \A r \in rules : rule[r] # None
  /\ ruleSet' = [ruleSet EXCEPT ![p] = rules]
  /\ subject' = [subject EXCEPT ![p] = Populated(rules)]
  /\ astray' = astray \ {p}
  /\ UNCHANGED <<classifier, rule, filter, groupVars>>

\* Mutant: a rule set is deleted whatever groups provide or consume it.
DeleteAnyRuleSet(p) ==
  /\ ruleSet[p] # None
  /\ ruleSet' = [ruleSet EXCEPT ![p] = None]
  /\ subject' = [subject EXCEPT ![p] = None]
  /\ astray' = astray \ {p}
  /\ UNCHANGED <<classifier, rule, filter, groupVars>>

DeleteRuleSet(p) ==
  /\ ruleSet[p] # None
  /\ \A g \in Groups : group[g] # None => p \notin group[g].contracts
  /\ ruleSet' = [ruleSet EXCEPT ![p] = None]
  /\ subject' = [subject EXCEPT ![p] = None]
  /\ astray' = astray \ {p}
  /\ UNCHANGED <<classifier, rule, filter, groupVars>>

--------------------
(* Application policy groups and policy target groups. *)

Members(a) == {g \in Groups : group[g] # None /\ group[g].app = a}

Usable(row) ==
  /\ row # None /\ row.app \in application \cup {None}
  /\ \A p \in row.contracts : ruleSet[p] # None

\* An identifier is not used again while anything carries it.
CreateApplication(a) ==
  /\ a \notin application
  /\ \A g \in Groups : \A row \in {pending[g], epg[g]} : row # None => row.app # a
  /\ application' = application \cup {a}
  /\ UNCHANGED <<ruleVars, group, pending, epg, profile, detached>>

\* No check of its groups: the foreign key of their rows becomes null, and
\* the driver does nothing.
DeleteApplication(a) ==
  /\ a \in application
  /\ application' = application \ {a}
  /\ group' = [g \in Groups |->
       IF g \in Members(a) THEN [group[g] EXCEPT !.app = None] ELSE group[g]]
  /\ detached' = detached \cup Members(a)
  /\ UNCHANGED <<ruleVars, pending, epg, profile>>

CreateGroup(g, row) ==
  /\ group[g] = None /\ epg[g] = None /\ g \notin detached
  /\ Usable(row)
  /\ group' = [group EXCEPT ![g] = row]
  /\ pending' = [pending EXCEPT ![g] = row]
  /\ UNCHANGED <<ruleVars, application, epg, profile, detached>>

\* Mutant: the profile goes with any member.
UnneededByOne(g, a) == IF a # None THEN {a} ELSE {}

\* The profile of an application group goes with the last member.
Unneeded(g, a) == IF a # None /\ Members(a) \subseteq {g} THEN {a} ELSE {}

\* Mutant: a profile also for groups without an application group.
NeededAlways(row) == {row.app}

Needed(row) == {row.app} \ {None}

\* The endpoint group is found by the group and its application profile.
Found(g) == epg[g] # None /\ epg[g].app = group[g].app

EraseGroup(g) ==
  /\ group' = [group EXCEPT ![g] = None]
  /\ epg' = IF Found(g) THEN [epg EXCEPT ![g] = None] ELSE epg
  /\ profile' = profile \ Unneeded(g, group[g].app)
  /\ UNCHANGED <<ruleVars, application>>

\* create_policy_target_group_postcommit.  The endpoint group is made from the
\* row of the request also when the group is deleted by then, unless the method
\* missed the group on its way; without its application group a creation is
\* undone.
CreateEpg(g) ==
  /\ pending[g] # None
  /\ pending' = [pending EXCEPT ![g] = None]
  /\ UNCHANGED detached
  /\ \/ /\ pending[g].app \in application \cup {None}
        /\ epg' = [epg EXCEPT ![g] = pending[g]]
        /\ profile' = profile \cup Needed(pending[g])
        /\ UNCHANGED <<ruleVars, application, group>>
     \/ group[g] = None /\ UNCHANGED <<ruleVars, application, group, epg, profile>>
     \/ /\ group[g] # None /\ pending[g].app \notin application \cup {None}
        /\ EraseGroup(g)

\* Mutant: the new contracts are added to the old ones.
MovedKeepingContracts(g, row) ==
  [app |-> row.app, contracts |-> epg[g].contracts \cup row.contracts]

Moved(g, row) ==
  [app |-> row.app,
   contracts |-> (epg[g].contracts \ group[g].contracts) \cup row.contracts]

\* A group whose endpoint group is not found keeps what AIM has.
UpdateGroup(g, row) ==
  /\ group[g] \notin {None, row} /\ Usable(row)
  /\ group' = [group EXCEPT ![g] = row]
  /\ IF ~Found(g) THEN UNCHANGED <<epg, profile>>
     ELSE /\ epg' = [epg EXCEPT ![g] = Moved(g, row)]
          /\ profile' = IF row.app = group[g].app THEN profile
                        ELSE (profile \cup Needed(row)) \ Unneeded(g, group[g].app)
  /\ detached' = detached \cup (IF pending[g] # None THEN {g} ELSE {})
  /\ UNCHANGED <<ruleVars, application, pending>>

\* A creation that is under way is not stopped.
DeleteGroup(g) ==
  /\ group[g] # None /\ EraseGroup(g)
  /\ detached' = detached \cup (IF pending[g] # None THEN {g} ELSE {})
  /\ UNCHANGED pending

RuleStep ==
  \/ \E c \in Classifiers, d \in Directions, p \in Protocols :
       LET value == [direction |-> d, protocol |-> p]
       IN CreateClassifier(c, value) \/ UpdateClassifier(c, value)
  \/ \E c \in Classifiers : DeleteClassifier(c)
  \/ \E r \in Rules, c \in Classifiers : CreateRule(r, c) \/ UpdateRule(r, c)
  \/ \E r \in Rules : DeleteRule(r)
  \/ \E p \in RuleSets, rules \in SUBSET Rules : SetRules(p, rules)
  \/ \E p \in RuleSets : DeleteRuleSet(p)

GroupStep ==
  \/ \E a \in Applications : CreateApplication(a) \/ DeleteApplication(a)
  \/ \E g \in Groups, row \in Rows : CreateGroup(g, row) \/ UpdateGroup(g, row)
  \/ \E g \in Groups : CreateEpg(g) \/ DeleteGroup(g)

Next == RuleStep \/ GroupStep

Spec == Init /\ [][Next]_vars

--------------------
(* Properties. *)

\* The filters in AIM are those of the rules, and match what the classifiers
\* of the rules say now.
FiltersFollowRules ==
  \A r \in Rules : \A way \in Ways :
    filter[<<r, way>>] =
      IF rule[r] = None THEN None
      ELSE LET p == classifier[rule[r]].protocol
           IN IF way = "forward" \/ p \in Reversible THEN p ELSE None

\* A subject lists the filters of the rules of its rule set, each for its
\* direction, after every update but these: a rule gets a classifier of another
\* kind, a protocol becomes reversible while the direction stays, the direction
\* of one that is not reversible changes, or the rules of the classifier are not
\* all in the rule set.
SubjectFollowsRules ==
  \A p \in RuleSets :
    /\ ruleSet[p] = None <=> subject[p] = None
    /\ ruleSet[p] # None /\ p \notin astray => subject[p] = Populated(ruleSet[p])

\* The endpoint group of a group is in its application profile and has its
\* contracts, and is gone with the group, unless the group was updated or deleted
\* before it had one or its application group was deleted.
EpgFollowsGroup ==
  \A g \in Groups \ detached : pending[g] = None => epg[g] = group[g]

\* An endpoint group is never without its application profile and, unless some
\* endpoint group was lost, a profile never without a group that is or will be
\* in it: the last member takes it along, whatever the order of the requests.
ProfilesAreUsed ==
  /\ \A g \in Groups \ detached :
       epg[g] # None => epg[g].app \in profile \cup {None}
  /\ detached = {} => \A a \in profile :
       \E g \in Groups : \E row \in {group[g], pending[g], epg[g]} :
         row # None /\ row.app = a

\* The contracts of a group's endpoint group exist.
EpgContractsExist ==
  \A g \in Groups \ detached :
    epg[g] # None => \A p \in epg[g].contracts : subject[p] # None

\* A contract allows only what the rules of its rule set do
\* (test_aim_mapping_driver.py, _validate_contract_subject_filters).
SubjectHoldsOwnRules ==
  \A p \in RuleSets :
    ruleSet[p] # None =>
      (subject[p].in \cup subject[p].out) \ {None} \subseteq ruleSet[p] \X Ways
====================
