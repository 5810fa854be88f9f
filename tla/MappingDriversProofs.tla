------------------------ MODULE MappingDriversProofs ------------------------
(* Theorems about the two mapping drivers, for any number of rows: what a
   driver keeps is what the rows amount to.

   The AIM driver.  The subject of a rule set is rewritten from the
   filters found in AIM, or edited in place for one classifier.  Both come
   to the same because a list is said by the classifier of each of its
   filters (Listed), and the filters are always those of the rules
   (FiltersFollowRules).  A group is found again, and the last member of
   an application group known, because a group waits to be mapped or has
   the endpoint group of its row, unless the driver has lost it (Mapping).

   The resource mapping driver.  A postcommit method changes the security
   groups by a difference, some time after the commit.  Meanwhile they
   hold what policy and relations were when the driver was last told
   (Told, SgFits): the rows, except where a worker keeps an old value.
   Differences then add up because two requests at work are never for the
   same row, for the policy, or for the outside (JobsApart).
   A port is what its group's relations are, but for what an update has
   not got to (Late, Early, PortFits); a worker writes back what it read,
   because nobody else has the port of a target that stays (WorkFits). *)
EXTENDS MCMappingDrivers, TLAPS

Values == [direction : Aim!Directions, protocol : Protocols]
ListPairs == [in : Aim!Lists, out : Aim!Lists]
Groupings == [app : Applications \cup {None}, contracts : SUBSET Sets]

\* None is no row and no value of a column.
AimConstants ==
  /\ None \notin FabricClassifiers \cup Protocols \cup Applications
  /\ None \notin Values \cup ListPairs \cup Groupings \cup (SUBSET Rules)

\* Whether a filter belongs in one of the lists, by the classifier of its rule.
Listed(f, list) ==
  LET value == fabricClassifier[fabricRule[f[1]]]
  IN /\ f[2] = "forward" \/ value.protocol \in Reversible
     /\ value.direction \in {"bi", IF f[2] = "forward" THEN list
                                   ELSE IF list = "in" THEN "out" ELSE "in"}

\* The filters of these rules that belong in the list.
Lines(rules, list) == {f \in Aim!Filters : f[1] \in rules /\ Listed(f, list)}

\* Rules and rule sets refer to rows that exist.
RowsAreThere ==
  /\ \A r \in Rules : fabricRule[r] # None => fabricClassifier[fabricRule[r]] # None
  /\ \A p \in Sets : ruleSet[p] # None => \A r \in ruleSet[p] : fabricRule[r] # None

\* What is said of the subject of a rule set.
SubjectLists(p) ==
  /\ ruleSet[p] = None <=> subject[p] = None
  /\ ruleSet[p] # None /\ p \notin astray =>
       subject[p] = [in |-> Lines(ruleSet[p], "in"), out |-> Lines(ruleSet[p], "out")]

RuleTypes ==
  /\ fabricClassifier \in [FabricClassifiers -> Values \cup {None}]
  /\ fabricRule \in [Rules -> FabricClassifiers \cup {None}]
  /\ ruleSet \in [Sets -> (SUBSET Rules) \cup {None}]
  /\ filter \in [Aim!Filters -> Protocols \cup {None}]
  /\ subject \in [Sets -> ListPairs \cup {None}]
  /\ astray \subseteq Sets

RuleInv == RuleTypes /\ RowsAreThere /\ Aim!FiltersFollowRules /\ \A p \in Sets : SubjectLists(p)

GroupTypes ==
  /\ application \subseteq Applications
  /\ fabricGroup \in [FabricGroups -> Groupings \cup {None}]
  /\ pending \in [FabricGroups -> Groupings \cup {None}]
  /\ epg \in [FabricGroups -> Groupings \cup {None}]
  /\ profile \subseteq Applications /\ detached \subseteq FabricGroups

\* A group that waits to be mapped has no endpoint group yet; what is mapped is the
\* row, unless the group is detached.
Mapping(g) ==
  /\ pending[g] # None => epg[g] = None /\ (fabricGroup[g] = None => g \in detached)
  /\ g \notin detached => IF pending[g] # None THEN pending[g] = fabricGroup[g] ELSE epg[g] = fabricGroup[g]
  /\ fabricGroup[g] # None => \A p \in fabricGroup[g].contracts : ruleSet[p] # None
  /\ g \notin detached /\ epg[g] # None => epg[g].app \in profile \cup {None}

GroupInv ==
  /\ GroupTypes
  /\ \A g \in FabricGroups : Mapping(g)
  /\ detached = {} => \A a \in profile : \E g \in FabricGroups : fabricGroup[g] # None /\ fabricGroup[g].app = a

AimInv == RuleInv /\ GroupInv

--------------------
(* Filters and subjects *)

LEMMA RuleTyped ==
  ASSUME AimConstants, RuleTypes, RowsAreThere, NEW r \in Rules, fabricRule[r] # None
  PROVE  /\ fabricRule[r] \in FabricClassifiers /\ fabricClassifier[fabricRule[r]] \in Values
         /\ fabricClassifier[fabricRule[r]].direction \in Aim!Directions
         /\ fabricClassifier[fabricRule[r]].protocol \in Protocols /\ fabricClassifier[fabricRule[r]].protocol # None
<1>1. fabricRule[r] \in FabricClassifiers /\ fabricClassifier[fabricRule[r]] # None
  BY DEF RuleTypes, RowsAreThere
<1>2. fabricClassifier[fabricRule[r]] \in Values
  BY <1>1 DEF RuleTypes
<1> QED BY <1>1, <1>2 DEF Values, AimConstants

\* The driver lists the filters that it finds in AIM: these are those of the rules.
LEMMA PopulatedIsWanted ==
  ASSUME AimConstants, RuleTypes, RowsAreThere, Aim!FiltersFollowRules,
         NEW rules \in SUBSET Rules, \A r \in rules : fabricRule[r] # None
  PROVE  Aim!Populated(rules) = [in |-> Lines(rules, "in"), out |-> Lines(rules, "out")]
<1> DEFINE lists(r) == Aim!Directed(fabricClassifier[fabricRule[r]].direction,
                                Aim!Existing(r, "forward"), Aim!Existing(r, "reverse"))
<1>1. ASSUME NEW r \in rules
      PROVE  /\ Aim!Existing(r, "forward") = {<<r, "forward">>}
             /\ Aim!Existing(r, "reverse") =
                  IF fabricClassifier[fabricRule[r]].protocol \in Reversible THEN {<<r, "reverse">>} ELSE {}
  <2>1. r \in Rules /\ fabricRule[r] # None /\ fabricClassifier[fabricRule[r]].protocol # None
    BY RuleTyped
  <2>2. /\ filter[<<r, "forward">>] = fabricClassifier[fabricRule[r]].protocol
        /\ filter[<<r, "reverse">>] = IF fabricClassifier[fabricRule[r]].protocol \in Reversible
                                  THEN fabricClassifier[fabricRule[r]].protocol ELSE None
    BY <2>1 DEF Aim!FiltersFollowRules, Aim!Ways
  <2> QED BY <2>1, <2>2 DEF Aim!Existing
<1>2. ASSUME NEW r \in rules
      PROVE  /\ lists(r).in = {f \in Aim!Filters : f[1] = r /\ Listed(f, "in")}
             /\ lists(r).out = {f \in Aim!Filters : f[1] = r /\ Listed(f, "out")}
  <2>1. fabricClassifier[fabricRule[r]].direction \in {"in", "out", "bi"} /\ r \in Rules
    BY RuleTyped DEF Aim!Directions
  <2>2. \A f : f \in Aim!Filters /\ f[1] = r <=> f \in {<<r, "forward">>, <<r, "reverse">>}
    BY <2>1 DEF Aim!Filters, Aim!Ways
  <2>3. CASE fabricClassifier[fabricRule[r]].direction = "in"
    <3>1. lists(r).in = Aim!Existing(r, "forward") /\ lists(r).out = Aim!Existing(r, "reverse")
      BY <2>3 DEF Aim!Directed
    <3> QED BY <3>1, <1>1, <2>2, <2>3 DEF Listed
  <2>4. CASE fabricClassifier[fabricRule[r]].direction = "out"
    <3>1. lists(r).in = Aim!Existing(r, "reverse") /\ lists(r).out = Aim!Existing(r, "forward")
      BY <2>4 DEF Aim!Directed
    <3> QED BY <3>1, <1>1, <2>2, <2>4 DEF Listed
  <2>5. CASE fabricClassifier[fabricRule[r]].direction = "bi"
    <3>1. /\ lists(r).in = Aim!Existing(r, "forward") \cup Aim!Existing(r, "reverse")
          /\ lists(r).out = Aim!Existing(r, "forward") \cup Aim!Existing(r, "reverse")
      BY <2>5 DEF Aim!Directed
    <3> QED BY <3>1, <1>1, <2>2, <2>5 DEF Listed
  <2> QED BY <2>1, <2>3, <2>4, <2>5
<1>3. Aim!Populated(rules) = [in |-> UNION {l.in : l \in {lists(r) : r \in rules}},
                              out |-> UNION {l.out : l \in {lists(r) : r \in rules}}]
  BY DEF Aim!Populated
<1>4. UNION {l.in : l \in {lists(r) : r \in rules}} = Lines(rules, "in")
  <2>1. UNION {l.in : l \in {lists(r) : r \in rules}} = UNION {lists(r).in : r \in rules}
    OBVIOUS
  <2> HIDE DEF lists
  <2>2. UNION {lists(r).in : r \in rules} = Lines(rules, "in")
    BY <1>2 DEF Lines
  <2> QED BY <2>1, <2>2
<1>5. UNION {l.out : l \in {lists(r) : r \in rules}} = Lines(rules, "out")
  <2>1. UNION {l.out : l \in {lists(r) : r \in rules}} = UNION {lists(r).out : r \in rules}
    OBVIOUS
  <2> HIDE DEF lists
  <2>2. UNION {lists(r).out : r \in rules} = Lines(rules, "out")
    BY <1>2 DEF Lines
  <2> QED BY <2>1, <2>2
<1> QED BY <1>3, <1>4, <1>5

\* The filters of a rule stay in their lists when its classifier is the same or alike.
Steady(r) ==
  \/ fabricRule'[r] = fabricRule[r] /\ fabricClassifier'[fabricRule[r]] = fabricClassifier[fabricRule[r]]
  \/ /\ fabricClassifier'[fabricRule'[r]].direction = fabricClassifier[fabricRule[r]].direction
     /\ fabricClassifier'[fabricRule'[r]].protocol \in Reversible
          <=> fabricClassifier[fabricRule[r]].protocol \in Reversible

LEMMA SteadySubjects ==
  ASSUME RuleInv, NEW p \in Sets, ruleSet'[p] = ruleSet[p], subject'[p] = subject[p],
         astray \subseteq astray',
         ruleSet[p] # None /\ p \notin astray' => \A r \in ruleSet[p] : Steady(r)
  PROVE  SubjectLists(p)'
<1> USE DEF SubjectLists
<1>1. SubjectLists(p)
  BY DEF RuleInv
<1>2. CASE ruleSet[p] = None \/ p \in astray'
  BY <1>1, <1>2
<1>3. CASE ruleSet[p] # None /\ p \notin astray'
  <2>1. PICK rules \in SUBSET Rules : rules = ruleSet[p] /\ rules = ruleSet'[p]
    BY <1>3 DEF RuleInv, RuleTypes
  <2>2. ASSUME NEW list PROVE Lines(rules, list)' = Lines(rules, list)
    <3>1. \A f \in Aim!Filters : f[1] \in rules => (Listed(f, list)' <=> Listed(f, list))
      BY <1>3, <2>1 DEF Listed, Steady
    <3> QED BY <3>1 DEF Lines
  <2>3. Lines(rules, "in")' = Lines(rules, "in") /\ Lines(rules, "out")' = Lines(rules, "out")
    BY <2>2
  <2>4. Lines(rules, "in")' = Lines(ruleSet[p], "in")' /\ Lines(rules, "out")' = Lines(ruleSet[p], "out")'
    BY <2>1 DEF Lines
  <2> QED BY <1>1, <1>3, <2>1, <2>3, <2>4
<1> QED BY <1>2, <1>3

LEMMA CreateClassifierKeeps ==
  ASSUME AimConstants, RuleInv, NEW c \in FabricClassifiers, NEW value \in Values,
         Aim!CreateClassifier(c, value)
  PROVE  RuleInv'
<1>1. /\ fabricClassifier[c] = None /\ fabricClassifier' = [fabricClassifier EXCEPT ![c] = value]
      /\ fabricRule' = fabricRule /\ ruleSet' = ruleSet /\ filter' = filter /\ subject' = subject /\ astray' = astray
  BY DEF Aim!CreateClassifier
<1>2. value # None
  BY DEF AimConstants
<1>3. \A r \in Rules : fabricRule[r] # None => fabricClassifier'[fabricRule[r]] = fabricClassifier[fabricRule[r]]
  BY <1>1 DEF RuleInv, RuleTypes, RowsAreThere
<1>4. RuleTypes'
  BY <1>1 DEF RuleInv, RuleTypes
<1>5. RowsAreThere'
  BY <1>1, <1>2, <1>3 DEF RuleInv, RowsAreThere
<1>6. Aim!FiltersFollowRules'
  BY <1>1, <1>3 DEF RuleInv, Aim!FiltersFollowRules
<1>7. ASSUME NEW p \in Sets PROVE SubjectLists(p)'
  <2>1. ruleSet[p] # None => \A r \in ruleSet[p] : Steady(r)
    BY <1>1, <1>3 DEF RuleInv, RuleTypes, RowsAreThere, Steady
  <2> QED BY <1>1, <2>1, SteadySubjects
<1> QED BY <1>4, <1>5, <1>6, <1>7 DEF RuleInv

LEMMA DeleteClassifierKeeps ==
  ASSUME AimConstants, RuleInv, NEW c \in FabricClassifiers, Aim!DeleteClassifier(c)
  PROVE  RuleInv'
<1>1. /\ fabricClassifier' = [fabricClassifier EXCEPT ![c] = None] /\ \A r \in Rules : fabricRule[r] # c
      /\ fabricRule' = fabricRule /\ ruleSet' = ruleSet /\ filter' = filter /\ subject' = subject /\ astray' = astray
  BY DEF Aim!DeleteClassifier, Aim!RulesOf
<1>2. \A r \in Rules : fabricRule[r] # None => fabricClassifier'[fabricRule[r]] = fabricClassifier[fabricRule[r]]
  BY <1>1 DEF RuleInv, RuleTypes
<1>3. RuleTypes'
  BY <1>1 DEF RuleInv, RuleTypes
<1>4. RowsAreThere'
  BY <1>1, <1>2 DEF RuleInv, RowsAreThere
<1>5. Aim!FiltersFollowRules'
  BY ZenonT(40), <1>1, <1>2 DEF RuleInv, Aim!FiltersFollowRules
<1>6. ASSUME NEW p \in Sets PROVE SubjectLists(p)'
  <2>1. ruleSet[p] # None => \A r \in ruleSet[p] : Steady(r)
    BY <1>1, <1>2 DEF RuleInv, RuleTypes, RowsAreThere, Steady
  <2> QED BY <1>1, <2>1, SteadySubjects
<1> QED BY <1>3, <1>4, <1>5, <1>6 DEF RuleInv

\* The filters of a rule that gets a classifier.
LEMMA RuleFilters ==
  ASSUME AimConstants, RuleInv, NEW r \in Rules, NEW c \in FabricClassifiers, fabricClassifier[c] # None,
         fabricClassifier' = fabricClassifier, fabricRule' = [fabricRule EXCEPT ![r] = c],
         filter' = Aim!Mapped({r}, fabricClassifier[c].protocol)
  PROVE  /\ fabricRule' \in [Rules -> FabricClassifiers \cup {None}]
         /\ filter' \in [Aim!Filters -> Protocols \cup {None}]
         /\ Aim!FiltersFollowRules'
<1>1. fabricClassifier[c].protocol \in Protocols
  BY DEF RuleInv, RuleTypes, Values
<1>2. \A q \in Rules : fabricRule'[q] = IF q = r THEN c ELSE fabricRule[q]
  BY DEF RuleInv, RuleTypes
<1>3. /\ filter' \in [Aim!Filters -> Protocols \cup {None}]
      /\ \A q \in Rules : \A way \in Aim!Ways :
           filter'[<<q, way>>] =
             IF q # r THEN filter[<<q, way>>]
             ELSE IF way = "forward" \/ fabricClassifier[c].protocol \in Reversible
                  THEN fabricClassifier[c].protocol ELSE None
  BY <1>1 DEF Aim!Mapped, Aim!Filters, RuleInv, RuleTypes
<1>4. c # None
  BY DEF AimConstants
<1>5. Aim!FiltersFollowRules'
  <2> DEFINE of(v, k, way) == IF v = None THEN None
                              ELSE LET p == k.protocol
                                   IN IF way = "forward" \/ p \in Reversible THEN p ELSE None
  <2>1. \A q \in Rules : \A way \in Aim!Ways : filter[<<q, way>>] = of(fabricRule[q], fabricClassifier[fabricRule[q]], way)
    BY DEF RuleInv, Aim!FiltersFollowRules
  <2>2. \A q \in Rules : \A way \in Aim!Ways : filter'[<<q, way>>] = of(fabricRule'[q], fabricClassifier'[fabricRule'[q]], way)
    <3> SUFFICES ASSUME NEW q \in Rules, NEW way \in Aim!Ways
        PROVE filter'[<<q, way>>] = of(fabricRule'[q], fabricClassifier'[fabricRule'[q]], way)
      OBVIOUS
    <3>1. CASE q = r
      BY <1>2, <1>3, <1>4, <3>1
    <3>2. CASE q # r
      <4>1. filter'[<<q, way>>] = filter[<<q, way>>] /\ fabricRule'[q] = fabricRule[q]
        BY <1>2, <1>3, <3>2
      <4>2. filter[<<q, way>>] = of(fabricRule[q], fabricClassifier[fabricRule[q]], way)
        BY <2>1
      <4> QED BY <4>1, <4>2
    <3> QED BY <3>1, <3>2
  <2> QED BY <2>2 DEF Aim!FiltersFollowRules
<1> QED BY <1>3, <1>5 DEF RuleInv, RuleTypes

LEMMA CreateRuleKeeps ==
  ASSUME AimConstants, RuleInv, NEW r \in Rules, NEW c \in FabricClassifiers, Aim!CreateRule(r, c)
  PROVE  RuleInv'
<1>1. /\ fabricRule[r] = None /\ fabricClassifier[c] # None /\ fabricRule' = [fabricRule EXCEPT ![r] = c]
      /\ filter' = Aim!Mapped({r}, fabricClassifier[c].protocol)
      /\ fabricClassifier' = fabricClassifier /\ ruleSet' = ruleSet /\ subject' = subject /\ astray' = astray
  BY DEF Aim!CreateRule
<1>2. /\ fabricRule' \in [Rules -> FabricClassifiers \cup {None}] /\ filter' \in [Aim!Filters -> Protocols \cup {None}]
      /\ Aim!FiltersFollowRules'
  BY <1>1, RuleFilters
<1>3. c # None /\ \A q \in Rules : fabricRule'[q] = IF q = r THEN c ELSE fabricRule[q]
  BY <1>1 DEF AimConstants, RuleInv, RuleTypes
<1>4. RuleTypes'
  BY <1>1, <1>2 DEF RuleInv, RuleTypes
<1>5. RowsAreThere'
  BY <1>1, <1>3 DEF RuleInv, RuleTypes, RowsAreThere
<1>6. ASSUME NEW p \in Sets PROVE SubjectLists(p)'
  <2>1. ruleSet[p] # None => \A q \in ruleSet[p] : Steady(q)
    BY <1>1, <1>3 DEF RuleInv, RuleTypes, RowsAreThere, Steady
  <2> QED BY <1>1, <2>1, SteadySubjects
<1> QED BY <1>2, <1>4, <1>5, <1>6 DEF RuleInv

LEMMA UpdateRuleKeeps ==
  ASSUME AimConstants, RuleInv, NEW r \in Rules, NEW c \in FabricClassifiers, Aim!UpdateRule(r, c)
  PROVE  RuleInv'
<1>1. /\ fabricRule[r] # None /\ fabricClassifier[c] # None /\ fabricRule' = [fabricRule EXCEPT ![r] = c]
      /\ filter' = Aim!Mapped({r}, fabricClassifier[c].protocol)
      /\ astray' = astray \cup (IF Aim!Alike(fabricRule[r], c) THEN {} ELSE Aim!Holding(r))
      /\ fabricClassifier' = fabricClassifier /\ ruleSet' = ruleSet /\ subject' = subject
  BY DEF Aim!UpdateRule
<1>2. /\ fabricRule' \in [Rules -> FabricClassifiers \cup {None}] /\ filter' \in [Aim!Filters -> Protocols \cup {None}]
      /\ Aim!FiltersFollowRules'
  BY <1>1, RuleFilters
<1>3. c # None /\ \A q \in Rules : fabricRule'[q] = IF q = r THEN c ELSE fabricRule[q]
  BY <1>1 DEF AimConstants, RuleInv, RuleTypes
<1>4. RuleTypes'
  BY <1>1, <1>2 DEF RuleInv, RuleTypes, Aim!Holding
<1>5. RowsAreThere'
  BY <1>1, <1>3 DEF RuleInv, RuleTypes, RowsAreThere
<1>6. ASSUME NEW p \in Sets PROVE SubjectLists(p)'
  <2>1. ruleSet[p] # None /\ p \notin astray' => \A q \in ruleSet[p] : Steady(q)
    <3> SUFFICES ASSUME ruleSet[p] # None, p \notin astray', NEW q \in ruleSet[p] PROVE Steady(q)
      OBVIOUS
    <3>1. q \in Rules
      BY DEF RuleInv, RuleTypes
    <3>2. CASE q # r
      BY <1>1, <1>3, <3>1, <3>2 DEF Steady
    <3>3. CASE q = r
      <4>1. Aim!Alike(fabricRule[r], c)
        BY <1>1, <3>3 DEF Aim!Holding
      <4> QED BY <1>1, <1>3, <3>1, <3>3, <4>1 DEF Aim!Alike, Steady
    <3> QED BY <3>2, <3>3
  <2> QED BY <1>1, <2>1, SteadySubjects
<1> QED BY <1>2, <1>4, <1>5, <1>6 DEF RuleInv

LEMMA DeleteRuleKeeps ==
  ASSUME AimConstants, RuleInv, NEW r \in Rules, Aim!DeleteRule(r)
  PROVE  RuleInv'
<1>1. /\ fabricRule' = [fabricRule EXCEPT ![r] = None] /\ Aim!Holding(r) = {}
      /\ filter' = [f \in Aim!Filters |-> IF f[1] = r THEN None ELSE filter[f]]
      /\ fabricClassifier' = fabricClassifier /\ ruleSet' = ruleSet /\ subject' = subject /\ astray' = astray
  BY DEF Aim!DeleteRule
<1>2. \A q \in Rules : fabricRule'[q] = IF q = r THEN None ELSE fabricRule[q]
  BY <1>1 DEF RuleInv, RuleTypes
<1>3. \A p \in Sets : ruleSet[p] # None => r \notin ruleSet[p]
  BY <1>1 DEF Aim!Holding
<1>4. RuleTypes'
  BY <1>1 DEF RuleInv, RuleTypes
<1>5. RowsAreThere'
  BY <1>1, <1>2, <1>3 DEF RuleInv, RuleTypes, RowsAreThere
<1>6. Aim!FiltersFollowRules'
  <2>1. \A q \in Rules : \A way \in Aim!Ways :
          filter'[<<q, way>>] = IF q = r THEN None ELSE filter[<<q, way>>]
    BY <1>1 DEF Aim!Filters
  <2> SUFFICES ASSUME NEW q \in Rules, NEW way \in Aim!Ways
      PROVE filter'[<<q, way>>] = IF fabricRule'[q] = None THEN None
                                ELSE LET p == fabricClassifier'[fabricRule'[q]].protocol
                                     IN IF way = "forward" \/ p \in Reversible THEN p ELSE None
    BY DEF Aim!FiltersFollowRules
  <2>2. CASE q = r
    BY <1>2, <2>1, <2>2
  <2>3. CASE q # r
    BY <1>1, <1>2, <2>1, <2>3 DEF RuleInv, Aim!FiltersFollowRules
  <2> QED BY <2>2, <2>3
<1>7. ASSUME NEW p \in Sets PROVE SubjectLists(p)'
  <2>1. ruleSet[p] # None => \A q \in ruleSet[p] : Steady(q)
    BY <1>1, <1>2, <1>3 DEF RuleInv, RuleTypes, Steady
  <2> QED BY <1>1, <2>1, SteadySubjects
<1> QED BY <1>4, <1>5, <1>6, <1>7 DEF RuleInv

\* A rule set's subject gets the filters of its rules when it is written.
LEMMA SetRulesKeeps ==
  ASSUME AimConstants, RuleInv, NEW p \in Sets, NEW rules \in SUBSET Rules, Aim!SetRules(p, rules)
  PROVE  RuleInv'
<1>1. /\ \A r \in rules : fabricRule[r] # None
      /\ ruleSet' = [ruleSet EXCEPT ![p] = rules]
      /\ subject' = [subject EXCEPT ![p] = Aim!Populated(rules)] /\ astray' = astray \ {p}
      /\ fabricClassifier' = fabricClassifier /\ fabricRule' = fabricRule /\ filter' = filter
  BY DEF Aim!SetRules
<1> DEFINE wanted == [in |-> Lines(rules, "in"), out |-> Lines(rules, "out")]
<1>2. Aim!Populated(rules) = wanted
  BY <1>1, PopulatedIsWanted DEF RuleInv
<1>3. wanted \in ListPairs /\ wanted # None /\ rules # None
  <2>1. wanted \in ListPairs
    BY DEF ListPairs, Aim!Lists, Lines
  <2> QED BY <2>1 DEF AimConstants
<1> HIDE DEF wanted
<1>4. \A q \in Sets : /\ ruleSet'[q] = IF q = p THEN rules ELSE ruleSet[q]
                      /\ subject'[q] = IF q = p THEN wanted ELSE subject[q]
  BY <1>1, <1>2 DEF RuleInv, RuleTypes
<1>5. RuleTypes'
  <2>1. ruleSet' \in [Sets -> (SUBSET Rules) \cup {None}]
    <3>1. ruleSet \in [Sets -> (SUBSET Rules) \cup {None}]
      BY DEF RuleInv, RuleTypes
    <3>2. rules \in (SUBSET Rules) \cup {None}
      OBVIOUS
    <3> QED BY <1>1, <3>1, <3>2
  <2>2. subject' \in [Sets -> ListPairs \cup {None}]
    BY <1>1, <1>2, <1>3 DEF RuleInv, RuleTypes
  <2> QED BY <1>1, <2>1, <2>2 DEF RuleInv, RuleTypes
<1>6. RowsAreThere'
  BY <1>1, <1>4 DEF RuleInv, RowsAreThere
<1>7. Aim!FiltersFollowRules'
  BY <1>1 DEF RuleInv, Aim!FiltersFollowRules
<1>8. ASSUME NEW q \in Sets PROVE SubjectLists(q)'
  <2>1. CASE q = p
    <3>1. Lines(rules, "in")' = Lines(rules, "in") /\ Lines(rules, "out")' = Lines(rules, "out")
      BY <1>1 DEF Lines, Listed
    <3>2. /\ Lines(ruleSet[q], "in")' = Lines(rules, "in")'
          /\ Lines(ruleSet[q], "out")' = Lines(rules, "out")'
      BY <1>4, <2>1 DEF Lines
    <3> QED BY <1>3, <1>4, <2>1, <3>1, <3>2 DEF SubjectLists, wanted
  <2>2. CASE q # p
    <3>1. SubjectLists(q) /\ (q \in astray' <=> q \in astray)
      BY <1>1, <2>2 DEF RuleInv
    <3>2. /\ Lines(ruleSet[q], "in")' = Lines(ruleSet[q], "in")
          /\ Lines(ruleSet[q], "out")' = Lines(ruleSet[q], "out")
      BY <1>1, <1>4, <2>2 DEF Lines, Listed
    <3> QED BY <1>4, <2>2, <3>1, <3>2 DEF SubjectLists
  <2> QED BY <2>1, <2>2
<1> QED BY <1>5, <1>6, <1>7, <1>8 DEF RuleInv

LEMMA DeleteRuleSetKeeps ==
  ASSUME AimConstants, RuleInv, NEW p \in Sets, Aim!DeleteRuleSet(p)
  PROVE  RuleInv'
<1>1. /\ ruleSet' = [ruleSet EXCEPT ![p] = None] /\ subject' = [subject EXCEPT ![p] = None]
      /\ astray' = astray \ {p} /\ fabricClassifier' = fabricClassifier /\ fabricRule' = fabricRule /\ filter' = filter
  BY DEF Aim!DeleteRuleSet
<1>2. \A q \in Sets : /\ ruleSet'[q] = IF q = p THEN None ELSE ruleSet[q]
                      /\ subject'[q] = IF q = p THEN None ELSE subject[q]
  BY <1>1 DEF RuleInv, RuleTypes
<1>3. RuleTypes'
  BY <1>1 DEF RuleInv, RuleTypes
<1>4. RowsAreThere'
  BY <1>1, <1>2 DEF RuleInv, RowsAreThere
<1>5. Aim!FiltersFollowRules'
  BY <1>1 DEF RuleInv, Aim!FiltersFollowRules
<1>6. ASSUME NEW q \in Sets PROVE SubjectLists(q)'
  <2>1. CASE q = p
    BY <1>2, <2>1 DEF SubjectLists
  <2>2. CASE q # p
    <3>1. SubjectLists(q) /\ (q \in astray' <=> q \in astray)
      BY <1>1, <2>2 DEF RuleInv
    <3>2. /\ Lines(ruleSet[q], "in")' = Lines(ruleSet[q], "in")
          /\ Lines(ruleSet[q], "out")' = Lines(ruleSet[q], "out")
      BY <1>1, <1>2, <2>2 DEF Lines, Listed
    <3> QED BY <1>2, <2>2, <3>1, <3>2 DEF SubjectLists
  <2> QED BY <2>1, <2>2
<1> QED BY <1>3, <1>4, <1>5, <1>6 DEF RuleInv

\* An update of a classifier: what becomes of its filters and of the subjects that
\* follow it.
LEMMA UpdateClassifierKeeps ==
  ASSUME AimConstants, RuleInv, NEW c \in FabricClassifiers, NEW new \in Values, Aim!UpdateClassifier(c, new)
  PROVE  RuleInv'
<1> DEFINE removed == /\ new.protocol \notin Reversible
                      /\ \E r \in Aim!RulesOf(c) : filter[<<r, "reverse">>] # None
           turned == new.direction # fabricClassifier[c].direction
<1>1. /\ fabricClassifier[c] # None /\ fabricClassifier' = [fabricClassifier EXCEPT ![c] = new]
      /\ filter' = Aim!Mapped(Aim!RulesOf(c), new.protocol)
      /\ subject' = [p \in Sets |->
             IF p \notin Aim!SetsOf(c) THEN subject[p]
             ELSE IF turned THEN Aim!Redirected(subject[p], c, new.direction, removed)
             ELSE IF removed THEN Aim!WithoutReverse(subject[p], c)
             ELSE subject[p]]
      /\ astray' = astray \cup {p \in Aim!SetsOf(c) : ~Aim!Follows(p, c, new)}
      /\ fabricRule' = fabricRule /\ ruleSet' = ruleSet
  BY DEF Aim!UpdateClassifier
<1>2. /\ new # None /\ c # None /\ fabricClassifier[c] \in Values /\ new.protocol \in Protocols
      /\ new.direction \in {"in", "out", "bi"}
  BY <1>1 DEF AimConstants, RuleInv, RuleTypes, Values, Aim!Directions
<1>3. \A d \in FabricClassifiers : fabricClassifier'[d] = IF d = c THEN new ELSE fabricClassifier[d]
  BY <1>1 DEF RuleInv, RuleTypes
<1>4. \A r \in Rules : r \in Aim!RulesOf(c) <=> fabricRule[r] = c
  BY DEF Aim!RulesOf
<1>5. removed <=> /\ new.protocol \notin Reversible /\ fabricClassifier[c].protocol \in Reversible
                  /\ Aim!RulesOf(c) # {}
  <2>1. \A r \in Aim!RulesOf(c) :
          filter[<<r, "reverse">>] = IF fabricClassifier[c].protocol \in Reversible
                                     THEN fabricClassifier[c].protocol ELSE None
    BY <1>2 DEF RuleInv, Aim!FiltersFollowRules, Aim!RulesOf, Aim!Ways
  <2>2. fabricClassifier[c].protocol # None
    BY <1>2 DEF Values, AimConstants
  <2> QED BY <2>1, <2>2
<1>12. removed \in BOOLEAN
  OBVIOUS
<1> HIDE DEF removed
<1>6. \A p \in Sets : p \in Aim!SetsOf(c) <=> ruleSet[p] # None /\ \E r \in ruleSet[p] : fabricRule[r] = c
  <2>1. \A p \in Sets : ruleSet[p] # None => ruleSet[p] \subseteq Rules
    BY DEF RuleInv, RuleTypes
  <2> QED BY <2>1 DEF Aim!SetsOf, Aim!Holding, Aim!RulesOf
<1>11. ASSUME NEW p \in Sets, p \in Aim!SetsOf(c)
       PROVE  subject'[p] \in ListPairs
  <2>1. subject[p] \in ListPairs
    <3>1. ruleSet[p] # None /\ SubjectLists(p) /\ subject[p] \in ListPairs \cup {None}
      BY <1>6, <1>11 DEF RuleInv, RuleTypes
    <3> QED BY <3>1 DEF SubjectLists
  <2>2. subject[p].in \in Aim!Lists /\ subject[p].out \in Aim!Lists
    BY <2>1 DEF ListPairs
  <2>3. Aim!RulesOf(c) \X {"forward"} \in Aim!Lists /\ Aim!RulesOf(c) \X {"reverse"} \in Aim!Lists /\ {None} \in Aim!Lists
    BY DEF Aim!Lists, Aim!Filters, Aim!Ways, Aim!RulesOf
  <2>4. Aim!WithoutReverse(subject[p], c) \in ListPairs
    BY <2>2 DEF Aim!WithoutReverse, ListPairs, Aim!Lists
  <2> DEFINE reverse == IF removed THEN {None} ELSE Aim!RulesOf(c) \X {"reverse"}
             lists == Aim!Directed(new.direction, Aim!RulesOf(c) \X {"forward"}, reverse)
  <2>5. reverse \in Aim!Lists
    BY <2>3
  <2>6. lists.in \in Aim!Lists /\ lists.out \in Aim!Lists
    <3> HIDE DEF reverse
    <3>1. (Aim!RulesOf(c) \X {"forward"}) \cup reverse \in Aim!Lists
      BY <2>3, <2>5 DEF Aim!Lists
    <3> QED BY <1>2, <2>3, <2>5, <3>1 DEF Aim!Directed
  <2>7. \E names : Aim!Redirected(subject[p], c, new.direction, removed) =
          [in |-> (subject[p].in \ names) \cup lists.in, out |-> (subject[p].out \ names) \cup lists.out]
    BY DEF Aim!Redirected
  <2> HIDE DEF lists
  <2>8. Aim!Redirected(subject[p], c, new.direction, removed) \in ListPairs
    BY <2>2, <2>6, <2>7 DEF ListPairs, Aim!Lists
  <2> QED BY <1>1, <2>1, <2>4, <2>8
<1>7. RuleTypes'
  <2>1. fabricClassifier' \in [FabricClassifiers -> Values \cup {None}]
    BY <1>1 DEF RuleInv, RuleTypes
  <2>2. filter' \in [Aim!Filters -> Protocols \cup {None}]
    BY <1>1, <1>2 DEF Aim!Mapped, RuleInv, RuleTypes
  <2>3. subject' \in [Sets -> ListPairs \cup {None}]
    BY <1>1, <1>11 DEF RuleInv, RuleTypes
  <2>4. astray' \subseteq Sets
    BY <1>1 DEF RuleInv, RuleTypes, Aim!SetsOf, Aim!Holding
  <2> QED BY <1>1, <2>1, <2>2, <2>3, <2>4 DEF RuleInv, RuleTypes
<1>8. RowsAreThere'
  BY <1>1, <1>2, <1>3 DEF RuleInv, RuleTypes, RowsAreThere
<1>9. Aim!FiltersFollowRules'
  <2> SUFFICES ASSUME NEW q \in Rules, NEW way \in Aim!Ways
      PROVE filter'[<<q, way>>] = IF fabricRule'[q] = None THEN None
                                ELSE LET p == fabricClassifier'[fabricRule'[q]].protocol
                                     IN IF way = "forward" \/ p \in Reversible THEN p ELSE None
    BY DEF Aim!FiltersFollowRules
  <2>1. filter'[<<q, way>>] = IF fabricRule[q] # c THEN filter[<<q, way>>]
                              ELSE IF way = "forward" \/ new.protocol \in Reversible
                                   THEN new.protocol ELSE None
    BY <1>1, <1>4 DEF Aim!Mapped, Aim!Filters
  <2>2. CASE fabricRule[q] = c
    BY <1>1, <1>2, <1>3, <2>1, <2>2
  <2>3. CASE fabricRule[q] # c
    <3>1. fabricRule[q] # None => fabricClassifier'[fabricRule[q]] = fabricClassifier[fabricRule[q]]
      BY <1>3, <2>3 DEF RuleInv, RuleTypes
    <3> QED BY <1>1, <2>1, <2>3, <3>1 DEF RuleInv, Aim!FiltersFollowRules
  <2> QED BY <2>2, <2>3
<1>10. ASSUME NEW p \in Sets PROVE SubjectLists(p)'
  <2>1. SubjectLists(p)
    BY DEF RuleInv
  <2>2. CASE p \notin Aim!SetsOf(c)
    <3>1. subject'[p] = subject[p]
      BY <1>1, <2>2
    <3>2. ruleSet[p] # None => \A r \in ruleSet[p] : Steady(r)
      <4> SUFFICES ASSUME ruleSet[p] # None, NEW r \in ruleSet[p] PROVE Steady(r)
        OBVIOUS
      <4>1. r \in Rules /\ fabricRule[r] # None /\ fabricRule[r] # c
        BY <1>6, <2>2 DEF RuleInv, RuleTypes, RowsAreThere
      <4>2. fabricRule[r] \in FabricClassifiers
        BY <4>1 DEF RuleInv, RuleTypes
      <4> QED BY <1>1, <1>3, <4>1, <4>2 DEF Steady
    <3> QED BY <1>1, <3>1, <3>2, SteadySubjects
  <2>3. CASE p \in Aim!SetsOf(c) /\ ~Aim!Follows(p, c, new)
    <3>1. p \in astray' /\ subject'[p] # None /\ ruleSet'[p] # None
      BY <1>1, <1>6, <1>11, <2>3 DEF AimConstants
    <3> QED BY <3>1 DEF SubjectLists
  <2>4. CASE p \in Aim!SetsOf(c) /\ Aim!Follows(p, c, new) /\ ~turned
    <3>1. /\ new.direction = fabricClassifier[c].direction
          /\ fabricClassifier[c].protocol \in Reversible \/ new.protocol \notin Reversible
      BY <2>4 DEF Aim!Follows
    <3>2. CASE fabricClassifier[c].protocol \in Reversible <=> new.protocol \in Reversible
      <4>1. subject'[p] = subject[p]
        BY <1>1, <1>5, <2>4, <3>2
      <4>2. ruleSet[p] # None => \A r \in ruleSet[p] : Steady(r)
        <5> SUFFICES ASSUME ruleSet[p] # None, NEW r \in ruleSet[p] PROVE Steady(r)
          OBVIOUS
        <5>1. r \in Rules /\ fabricRule[r] # None
          BY DEF RuleInv, RuleTypes, RowsAreThere
        <5>2. fabricRule[r] \in FabricClassifiers
          BY <5>1 DEF RuleInv, RuleTypes
        <5> QED BY <1>1, <1>3, <3>1, <3>2, <5>1, <5>2 DEF Steady
      <4> QED BY <1>1, <4>1, <4>2, SteadySubjects
    <3>3. CASE fabricClassifier[c].protocol \in Reversible /\ new.protocol \notin Reversible
      <4>1. ruleSet[p] # None /\ removed /\ subject'[p] = Aim!WithoutReverse(subject[p], c)
        BY <1>1, <1>4, <1>5, <1>6, <2>4, <3>3 DEF RuleInv, RuleTypes
      <4>2. CASE p \in astray
        BY <1>1, <1>11, <2>4, <4>1, <4>2 DEF SubjectLists, AimConstants
      <4>3. CASE p \notin astray
        <5>1. PICK rules \in SUBSET Rules : rules = ruleSet[p] /\ rules = ruleSet'[p]
          BY <1>1, <4>1 DEF RuleInv, RuleTypes
        <5>2. \A r \in rules : fabricRule'[r] = fabricRule[r] /\ fabricRule[r] \in FabricClassifiers
          BY <1>1, <4>1, <5>1 DEF RuleInv, RuleTypes, RowsAreThere
        <5>3. ASSUME NEW list
              PROVE  Lines(rules, list)' = Lines(rules, list) \ (Aim!RulesOf(c) \X {"reverse"})
          <6> SUFFICES ASSUME NEW f \in Aim!Filters, f[1] \in rules
              PROVE  Listed(f, list)' <=> Listed(f, list) /\ f \notin Aim!RulesOf(c) \X {"reverse"}
            BY DEF Lines
          <6>1. f[1] \in Rules /\ f[2] \in {"forward", "reverse"} /\ f = <<f[1], f[2]>>
            BY DEF Aim!Filters, Aim!Ways
          <6>2. f \in Aim!RulesOf(c) \X {"reverse"} <=> fabricRule[f[1]] = c /\ f[2] = "reverse"
            BY <1>4, <6>1
          <6>3. fabricClassifier'[fabricRule'[f[1]]] = IF fabricRule[f[1]] = c THEN new ELSE fabricClassifier[fabricRule[f[1]]]
            BY <1>3, <5>2
          <6>4. CASE fabricRule[f[1]] # c
            BY <5>2, <6>2, <6>3, <6>4 DEF Listed
          <6>5. CASE fabricRule[f[1]] = c
            BY <3>1, <3>3, <6>1, <6>2, <6>3, <6>5 DEF Listed
          <6> QED BY <6>4, <6>5
        <5>4. /\ Lines(rules, "in")' = Lines(rules, "in") \ (Aim!RulesOf(c) \X {"reverse"})
              /\ Lines(rules, "out")' = Lines(rules, "out") \ (Aim!RulesOf(c) \X {"reverse"})
          BY <5>3
        <5>5. Lines(rules, "in")' = Lines(ruleSet[p], "in")' /\ Lines(rules, "out")' = Lines(ruleSet[p], "out")'
          BY <5>1 DEF Lines
        <5>6. subject[p].in = Lines(rules, "in") /\ subject[p].out = Lines(rules, "out")
          BY <2>1, <4>1, <4>3, <5>1 DEF SubjectLists
        <5>7. subject'[p] = [in |-> Lines(rules, "in")', out |-> Lines(rules, "out")']
          BY <4>1, <5>4, <5>6 DEF Aim!WithoutReverse
        <5>8. subject'[p] # None
          BY <1>11, <2>4 DEF AimConstants
        <5> QED BY <4>1, <5>1, <5>5, <5>7, <5>8, <1>1 DEF SubjectLists
      <4> QED BY <4>2, <4>3
    <3> QED BY <3>1, <3>2, <3>3
  <2>5. CASE p \in Aim!SetsOf(c) /\ Aim!Follows(p, c, new) /\ turned
    <3>1. new.protocol \in Reversible /\ Aim!RulesOf(c) \subseteq ruleSet[p] /\ ~removed
      BY <1>5, <2>5 DEF Aim!Follows
    <3>2. ruleSet[p] # None /\ subject'[p] = Aim!Redirected(subject[p], c, new.direction, FALSE)
      <4>1. ruleSet[p] # None /\ subject'[p] = Aim!Redirected(subject[p], c, new.direction, removed)
        BY <1>1, <1>6, <2>5
      <4>2. removed = FALSE
        BY <1>12, <3>1
      <4> QED BY <4>1, <4>2
    <3>3. CASE p \in astray
      BY <1>1, <1>11, <2>5, <3>2, <3>3 DEF SubjectLists, AimConstants
    <3>4. CASE p \notin astray
      <4>1. PICK rules \in SUBSET Rules : rules = ruleSet[p] /\ rules = ruleSet'[p]
        BY <1>1, <3>2 DEF RuleInv, RuleTypes
      <4>2. \A r \in rules : fabricRule'[r] = fabricRule[r] /\ fabricRule[r] \in FabricClassifiers
        BY <1>1, <3>2, <4>1 DEF RuleInv, RuleTypes, RowsAreThere
      <4> DEFINE lists == Aim!Directed(new.direction, Aim!RulesOf(c) \X {"forward"}, Aim!RulesOf(c) \X {"reverse"})
      <4>3. \A f \in Aim!Filters : f[1] \in rules =>
              /\ (Listed(f, "in")' <=> IF fabricRule[f[1]] = c THEN f \in lists.in ELSE Listed(f, "in"))
              /\ (Listed(f, "out")' <=> IF fabricRule[f[1]] = c THEN f \in lists.out ELSE Listed(f, "out"))
        <5> SUFFICES ASSUME NEW f \in Aim!Filters, f[1] \in rules
            PROVE /\ (Listed(f, "in")' <=> IF fabricRule[f[1]] = c THEN f \in lists.in ELSE Listed(f, "in"))
                  /\ (Listed(f, "out")' <=> IF fabricRule[f[1]] = c THEN f \in lists.out ELSE Listed(f, "out"))
          OBVIOUS
        <5>1. f[1] \in Rules /\ f[2] \in {"forward", "reverse"} /\ f = <<f[1], f[2]>>
          BY DEF Aim!Filters, Aim!Ways
        <5>2. fabricClassifier'[fabricRule'[f[1]]] = IF fabricRule[f[1]] = c THEN new ELSE fabricClassifier[fabricRule[f[1]]]
          BY <1>3, <4>2
        <5>3. CASE fabricRule[f[1]] # c
          BY <4>2, <5>2, <5>3 DEF Listed
        <5>4. CASE fabricRule[f[1]] = c
          <6>1. \A way \in {"forward", "reverse"} : f \in Aim!RulesOf(c) \X {way} <=> f[2] = way
            BY <1>4, <5>1, <5>4
          <6>2. CASE new.direction = "in"
            <7>1. lists.in = Aim!RulesOf(c) \X {"forward"} /\ lists.out = Aim!RulesOf(c) \X {"reverse"}
              BY <6>2 DEF Aim!Directed
            <7> QED BY <3>1, <5>1, <5>2, <5>4, <6>1, <6>2, <7>1 DEF Listed
          <6>3. CASE new.direction = "out"
            <7>1. lists.in = Aim!RulesOf(c) \X {"reverse"} /\ lists.out = Aim!RulesOf(c) \X {"forward"}
              BY <6>3 DEF Aim!Directed
            <7> QED BY <3>1, <5>1, <5>2, <5>4, <6>1, <6>3, <7>1 DEF Listed
          <6>4. CASE new.direction = "bi"
            <7>1. /\ lists.in = (Aim!RulesOf(c) \X {"forward"}) \cup (Aim!RulesOf(c) \X {"reverse"})
                  /\ lists.out = (Aim!RulesOf(c) \X {"forward"}) \cup (Aim!RulesOf(c) \X {"reverse"})
              BY <6>4 DEF Aim!Directed
            <7> QED BY <3>1, <5>1, <5>2, <5>4, <6>1, <6>4, <7>1 DEF Listed
          <6> QED BY <1>2, <6>2, <6>3, <6>4
        <5> QED BY <5>3, <5>4
      <4>4. lists.in \subseteq Aim!RulesOf(c) \X Aim!Ways /\ lists.out \subseteq Aim!RulesOf(c) \X Aim!Ways
        <5>1. Aim!RulesOf(c) \X {"forward"} \subseteq Aim!RulesOf(c) \X Aim!Ways /\ Aim!RulesOf(c) \X {"reverse"} \subseteq Aim!RulesOf(c) \X Aim!Ways
          BY DEF Aim!Ways
        <5> QED BY <1>2, <5>1 DEF Aim!Directed
      <4>5. Aim!Redirected(subject[p], c, new.direction, FALSE) =
              [in |-> (subject[p].in \ (Aim!RulesOf(c) \X Aim!Ways)) \cup lists.in,
               out |-> (subject[p].out \ (Aim!RulesOf(c) \X Aim!Ways)) \cup lists.out]
        BY DEF Aim!Redirected
      <4> HIDE DEF lists
      <4>6. \A f : f \in Aim!RulesOf(c) \X Aim!Ways <=> f \in Aim!Filters /\ fabricRule[f[1]] = c
        <5>1. Aim!RulesOf(c) \X Aim!Ways = {f \in Rules \X Aim!Ways : f[1] \in Aim!RulesOf(c)}
          BY DEF Aim!RulesOf
        <5>2. \A f \in Rules \X Aim!Ways : f[1] \in Rules
          OBVIOUS
        <5> QED BY <1>4, <5>1, <5>2 DEF Aim!Filters
      <4>7. Aim!RulesOf(c) \subseteq rules
        BY <3>1, <4>1
      <4>8. /\ Lines(rules, "in")' = (Lines(rules, "in") \ (Aim!RulesOf(c) \X Aim!Ways)) \cup lists.in
            /\ Lines(rules, "out")' = (Lines(rules, "out") \ (Aim!RulesOf(c) \X Aim!Ways)) \cup lists.out
        <5>1. \A f : f \in Aim!RulesOf(c) \X Aim!Ways => f[1] \in rules
          BY <4>7 DEF Aim!Ways
        <5> QED BY <4>3, <4>4, <4>6, <5>1 DEF Lines
      <4>9. Lines(rules, "in")' = Lines(ruleSet[p], "in")' /\ Lines(rules, "out")' = Lines(ruleSet[p], "out")'
        BY <4>1 DEF Lines
      <4>10. subject[p].in = Lines(rules, "in") /\ subject[p].out = Lines(rules, "out")
        BY <2>1, <3>2, <3>4, <4>1 DEF SubjectLists
      <4>11. subject'[p] = [in |-> Lines(rules, "in")', out |-> Lines(rules, "out")']
        BY <3>2, <4>5, <4>8, <4>10
      <4>12. subject'[p] # None
        BY <1>11, <2>5 DEF AimConstants
      <4> QED BY <1>1, <3>2, <4>1, <4>9, <4>11, <4>12 DEF SubjectLists
    <3> QED BY <3>3, <3>4
  <2> QED BY <2>2, <2>3, <2>4, <2>5
<1> QED BY <1>7, <1>8, <1>9, <1>10 DEF RuleInv

--------------------
(* Endpoint groups *)

\* A group that is not detached and does not wait has the endpoint group of its row.
LEMMA MappedGroups ==
  ASSUME AimConstants, GroupInv, NEW g \in FabricGroups
  PROVE  /\ fabricGroup[g] \in Groupings \cup {None} /\ epg[g] \in Groupings \cup {None}
         /\ pending[g] \in Groupings \cup {None} /\ Mapping(g)
         /\ fabricGroup[g] # None => fabricGroup[g].app \in Applications \cup {None}
                                     /\ fabricGroup[g].contracts \subseteq Sets
         /\ g \notin detached /\ epg[g] # None => pending[g] = None /\ fabricGroup[g] = epg[g]
<1>1. fabricGroup[g] \in Groupings \cup {None} /\ epg[g] \in Groupings \cup {None}
      /\ pending[g] \in Groupings \cup {None}
  BY DEF GroupInv, GroupTypes
<1>2. Mapping(g)
  BY DEF GroupInv
<1>3. fabricGroup[g] # None => fabricGroup[g].app \in Applications \cup {None}
                               /\ fabricGroup[g].contracts \subseteq Sets
  BY <1>1 DEF Groupings
<1> QED BY <1>1, <1>2, <1>3 DEF Mapping

LEMMA RulesDisturbNoGroup ==
  ASSUME GroupInv, UNCHANGED Aim!groupVars,
         \A g \in FabricGroups : fabricGroup[g] # None =>
           \A p \in fabricGroup[g].contracts : ruleSet[p] # None => ruleSet'[p] # None
  PROVE  GroupInv'
<1>1. /\ application' = application /\ fabricGroup' = fabricGroup /\ pending' = pending /\ epg' = epg
      /\ profile' = profile /\ detached' = detached
  BY DEF Aim!groupVars
<1>2. GroupTypes' /\ (detached' = {} => \A a \in profile' : \E g \in FabricGroups : fabricGroup'[g] # None /\ fabricGroup'[g].app = a)
  BY <1>1 DEF GroupInv, GroupTypes
<1>3. ASSUME NEW g \in FabricGroups PROVE Mapping(g)'
  BY <1>1 DEF GroupInv, Mapping
<1> QED BY <1>2, <1>3 DEF GroupInv

LEMMA RuleStepKeepsGroups ==
  ASSUME AimConstants, RuleInv, GroupInv, Aim!RuleStep
  PROVE  GroupInv'
<1>1. UNCHANGED Aim!groupVars
  BY DEF Aim!RuleStep, Aim!CreateClassifier, Aim!UpdateClassifier, Aim!DeleteClassifier,
    Aim!CreateRule, Aim!UpdateRule, Aim!DeleteRule,
    Aim!SetRules, Aim!DeleteRuleSet
<1>2. \A g \in FabricGroups : fabricGroup[g] # None =>
        \A p \in fabricGroup[g].contracts : ruleSet[p] # None => ruleSet'[p] # None
  <2>1. CASE ruleSet' = ruleSet
    BY <2>1
  <2>2. ASSUME NEW q \in Sets, NEW rules \in SUBSET Rules, Aim!SetRules(q, rules)
        PROVE  \A g \in FabricGroups : fabricGroup[g] # None =>
                 \A p \in fabricGroup[g].contracts : ruleSet[p] # None => ruleSet'[p] # None
    <3>1. ruleSet' = [ruleSet EXCEPT ![q] = rules] /\ rules # None
      BY <2>2 DEF Aim!SetRules, AimConstants
    <3>2. \A g \in FabricGroups : fabricGroup[g] # None => fabricGroup[g].contracts \subseteq Sets
      BY MappedGroups
    <3> QED BY <3>1, <3>2 DEF RuleInv, RuleTypes
  <2>3. ASSUME NEW q \in Sets, Aim!DeleteRuleSet(q)
        PROVE  \A g \in FabricGroups : fabricGroup[g] # None =>
                 \A p \in fabricGroup[g].contracts : ruleSet[p] # None => ruleSet'[p] # None
    <3>1. ruleSet' = [ruleSet EXCEPT ![q] = None]
          /\ \A g \in FabricGroups : fabricGroup[g] # None => q \notin fabricGroup[g].contracts
      BY <2>3 DEF Aim!DeleteRuleSet
    <3>2. \A g \in FabricGroups : fabricGroup[g] # None => fabricGroup[g].contracts \subseteq Sets
      BY MappedGroups
    <3> QED BY <3>1, <3>2 DEF RuleInv, RuleTypes
  <2>4. \/ ruleSet' = ruleSet
        \/ \E q \in Sets : \E rules \in SUBSET Rules : Aim!SetRules(q, rules)
        \/ \E q \in Sets : Aim!DeleteRuleSet(q)
    BY DEF Aim!RuleStep, Aim!CreateClassifier, Aim!UpdateClassifier, Aim!DeleteClassifier,
      Aim!CreateRule, Aim!UpdateRule, Aim!DeleteRule
  <2> QED BY <2>1, <2>2, <2>3, <2>4
<1> QED BY <1>1, <1>2, RulesDisturbNoGroup

LEMMA GroupStepKeepsRules ==
  ASSUME RuleInv, Aim!GroupStep
  PROVE  RuleInv'
<1>1. UNCHANGED Aim!ruleVars
  BY DEF Aim!GroupStep, Aim!CreateApplication, Aim!DeleteApplication, Aim!CreateGroup,
    Aim!UpdateGroup, Aim!CreateEpg,
    Aim!DeleteGroup, Aim!EraseGroup
<1>2. /\ fabricClassifier' = fabricClassifier /\ fabricRule' = fabricRule /\ ruleSet' = ruleSet /\ filter' = filter
      /\ subject' = subject /\ astray' = astray
  BY <1>1 DEF Aim!ruleVars
<1>3. RuleTypes' /\ RowsAreThere' /\ Aim!FiltersFollowRules'
  BY <1>2 DEF RuleInv, RuleTypes, RowsAreThere, Aim!FiltersFollowRules
<1>4. ASSUME NEW p \in Sets PROVE SubjectLists(p)'
  <2>1. SubjectLists(p)
    BY DEF RuleInv
  <2>2. /\ Lines(ruleSet[p], "in")' = Lines(ruleSet[p], "in")
        /\ Lines(ruleSet[p], "out")' = Lines(ruleSet[p], "out")
    BY <1>2 DEF Lines, Listed
  <2> QED BY <1>2, <2>1, <2>2 DEF SubjectLists
<1> QED BY <1>3, <1>4 DEF RuleInv

LEMMA CreateApplicationKeeps ==
  ASSUME AimConstants, GroupInv, NEW a \in Applications, Aim!CreateApplication(a)
  PROVE  GroupInv'
<1>1. /\ application' = application \cup {a} /\ fabricGroup' = fabricGroup /\ pending' = pending /\ epg' = epg
      /\ profile' = profile /\ detached' = detached /\ ruleSet' = ruleSet
  BY DEF Aim!CreateApplication, Aim!ruleVars
<1>2. GroupTypes'
  BY <1>1 DEF GroupInv, GroupTypes
<1>3. ASSUME NEW g \in FabricGroups PROVE Mapping(g)'
  BY <1>1 DEF GroupInv, Mapping
<1> QED BY <1>1, <1>2, <1>3 DEF GroupInv

LEMMA DeleteApplicationKeeps ==
  ASSUME AimConstants, GroupInv, NEW a \in Applications, Aim!DeleteApplication(a)
  PROVE  GroupInv'
<1>1. /\ application' = application \ {a} /\ detached' = detached \cup Aim!Members(a)
      /\ fabricGroup' = [g \in FabricGroups |->
           IF g \in Aim!Members(a) THEN [fabricGroup[g] EXCEPT !.app = None] ELSE fabricGroup[g]]
      /\ pending' = pending /\ epg' = epg /\ profile' = profile /\ ruleSet' = ruleSet
  BY DEF Aim!DeleteApplication, Aim!ruleVars
<1>2. \A g \in FabricGroups : g \in Aim!Members(a) => fabricGroup[g] \in Groupings /\ fabricGroup[g] # None
  BY DEF Aim!Members, GroupInv, GroupTypes
<1>3. \A g \in FabricGroups : g \in Aim!Members(a) =>
        /\ fabricGroup'[g] \in Groupings /\ fabricGroup'[g] # None /\ fabricGroup'[g].contracts = fabricGroup[g].contracts
  <2> SUFFICES ASSUME NEW g \in FabricGroups, g \in Aim!Members(a)
      PROVE /\ fabricGroup'[g] \in Groupings /\ fabricGroup'[g] # None /\ fabricGroup'[g].contracts = fabricGroup[g].contracts
    OBVIOUS
  <2>1. fabricGroup'[g] = [fabricGroup[g] EXCEPT !.app = None]
    BY <1>1
  <2>2. fabricGroup'[g] \in Groupings /\ fabricGroup'[g].contracts = fabricGroup[g].contracts
    BY <1>2, <2>1 DEF Groupings
  <2> QED BY <2>2 DEF AimConstants
<1>4. \A g \in FabricGroups : g \notin Aim!Members(a) => fabricGroup'[g] = fabricGroup[g]
  BY <1>1
<1>5. GroupTypes'
  <2>1. fabricGroup' \in [FabricGroups -> Groupings \cup {None}]
    BY <1>1, <1>3, <1>4 DEF GroupInv, GroupTypes
  <2>2. detached' \subseteq FabricGroups
    BY <1>1 DEF GroupInv, GroupTypes, Aim!Members
  <2> QED BY <1>1, <2>1, <2>2 DEF GroupInv, GroupTypes
<1>6. ASSUME NEW g \in FabricGroups PROVE Mapping(g)'
  <2>1. Mapping(g)
    BY DEF GroupInv
  <2>2. CASE g \in Aim!Members(a)
    BY <1>1, <1>2, <1>3, <2>1, <2>2 DEF Mapping
  <2>3. CASE g \notin Aim!Members(a)
    BY <1>1, <1>4, <2>1, <2>3 DEF Mapping
  <2> QED BY <2>2, <2>3
<1>7. detached' = {} => \A b \in profile' : \E g \in FabricGroups : fabricGroup'[g] # None /\ fabricGroup'[g].app = b
  BY <1>1, <1>4 DEF GroupInv
<1> QED BY <1>5, <1>6, <1>7 DEF GroupInv

LEMMA CreateGroupKeeps ==
  ASSUME AimConstants, GroupInv, NEW g \in FabricGroups, NEW row \in Groupings, Aim!CreateGroup(g, row)
  PROVE  GroupInv'
<1>1. /\ fabricGroup[g] = None /\ epg[g] = None /\ g \notin detached /\ Aim!Usable(row)
      /\ fabricGroup' = [fabricGroup EXCEPT ![g] = row] /\ pending' = [pending EXCEPT ![g] = row]
      /\ application' = application /\ epg' = epg /\ profile' = profile /\ detached' = detached
      /\ ruleSet' = ruleSet
  BY DEF Aim!CreateGroup, Aim!ruleVars
<1>2. \A h \in FabricGroups : /\ fabricGroup'[h] = IF h = g THEN row ELSE fabricGroup[h]
                              /\ pending'[h] = IF h = g THEN row ELSE pending[h]
  BY <1>1 DEF GroupInv, GroupTypes
<1>3. GroupTypes'
  BY <1>1 DEF GroupInv, GroupTypes
<1>4. row # None
  BY DEF AimConstants
<1>5. ASSUME NEW h \in FabricGroups PROVE Mapping(h)'
  <2>1. CASE h = g
    BY <1>1, <1>2, <1>4, <2>1 DEF Mapping, Aim!Usable
  <2>2. CASE h # g
    BY <1>1, <1>2, <2>2 DEF GroupInv, Mapping
  <2> QED BY <2>1, <2>2
<1>6. detached' = {} => \A b \in profile' : \E h \in FabricGroups : fabricGroup'[h] # None /\ fabricGroup'[h].app = b
  BY <1>1, <1>2 DEF GroupInv
<1> QED BY <1>3, <1>5, <1>6 DEF GroupInv

\* What is erased with a group is its own, also the profile.
LEMMA EraseGroupKeeps ==
  ASSUME AimConstants, GroupInv, NEW g \in FabricGroups, fabricGroup[g] # None, Aim!EraseGroup(g),
         \/ pending' = [pending EXCEPT ![g] = None] /\ detached' = detached
         \/ pending' = pending /\ detached' = detached \cup (IF pending[g] # None THEN {g} ELSE {})
  PROVE  GroupInv'
<1>1. /\ fabricGroup' = [fabricGroup EXCEPT ![g] = None]
      /\ epg' = IF Aim!Found(g) THEN [epg EXCEPT ![g] = None] ELSE epg
      /\ profile' = profile \ Aim!Unneeded(g, fabricGroup[g].app)
      /\ application' = application /\ ruleSet' = ruleSet
  BY DEF Aim!EraseGroup, Aim!ruleVars
<1>a. pending' \in [FabricGroups -> Groupings \cup {None}] /\ detached' \subseteq FabricGroups
  BY DEF GroupInv, GroupTypes
<1>2. \A h \in FabricGroups : /\ fabricGroup'[h] = IF h = g THEN None ELSE fabricGroup[h]
                              /\ h # g => /\ epg'[h] = epg[h] /\ pending'[h] = pending[h]
                                          /\ h \in detached' <=> h \in detached
  BY <1>1 DEF GroupInv, GroupTypes
<1>b. /\ detached \subseteq detached'
      /\ pending'[g] # None => pending'[g] = pending[g] /\ g \in detached'
  BY DEF GroupInv, GroupTypes
<1>c. pending'[g] # None => epg'[g] = None
  <2>1. pending[g] # None => epg[g] = None
    BY DEF GroupInv, Mapping
  <2> QED BY <1>1, <1>b, <2>1 DEF GroupInv, GroupTypes
<1>3. GroupTypes'
  BY <1>1, <1>a DEF GroupInv, GroupTypes
<1>4. g \notin detached => epg'[g] = None
  <2>1. g \notin detached /\ epg[g] # None => Aim!Found(g)
    BY MappedGroups DEF Aim!Found
  <2> QED BY <1>1, <2>1 DEF GroupInv, GroupTypes
<1>5. \A h \in FabricGroups \ {g} : fabricGroup[h] # None => fabricGroup[h].app \notin Aim!Unneeded(g, fabricGroup[g].app)
  BY DEF Aim!Unneeded, Aim!Members
<1>6. ASSUME NEW h \in FabricGroups PROVE Mapping(h)'
  <2>1. CASE h = g
    BY <1>1, <1>2, <1>4, <1>b, <1>c, <2>1 DEF Mapping
  <2>2. CASE h # g
    <3>1. Mapping(h) /\ (h \notin detached /\ epg[h] # None => fabricGroup[h] = epg[h])
      BY MappedGroups
    <3> QED BY <1>1, <1>2, <1>5, <2>2, <3>1 DEF Mapping
  <2> QED BY <2>1, <2>2
<1>7. ASSUME detached' = {}, NEW b \in profile'
      PROVE  \E h \in FabricGroups : fabricGroup'[h] # None /\ fabricGroup'[h].app = b
  <2>1. b \in profile /\ b \notin Aim!Unneeded(g, fabricGroup[g].app) /\ b # None
    BY <1>1, <1>7 DEF GroupInv, GroupTypes, AimConstants
  <2>2. PICK h \in FabricGroups : fabricGroup[h] # None /\ fabricGroup[h].app = b
    BY <1>7, <1>b, <2>1 DEF GroupInv
  <2>3. CASE h # g
    BY <1>2, <2>2, <2>3
  <2>4. CASE h = g
    <3>1. PICK k \in FabricGroups : k \in Aim!Members(b) /\ k # g
      BY <2>1, <2>2, <2>4 DEF Aim!Unneeded, Aim!Members
    <3> QED BY <1>2, <3>1 DEF Aim!Members
  <2> QED BY <2>3, <2>4
<1> QED BY <1>3, <1>6, <1>7 DEF GroupInv

LEMMA CreateEpgKeeps ==
  ASSUME AimConstants, GroupInv, NEW g \in FabricGroups, Aim!CreateEpg(g)
  PROVE  GroupInv'
<1>1. /\ pending[g] # None /\ pending[g] \in Groupings
      /\ pending' = [pending EXCEPT ![g] = None] /\ detached' = detached
  BY MappedGroups DEF Aim!CreateEpg
<1>2. CASE fabricGroup[g] # None /\ Aim!EraseGroup(g)
  BY <1>1, <1>2, EraseGroupKeeps
<1>4. CASE fabricGroup[g] = None /\ UNCHANGED <<Aim!ruleVars, application, fabricGroup, epg, profile>>
  <2>1. /\ application' = application /\ fabricGroup' = fabricGroup /\ epg' = epg
        /\ profile' = profile /\ ruleSet' = ruleSet
    BY <1>4 DEF Aim!ruleVars
  <2>2. \A h \in FabricGroups : pending'[h] = IF h = g THEN None ELSE pending[h]
    BY <1>1 DEF GroupInv, GroupTypes
  <2>3. GroupTypes'
    BY <1>1, <2>1 DEF GroupInv, GroupTypes
  <2>4. ASSUME NEW h \in FabricGroups PROVE Mapping(h)'
    <3>1. Mapping(h)
      BY DEF GroupInv
    <3>2. CASE h = g
      BY <1>1, <1>4, <2>1, <2>2, <3>1, <3>2 DEF Mapping
    <3>3. CASE h # g
      BY <1>1, <2>1, <2>2, <3>1, <3>3 DEF Mapping
    <3> QED BY <3>2, <3>3
  <2> QED BY <1>1, <2>1, <2>3, <2>4 DEF GroupInv
<1>3. CASE /\ epg' = [epg EXCEPT ![g] = pending[g]] /\ profile' = profile \cup Aim!Needed(pending[g])
           /\ UNCHANGED <<Aim!ruleVars, application, fabricGroup>>
  <2>1. /\ epg' = [epg EXCEPT ![g] = pending[g]] /\ profile' = profile \cup Aim!Needed(pending[g])
        /\ pending' = [pending EXCEPT ![g] = None] /\ application' = application
        /\ fabricGroup' = fabricGroup /\ detached' = detached /\ ruleSet' = ruleSet
    BY <1>1, <1>3 DEF Aim!ruleVars
  <2>2. \A h \in FabricGroups : /\ epg'[h] = IF h = g THEN pending[g] ELSE epg[h]
                                /\ pending'[h] = IF h = g THEN None ELSE pending[h]
    BY <2>1 DEF GroupInv, GroupTypes
  <2>3. GroupTypes'
    <3>1. Aim!Needed(pending[g]) \subseteq Applications
      BY <1>1 DEF Aim!Needed, Groupings
    <3> QED BY <1>1, <2>1, <3>1 DEF GroupInv, GroupTypes
  <2>4. ASSUME NEW h \in FabricGroups PROVE Mapping(h)'
    <3>1. Mapping(h)
      BY DEF GroupInv
    <3>2. CASE h = g
      BY <1>1, <2>1, <2>2, <3>1, <3>2 DEF Mapping, Aim!Needed
    <3>3. CASE h # g
      BY <2>1, <2>2, <3>1, <3>3 DEF Mapping
    <3> QED BY <3>2, <3>3
  <2>5. ASSUME detached' = {}, NEW b \in profile'
        PROVE  \E h \in FabricGroups : fabricGroup'[h] # None /\ fabricGroup'[h].app = b
    <3>1. pending[g] = fabricGroup[g] /\ fabricGroup[g] # None
      BY <1>1, <2>1, <2>5, MappedGroups DEF Mapping
    <3>2. CASE b \in Aim!Needed(pending[g])
      BY <1>1, <2>1, <3>1, <3>2 DEF Aim!Needed
    <3>3. CASE b \in profile
      BY <2>1, <2>5, <3>3 DEF GroupInv
    <3> QED BY <2>1, <2>5, <3>2, <3>3
  <2> QED BY <2>3, <2>4, <2>5 DEF GroupInv
<1> QED BY <1>2, <1>3, <1>4 DEF Aim!CreateEpg

LEMMA UpdateGroupKeeps ==
  ASSUME AimConstants, GroupInv, NEW g \in FabricGroups, NEW row \in Groupings, Aim!UpdateGroup(g, row)
  PROVE  GroupInv'
<1>1. /\ fabricGroup[g] # None /\ Aim!Usable(row) /\ fabricGroup' = [fabricGroup EXCEPT ![g] = row]
      /\ ~Aim!Found(g) => epg' = epg /\ profile' = profile
      /\ Aim!Found(g) => /\ epg' = [epg EXCEPT ![g] = Aim!Moved(g, row)]
                         /\ profile' = IF row.app = fabricGroup[g].app THEN profile
                                       ELSE (profile \cup Aim!Needed(row)) \ Aim!Unneeded(g, fabricGroup[g].app)
      /\ detached' = detached \cup (IF pending[g] # None THEN {g} ELSE {})
      /\ application' = application /\ pending' = pending /\ ruleSet' = ruleSet
  BY DEF Aim!UpdateGroup, Aim!ruleVars
<1>2. /\ row # None /\ row.app \in Applications \cup {None} /\ row.contracts \subseteq Sets
      /\ row = [app |-> row.app, contracts |-> row.contracts]
  BY DEF AimConstants, Groupings
<1>3. Aim!Found(g) => epg[g] \in Groupings
  BY DEF Aim!Found, GroupInv, GroupTypes
<1>4. Aim!Found(g) => Aim!Moved(g, row) \in Groupings /\ Aim!Moved(g, row).app = row.app
  BY <1>2, <1>3 DEF Aim!Moved, Groupings
<1>5. \A h \in FabricGroups : /\ fabricGroup'[h] = IF h = g THEN row ELSE fabricGroup[h]
                              /\ h # g => epg'[h] = epg[h]
  BY <1>1 DEF GroupInv, GroupTypes
<1>6. Aim!Needed(row) \subseteq Applications
  BY <1>2 DEF Aim!Needed
<1>7. GroupTypes'
  <2>1. epg' \in [FabricGroups -> Groupings \cup {None}]
    <3>1. CASE Aim!Found(g)
      BY <1>1, <1>4, <3>1 DEF GroupInv, GroupTypes
    <3>2. CASE ~Aim!Found(g)
      BY <1>1, <3>2 DEF GroupInv, GroupTypes
    <3> QED BY <3>1, <3>2
  <2>2. fabricGroup' \in [FabricGroups -> Groupings \cup {None}]
    BY <1>1 DEF GroupInv, GroupTypes
  <2> QED BY <1>1, <1>6, <2>1, <2>2 DEF GroupInv, GroupTypes
\* A group that is not detached has its endpoint group, which follows.
<1>8. g \notin detached' => /\ pending[g] = None /\ Aim!Found(g) /\ epg[g] = fabricGroup[g]
                            /\ epg'[g] = row
  <2> SUFFICES ASSUME g \notin detached'
      PROVE pending[g] = None /\ Aim!Found(g) /\ epg[g] = fabricGroup[g] /\ epg'[g] = row
    OBVIOUS
  <2>1. pending[g] = None /\ g \notin detached
    BY <1>1
  <2>2. epg[g] = fabricGroup[g]
    BY <2>1, MappedGroups DEF Mapping
  <2>3. Aim!Found(g)
    BY <1>1, <2>2 DEF Aim!Found
  <2>4. Aim!Moved(g, row) = row
    BY <1>2, <2>2 DEF Aim!Moved
  <2> QED BY <1>1, <2>1, <2>2, <2>3, <2>4 DEF GroupInv, GroupTypes
<1>9. \A h \in FabricGroups \ {g} : fabricGroup[h] # None => fabricGroup[h].app \notin Aim!Unneeded(g, fabricGroup[g].app)
  BY DEF Aim!Unneeded, Aim!Members
<1>10. ASSUME NEW h \in FabricGroups PROVE Mapping(h)'
  <2>1. Mapping(h) /\ (h \notin detached /\ epg[h] # None => fabricGroup[h] = epg[h])
    BY MappedGroups
  <2>2. CASE h = g
    <3>1. pending'[g] # None => epg'[g] = None
      <4>1. pending[g] # None => ~Aim!Found(g)
        BY <2>1, <2>2 DEF Mapping, Aim!Found
      <4> QED BY <1>1, <1>2, <1>5, <2>1, <2>2, <4>1 DEF Mapping
    <3>2. g \notin detached' => pending'[g] = None /\ epg'[g] = fabricGroup'[g]
      BY <1>1, <1>5, <1>8
    <3>3. \A p \in row.contracts : ruleSet'[p] # None
      BY <1>1 DEF Aim!Usable
    <3>4. g \notin detached' => row.app \in profile' \cup {None}
      <4> SUFFICES ASSUME g \notin detached', row.app # None PROVE row.app \in profile'
        OBVIOUS
      <4>1. g \notin detached /\ epg[g] = fabricGroup[g] /\ Aim!Found(g)
        BY <1>1, <1>8
      <4>2. CASE row.app = fabricGroup[g].app
        BY <1>1, <2>1, <2>2, <4>1, <4>2 DEF Mapping
      <4>3. CASE row.app # fabricGroup[g].app
        BY <1>1, <4>1, <4>3 DEF Aim!Needed, Aim!Unneeded
      <4> QED BY <4>2, <4>3
    <3>5. fabricGroup'[g] = row
      BY <1>5
    <3>6. g \notin detached' => epg'[g] = row
      BY <1>8
    <3> QED BY <2>2, <3>1, <3>2, <3>3, <3>4, <3>5, <3>6 DEF Mapping
  <2>3. CASE h # g
    <3>1. h \notin detached' /\ epg[h] # None => epg[h].app \in profile' \cup {None}
      <4> SUFFICES ASSUME h \notin detached', epg[h] # None, epg[h].app # None PROVE epg[h].app \in profile'
        OBVIOUS
      <4>1. h \notin detached /\ fabricGroup[h] = epg[h] /\ epg[h].app \in profile
        BY <1>1, <2>1, <2>3 DEF Mapping
      <4>2. epg[h].app \notin Aim!Unneeded(g, fabricGroup[g].app)
        BY <1>9, <2>3, <4>1
      <4> QED BY <1>1, <4>1, <4>2
    <3>2. /\ fabricGroup'[h] = fabricGroup[h] /\ epg'[h] = epg[h] /\ pending'[h] = pending[h]
          /\ h \in detached' <=> h \in detached
      BY <1>1, <1>5, <2>3
    <3> QED BY <1>1, <2>1, <2>3, <3>1, <3>2 DEF Mapping
  <2> QED BY <2>2, <2>3
<1>11. ASSUME detached' = {}, NEW b \in profile'
       PROVE  \E h \in FabricGroups : fabricGroup'[h] # None /\ fabricGroup'[h].app = b
  <2>1. Aim!Found(g) /\ detached = {} /\ b # None
    BY <1>1, <1>7, <1>8, <1>11 DEF GroupTypes, AimConstants
  <2>2. CASE b = row.app
    BY <1>2, <1>5, <2>2
  <2>3. CASE b # row.app
    <3>1. b \in profile
      BY <1>1, <1>11, <2>1, <2>3 DEF Aim!Needed
    <3>2. PICK h \in FabricGroups : fabricGroup[h] # None /\ fabricGroup[h].app = b
      BY <2>1, <3>1 DEF GroupInv
    <3>3. CASE h # g
      BY <1>5, <3>2, <3>3
    <3>4. CASE h = g
      <4>1. b \notin Aim!Unneeded(g, fabricGroup[g].app)
        BY <1>1, <1>11, <2>1, <2>3, <3>2, <3>4
      <4>2. PICK k \in FabricGroups : k \in Aim!Members(b) /\ k # g
        BY <2>1, <3>2, <3>4, <4>1 DEF Aim!Unneeded, Aim!Members
      <4> QED BY <1>5, <4>2 DEF Aim!Members
    <3> QED BY <3>3, <3>4
  <2> QED BY <2>2, <2>3
<1> QED BY <1>7, <1>10, <1>11 DEF GroupInv

LEMMA AimStepKeeps ==
  ASSUME AimConstants, AimInv, [Aim!Next]_Aim!vars
  PROVE  AimInv'
<1>1. CASE Aim!RuleStep
  <2>1. RuleInv'
    <3>1. \A d \in Aim!Directions, p \in Protocols : [direction |-> d, protocol |-> p] \in Values
      BY DEF Values
    <3> QED BY <1>1, <3>1, CreateClassifierKeeps, UpdateClassifierKeeps, DeleteClassifierKeeps,
      CreateRuleKeeps,
              UpdateRuleKeeps, DeleteRuleKeeps, SetRulesKeeps, DeleteRuleSetKeeps DEF AimInv,
              Aim!RuleStep
  <2> QED BY <1>1, <2>1, RuleStepKeepsGroups DEF AimInv
<1>2. CASE Aim!GroupStep
  <2>1. GroupInv'
    <3>1. \A g \in FabricGroups, row \in Aim!Rows : Aim!CreateGroup(g, row) \/ Aim!UpdateGroup(g, row) => row \in Groupings
      BY DEF Aim!CreateGroup, Aim!UpdateGroup, Aim!Usable, Aim!Rows, Groupings
    <3> QED BY <1>2, <3>1, CreateApplicationKeeps, DeleteApplicationKeeps, CreateGroupKeeps,
      UpdateGroupKeeps,
              CreateEpgKeeps, EraseGroupKeeps DEF AimInv, Aim!GroupStep, Aim!DeleteGroup
  <2> QED BY <1>2, <2>1, GroupStepKeepsRules DEF AimInv
<1>3. CASE UNCHANGED Aim!vars
  <2>1. UNCHANGED <<fabricClassifier, fabricRule, ruleSet, filter, subject, astray>> /\ UNCHANGED Aim!groupVars
    BY <1>3 DEF Aim!vars, Aim!ruleVars
  <2>2. GroupInv'
    BY <2>1, RulesDisturbNoGroup DEF AimInv
  <2>3. RuleTypes' /\ RowsAreThere' /\ Aim!FiltersFollowRules'
    BY <2>1 DEF AimInv, RuleInv, RuleTypes, RowsAreThere, Aim!FiltersFollowRules
  <2>4. ASSUME NEW p \in Sets PROVE SubjectLists(p)'
    <3>1. SubjectLists(p)
      BY DEF AimInv, RuleInv
    <3>2. /\ Lines(ruleSet[p], "in")' = Lines(ruleSet[p], "in")
          /\ Lines(ruleSet[p], "out")' = Lines(ruleSet[p], "out")
      BY <2>1 DEF Lines, Listed
    <3> QED BY <2>1, <3>1, <3>2 DEF SubjectLists
  <2> QED BY <2>2, <2>3, <2>4 DEF AimInv, RuleInv
<1> QED BY <1>1, <1>2, <1>3 DEF Aim!Next

LEMMA AimStarts ==
  ASSUME AimConstants, Aim!Init
  PROVE  AimInv
<1>1. RuleTypes /\ RowsAreThere /\ Aim!FiltersFollowRules
  BY DEF Aim!Init, RuleTypes, RowsAreThere, Aim!FiltersFollowRules, Aim!Filters
<1>2. \A p \in Sets : SubjectLists(p)
  BY DEF Aim!Init, SubjectLists
<1>3. GroupInv
  BY DEF Aim!Init, GroupInv, GroupTypes, Mapping
<1> QED BY <1>1, <1>2, <1>3 DEF AimInv, RuleInv

LEMMA AimInvHolds ==
  ASSUME AimConstants
  PROVE  Aim!Spec => []AimInv
<1>1. Aim!Init => AimInv
  BY AimStarts
<1>2. AimInv /\ [Aim!Next]_(Aim!vars) => AimInv'
  BY AimStepKeeps
<1> QED BY <1>1, <1>2, PTL DEF Aim!Spec

\* Whichever topic a behaviour follows, the fabric changes as the driver does or not
\* at all.
LEMMA FabricMoves ==
  MCSpec => Aim!Spec
<1>1. MCInit => Aim!Init
  BY DEF MCInit
<1>2. [MCNext]_<<vars, fabricVars, topic>> => [Aim!Next]_(Aim!vars)
  <2>1. UNCHANGED fabricVars => UNCHANGED Aim!vars
    BY DEF fabricVars, Aim!vars, Aim!ruleVars, Aim!groupVars
  <2>2. FiltersNext => Aim!Next
    BY DEF FiltersNext, Aim!Next
  <2>3. EpgsNext => Aim!Next
    BY DEF EpgsNext, Aim!Next, Aim!RuleStep
  <2> QED BY <2>1, <2>2, <2>3 DEF MCNext
<1> QED BY <1>1, <1>2, PTL DEF MCSpec, Aim!Spec

--------------------
(* Security groups: the invariant *)

Policies == {"classifier", "rule", "set"}
Outsides == {"external", "routes", "l3"}
Remotes == {{g} : g \in Groups} \cup Blocks
Items == Sets \X Sides \X {"ingress", "egress"} \X Traffic \X Remotes
SetRows == [rules : SUBSET Rules, parent : Sets \cup {None}]
Writes == [rules : SUBSET Rules, kids : SUBSET Sets]

\* None is no row, no group is an address block, routes lead to addresses, and each
\* address of a set is in a largest block of it.
SecurityConstants ==
  /\ None \notin Classifiers \cup Sets \cup Groups \cup L3s
  /\ None \notin Relations \cup SetRows \cup Writes
  /\ None \notin [target : Targets, sgs : SUBSET (Sets \X Sides)]
  /\ \A g \in Groups : {g} \notin Blocks
  /\ \A d \in Routes : d \subseteq UNION Blocks
  /\ \A as \in SUBSET UNION Blocks : \A x \in as : \E b \in Cidrs(as) : x \in b

SecurityTypes ==
  /\ classifier \in [Classifiers -> [direction : Directions, traffic : Traffic]]
  /\ rule \in [Rules -> Classifiers \cup {None}]
  /\ set \in [Sets -> SetRows \cup {None}]
  /\ group \in [Groups -> Relations \cup {None}]
  /\ target \in [Targets -> Groups \cup {None}]
  /\ external \in Relations \cup {None}
  /\ routes \subseteq Routes /\ l3 \subseteq L3s
  /\ sg \subseteq Items
  /\ ports \in [Targets -> SUBSET (Sets \X Sides)]
  /\ worker = [w \in Workers |-> worker[w]]

\* Rows refer to rows that exist; there is one level of children.
PolicyInv ==
  /\ \A p \in Sets : set[p] # None =>
       /\ \A r \in set[p].rules : rule[r] # None
       /\ set[p].parent # None => set[set[p].parent] # None /\ set[set[p].parent].parent = None
  /\ Distinct(classifier, rule, set)
  /\ \A g \in Groups : group[g] # None => \A s \in Sides : group[g][s] \subseteq Exists(set)
  /\ external # None => \A s \in Sides : external[s] \subseteq Exists(set)
  /\ \A t \in Targets : target[t] # None => group[target[t]] # None

--------------------
(* What workers have to do *)

\* What a request wrote is still there, and what it replaced exists.
JobFits(w) ==
  LET q == worker[w] IN
  /\ Busy(w, Policies \cup Outsides \cup {"none", "group", "target"})
  /\ Busy(w, {"group"}) =>
       /\ q.on \in Groups /\ q.old \in Relations /\ q.new \in Relations /\ group[q.on] = q.new
       /\ \A s \in Sides : q.old[s] \subseteq Exists(set)
  /\ Busy(w, {"target"}) =>
       /\ q.on \in Targets /\ q.new \in Groups \cup {None}
       /\ target[q.on] = q.new
  /\ Busy(w, {"external"}) =>
       /\ q.old \in Relations /\ q.new \in Relations
       /\ q.new = IF external = None THEN Nothing ELSE external
       /\ \A s \in Sides : q.old[s] \subseteq Exists(set)
  /\ Busy(w, {"routes"}) =>
       /\ q.old \subseteq Routes /\ q.new = routes /\ l3 # {}
  /\ Busy(w, {"l3"}) =>
       /\ q.on \in L3s
       /\ q.new = None => external = None
       /\ q.new # None => q.on \in l3

\* One request at a time for a row, for the policy, and for the outside.
JobsApart ==
  \A v, w \in Workers : v # w =>
    /\ Busy(v, Policies) => Busy(w, {"none"})
    /\ ~(Busy(v, Outsides) /\ Busy(w, Outsides))
    /\ Busy(v, {"group"}) /\ Busy(w, {"group"}) => worker[v].on # worker[w].on
    /\ Busy(v, {"target"}) /\ Busy(w, {"target"}) => worker[v].on # worker[w].on

\* Whether the driver has been told that a group provides or consumes a rule set.
Has(g, p, s) == group[g] # None /\ p \in group[g][s]
ToldOf(g, p, s) ==
  IF \E w \in Workers : Busy(w, {"group"}) /\ worker[w].on = g
  THEN \E w \in Workers : /\ Busy(w, {"group"}) /\ worker[w].on = g
                          /\ \/ p \in worker[w].old[s]
                             \/ worker[w].stage # "start" /\ p \in worker[w].new[s]
  ELSE Has(g, p, s)

ToldOutside(p, s) ==
  IF \E w \in Workers : Busy(w, {"external"})
  THEN \E w \in Workers : Busy(w, {"external"}) /\ p \in worker[w].old[s]
  ELSE external # None /\ p \in external[s]

\* The blocks outside of which the driver has been told.
ToldBlock(b) ==
  IF \E w \in Workers : Busy(w, {"routes"})
  THEN \E w \in Workers : Busy(w, {"routes"}) /\ b \in _process_external_cidrs(worker[w].old, l3)
  ELSE IF \E w \in Workers : Busy(w, {"l3"}) /\ worker[w].new # None
  THEN \E w \in Workers : /\ Busy(w, {"l3"}) /\ worker[w].new # None
                          /\ b \in _process_external_cidrs(routes, l3 \ {worker[w].on})
  ELSE b \in _process_external_cidrs(routes, l3)

\* Whether the other side of a security group's rule is known to the driver.
Told(i) ==
  \/ \E g \in Groups : i[5] = {g} /\ ToldOf(g, i[1], Other(i[2]))
  \/ i[5] \in Blocks /\ ToldOutside(i[1], Other(i[2])) /\ ToldBlock(i[5])

--------------------
(* What the security groups hold *)

\* What a classifier says of a rule of a security group.
Says(c, i) == i[3] \in Flows(i[2], c.direction) /\ i[4] = c.traffic

\* The parent, if any, allows the classifier of a rule.
May(rl, p, r) == set[p].parent = None \/ \E x \in set[set[p].parent].rules : rl[x] = rl[r]

SaidBy(rs, cs, rl, i) == \E r \in rs : May(rl, i[1], r) /\ Says(cs[rl[r]], i)

\* What is there is what the policy says, for these classifiers and rules.
Exact(cs, rl, i) ==
  i \in sg <=> i[1] \in Exists(set) /\ Told(i) /\ SaidBy(set[i[1]].rules, cs, rl, i)

\* While a change of policy is in progress, what is there is what the policy said, but
\* for the children that the postcommit method will look at.
SgFits(w) ==
  LET q == worker[w]
      cs == [classifier EXCEPT ![q.on] = q.old]
      rl == [rule EXCEPT ![q.on] = q.old]
  IN /\ Busy(w, {"classifier"}) =>
          /\ q.on \in Classifiers /\ q.new = classifier[q.on]
          /\ q.old \in [direction : Directions, traffic : Traffic]
          /\ Distinct(cs, rule, set)
          /\ \A i \in Items : Exact(cs, rule, i)
     /\ Busy(w, {"rule"}) =>
          /\ q.on \in Rules /\ q.new = rule[q.on] /\ q.old \in Classifiers
          /\ rule[q.on] # None
          /\ Distinct(classifier, rl, set)
          /\ \A p \in Sets : set[p] # None /\ q.on \in set[p].rules => Children(p) = {}
          /\ \A i \in Items : Exact(classifier, rl, i)
     /\ Busy(w, {"set"}) =>
          /\ q.on \in Sets
          /\ q.new = None => set[q.on] = None /\ \A i \in Items : Exact(classifier, rule, i)
          /\ q.new # None =>
               /\ set[q.on] # None
               /\ q.old \in Writes /\ q.new = [rules |-> set[q.on].rules, kids |-> Children(q.on)]
               /\ \A r \in q.old.rules : rule[r] # None
               /\ \A r, x \in q.old.rules : r # x => classifier[rule[r]].traffic # classifier[rule[x]].traffic
               /\ q.old.kids \cup q.new.kids \subseteq Exists(set) \ {q.on}
               /\ \A k \in q.old.kids \ q.new.kids : set[k].parent = None
               /\ \A i \in Items :
                    IF i[1] = q.on
                    THEN i \in sg <=> Told(i) /\ SaidBy(q.old.rules, classifier, rule, i)
                    ELSE IF i[1] \in Recomputed(q.old, q.new)
                    THEN i \in sg => Told(i) /\ \E r \in set[i[1]].rules : Says(classifier[rule[r]], i)
                    ELSE Exact(classifier, rule, i)

NoPolicy == \A w \in Workers : ~Busy(w, Policies)
SgInv ==
  /\ NoPolicy => \A i \in Items : Exact(classifier, rule, i)
  /\ \A w \in Workers : SgFits(w)

SecurityInv ==
  /\ SecurityTypes /\ PolicyInv
  /\ \A w \in Workers : JobFits(w)
  /\ JobsApart /\ SgInv

--------------------
(* What the ports hold *)

Working(w, g) == Busy(w, {"group"}) /\ worker[w].on = g
Waits(t) == \E w \in Workers : Busy(w, {"target"}) /\ worker[w].on = t

\* Security groups that the targets of a group may still have from before an update,
Late(w, t, p, s) ==
  p \in worker[w].old[s] /\ (worker[w].stage = "disassociate" => t \in worker[w].todo)

\* and those that they do not have yet.
Early(w, t, p, s) ==
  /\ p \notin worker[w].old[s]
  /\ worker[w].stage = "start" \/ (worker[w].stage = "associate" /\ t \in worker[w].todo)

\* The port of a target is in the security groups of its group, but for what an update
\* has not got to, and the target's own request.
PortFits(t) ==
  /\ \A i \in ports[t] : i[1] \in Exists(set)
  /\ target[t] = None /\ ~Waits(t) => ports[t] = {}
  /\ target[t] # None => \A p \in Sets, s \in Sides :
       /\ <<p, s>> \in ports[t] =>
            Has(target[t], p, s) \/ \E w \in Workers : Working(w, target[t]) /\ Late(w, t, p, s)
       /\ ~Waits(t) /\ Has(target[t], p, s)
            /\ (\A w \in Workers : ~(Working(w, target[t]) /\ Early(w, t, p, s)))
              => <<p, s>> \in ports[t]

Ports == [target : Targets, sgs : SUBSET (Sets \X Sides)]

\* A worker has in hand ports of targets of its group, as they are, unless they go.
HeldFits(w) ==
  LET q == worker[w] IN
  /\ ~Busy(w, {"group", "target"}) => q.todo = {} /\ q.held = None
  /\ q.todo \subseteq Targets
  /\ q.held # None =>
       /\ q.held \in Ports /\ q.held.target \in q.todo
       /\ \A i \in q.held.sgs : i[1] \in Exists(set)
       /\ target[q.held.target] # None => q.held.sgs = ports[q.held.target]

\* No target joins a group that is being updated, and a group that gets a target stays.
WorkFits(w) ==
  LET q == worker[w] IN
  /\ Busy(w, {"group"}) =>
       /\ q.stage \in {"start", "associate", "disassociate"}
       /\ q.stage = "start" => q.todo = {}
       /\ q.stage = "associate" => q.list = SgsOf(Minus(q.new, q.old))
       /\ q.stage = "disassociate" => q.list = SgsOf(Minus(q.old, q.new))
       /\ \A t \in q.todo : target[t] \in {q.on, None}
       /\ \A v \in Workers : ~(Busy(v, {"target"}) /\ worker[v].new = q.on)
  /\ Busy(w, {"target"}) =>
       /\ q.stage \in {"start", "associate"}
       /\ q.stage = "start" => q.todo = {}
       /\ q.stage = "associate" => q.new # None /\ q.list = SgsOf(group[q.new]) /\ q.todo = {q.on}
       /\ q.new = None => q.old \in Groups /\ group[q.old] # None

PortsInv ==
  /\ \A t \in Targets : PortFits(t)
  /\ \A w \in Workers : HeldFits(w) /\ WorkFits(w)
--------------------
(* Rules of security groups *)

\* The sides are each other's other; differences of relations are by side.
LEMMA SidesAre ==
  /\ \A s \in Sides : Other(s) \in Sides /\ Other(Other(s)) = s
  /\ \A s, t \in Sides : Other(s) = t <=> s = Other(t)
  /\ \A rel \in Relations : \A s \in Sides : rel[s] \subseteq Sets
  /\ \A rel, old \in Relations : \A s \in Sides : Minus(rel, old)[s] = rel[s] \ old[s]
BY DEF Sides, Other, Relations, Minus

\* A rule of a security group by its parts.
LEMMA ItemIs ==
  ASSUME NEW i \in Items
  PROVE  /\ i = <<i[1], i[2], i[3], i[4], i[5]>>
         /\ i[1] \in Sets /\ i[2] \in Sides /\ i[4] \in Traffic /\ i[5] \in Remotes
BY DEF Items

\* _add_or_remove_policy_rule_set_rule: the rules a classifier says, for these addresses.
LEMMA AddIs ==
  ASSUME NEW i \in Items, NEW p, NEW c, NEW cidrs
  PROVE  i \in _add_or_remove_policy_rule_set_rule(p, c, cidrs)
           <=> i[1] = p /\ Says(c, i) /\ i[5] \in cidrs[Other(i[2])]
<1>1. i \in _add_or_remove_policy_rule_set_rule(p, c, cidrs)
        <=> \E s \in Sides : \E f \in Flows(s, c.direction), a \in cidrs[Other(s)] :
              i = <<p, s, f, c.traffic, a>>
  BY DEF _add_or_remove_policy_rule_set_rule
<1>2. i = <<i[1], i[2], i[3], i[4], i[5]>> /\ i[2] \in Sides
  BY ItemIs
<1>3. ASSUME NEW s \in Sides, NEW f \in Flows(s, c.direction), NEW a \in cidrs[Other(s)],
             i = <<p, s, f, c.traffic, a>>
      PROVE  i[1] = p /\ Says(c, i) /\ i[5] \in cidrs[Other(i[2])]
  <2>1. i[1] = p /\ i[2] = s /\ i[3] = f /\ i[4] = c.traffic /\ i[5] = a
    BY <1>3
  <2> QED BY <2>1 DEF Says
<1>4. ASSUME i[1] = p, Says(c, i), i[5] \in cidrs[Other(i[2])]
      PROVE  \E s \in Sides : \E f \in Flows(s, c.direction), a \in cidrs[Other(s)] :
               i = <<p, s, f, c.traffic, a>>
  BY <1>2, <1>4 DEF Says
<1> QED BY <1>1, <1>3, <1>4

\* _manage_policy_rule_set_rules: those that some policy rule says.
LEMMA ManageIs ==
  ASSUME NEW i \in Items, NEW p, NEW rs, NEW cidrs
  PROVE  i \in _manage_policy_rule_set_rules(p, rs, cidrs)
           <=> /\ i[1] = p /\ i[5] \in cidrs[Other(i[2])]
               /\ \E r \in rs : Says(classifier[rule[r]], i)
<1>1. i \in _manage_policy_rule_set_rules(p, rs, cidrs)
        <=> \E r \in rs : i \in _add_or_remove_policy_rule_set_rule(p, classifier[rule[r]], cidrs)
  BY DEF _manage_policy_rule_set_rules
<1> QED BY <1>1, AddIs

\* _get_enforced_prs_rules: an empty list stands for all rules.
LEMMA EnforcedIs ==
  ASSUME NEW p, NEW rs, NEW r
  PROVE  r \in _get_enforced_prs_rules(p, rs)
           <=> r \in (IF rs = {} THEN set[p].rules ELSE rs) /\ May(rule, p, r)
BY DEF _get_enforced_prs_rules, ClassifiersOf, May

\* _set_rules_for_cidrs: what the rules that the parent allows say.
LEMMA SetIs ==
  ASSUME NEW i \in Items, NEW rel, NEW as
  PROVE  i \in _set_rules_for_cidrs(rel, as)
           <=> /\ i[1] \in rel[Other(i[2])] /\ i[5] \in as
               /\ SaidBy(set[i[1]].rules, classifier, rule, i)
<1> DEFINE on(s) == [t \in Sides |-> IF t = s THEN as ELSE {}]
<1>1. i \in _set_rules_for_cidrs(rel, as)
        <=> \E s \in Sides : \E p \in rel[s] :
              i \in _manage_policy_rule_set_rules(p, _get_enforced_prs_rules(p, {}), on(s))
  <2> DEFINE of(s, p) == _manage_policy_rule_set_rules(p, _get_enforced_prs_rules(p, {}), on(s))
  <2>1. _set_rules_for_cidrs(rel, as) = UNION {UNION {of(s, p) : p \in rel[s]} : s \in Sides}
    BY Zenon DEF _set_rules_for_cidrs
  <2> HIDE DEF of
  <2>2. \A s : i \in UNION {of(s, p) : p \in rel[s]} <=> \E p \in rel[s] : i \in of(s, p)
    OBVIOUS
  <2>3. i \in _set_rules_for_cidrs(rel, as) <=> \E s \in Sides : \E p \in rel[s] : i \in of(s, p)
    BY <2>1, <2>2
  <2> QED BY <2>3 DEF of
<1>2. i[2] \in Sides /\ Other(i[2]) \in Sides
  BY ItemIs, SidesAre
<1>3. \A s \in Sides : i[5] \in on(s)[Other(i[2])] <=> s = Other(i[2]) /\ i[5] \in as
  BY <1>2
<1> HIDE DEF on
<1>4. \A s \in Sides : \A p : i \in _manage_policy_rule_set_rules(p, _get_enforced_prs_rules(p, {}), on(s))
        <=> /\ i[1] = p /\ s = Other(i[2]) /\ i[5] \in as
            /\ \E r \in _get_enforced_prs_rules(p, {}) : Says(classifier[rule[r]], i)
  BY <1>3, ManageIs
<1>5. (\E r \in _get_enforced_prs_rules(i[1], {}) : Says(classifier[rule[r]], i))
        <=> SaidBy(set[i[1]].rules, classifier, rule, i)
  BY EnforcedIs DEF SaidBy
<1> QED BY <1>1, <1>2, <1>4, <1>5

\* _unset_rules_for_cidrs: what any rule says.
LEMMA UnsetIs ==
  ASSUME NEW i \in Items, NEW rel, NEW as
  PROVE  i \in _unset_rules_for_cidrs(rel, as)
           <=> /\ i[1] \in rel[Other(i[2])] /\ i[5] \in as
               /\ \E r \in set[i[1]].rules : Says(classifier[rule[r]], i)
<1> DEFINE on(s) == [t \in Sides |-> IF t = s THEN as ELSE {}]
<1>1. i \in _unset_rules_for_cidrs(rel, as)
        <=> \E s \in Sides : \E p \in rel[s] :
              i \in _manage_policy_rule_set_rules(p, set[p].rules, on(s))
  <2> DEFINE of(s, p) == _manage_policy_rule_set_rules(p, set[p].rules, on(s))
  <2>1. _unset_rules_for_cidrs(rel, as) = UNION {UNION {of(s, p) : p \in rel[s]} : s \in Sides}
    BY Zenon DEF _unset_rules_for_cidrs
  <2> HIDE DEF of
  <2>2. \A s : i \in UNION {of(s, p) : p \in rel[s]} <=> \E p \in rel[s] : i \in of(s, p)
    OBVIOUS
  <2>3. i \in _unset_rules_for_cidrs(rel, as) <=> \E s \in Sides : \E p \in rel[s] : i \in of(s, p)
    BY <2>1, <2>2
  <2> QED BY <2>3 DEF of
<1>2. i[2] \in Sides /\ Other(i[2]) \in Sides
  BY ItemIs, SidesAre
<1>3. \A s \in Sides : i[5] \in on(s)[Other(i[2])] <=> s = Other(i[2]) /\ i[5] \in as
  BY <1>2
<1> HIDE DEF on
<1>4. \A s \in Sides : \A p : i \in _manage_policy_rule_set_rules(p, set[p].rules, on(s))
        <=> /\ i[1] = p /\ s = Other(i[2]) /\ i[5] \in as
            /\ \E r \in set[p].rules : Says(classifier[rule[r]], i)
  BY <1>3, ManageIs
<1> QED BY <1>1, <1>2, <1>4
--------------------
(* Types of rules, and frames *)

ClassifierRows == [direction : Directions, traffic : Traffic]

\* What the driver adds and removes are rules of security groups.
LEMMA AddTypes ==
  ASSUME NEW p \in Sets, NEW c \in ClassifierRows, NEW cidrs, \A s \in Sides : cidrs[s] \subseteq Remotes
  PROVE  _add_or_remove_policy_rule_set_rule(p, c, cidrs) \subseteq Items
<1> SUFFICES ASSUME NEW i \in _add_or_remove_policy_rule_set_rule(p, c, cidrs) PROVE i \in Items
  OBVIOUS
<1>0. \E s \in Sides : \E f \in Flows(s, c.direction), a \in cidrs[Other(s)] :
        i = <<p, s, f, c.traffic, a>>
  BY DEF _add_or_remove_policy_rule_set_rule
<1>1. PICK s \in Sides : \E f \in Flows(s, c.direction), a \in cidrs[Other(s)] :
        i = <<p, s, f, c.traffic, a>>
  BY <1>0
<1>3. PICK f \in Flows(s, c.direction), a \in cidrs[Other(s)] : i = <<p, s, f, c.traffic, a>>
  BY <1>1
<1>2. f \in {"ingress", "egress"} /\ c.traffic \in Traffic /\ a \in Remotes
  BY <1>1, <1>3, SidesAre DEF Flows, ClassifierRows
<1> QED BY <1>3, <1>2 DEF Items

LEMMA ManageTypes ==
  ASSUME NEW p \in Sets, NEW rs, \A r \in rs : classifier[rule[r]] \in ClassifierRows,
         NEW cidrs, \A s \in Sides : cidrs[s] \subseteq Remotes
  PROVE  _manage_policy_rule_set_rules(p, rs, cidrs) \subseteq Items
<1>1. \A r \in rs : _add_or_remove_policy_rule_set_rule(p, classifier[rule[r]], cidrs) \subseteq Items
  BY AddTypes
<1> QED BY <1>1 DEF _manage_policy_rule_set_rules

\* The rules of a rule set have classifiers.
LEMMA RulesTyped ==
  ASSUME SecurityConstants, SecurityTypes, PolicyInv, NEW p \in Exists(set)
  PROVE  /\ p \in Sets /\ set[p] \in SetRows /\ set[p].rules \subseteq Rules
         /\ \A r \in set[p].rules : /\ rule[r] \in Classifiers /\ rule[r] # None
                                    /\ classifier[rule[r]] \in ClassifierRows
<1>1. p \in Sets /\ set[p] # None
  BY DEF Exists, SecurityTypes
<1>2. set[p] \in SetRows
  BY <1>1 DEF SecurityTypes
<1>3. set[p].rules \subseteq Rules
  BY <1>2 DEF SetRows
<1>4. ASSUME NEW r \in set[p].rules
      PROVE  rule[r] \in Classifiers /\ rule[r] # None /\ classifier[rule[r]] \in ClassifierRows
  <2>1. rule[r] # None /\ r \in Rules
    BY <1>1, <1>3 DEF PolicyInv
  <2>2. rule[r] \in Classifiers
    BY <2>1 DEF SecurityTypes
  <2> QED BY <2>1, <2>2 DEF SecurityTypes, ClassifierRows
<1> QED BY <1>1, <1>2, <1>3, <1>4

LEMMA SetTypes ==
  ASSUME SecurityConstants, SecurityTypes, PolicyInv,
         NEW rel, \A s \in Sides : rel[s] \subseteq Exists(set),
         NEW as \in SUBSET Remotes
  PROVE  _set_rules_for_cidrs(rel, as) \subseteq Items
<1> DEFINE on(s) == [t \in Sides |-> IF t = s THEN as ELSE {}]
           of(s, p) == _manage_policy_rule_set_rules(p, _get_enforced_prs_rules(p, {}), on(s))
<1>1. _set_rules_for_cidrs(rel, as) = UNION {UNION {of(s, p) : p \in rel[s]} : s \in Sides}
  BY Zenon DEF _set_rules_for_cidrs
<1>2. ASSUME NEW s \in Sides, NEW p \in rel[s] PROVE of(s, p) \subseteq Items
  <2>1. p \in Exists(set) /\ \A t \in Sides : on(s)[t] \subseteq Remotes
    OBVIOUS
  <2> HIDE DEF on
  <2>2. \A r \in _get_enforced_prs_rules(p, {}) : classifier[rule[r]] \in ClassifierRows
    BY <2>1, EnforcedIs, RulesTyped
  <2> QED BY <2>1, <2>2, RulesTyped, ManageTypes
<1> HIDE DEF of
<1> QED BY <1>1, <1>2

LEMMA CidrsAreRemotes ==
  ASSUME SecurityTypes
  PROVE
  /\ \A as : Cidrs(as) \subseteq Remotes /\ Cidrs(as) \subseteq Blocks
  /\ \A p : \A s \in Sides : _get_cidrs_mapping(p)[s] \subseteq Remotes
<1>1. \A as : Cidrs(as) \subseteq Remotes /\ Cidrs(as) \subseteq Blocks
  BY DEF Cidrs, Remotes
<1>2. ASSUME NEW p, NEW s \in Sides PROVE _get_cidrs_mapping(p)[s] \subseteq Remotes
  <2>1. _get_cidrs_mapping(p)[s] =
          {{g} : g \in Users(p, s)} \cup
          (IF external = None \/ p \notin external[s] THEN {}
           ELSE _process_external_cidrs(routes, l3))
    BY DEF _get_cidrs_mapping
  <2>2. _process_external_cidrs(routes, l3) \subseteq Remotes
    BY <1>1 DEF _process_external_cidrs
  <2>3. {{g} : g \in Users(p, s)} \subseteq Remotes
    BY DEF Users, Exists, Remotes, SecurityTypes
  <2> QED BY <2>1, <2>2, <2>3
<1> QED BY <1>1, <1>2

--------------------
(* What the driver has been told: frames *)

\* A step that leaves a group and the requests for it changes nothing it is told of them.
LEMMA FrameOf ==
  ASSUME NEW g, NEW p, NEW s, group'[g] = group[g],
         \A w \in Workers :
           /\ (worker'[w].kind = "group" /\ worker'[w].on = g)
                <=> (worker[w].kind = "group" /\ worker[w].on = g)
           /\ worker[w].kind = "group" /\ worker[w].on = g =>
                /\ worker'[w].old = worker[w].old /\ worker'[w].new = worker[w].new
                /\ worker'[w].stage = "start" <=> worker[w].stage = "start"
  PROVE  ToldOf(g, p, s)' <=> ToldOf(g, p, s)
BY DEF ToldOf, Has, Busy

\* The same of the external policy,
LEMMA FrameOutside ==
  ASSUME NEW p, NEW s, UNCHANGED external,
         \A w \in Workers :
           /\ worker'[w].kind = "external" <=> worker[w].kind = "external"
           /\ worker[w].kind = "external" => worker'[w].old = worker[w].old
  PROVE  ToldOutside(p, s)' <=> ToldOutside(p, s)
BY DEF ToldOutside, Busy

\* and of the addresses outside.
LEMMA FrameBlock ==
  ASSUME NEW b, UNCHANGED <<routes, l3>>,
         \A w \in Workers :
           /\ worker'[w].kind \in {"routes", "l3"} <=> worker[w].kind \in {"routes", "l3"}
           /\ worker[w].kind \in {"routes", "l3"} => worker'[w] = worker[w]
  PROVE  ToldBlock(b)' <=> ToldBlock(b)
<1>1. routes' = routes /\ l3' = l3
  OBVIOUS
<1>2. \A w \in Workers : /\ Busy(w, {"routes"})' <=> Busy(w, {"routes"})
                         /\ (Busy(w, {"l3"}) /\ worker[w].new # None)'
                              <=> Busy(w, {"l3"}) /\ worker[w].new # None
  BY DEF Busy
<1>3. \A w \in Workers : Busy(w, {"routes"}) \/ Busy(w, {"l3"}) => worker'[w] = worker[w]
  BY DEF Busy
<1>4. \A w \in Workers : Busy(w, {"routes"}) =>
        ((b \in _process_external_cidrs(worker[w].old, l3))'
           <=> b \in _process_external_cidrs(worker[w].old, l3))
  BY <1>1, <1>3 DEF _process_external_cidrs, Cidrs, Pools
<1>5. \A w \in Workers : Busy(w, {"l3"}) =>
        ((b \in _process_external_cidrs(routes, l3 \ {worker[w].on}))'
           <=> b \in _process_external_cidrs(routes, l3 \ {worker[w].on}))
  BY <1>1, <1>3 DEF _process_external_cidrs, Cidrs, Pools
<1>6. (b \in _process_external_cidrs(routes, l3))' <=> b \in _process_external_cidrs(routes, l3)
  BY <1>1 DEF _process_external_cidrs, Cidrs, Pools
<1> HIDE DEF Busy, _process_external_cidrs
<1>7. (\E w \in Workers : Busy(w, {"routes"})') <=> \E w \in Workers : Busy(w, {"routes"})
  BY <1>2
<1>8. (\E w \in Workers : (Busy(w, {"l3"}) /\ worker[w].new # None)')
        <=> \E w \in Workers : Busy(w, {"l3"}) /\ worker[w].new # None
  BY <1>2
<1> QED BY <1>2, <1>4, <1>5, <1>6, <1>7, <1>8 DEF ToldBlock

\* Hence of what a rule rests on.
LEMMA FrameTold ==
  ASSUME NEW i,
         \A g \in Groups : \A s \in Sides : ToldOf(g, i[1], s)' <=> ToldOf(g, i[1], s),
         \A s \in Sides : ToldOutside(i[1], s)' <=> ToldOutside(i[1], s),
         i[5] \in Blocks => (ToldBlock(i[5])' <=> ToldBlock(i[5])),
         i[2] \in Sides
  PROVE  Told(i)' <=> Told(i)
BY SidesAre DEF Told

\* With nothing in progress outside of the policy, all is told.
LEMMA QuietTold ==
  ASSUME \A w \in Workers : ~Busy(w, Outsides \cup {"group"})
  PROVE  /\ \A g, p, s : ToldOf(g, p, s) <=> Has(g, p, s)
         /\ \A p, s : ToldOutside(p, s) <=> external # None /\ p \in external[s]
         /\ \A b : ToldBlock(b) <=> b \in _process_external_cidrs(routes, l3)
<1>1. \A w \in Workers : ~Busy(w, {"group"}) /\ ~Busy(w, {"external"}) /\ ~Busy(w, {"routes"})
                           /\ ~Busy(w, {"l3"})
  BY DEF Busy, Outsides
<1> QED BY <1>1 DEF ToldOf, ToldOutside, ToldBlock

\* The addresses for a rule set's rules are those the driver has been told of.
LEMMA OwedIs ==
  ASSUME SecurityTypes, \A w \in Workers : ~Busy(w, Outsides \cup {"group"}), NEW i \in Items
  PROVE  i[5] \in _get_cidrs_mapping(i[1])[Other(i[2])] <=> Told(i)
<1> DEFINE s == Other(i[2])
<1>1. s \in Sides /\ i[5] \in Remotes
  BY ItemIs, SidesAre
<1>2. _get_cidrs_mapping(i[1])[s] =
        {{g} : g \in Users(i[1], s)} \cup
        (IF external = None \/ i[1] \notin external[s] THEN {}
         ELSE _process_external_cidrs(routes, l3))
  BY <1>1 DEF _get_cidrs_mapping
<1>3. i[5] \in {{g} : g \in Users(i[1], s)} <=> \E g \in Groups : i[5] = {g} /\ Has(g, i[1], s)
  BY DEF Users, Exists, Has, SecurityTypes
<1>4. _process_external_cidrs(routes, l3) \subseteq Blocks
  BY CidrsAreRemotes DEF _process_external_cidrs
<1> QED BY <1>2, <1>3, <1>4, QuietTold DEF Told

--------------------
(* How a request starts and ends *)

Kinds == Policies \cup Outsides \cup {"group", "target"}

\* What workers know has all its parts, so that a change of some leaves the others.
Parts == {"kind", "on", "old", "new", "stage", "list", "todo", "held"}
Whole(q) == DOMAIN q = Parts /\ q = [f \in Parts |-> q[f]]
WorkersWhole == \A w \in Workers : Whole(worker[w])

LEMMA SgsTaken ==
  ASSUME NEW q, Whole(q), NEW stage, NEW rel, NEW r, r = _update_sgs_on_ptg(q, stage, rel)
  PROVE  /\ r.kind = q.kind /\ r.on = q.on /\ r.old = q.old /\ r.new = q.new
         /\ r.stage = stage /\ r.list = SgsOf(rel) /\ r.held = q.held
         /\ r.todo = IF SgsOf(rel) = {} THEN {} ELSE TargetsOf(q.on)
         /\ Whole(r)
<1> DEFINE list == SgsOf(rel)
           todo == IF SgsOf(rel) = {} THEN {} ELSE TargetsOf(q.on)
<1>1. r = [q EXCEPT !.stage = stage, !.list = list, !.todo = todo]
  BY DEF _update_sgs_on_ptg
<1>2. /\ r.kind = q.kind /\ r.on = q.on /\ r.old = q.old /\ r.new = q.new
      /\ r.stage = stage /\ r.list = list /\ r.todo = todo /\ r.held = q.held
      /\ Whole(r)
  <2> HIDE DEF list, todo
  <2> QED BY <1>1 DEF Whole, Parts
<1> QED BY <1>2

LEMMA JobIsWhole ==
  ASSUME NEW kind, NEW k, NEW old, NEW new
  PROVE  /\ Whole([Idle EXCEPT !.kind = kind, !.on = k, !.old = old, !.new = new])
         /\ Whole(Idle)
BY DEF Whole, Parts, Idle

\* Each step changes at most what one worker knows, and leaves it whole.
LEMMA WholeStep ==
  ASSUME SecurityInv, WorkersWhole, NEW w \in Workers, NEW q, worker' = [worker EXCEPT ![w] = q], Whole(q)
  PROVE  WorkersWhole'
<1>1. worker = [v \in Workers |-> worker[v]]
  BY DEF SecurityInv, SecurityTypes
<1>2. ASSUME NEW v \in Workers PROVE worker'[v] = IF v = w THEN q ELSE worker[v]
  BY <1>1
<1> QED BY <1>2 DEF WorkersWhole

LEMMA WholeCommit ==
  ASSUME SecurityInv, WorkersWhole, NEW w \in Workers,
         \/ UNCHANGED worker
         \/ \E kind, k, old, new : Commit(w, kind, k, old, new)
         \/ \E kind : Post(w, kind)
  PROVE  WorkersWhole'
<1>1. CASE UNCHANGED worker
  BY <1>1 DEF WorkersWhole
<1>2. CASE \E kind, k, old, new : Commit(w, kind, k, old, new)
  <2>1. PICK kind, k, old, new : Commit(w, kind, k, old, new)
    BY <1>2
  <2>2. worker' = [worker EXCEPT ![w] = [Idle EXCEPT !.kind = kind, !.on = k, !.old = old, !.new = new]]
    BY <2>1 DEF Commit
  <2> QED BY <2>2, JobIsWhole, WholeStep
<1>3. CASE \E kind : Post(w, kind)
  <2>1. worker' = [worker EXCEPT ![w] = Idle]
    BY <1>3 DEF Post
  <2> QED BY <2>1, JobIsWhole, WholeStep
<1> QED BY <1>1, <1>2, <1>3

LEMMA WorkersStayWhole ==
  ASSUME SecurityInv, WorkersWhole, [Next]_vars
  PROVE  WorkersWhole'
<1>1. CASE UNCHANGED vars
  BY <1>1 DEF WorkersWhole, vars
<1>2. CASE Next
  <2>1. PICK w \in Workers : Policy(w) \/ Endpoints(w) \/ Outside(w)
    BY <1>2 DEF Next
  <2>2. Whole(worker[w]) /\ worker = [v \in Workers |-> worker[v]]
    BY DEF WorkersWhole, SecurityInv, SecurityTypes
  <2>3. CASE Policy(w)
    <3>1. \/ UNCHANGED worker
          \/ \E kind, k, old, new : Commit(w, kind, k, old, new)
          \/ \E kind : Post(w, kind)
      BY <2>3 DEF Policy, UpdateClassifier, UpdateClassifierPost, CreateRule, UpdateRule, DeleteRule,
                  UpdateRulePost, CreateRuleSet, UpdateRuleSet, DeleteRuleSet, WriteRuleSetPost,
                  DeleteRuleSetPost
    <3> QED BY <3>1, WholeCommit
  <2>4. CASE Outside(w)
    <3>1. \/ \E kind, k, old, new : Commit(w, kind, k, old, new)
          \/ \E kind : Post(w, kind)
      BY <2>4 DEF Outside, CreateExternalPolicy, UpdateExternalPolicy, DeleteExternalPolicy,
                  ExternalPolicyPost, UpdateExternalSegment, UpdateExternalSegmentPost,
                  CreateL3Policy, DeleteL3Policy, CreateL3PolicyPost, DeleteL3PolicyPost
    <3> QED BY <3>1, WholeCommit
  <2>5. CASE Endpoints(w)
    <3>1. CASE \/ UNCHANGED worker
               \/ \E kind, k, old, new : Commit(w, kind, k, old, new)
               \/ \E kind : Post(w, kind)
      BY <3>1, WholeCommit
    <3>2. CASE SetGroupRules(w) \/ LeaveOldSgs(w)
      <4>1. PICK stage, rel : worker' = [worker EXCEPT ![w] = _update_sgs_on_ptg(worker[w], stage, rel)]
        BY <3>2 DEF SetGroupRules, LeaveOldSgs
      <4>2. Whole(_update_sgs_on_ptg(worker[w], stage, rel))
        BY <2>2, SgsTaken
      <4> QED BY <4>1, <4>2, WholeStep
    <3>3. CASE \E t \in Targets : ReadPort(w, t)
      <4>1. PICK todo, held : worker' = [worker EXCEPT ![w].todo = todo, ![w].held = held]
        BY <3>3 DEF ReadPort
      <4>2. worker' = [worker EXCEPT ![w] = [worker[w] EXCEPT !.todo = todo, !.held = held]]
        BY <2>2, <4>1
      <4>3. Whole([worker[w] EXCEPT !.todo = todo, !.held = held])
        BY <2>2 DEF Whole, Parts
      <4> QED BY <4>2, <4>3, WholeStep
    <3>4. CASE ReadGroup(w)
      <4>1. PICK stage, todo, list : worker' =
              [worker EXCEPT ![w] = [worker[w] EXCEPT !.stage = stage, !.todo = todo, !.list = list]]
        BY <3>4 DEF ReadGroup
      <4>2. Whole([worker[w] EXCEPT !.stage = stage, !.todo = todo, !.list = list])
        BY <2>2 DEF Whole, Parts
      <4> QED BY <4>1, <4>2, WholeStep
    <3>5. CASE WritePort(w)
      <4>1. PICK todo, held : worker' = [worker EXCEPT ![w] =
              IF worker[w].kind = "target" THEN Idle
              ELSE [worker[w] EXCEPT !.todo = todo, !.held = held]]
        BY <3>5 DEF WritePort
      <4>2. Whole([worker[w] EXCEPT !.todo = todo, !.held = held]) /\ Whole(Idle)
        BY <2>2, JobIsWhole DEF Whole, Parts
      <4>3. Whole(IF worker[w].kind = "target" THEN Idle
                  ELSE [worker[w] EXCEPT !.todo = todo, !.held = held])
        BY <4>2
      <4> QED BY <4>1, <4>3, WholeStep
    <3>6. CASE UnsetGroupRules(w) \/ DeleteTargetPost(w)
      BY <3>1, <3>6 DEF UnsetGroupRules, DeleteTargetPost
    <3>7. CASE \E g \in Groups : \/ \E rel \in Relations : CreateGroup(w, g, rel) \/ UpdateGroup(w, g, rel)
                                 \/ DeleteGroup(w, g)
                                 \/ \E t \in Targets : CreateTarget(w, t, g)
      BY <3>1, <3>7 DEF CreateGroup, UpdateGroup, DeleteGroup, CreateTarget
    <3>8. CASE \E t \in Targets : DeleteTarget(w, t)
      BY <3>1, <3>8 DEF DeleteTarget
    <3> QED BY <2>5, <3>2, <3>3, <3>4, <3>5, <3>6, <3>7, <3>8 DEF Endpoints
  <2> QED BY <2>1, <2>3, <2>4, <2>5
<1> QED BY <1>1, <1>2

\* A request starts when the worker and the row are free.
LEMMA Starts ==
  ASSUME SecurityInv, Careful, NEW w \in Workers, NEW kind \in Kinds, NEW k, NEW old, NEW new,
         Free(w, kind, k), Commit(w, kind, k, old, new)
  PROVE  /\ worker'[w].kind = kind /\ worker'[w].on = k /\ worker'[w].old = old /\ worker'[w].new = new
         /\ worker'[w].stage = "start" /\ worker'[w].todo = {} /\ worker'[w].held = None
         /\ \A v \in Workers : v # w => worker'[v] = worker[v]
         /\ worker' = [v \in Workers |-> worker'[v]]
         /\ worker[w].kind = "none"
         /\ \A v \in Workers : ~Busy(v, Policies)
         /\ kind \in Outsides => \A v \in Workers : ~Busy(v, Outsides)
         /\ kind \in Policies => \A v \in Workers : worker[v].kind = "none"
         /\ \A v \in Workers : ~(worker[v].kind = kind /\ worker[v].on = k)
         /\ sg' = sg /\ ports' = ports
         /\ JobsApart'
<1>1. worker = [v \in Workers |-> worker[v]] /\ JobsApart
  BY DEF SecurityInv, SecurityTypes
<1>2. worker' = [worker EXCEPT ![w] = [Idle EXCEPT !.kind = kind, !.on = k, !.old = old, !.new = new]]
      /\ sg' = sg /\ ports' = ports
  BY DEF Commit
<1>3. /\ worker'[w].kind = kind /\ worker'[w].on = k /\ worker'[w].old = old /\ worker'[w].new = new
      /\ worker'[w].stage = "start" /\ worker'[w].todo = {} /\ worker'[w].held = None
      /\ \A v \in Workers : v # w => worker'[v] = worker[v]
      /\ worker' = [v \in Workers |-> worker'[v]]
  BY <1>1, <1>2 DEF Idle
<1>4. worker[w].kind = "none"
  BY DEF Free
<1>5. \A v \in Workers : ~Busy(v, Policies)
  BY <1>4 DEF Free, Busy, Policies
<1>6. kind \in Outsides => \A v \in Workers : ~Busy(v, Outsides)
  BY <1>4 DEF Free, Busy, Outsides
<1>7. kind \in Policies => \A v \in Workers : worker[v].kind = "none"
  BY <1>4 DEF Free, Busy, Policies
<1>8. kind # "none"
  BY DEF Kinds, Policies, Outsides
<1>9. \A v \in Workers : ~(worker[v].kind = kind /\ worker[v].on = k)
  BY <1>4, <1>8 DEF Free, Busy
<1>10. worker'[w].kind = kind /\ worker'[w].on = k
  BY <1>3
<1>11. JobsApart'
  <2> SUFFICES ASSUME NEW u \in Workers, NEW v \in Workers, u # v
               PROVE  /\ worker'[u].kind \in Policies => worker'[v].kind \in {"none"}
                      /\ ~(worker'[u].kind \in Outsides /\ worker'[v].kind \in Outsides)
                      /\ worker'[u].kind = "group" /\ worker'[v].kind = "group" => worker'[u].on # worker'[v].on
                      /\ worker'[u].kind = "target" /\ worker'[v].kind = "target" => worker'[u].on # worker'[v].on
    BY DEF JobsApart, Busy
  <2>1. CASE u # w /\ v # w
    BY <2>1, <1>1, <1>3 DEF JobsApart, Busy
  <2>2. CASE u = w
    BY <2>2, <1>3, <1>5, <1>6, <1>7, <1>9, <1>10 DEF Busy
  <2>3. CASE v = w
    BY <2>3, <1>3, <1>5, <1>6, <1>7, <1>9, <1>10 DEF Busy
  <2> QED BY <2>1, <2>2, <2>3
<1> QED BY <1>2, <1>3, <1>4, <1>5, <1>6, <1>7, <1>9, <1>11

\* A postcommit method ends the request.
LEMMA Ends ==
  ASSUME SecurityInv, NEW w \in Workers, NEW kind \in Kinds, Post(w, kind)
  PROVE  /\ worker[w].kind = kind /\ worker'[w] = Idle /\ worker'[w].kind = "none"
         /\ \A v \in Workers : v # w => worker'[v] = worker[v]
         /\ worker' = [v \in Workers |-> worker'[v]]
         /\ \A v \in Workers : worker'[v].kind \notin Policies
         /\ kind \notin Policies => \A v \in Workers : ~Busy(v, Policies)
         /\ kind \in Policies => \A v \in Workers : v # w => worker[v].kind = "none"
         /\ kind \in Outsides => \A v \in Workers : worker'[v].kind \notin Outsides
         /\ kind \in {"group", "target"} =>
              \A v \in Workers : ~(worker'[v].kind = kind /\ worker'[v].on = worker[w].on)
         /\ classifier' = classifier /\ rule' = rule /\ set' = set /\ group' = group
         /\ target' = target /\ external' = external /\ routes' = routes /\ l3' = l3
         /\ JobsApart'
<1>1. worker = [v \in Workers |-> worker[v]] /\ JobsApart
  BY DEF SecurityInv, SecurityTypes
<1>2. /\ worker' = [worker EXCEPT ![w] = Idle] /\ worker[w].kind = kind
      /\ classifier' = classifier /\ rule' = rule /\ set' = set /\ group' = group
      /\ target' = target /\ external' = external /\ routes' = routes /\ l3' = l3
  BY DEF Post, rows
<1>3. /\ worker'[w] = Idle
      /\ \A v \in Workers : v # w => worker'[v] = worker[v]
      /\ worker' = [v \in Workers |-> worker'[v]]
  BY <1>1, <1>2
<1>4. worker'[w].kind = "none"
  BY <1>3 DEF Idle
<1>5. "none" \notin Kinds /\ "none" \notin Policies /\ "none" \notin Outsides
  BY DEF Kinds, Policies, Outsides
<1>6. \A v \in Workers : v # w => (worker[v].kind \in Policies => kind \in {"none"})
  BY <1>1, <1>2 DEF JobsApart, Busy
<1>7. \A v \in Workers : worker'[v].kind \notin Policies
  BY <1>3, <1>4, <1>5, <1>6
<1>8. kind \notin Policies => \A v \in Workers : ~Busy(v, Policies)
  BY <1>2, <1>5, <1>6 DEF Busy
<1>9. kind \in Policies => \A v \in Workers : v # w => worker[v].kind = "none"
  BY <1>1, <1>2 DEF JobsApart, Busy
<1>10. kind \in Outsides => \A v \in Workers : worker'[v].kind \notin Outsides
  BY <1>1, <1>2, <1>3, <1>4, <1>5 DEF JobsApart, Busy
<1>11. kind \in {"group", "target"} =>
              \A v \in Workers : ~(worker'[v].kind = kind /\ worker'[v].on = worker[w].on)
  BY <1>1, <1>2, <1>3, <1>4 DEF JobsApart, Busy
<1>12. JobsApart'
  <2> SUFFICES ASSUME NEW u \in Workers, NEW v \in Workers, u # v
               PROVE  /\ worker'[u].kind \in Policies => worker'[v].kind \in {"none"}
                      /\ ~(worker'[u].kind \in Outsides /\ worker'[v].kind \in Outsides)
                      /\ worker'[u].kind = "group" /\ worker'[v].kind = "group" => worker'[u].on # worker'[v].on
                      /\ worker'[u].kind = "target" /\ worker'[v].kind = "target" => worker'[u].on # worker'[v].on
    BY DEF JobsApart, Busy
  <2>1. CASE u # w /\ v # w
    BY <2>1, <1>1, <1>3 DEF JobsApart, Busy
  <2>2. CASE u = w
    BY <2>2, <1>4, <1>5
  <2>3. CASE v = w
    BY <2>3, <1>4, <1>5
  <2> QED BY <2>1, <2>2, <2>3
<1> QED BY <1>2, <1>3, <1>4, <1>7, <1>8, <1>9, <1>10, <1>11, <1>12

--------------------
(* What a step leaves alone *)

\* A job fits while the rows it wrote stay and no rule set it names goes.
LEMMA JobKept ==
  ASSUME NEW v, JobFits(v),
         worker'[v].kind = worker[v].kind, worker'[v].on = worker[v].on,
         worker'[v].old = worker[v].old, worker'[v].new = worker[v].new,
         Exists(set) \subseteq Exists(set)',
         worker[v].kind = "group" => group'[worker[v].on] = group[worker[v].on],
         worker[v].kind = "target" => target'[worker[v].on] = target[worker[v].on],
         worker[v].kind \in {"external", "l3"} => external' = external,
         worker[v].kind \in {"routes", "l3"} => routes' = routes /\ l3' = l3
  PROVE  JobFits(v)'
<1>1. /\ worker'[v].kind = worker[v].kind /\ worker'[v].on = worker[v].on
      /\ worker'[v].old = worker[v].old /\ worker'[v].new = worker[v].new
  OBVIOUS
<1>2. Busy(v, Policies \cup Outsides \cup {"none", "group", "target"})'
  BY <1>1 DEF JobFits, Busy, Policies, Outsides
<1>3. worker[v].kind = "group" =>
       /\ worker[v].on \in Groups /\ worker[v].old \in Relations /\ worker[v].new \in Relations
       /\ group'[worker[v].on] = worker[v].new
       /\ \A s \in Sides : worker[v].old[s] \subseteq Exists(set)'
  BY DEF JobFits, Busy
<1>4. worker[v].kind = "target" =>
       /\ worker[v].on \in Targets /\ worker[v].new \in Groups \cup {None}
       /\ target'[worker[v].on] = worker[v].new
  BY DEF JobFits, Busy
<1>5. worker[v].kind = "external" =>
       /\ worker[v].old \in Relations /\ worker[v].new \in Relations
       /\ worker[v].new = IF external' = None THEN Nothing ELSE external'
       /\ \A s \in Sides : worker[v].old[s] \subseteq Exists(set)'
  BY DEF JobFits, Busy
<1>6. worker[v].kind = "routes" => worker[v].old \subseteq Routes /\ worker[v].new = routes' /\ l3' # {}
  BY DEF JobFits, Busy
<1>7. worker[v].kind = "l3" => /\ worker[v].on \in L3s
                               /\ worker[v].new = None => external' = None
                               /\ worker[v].new # None => worker[v].on \in l3'
  BY DEF JobFits, Busy
<1> QED BY <1>1, <1>2, <1>3, <1>4, <1>5, <1>6, <1>7 DEF JobFits, Busy, Nothing, Relations, Sides

LEMMA JobDone ==
  ASSUME NEW w, worker'[w].kind = "none" \/ worker'[w].kind \in Policies
  PROVE  JobFits(w)'
BY DEF JobFits, Busy, Policies, Outsides

\* Without a change of policy, the security groups are what the policy says.
LEMMA SgKept ==
  ASSUME \A w \in Workers : worker'[w].kind \notin Policies,
         \A i \in Items : Exact(classifier, rule, i)'
  PROVE  SgInv'
BY DEF SgInv, SgFits, Busy, Policies

LEMMA PolicyKept ==
  ASSUME PolicyInv, classifier' = classifier, rule' = rule, set' = set,
         \A g \in Groups : group'[g] # None => \A s \in Sides : group'[g][s] \subseteq Exists(set),
         external' # None => \A s \in Sides : external'[s] \subseteq Exists(set),
         \A t \in Targets : target'[t] # None => group'[target'[t]] # None
  PROVE  PolicyInv'
<1>1. Exists(set)' = Exists(set)
  BY DEF Exists
<1>2. Distinct(classifier, rule, set)'
  BY <1>1 DEF PolicyInv, Distinct
<1>3. \A p \in Sets : set[p] # None =>
       /\ \A r \in set[p].rules : rule[r] # None
       /\ set[p].parent # None => set[set[p].parent] # None /\ set[set[p].parent].parent = None
  BY DEF PolicyInv
<1> QED BY <1>1, <1>2, <1>3 DEF PolicyInv

--------------------
(* Groups and targets *)

\* Steps about groups and targets leave what is told of the outside.
LEMMA OutsideKept ==
  ASSUME NEW w \in Workers, \A v \in Workers : v # w => worker'[v] = worker[v],
         external' = external, routes' = routes, l3' = l3,
         worker[w].kind \notin Outsides, worker'[w].kind \notin Outsides
  PROVE  /\ \A p, s : ToldOutside(p, s)' <=> ToldOutside(p, s)
         /\ \A b : ToldBlock(b)' <=> ToldBlock(b)
<1>1. \A v \in Workers : /\ worker'[v].kind = "external" <=> worker[v].kind = "external"
                         /\ worker[v].kind = "external" => worker'[v].old = worker[v].old
  BY DEF Outsides
<1>2. \A v \in Workers : /\ worker'[v].kind \in {"routes", "l3"} <=> worker[v].kind \in {"routes", "l3"}
                         /\ worker[v].kind \in {"routes", "l3"} => worker'[v] = worker[v]
  BY DEF Outsides
<1>3. \A p, s : ToldOutside(p, s)' <=> ToldOutside(p, s)
  BY <1>1, FrameOutside
<1>4. \A b : ToldBlock(b)' <=> ToldBlock(b)
  BY <1>2, FrameBlock
<1> QED BY <1>3, <1>4

\* Steps about the outside, and those about targets, leave what is told of groups.
LEMMA GroupsKept ==
  ASSUME NEW w \in Workers, \A v \in Workers : v # w => worker'[v] = worker[v],
         group' = group, worker[w].kind # "group", worker'[w].kind # "group"
  PROVE  \A g, p, s : /\ ToldOf(g, p, s)' <=> ToldOf(g, p, s)
                      /\ Has(g, p, s)' <=> Has(g, p, s)
<1>1. \A g : \A v \in Workers :
           /\ (worker'[v].kind = "group" /\ worker'[v].on = g)
                <=> (worker[v].kind = "group" /\ worker[v].on = g)
           /\ worker[v].kind = "group" /\ worker[v].on = g => worker'[v] = worker[v]
  OBVIOUS
<1>2. \A g, p, s : ToldOf(g, p, s)' <=> ToldOf(g, p, s)
  BY <1>1, FrameOf
<1> QED BY <1>2 DEF Has

\* The request for a group is what the driver knows of it until it is done.
LEMMA GroupCommit ==
  ASSUME SecurityConstants, SecurityInv, Careful, NEW w \in Workers, NEW g \in Groups,
         NEW rel \in Relations, NEW old \in Relations,
         WriteGroup(w, g, rel), Commit(w, "group", g, old, rel),
         \A p, s : s \in Sides => (Has(g, p, s) <=> p \in old[s]),
         \A s \in Sides : old[s] \subseteq Exists(set)
  PROVE  SecurityInv'
<1>1. /\ Free(w, "group", g) /\ "group" \in Kinds
      /\ \A s \in Sides : rel[s] \subseteq Exists(set)
      /\ group' = [group EXCEPT ![g] = rel]
      /\ classifier' = classifier /\ rule' = rule /\ set' = set /\ target' = target
      /\ external' = external /\ routes' = routes /\ l3' = l3
  BY DEF WriteGroup, Kinds
<1>2. /\ worker'[w].kind = "group" /\ worker'[w].on = g /\ worker'[w].old = old /\ worker'[w].new = rel
      /\ worker'[w].stage = "start"
      /\ \A v \in Workers : v # w => worker'[v] = worker[v]
      /\ worker' = [v \in Workers |-> worker'[v]]
      /\ worker[w].kind = "none"
      /\ \A v \in Workers : ~Busy(v, Policies)
      /\ \A v \in Workers : ~(worker[v].kind = "group" /\ worker[v].on = g)
      /\ sg' = sg /\ ports' = ports
      /\ JobsApart'
  BY <1>1, Starts
<1>3. /\ worker'[w].kind = "group" /\ worker'[w].on = g /\ worker'[w].old = old /\ worker'[w].new = rel
      /\ worker'[w].stage = "start"
  BY <1>2
<1>4. /\ SecurityTypes /\ PolicyInv /\ SgInv
      /\ \A v \in Workers : JobFits(v)
  BY DEF SecurityInv
<1>5. /\ group'[g] = rel /\ rel # None
      /\ \A h \in Groups : h # g => group'[h] = group[h]
      /\ group' \in [Groups -> Relations \cup {None}]
  BY <1>1, <1>4 DEF SecurityTypes, SecurityConstants
<1>6. Exists(set)' = Exists(set)
  BY <1>1 DEF Exists
<1>7. SecurityTypes'
  BY <1>1, <1>2, <1>4, <1>5 DEF SecurityTypes
<1>8. PolicyInv'
  BY <1>1, <1>4, <1>5, PolicyKept DEF PolicyInv
<1>9. \A v \in Workers : JobFits(v)'
  <2>1. JobFits(w)'
    BY <1>1, <1>3, <1>5, <1>6 DEF JobFits, Busy
  <2>2. ASSUME NEW v \in Workers, v # w PROVE JobFits(v)'
    <3>1. worker'[v] = worker[v] /\ JobFits(v)
      BY <1>2, <1>4, <2>2
    <3>2. worker[v].kind = "group" => worker[v].on \in Groups /\ worker[v].on # g
      BY <1>2, <3>1 DEF JobFits, Busy
    <3> QED BY <1>1, <1>5, <1>6, <3>1, <3>2, JobKept
  <2> QED BY <2>1, <2>2
<1>10. \A h \in Groups : \A p \in Sets, s \in Sides : ToldOf(h, p, s)' <=> ToldOf(h, p, s)
  <2> TAKE h \in Groups
  <2> TAKE p \in Sets, s \in Sides
  <2>1. CASE h = g
    <3>1. ToldOf(g, p, s) <=> p \in old[s]
      BY <1>2 DEF ToldOf, Busy
    <3>2. ToldOf(g, p, s)' <=> p \in old[s]
      <4>1. \A v \in Workers : worker'[v].kind = "group" /\ worker'[v].on = g <=> v = w
        BY <1>2, <1>3
      <4> QED BY <1>3, <4>1 DEF ToldOf, Busy
    <3> QED BY <2>1, <3>1, <3>2
  <2>2. CASE h # g
    <3>1. group'[h] = group[h]
      BY <1>5, <2>2
    <3>2. \A v \in Workers :
           /\ (worker'[v].kind = "group" /\ worker'[v].on = h)
                <=> (worker[v].kind = "group" /\ worker[v].on = h)
           /\ worker[v].kind = "group" /\ worker[v].on = h => worker'[v] = worker[v]
      BY <1>2, <1>3, <2>2
    <3> QED BY <3>1, <3>2, FrameOf
  <2> QED BY <2>1, <2>2
<1>11. (\A p, s : ToldOutside(p, s)' <=> ToldOutside(p, s)) /\ \A b : ToldBlock(b)' <=> ToldBlock(b)
  BY <1>1, <1>2, <1>3, OutsideKept DEF Outsides
<1>12. \A i \in Items : Told(i)' <=> Told(i)
  BY <1>10, <1>11, ItemIs, FrameTold
<1>13. SgInv'
  <2>1. \A i \in Items : Exact(classifier, rule, i)
    BY <1>2, <1>4 DEF SgInv, NoPolicy
  <2>2. \A i \in Items : Exact(classifier, rule, i)'
    BY <1>1, <1>2, <1>6, <1>12, <2>1 DEF Exact, SaidBy, May
  <2>3. \A v \in Workers : worker'[v].kind \notin Policies
    BY <1>2, <1>3 DEF Busy, Policies
  <2> QED BY <2>2, <2>3, SgKept
<1> QED BY <1>2, <1>7, <1>8, <1>9, <1>13 DEF SecurityInv

LEMMA CreateGroupSafe ==
  ASSUME SecurityConstants, SecurityInv, Careful, NEW w \in Workers, NEW g \in Groups,
         NEW rel \in Relations, CreateGroup(w, g, rel)
  PROVE  SecurityInv'
<1>1. group[g] = None /\ WriteGroup(w, g, rel) /\ Commit(w, "group", g, Nothing, rel)
  BY DEF CreateGroup
<1>2. Nothing \in Relations /\ \A s \in Sides : Nothing[s] = {}
  BY DEF Nothing, Relations, Sides
<1>3. \A p, s : s \in Sides => (Has(g, p, s) <=> p \in Nothing[s])
  BY <1>1, <1>2 DEF Has
<1> QED BY <1>1, <1>2, <1>3, GroupCommit

LEMMA UpdateGroupSafe ==
  ASSUME SecurityConstants, SecurityInv, Careful, NEW w \in Workers, NEW g \in Groups,
         NEW rel \in Relations, UpdateGroup(w, g, rel)
  PROVE  SecurityInv'
<1>1. group[g] # None /\ WriteGroup(w, g, rel) /\ Commit(w, "group", g, group[g], rel)
  BY DEF UpdateGroup
<1>2. group[g] \in Relations /\ \A s \in Sides : group[g][s] \subseteq Exists(set)
  BY <1>1 DEF SecurityInv, SecurityTypes, PolicyInv
<1>3. \A p, s : s \in Sides => (Has(g, p, s) <=> p \in group[g][s])
  BY <1>1 DEF Has
<1>4. PICK old \in Relations : old = group[g]
  BY <1>2
<1> QED BY <1>1, <1>2, <1>3, <1>4, GroupCommit

LEMMA DeleteGroupSafe ==
  ASSUME SecurityConstants, SecurityInv, Careful, NEW w \in Workers, NEW g \in Groups,
         DeleteGroup(w, g)
  PROVE  SecurityInv'
<1>1. /\ Free(w, "group", g) /\ group[g] = Nothing /\ TargetsOf(g) = {}
      /\ group' = [group EXCEPT ![g] = None]
      /\ classifier' = classifier /\ rule' = rule /\ set' = set /\ target' = target
      /\ external' = external /\ routes' = routes /\ l3' = l3
      /\ sg' = sg /\ ports' = ports /\ worker' = worker
  BY DEF DeleteGroup
<1>2. /\ SecurityTypes /\ PolicyInv /\ SgInv /\ JobsApart
      /\ \A v \in Workers : JobFits(v)
  BY DEF SecurityInv
<1>3. /\ group'[g] = None
      /\ \A h \in Groups : h # g => group'[h] = group[h]
      /\ group' \in [Groups -> Relations \cup {None}]
  BY <1>1, <1>2 DEF SecurityTypes
<1>4. /\ \A v \in Workers : ~(worker[v].kind = "group" /\ worker[v].on = g)
      /\ \A v \in Workers : ~Busy(v, Policies)
  BY <1>1 DEF Free, Busy, Policies
<1>5. \A t \in Targets : target[t] # g
  BY <1>1 DEF TargetsOf
<1>6. Exists(set)' = Exists(set)
  BY <1>1 DEF Exists
<1>7. SecurityTypes'
  BY <1>1, <1>2, <1>3 DEF SecurityTypes
<1>8. PolicyInv'
  <2>1. \A t \in Targets : target'[t] # None => group'[target'[t]] # None
    BY <1>1, <1>2, <1>3, <1>5 DEF PolicyInv, SecurityTypes
  <2> QED BY <1>1, <1>2, <1>3, <2>1, PolicyKept DEF PolicyInv
<1>9. \A v \in Workers : JobFits(v)'
  <2> TAKE v \in Workers
  <2>1. worker'[v] = worker[v] /\ JobFits(v)
    BY <1>1, <1>2
  <2>2. worker[v].kind = "group" => worker[v].on \in Groups /\ worker[v].on # g
    BY <1>4, <2>1 DEF JobFits, Busy
  <2> QED BY <1>1, <1>3, <1>6, <2>1, <2>2, JobKept
<1>10. JobsApart'
  BY <1>1, <1>2 DEF JobsApart, Busy
<1>11. \A h \in Groups : \A p \in Sets, s \in Sides :
         (ToldOf(h, p, s)' <=> ToldOf(h, p, s)) /\ (Has(h, p, s)' <=> Has(h, p, s))
  <2> TAKE h \in Groups
  <2> TAKE p \in Sets, s \in Sides
  <2>1. CASE h = g
    <3>1. Nothing[s] = {}
      BY DEF Nothing, Sides
    <3>2. ~Has(g, p, s) /\ ~Has(g, p, s)'
      BY <1>1, <1>3, <3>1 DEF Has
    <3> QED BY <1>1, <1>4, <2>1, <3>2 DEF ToldOf, Busy
  <2>2. CASE h # g
    BY <1>1, <1>3, <2>2, FrameOf DEF Has
  <2> QED BY <2>1, <2>2
<1>12. (\A p, s : ToldOutside(p, s)' <=> ToldOutside(p, s)) /\ \A b : ToldBlock(b)' <=> ToldBlock(b)
  BY <1>1, FrameOutside, FrameBlock
<1>13. \A i \in Items : Told(i)' <=> Told(i)
  BY <1>11, <1>12, ItemIs, FrameTold
<1>14. SgInv'
  <2>1. \A i \in Items : Exact(classifier, rule, i)
    BY <1>4, <1>2 DEF SgInv, NoPolicy
  <2>2. \A i \in Items : Exact(classifier, rule, i)'
    BY <1>1, <1>6, <1>13, <2>1 DEF Exact, SaidBy, May
  <2>3. \A v \in Workers : worker'[v].kind \notin Policies
    BY <1>1, <1>4 DEF Busy
  <2> QED BY <2>2, <2>3, SgKept
<1> QED BY <1>2, <1>7, <1>8, <1>9, <1>10, <1>14 DEF SecurityInv

\* What a step about a target leaves alone.
LEMMA TargetStep ==
  ASSUME SecurityConstants, SecurityInv, NEW w \in Workers, NEW t \in Targets,
         \A v \in Workers : v # w => worker'[v] = worker[v],
         worker' = [v \in Workers |-> worker'[v]],
         \A v \in Workers : v # w => ~(worker[v].kind = "target" /\ worker[v].on = t),
         worker[w].kind = "target" => worker[w].on = t,
         worker'[w].kind = "target" => worker'[w].on = t,
         worker[w].kind \in {"none", "target"}, worker'[w].kind \in {"none", "target"},
         \A v \in Workers : ~Busy(v, Policies),
         classifier' = classifier, rule' = rule, set' = set, group' = group,
         external' = external, routes' = routes, l3' = l3, sg' = sg,
         target' \in [Targets -> Groups \cup {None}], ports' \in [Targets -> SUBSET (Sets \X Sides)],
         \A u \in Targets : u # t => target'[u] = target[u],
         target'[t] # None => group[target'[t]] # None,
         JobsApart', JobFits(w)'
  PROVE  SecurityInv'
<1>1. /\ SecurityTypes /\ PolicyInv /\ SgInv
      /\ \A v \in Workers : JobFits(v)
  BY DEF SecurityInv
<1>2. Exists(set)' = Exists(set)
  BY DEF Exists
<1>3. SecurityTypes'
  BY <1>1 DEF SecurityTypes
<1>4. PolicyInv'
  <2>1. \A u \in Targets : target'[u] # None => group'[target'[u]] # None
    BY <1>1 DEF PolicyInv
  <2> QED BY <1>1, <2>1, PolicyKept DEF PolicyInv
<1>5. \A v \in Workers : JobFits(v)'
  <2> SUFFICES ASSUME NEW v \in Workers, v # w PROVE JobFits(v)'
    OBVIOUS
  <2>1. worker'[v] = worker[v] /\ JobFits(v)
    BY <1>1
  <2>2. worker[v].kind = "target" => worker[v].on \in Targets /\ worker[v].on # t
    BY <2>1 DEF JobFits, Busy
  <2> QED BY <1>2, <2>1, <2>2, JobKept
<1>6. \A g, p, s : (ToldOf(g, p, s)' <=> ToldOf(g, p, s)) /\ (Has(g, p, s)' <=> Has(g, p, s))
  BY GroupsKept
<1>7. (\A p, s : ToldOutside(p, s)' <=> ToldOutside(p, s)) /\ \A b : ToldBlock(b)' <=> ToldBlock(b)
  BY OutsideKept DEF Outsides
<1>8. \A i \in Items : Told(i)' <=> Told(i)
  BY <1>6, <1>7, ItemIs, FrameTold
<1>9. SgInv'
  <2>1. \A i \in Items : Exact(classifier, rule, i)
    BY <1>1 DEF SgInv, NoPolicy
  <2>2. \A i \in Items : Exact(classifier, rule, i)'
    BY <1>2, <1>8, <2>1 DEF Exact, SaidBy, May
  <2>3. \A v \in Workers : worker'[v].kind \notin Policies
    BY DEF Busy, Policies
  <2> QED BY <2>2, <2>3, SgKept
<1> QED BY <1>3, <1>4, <1>5, <1>9 DEF SecurityInv

LEMMA CreateTargetSafe ==
  ASSUME SecurityConstants, SecurityInv, Careful, NEW w \in Workers, NEW t \in Targets,
         NEW g \in Groups, CreateTarget(w, t, g)
  PROVE  SecurityInv'
<1>1. /\ Free(w, "target", t) /\ "target" \in Kinds /\ target[t] = None /\ group[g] # None
      /\ target' = [target EXCEPT ![t] = g]
      /\ Commit(w, "target", t, None, g)
      /\ classifier' = classifier /\ rule' = rule /\ set' = set /\ group' = group
      /\ external' = external /\ routes' = routes /\ l3' = l3
  BY DEF CreateTarget, Kinds
<1>2. /\ worker'[w].kind = "target" /\ worker'[w].on = t /\ worker'[w].new = g
      /\ \A v \in Workers : v # w => worker'[v] = worker[v]
      /\ worker' = [v \in Workers |-> worker'[v]]
      /\ worker[w].kind = "none"
      /\ \A v \in Workers : ~Busy(v, Policies)
      /\ \A v \in Workers : ~(worker[v].kind = "target" /\ worker[v].on = t)
      /\ sg' = sg /\ ports' = ports
      /\ JobsApart'
  BY <1>1, Starts
<1>3. worker'[w].kind = "target" /\ worker'[w].on = t /\ worker'[w].new = g
  BY <1>2
<1>4. SecurityTypes
  BY DEF SecurityInv
<1>5. /\ target' \in [Targets -> Groups \cup {None}] /\ target'[t] = g
      /\ \A u \in Targets : u # t => target'[u] = target[u]
      /\ ports' \in [Targets -> SUBSET (Sets \X Sides)]
  BY <1>1, <1>2, <1>4 DEF SecurityTypes
<1>6. JobFits(w)'
  BY <1>3, <1>5 DEF JobFits, Busy
<1> HIDE DEF Busy
<1> QED BY <1>1, <1>2, <1>3, <1>5, <1>6, TargetStep

LEMMA DeleteTargetSafe ==
  ASSUME SecurityConstants, SecurityInv, Careful, NEW w \in Workers, NEW t \in Targets,
         DeleteTarget(w, t)
  PROVE  SecurityInv'
<1>1. /\ Free(w, "target", t) /\ "target" \in Kinds /\ target[t] # None
      /\ target' = [target EXCEPT ![t] = None]
      /\ Commit(w, "target", t, target[t], None)
      /\ classifier' = classifier /\ rule' = rule /\ set' = set /\ group' = group
      /\ external' = external /\ routes' = routes /\ l3' = l3
  BY DEF DeleteTarget, Kinds
<1>2. PICK old : old = target[t]
  OBVIOUS
<1>3. /\ worker'[w].kind = "target" /\ worker'[w].on = t /\ worker'[w].new = None
      /\ \A v \in Workers : v # w => worker'[v] = worker[v]
      /\ worker' = [v \in Workers |-> worker'[v]]
      /\ worker[w].kind = "none"
      /\ \A v \in Workers : ~Busy(v, Policies)
      /\ \A v \in Workers : ~(worker[v].kind = "target" /\ worker[v].on = t)
      /\ sg' = sg /\ ports' = ports
      /\ JobsApart'
  BY <1>1, <1>2, Starts
<1>5. SecurityTypes
  BY DEF SecurityInv
<1>6. /\ target' \in [Targets -> Groups \cup {None}] /\ target'[t] = None
      /\ \A u \in Targets : u # t => target'[u] = target[u]
      /\ ports' \in [Targets -> SUBSET (Sets \X Sides)]
  BY <1>1, <1>3, <1>5 DEF SecurityTypes
<1>7. JobFits(w)'
  BY <1>3, <1>6 DEF JobFits, Busy
<1> QED BY <1>1, <1>3, <1>6, <1>7, TargetStep

\* What the postcommit method of a target's request ends.
LEMMA TargetPost ==
  ASSUME SecurityConstants, SecurityInv, NEW w \in Workers, Post(w, "target"), sg' = sg,
         ports' \in [Targets -> SUBSET (Sets \X Sides)]
  PROVE  SecurityInv'
<1>1. /\ worker[w].kind = "target" /\ worker'[w].kind = "none"
      /\ \A v \in Workers : v # w => worker'[v] = worker[v]
      /\ worker' = [v \in Workers |-> worker'[v]]
      /\ \A v \in Workers : ~Busy(v, Policies)
      /\ \A v \in Workers : ~(worker'[v].kind = "target" /\ worker'[v].on = worker[w].on)
      /\ classifier' = classifier /\ rule' = rule /\ set' = set /\ group' = group
      /\ target' = target /\ external' = external /\ routes' = routes /\ l3' = l3
      /\ JobsApart'
  <2>1. "target" \in Kinds /\ "target" \notin Policies
    BY DEF Kinds, Policies
  <2> QED BY <2>1, Ends
<1>2. SecurityTypes /\ PolicyInv /\ JobFits(w)
  BY DEF SecurityInv
<1>3. PICK t \in Targets : t = worker[w].on
  BY <1>1, <1>2 DEF JobFits, Busy
<1>4. \A v \in Workers : v # w => ~(worker[v].kind = "target" /\ worker[v].on = t)
  BY <1>1, <1>3
<1>5. target' \in [Targets -> Groups \cup {None}] /\ (target'[t] # None => group[target'[t]] # None)
  BY <1>1, <1>2 DEF SecurityTypes, PolicyInv
<1>6. JobFits(w)'
  BY <1>1, JobDone
<1> QED BY <1>1, <1>3, <1>4, <1>5, <1>6, TargetStep

\* What a relation gains and loses, and the security groups for it.
LEMMA MinusIs ==
  ASSUME NEW new \in Relations, NEW old \in Relations
  PROVE  /\ \A s \in Sides : Minus(new, old)[s] = new[s] \ old[s]
         /\ \A p \in Sets, s \in Sides : <<p, s>> \in SgsOf(Minus(new, old)) <=> p \in new[s] \ old[s]
         /\ \A s \in Sides : new[s] \subseteq Sets
         /\ SgsOf(Minus(new, old)) \subseteq Sets \X Sides
         /\ \A i \in SgsOf(Minus(new, old)) : \E s \in Sides : i[1] \in new[s]
<1>1. \A s \in Sides : new[s] \subseteq Sets /\ old[s] \subseteq Sets
  BY SidesAre
<1>2. \A s \in Sides : Minus(new, old)[s] = new[s] \ old[s]
  BY DEF Minus
<1>4. \A i : i \in SgsOf(Minus(new, old)) <=> \E s \in Sides : i \in (new[s] \ old[s]) \X {s}
  BY <1>2 DEF SgsOf
<1>5. \A p \in Sets, s \in Sides : <<p, s>> \in SgsOf(Minus(new, old)) <=> p \in new[s] \ old[s]
  BY <1>4
<1>6. \A i \in SgsOf(Minus(new, old)) :
        /\ i \in Sets \X Sides
        /\ \E s \in Sides : i[1] \in new[s]
  BY <1>1, <1>4
<1> QED BY <1>1, <1>2, <1>5, <1>6

\* A step of a group's request changes at most the rules for the group's addresses,
\* which are those that the driver is then told of.
LEMMA GroupStep ==
  ASSUME SecurityConstants, SecurityInv, NEW w \in Workers, NEW g \in Groups,
         worker[w].kind = "group", worker[w].on = g,
         \A v \in Workers : v # w => worker'[v] = worker[v],
         worker' = [v \in Workers |-> worker'[v]],
         \/ worker'[w].kind = "none"
         \/ /\ worker'[w].kind = "group" /\ worker'[w].on = g
            /\ worker'[w].old = worker[w].old /\ worker'[w].new = worker[w].new,
         classifier' = classifier, rule' = rule, set' = set, group' = group, target' = target,
         external' = external, routes' = routes, l3' = l3,
         sg' \subseteq Items, ports' \in [Targets -> SUBSET (Sets \X Sides)],
         \A i \in Items : i[5] # {g} => (i \in sg' <=> i \in sg),
         \A i \in Items : i[5] = {g} =>
           (i \in sg' <=> /\ i[1] \in Exists(set) /\ ToldOf(g, i[1], Other(i[2]))'
                          /\ SaidBy(set[i[1]].rules, classifier, rule, i))
  PROVE  SecurityInv'
<1>1. /\ SecurityTypes /\ PolicyInv /\ SgInv /\ JobsApart
      /\ \A v \in Workers : JobFits(v)
  BY DEF SecurityInv
<1>2. \A v \in Workers : /\ ~Busy(v, Policies)
                         /\ v # w => ~(worker[v].kind = "group" /\ worker[v].on = g)
  BY <1>1 DEF JobsApart, Busy, Policies
<1>3. Exists(set)' = Exists(set)
  BY DEF Exists
<1>4. SecurityTypes'
  BY <1>1 DEF SecurityTypes
<1>5. PolicyInv'
  BY <1>1, PolicyKept DEF PolicyInv
<1>6. \A v \in Workers : JobFits(v)'
  BY <1>1, <1>3, JobKept, JobDone
<1>7. JobsApart'
  <2> SUFFICES ASSUME NEW u \in Workers, NEW v \in Workers, u # v
               PROVE  /\ worker'[u].kind \in Policies => worker'[v].kind \in {"none"}
                      /\ ~(worker'[u].kind \in Outsides /\ worker'[v].kind \in Outsides)
                      /\ worker'[u].kind = "group" /\ worker'[v].kind = "group" => worker'[u].on # worker'[v].on
                      /\ worker'[u].kind = "target" /\ worker'[v].kind = "target" => worker'[u].on # worker'[v].on
    BY DEF JobsApart, Busy
  <2>1. \A x \in Workers : worker'[x].kind \notin Policies
    BY <1>2 DEF Busy, Policies
  <2>2. worker'[w].kind \notin Outsides
    BY DEF Outsides
  <2>3. CASE u # w /\ v # w
    BY <2>1, <2>3, <1>1 DEF JobsApart, Busy
  <2>4. CASE u = w \/ v = w
    BY <2>1, <2>2, <2>4, <1>2
  <2> QED BY <2>3, <2>4
<1>8. \A h \in Groups : h # g => \A p, s : ToldOf(h, p, s)' <=> ToldOf(h, p, s)
  <2> SUFFICES ASSUME NEW h \in Groups, h # g, NEW p, NEW s PROVE ToldOf(h, p, s)' <=> ToldOf(h, p, s)
    OBVIOUS
  <2>1. \A v \in Workers :
           /\ (worker'[v].kind = "group" /\ worker'[v].on = h)
                <=> (worker[v].kind = "group" /\ worker[v].on = h)
           /\ worker[v].kind = "group" /\ worker[v].on = h => worker'[v] = worker[v]
    OBVIOUS
  <2> QED BY <2>1, FrameOf
<1>9. (\A p, s : ToldOutside(p, s)' <=> ToldOutside(p, s)) /\ \A b : ToldBlock(b)' <=> ToldBlock(b)
  BY OutsideKept DEF Outsides
<1>10. \A i \in Items : Exact(classifier, rule, i)'
  <2> TAKE i \in Items
  <2>1. i[2] \in Sides /\ Other(i[2]) \in Sides
    BY ItemIs, SidesAre
  <2>2. SaidBy(set[i[1]].rules, classifier, rule, i)' <=> SaidBy(set[i[1]].rules, classifier, rule, i)
    BY DEF SaidBy, May
  <2>3. CASE i[5] = {g}
    <3>1. i[5] \notin Blocks /\ \A h \in Groups : i[5] = {h} <=> h = g
      BY <2>3 DEF SecurityConstants
    <3>2. Told(i)' <=> ToldOf(g, i[1], Other(i[2]))'
      BY <3>1 DEF Told
    <3> QED BY <1>3, <2>2, <2>3, <3>2 DEF Exact
  <2>4. CASE i[5] # {g}
    <3>1. Told(i)' <=> Told(i)
      BY <1>8, <1>9, <2>4 DEF Told
    <3>2. i \in sg <=> i[1] \in Exists(set) /\ Told(i) /\ SaidBy(set[i[1]].rules, classifier, rule, i)
      BY <1>1, <1>2 DEF SgInv, NoPolicy, Exact
    <3> QED BY <1>3, <2>2, <2>4, <3>1, <3>2 DEF Exact
  <2> QED BY <2>3, <2>4
<1>11. SgInv'
  <2>1. \A v \in Workers : worker'[v].kind \notin Policies
    BY <1>2 DEF Busy, Policies
  <2> QED BY <1>10, <2>1, SgKept
<1> QED BY <1>4, <1>5, <1>6, <1>7, <1>11 DEF SecurityInv

\* What the driver knows of a group while it is told of an update.
LEMMA GroupJob ==
  ASSUME SecurityConstants, SecurityInv, NEW w \in Workers, worker[w].kind = "group"
  PROVE  /\ worker[w].on \in Groups
         /\ worker[w].old \in Relations /\ worker[w].new \in Relations
         /\ group[worker[w].on] = worker[w].new /\ group[worker[w].on] # None
         /\ \A s \in Sides : /\ worker[w].old[s] \subseteq Exists(set)
                             /\ worker[w].new[s] \subseteq Exists(set)
         /\ \A v \in Workers : v # w => ~(worker[v].kind = "group" /\ worker[v].on = worker[w].on)
         /\ \A p, s : ToldOf(worker[w].on, p, s)
                        <=> \/ p \in worker[w].old[s]
                            \/ worker[w].stage # "start" /\ p \in worker[w].new[s]
<1>1. /\ JobFits(w) /\ PolicyInv /\ JobsApart
  BY DEF SecurityInv
<1>2. /\ worker[w].on \in Groups
      /\ worker[w].old \in Relations /\ worker[w].new \in Relations
      /\ group[worker[w].on] = worker[w].new /\ group[worker[w].on] # None
      /\ \A s \in Sides : worker[w].old[s] \subseteq Exists(set)
  BY <1>1 DEF JobFits, Busy, SecurityConstants
<1>3. \A s \in Sides : worker[w].new[s] \subseteq Exists(set)
  BY <1>1, <1>2 DEF PolicyInv
<1>4. \A v \in Workers : v # w => ~(worker[v].kind = "group" /\ worker[v].on = worker[w].on)
  BY <1>1 DEF JobsApart, Busy
<1>5. \A v \in Workers : worker[v].kind = "group" /\ worker[v].on = worker[w].on <=> v = w
  BY <1>4
<1>6. \A p, s : ToldOf(worker[w].on, p, s)
                  <=> \/ p \in worker[w].old[s]
                      \/ worker[w].stage # "start" /\ p \in worker[w].new[s]
  BY <1>5 DEF ToldOf, Busy
<1> QED BY <1>2, <1>3, <1>4, <1>6

\* The rules for the group's addresses before a step of its request.
LEMMA GroupRules ==
  ASSUME SecurityConstants, SecurityInv, NEW w \in Workers, worker[w].kind = "group",
         NEW i \in Items
  PROVE  /\ i[5] = {worker[w].on} =>
              (i \in sg <=> /\ i[1] \in Exists(set) /\ ToldOf(worker[w].on, i[1], Other(i[2]))
                            /\ SaidBy(set[i[1]].rules, classifier, rule, i))
         /\ SaidBy(set[i[1]].rules, classifier, rule, i)
              => \E r \in set[i[1]].rules : Says(classifier[rule[r]], i)
<1>1. JobsApart /\ SgInv
  BY DEF SecurityInv
<1>2. \A v \in Workers : ~Busy(v, Policies)
  BY <1>1 DEF JobsApart, Busy, Policies
<1>3. i \in sg <=> i[1] \in Exists(set) /\ Told(i) /\ SaidBy(set[i[1]].rules, classifier, rule, i)
  BY <1>1, <1>2 DEF SgInv, NoPolicy, Exact
<1>4. worker[w].on \in Groups
  BY GroupJob
<1>5. i[5] = {worker[w].on} => i[5] \notin Blocks /\ \A h \in Groups : i[5] = {h} <=> h = worker[w].on
  BY <1>4 DEF SecurityConstants
<1> QED BY <1>3, <1>4, <1>5 DEF Told, SaidBy

\* The rules of what the group got come,
LEMMA SetGroupRulesSafe ==
  ASSUME SecurityConstants, SecurityInv, WorkersWhole, NEW w \in Workers, SetGroupRules(w)
  PROVE  SecurityInv'
<1>1. /\ worker[w].kind = "group" /\ worker[w].stage = "start"
      /\ sg' = sg \cup _set_rules_for_cidrs(Minus(worker[w].new, worker[w].old), {{worker[w].on}})
      /\ classifier' = classifier /\ rule' = rule /\ set' = set /\ group' = group
      /\ target' = target /\ external' = external /\ routes' = routes /\ l3' = l3
      /\ ports' = ports
  BY DEF SetGroupRules, Busy, rows
<1>2. PICK g \in Groups, old \in Relations, new \in Relations :
        /\ g = worker[w].on /\ old = worker[w].old /\ new = worker[w].new
        /\ \A s \in Sides : new[s] \subseteq Exists(set)
  BY <1>1, GroupJob
<1>3. SecurityTypes /\ PolicyInv
  BY DEF SecurityInv
<1>4. /\ worker'[w].kind = "group" /\ worker'[w].on = g /\ worker'[w].old = old /\ worker'[w].new = new
      /\ worker'[w].stage = "associate"
      /\ \A v \in Workers : v # w => worker'[v] = worker[v]
      /\ worker' = [v \in Workers |-> worker'[v]]
  <2>1. worker' = [worker EXCEPT ![w] =
                     _update_sgs_on_ptg(worker[w], "associate", Minus(worker[w].new, worker[w].old))]
    BY DEF SetGroupRules
  <2>2. worker = [v \in Workers |-> worker[v]]
    BY <1>3 DEF SecurityTypes
  <2>3. worker'[w] = _update_sgs_on_ptg(worker[w], "associate", Minus(worker[w].new, worker[w].old))
    BY <2>1, <2>2
  <2> QED BY <2>1, <2>2, <2>3, <1>1, <1>2, SgsTaken DEF WorkersWhole
<1>5. sg' = sg \cup _set_rules_for_cidrs(Minus(new, old), {{g}})
  BY <1>1, <1>2
<1>6. sg' \subseteq Items
  <2>1. \A s \in Sides : Minus(new, old)[s] \subseteq Exists(set)
    BY <1>2, MinusIs
  <2>2. {{g}} \in SUBSET Remotes
    BY DEF Remotes
  <2>3. _set_rules_for_cidrs(Minus(new, old), {{g}}) \subseteq Items
    BY <1>3, <2>1, <2>2, MinusIs, SetTypes
  <2> QED BY <1>3, <1>5, <2>3 DEF SecurityTypes
<1>7. \A p, s : /\ ToldOf(g, p, s) <=> p \in old[s]
                /\ ToldOf(g, p, s)' <=> p \in old[s] \/ p \in new[s]
  <2>1. \A v \in Workers : worker[v].kind = "group" /\ worker[v].on = g <=> v = w
    BY <1>1, <1>2, GroupJob
  <2>2. \A v \in Workers : worker'[v].kind = "group" /\ worker'[v].on = g <=> v = w
    BY <1>4, <2>1
  <2>3. \A p, s : ToldOf(g, p, s) <=> p \in old[s]
    BY <1>1, <1>2, GroupJob
  <2> QED BY <1>4, <2>2, <2>3 DEF ToldOf, Busy
<1>8. ASSUME NEW i \in Items
      PROVE  /\ i \in _set_rules_for_cidrs(Minus(new, old), {{g}})
                  <=> /\ i[1] \in new[Other(i[2])] \ old[Other(i[2])] /\ i[5] = {g}
                      /\ SaidBy(set[i[1]].rules, classifier, rule, i)
             /\ i[5] = {g} => (i \in sg' <=> /\ i[1] \in Exists(set) /\ ToldOf(g, i[1], Other(i[2]))'
                                             /\ SaidBy(set[i[1]].rules, classifier, rule, i))
  <2>1. i[1] \in Sets /\ i[2] \in Sides /\ Other(i[2]) \in Sides
    BY ItemIs, SidesAre
  <2>2. i \in _set_rules_for_cidrs(Minus(new, old), {{g}})
          <=> /\ i[1] \in new[Other(i[2])] \ old[Other(i[2])] /\ i[5] = {g}
              /\ SaidBy(set[i[1]].rules, classifier, rule, i)
    BY <2>1, SetIs, MinusIs
  <2>3. i[5] = {g} => (i \in sg <=> /\ i[1] \in Exists(set) /\ ToldOf(g, i[1], Other(i[2]))
                                    /\ SaidBy(set[i[1]].rules, classifier, rule, i))
    BY <1>1, <1>2, GroupRules
  <2> QED BY <1>2, <1>5, <1>7, <2>1, <2>2, <2>3
<1>9. \A i \in Items : i[5] # {g} => (i \in sg' <=> i \in sg)
  BY <1>5, <1>8
<1>10. ports' \in [Targets -> SUBSET (Sets \X Sides)]
  BY <1>1, <1>3 DEF SecurityTypes
<1> QED BY <1>1, <1>2, <1>4, <1>6, <1>8, <1>9, <1>10, GroupStep

\* and those of what it gave up go.
LEMMA UnsetGroupRulesSafe ==
  ASSUME SecurityConstants, SecurityInv, NEW w \in Workers, UnsetGroupRules(w)
  PROVE  SecurityInv'
<1>1. /\ worker[w].kind = "group" /\ worker[w].stage = "disassociate"
      /\ sg' = sg \ _unset_rules_for_cidrs(Minus(worker[w].old, worker[w].new), {{worker[w].on}})
      /\ classifier' = classifier /\ rule' = rule /\ set' = set /\ group' = group
      /\ target' = target /\ external' = external /\ routes' = routes /\ l3' = l3
      /\ ports' = ports
  BY DEF UnsetGroupRules, Post, Busy, rows
<1>2. PICK g \in Groups, old \in Relations, new \in Relations :
        /\ g = worker[w].on /\ old = worker[w].old /\ new = worker[w].new
        /\ group[g] = new /\ group[g] # None
        /\ \A s \in Sides : old[s] \subseteq Exists(set)
  BY <1>1, GroupJob
<1>3. SecurityTypes /\ PolicyInv
  BY DEF SecurityInv
<1>4. /\ worker'[w].kind = "none"
      /\ \A v \in Workers : v # w => worker'[v] = worker[v]
      /\ worker' = [v \in Workers |-> worker'[v]]
      /\ \A v \in Workers : ~(worker'[v].kind = "group" /\ worker'[v].on = worker[w].on)
  <2>1. Post(w, "group") /\ "group" \in Kinds
    BY DEF UnsetGroupRules, Kinds
  <2> QED BY <2>1, Ends
<1>5. sg' = sg \ _unset_rules_for_cidrs(Minus(old, new), {{g}})
  BY <1>1, <1>2
<1>6. sg' \subseteq Items
  BY <1>3, <1>5 DEF SecurityTypes
<1>7. \A p, s : /\ ToldOf(g, p, s) <=> p \in old[s] \/ p \in new[s]
                /\ ToldOf(g, p, s)' <=> p \in new[s]
  <2>1. \A p, s : ToldOf(g, p, s) <=> p \in old[s] \/ p \in new[s]
    BY <1>1, <1>2, GroupJob
  <2>2. \A p, s : ToldOf(g, p, s)' <=> Has(g, p, s)'
    BY <1>2, <1>4 DEF ToldOf, Busy
  <2>3. \A p, s : Has(g, p, s)' <=> p \in new[s]
    BY <1>1, <1>2 DEF Has
  <2> QED BY <2>1, <2>2, <2>3
<1>8. ASSUME NEW i \in Items
      PROVE  /\ i \in _unset_rules_for_cidrs(Minus(old, new), {{g}})
                  <=> /\ i[1] \in old[Other(i[2])] \ new[Other(i[2])] /\ i[5] = {g}
                      /\ \E r \in set[i[1]].rules : Says(classifier[rule[r]], i)
             /\ i[5] = {g} => (i \in sg' <=> /\ i[1] \in Exists(set) /\ ToldOf(g, i[1], Other(i[2]))'
                                             /\ SaidBy(set[i[1]].rules, classifier, rule, i))
  <2>1. i[1] \in Sets /\ i[2] \in Sides /\ Other(i[2]) \in Sides
    BY ItemIs, SidesAre
  <2>2. i \in _unset_rules_for_cidrs(Minus(old, new), {{g}})
          <=> /\ i[1] \in old[Other(i[2])] \ new[Other(i[2])] /\ i[5] = {g}
              /\ \E r \in set[i[1]].rules : Says(classifier[rule[r]], i)
    BY <2>1, UnsetIs, MinusIs
  <2>3. /\ i[5] = {g} => (i \in sg <=> /\ i[1] \in Exists(set) /\ ToldOf(g, i[1], Other(i[2]))
                                       /\ SaidBy(set[i[1]].rules, classifier, rule, i))
        /\ SaidBy(set[i[1]].rules, classifier, rule, i)
             => \E r \in set[i[1]].rules : Says(classifier[rule[r]], i)
    BY <1>1, <1>2, GroupRules
  <2> QED BY <1>2, <1>5, <1>7, <2>1, <2>2, <2>3
<1>9. \A i \in Items : i[5] # {g} => (i \in sg' <=> i \in sg)
  BY <1>5, <1>8
<1>10. ports' \in [Targets -> SUBSET (Sets \X Sides)]
  BY <1>1, <1>3 DEF SecurityTypes
<1> QED BY <1>1, <1>2, <1>4, <1>6, <1>8, <1>9, <1>10, GroupStep

\* Steps that a group's request takes between the rules.
LEMMA BetweenRules ==
  ASSUME SecurityConstants, SecurityInv, NEW w \in Workers, worker[w].kind = "group",
         \A v \in Workers : v # w => worker'[v] = worker[v],
         worker' = [v \in Workers |-> worker'[v]],
         worker'[w].kind = "group", worker'[w].on = worker[w].on,
         worker'[w].old = worker[w].old, worker'[w].new = worker[w].new,
         worker'[w].stage = "start" <=> worker[w].stage = "start",
         UNCHANGED <<rows, sg>>, ports' \in [Targets -> SUBSET (Sets \X Sides)]
  PROVE  SecurityInv'
<1>1. /\ classifier' = classifier /\ rule' = rule /\ set' = set /\ group' = group
      /\ target' = target /\ external' = external /\ routes' = routes /\ l3' = l3
      /\ sg' = sg
  BY DEF rows
<1>2. PICK g \in Groups : g = worker[w].on
  BY GroupJob
<1>3. \A v \in Workers :
           /\ (worker'[v].kind = "group" /\ worker'[v].on = g)
                <=> (worker[v].kind = "group" /\ worker[v].on = g)
           /\ worker[v].kind = "group" /\ worker[v].on = g =>
                /\ worker'[v].old = worker[v].old /\ worker'[v].new = worker[v].new
                /\ worker'[v].stage = "start" <=> worker[v].stage = "start"
  OBVIOUS
<1>4. \A p, s : ToldOf(g, p, s)' <=> ToldOf(g, p, s)
  BY <1>1, <1>3, FrameOf
<1>5. \A i \in Items : i[5] = {g} =>
           (i \in sg' <=> /\ i[1] \in Exists(set) /\ ToldOf(g, i[1], Other(i[2]))'
                          /\ SaidBy(set[i[1]].rules, classifier, rule, i))
  BY <1>1, <1>2, <1>4, GroupRules
<1>6. sg' \subseteq Items
  BY <1>1 DEF SecurityInv, SecurityTypes
<1> QED BY <1>1, <1>2, <1>5, <1>6, GroupStep

LEMMA LeaveOldSgsSafe ==
  ASSUME SecurityConstants, SecurityInv, WorkersWhole, NEW w \in Workers, LeaveOldSgs(w)
  PROVE  SecurityInv'
<1>1. worker = [v \in Workers |-> worker[v]] /\ ports \in [Targets -> SUBSET (Sets \X Sides)]
  BY DEF SecurityInv, SecurityTypes
<1>2. /\ worker[w].kind = "group" /\ worker[w].stage = "associate"
      /\ worker' = [worker EXCEPT ![w] =
                      _update_sgs_on_ptg(worker[w], "disassociate", Minus(worker[w].old, worker[w].new))]
      /\ UNCHANGED <<rows, sg>> /\ ports' = ports
  BY DEF LeaveOldSgs, Busy
<1>3. worker'[w] = _update_sgs_on_ptg(worker[w], "disassociate", Minus(worker[w].old, worker[w].new))
  BY <1>1, <1>2
<1>4. /\ worker'[w].kind = "group" /\ worker'[w].on = worker[w].on
      /\ worker'[w].old = worker[w].old /\ worker'[w].new = worker[w].new
      /\ worker'[w].stage = "disassociate"
      /\ \A v \in Workers : v # w => worker'[v] = worker[v]
      /\ worker' = [v \in Workers |-> worker'[v]]
  BY <1>1, <1>2, <1>3, SgsTaken DEF WorkersWhole
<1> QED BY <1>1, <1>2, <1>4, BetweenRules

\* Steps that a target's request takes.
LEMMA TargetGoesOn ==
  ASSUME SecurityConstants, SecurityInv, NEW w \in Workers, worker[w].kind = "target",
         \A v \in Workers : v # w => worker'[v] = worker[v],
         worker' = [v \in Workers |-> worker'[v]],
         worker'[w].kind = "target", worker'[w].on = worker[w].on,
         worker'[w].old = worker[w].old, worker'[w].new = worker[w].new,
         UNCHANGED <<rows, sg, ports>>
  PROVE  SecurityInv'
<1>1. /\ classifier' = classifier /\ rule' = rule /\ set' = set /\ group' = group
      /\ target' = target /\ external' = external /\ routes' = routes /\ l3' = l3
      /\ sg' = sg /\ ports' = ports
  BY DEF rows
<1>2. SecurityTypes /\ PolicyInv /\ JobsApart /\ JobFits(w)
  BY DEF SecurityInv
<1>3. PICK t \in Targets : t = worker[w].on
  BY <1>2 DEF JobFits, Busy
<1>4. \A v \in Workers : /\ ~Busy(v, Policies)
                         /\ v # w => ~(worker[v].kind = "target" /\ worker[v].on = t)
  BY <1>2, <1>3 DEF JobsApart, Busy, Policies
<1>5. JobFits(w)'
  <2>1. Exists(set)' = Exists(set)
    BY <1>1 DEF Exists
  <2> QED BY <1>1, <1>2, <2>1, JobKept
<1>6. JobsApart'
  <2>1. \A v \in Workers : worker'[v].kind = worker[v].kind /\ worker'[v].on = worker[v].on
    OBVIOUS
  <2> QED BY <1>2, <2>1 DEF JobsApart, Busy
<1>7. /\ target' \in [Targets -> Groups \cup {None}] /\ (target'[t] # None => group[target'[t]] # None)
      /\ ports' \in [Targets -> SUBSET (Sets \X Sides)]
  BY <1>1, <1>2 DEF SecurityTypes, PolicyInv
<1> QED BY <1>1, <1>3, <1>4, <1>5, <1>6, <1>7, TargetStep

LEMMA ReadGroupSafe ==
  ASSUME SecurityConstants, SecurityInv, WorkersWhole, NEW w \in Workers, ReadGroup(w)
  PROVE  SecurityInv'
<1>1. worker = [v \in Workers |-> worker[v]] /\ Whole(worker[w])
  BY DEF SecurityInv, SecurityTypes, WorkersWhole
<1>2. worker[w].kind = "target" /\ UNCHANGED <<rows, sg, ports>>
  BY DEF ReadGroup, Busy
<1>3. worker' = [worker EXCEPT ![w] = [worker[w] EXCEPT !.stage = "associate", !.todo = {worker[w].on},
                                              !.list = SgsOf(group[worker[w].new])]]
  BY DEF ReadGroup
<1>4. worker'[w] = [worker[w] EXCEPT !.stage = "associate", !.todo = {worker[w].on},
                                     !.list = SgsOf(group[worker[w].new])]
  BY <1>1, <1>3
<1>5. /\ \A v \in Workers : v # w => worker'[v] = worker[v]
      /\ worker' = [v \in Workers |-> worker'[v]]
  BY <1>1, <1>3
<1>6. /\ worker'[w].kind = worker[w].kind /\ worker'[w].on = worker[w].on
      /\ worker'[w].old = worker[w].old /\ worker'[w].new = worker[w].new
  BY <1>1, <1>4 DEF Whole, Parts
<1>7. worker'[w].kind = "target"
  BY <1>2, <1>6
<1> QED BY <1>2, <1>5, <1>6, <1>7, TargetGoesOn

\* The reads and writes of ports.
LEMMA ReadPortSafe ==
  ASSUME SecurityConstants, SecurityInv, PortsInv, WorkersWhole, NEW w \in Workers, NEW t \in Targets, ReadPort(w, t)
  PROVE  SecurityInv'
<1>1. worker = [v \in Workers |-> worker[v]] /\ ports \in [Targets -> SUBSET (Sets \X Sides)]
  BY DEF SecurityInv, SecurityTypes
<1>2. PICK todo, held : worker' = [worker EXCEPT ![w] = [worker[w] EXCEPT !.todo = todo, !.held = held]]
  <2>1. worker' = [worker EXCEPT
       ![w].todo = IF target[t] = None THEN @ \ {t} ELSE @,
       ![w].held = IF target[t] = None THEN None ELSE [target |-> t, sgs |-> ports[t]]]
    BY DEF ReadPort
  <2>2. worker' = [worker EXCEPT ![w] = [worker[w] EXCEPT
                     !.todo = IF target[t] = None THEN worker[w].todo \ {t} ELSE worker[w].todo,
                     !.held = IF target[t] = None THEN None ELSE [target |-> t, sgs |-> ports[t]]]]
    BY <1>1, <2>1
  <2> QED BY <2>2
<1>3. /\ worker'[w] = [worker[w] EXCEPT !.todo = todo, !.held = held]
      /\ \A v \in Workers : v # w => worker'[v] = worker[v]
      /\ worker' = [v \in Workers |-> worker'[v]]
  BY <1>1, <1>2
<1>4. /\ UNCHANGED <<rows, sg, ports>>
      /\ worker'[w].kind = worker[w].kind /\ worker'[w].on = worker[w].on
      /\ worker'[w].old = worker[w].old /\ worker'[w].new = worker[w].new
      /\ worker'[w].stage = worker[w].stage
  <2>1. Whole(worker[w])
    BY DEF WorkersWhole
  <2>2. UNCHANGED <<rows, sg, ports>>
    BY DEF ReadPort
  <2> QED BY <1>3, <2>1, <2>2 DEF Whole, Parts
<1>5. worker[w].kind \in {"group", "target"}
  BY DEF ReadPort, PortsInv, HeldFits, Busy
<1>6. CASE worker[w].kind = "group"
  BY <1>1, <1>3, <1>4, <1>6, BetweenRules
<1>7. CASE worker[w].kind = "target"
  BY <1>3, <1>4, <1>7, TargetGoesOn
<1> QED BY <1>5, <1>6, <1>7

\* What a worker writes to a port.
LEMMA WrittenIs ==
  ASSUME SecurityConstants, SecurityInv, PortsInv, NEW w \in Workers, worker[w].held # None
  PROVE  /\ worker[w].kind \in {"group", "target"}
         /\ worker[w].held \in Ports /\ worker[w].held.target \in worker[w].todo
         /\ worker[w].todo \subseteq Targets
         /\ worker[w].stage # "start"
         /\ worker[w].list \subseteq Sets \X Sides /\ \A i \in worker[w].list : i[1] \in Exists(set)
         /\ Changed(worker[w]) \subseteq Sets \X Sides
         /\ \A i \in Changed(worker[w]) : i[1] \in Exists(set)
<1>1. HeldFits(w) /\ WorkFits(w)
  BY DEF PortsInv
<1>2. /\ worker[w].kind \in {"group", "target"}
      /\ worker[w].held \in Ports /\ worker[w].held.target \in worker[w].todo
      /\ worker[w].todo \subseteq Targets
      /\ \A i \in worker[w].held.sgs : i[1] \in Exists(set)
      /\ worker[w].stage # "start"
  BY <1>1 DEF HeldFits, WorkFits, Busy
<1>3. worker[w].list \subseteq Sets \X Sides /\ \A i \in worker[w].list : i[1] \in Exists(set)
  <2>1. CASE worker[w].kind = "group"
    <3>1. /\ worker[w].old \in Relations /\ worker[w].new \in Relations
          /\ \A s \in Sides : /\ worker[w].old[s] \subseteq Exists(set)
                              /\ worker[w].new[s] \subseteq Exists(set)
      BY <2>1, GroupJob
    <3>2. \/ worker[w].list = SgsOf(Minus(worker[w].new, worker[w].old))
          \/ worker[w].list = SgsOf(Minus(worker[w].old, worker[w].new))
      BY <1>1, <1>2, <2>1 DEF WorkFits, Busy
    <3>3. PICK new \in Relations, old \in Relations :
            /\ worker[w].list = SgsOf(Minus(new, old))
            /\ \A s \in Sides : new[s] \subseteq Exists(set)
      BY <3>1, <3>2
    <3> QED BY <3>3, MinusIs
  <2>2. CASE worker[w].kind = "target"
    <3>1. worker[w].list = SgsOf(group[worker[w].new]) /\ worker[w].new # None
      BY <1>1, <1>2, <2>2 DEF WorkFits, Busy
    <3>2. JobFits(w) /\ SecurityTypes /\ PolicyInv
      BY DEF SecurityInv
    <3>3. worker[w].new \in Groups /\ target[worker[w].on] = worker[w].new /\ worker[w].on \in Targets
      BY <2>2, <3>1, <3>2 DEF JobFits, Busy
    <3>4. /\ group[worker[w].new] \in Relations
          /\ \A s \in Sides : group[worker[w].new][s] \subseteq Exists(set)
      BY <3>1, <3>2, <3>3 DEF PolicyInv, SecurityTypes
    <3>5. \A s \in Sides : group[worker[w].new][s] \subseteq Sets
      BY <3>4, SidesAre
    <3> QED BY <3>1, <3>4, <3>5 DEF SgsOf
  <2> QED BY <1>2, <2>1, <2>2
<1>4. worker[w].held.sgs \subseteq Sets \X Sides
  BY <1>2 DEF Ports
<1> QED BY <1>2, <1>3, <1>4 DEF Changed

LEMMA WritePortSafe ==
  ASSUME SecurityConstants, SecurityInv, PortsInv, WorkersWhole, NEW w \in Workers, WritePort(w)
  PROVE  SecurityInv'
<1> DEFINE t == worker[w].held.target
<1>1. worker = [v \in Workers |-> worker[v]] /\ ports \in [Targets -> SUBSET (Sets \X Sides)]
  BY DEF SecurityInv, SecurityTypes
<1>2. /\ worker[w].held # None /\ UNCHANGED <<rows, sg>>
      /\ ports' = [ports EXCEPT ![t] = IF HasPort(t) THEN Changed(worker[w]) ELSE ports[t]]
      /\ worker' = [worker EXCEPT ![w] = IF worker[w].kind = "target" THEN Idle
                      ELSE [worker[w] EXCEPT !.todo = worker[w].todo \ {t}, !.held = None]]
  BY DEF WritePort
<1>3. /\ worker[w].kind \in {"group", "target"} /\ t \in Targets
      /\ Changed(worker[w]) \subseteq Sets \X Sides
  BY <1>2, WrittenIs
<1>4. ports' \in [Targets -> SUBSET (Sets \X Sides)]
  BY <1>1, <1>2, <1>3
<1>5. CASE worker[w].kind = "group"
  <2>1. worker' = [worker EXCEPT ![w] =
                     [worker[w] EXCEPT !.todo = worker[w].todo \ {t}, !.held = None]]
    BY <1>2, <1>5
  <2>2. /\ worker'[w] = [worker[w] EXCEPT !.todo = worker[w].todo \ {t}, !.held = None]
        /\ \A v \in Workers : v # w => worker'[v] = worker[v]
        /\ worker' = [v \in Workers |-> worker'[v]]
    BY <1>1, <2>1
  <2>3. /\ worker'[w].kind = worker[w].kind /\ worker'[w].on = worker[w].on
        /\ worker'[w].old = worker[w].old /\ worker'[w].new = worker[w].new
        /\ worker'[w].stage = worker[w].stage
    <3>1. Whole(worker[w])
      BY DEF WorkersWhole
    <3> QED BY <2>2, <3>1 DEF Whole, Parts
  <2>4. /\ UNCHANGED <<rows, sg>> /\ worker' = [v \in Workers |-> worker'[v]]
        /\ \A v \in Workers : v # w => worker'[v] = worker[v]
    BY <1>2, <2>2
  <2>5. worker'[w].kind = "group" /\ (worker'[w].stage = "start" <=> worker[w].stage = "start")
    BY <1>5, <2>3
  <2> HIDE DEF t
  <2> QED BY <1>4, <1>5, <2>3, <2>4, <2>5, BetweenRules
<1>6. CASE worker[w].kind = "target"
  <2>1. Post(w, "target") /\ sg' = sg
    BY <1>2, <1>6 DEF Post
  <2> QED BY <1>4, <2>1, TargetPost
<1> QED BY <1>3, <1>5, <1>6

LEMMA DeleteTargetPostSafe ==
  ASSUME SecurityConstants, SecurityInv, NEW w \in Workers, DeleteTargetPost(w)
  PROVE  SecurityInv'
<1>1. /\ Post(w, "target") /\ sg' = sg
      /\ ports' = [ports EXCEPT ![worker[w].on] = IF group[worker[w].old] = None THEN @ ELSE {}]
  BY DEF DeleteTargetPost
<1>2. ports \in [Targets -> SUBSET (Sets \X Sides)]
  BY DEF SecurityInv, SecurityTypes
<1>3. ports' \in [Targets -> SUBSET (Sets \X Sides)]
  BY <1>1, <1>2
<1> QED BY <1>1, <1>3, TargetPost

--------------------
(* What is outside *)

\* What the security groups hold for blocks, when no policy changes.
LEMMA BlockRules ==
  ASSUME SecurityConstants, SecurityInv, \A v \in Workers : ~Busy(v, Policies), NEW i \in Items
  PROVE  /\ i[5] \in Blocks =>
              (i \in sg <=> /\ i[1] \in Exists(set) /\ ToldOutside(i[1], Other(i[2])) /\ ToldBlock(i[5])
                            /\ SaidBy(set[i[1]].rules, classifier, rule, i))
         /\ SaidBy(set[i[1]].rules, classifier, rule, i) => \E r \in set[i[1]].rules : Says(classifier[rule[r]], i)
<1>1. i \in sg <=> i[1] \in Exists(set) /\ Told(i) /\ SaidBy(set[i[1]].rules, classifier, rule, i)
  BY DEF SecurityInv, SgInv, NoPolicy, Exact
<1>2. i[5] \in Blocks => \A g \in Groups : i[5] # {g}
  BY DEF SecurityConstants
<1> QED BY <1>1, <1>2 DEF Told, SaidBy

\* A step about the outside is judged by the rules for blocks.
LEMMA OutsideStep ==
  ASSUME SecurityConstants, SecurityInv, NEW w \in Workers,
         \A v \in Workers : v # w => worker'[v] = worker[v] /\ worker[v].kind \notin Outsides,
         worker' = [v \in Workers |-> worker'[v]],
         worker[w].kind \in Outsides \cup {"none"}, worker'[w].kind \in Outsides \cup {"none"},
         \A v \in Workers : ~Busy(v, Policies),
         classifier' = classifier, rule' = rule, set' = set, group' = group, target' = target,
         ports' = ports, sg' \subseteq Items,
         external' \in Relations \cup {None}, routes' \subseteq Routes, l3' \subseteq L3s,
         external' # None => \A s \in Sides : external'[s] \subseteq Exists(set),
         JobsApart', JobFits(w)',
         \A i \in Items : i[5] \in Blocks =>
           (i \in sg' <=> /\ i[1] \in Exists(set) /\ ToldOutside(i[1], Other(i[2]))' /\ ToldBlock(i[5])'
                          /\ SaidBy(set[i[1]].rules, classifier, rule, i)),
         \A i \in Items : i[5] \notin Blocks => (i \in sg' <=> i \in sg)
  PROVE  SecurityInv'
<1>1. /\ SecurityTypes /\ PolicyInv /\ SgInv
      /\ \A v \in Workers : JobFits(v)
  BY DEF SecurityInv
<1>2. Exists(set)' = Exists(set)
  BY DEF Exists
<1>3. SecurityTypes'
  BY <1>1 DEF SecurityTypes
<1>4. PolicyInv'
  BY <1>1, PolicyKept DEF PolicyInv
<1>5. \A v \in Workers : JobFits(v)'
  BY <1>1, <1>2, JobKept DEF Outsides
<1>6. \A g, p, s : (ToldOf(g, p, s)' <=> ToldOf(g, p, s)) /\ (Has(g, p, s)' <=> Has(g, p, s))
  BY GroupsKept DEF Outsides
<1>7. \A i \in Items : Exact(classifier, rule, i)'
  <2> TAKE i \in Items
  <2>1. SaidBy(set[i[1]].rules, classifier, rule, i)' <=> SaidBy(set[i[1]].rules, classifier, rule, i)
    BY DEF SaidBy, May
  <2>2. CASE i[5] \in Blocks
    <3>1. \A g \in Groups : i[5] # {g}
      BY <2>2 DEF SecurityConstants
    <3>2. Told(i)' <=> ToldOutside(i[1], Other(i[2]))' /\ ToldBlock(i[5])'
      BY <2>2, <3>1 DEF Told
    <3> QED BY <1>2, <2>1, <2>2, <3>2 DEF Exact
  <2>3. CASE i[5] \notin Blocks
    <3>1. Told(i)' <=> Told(i)
      BY <1>6, <2>3 DEF Told
    <3>2. i \in sg <=> i[1] \in Exists(set) /\ Told(i) /\ SaidBy(set[i[1]].rules, classifier, rule, i)
      BY <1>1 DEF SgInv, NoPolicy, Exact
    <3> QED BY <1>2, <2>1, <2>3, <3>1, <3>2 DEF Exact
  <2> QED BY <2>2, <2>3
<1>8. SgInv'
  <2>1. \A v \in Workers : worker'[v].kind \notin Policies
    BY DEF Busy, Policies, Outsides
  <2> QED BY <1>7, <2>1, SgKept
<1> QED BY <1>3, <1>4, <1>5, <1>8 DEF SecurityInv

\* A request about the outside begins: the driver is told of nothing yet.
LEMMA OutsideCommit ==
  ASSUME SecurityConstants, SecurityInv, Careful, NEW w \in Workers, NEW kind \in Outsides,
         NEW k, NEW old, NEW new, Free(w, kind, k), Commit(w, kind, k, old, new),
         classifier' = classifier, rule' = rule, set' = set, group' = group, target' = target,
         external' \in Relations \cup {None}, routes' \subseteq Routes, l3' \subseteq L3s,
         external' # None => \A s \in Sides : external'[s] \subseteq Exists(set),
         JobFits(w)',
         \A p, s, b : s \in Sides => ((ToldOutside(p, s)' /\ ToldBlock(b)') <=> ToldOutside(p, s) /\ ToldBlock(b))
  PROVE  SecurityInv'
<1>1. kind \in Kinds
  BY DEF Kinds
<1>2. /\ worker'[w].kind = kind /\ worker'[w].on = k /\ worker'[w].old = old /\ worker'[w].new = new
      /\ \A v \in Workers : v # w => worker'[v] = worker[v]
      /\ worker' = [v \in Workers |-> worker'[v]]
      /\ worker[w].kind = "none"
      /\ \A v \in Workers : ~Busy(v, Policies)
      /\ \A v \in Workers : ~Busy(v, Outsides)
      /\ sg' = sg /\ ports' = ports
      /\ JobsApart'
  BY <1>1, Starts
<1>3. /\ \A v \in Workers : v # w => worker'[v] = worker[v] /\ worker[v].kind \notin Outsides
      /\ worker[w].kind \in Outsides \cup {"none"} /\ worker'[w].kind \in Outsides \cup {"none"}
  BY <1>2 DEF Busy
<1>4. sg' \subseteq Items
  BY <1>2 DEF SecurityInv, SecurityTypes
<1>5. ASSUME NEW i \in Items, i[5] \in Blocks
      PROVE  i \in sg' <=> /\ i[1] \in Exists(set) /\ ToldOutside(i[1], Other(i[2]))' /\ ToldBlock(i[5])'
                           /\ SaidBy(set[i[1]].rules, classifier, rule, i)
  <2>1. Other(i[2]) \in Sides
    BY ItemIs, SidesAre
  <2>2. (ToldOutside(i[1], Other(i[2]))' /\ ToldBlock(i[5])') <=> ToldOutside(i[1], Other(i[2])) /\ ToldBlock(i[5])
    BY <2>1
  <2> QED BY <1>2, <1>5, <2>2, BlockRules
<1> QED BY <1>2, <1>3, <1>4, <1>5, OutsideStep

\* What is told when one worker alone changes the external policy.
LEMMA ToldExternal ==
  ASSUME NEW w \in Workers, worker[w].kind = "external",
         \A v \in Workers : v # w => worker[v].kind \notin Outsides
  PROVE  /\ \A p, s : ToldOutside(p, s) <=> p \in worker[w].old[s]
         /\ \A b : ToldBlock(b) <=> b \in _process_external_cidrs(routes, l3)
<1>1. \A v \in Workers : Busy(v, {"external"}) <=> v = w
  BY DEF Busy, Outsides
<1>2. \A v \in Workers : ~Busy(v, {"routes"}) /\ ~Busy(v, {"l3"})
  BY DEF Busy, Outsides
<1> QED BY <1>1, <1>2 DEF ToldOutside, ToldBlock

\* While routes change, the driver knows the old ones;
LEMMA ToldRoutes ==
  ASSUME NEW w \in Workers, worker[w].kind = "routes",
         \A v \in Workers : v # w => worker[v].kind \notin Outsides
  PROVE  /\ \A p, s : ToldOutside(p, s) <=> external # None /\ p \in external[s]
         /\ \A b : ToldBlock(b) <=> b \in _process_external_cidrs(worker[w].old, l3)
<1>1. \A v \in Workers : Busy(v, {"routes"}) <=> v = w
  BY DEF Busy, Outsides
<1>2. \A v \in Workers : ~Busy(v, {"external"})
  BY DEF Busy, Outsides
<1> QED BY <1>1, <1>2 DEF ToldOutside, ToldBlock

\* while a pool comes, the addresses outside the others.
LEMMA ToldL3 ==
  ASSUME NEW w \in Workers, worker[w].kind = "l3", worker[w].new # None,
         \A v \in Workers : v # w => worker[v].kind \notin Outsides
  PROVE  /\ \A p, s : ToldOutside(p, s) <=> external # None /\ p \in external[s]
         /\ \A b : ToldBlock(b) <=> b \in _process_external_cidrs(routes, l3 \ {worker[w].on})
<1>1. \A v \in Workers : Busy(v, {"l3"}) <=> v = w
  BY DEF Busy, Outsides
<1>2. \A v \in Workers : ~Busy(v, {"external"}) /\ ~Busy(v, {"routes"})
  BY DEF Busy, Outsides
<1> QED BY <1>1, <1>2 DEF ToldOutside, ToldBlock

\* With nobody at work outside, all that is outside is told.
LEMMA OutsideTold ==
  ASSUME \A v \in Workers : worker[v].kind \notin Outsides
  PROVE  /\ \A p, s : ToldOutside(p, s) <=> external # None /\ p \in external[s]
         /\ \A b : ToldBlock(b) <=> b \in _process_external_cidrs(routes, l3)
<1>1. \A v \in Workers : ~Busy(v, {"external"}) /\ ~Busy(v, {"routes"}) /\ ~Busy(v, {"l3"})
  BY DEF Busy, Outsides
<1> QED BY <1>1 DEF ToldOutside, ToldBlock

\* The old external policy is what the driver knows until the request is done.
LEMMA ExternalCommit ==
  ASSUME SecurityConstants, SecurityInv, Careful, NEW w \in Workers,
         NEW old \in Relations, NEW new \in Relations,
         Free(w, "external", None), Commit(w, "external", None, old, new),
         classifier' = classifier, rule' = rule, set' = set, group' = group, target' = target,
         routes' = routes, l3' = l3,
         external' \in Relations \cup {None}, new = (IF external' = None THEN Nothing ELSE external'),
         external' # None => \A s \in Sides : external'[s] \subseteq Exists(set),
         \A s \in Sides : old[s] \subseteq Exists(set),
         \A p, s : s \in Sides => (external # None /\ p \in external[s] <=> p \in old[s])
  PROVE  SecurityInv'
<1>1. "external" \in Kinds /\ "external" \in Outsides
  BY DEF Kinds, Outsides
<1>2. /\ worker'[w].kind = "external" /\ worker'[w].on = None /\ worker'[w].old = old /\ worker'[w].new = new
      /\ \A v \in Workers : v # w => worker'[v] = worker[v]
      /\ worker[w].kind = "none"
      /\ \A v \in Workers : ~Busy(v, Outsides)
  BY <1>1, Starts
<1>3. worker'[w].kind = "external" /\ worker'[w].old = old /\ worker'[w].new = new
  BY <1>2
<1>4. \A v \in Workers : worker[v].kind \notin Outsides
  BY <1>2 DEF Busy
<1>5. Exists(set)' = Exists(set)
  BY DEF Exists
<1>6. JobFits(w)'
  BY <1>3, <1>5 DEF JobFits, Busy, Outsides, Nothing
<1>7. \A p, s : ToldOutside(p, s)' <=> p \in old[s]
  <2>1. \A v \in Workers : worker'[v].kind = "external" <=> v = w
    BY <1>2, <1>3, <1>4 DEF Outsides
  <2> QED BY <1>3, <2>1 DEF ToldOutside, Busy
<1>8. \A b : ToldBlock(b)' <=> ToldBlock(b)
  <2>1. \A v \in Workers :
           /\ worker'[v].kind \in {"routes", "l3"} <=> worker[v].kind \in {"routes", "l3"}
           /\ worker[v].kind \in {"routes", "l3"} => worker'[v] = worker[v]
    BY <1>2, <1>3
  <2> QED BY <2>1, FrameBlock
<1>9. routes' \subseteq Routes /\ l3' \subseteq L3s
  BY DEF SecurityInv, SecurityTypes
<1>10. \A p, s, b : s \in Sides => ((ToldOutside(p, s)' /\ ToldBlock(b)') <=> ToldOutside(p, s) /\ ToldBlock(b))
  BY <1>4, <1>7, <1>8, OutsideTold
<1> QED BY <1>1, <1>6, <1>9, <1>10, OutsideCommit

LEMMA NothingIs == Nothing \in Relations /\ \A s \in Sides : Nothing[s] = {}
BY DEF Nothing, Relations, Sides

LEMMA CreateExternalPolicySafe ==
  ASSUME SecurityConstants, SecurityInv, Careful, NEW w \in Workers, NEW rel \in Relations,
         CreateExternalPolicy(w, rel)
  PROVE  SecurityInv'
<1>1. /\ external = None /\ Free(w, "external", None) /\ Commit(w, "external", None, Nothing, rel)
      /\ \A s \in Sides : rel[s] \subseteq Exists(set)
      /\ external' = rel
      /\ classifier' = classifier /\ rule' = rule /\ set' = set /\ group' = group /\ target' = target
      /\ routes' = routes /\ l3' = l3
  BY DEF CreateExternalPolicy, WriteExternal
<1>2. rel # None
  BY DEF SecurityConstants
<1> QED BY <1>1, <1>2, NothingIs, ExternalCommit

LEMMA UpdateExternalPolicySafe ==
  ASSUME SecurityConstants, SecurityInv, Careful, NEW w \in Workers, NEW rel \in Relations,
         UpdateExternalPolicy(w, rel)
  PROVE  SecurityInv'
<1>1. /\ external # None /\ Free(w, "external", None) /\ Commit(w, "external", None, external, rel)
      /\ \A s \in Sides : rel[s] \subseteq Exists(set)
      /\ external' = rel
      /\ classifier' = classifier /\ rule' = rule /\ set' = set /\ group' = group /\ target' = target
      /\ routes' = routes /\ l3' = l3
  BY DEF UpdateExternalPolicy, WriteExternal
<1>2. rel # None
  BY DEF SecurityConstants
<1>3. PICK old \in Relations : old = external
  BY <1>1 DEF SecurityInv, SecurityTypes
<1>4. \A s \in Sides : external[s] \subseteq Exists(set)
  BY <1>1 DEF SecurityInv, PolicyInv
<1> QED BY <1>1, <1>2, <1>3, <1>4, ExternalCommit

LEMMA DeleteExternalPolicySafe ==
  ASSUME SecurityConstants, SecurityInv, Careful, NEW w \in Workers, DeleteExternalPolicy(w)
  PROVE  SecurityInv'
<1>1. /\ external # None /\ Free(w, "external", None) /\ Commit(w, "external", None, external, Nothing)
      /\ external' = None
      /\ classifier' = classifier /\ rule' = rule /\ set' = set /\ group' = group /\ target' = target
      /\ routes' = routes /\ l3' = l3
  BY DEF DeleteExternalPolicy
<1>2. PICK old \in Relations : old = external
  BY <1>1 DEF SecurityInv, SecurityTypes
<1>3. \A s \in Sides : external[s] \subseteq Exists(set)
  BY <1>1 DEF SecurityInv, PolicyInv
<1> QED BY <1>1, <1>2, <1>3, NothingIs, ExternalCommit

\* What the end of a request about the outside has in common.
LEMMA OutsidePost ==
  ASSUME SecurityConstants, SecurityInv, NEW w \in Workers, NEW kind \in Outsides, Post(w, kind),
         ports' = ports, sg' \subseteq Items,
         \A i \in Items : i[5] \in Blocks =>
           (i \in sg' <=> /\ i[1] \in Exists(set) /\ external # None /\ i[1] \in external[Other(i[2])]
                          /\ i[5] \in _process_external_cidrs(routes, l3)
                          /\ SaidBy(set[i[1]].rules, classifier, rule, i)),
         \A i \in Items : i[5] \notin Blocks => (i \in sg' <=> i \in sg)
  PROVE  SecurityInv'
<1>1. kind \in Kinds /\ kind \notin Policies /\ kind # "none"
  BY DEF Kinds, Policies, Outsides
<1>2. /\ worker[w].kind = kind /\ worker'[w].kind = "none"
      /\ \A v \in Workers : v # w => worker'[v] = worker[v]
      /\ worker' = [v \in Workers |-> worker'[v]]
      /\ \A v \in Workers : ~Busy(v, Policies)
      /\ \A v \in Workers : worker'[v].kind \notin Outsides
      /\ classifier' = classifier /\ rule' = rule /\ set' = set /\ group' = group
      /\ target' = target /\ external' = external /\ routes' = routes /\ l3' = l3
      /\ JobsApart'
  BY <1>1, Ends
<1>3. SecurityTypes /\ PolicyInv
  BY DEF SecurityInv
<1>4. (\A p, s : ToldOutside(p, s)' <=> external # None /\ p \in external[s])
      /\ \A b : ToldBlock(b)' <=> b \in _process_external_cidrs(routes, l3)
  <2>1. \A v \in Workers : worker'[v].kind \notin {"external", "routes", "l3"}
    BY <1>2 DEF Outsides
  <2>2. \A p, s : ToldOutside(p, s)' <=> external # None /\ p \in external[s]
    BY <1>2, <2>1 DEF ToldOutside, Busy
  <2>3. \A b : ToldBlock(b)' <=> (b \in _process_external_cidrs(routes, l3))'
    BY <2>1 DEF ToldBlock, Busy
  <2>4. _process_external_cidrs(routes, l3)' = _process_external_cidrs(routes, l3)
    BY <1>2 DEF _process_external_cidrs, Cidrs, Pools
  <2> QED BY <2>2, <2>3, <2>4
<1>5. \A i \in Items : i[5] \in Blocks =>
           (i \in sg' <=> /\ i[1] \in Exists(set) /\ ToldOutside(i[1], Other(i[2]))' /\ ToldBlock(i[5])'
                          /\ SaidBy(set[i[1]].rules, classifier, rule, i))
  BY <1>4
<1>6. external' \in Relations \cup {None} /\ routes' \subseteq Routes /\ l3' \subseteq L3s
      /\ (external' # None => \A s \in Sides : external'[s] \subseteq Exists(set))
  BY <1>2, <1>3 DEF SecurityTypes, PolicyInv
<1>7. JobFits(w)'
  BY <1>2, JobDone
<1>8. /\ \A v \in Workers : v # w => worker'[v] = worker[v] /\ worker[v].kind \notin Outsides
      /\ worker[w].kind \in Outsides \cup {"none"} /\ worker'[w].kind \in Outsides \cup {"none"}
  BY <1>2
<1> QED BY <1>2, <1>5, <1>6, <1>7, <1>8, OutsideStep

LEMMA ExternalPolicyPostSafe ==
  ASSUME SecurityConstants, SecurityInv, Careful, NEW w \in Workers, ExternalPolicyPost(w)
  PROVE  SecurityInv'
<1> DEFINE cidrs == _process_external_cidrs(routes, l3)
<1>1. /\ Post(w, "external") /\ ports' = ports
      /\ sg' = (sg \ _unset_rules_for_cidrs(Minus(worker[w].old, worker[w].new), cidrs))
                \cup _set_rules_for_cidrs(Minus(worker[w].new, worker[w].old), cidrs)
  BY DEF ExternalPolicyPost
<1>2. SecurityTypes /\ PolicyInv /\ JobFits(w)
  BY DEF SecurityInv
<1>3. "external" \in Outsides /\ "external" \in Kinds /\ "external" \notin Policies
  BY DEF Outsides, Kinds, Policies
<1>4. /\ worker[w].kind = "external" /\ worker'[w].kind = "none"
      /\ \A v \in Workers : v # w => worker'[v] = worker[v]
      /\ \A v \in Workers : ~Busy(v, Policies)
      /\ \A v \in Workers : worker'[v].kind \notin Outsides
  BY <1>1, <1>3, Ends
<1>5. PICK old \in Relations, new \in Relations :
        /\ old = worker[w].old /\ new = worker[w].new
        /\ new = IF external = None THEN Nothing ELSE external
        /\ \A s \in Sides : old[s] \subseteq Exists(set)
  BY <1>2, <1>4 DEF JobFits, Busy
<1>6. \A p, s : s \in Sides => (external # None /\ p \in external[s] <=> p \in new[s])
  BY <1>5, NothingIs
<1>7. \A s \in Sides : new[s] \subseteq Exists(set)
  BY <1>2, <1>5, NothingIs DEF PolicyInv
<1>8. cidrs \subseteq Blocks /\ cidrs \in SUBSET Remotes
  BY <1>2, CidrsAreRemotes DEF _process_external_cidrs
<1>9. /\ \A p, s : ToldOutside(p, s) <=> p \in old[s]
      /\ \A b : ToldBlock(b) <=> b \in cidrs
  BY <1>4, <1>5, ToldExternal
<1> HIDE DEF cidrs
<1>10. sg' = (sg \ _unset_rules_for_cidrs(Minus(old, new), cidrs)) \cup _set_rules_for_cidrs(Minus(new, old), cidrs)
  BY <1>1, <1>5
<1>11. sg' \subseteq Items
  <2>1. \A s \in Sides : Minus(new, old)[s] \subseteq Exists(set)
    BY <1>7, MinusIs
  <2>2. _set_rules_for_cidrs(Minus(new, old), cidrs) \subseteq Items
    BY <1>2, <1>8, <2>1, SetTypes
  <2> QED BY <1>2, <1>10, <2>2 DEF SecurityTypes
<1>12. ASSUME NEW i \in Items
       PROVE  /\ i \in sg' <=> \/ i \in sg /\ ~(/\ i[1] \in old[Other(i[2])] \ new[Other(i[2])] /\ i[5] \in cidrs
                                               /\ \E r \in set[i[1]].rules : Says(classifier[rule[r]], i))
                               \/ /\ i[1] \in new[Other(i[2])] \ old[Other(i[2])] /\ i[5] \in cidrs
                                  /\ SaidBy(set[i[1]].rules, classifier, rule, i)
              /\ Other(i[2]) \in Sides
  <2>1. Other(i[2]) \in Sides
    BY ItemIs, SidesAre
  <2>2. i \in _set_rules_for_cidrs(Minus(new, old), cidrs)
          <=> /\ i[1] \in new[Other(i[2])] \ old[Other(i[2])] /\ i[5] \in cidrs
              /\ SaidBy(set[i[1]].rules, classifier, rule, i)
    BY <2>1, SetIs, MinusIs
  <2>3. i \in _unset_rules_for_cidrs(Minus(old, new), cidrs)
          <=> /\ i[1] \in old[Other(i[2])] \ new[Other(i[2])] /\ i[5] \in cidrs
              /\ \E r \in set[i[1]].rules : Says(classifier[rule[r]], i)
    BY <2>1, UnsetIs, MinusIs
  <2> QED BY <1>10, <2>1, <2>2, <2>3
<1>13. ASSUME NEW i \in Items, i[5] \in Blocks
       PROVE  i \in sg' <=> /\ i[1] \in Exists(set) /\ external # None /\ i[1] \in external[Other(i[2])]
                            /\ i[5] \in cidrs /\ SaidBy(set[i[1]].rules, classifier, rule, i)
  <2>1. /\ i \in sg <=> i[1] \in Exists(set) /\ i[1] \in old[Other(i[2])] /\ i[5] \in cidrs
                          /\ SaidBy(set[i[1]].rules, classifier, rule, i)
        /\ SaidBy(set[i[1]].rules, classifier, rule, i) => \E r \in set[i[1]].rules : Says(classifier[rule[r]], i)
    BY <1>4, <1>9, <1>13, BlockRules
  <2>2. i[1] \in new[Other(i[2])] => i[1] \in Exists(set)
    BY <1>7, <1>12
  <2>3. i \in sg' <=> i[1] \in Exists(set) /\ i[1] \in new[Other(i[2])] /\ i[5] \in cidrs
                        /\ SaidBy(set[i[1]].rules, classifier, rule, i)
    BY <1>12, <2>1, <2>2
  <2> QED BY <1>6, <1>12, <2>3
<1>14. \A i \in Items : i[5] \notin Blocks => (i \in sg' <=> i \in sg)
  BY <1>8, <1>12
<1> QED BY <1>1, <1>3, <1>11, <1>13, <1>14, OutsidePost DEF cidrs

\* The rules for the addresses told of give way to those for what is outside.
LEMMA RefreshPost ==
  ASSUME SecurityConstants, SecurityInv, NEW w \in Workers, NEW kind \in Outsides, Post(w, kind),
         ports' = ports, NEW old \in SUBSET Blocks,
         \A p, s : ToldOutside(p, s) <=> external # None /\ p \in external[s],
         external # None => \A b : ToldBlock(b) <=> b \in old,
         sg' = IF external = None THEN sg
               ELSE (sg \ _unset_rules_for_cidrs(external, old))
                      \cup _set_rules_for_cidrs(external, _process_external_cidrs(routes, l3))
  PROVE  SecurityInv'
<1> DEFINE cidrs == _process_external_cidrs(routes, l3)
<1>1. SecurityTypes /\ PolicyInv
  BY DEF SecurityInv
<1>2. cidrs \subseteq Blocks /\ cidrs \in SUBSET Remotes
  BY <1>1, CidrsAreRemotes DEF _process_external_cidrs
<1>3. \A v \in Workers : ~Busy(v, Policies)
  <2>1. kind \in Kinds /\ kind \notin Policies
    BY DEF Kinds, Policies, Outsides
  <2> QED BY <2>1, Ends
<1> HIDE DEF cidrs
<1>4. CASE external = None
  <2>1. sg' = sg /\ sg' \subseteq Items
    BY <1>1, <1>4 DEF SecurityTypes
  <2>2. ASSUME NEW i \in Items, i[5] \in Blocks PROVE i \notin sg
    BY <1>3, <1>4, <2>2, BlockRules
  <2> QED BY <1>4, <2>1, <2>2, OutsidePost
<1>5. CASE external # None
  <2>1. PICK rel : rel = external
    OBVIOUS
  <2>2. \A s \in Sides : rel[s] \subseteq Exists(set)
    BY <1>1, <1>5, <2>1 DEF PolicyInv
  <2>3. sg' = (sg \ _unset_rules_for_cidrs(rel, old)) \cup _set_rules_for_cidrs(rel, cidrs)
    BY <1>5, <2>1 DEF cidrs
  <2>4. sg' \subseteq Items
    BY <1>1, <1>2, <2>2, <2>3, SetTypes DEF SecurityTypes
  <2>5. ASSUME NEW i \in Items
        PROVE  /\ i \in sg' <=> \/ i \in sg /\ ~(/\ i[1] \in rel[Other(i[2])] /\ i[5] \in old
                                                 /\ \E r \in set[i[1]].rules : Says(classifier[rule[r]], i))
                                \/ /\ i[1] \in rel[Other(i[2])] /\ i[5] \in cidrs
                                   /\ SaidBy(set[i[1]].rules, classifier, rule, i)
               /\ Other(i[2]) \in Sides
    <3>1. Other(i[2]) \in Sides
      BY ItemIs, SidesAre
    <3>2. i \in _set_rules_for_cidrs(rel, cidrs)
            <=> /\ i[1] \in rel[Other(i[2])] /\ i[5] \in cidrs
                /\ SaidBy(set[i[1]].rules, classifier, rule, i)
      BY SetIs
    <3>3. i \in _unset_rules_for_cidrs(rel, old)
            <=> /\ i[1] \in rel[Other(i[2])] /\ i[5] \in old
                /\ \E r \in set[i[1]].rules : Says(classifier[rule[r]], i)
      BY UnsetIs
    <3> QED BY <2>3, <3>1, <3>2, <3>3
  <2>6. ASSUME NEW i \in Items, i[5] \in Blocks
        PROVE  i \in sg' <=> /\ i[1] \in Exists(set) /\ external # None /\ i[1] \in external[Other(i[2])]
                             /\ i[5] \in cidrs /\ SaidBy(set[i[1]].rules, classifier, rule, i)
    <3>1. /\ i \in sg <=> i[1] \in Exists(set) /\ i[1] \in rel[Other(i[2])] /\ i[5] \in old
                            /\ SaidBy(set[i[1]].rules, classifier, rule, i)
          /\ SaidBy(set[i[1]].rules, classifier, rule, i) => \E r \in set[i[1]].rules : Says(classifier[rule[r]], i)
      BY <1>3, <1>5, <2>1, <2>6, BlockRules
    <3>2. i[1] \in rel[Other(i[2])] => i[1] \in Exists(set)
      BY <2>2, <2>5
    <3> QED BY <1>5, <2>1, <2>5, <3>1, <3>2
  <2>7. \A i \in Items : i[5] \notin Blocks => (i \in sg' <=> i \in sg)
    BY <1>2, <2>5
  <2> QED BY <2>4, <2>6, <2>7, OutsidePost DEF cidrs
<1> QED BY <1>4, <1>5

LEMMA UpdateExternalSegmentSafe ==
  ASSUME SecurityConstants, SecurityInv, Careful, NEW w \in Workers, NEW to \in SUBSET Routes,
         UpdateExternalSegment(w, to)
  PROVE  SecurityInv'
<1>1. /\ Free(w, "routes", None) /\ l3 # {} /\ routes' = to
      /\ Commit(w, "routes", None, routes, to)
      /\ classifier' = classifier /\ rule' = rule /\ set' = set /\ group' = group /\ target' = target
      /\ external' = external /\ l3' = l3
  BY DEF UpdateExternalSegment
<1>2. SecurityTypes /\ PolicyInv
  BY DEF SecurityInv
<1>3. PICK old \in SUBSET Routes : old = routes
  BY <1>2 DEF SecurityTypes
<1>4. Commit(w, "routes", None, old, to)
  BY <1>1, <1>3
<1>5. "routes" \in Kinds /\ "routes" \in Outsides
  BY DEF Kinds, Outsides
<1>6. /\ worker'[w].kind = "routes" /\ worker'[w].on = None /\ worker'[w].old = old /\ worker'[w].new = to
      /\ \A v \in Workers : v # w => worker'[v] = worker[v]
      /\ worker[w].kind = "none"
      /\ \A v \in Workers : ~Busy(v, Outsides)
  BY <1>1, <1>4, <1>5, Starts
<1>7. worker'[w].kind = "routes" /\ worker'[w].old = old /\ worker'[w].new = to
  BY <1>6
<1>8. \A v \in Workers : worker[v].kind \notin Outsides
  BY <1>6 DEF Busy
<1>9. JobFits(w)'
  BY <1>1, <1>7 DEF JobFits, Busy, Outsides
<1>10. \A p, s : ToldOutside(p, s)' <=> ToldOutside(p, s)
  <2>1. \A v \in Workers :
           /\ worker'[v].kind = "external" <=> worker[v].kind = "external"
           /\ worker[v].kind = "external" => worker'[v].old = worker[v].old
    BY <1>6, <1>7
  <2> QED BY <1>1, <2>1, FrameOutside
<1>11. \A b : ToldBlock(b)' <=> ToldBlock(b)
  <2>1. \A v \in Workers : worker'[v].kind = "routes" <=> v = w
    BY <1>6, <1>7, <1>8 DEF Outsides
  <2>2. \A b : ToldBlock(b)' <=> b \in _process_external_cidrs(old, l3)'
    BY <1>7, <2>1 DEF ToldBlock, Busy
  <2>3. _process_external_cidrs(old, l3)' = _process_external_cidrs(routes, l3)
    BY <1>1, <1>3 DEF _process_external_cidrs, Cidrs, Pools
  <2> QED BY <1>8, <2>2, <2>3, OutsideTold
<1>12. external' \in Relations \cup {None} /\ routes' \subseteq Routes /\ l3' \subseteq L3s
      /\ (external' # None => \A s \in Sides : external'[s] \subseteq Exists(set))
  BY <1>1, <1>2 DEF SecurityTypes, PolicyInv
<1> QED BY <1>1, <1>4, <1>5, <1>9, <1>10, <1>11, <1>12, OutsideCommit

LEMMA UpdateExternalSegmentPostSafe ==
  ASSUME SecurityConstants, SecurityInv, Careful, NEW w \in Workers, UpdateExternalSegmentPost(w)
  PROVE  SecurityInv'
<1>1. /\ Post(w, "routes") /\ ports' = ports
      /\ sg' = IF l3 = {} THEN sg
               ELSE _refresh_ep_cidrs_rules(_process_external_cidrs(worker[w].new, l3),
                                            _process_external_cidrs(worker[w].old, l3))
  BY DEF UpdateExternalSegmentPost
<1>2. SecurityTypes /\ JobFits(w)
  BY DEF SecurityInv
<1>3. "routes" \in Outsides /\ "routes" \in Kinds
  BY DEF Outsides, Kinds
<1>4. /\ worker[w].kind = "routes"
      /\ \A v \in Workers : v # w => worker'[v] = worker[v]
      /\ \A v \in Workers : worker'[v].kind \notin Outsides
  BY <1>1, <1>3, Ends
<1>5. worker[w].new = routes /\ l3 # {}
  BY <1>2, <1>4 DEF JobFits, Busy
<1>6. PICK old \in SUBSET Blocks : old = _process_external_cidrs(worker[w].old, l3)
  BY <1>2, CidrsAreRemotes DEF _process_external_cidrs
<1>7. sg' = IF external = None THEN sg
            ELSE (sg \ _unset_rules_for_cidrs(external, old))
                   \cup _set_rules_for_cidrs(external, _process_external_cidrs(routes, l3))
  BY <1>1, <1>5, <1>6 DEF _refresh_ep_cidrs_rules
<1>8. /\ \A p, s : ToldOutside(p, s) <=> external # None /\ p \in external[s]
      /\ \A b : ToldBlock(b) <=> b \in old
  BY <1>4, <1>6, ToldRoutes
<1> QED BY <1>1, <1>3, <1>7, <1>8, RefreshPost

LEMMA CreateL3PolicySafe ==
  ASSUME SecurityConstants, SecurityInv, Careful, NEW w \in Workers, NEW x \in L3s,
         CreateL3Policy(w, x)
  PROVE  SecurityInv'
<1>1. /\ Free(w, "l3", x) /\ x \notin l3 /\ l3' = l3 \cup {x}
      /\ Commit(w, "l3", x, None, x)
      /\ classifier' = classifier /\ rule' = rule /\ set' = set /\ group' = group /\ target' = target
      /\ external' = external /\ routes' = routes
  BY DEF CreateL3Policy
<1>2. SecurityTypes /\ PolicyInv
  BY DEF SecurityInv
<1>3. "l3" \in Kinds /\ "l3" \in Outsides /\ x # None
  BY DEF Kinds, Outsides, SecurityConstants
<1>4. /\ worker'[w].kind = "l3" /\ worker'[w].on = x /\ worker'[w].old = None /\ worker'[w].new = x
      /\ \A v \in Workers : v # w => worker'[v] = worker[v]
      /\ worker[w].kind = "none"
      /\ \A v \in Workers : ~Busy(v, Outsides)
  BY <1>1, <1>3, Starts
<1>5. worker'[w].kind = "l3" /\ worker'[w].on = x /\ worker'[w].new = x
  BY <1>4
<1>6. \A v \in Workers : worker[v].kind \notin Outsides
  BY <1>4 DEF Busy
<1>7. JobFits(w)'
  BY <1>1, <1>3, <1>5 DEF JobFits, Busy, Outsides
<1>8. \A p, s : ToldOutside(p, s)' <=> ToldOutside(p, s)
  <2>1. \A v \in Workers :
           /\ worker'[v].kind = "external" <=> worker[v].kind = "external"
           /\ worker[v].kind = "external" => worker'[v].old = worker[v].old
    BY <1>4, <1>5
  <2> QED BY <1>1, <2>1, FrameOutside
<1>9. \A b : ToldBlock(b)' <=> ToldBlock(b)
  <2>1. \A v \in Workers : /\ worker'[v].kind = "l3" <=> v = w
                           /\ worker'[v].kind # "routes"
    BY <1>4, <1>5, <1>6 DEF Outsides
  <2>2. \A b : ToldBlock(b)' <=> b \in _process_external_cidrs(routes, l3 \ {x})'
    BY <1>3, <1>5, <2>1 DEF ToldBlock, Busy
  <2>3. (l3 \ {x})' = l3
    BY <1>1
  <2>4. _process_external_cidrs(routes, l3 \ {x})' = _process_external_cidrs(routes, l3)
    BY <1>1, <2>3 DEF _process_external_cidrs, Cidrs, Pools
  <2> QED BY <1>6, <2>2, <2>4, OutsideTold
<1>10. external' \in Relations \cup {None} /\ routes' \subseteq Routes /\ l3' \subseteq L3s
      /\ (external' # None => \A s \in Sides : external'[s] \subseteq Exists(set))
  BY <1>1, <1>2 DEF SecurityTypes, PolicyInv
<1> QED BY <1>1, <1>3, <1>7, <1>8, <1>9, <1>10, OutsideCommit

\* What was outside less a pool is what is outside without the pool.
LEMMA PoolGoesInside ==
  ASSUME SecurityConstants, SecurityTypes, NEW x \in l3
  PROVE  Cidrs((UNION _process_external_cidrs(routes, l3 \ {x})) \ PoolOf[x])
           = _process_external_cidrs(routes, l3)
<1> DEFINE as == (UNION routes) \ Pools(l3 \ {x})
<1>1. as \in SUBSET UNION Blocks
  BY DEF SecurityConstants, SecurityTypes
<1>2. \A y \in as : \E b \in Cidrs(as) : y \in b
  BY <1>1 DEF SecurityConstants
<1>3. \A b \in Cidrs(as) : b \subseteq as
  BY DEF Cidrs
<1>4. UNION Cidrs(as) = as
  BY <1>2, <1>3
<1>5. Pools(l3) = Pools(l3 \ {x}) \cup PoolOf[x]
  BY DEF Pools
<1>6. as \ PoolOf[x] = (UNION routes) \ Pools(l3)
  <2> DEFINE ps == Pools(l3 \ {x})
             qs == Pools(l3)
             rs == UNION routes
  <2>1. qs = ps \cup PoolOf[x]
    BY <1>5
  <2> HIDE DEF ps, qs, rs
  <2>2. (rs \ ps) \ PoolOf[x] = rs \ qs
    BY <2>1
  <2> QED BY <2>2, Zenon DEF ps, qs, rs
<1> HIDE DEF as
<1>7. _process_external_cidrs(routes, l3 \ {x}) = Cidrs(as)
  BY DEF _process_external_cidrs, as
<1>8. (UNION _process_external_cidrs(routes, l3 \ {x})) \ PoolOf[x] = (UNION routes) \ Pools(l3)
  BY <1>4, <1>6, <1>7, Zenon
<1> QED BY <1>8, Zenon DEF _process_external_cidrs

LEMMA CreateL3PolicyPostSafe ==
  ASSUME SecurityConstants, SecurityInv, Careful, ~UseSubnetpools, NEW w \in Workers,
         CreateL3PolicyPost(w)
  PROVE  SecurityInv'
<1>1. /\ Post(w, "l3") /\ ports' = ports /\ worker[w].new # None
      /\ sg' = _refresh_ep_cidrs_rules(
                 Cidrs((UNION _process_external_cidrs(routes, l3 \ {worker[w].on})) \ PoolOf[worker[w].on]),
                 _process_external_cidrs(routes, l3 \ {worker[w].on}))
  BY DEF CreateL3PolicyPost
<1>2. SecurityTypes /\ JobFits(w)
  BY DEF SecurityInv
<1>3. "l3" \in Outsides /\ "l3" \in Kinds
  BY DEF Outsides, Kinds
<1>4. /\ worker[w].kind = "l3"
      /\ \A v \in Workers : v # w => worker'[v] = worker[v]
      /\ \A v \in Workers : worker'[v].kind \notin Outsides
  BY <1>1, <1>3, Ends
<1>5. worker[w].on \in l3
  BY <1>1, <1>2, <1>4 DEF JobFits, Busy
<1>6. PICK old \in SUBSET Blocks : old = _process_external_cidrs(routes, l3 \ {worker[w].on})
  BY <1>2, CidrsAreRemotes DEF _process_external_cidrs
<1>7. sg' = IF external = None THEN sg
            ELSE (sg \ _unset_rules_for_cidrs(external, old))
                   \cup _set_rules_for_cidrs(external, _process_external_cidrs(routes, l3))
  BY <1>1, <1>2, <1>5, <1>6, PoolGoesInside DEF _refresh_ep_cidrs_rules
<1>8. /\ \A p, s : ToldOutside(p, s) <=> external # None /\ p \in external[s]
      /\ \A b : ToldBlock(b) <=> b \in old
  BY <1>1, <1>4, <1>6, ToldL3
<1> QED BY <1>1, <1>3, <1>7, <1>8, RefreshPost

LEMMA DeleteL3PolicySafe ==
  ASSUME SecurityConstants, SecurityInv, Careful, NEW w \in Workers, NEW x \in L3s,
         DeleteL3Policy(w, x)
  PROVE  SecurityInv'
<1>1. /\ Free(w, "l3", x) /\ external = None /\ l3' = l3 \ {x}
      /\ Commit(w, "l3", x, x, None)
      /\ classifier' = classifier /\ rule' = rule /\ set' = set /\ group' = group /\ target' = target
      /\ external' = external /\ routes' = routes
  BY DEF DeleteL3Policy
<1>2. SecurityTypes /\ PolicyInv
  BY DEF SecurityInv
<1>3. "l3" \in Kinds /\ "l3" \in Outsides
  BY DEF Kinds, Outsides
<1>4. /\ worker'[w].kind = "l3" /\ worker'[w].on = x /\ worker'[w].old = x /\ worker'[w].new = None
      /\ \A v \in Workers : v # w => worker'[v] = worker[v]
      /\ worker[w].kind = "none"
      /\ \A v \in Workers : ~Busy(v, Outsides)
  BY <1>1, <1>3, Starts
<1>5. worker'[w].kind = "l3" /\ worker'[w].on = x /\ worker'[w].new = None
  BY <1>4
<1>6. JobFits(w)'
  BY <1>1, <1>3, <1>5 DEF JobFits, Busy, Outsides
<1>7. \A v \in Workers : worker[v].kind \notin Outsides
  BY <1>4 DEF Busy
<1>8. \A v \in Workers : worker'[v].kind # "external"
  BY <1>4, <1>5, <1>7 DEF Outsides
<1>9. \A p, s : ~ToldOutside(p, s)
  BY <1>1, <1>7, OutsideTold
<1>10. \A p, s : ~ToldOutside(p, s)'
  BY <1>1, <1>8 DEF ToldOutside, Busy
<1>11. external' \in Relations \cup {None} /\ routes' \subseteq Routes /\ l3' \subseteq L3s /\ external' = None
  BY <1>1, <1>2 DEF SecurityTypes
<1> QED BY <1>1, <1>3, <1>6, <1>9, <1>10, <1>11, OutsideCommit

LEMMA DeleteL3PolicyPostSafe ==
  ASSUME SecurityConstants, SecurityInv, Careful, ~UseSubnetpools, NEW w \in Workers,
         DeleteL3PolicyPost(w)
  PROVE  SecurityInv'
<1>1. Post(w, "l3") /\ ports' = ports /\ worker[w].new = None
  BY DEF DeleteL3PolicyPost
<1>2. JobFits(w)
  BY DEF SecurityInv
<1>3. "l3" \in Outsides /\ "l3" \in Kinds
  BY DEF Outsides, Kinds
<1>4. /\ worker[w].kind = "l3"
      /\ \A v \in Workers : v # w => worker'[v] = worker[v]
      /\ \A v \in Workers : worker'[v].kind \notin Outsides
  BY <1>1, <1>3, Ends
<1>5. external = None
  BY <1>1, <1>2, <1>4 DEF JobFits, Busy
<1>6. sg' = sg
  BY <1>5 DEF DeleteL3PolicyPost, _refresh_ep_cidrs_rules
<1>7. \A v \in Workers : ~Busy(v, {"external"})
  BY <1>4 DEF Busy, Outsides
<1>8. \A p, s : ToldOutside(p, s) <=> external # None /\ p \in external[s]
  BY <1>5, <1>7 DEF ToldOutside
<1> QED BY <1>1, <1>3, <1>5, <1>6, <1>8, RefreshPost

--------------------
(* Changes of policy begin *)

\* A change of policy leaves what the driver was told of groups and the outside.
LEMMA PolicyTold ==
  ASSUME group' = group, external' = external, routes' = routes, l3' = l3,
         \A v \in Workers : worker[v].kind \notin Outsides \cup {"group"},
         \A v \in Workers : worker'[v].kind \notin Outsides \cup {"group"}
  PROVE  /\ \A g, p, s : (ToldOf(g, p, s)' <=> ToldOf(g, p, s)) /\ (Has(g, p, s)' <=> Has(g, p, s))
         /\ \A i \in Items : Told(i)' <=> Told(i)
<1>1. \A v \in Workers : /\ worker[v].kind \notin {"group", "external", "routes", "l3"}
                         /\ worker'[v].kind \notin {"group", "external", "routes", "l3"}
  BY DEF Outsides
<1>2. \A g, p, s : ToldOf(g, p, s)' <=> ToldOf(g, p, s)
  BY <1>1, FrameOf
<1>3. \A p, s : ToldOutside(p, s)' <=> ToldOutside(p, s)
  BY <1>1, FrameOutside
<1>4. \A b : ToldBlock(b)' <=> ToldBlock(b)
  BY <1>1, FrameBlock
<1>5. \A i \in Items : Told(i)' <=> Told(i)
  BY <1>2, <1>3, <1>4, ItemIs, FrameTold
<1> QED BY <1>2, <1>5 DEF Has

\* A change of policy is safe when its own worker fits.
LEMMA PolicyCommit ==
  ASSUME SecurityConstants, SecurityInv, Careful, NEW w \in Workers, NEW kind \in Policies,
         NEW k, NEW old, NEW new, Free(w, kind, k), Commit(w, kind, k, old, new),
         group' = group, target' = target, external' = external, routes' = routes, l3' = l3,
         classifier' \in [Classifiers -> [direction : Directions, traffic : Traffic]],
         rule' \in [Rules -> Classifiers \cup {None}], set' \in [Sets -> SetRows \cup {None}],
         PolicyInv',
         (\A i \in Items : Told(i)' <=> Told(i)) => SgFits(w)'
  PROVE  SecurityInv'
<1>1. /\ kind \in Kinds
      /\ kind \notin Outsides \cup {"group", "target", "none"}
  BY DEF Kinds, Policies, Outsides
<1>2. /\ worker'[w].kind = kind /\ worker'[w].on = k /\ worker'[w].old = old /\ worker'[w].new = new
      /\ \A v \in Workers : v # w => worker'[v] = worker[v]
      /\ worker' = [v \in Workers |-> worker'[v]]
      /\ \A v \in Workers : worker[v].kind = "none"
      /\ sg' = sg /\ ports' = ports
      /\ JobsApart'
  BY <1>1, Starts
<1>3. worker'[w].kind = kind /\ \A v \in Workers : v # w => worker'[v].kind = "none"
  BY <1>2
<1>4. SecurityTypes
  BY DEF SecurityInv
<1>5. SecurityTypes'
  BY <1>2, <1>4 DEF SecurityTypes
<1>6. \A v \in Workers : JobFits(v)'
  BY <1>3, JobDone
<1>7. /\ \A g, p, s : (ToldOf(g, p, s)' <=> ToldOf(g, p, s)) /\ (Has(g, p, s)' <=> Has(g, p, s))
      /\ \A i \in Items : Told(i)' <=> Told(i)
  <2>1. \A v \in Workers : worker[v].kind \notin Outsides \cup {"group"}
                             /\ worker'[v].kind \notin Outsides \cup {"group"}
    BY <1>1, <1>2, <1>3 DEF Outsides
  <2> QED BY <2>1, PolicyTold
<1>8. SgInv'
  <2>1. SgFits(w)'
    BY <1>7
  <2>2. \A v \in Workers : v # w => SgFits(v)'
    BY <1>3 DEF SgFits, Busy
  <2>3. ~NoPolicy'
    BY <1>3 DEF NoPolicy, Busy
  <2> QED BY <2>1, <2>2, <2>3 DEF SgInv
<1> QED BY <1>2, <1>5, <1>6, <1>8 DEF SecurityInv

\* What a request sees that changes policy: nobody else is at work.
LEMMA PolicyBefore ==
  ASSUME SecurityInv, Careful, NEW w \in Workers, NEW kind \in Policies, NEW k, Free(w, kind, k)
  PROVE  /\ \A v \in Workers : worker[v].kind = "none"
         /\ SecurityTypes /\ PolicyInv
         /\ \A i \in Items : Exact(classifier, rule, i)
<1>1. \A v \in Workers : worker[v].kind = "none"
  BY DEF Free, Busy, Policies
<1>2. NoPolicy
  BY <1>1 DEF NoPolicy, Busy, Policies
<1> QED BY <1>1, <1>2 DEF SecurityInv, SgInv

LEMMA UpdateClassifierSafe ==
  ASSUME SecurityConstants, SecurityInv, Careful, NEW w \in Workers, NEW c \in Classifiers,
         NEW to \in [direction : Directions, traffic : Traffic], UpdateClassifier(w, c, to)
  PROVE  SecurityInv'
<1>1. /\ Free(w, "classifier", c) /\ classifier' = [classifier EXCEPT ![c] = to]
      /\ Distinct(classifier', rule, set)
      /\ Commit(w, "classifier", c, classifier[c], to)
      /\ rule' = rule /\ set' = set /\ group' = group /\ target' = target
      /\ external' = external /\ routes' = routes /\ l3' = l3
  BY DEF UpdateClassifier
<1>2. "classifier" \in Policies /\ "classifier" \in Kinds
  BY DEF Policies, Kinds
<1>3. /\ SecurityTypes /\ PolicyInv
      /\ \A i \in Items : Exact(classifier, rule, i)
  BY <1>1, <1>2, PolicyBefore
<1>4. PICK old \in [direction : Directions, traffic : Traffic] : old = classifier[c]
  BY <1>3 DEF SecurityTypes
<1>5. Commit(w, "classifier", c, old, to)
  BY <1>1, <1>4
<1>6. /\ worker'[w].kind = "classifier" /\ worker'[w].on = c /\ worker'[w].old = old /\ worker'[w].new = to
      /\ sg' = sg
  BY <1>1, <1>2, <1>5, Starts
<1>7. worker'[w].kind = "classifier" /\ worker'[w].on = c /\ worker'[w].old = old /\ worker'[w].new = to
  BY <1>6
<1>8. /\ classifier' \in [Classifiers -> [direction : Directions, traffic : Traffic]]
      /\ rule' \in [Rules -> Classifiers \cup {None}] /\ set' \in [Sets -> SetRows \cup {None}]
      /\ classifier'[c] = to
      /\ [classifier' EXCEPT ![c] = old] = classifier
  BY <1>1, <1>3, <1>4 DEF SecurityTypes
<1>9. Exists(set)' = Exists(set)
  BY <1>1 DEF Exists
<1>10. PolicyInv'
  <2>1. Distinct(classifier, rule, set)'
    BY <1>1, <1>9 DEF Distinct
  <2>2. \A p \in Sets : set[p] # None =>
       /\ \A r \in set[p].rules : rule[r] # None
       /\ set[p].parent # None => set[set[p].parent] # None /\ set[set[p].parent].parent = None
    BY <1>3 DEF PolicyInv
  <2>3. /\ \A g \in Groups : group[g] # None => \A s \in Sides : group[g][s] \subseteq Exists(set)
        /\ external # None => \A s \in Sides : external[s] \subseteq Exists(set)
        /\ \A t \in Targets : target[t] # None => group[target[t]] # None
    BY <1>3 DEF PolicyInv
  <2> QED BY <1>1, <1>9, <2>1, <2>2, <2>3 DEF PolicyInv
<1>11. ASSUME \A i \in Items : Told(i)' <=> Told(i) PROVE SgFits(w)'
  <2>1. Distinct([classifier EXCEPT ![worker[w].on] = worker[w].old], rule, set)'
    <3>1. Distinct(classifier, rule, set)
      BY <1>3 DEF PolicyInv
    <3> DEFINE cs == [classifier EXCEPT ![worker[w].on] = worker[w].old]
    <3>2. cs' = classifier /\ rule' = rule /\ set' = set
      BY <1>1, <1>7, <1>8
    <3> HIDE DEF cs
    <3>3. Distinct(cs, rule, set)'
      BY <1>9, <3>1, <3>2 DEF Distinct
    <3> QED BY <3>3 DEF cs
  <2>2. \A i \in Items : Exact([classifier EXCEPT ![worker[w].on] = worker[w].old], rule, i)'
    <3> TAKE i \in Items
    <3>1. i \in sg <=> i[1] \in Exists(set) /\ Told(i)
                         /\ \E r \in set[i[1]].rules : May(rule, i[1], r) /\ Says(classifier[rule[r]], i)
      BY <1>3 DEF Exact, SaidBy
    <3>2. \A r : May(rule, i[1], r)' <=> May(rule, i[1], r)
      BY <1>1 DEF May
    <3>3. SaidBy(set[i[1]].rules, [classifier EXCEPT ![worker[w].on] = worker[w].old], rule, i)'
            <=> \E r \in set[i[1]].rules : May(rule, i[1], r) /\ Says(classifier[rule[r]], i)
      BY <1>1, <1>7, <1>8, <3>2 DEF SaidBy
    <3> QED BY <1>6, <1>9, <1>11, <3>1, <3>3 DEF Exact
  <2> HIDE DEF Exact, Distinct
  <2> QED BY <1>7, <1>8, <2>1, <2>2 DEF SgFits, Busy
<1> QED BY <1>1, <1>2, <1>5, <1>8, <1>9, <1>10, <1>11, PolicyCommit

\* Rules come and go outside of rule sets.
LEMMA RuleStep ==
  ASSUME SecurityConstants, SecurityInv, Careful, NEW w \in Workers, NEW r \in Rules,
         NEW c \in Classifiers \cup {None}, Free(w, "rule", r),
         \A p \in Exists(set) : r \notin set[p].rules,
         rule' = [rule EXCEPT ![r] = c],
         classifier' = classifier, set' = set, group' = group, target' = target,
         external' = external, routes' = routes, l3' = l3, sg' = sg, ports' = ports, worker' = worker
  PROVE  SecurityInv'
<1>1. /\ \A v \in Workers : worker[v].kind = "none"
      /\ SecurityTypes /\ PolicyInv
      /\ \A i \in Items : Exact(classifier, rule, i)
  BY PolicyBefore DEF Policies
<1>2. JobsApart
  BY DEF SecurityInv
<1>3. rule' \in [Rules -> Classifiers \cup {None}] /\ \A x \in Rules : x # r => rule'[x] = rule[x]
  BY <1>1 DEF SecurityTypes
<1>4. Exists(set)' = Exists(set)
  BY DEF Exists
<1>5. \A p \in Exists(set) : \A x \in set[p].rules : x # r /\ rule'[x] = rule[x]
  <2> TAKE p \in Exists(set)
  <2>1. set[p].rules \subseteq Rules
    BY <1>1, RulesTyped
  <2> QED BY <1>3, <2>1
<1>6. SecurityTypes'
  BY <1>1, <1>3 DEF SecurityTypes
<1>7. PolicyInv'
  <2>1. Distinct(classifier, rule, set)'
    BY <1>1, <1>4, <1>5 DEF PolicyInv, Distinct
  <2>2. \A p \in Sets : set[p] # None =>
       /\ \A x \in set[p].rules : rule'[x] # None
       /\ set[p].parent # None => set[set[p].parent] # None /\ set[set[p].parent].parent = None
    BY <1>1, <1>5 DEF PolicyInv, Exists, SecurityTypes
  <2>3. /\ \A g \in Groups : group[g] # None => \A s \in Sides : group[g][s] \subseteq Exists(set)
        /\ external # None => \A s \in Sides : external[s] \subseteq Exists(set)
        /\ \A t \in Targets : target[t] # None => group[target[t]] # None
    BY <1>1 DEF PolicyInv
  <2> QED BY <1>4, <2>1, <2>2, <2>3 DEF PolicyInv
<1>8. \A v \in Workers : worker'[v].kind = "none"
  BY <1>1
<1>9. (\A v \in Workers : JobFits(v)') /\ JobsApart'
  <2>1. JobsApart'
    BY <1>8 DEF JobsApart, Busy, Policies, Outsides
  <2> QED BY <1>8, <2>1, JobDone
<1>10. /\ \A g, p, s : (ToldOf(g, p, s)' <=> ToldOf(g, p, s)) /\ (Has(g, p, s)' <=> Has(g, p, s))
       /\ \A i \in Items : Told(i)' <=> Told(i)
  <2>1. \A v \in Workers : worker[v].kind \notin Outsides \cup {"group"}
                             /\ worker'[v].kind \notin Outsides \cup {"group"}
    BY <1>1, <1>8 DEF Outsides
  <2> QED BY <2>1, PolicyTold
<1>11. \A i \in Items : Exact(classifier, rule, i)'
  <2> TAKE i \in Items
  <2>1. i \in sg <=> i[1] \in Exists(set) /\ Told(i) /\ SaidBy(set[i[1]].rules, classifier, rule, i)
    BY <1>1 DEF Exact
  <2>2. i[1] \in Exists(set) => (SaidBy(set[i[1]].rules, classifier, rule, i)'
                                   <=> SaidBy(set[i[1]].rules, classifier, rule, i))
    <3> SUFFICES ASSUME i[1] \in Exists(set)
                 PROVE  SaidBy(set[i[1]].rules, classifier, rule, i)'
                           <=> SaidBy(set[i[1]].rules, classifier, rule, i)
      OBVIOUS
    <3>1. set[i[1]].parent # None => set[i[1]].parent \in Exists(set)
      BY <1>1, RulesTyped DEF PolicyInv, Exists, SecurityTypes, SetRows
    <3>2. \A x \in set[i[1]].rules : May(rule, i[1], x)' <=> May(rule, i[1], x)
      BY <1>5, <3>1 DEF May
    <3> QED BY <1>5, <3>2 DEF SaidBy
  <2> QED BY <1>4, <1>10, <2>1, <2>2 DEF Exact
<1>12. SgInv'
  <2>1. \A v \in Workers : worker'[v].kind \notin Policies
    BY <1>8 DEF Policies
  <2> QED BY <1>11, <2>1, SgKept
<1> QED BY <1>6, <1>7, <1>9, <1>12 DEF SecurityInv

LEMMA CreateRuleSafe ==
  ASSUME SecurityConstants, SecurityInv, Careful, NEW w \in Workers, NEW r \in Rules,
         NEW c \in Classifiers, CreateRule(w, r, c)
  PROVE  SecurityInv'
<1>1. \A p \in Exists(set) : r \notin set[p].rules
  BY DEF CreateRule, SecurityInv, PolicyInv, Exists, SecurityTypes
<1> QED BY <1>1, RuleStep DEF CreateRule

LEMMA DeleteRuleSafe ==
  ASSUME SecurityConstants, SecurityInv, Careful, NEW w \in Workers, NEW r \in Rules,
         DeleteRule(w, r)
  PROVE  SecurityInv'
BY RuleStep DEF DeleteRule

LEMMA UpdateRuleSafe ==
  ASSUME SecurityConstants, SecurityInv, Careful, NEW w \in Workers, NEW r \in Rules,
         NEW c \in Classifiers, UpdateRule(w, r, c)
  PROVE  SecurityInv'
<1>1. /\ Free(w, "rule", r) /\ rule[r] # None /\ rule' = [rule EXCEPT ![r] = c]
      /\ Distinct(classifier, rule', set)
      /\ \A p \in Exists(set) : r \in set[p].rules => Children(p) = {}
      /\ Commit(w, "rule", r, rule[r], c)
      /\ classifier' = classifier /\ set' = set /\ group' = group /\ target' = target
      /\ external' = external /\ routes' = routes /\ l3' = l3
  BY DEF UpdateRule
<1>2. "rule" \in Policies /\ "rule" \in Kinds
  BY DEF Policies, Kinds
<1>3. /\ SecurityTypes /\ PolicyInv
      /\ \A i \in Items : Exact(classifier, rule, i)
  BY <1>1, <1>2, PolicyBefore
<1>4. PICK old \in Classifiers : old = rule[r]
  BY <1>1, <1>3 DEF SecurityTypes
<1>5. Commit(w, "rule", r, old, c)
  BY <1>1, <1>4
<1>6. /\ worker'[w].kind = "rule" /\ worker'[w].on = r /\ worker'[w].old = old /\ worker'[w].new = c
      /\ sg' = sg
  BY <1>1, <1>2, <1>5, Starts
<1>7. worker'[w].kind = "rule" /\ worker'[w].on = r /\ worker'[w].old = old /\ worker'[w].new = c
  BY <1>6
<1>8. /\ rule' \in [Rules -> Classifiers \cup {None}]
      /\ rule'[r] = c /\ c # None
      /\ [rule' EXCEPT ![r] = old] = rule
      /\ \A x \in Rules : rule[x] # None => rule'[x] # None
  BY <1>1, <1>3, <1>4 DEF SecurityTypes, SecurityConstants
<1>9. Exists(set)' = Exists(set)
  BY <1>1 DEF Exists
<1>10. PolicyInv'
  <2>1. Distinct(classifier, rule, set)'
    BY <1>1, <1>9 DEF Distinct
  <2>2. \A p \in Sets : set[p] # None =>
       /\ \A x \in set[p].rules : rule'[x] # None
       /\ set[p].parent # None => set[set[p].parent] # None /\ set[set[p].parent].parent = None
    <3> SUFFICES ASSUME NEW p \in Sets, set[p] # None
                 PROVE  /\ \A x \in set[p].rules : rule'[x] # None
                        /\ set[p].parent # None => set[set[p].parent] # None /\ set[set[p].parent].parent = None
      OBVIOUS
    <3>1. p \in Exists(set)
      BY <1>3 DEF Exists, SecurityTypes
    <3>2. set[p].rules \subseteq Rules /\ \A x \in set[p].rules : rule[x] # None
      BY <1>3, <3>1, RulesTyped
    <3> QED BY <1>3, <1>8, <3>2 DEF PolicyInv
  <2>3. /\ \A g \in Groups : group[g] # None => \A s \in Sides : group[g][s] \subseteq Exists(set)
        /\ external # None => \A s \in Sides : external[s] \subseteq Exists(set)
        /\ \A t \in Targets : target[t] # None => group[target[t]] # None
    BY <1>3 DEF PolicyInv
  <2> QED BY <1>1, <1>9, <2>1, <2>2, <2>3 DEF PolicyInv
<1>11. ASSUME \A i \in Items : Told(i)' <=> Told(i) PROVE SgFits(w)'
  <2> DEFINE rl == [rule EXCEPT ![worker[w].on] = worker[w].old]
  <2>1. rl' = rule /\ classifier' = classifier /\ set' = set
    BY <1>1, <1>7, <1>8
  <2> HIDE DEF rl
  <2>2. Distinct(classifier, rl, set)'
    <3>1. Distinct(classifier, rule, set)
      BY <1>3 DEF PolicyInv
    <3> QED BY <1>9, <2>1, <3>1 DEF Distinct
  <2>3. \A i \in Items : Exact(classifier, rl, i)'
    <3> TAKE i \in Items
    <3>1. i \in sg <=> i[1] \in Exists(set) /\ Told(i)
                         /\ \E x \in set[i[1]].rules : May(rule, i[1], x) /\ Says(classifier[rule[x]], i)
      BY <1>3 DEF Exact, SaidBy
    <3>2. \A x : May(rl, i[1], x)' <=> May(rule, i[1], x)
      BY <2>1 DEF May
    <3>3. SaidBy(set[i[1]].rules, classifier, rl, i)'
            <=> \E x \in set[i[1]].rules : May(rule, i[1], x) /\ Says(classifier[rule[x]], i)
      BY <2>1, <3>2 DEF SaidBy
    <3> QED BY <1>6, <1>9, <1>11, <3>1, <3>3 DEF Exact
  <2>4. \A p \in Sets : set'[p] # None /\ r \in set'[p].rules => Children(p)' = {}
    <3> SUFFICES ASSUME NEW p \in Sets, set[p] # None, r \in set[p].rules PROVE Children(p)' = {}
      BY <2>1
    <3>1. p \in Exists(set)
      BY <1>3 DEF Exists, SecurityTypes
    <3> QED BY <1>1, <1>9, <3>1 DEF Children
  <2> HIDE DEF Exact, Distinct
  <2> QED BY <1>7, <1>8, <2>2, <2>3, <2>4 DEF SgFits, Busy, rl
<1> QED BY <1>1, <1>2, <1>3, <1>5, <1>8, <1>9, <1>10, <1>11, PolicyCommit DEF SecurityTypes

\* What a rule set's request makes of the parents.
LEMMA AdoptedIs ==
  ASSUME SecurityConstants, SecurityTypes, PolicyInv, NEW p \in Sets, NEW rs \in SUBSET Rules,
         NEW kids \in SUBSET Exists(set), _set_children_for_policy_rule_set(p, kids),
         set' = Adopted(p, rs, kids)
  PROVE  /\ set' \in [Sets -> SetRows \cup {None}]
         /\ Exists(set)' = Exists(set) \cup {p}
         /\ set'[p] # None /\ set'[p].rules = rs /\ set'[p].parent = ParentOf(p)
         /\ p \notin kids /\ p \notin Children(p) /\ ParentOf(p) # p
         /\ \A q \in Exists(set) : q # p =>
              /\ set'[q].rules = set[q].rules
              /\ set'[q].parent = IF q \in kids THEN p ELSE IF set[q].parent = p THEN None ELSE set[q].parent
         /\ Children(p)' = kids
         /\ ParentOf(p) # None => kids = {} /\ ParentOf(p) \in Exists(set) /\ set[ParentOf(p)].parent = None
<1>1. /\ set \in [Sets -> SetRows \cup {None}] /\ Exists(set) \subseteq Sets /\ None \notin SetRows
      /\ \A q \in Sets : q # None
  BY DEF SecurityTypes, SecurityConstants, Exists
<1>2. \A q \in Exists(set) : set[q] \in SetRows /\ set[q].rules \in SUBSET Rules
                               /\ set[q].parent \in Sets \cup {None}
                               /\ (set[q].parent # None => set[q].parent \in Exists(set)
                                                             /\ set[set[q].parent].parent = None)
  BY <1>1 DEF Exists, SetRows, PolicyInv
<1>3. ParentOf(p) \in Sets \cup {None}
      /\ (ParentOf(p) # None => ParentOf(p) \in Exists(set) /\ set[ParentOf(p)].parent = None /\ ParentOf(p) # p)
  BY <1>1, <1>2 DEF ParentOf, Exists
<1>4. p \notin kids /\ (ParentOf(p) # None => kids = {}) /\ \A q \in kids : Children(q) = {}
  BY DEF _set_children_for_policy_rule_set
<1>5. p \notin Children(p)
  BY <1>1, <1>2 DEF Children
<1>6. \A q \in Sets : set'[q] = IF q = p THEN [rules |-> rs, parent |-> ParentOf(p)]
                               ELSE IF set[q] = None THEN None
                               ELSE IF q \in kids THEN [set[q] EXCEPT !.parent = p]
                               ELSE IF set[q].parent = p THEN [set[q] EXCEPT !.parent = None]
                               ELSE set[q]
  BY DEF Adopted
<1>7. set'[p] = [rules |-> rs, parent |-> ParentOf(p)] /\ set'[p] \in SetRows
  <2>1. set'[p] = [rules |-> rs, parent |-> ParentOf(p)]
    BY <1>6
  <2>2. [rules |-> rs, parent |-> ParentOf(p)] \in SetRows
    BY <1>3 DEF SetRows
  <2> QED BY <2>1, <2>2
<1>8. ASSUME NEW q \in Exists(set), q # p
      PROVE  /\ set'[q] \in SetRows /\ set'[q].rules = set[q].rules
             /\ set'[q].parent = IF q \in kids THEN p ELSE IF set[q].parent = p THEN None ELSE set[q].parent
  <2>1. PICK row \in SetRows : row = set[q] /\ row # None
    BY <1>1, <1>2 DEF Exists
  <2>2. set'[q] = IF q \in kids THEN [row EXCEPT !.parent = p]
                  ELSE IF row.parent = p THEN [row EXCEPT !.parent = None] ELSE row
    BY <1>1, <1>6, <1>8, <2>1
  <2>3. \A x \in Sets \cup {None} : [row EXCEPT !.parent = x] \in SetRows
                                     /\ [row EXCEPT !.parent = x].rules = row.rules
                                     /\ [row EXCEPT !.parent = x].parent = x
    BY DEF SetRows
  <2> QED BY <2>1, <2>2, <2>3
<1>9. \A q \in Sets : q # p /\ q \notin Exists(set) => set'[q] = None
  BY <1>1, <1>6 DEF Exists
<1>10. \A q \in Sets : set'[q] \in SetRows \cup {None}
  BY <1>7, <1>8, <1>9
<1>11. set' \in [Sets -> SetRows \cup {None}]
  <2>1. set' = [q \in Sets |-> set'[q]]
    BY DEF Adopted
  <2> QED BY <1>10, <2>1
<1>12. Exists(set)' = Exists(set) \cup {p}
  <2>1. DOMAIN set' = Sets /\ DOMAIN set = Sets
    BY <1>1, <1>11
  <2>2. \A q \in Sets : set'[q] # None <=> q \in Exists(set) \cup {p}
    BY <1>1, <1>7, <1>8, <1>9
  <2>3. \A q : q \in Exists(set)' <=> q \in Sets /\ set'[q] # None
    BY <2>1 DEF Exists
  <2> QED BY <1>1, <2>2, <2>3
<1>13. Children(p)' = kids
  <2>1. \A q : q \in Children(p)' <=> q \in Exists(set) \cup {p} /\ set'[q].parent = p
    BY <1>12 DEF Children
  <2>2. set'[p].parent # p
    BY <1>1, <1>3, <1>7
  <2>3. \A q \in Exists(set) : q # p => (set'[q].parent = p <=> q \in kids)
    BY <1>1, <1>8
  <2> QED BY <1>4, <2>1, <2>2, <2>3
<1>14. set'[p] # None /\ set'[p].rules = rs /\ set'[p].parent = ParentOf(p) /\ ParentOf(p) # p
  BY <1>1, <1>3, <1>7
<1> QED BY <1>3, <1>4, <1>5, <1>8, <1>11, <1>12, <1>13, <1>14

\* One level of children, and rules that exist, also after the request.
LEMMA AdoptedInv ==
  ASSUME SecurityConstants, SecurityTypes, PolicyInv, NEW p \in Sets, NEW rs \in SUBSET Rules,
         rs \subseteq Exists(rule),
         NEW kids \in SUBSET Exists(set), _set_children_for_policy_rule_set(p, kids),
         set' = Adopted(p, rs, kids), Distinct(classifier, rule, set'),
         classifier' = classifier, rule' = rule, group' = group, target' = target, external' = external
  PROVE  PolicyInv'
<1>1. /\ set' \in [Sets -> SetRows \cup {None}]
      /\ Exists(set)' = Exists(set) \cup {p}
      /\ set'[p] # None /\ set'[p].rules = rs /\ set'[p].parent = ParentOf(p)
      /\ p \notin kids /\ p \notin Children(p) /\ ParentOf(p) # p
      /\ \A q \in Exists(set) : q # p =>
           /\ set'[q].rules = set[q].rules
           /\ set'[q].parent = IF q \in kids THEN p ELSE IF set[q].parent = p THEN None ELSE set[q].parent
      /\ ParentOf(p) # None => kids = {} /\ ParentOf(p) \in Exists(set) /\ set[ParentOf(p)].parent = None
  BY AdoptedIs
<1>2. Exists(set) = {q \in Sets : set[q] # None} /\ \A q \in Exists(set)' : q \in Sets /\ set'[q] # None
  BY <1>1 DEF Exists, SecurityTypes
<1>3. \A q \in Sets : set'[q] # None => q = p \/ q \in Exists(set)
  <2>1. DOMAIN set' = Sets
    BY <1>1
  <2>2. \A q \in Sets : set'[q] # None => q \in Exists(set)'
    BY <2>1 DEF Exists
  <2> QED BY <1>1, <2>2
<1>4. \A q \in Exists(set) : /\ \A r \in set[q].rules : rule[r] # None
                             /\ set[q].parent # None => set[q].parent \in Exists(set)
                                                         /\ set[set[q].parent].parent = None
  BY <1>2 DEF PolicyInv, SecurityTypes, SetRows
<1>5. ASSUME NEW q \in Sets, set'[q] # None
      PROVE  /\ \A r \in set'[q].rules : rule'[r] # None
             /\ set'[q].parent # None =>
                  set'[set'[q].parent] # None /\ set'[set'[q].parent].parent = None
  <2>1. CASE q = p
    <3>1. \A r \in set'[q].rules : rule'[r] # None
      BY <1>1, <2>1 DEF Exists
    <3>2. ASSUME ParentOf(p) # None
          PROVE  set'[ParentOf(p)] # None /\ set'[ParentOf(p)].parent = None
      BY <1>1, <1>2, <3>2, SecurityConstants
    <3> QED BY <1>1, <2>1, <3>1, <3>2
  <2>2. CASE q # p
    <3>1. q \in Exists(set)
      BY <1>3, <1>5, <2>2
    <3>2. \A r \in set'[q].rules : rule'[r] # None
      BY <1>1, <1>4, <2>2, <3>1
    <3>3. CASE q \in kids
      <4>1. ParentOf(p) = None
        BY <3>3 DEF _set_children_for_policy_rule_set
      <4> QED BY <1>1, <2>2, <3>1, <3>2, <3>3, <4>1
    <3>4. CASE q \notin kids /\ set[q].parent = p
      BY <1>1, <2>2, <3>1, <3>2, <3>4
    <3>5. CASE q \notin kids /\ set[q].parent # p
      <4>1. set'[q].parent = set[q].parent
        BY <1>1, <2>2, <3>1, <3>5
      <4>2. ASSUME set[q].parent # None
            PROVE  set'[set[q].parent] # None /\ set'[set[q].parent].parent = None
        <5> DEFINE x == set[q].parent
        <5>1. x \in Exists(set) /\ set[x].parent = None /\ x # p
          BY <1>4, <3>1, <3>5, <4>2
        <5>2. x \notin kids
          <6>1. q \in Children(x)
            BY <3>1 DEF Children
          <6> QED BY <6>1 DEF _set_children_for_policy_rule_set
        <5>3. p # None
          BY DEF SecurityConstants
        <5> HIDE DEF x
        <5>4. set'[x].parent = None /\ set'[x] # None
          BY <1>1, <1>2, <5>1, <5>2, <5>3
        <5> QED BY <5>4 DEF x
      <4> QED BY <3>2, <4>1, <4>2
    <3> QED BY <3>3, <3>4, <3>5
  <2> QED BY <2>1, <2>2
<1>6. Distinct(classifier, rule, set)'
  BY <1>1 DEF Distinct, Exists
<1>7. /\ \A g \in Groups : group[g] # None => \A s \in Sides : group[g][s] \subseteq Exists(set)
      /\ external # None => \A s \in Sides : external[s] \subseteq Exists(set)
      /\ \A t \in Targets : target[t] # None => group[target[t]] # None
  BY DEF PolicyInv
<1> QED BY <1>1, <1>5, <1>6, <1>7 DEF PolicyInv

\* The old rules and children are what the security groups hold until the request is done.
LEMMA WriteCommit ==
  ASSUME SecurityConstants, SecurityInv, Careful, NEW w \in Workers, NEW p \in Sets,
         NEW rs \in SUBSET Rules, NEW kids \in SUBSET Sets,
         NEW ors \in SUBSET Rules, NEW okids \in SUBSET Sets,
         WriteRuleSet(w, p, rs, kids),
         Commit(w, "set", p, [rules |-> ors, kids |-> okids], [rules |-> rs, kids |-> kids]),
         set[p] = None => ors = {} /\ okids = {},
         set[p] # None => ors = set[p].rules /\ okids = Children(p)
  PROVE  SecurityInv'
<1> DEFINE old == [rules |-> ors, kids |-> okids]
           new == [rules |-> rs, kids |-> kids]
<1>1. /\ Free(w, "set", p) /\ rs \subseteq Exists(rule) /\ kids \subseteq Exists(set)
      /\ _set_children_for_policy_rule_set(p, kids)
      /\ set' = Adopted(p, rs, kids)
      /\ Distinct(classifier, rule, set')
      /\ classifier' = classifier /\ rule' = rule /\ group' = group /\ target' = target
      /\ external' = external /\ routes' = routes /\ l3' = l3
  BY DEF WriteRuleSet
<1>2. "set" \in Policies /\ "set" \in Kinds
  BY DEF Policies, Kinds
<1>3. /\ SecurityTypes /\ PolicyInv
      /\ \A i \in Items : Exact(classifier, rule, i)
  BY <1>1, <1>2, PolicyBefore
<1>4. /\ worker'[w].kind = "set" /\ worker'[w].on = p /\ worker'[w].old = old /\ worker'[w].new = new
      /\ sg' = sg
  BY <1>1, <1>2, Starts
<1>5. /\ worker'[w].kind = "set" /\ worker'[w].on = p /\ worker'[w].old = old /\ worker'[w].new = new
      /\ old \in Writes /\ new \in Writes /\ new # None
      /\ old.rules = ors /\ old.kids = okids /\ new.rules = rs /\ new.kids = kids
  BY <1>4 DEF Writes, SecurityConstants
<1> HIDE DEF old, new
<1>6. /\ set' \in [Sets -> SetRows \cup {None}]
      /\ Exists(set)' = Exists(set) \cup {p}
      /\ set'[p] # None /\ set'[p].rules = rs /\ set'[p].parent = ParentOf(p)
      /\ p \notin kids /\ p \notin Children(p) /\ ParentOf(p) # p
      /\ \A q \in Exists(set) : q # p =>
           /\ set'[q].rules = set[q].rules
           /\ set'[q].parent = IF q \in kids THEN p ELSE IF set[q].parent = p THEN None ELSE set[q].parent
      /\ Children(p)' = kids
      /\ ParentOf(p) # None => kids = {} /\ ParentOf(p) \in Exists(set) /\ set[ParentOf(p)].parent = None
  BY <1>1, <1>3, AdoptedIs
<1>7. PolicyInv'
  BY <1>1, <1>3, AdoptedInv
<1>8. okids = Children(p)
  <2>1. ASSUME set[p] = None PROVE Children(p) = {}
    BY <1>3, <2>1 DEF Children, PolicyInv, Exists, SecurityTypes, SecurityConstants
  <2> QED BY <2>1
<1>9. /\ set[p] # None <=> p \in Exists(set)
      /\ Exists(set) \subseteq Sets /\ p # None
      /\ \A q \in Exists(set) : q \in okids <=> set[q].parent = p
      /\ okids \subseteq Exists(set)
  BY <1>3, <1>8 DEF Exists, SecurityTypes, SecurityConstants, Children
<1>10. /\ \A r \in ors : rule[r] # None
       /\ \A r, x \in ors : r # x => classifier[rule[r]].traffic # classifier[rule[x]].traffic
  <2>1. CASE set[p] = None
    BY <2>1
  <2>2. CASE set[p] # None
    BY <1>3, <1>9, <2>2 DEF PolicyInv, Distinct
  <2> QED BY <2>1, <2>2
<1>11. ASSUME \A i \in Items : Told(i)' <=> Told(i) PROVE SgFits(w)'
  <2>1. old.kids \cup new.kids \subseteq Exists(set)' \ {p}
    BY <1>1, <1>5, <1>6, <1>8, <1>9
  <2>2. \A k \in old.kids \ new.kids : set'[k].parent = None
    BY <1>5, <1>6, <1>8, <1>9
  <2>3. ASSUME NEW i \in Items
        PROVE  IF i[1] = p
               THEN i \in sg' <=> Told(i)' /\ SaidBy(ors, classifier, rule, i)'
               ELSE IF i[1] \in Recomputed(old, new)
               THEN i \in sg' => Told(i)' /\ \E r \in set'[i[1]].rules : Says(classifier'[rule'[r]], i)
               ELSE Exact(classifier, rule, i)'
    <3> DEFINE q == i[1]
    <3>1. i \in sg' <=> q \in Exists(set) /\ Told(i)' /\ SaidBy(set[q].rules, classifier, rule, i)
      BY <1>3, <1>4, <1>11 DEF Exact
    <3>2. CASE q = p
      <4>1. CASE set[p] = None
        <5>1. i \notin sg' /\ ors = {}
          BY <1>9, <3>1, <3>2, <4>1
        <5>2. ~SaidBy(ors, classifier, rule, i)'
          BY <5>1 DEF SaidBy
        <5> QED BY <3>2, <5>1, <5>2
      <4>2. CASE set[p] # None
        <5>1. set[p].parent = ParentOf(p) /\ ors = set[p].rules
          BY <4>2 DEF ParentOf
        <5>2. \A r : May(rule, p, r)' <=> May(rule, p, r)
          <6>1. set'[p].parent = set[p].parent
            BY <1>6, <5>1
          <6>2. set[p].parent # None => set'[set[p].parent].rules = set[set[p].parent].rules
            BY <1>6, <5>1
          <6> QED BY <1>1, <6>1, <6>2 DEF May
        <5>3. SaidBy(ors, classifier, rule, i)' <=> SaidBy(ors, classifier, rule, i)
          BY <1>1, <3>2, <5>2 DEF SaidBy
        <5> QED BY <1>9, <3>1, <3>2, <4>2, <5>1, <5>3
      <4> QED BY <4>1, <4>2
    <3>3. CASE q # p /\ q \in Recomputed(old, new)
      <4>1. q \in Exists(set) => set'[q].rules = set[q].rules
        BY <1>6, <3>3
      <4>2. SaidBy(set[q].rules, classifier, rule, i) => \E r \in set[q].rules : Says(classifier[rule[r]], i)
        BY DEF SaidBy
      <4> QED BY <1>1, <3>1, <3>3, <4>1, <4>2
    <3>4. CASE q # p /\ q \notin Recomputed(old, new)
      <4>1. CASE q \notin Exists(set)
        <5>1. q \notin Exists(set)' /\ i \notin sg'
          BY <1>6, <3>1, <3>4, <4>1
        <5> QED BY <3>4, <5>1 DEF Exact
      <4>2. CASE q \in Exists(set)
        <5>1. set'[q].rules = set[q].rules /\ q \in Exists(set)'
          BY <1>6, <3>4, <4>2
        <5>2. \A r : May(rule, q, r)' <=> May(rule, q, r)
          <6>1. CASE q \in kids /\ q \in okids
            <7>1. ors = rs
              BY <1>5, <3>4, <6>1 DEF Recomputed
            <7>2. set[q].parent = p /\ set'[q].parent = p
              BY <1>6, <1>9, <3>4, <4>2, <6>1
            <7>3. set[p] # None
              BY <6>1
            <7>4. set'[p].rules = set[p].rules
              BY <1>6, <7>1, <7>3
            <7> QED BY <1>1, <7>2, <7>4 DEF May
          <6>2. CASE q \notin kids /\ q \notin okids
            <7>1. set[q].parent # p /\ set'[q].parent = set[q].parent
              BY <1>6, <1>9, <3>4, <4>2, <6>2
            <7>2. set[q].parent # None => set[q].parent \in Exists(set)
              BY <1>3, <4>2 DEF PolicyInv, Exists, SecurityTypes, SetRows
            <7>3. set[q].parent # None => set'[set[q].parent].rules = set[set[q].parent].rules
              BY <1>6, <7>1, <7>2
            <7> QED BY <1>1, <7>1, <7>3 DEF May
          <6>3. q \in kids <=> q \in okids
            BY <1>5, <3>4 DEF Recomputed
          <6> QED BY <6>1, <6>2, <6>3
        <5>3. SaidBy(set[q].rules, classifier, rule, i)' <=> SaidBy(set[q].rules, classifier, rule, i)
          BY <1>1, <5>1, <5>2 DEF SaidBy
        <5>4. Exact(classifier, rule, i)'
          BY <3>1, <4>2, <5>1, <5>3 DEF Exact
        <5> QED BY <3>4, <5>4
      <4> QED BY <4>1, <4>2
    <3> QED BY <3>2, <3>3, <3>4
  <2> HIDE DEF Exact, SaidBy, Recomputed, Told
  <2>4. new = [rules |-> set'[p].rules, kids |-> Children(p)']
    BY <1>6 DEF new
  <2>5. Children(worker[w].on)' = Children(p)'
    BY <1>5 DEF Children
  <2> QED BY <1>1, <1>5, <1>6, <1>10, <2>1, <2>2, <2>3, <2>4, <2>5 DEF SgFits, Busy
<1>12. \A t \in Targets : \A i \in ports[t] : i[1] \in Exists(set) => i[1] \in Exists(set)'
  BY <1>6
<1> QED BY <1>1, <1>2, <1>3, <1>6, <1>7, <1>11, <1>12, PolicyCommit DEF SecurityTypes, old, new

LEMMA CreateRuleSetSafe ==
  ASSUME SecurityConstants, SecurityInv, Careful, NEW w \in Workers, NEW p \in Sets,
         NEW rs \in SUBSET Rules, NEW kids \in SUBSET Sets, CreateRuleSet(w, p, rs, kids)
  PROVE  SecurityInv'
BY WriteCommit DEF CreateRuleSet

LEMMA UpdateRuleSetSafe ==
  ASSUME SecurityConstants, SecurityInv, Careful, NEW w \in Workers, NEW p \in Sets,
         NEW rs \in SUBSET Rules, NEW kids \in SUBSET Sets, UpdateRuleSet(w, p, rs, kids)
  PROVE  SecurityInv'
<1>1. /\ set[p] # None /\ WriteRuleSet(w, p, rs, kids)
      /\ Commit(w, "set", p, [rules |-> set[p].rules, kids |-> Children(p)], [rules |-> rs, kids |-> kids])
  BY DEF UpdateRuleSet
<1>2. SecurityTypes
  BY DEF SecurityInv
<1>3. PICK ors \in SUBSET Rules : ors = set[p].rules
  BY <1>1, <1>2 DEF SecurityTypes, SetRows
<1>4. PICK okids \in SUBSET Sets : okids = Children(p)
  BY <1>2 DEF Children, Exists, SecurityTypes
<1> QED BY <1>1, <1>3, <1>4, WriteCommit

LEMMA DeleteRuleSetSafe ==
  ASSUME SecurityConstants, SecurityInv, Careful, NEW w \in Workers, NEW p \in Sets,
         DeleteRuleSet(w, p)
  PROVE  SecurityInv'
<1>1. /\ Free(w, "set", p) /\ set[p] # None
      /\ \A s \in Sides : Users(p, s) = {} /\ (external # None => p \notin external[s])
      /\ Children(p) = {}
      /\ set' = [q \in Sets |-> IF q = p THEN None
                                ELSE IF set[q] # None /\ set[q].parent = p
                                     THEN [set[q] EXCEPT !.parent = None] ELSE set[q]]
      /\ Commit(w, "set", p, set[p], None)
      /\ classifier' = classifier /\ rule' = rule /\ group' = group /\ target' = target
      /\ external' = external /\ routes' = routes /\ l3' = l3
  BY DEF DeleteRuleSet
<1>2. "set" \in Policies /\ "set" \in Kinds
  BY DEF Policies, Kinds
<1>3. /\ \A v \in Workers : worker[v].kind = "none"
      /\ SecurityTypes /\ PolicyInv
      /\ \A i \in Items : Exact(classifier, rule, i)
  BY <1>1, <1>2, PolicyBefore
<1>4. PICK old : old = set[p]
  OBVIOUS
<1>5. Commit(w, "set", p, old, None)
  BY <1>1, <1>4
<1>6. /\ worker'[w].kind = "set" /\ worker'[w].on = p /\ worker'[w].old = old /\ worker'[w].new = None
      /\ sg' = sg
  BY <1>1, <1>2, <1>5, Starts
<1>7. worker'[w].kind = "set" /\ worker'[w].on = p /\ worker'[w].new = None
  BY <1>6
<1>8. DOMAIN set = Sets /\ Exists(set) = {q \in Sets : set[q] # None}
  BY <1>3 DEF SecurityTypes, Exists
<1>9. \A q \in Exists(set) : set[q].parent # p
  BY <1>1 DEF Children
<1>10. /\ set'[p] = None /\ \A q \in Sets : q # p => set'[q] = set[q]
       /\ set' \in [Sets -> SetRows \cup {None}]
  <2>1. set' = [q \in Sets |-> IF q = p THEN None ELSE set[q]]
    BY <1>1, <1>8, <1>9
  <2> QED BY <1>3, <2>1 DEF SecurityTypes
<1>11. Exists(set)' = Exists(set) \ {p}
  <2>1. DOMAIN set' = Sets
    BY <1>10
  <2>2. \A q : q \in Exists(set)' <=> q \in Sets /\ set'[q] # None
    BY <2>1 DEF Exists
  <2> QED BY <1>8, <1>10, <2>2
<1>12. \A q \in Exists(set) : set[q].parent # None => set[q].parent \in Exists(set) /\ set[q].parent # p
                                 /\ set[set[q].parent].parent = None
  BY <1>3, <1>8, <1>9 DEF PolicyInv, SecurityTypes, SetRows
<1>13. \A g \in Groups, s \in Sides : ~Has(g, p, s)
  BY <1>1, <1>3 DEF Users, Exists, Has, SecurityTypes
<1>14. PolicyInv'
  <2>1. ASSUME NEW q \in Sets, set'[q] # None
        PROVE  /\ \A r \in set'[q].rules : rule'[r] # None
               /\ set'[q].parent # None => set'[set'[q].parent] # None /\ set'[set'[q].parent].parent = None
    <3>1. q # p /\ q \in Exists(set) /\ set'[q] = set[q]
      BY <1>8, <1>10, <2>1
    <3>2. \A r \in set[q].rules : rule[r] # None
      BY <1>3, <1>8, <3>1 DEF PolicyInv
    <3> QED BY <1>1, <1>8, <1>10, <1>12, <3>1, <3>2
  <2>2. Distinct(classifier, rule, set)'
    <3>1. \A q \in Exists(set)' : q \in Exists(set) /\ set'[q] = set[q]
      BY <1>8, <1>10, <1>11
    <3>2. Distinct(classifier, rule, set)
      BY <1>3 DEF PolicyInv
    <3>3. classifier' = classifier /\ rule' = rule
      BY <1>1
    <3> QED BY <3>1, <3>2, <3>3 DEF Distinct
  <2>3. \A g \in Groups : group[g] # None => \A s \in Sides : group[g][s] \subseteq Exists(set) \ {p}
    BY <1>3, <1>13 DEF PolicyInv, Has
  <2>4. external # None => \A s \in Sides : external[s] \subseteq Exists(set) \ {p}
    BY <1>1, <1>3 DEF PolicyInv
  <2>5. \A t \in Targets : target[t] # None => group[target[t]] # None
    BY <1>3 DEF PolicyInv
  <2> QED BY <1>1, <1>11, <2>1, <2>2, <2>3, <2>4, <2>5 DEF PolicyInv
<1>15. \A v \in Workers : ~Busy(v, Outsides \cup {"group"})
  BY <1>3 DEF Busy, Outsides
<1>16. ASSUME \A i \in Items : Told(i)' <=> Told(i) PROVE SgFits(w)'
  <2>1. ASSUME NEW i \in Items PROVE Exact(classifier, rule, i)'
    <3> DEFINE q == i[1]
    <3>1. i \in sg' <=> q \in Exists(set) /\ Told(i)' /\ SaidBy(set[q].rules, classifier, rule, i)
      BY <1>3, <1>6, <1>16 DEF Exact
    <3>2. CASE q = p
      <4>1. Other(i[2]) \in Sides
        BY ItemIs, SidesAre
      <4>2. ~Told(i)
        BY <1>1, <1>13, <1>15, <3>2, <4>1, QuietTold DEF Told
      <4> QED BY <1>11, <1>16, <3>1, <3>2, <4>2 DEF Exact
    <3>3. CASE q # p
      <4>1. CASE q \notin Exists(set)
        BY <1>11, <3>1, <3>3, <4>1 DEF Exact
      <4>2. CASE q \in Exists(set)
        <5>1. set'[q] = set[q] /\ q \in Exists(set)'
          BY <1>8, <1>10, <1>11, <3>3, <4>2
        <5>2. set[q].parent # None => set'[set[q].parent] = set[set[q].parent]
          BY <1>8, <1>10, <1>12, <4>2
        <5>3. \A r : May(rule, q, r)' <=> May(rule, q, r)
          BY <1>1, <5>1, <5>2 DEF May
        <5>4. SaidBy(set[q].rules, classifier, rule, i)' <=> SaidBy(set[q].rules, classifier, rule, i)
          BY <1>1, <5>1, <5>3 DEF SaidBy
        <5> QED BY <3>1, <4>2, <5>1, <5>4 DEF Exact
      <4> QED BY <4>1, <4>2
    <3> QED BY <3>2, <3>3
  <2> HIDE DEF Exact
  <2> QED BY <1>7, <1>10, <2>1 DEF SgFits, Busy
<1> QED BY <1>1, <1>2, <1>3, <1>5, <1>10, <1>14, <1>16, PolicyCommit DEF SecurityTypes

--------------------
(* Changes of policy end *)

\* The postcommit method of a change leaves what the policy says.
LEMMA PolicyPost ==
  ASSUME SecurityConstants, SecurityInv, NEW w \in Workers, NEW kind \in Policies, Post(w, kind),
         sg' \subseteq Items, ports' = ports,
         \A i \in Items :
           i \in sg' <=> i[1] \in Exists(set) /\ Told(i) /\ SaidBy(set[i[1]].rules, classifier, rule, i)
  PROVE  SecurityInv'
<1>1. kind \in Kinds /\ kind \notin Outsides \cup {"group", "target", "none"}
  BY DEF Kinds, Policies, Outsides
<1>2. /\ worker[w].kind = kind /\ worker'[w].kind = "none"
      /\ \A v \in Workers : v # w => worker'[v] = worker[v] /\ worker[v].kind = "none"
      /\ worker' = [v \in Workers |-> worker'[v]]
      /\ classifier' = classifier /\ rule' = rule /\ set' = set /\ group' = group
      /\ target' = target /\ external' = external /\ routes' = routes /\ l3' = l3
      /\ JobsApart'
  BY <1>1, Ends
<1>3. SecurityTypes /\ PolicyInv
  BY DEF SecurityInv
<1>4. \A v \in Workers : worker'[v].kind = "none"
  BY <1>2
<1>5. SecurityTypes'
  BY <1>2, <1>3 DEF SecurityTypes
<1>6. PolicyInv'
  BY <1>2, <1>3, PolicyKept DEF PolicyInv
<1>7. \A v \in Workers : JobFits(v)'
  BY <1>4, JobDone
<1>8. /\ \A g, p, s : (ToldOf(g, p, s)' <=> ToldOf(g, p, s)) /\ (Has(g, p, s)' <=> Has(g, p, s))
      /\ \A i \in Items : Told(i)' <=> Told(i)
  <2>1. \A v \in Workers : worker[v].kind \notin Outsides \cup {"group"}
                             /\ worker'[v].kind \notin Outsides \cup {"group"}
    BY <1>1, <1>2, <1>4 DEF Outsides
  <2> QED BY <1>2, <2>1, PolicyTold
<1>9. Exists(set)' = Exists(set)
  BY <1>2 DEF Exists
<1>10. SgInv'
  <2>1. \A i \in Items : Exact(classifier, rule, i)'
    BY <1>2, <1>8, <1>9 DEF Exact, SaidBy, May
  <2>2. \A v \in Workers : worker'[v].kind \notin Policies
    BY <1>4 DEF Policies
  <2> QED BY <2>1, <2>2, SgKept
<1> QED BY <1>2, <1>5, <1>6, <1>7, <1>10 DEF SecurityInv

\* What a postcommit method about policy finds.
LEMMA PostBefore ==
  ASSUME SecurityConstants, SecurityInv, NEW w \in Workers, NEW kind \in Policies, Post(w, kind)
  PROVE  /\ worker[w].kind = kind
         /\ SecurityTypes /\ PolicyInv /\ SgFits(w)
         /\ \A i \in Items : i[5] \in _get_cidrs_mapping(i[1])[Other(i[2])] <=> Told(i)
         /\ \A p : \A s \in Sides : _get_cidrs_mapping(p)[s] \subseteq Remotes
<1>1. kind \in Kinds /\ kind \notin Outsides \cup {"group", "target", "none"}
  BY DEF Kinds, Policies, Outsides
<1>2. worker[w].kind = kind /\ \A v \in Workers : v # w => worker[v].kind = "none"
  BY <1>1, Ends
<1>3. \A v \in Workers : ~Busy(v, Outsides \cup {"group"})
  BY <1>1, <1>2 DEF Busy, Outsides
<1>4. SecurityTypes /\ PolicyInv /\ SgFits(w)
  BY DEF SecurityInv, SgInv
<1> QED BY <1>2, <1>3, <1>4, OwedIs, CidrsAreRemotes

\* No two rules of a set are for the same traffic, so that what goes is the old classifier's.
LEMMA UpdateClassifierPostSafe ==
  ASSUME SecurityConstants, SecurityInv, Careful, NEW w \in Workers, UpdateClassifierPost(w)
  PROVE  SecurityInv'
<1> DEFINE c == worker[w].on
           enforcing == {p \in Exists(set) : \E r \in set[p].rules :
                           rule[r] = c /\ r \in _get_enforced_prs_rules(p, {r})}
           of(k) == UNION {_add_or_remove_policy_rule_set_rule(p, k, _get_cidrs_mapping(p)) :
                             p \in enforcing}
<1>1. /\ Post(w, "classifier") /\ ports' = ports
      /\ sg' = (sg \ of(worker[w].old)) \cup of(worker[w].new)
  BY DEF UpdateClassifierPost
<1>2. "classifier" \in Policies
  BY DEF Policies
<1>3. /\ worker[w].kind = "classifier"
      /\ SecurityTypes /\ PolicyInv /\ SgFits(w)
      /\ \A i \in Items : i[5] \in _get_cidrs_mapping(i[1])[Other(i[2])] <=> Told(i)
      /\ \A p : \A s \in Sides : _get_cidrs_mapping(p)[s] \subseteq Remotes
  BY <1>1, <1>2, PostBefore
<1> DEFINE cs == [classifier EXCEPT ![c] = worker[w].old]
<1>4. /\ c \in Classifiers /\ worker[w].new = classifier[c]
      /\ worker[w].old \in [direction : Directions, traffic : Traffic]
      /\ Distinct(cs, rule, set)
      /\ \A i \in Items : Exact(cs, rule, i)
  BY <1>3 DEF SgFits, Busy
<1>5. PICK old \in ClassifierRows, new \in ClassifierRows : old = worker[w].old /\ new = worker[w].new
  BY <1>3, <1>4 DEF SecurityTypes, ClassifierRows
<1>6. cs[c] = old /\ classifier[c] = new /\ \A x \in Classifiers : x # c => cs[x] = classifier[x]
  BY <1>3, <1>4, <1>5 DEF SecurityTypes
<1> HIDE DEF cs
<1>7. \A p : p \in enforcing <=> p \in Exists(set) /\ \E r \in set[p].rules : rule[r] = c /\ May(rule, p, r)
  BY EnforcedIs
<1>8. \A i \in Items : \A k : i \in of(k) <=> i[1] \in enforcing /\ Says(k, i) /\ Told(i)
  <2> TAKE i \in Items
  <2> TAKE k
  <2>1. i \in of(k) <=> \E p \in enforcing :
          i \in _add_or_remove_policy_rule_set_rule(p, k, _get_cidrs_mapping(p))
    OBVIOUS
  <2> QED BY <1>3, <2>1, AddIs
<1>9. \A k \in ClassifierRows : of(k) \subseteq Items
  <2> TAKE k \in ClassifierRows
  <2>1. \A p \in enforcing : p \in Sets
    BY <1>3 DEF Exists, SecurityTypes
  <2>2. \A p \in enforcing : _add_or_remove_policy_rule_set_rule(p, k, _get_cidrs_mapping(p)) \subseteq Items
    BY <1>3, <2>1, AddTypes
  <2> QED BY <2>2
<1> HIDE DEF of, enforcing
<1>10. sg' = (sg \ of(old)) \cup of(new)
  BY <1>1, <1>5
<1>11. sg' \subseteq Items
  BY <1>3, <1>9, <1>10 DEF SecurityTypes
<1>12. ASSUME NEW i \in Items
       PROVE  i \in sg' <=> i[1] \in Exists(set) /\ Told(i) /\ SaidBy(set[i[1]].rules, classifier, rule, i)
  <2> DEFINE p == i[1]
  <2>1. i \in sg <=> p \in Exists(set) /\ Told(i)
                       /\ \E r \in set[p].rules : May(rule, p, r) /\ Says(cs[rule[r]], i)
    BY <1>4 DEF Exact, SaidBy
  <2>2. i \in sg' <=> (i \in sg /\ ~(p \in enforcing /\ Says(old, i) /\ Told(i)))
                        \/ (p \in enforcing /\ Says(new, i) /\ Told(i))
    BY <1>8, <1>10
  <2>3. SaidBy(set[p].rules, classifier, rule, i)
          <=> \E r \in set[p].rules : May(rule, p, r) /\ Says(classifier[rule[r]], i)
    BY DEF SaidBy
  <2>4. CASE p \notin Exists(set)
    BY <1>7, <2>1, <2>2, <2>4
  <2>5. CASE p \in Exists(set)
    <3>1. \A r \in set[p].rules : /\ rule[r] \in Classifiers
                                  /\ cs[rule[r]] = IF rule[r] = c THEN old ELSE classifier[rule[r]]
                                  /\ rule[r] = c => classifier[rule[r]] = new
      BY <1>3, <1>6, <2>5, RulesTyped
    <3>2. \A r, x \in set[p].rules : Says(cs[rule[r]], i) /\ Says(cs[rule[x]], i) => r = x
      BY <1>4, <2>5 DEF Distinct, Says
    <3>3. ASSUME i \in sg' PROVE Told(i) /\ \E r \in set[p].rules : May(rule, p, r) /\ Says(classifier[rule[r]], i)
      <4>1. CASE p \in enforcing /\ Says(new, i) /\ Told(i)
        BY <1>7, <3>1, <4>1
      <4>2. CASE i \in sg /\ ~(p \in enforcing /\ Says(old, i) /\ Told(i))
        <5>1. PICK r \in set[p].rules : May(rule, p, r) /\ Says(cs[rule[r]], i)
          BY <2>1, <4>2
        <5>2. rule[r] # c
          BY <1>7, <2>1, <2>5, <3>1, <4>2, <5>1
        <5> QED BY <2>1, <3>1, <4>2, <5>1, <5>2
      <4> QED BY <2>2, <3>3, <4>1, <4>2
    <3>4. ASSUME Told(i), NEW r \in set[p].rules, May(rule, p, r), Says(classifier[rule[r]], i) PROVE i \in sg'
      <4>1. CASE rule[r] = c
        BY <1>7, <2>2, <2>5, <3>1, <3>4, <4>1
      <4>2. CASE rule[r] # c
        <5>1. Says(cs[rule[r]], i) /\ i \in sg
          BY <2>1, <2>5, <3>1, <3>4, <4>2
        <5>2. ~(p \in enforcing /\ Says(old, i))
          BY <1>7, <3>1, <3>2, <4>2, <5>1
        <5> QED BY <2>2, <5>1, <5>2
      <4> QED BY <4>1, <4>2
    <3> QED BY <2>3, <2>5, <3>3, <3>4
  <2> QED BY <2>4, <2>5
<1> QED BY <1>1, <1>2, <1>11, <1>12, PolicyPost

LEMMA UpdateRulePostSafe ==
  ASSUME SecurityConstants, SecurityInv, Careful, NEW w \in Workers, UpdateRulePost(w)
  PROVE  SecurityInv'
<1> DEFINE on == worker[w].on
           ps == {p \in Exists(set) : on \in set[p].rules}
           gone == UNION {_add_or_remove_policy_rule_set_rule(p, classifier[worker[w].old],
                            _get_cidrs_mapping(p)) : p \in ps}
           come == UNION {_manage_policy_rule_set_rules(p, _get_enforced_prs_rules(p, {on}),
                            _get_cidrs_mapping(p)) : p \in ps}
<1>1. Post(w, "rule") /\ ports' = ports /\ sg' = (sg \ gone) \cup come
  BY DEF UpdateRulePost
<1>2. "rule" \in Policies
  BY DEF Policies
<1>3. /\ worker[w].kind = "rule"
      /\ SecurityTypes /\ PolicyInv /\ SgFits(w)
      /\ \A i \in Items : i[5] \in _get_cidrs_mapping(i[1])[Other(i[2])] <=> Told(i)
      /\ \A p : \A s \in Sides : _get_cidrs_mapping(p)[s] \subseteq Remotes
  BY <1>1, <1>2, PostBefore
<1> DEFINE rl == [rule EXCEPT ![on] = worker[w].old]
<1>4. /\ on \in Rules /\ worker[w].new = rule[on] /\ worker[w].old \in Classifiers
      /\ rule[on] # None
      /\ Distinct(classifier, rl, set)
      /\ \A p \in Sets : set[p] # None /\ on \in set[p].rules => Children(p) = {}
      /\ \A i \in Items : Exact(classifier, rl, i)
  BY <1>3 DEF SgFits, Busy
<1>5. PICK old \in Classifiers, r0 \in Rules : old = worker[w].old /\ r0 = on
  BY <1>4
<1>6. rl[r0] = old /\ \A x \in Rules : x # r0 => rl[x] = rule[x]
  BY <1>3, <1>4, <1>5 DEF SecurityTypes
<1> HIDE DEF rl
<1>7. \A p : p \in ps <=> p \in Exists(set) /\ r0 \in set[p].rules
  BY <1>5
<1>8. \A i \in Items : i \in gone <=> i[1] \in ps /\ Says(classifier[old], i) /\ Told(i)
  <2> TAKE i \in Items
  <2>1. i \in gone <=> \E p \in ps :
          i \in _add_or_remove_policy_rule_set_rule(p, classifier[old], _get_cidrs_mapping(p))
    BY <1>5
  <2> QED BY <1>3, <2>1, AddIs
<1>9. \A i \in Items : i \in come <=> i[1] \in ps /\ May(rule, i[1], r0) /\ Says(classifier[rule[r0]], i) /\ Told(i)
  <2> TAKE i \in Items
  <2>1. i \in come <=> \E p \in ps :
          i \in _manage_policy_rule_set_rules(p, _get_enforced_prs_rules(p, {r0}), _get_cidrs_mapping(p))
    BY <1>5
  <2>2. \A p : \A r : r \in _get_enforced_prs_rules(p, {r0}) <=> r = r0 /\ May(rule, p, r)
    BY EnforcedIs
  <2>3. \A p : i \in _manage_policy_rule_set_rules(p, _get_enforced_prs_rules(p, {r0}), _get_cidrs_mapping(p))
                <=> /\ i[1] = p /\ i[5] \in _get_cidrs_mapping(p)[Other(i[2])]
                    /\ \E r \in _get_enforced_prs_rules(p, {r0}) : Says(classifier[rule[r]], i)
    BY ManageIs
  <2>4. \A p : i \in _manage_policy_rule_set_rules(p, _get_enforced_prs_rules(p, {r0}), _get_cidrs_mapping(p))
                <=> i[1] = p /\ Told(i) /\ May(rule, p, r0) /\ Says(classifier[rule[r0]], i)
    <3> TAKE p
    <3>1. i[5] \in _get_cidrs_mapping(i[1])[Other(i[2])] <=> Told(i)
      BY <1>3
    <3>2. (\E r \in _get_enforced_prs_rules(p, {r0}) : Says(classifier[rule[r]], i))
             <=> May(rule, p, r0) /\ Says(classifier[rule[r0]], i)
      BY <2>2
    <3>3. i \in _manage_policy_rule_set_rules(p, _get_enforced_prs_rules(p, {r0}), _get_cidrs_mapping(p))
                <=> /\ i[1] = p /\ i[5] \in _get_cidrs_mapping(p)[Other(i[2])]
                    /\ May(rule, p, r0) /\ Says(classifier[rule[r0]], i)
      BY <2>3, <3>2
    <3> QED BY <3>1, <3>3
  <2> HIDE DEF ps
  <2> QED BY <2>1, <2>4
<1>10. come \subseteq Items
  <2>1. ASSUME NEW p \in ps
        PROVE  _manage_policy_rule_set_rules(p, _get_enforced_prs_rules(p, {on}), _get_cidrs_mapping(p)) \subseteq Items
    <3>1. p \in Sets
      BY <1>3 DEF Exists, SecurityTypes
    <3>2. \A r \in _get_enforced_prs_rules(p, {on}) : r \in set[p].rules
      BY EnforcedIs
    <3>3. \A r \in _get_enforced_prs_rules(p, {on}) : classifier[rule[r]] \in ClassifierRows
      BY <1>3, <3>2, RulesTyped
    <3> QED BY <1>3, <3>1, <3>3, ManageTypes
  <2> QED BY <2>1
<1> HIDE DEF gone, come, ps
<1>11. sg' \subseteq Items
  BY <1>1, <1>3, <1>10 DEF SecurityTypes
<1>12. ASSUME NEW i \in Items
       PROVE  i \in sg' <=> i[1] \in Exists(set) /\ Told(i) /\ SaidBy(set[i[1]].rules, classifier, rule, i)
  <2> DEFINE p == i[1]
  <2>1. i \in sg <=> p \in Exists(set) /\ Told(i)
                       /\ \E r \in set[p].rules : May(rl, p, r) /\ Says(classifier[rl[r]], i)
    BY <1>4 DEF Exact, SaidBy
  <2>2. i \in sg' <=> (i \in sg /\ ~(p \in ps /\ Says(classifier[old], i) /\ Told(i)))
                        \/ (p \in ps /\ May(rule, p, r0) /\ Says(classifier[rule[r0]], i) /\ Told(i))
    BY <1>1, <1>8, <1>9
  <2>3. SaidBy(set[p].rules, classifier, rule, i)
          <=> \E r \in set[p].rules : May(rule, p, r) /\ Says(classifier[rule[r]], i)
    BY DEF SaidBy
  <2>4. CASE p \notin Exists(set)
    BY <1>7, <2>1, <2>2, <2>4
  <2>5. CASE p \in Exists(set)
    <3>1. \A r \in set[p].rules : r \in Rules /\ rl[r] = IF r = r0 THEN old ELSE rule[r]
      BY <1>3, <1>6, <2>5, RulesTyped
    <3>2. \A r, x \in set[p].rules : Says(classifier[rl[r]], i) /\ Says(classifier[rl[x]], i) => r = x
      BY <1>4, <2>5 DEF Distinct, Says
    <3>3. \A r \in set[p].rules : r # r0 => (May(rl, p, r) <=> May(rule, p, r))
      <4> TAKE r \in set[p].rules
      <4>1. CASE set[p].parent = None
        BY <4>1 DEF May
      <4>2. CASE set[p].parent # None
        <5> DEFINE q == set[p].parent
        <5>1. q \in Exists(set) /\ p \in Children(q)
          BY <1>3, <2>5, <4>2 DEF PolicyInv, Exists, SecurityTypes, SetRows, Children
        <5>2. r0 \notin set[q].rules
          BY <1>3, <1>4, <1>5, <5>1 DEF Exists, SecurityTypes
        <5>3. \A x \in set[q].rules : rl[x] = rule[x]
          BY <1>3, <1>6, <5>1, <5>2, RulesTyped
        <5>4. r # r0 => rl[r] = rule[r]
          BY <3>1
        <5> QED BY <5>3, <5>4 DEF May
      <4> QED BY <4>1, <4>2
    <3>4. ASSUME i \in sg' PROVE Told(i) /\ \E r \in set[p].rules : May(rule, p, r) /\ Says(classifier[rule[r]], i)
      <4>1. CASE p \in ps /\ May(rule, p, r0) /\ Says(classifier[rule[r0]], i) /\ Told(i)
        BY <1>7, <4>1
      <4>2. CASE i \in sg /\ ~(p \in ps /\ Says(classifier[old], i) /\ Told(i))
        <5>1. PICK r \in set[p].rules : May(rl, p, r) /\ Says(classifier[rl[r]], i)
          BY <2>1, <4>2
        <5>2. r # r0
          BY <1>6, <1>7, <2>1, <2>5, <4>2, <5>1
        <5> QED BY <2>1, <3>1, <3>3, <4>2, <5>1, <5>2
      <4> QED BY <2>2, <3>4, <4>1, <4>2
    <3>5. ASSUME Told(i), NEW r \in set[p].rules, May(rule, p, r), Says(classifier[rule[r]], i) PROVE i \in sg'
      <4>1. CASE r = r0
        BY <1>7, <2>2, <2>5, <3>5, <4>1
      <4>2. CASE r # r0
        <5>1. Says(classifier[rl[r]], i) /\ i \in sg
          BY <2>1, <2>5, <3>1, <3>3, <3>5, <4>2
        <5>2. ~(p \in ps /\ Says(classifier[old], i))
          BY <1>6, <1>7, <3>2, <4>2, <5>1
        <5> QED BY <2>2, <5>1, <5>2
      <4> QED BY <4>1, <4>2
    <3> QED BY <2>3, <2>5, <3>4, <3>5
  <2> QED BY <2>4, <2>5
<1> QED BY <1>1, <1>2, <1>11, <1>12, PolicyPost

LEMMA DeleteRuleSetPostSafe ==
  ASSUME SecurityConstants, SecurityInv, PortsInv, NEW w \in Workers, DeleteRuleSetPost(w)
  PROVE  SecurityInv'
<1>1. /\ Post(w, "set") /\ worker[w].new = None
      /\ sg' = {i \in sg : i[1] # worker[w].on}
      /\ ports' = [t \in Targets |-> {i \in ports[t] : i[1] # worker[w].on}]
  BY DEF DeleteRuleSetPost
<1>2. "set" \in Policies
  BY DEF Policies
<1>3. /\ worker[w].kind = "set"
      /\ SecurityTypes /\ PolicyInv /\ SgFits(w)
  BY <1>1, <1>2, PostBefore
<1>4. set[worker[w].on] = None /\ \A i \in Items : Exact(classifier, rule, i)
  BY <1>1, <1>3 DEF SgFits, Busy
<1>5. worker[w].on \notin Exists(set)
  BY <1>4 DEF Exists
<1>6. sg' = sg /\ sg \subseteq Items
  BY <1>1, <1>3, <1>4, <1>5 DEF Exact, SecurityTypes
<1>7. ports' = ports
  <2>1. \A t \in Targets : \A i \in ports[t] : i[1] \in Exists(set)
    BY DEF PortsInv, PortFits
  <2>2. \A t \in Targets : {i \in ports[t] : i[1] # worker[w].on} = ports[t]
    BY <1>5, <2>1
  <2> QED BY <1>1, <1>3, <2>2 DEF SecurityTypes
<1> QED BY <1>1, <1>2, <1>4, <1>6, <1>7, PolicyPost DEF Exact

\* Children that came or went are looked at, and all when rules did.
LEMMA WriteRuleSetPostSafe ==
  ASSUME SecurityConstants, SecurityInv, Careful, NEW w \in Workers, WriteRuleSetPost(w)
  PROVE  SecurityInv'
<1> DEFINE map(q) == _get_cidrs_mapping(q)
           own == Apply(worker[w].on, worker[w].new.rules \ worker[w].old.rules,
                        Remove(worker[w].on, worker[w].old.rules \ worker[w].new.rules, sg))
           kids == Recomputed(worker[w].old, worker[w].new)
<1>1. /\ Post(w, "set") /\ worker[w].new # None /\ ports' = ports
      /\ sg' = _recompute_policy_rule_sets(kids, own)
  BY DEF WriteRuleSetPost
<1>2. "set" \in Policies
  BY DEF Policies
<1>3. /\ worker[w].kind = "set"
      /\ SecurityTypes /\ PolicyInv /\ SgFits(w)
      /\ \A i \in Items : i[5] \in map(i[1])[Other(i[2])] <=> Told(i)
      /\ \A p : \A s \in Sides : map(p)[s] \subseteq Remotes
  BY <1>1, <1>2, PostBefore
<1>4. /\ worker[w].on \in Sets /\ set[worker[w].on] # None
      /\ worker[w].old \in Writes
      /\ worker[w].new = [rules |-> set[worker[w].on].rules, kids |-> Children(worker[w].on)]
      /\ \A r \in worker[w].old.rules : rule[r] # None
      /\ \A r, x \in worker[w].old.rules : r # x => classifier[rule[r]].traffic # classifier[rule[x]].traffic
      /\ worker[w].old.kids \cup worker[w].new.kids \subseteq Exists(set) \ {worker[w].on}
      /\ \A i \in Items :
           IF i[1] = worker[w].on
           THEN i \in sg <=> Told(i) /\ SaidBy(worker[w].old.rules, classifier, rule, i)
           ELSE IF i[1] \in kids
           THEN i \in sg => Told(i) /\ \E r \in set[i[1]].rules : Says(classifier[rule[r]], i)
           ELSE Exact(classifier, rule, i)
  BY <1>1, <1>3 DEF SgFits, Busy
<1>5. PICK p \in Sets, ors \in SUBSET Rules, rs \in SUBSET Rules :
        p = worker[w].on /\ ors = worker[w].old.rules /\ rs = worker[w].new.rules
  <2>1. worker[w].on \in Sets /\ worker[w].old.rules \in SUBSET Rules
    BY <1>4 DEF Writes
  <2>2. worker[w].new.rules \in SUBSET Rules
    BY <1>3, <1>4, <2>1 DEF SecurityTypes, SetRows
  <2> QED
    BY <2>1, <2>2
<1>6. /\ p \in Exists(set) /\ rs = set[p].rules
      /\ kids \subseteq Exists(set) \ {p}
  <2>1. p \in Exists(set)
    BY <1>3, <1>4, <1>5 DEF Exists, SecurityTypes
  <2>2. kids \subseteq worker[w].old.kids \cup worker[w].new.kids
    BY DEF Recomputed
  <2> QED BY <1>4, <1>5, <2>1, <2>2
<1>7. own = Apply(p, rs \ ors, Remove(p, ors \ rs, sg))
  BY <1>5
<1> HIDE DEF map, own, kids
<1>8. \A i \in Items : \A q, xs :
        i \in _manage_policy_rule_set_rules(q, xs, map(q))
          <=> i[1] = q /\ Told(i) /\ \E r \in xs : Says(classifier[rule[r]], i)
  <2> TAKE i \in Items
  <2> TAKE q, xs
  <2>1. i \in _manage_policy_rule_set_rules(q, xs, map(q))
          <=> i[1] = q /\ i[5] \in map(q)[Other(i[2])] /\ \E r \in xs : Says(classifier[rule[r]], i)
    BY ManageIs
  <2> QED BY <1>3, <2>1
<1>9. \A q \in Exists(set) : \A xs : (\A r \in xs : r \in set[q].rules) =>
        _manage_policy_rule_set_rules(q, xs, map(q)) \subseteq Items
  <2> SUFFICES ASSUME NEW q \in Exists(set), NEW xs, \A r \in xs : r \in set[q].rules
               PROVE  _manage_policy_rule_set_rules(q, xs, map(q)) \subseteq Items
    OBVIOUS
  <2>1. q \in Sets /\ \A r \in xs : classifier[rule[r]] \in ClassifierRows
    BY <1>3, RulesTyped
  <2> QED BY <1>3, <2>1, ManageTypes
<1>10. \A q, xs, rules : Apply(q, xs, rules)
         = rules \cup _manage_policy_rule_set_rules(q, _get_enforced_prs_rules(q, xs), map(q))
  BY DEF Apply, map
<1>11. \A q, xs, rules : Remove(q, xs, rules) = rules \ _manage_policy_rule_set_rules(q, xs, map(q))
  BY DEF Remove, map
<1>12. own \subseteq Items
  <2>1. \A r \in _get_enforced_prs_rules(p, rs \ ors) : r \in set[p].rules
    BY <1>6, EnforcedIs
  <2>2. _manage_policy_rule_set_rules(p, _get_enforced_prs_rules(p, rs \ ors), map(p)) \subseteq Items
    BY <1>6, <1>9, <2>1
  <2> QED BY <1>3, <1>7, <1>10, <1>11, <2>2 DEF SecurityTypes
<1>13. ASSUME NEW i \in Items
       PROVE  /\ i[1] = p => (i \in own <=> Told(i) /\ SaidBy(rs, classifier, rule, i))
              /\ i[1] # p => (i \in own <=> i \in sg)
  <2>1. i \in own <=>
          \/ i \in sg /\ ~(i[1] = p /\ Told(i) /\ \E r \in ors \ rs : Says(classifier[rule[r]], i))
          \/ i[1] = p /\ Told(i) /\ \E r \in _get_enforced_prs_rules(p, rs \ ors) : Says(classifier[rule[r]], i)
    BY <1>7, <1>8, <1>10, <1>11
  <2>2. \A r : r \in _get_enforced_prs_rules(p, rs \ ors)
                 <=> r \in (IF rs \ ors = {} THEN rs ELSE rs \ ors) /\ May(rule, p, r)
    BY <1>6, EnforcedIs
  <2>3. CASE i[1] # p
    BY <2>1, <2>3
  <2>4. CASE i[1] = p
    <3>1. i \in sg <=> Told(i) /\ \E r \in ors : May(rule, p, r) /\ Says(classifier[rule[r]], i)
      BY <1>4, <1>5, <2>4 DEF SaidBy
    <3>2. \A r, x \in ors : Says(classifier[rule[r]], i) /\ Says(classifier[rule[x]], i) => r = x
      BY <1>4, <1>5 DEF Says
    <3>3. SaidBy(rs, classifier, rule, i) <=> \E r \in rs : May(rule, p, r) /\ Says(classifier[rule[r]], i)
      BY <2>4 DEF SaidBy
    <3>4. ASSUME i \in own PROVE Told(i) /\ \E r \in rs : May(rule, p, r) /\ Says(classifier[rule[r]], i)
      <4>1. CASE \E r \in _get_enforced_prs_rules(p, rs \ ors) : Says(classifier[rule[r]], i)
        <5>1. PICK r \in _get_enforced_prs_rules(p, rs \ ors) : Says(classifier[rule[r]], i)
          BY <4>1
        <5>2. r \in rs /\ May(rule, p, r)
          BY <2>2
        <5>3. Told(i)
          BY <2>1, <3>1, <3>4
        <5> QED BY <5>1, <5>2, <5>3
      <4>2. CASE ~\E r \in _get_enforced_prs_rules(p, rs \ ors) : Says(classifier[rule[r]], i)
        BY <2>1, <2>4, <3>1, <3>4, <4>2
      <4> QED BY <4>1, <4>2
    <3>5. ASSUME Told(i), NEW r \in rs, May(rule, p, r), Says(classifier[rule[r]], i) PROVE i \in own
      <4>1. CASE r \in ors
        <5>1. i \in sg
          BY <3>1, <3>5, <4>1
        <5>2. ~\E x \in ors \ rs : Says(classifier[rule[x]], i)
          BY <3>2, <3>5, <4>1
        <5> QED BY <2>1, <5>1, <5>2
      <4>2. CASE r \notin ors
        <5>1. r \in rs \ ors
          BY <4>2
        <5>2. r \in _get_enforced_prs_rules(p, rs \ ors)
          BY <2>2, <3>5, <5>1
        <5> QED BY <2>1, <2>4, <3>5, <5>2
      <4> QED BY <4>1, <4>2
    <3> QED BY <2>4, <3>3, <3>4, <3>5
  <2> QED BY <2>3, <2>4
<1> DEFINE of(q) == Apply(q, set[q].rules, Remove(q, Refused(q), {i \in own : i[1] = q}))
<1>14. sg' = (UNION {of(q) : q \in kids}) \cup {i \in own : i[1] \notin kids}
  BY <1>1, Zenon DEF _recompute_policy_rule_sets
<1>15. ASSUME NEW q \in kids
       PROVE  /\ of(q) \subseteq Items
              /\ \A i \in Items : i \in of(q) <=> i[1] = q /\ Told(i) /\ SaidBy(set[q].rules, classifier, rule, i)
  <2>1. q \in Exists(set) /\ q # p
    BY <1>6
  <2>2. \A r : r \in _get_enforced_prs_rules(q, set[q].rules) <=> r \in set[q].rules /\ May(rule, q, r)
    BY EnforcedIs
  <2>3. \A r : r \in Refused(q) <=> r \in set[q].rules /\ ~May(rule, q, r)
    BY DEF Refused, May, ClassifiersOf
  <2>4. of(q) = ({i \in own : i[1] = q} \ _manage_policy_rule_set_rules(q, Refused(q), map(q)))
                  \cup _manage_policy_rule_set_rules(q, _get_enforced_prs_rules(q, set[q].rules), map(q))
    BY <1>10, <1>11
  <2> HIDE DEF of
  <2>5. of(q) \subseteq Items
    BY <1>9, <1>12, <2>1, <2>2, <2>4
  <2>6. ASSUME NEW i \in Items
        PROVE  i \in of(q) <=> i[1] = q /\ Told(i) /\ SaidBy(set[q].rules, classifier, rule, i)
    <3>1. i \in of(q) <=>
            \/ i \in own /\ i[1] = q
                 /\ ~(Told(i) /\ \E r \in Refused(q) : Says(classifier[rule[r]], i))
            \/ i[1] = q /\ Told(i)
                 /\ \E r \in _get_enforced_prs_rules(q, set[q].rules) : Says(classifier[rule[r]], i)
      BY <1>8, <2>4
    <3>2. CASE i[1] # q
      BY <3>1, <3>2
    <3>3. CASE i[1] = q
      <4>1. i \in own => Told(i) /\ \E r \in set[q].rules : Says(classifier[rule[r]], i)
        BY <1>4, <1>5, <1>13, <2>1, <3>3
      <4>2. SaidBy(set[q].rules, classifier, rule, i)
              <=> \E r \in set[q].rules : May(rule, q, r) /\ Says(classifier[rule[r]], i)
        BY <3>3 DEF SaidBy
      <4> QED BY <2>2, <2>3, <3>1, <3>3, <4>1, <4>2
    <3> QED BY <3>2, <3>3
  <2> QED BY <2>5, <2>6
<1> HIDE DEF of
<1>16. sg' \subseteq Items
  BY <1>12, <1>14, <1>15
<1>17. ASSUME NEW i \in Items
       PROVE  i \in sg' <=> i[1] \in Exists(set) /\ Told(i) /\ SaidBy(set[i[1]].rules, classifier, rule, i)
  <2>1. i \in sg' <=> (\E q \in kids : i \in of(q)) \/ (i \in own /\ i[1] \notin kids)
    BY <1>14
  <2>2. CASE i[1] \in kids
    BY <1>6, <1>15, <2>1, <2>2
  <2>3. CASE i[1] \notin kids
    <3>1. i \in sg' <=> i \in own
      BY <1>15, <2>1, <2>3
    <3>2. CASE i[1] = p
      BY <1>6, <1>13, <3>1, <3>2
    <3>3. CASE i[1] # p
      BY <1>4, <1>5, <1>13, <2>3, <3>1, <3>3 DEF Exact
    <3> QED BY <3>2, <3>3
  <2> QED BY <2>2, <2>3
<1> QED BY <1>1, <1>2, <1>16, <1>17, PolicyPost

--------------------
(* Security groups: the theorem *)

\* No rows, no rules.
LEMMA SecurityStarts ==
  ASSUME SecurityConstants, Init
  PROVE  SecurityInv
<1>1. \A w \in Workers : worker[w] = Idle
  BY DEF Init
<1>2. \A w \in Workers : worker[w].kind = "none"
  BY <1>1 DEF Idle
<1>3. /\ rule = [r \in Rules |-> None] /\ set = [p \in Sets |-> None]
      /\ group = [g \in Groups |-> None] /\ target = [t \in Targets |-> None]
      /\ external = None /\ routes = {} /\ l3 = {}
      /\ sg = {} /\ ports = [t \in Targets |-> {}]
      /\ worker = [w \in Workers |-> Idle]
      /\ classifier \in [Classifiers -> [direction : Directions, traffic : Traffic]]
  BY DEF Init
<1>4. Exists(set) = {}
  BY <1>3 DEF Exists
<1>5. SecurityTypes
  <2>1. worker = [w \in Workers |-> worker[w]]
    BY <1>3
  <2>2. ports \in [Targets -> SUBSET (Sets \X Sides)]
    BY <1>3
  <2> QED
    BY <1>3, <2>1, <2>2 DEF SecurityTypes
<1>6. PolicyInv
  BY <1>3, <1>4 DEF PolicyInv, Distinct
<1>7. \A w \in Workers : JobFits(w) /\ SgFits(w)
  BY <1>2 DEF JobFits, SgFits, Busy
<1>8. JobsApart
  BY <1>2 DEF JobsApart, Busy, Policies, Outsides
<1>9. \A i \in Items : Exact(classifier, rule, i)
  BY <1>3, <1>4 DEF Exact
<1> QED
  BY <1>5, <1>6, <1>7, <1>8, <1>9 DEF SecurityInv, SgInv

\* Each step keeps the invariant: of policy,
LEMMA PolicySafe ==
  ASSUME SecurityConstants, SecurityInv, PortsInv, Careful, NEW w \in Workers, Policy(w)
  PROVE  SecurityInv'
<1>1. CASE \E c \in Classifiers : \E d \in Directions, t \in Traffic :
             UpdateClassifier(w, c, [direction |-> d, traffic |-> t])
  <2>1. PICK c \in Classifiers, d \in Directions, t \in Traffic :
          UpdateClassifier(w, c, [direction |-> d, traffic |-> t])
    BY <1>1
  <2>2. [direction |-> d, traffic |-> t] \in [direction : Directions, traffic : Traffic]
    OBVIOUS
  <2> QED
    BY <2>1, <2>2, UpdateClassifierSafe
<1>2. CASE UpdateClassifierPost(w)
  BY <1>2, UpdateClassifierPostSafe
<1>3. CASE \E r \in Rules : \/ \E c \in Classifiers : CreateRule(w, r, c) \/ UpdateRule(w, r, c)
                            \/ DeleteRule(w, r)
  BY <1>3, CreateRuleSafe, UpdateRuleSafe, DeleteRuleSafe
<1>4. CASE UpdateRulePost(w)
  BY <1>4, UpdateRulePostSafe
<1>5. CASE \E p \in Sets : \/ \E rs \in SUBSET Rules, kids \in SUBSET Sets :
                                CreateRuleSet(w, p, rs, kids) \/ UpdateRuleSet(w, p, rs, kids)
                           \/ DeleteRuleSet(w, p)
  BY <1>5, CreateRuleSetSafe, UpdateRuleSetSafe, DeleteRuleSetSafe
<1>6. CASE WriteRuleSetPost(w) \/ DeleteRuleSetPost(w)
  BY <1>6, WriteRuleSetPostSafe, DeleteRuleSetPostSafe
<1> QED
  BY <1>1, <1>2, <1>3, <1>4, <1>5, <1>6 DEF Policy

\* of groups and targets,
LEMMA EndpointsSafe ==
  ASSUME SecurityConstants, SecurityInv, PortsInv, WorkersWhole, Careful, NEW w \in Workers, Endpoints(w)
  PROVE  SecurityInv'
<1>1. CASE \E g \in Groups :
             \/ \E rel \in Relations : CreateGroup(w, g, rel) \/ UpdateGroup(w, g, rel)
             \/ DeleteGroup(w, g)
             \/ \E t \in Targets : CreateTarget(w, t, g)
  BY <1>1, CreateGroupSafe, UpdateGroupSafe, DeleteGroupSafe, CreateTargetSafe
<1>2. CASE SetGroupRules(w) \/ LeaveOldSgs(w) \/ UnsetGroupRules(w)
  BY <1>2, SetGroupRulesSafe, LeaveOldSgsSafe, UnsetGroupRulesSafe
<1>3. CASE \E t \in Targets : DeleteTarget(w, t) \/ ReadPort(w, t)
  BY <1>3, DeleteTargetSafe, ReadPortSafe
<1>4. CASE ReadGroup(w) \/ WritePort(w) \/ DeleteTargetPost(w)
  BY <1>4, ReadGroupSafe, WritePortSafe, DeleteTargetPostSafe
<1> QED
  BY <1>1, <1>2, <1>3, <1>4 DEF Endpoints

\* and of the outside.
LEMMA OutsideSafe ==
  ASSUME SecurityConstants, SecurityInv, Careful, ~UseSubnetpools, NEW w \in Workers, Outside(w)
  PROVE  SecurityInv'
<1>1. CASE \E rel \in Relations : CreateExternalPolicy(w, rel) \/ UpdateExternalPolicy(w, rel)
  BY <1>1, CreateExternalPolicySafe, UpdateExternalPolicySafe
<1>2. CASE DeleteExternalPolicy(w) \/ ExternalPolicyPost(w)
  BY <1>2, DeleteExternalPolicySafe, ExternalPolicyPostSafe
<1>3. CASE \E to \in SUBSET Routes : UpdateExternalSegment(w, to)
  BY <1>3, UpdateExternalSegmentSafe
<1>4. CASE UpdateExternalSegmentPost(w)
  BY <1>4, UpdateExternalSegmentPostSafe
<1>5. CASE \E x \in L3s : CreateL3Policy(w, x) \/ DeleteL3Policy(w, x)
  BY <1>5, CreateL3PolicySafe, DeleteL3PolicySafe
<1>6. CASE CreateL3PolicyPost(w) \/ DeleteL3PolicyPost(w)
  BY <1>6, CreateL3PolicyPostSafe, DeleteL3PolicyPostSafe
<1> QED
  BY <1>1, <1>2, <1>3, <1>4, <1>5, <1>6 DEF Outside

LEMMA SecurityStutters ==
  ASSUME SecurityInv, UNCHANGED vars
  PROVE  SecurityInv'
<1>1. /\ classifier' = classifier /\ rule' = rule /\ set' = set /\ group' = group
      /\ target' = target /\ external' = external /\ routes' = routes /\ l3' = l3
      /\ sg' = sg /\ ports' = ports /\ worker' = worker
  BY DEF vars, rows
<1>2. SecurityTypes' /\ PolicyInv'
  BY <1>1 DEF SecurityInv, SecurityTypes, PolicyInv, Distinct, Exists
<1>3. Exists(set)' = Exists(set) /\ \A p : Children(p)' = Children(p)
  BY <1>1 DEF Exists, Children
<1>4. \A w \in Workers : JobFits(w)'
  BY <1>1, <1>3 DEF SecurityInv, JobFits, Busy
<1>5. JobsApart'
  BY <1>1 DEF SecurityInv, JobsApart, Busy
<1>6. \A g, p, s : (ToldOf(g, p, s)' <=> ToldOf(g, p, s)) /\ (Has(g, p, s)' <=> Has(g, p, s))
  BY <1>1 DEF ToldOf, Has, Busy
<1>7. \A i \in Items : Told(i)' <=> Told(i)
  <2> SUFFICES ASSUME NEW i \in Items PROVE Told(i)' <=> Told(i)
    OBVIOUS
  <2>1. \A p, s : ToldOutside(p, s)' <=> ToldOutside(p, s)
    BY <1>1, FrameOutside
  <2>2. \A b : ToldBlock(b)' <=> ToldBlock(b)
    BY <1>1, FrameBlock
  <2> QED
    BY <1>6, <2>1, <2>2 DEF Told
<1>8. SgInv'
  <2>1. \A i \in Items : i \in sg' <=> i \in sg
    BY <1>1
  <2>2. \A i \in Items : Exact(classifier, rule, i)' <=> Exact(classifier, rule, i)
    BY <1>1, <1>3, <1>7 DEF Exact, SaidBy, May
  <2>3. NoPolicy' <=> NoPolicy
    BY <1>1 DEF NoPolicy, Busy
  <2>4. ASSUME NEW w \in Workers PROVE SgFits(w)'
    <3> DEFINE q == worker[w]
               cs == [classifier EXCEPT ![q.on] = q.old]
               rl == [rule EXCEPT ![q.on] = q.old]
    <3>1. SgFits(w)
      BY DEF SecurityInv, SgInv
    <3>2. q' = q /\ cs' = cs /\ rl' = rl
      BY <1>1
    <3>3. \A i \in Items : Exact(cs, rule, i)' <=> Exact(cs, rule, i)
      BY <1>1, <1>3, <1>7, <3>2 DEF Exact, SaidBy, May
    <3>4. \A i \in Items : Exact(classifier, rl, i)' <=> Exact(classifier, rl, i)
      BY <1>1, <1>3, <1>7, <3>2 DEF Exact, SaidBy, May
    <3>5. /\ Distinct(cs, rule, set)' <=> Distinct(cs, rule, set)
          /\ Distinct(classifier, rl, set)' <=> Distinct(classifier, rl, set)
      BY <1>1, <1>3, <3>2 DEF Distinct
    <3>6. CASE Busy(w, {"classifier"})
      BY <1>1, <3>1, <3>3, <3>5, <3>6 DEF SgFits, Busy
    <3>7. CASE Busy(w, {"rule"})
      BY <1>1, <1>3, <3>1, <3>4, <3>5, <3>7 DEF SgFits, Busy
    <3>8. CASE Busy(w, {"set"})
      BY <1>1, <1>3, <1>7, <2>2, <3>1, <3>8 DEF SgFits, Busy, SaidBy, May, Recomputed
    <3>9. CASE ~Busy(w, {"classifier", "rule", "set"})
      BY <1>1, <3>9 DEF SgFits, Busy
    <3> QED
      BY <3>6, <3>7, <3>8, <3>9 DEF Busy
  <2> QED
    BY <2>2, <2>3, <2>4 DEF SecurityInv, SgInv
<1> QED
  BY <1>2, <1>4, <1>5, <1>8 DEF SecurityInv

--------------------
(* The ports of targets *)

\* A port fits while its target, its group and those who work on it stay.
LEMMA PortFrame ==
  ASSUME NEW t \in Targets, PortFits(t), ports'[t] = ports[t], target'[t] = target[t],
         \A i \in ports[t] : i[1] \in Exists(set)',
         Waits(t)' <=> Waits(t),
         target[t] # None =>
           /\ group'[target[t]] = group[target[t]]
           /\ \A v \in Workers :
                /\ (worker'[v].kind = "group" /\ worker'[v].on = target[t])
                     <=> (worker[v].kind = "group" /\ worker[v].on = target[t])
                /\ worker[v].kind = "group" /\ worker[v].on = target[t] =>
                     /\ worker'[v].old = worker[v].old /\ worker'[v].stage = worker[v].stage
                     /\ t \in worker'[v].todo <=> t \in worker[v].todo
  PROVE  PortFits(t)'
<1>1. CASE target[t] = None
  BY <1>1 DEF PortFits
<1>2. CASE target[t] # None
  <2> DEFINE g == target[t]
  <2>1. \A p, s : Has(g, p, s)' <=> Has(g, p, s)
    BY <1>2 DEF Has
  <2>2. \A v \in Workers : Working(v, g)' <=> Working(v, g)
    BY <1>2 DEF Working, Busy
  <2>3. \A v \in Workers : Working(v, g) =>
          \A p, s : (Late(v, t, p, s)' <=> Late(v, t, p, s)) /\ (Early(v, t, p, s)' <=> Early(v, t, p, s))
    BY <1>2 DEF Working, Busy, Late, Early
  <2>4. \A p \in Sets, s \in Sides :
       /\ <<p, s>> \in ports[t] => Has(g, p, s) \/ \E v \in Workers : Working(v, g) /\ Late(v, t, p, s)
       /\ ~Waits(t) /\ Has(g, p, s) /\ (\A v \in Workers : ~(Working(v, g) /\ Early(v, t, p, s)))
              => <<p, s>> \in ports[t]
    BY <1>2 DEF PortFits
  <2>5. \A p \in Sets, s \in Sides :
       /\ <<p, s>> \in ports'[t] => Has(g, p, s)' \/ \E v \in Workers : Working(v, g)' /\ Late(v, t, p, s)'
       /\ ~Waits(t)' /\ Has(g, p, s)' /\ (\A v \in Workers : ~(Working(v, g)' /\ Early(v, t, p, s)'))
              => <<p, s>> \in ports'[t]
    BY <2>1, <2>2, <2>3, <2>4
  <2> QED BY <1>2, <2>5 DEF PortFits
<1> QED BY <1>1, <1>2

\* A worker's list fits while what it has read stays, or its target goes.
LEMMA WorkFrame ==
  ASSUME NEW v \in Workers, HeldFits(v), WorkFits(v), worker'[v] = worker[v],
         Exists(set) \subseteq Exists(set)',
         \A u \in Targets : u \in worker[v].todo =>
           /\ target'[u] \in {target[u], None}
           /\ target'[u] # None => ports'[u] = ports[u],
         worker[v].kind = "group" =>
           \A x \in Workers : worker'[x].kind = "target" /\ worker'[x].new = worker[v].on =>
                                worker[x].kind = "target" /\ worker[x].new = worker[v].on,
         worker[v].kind = "target" /\ worker[v].new # None =>
           group'[worker[v].new] = group[worker[v].new],
         worker[v].kind = "target" /\ worker[v].new = None => group'[worker[v].old] # None
  PROVE  HeldFits(v)' /\ WorkFits(v)'
<1>1. HeldFits(v)'
  BY DEF HeldFits, Busy
<1>2. worker[v].kind = "group" => WorkFits(v)'
  <2> SUFFICES ASSUME worker[v].kind = "group" PROVE WorkFits(v)'
    OBVIOUS
  <2>1. /\ worker[v].stage \in {"start", "associate", "disassociate"}
        /\ worker[v].stage = "start" => worker[v].todo = {}
        /\ worker[v].stage = "associate" => worker[v].list = SgsOf(Minus(worker[v].new, worker[v].old))
        /\ worker[v].stage = "disassociate" => worker[v].list = SgsOf(Minus(worker[v].old, worker[v].new))
        /\ \A u \in worker[v].todo : target[u] \in {worker[v].on, None}
        /\ \A x \in Workers : ~(worker[x].kind = "target" /\ worker[x].new = worker[v].on)
    BY DEF WorkFits, Busy
  <2>2. \A u \in worker[v].todo : target'[u] \in {worker[v].on, None}
    BY <2>1 DEF HeldFits
  <2>3. \A x \in Workers : ~(worker'[x].kind = "target" /\ worker'[x].new = worker[v].on)
    BY <2>1
  <2> HIDE DEF Minus, SgsOf
  <2>4. SgsOf(Minus(worker'[v].new, worker'[v].old)) = SgsOf(Minus(worker[v].new, worker[v].old))
        /\ SgsOf(Minus(worker'[v].old, worker'[v].new)) = SgsOf(Minus(worker[v].old, worker[v].new))
    OBVIOUS
  <2> QED BY <2>1, <2>2, <2>3, <2>4 DEF WorkFits, Busy, SgsOf, Minus
<1>3. worker[v].kind = "target" => WorkFits(v)'
  <2> SUFFICES ASSUME worker[v].kind = "target" PROVE WorkFits(v)'
    OBVIOUS
  <2>1. /\ worker[v].stage \in {"start", "associate"}
        /\ worker[v].stage = "start" => worker[v].todo = {}
        /\ worker[v].stage = "associate" =>
             worker[v].new # None /\ worker[v].list = SgsOf(group[worker[v].new]) /\ worker[v].todo = {worker[v].on}
        /\ worker[v].new = None => worker[v].old \in Groups /\ group[worker[v].old] # None
    BY DEF WorkFits, Busy
  <2>2. worker[v].new # None => SgsOf(group'[worker[v].new]) = SgsOf(group[worker[v].new])
    OBVIOUS
  <2> QED BY <2>1, <2>2 DEF WorkFits, Busy, SgsOf
<1>4. worker[v].kind \notin {"group", "target"} => WorkFits(v)'
  BY DEF WorkFits, Busy
<1> QED BY <1>1, <1>2, <1>3, <1>4

\* Who has nothing in hand fits.
LEMMA WorkIdle ==
  ASSUME NEW v, worker'[v].kind \notin {"group", "target"}, worker'[v].todo = {}, worker'[v].held = None
  PROVE  HeldFits(v)' /\ WorkFits(v)'
BY DEF HeldFits, WorkFits, Busy

\* Steps that are not about groups or targets.
LEMMA PortsKept ==
  ASSUME SecurityInv, PortsInv, NEW w \in Workers,
         group' = group, target' = target, ports' = ports,
         \A t \in Targets : \A i \in ports[t] : i[1] \in Exists(set)',
         Exists(set) \subseteq Exists(set)' \/ \A v \in Workers : worker[v].kind = "none",
         \A v \in Workers : v # w => worker'[v] = worker[v],
         \/ worker'[w] = worker[w]
         \/ /\ worker[w].kind \notin {"group", "target"} /\ worker'[w].kind \notin {"group", "target"}
            /\ worker'[w].todo = {} /\ worker'[w].held = None
  PROVE  PortsInv'
<1>1. \A v \in Workers : HeldFits(v) /\ WorkFits(v)
  BY DEF PortsInv
<1>2. \A v \in Workers :
        /\ worker'[v].kind \in {"group", "target"} <=> worker[v].kind \in {"group", "target"}
        /\ worker[v].kind \in {"group", "target"} => worker'[v] = worker[v]
  OBVIOUS
<1>3. ASSUME NEW t \in Targets PROVE PortFits(t)'
  <2>1. Waits(t)' <=> Waits(t)
    BY <1>2 DEF Waits, Busy
  <2>2. PortFits(t)
    BY DEF PortsInv
  <2>3. \A g : \A v \in Workers :
                /\ (worker'[v].kind = "group" /\ worker'[v].on = g)
                     <=> (worker[v].kind = "group" /\ worker[v].on = g)
                /\ worker[v].kind = "group" /\ worker[v].on = g => worker'[v] = worker[v]
    BY <1>2
  <2> QED BY <2>1, <2>2, <2>3, PortFrame
<1>4. ASSUME NEW v \in Workers PROVE HeldFits(v)' /\ WorkFits(v)'
  <2>1. CASE worker[v].kind \in {"group", "target"}
    <3>1. worker'[v] = worker[v] /\ Exists(set) \subseteq Exists(set)'
      BY <1>2, <2>1
    <3>2. \A x \in Workers : worker'[x].kind = "target" => worker'[x] = worker[x]
      BY <1>2
    <3>3. worker[v].kind = "target" /\ worker[v].new = None => group'[worker[v].old] # None
      BY <1>1 DEF WorkFits, Busy
    <3>4. worker[v].kind = "group" =>
            \A x \in Workers : worker'[x].kind = "target" /\ worker'[x].new = worker[v].on =>
                                 worker[x].kind = "target" /\ worker[x].new = worker[v].on
      BY <3>2
    <3> QED BY <1>1, <3>1, <3>3, <3>4, WorkFrame
  <2>2. CASE worker[v].kind \notin {"group", "target"}
    <3>1. worker[v].todo = {} /\ worker[v].held = None
      BY <1>1, <2>2 DEF HeldFits, Busy
    <3>2. worker'[v].kind \notin {"group", "target"} /\ worker'[v].todo = {} /\ worker'[v].held = None
      BY <2>2, <3>1
    <3> QED BY <3>2, WorkIdle
  <2> QED BY <2>1, <2>2
<1> QED BY <1>3, <1>4 DEF PortsInv

\* A request about policy or the outside begins,
LEMMA CommitElsewhere ==
  ASSUME SecurityInv, PortsInv, NEW w \in Workers, NEW kind \in Policies \cup Outsides,
         NEW k, NEW old, NEW new, worker[w].kind = "none", Commit(w, kind, k, old, new),
         group' = group, target' = target, Exists(set) \subseteq Exists(set)'
  PROVE  PortsInv'
<1>1. kind \notin {"group", "target"}
  BY DEF Policies, Outsides
<1>2. worker = [v \in Workers |-> worker[v]]
  BY DEF SecurityInv, SecurityTypes
<1>3. /\ worker'[w].kind = kind /\ worker'[w].todo = {} /\ worker'[w].held = None
      /\ \A v \in Workers : v # w => worker'[v] = worker[v]
      /\ ports' = ports
  BY <1>2 DEF Commit, Idle
<1>4. \A t \in Targets : \A i \in ports[t] : i[1] \in Exists(set)'
  BY DEF PortsInv, PortFits
<1> QED BY <1>1, <1>3, <1>4, PortsKept

\* and ends.
LEMMA PostElsewhere ==
  ASSUME SecurityInv, PortsInv, NEW w \in Workers, NEW kind \in Policies \cup Outsides,
         Post(w, kind), ports' = ports
  PROVE  PortsInv'
<1>1. kind \notin {"group", "target"}
  BY DEF Policies, Outsides
<1>2. worker = [v \in Workers |-> worker[v]]
  BY DEF SecurityInv, SecurityTypes
<1>3. /\ worker[w].kind = kind
      /\ worker'[w].kind = "none" /\ worker'[w].todo = {} /\ worker'[w].held = None
      /\ \A v \in Workers : v # w => worker'[v] = worker[v]
      /\ group' = group /\ target' = target /\ set' = set
  BY <1>2 DEF Post, Idle, rows
<1>4. Exists(set)' = Exists(set)
  BY <1>3 DEF Exists
<1>5. \A t \in Targets : \A i \in ports[t] : i[1] \in Exists(set)'
  BY <1>4 DEF PortsInv, PortFits
<1> QED BY <1>1, <1>3, <1>4, <1>5, PortsKept

LEMMA PortsStart ==
  ASSUME SecurityConstants, Init
  PROVE  PortsInv
<1>1. /\ \A w \in Workers : /\ worker[w].kind = "none" /\ worker[w].todo = {}
                            /\ worker[w].held = None
      /\ \A t \in Targets : target[t] = None /\ ports[t] = {}
  BY DEF Init, Idle
<1>2. \A t \in Targets : PortFits(t)
  BY <1>1 DEF PortFits
<1>3. \A w \in Workers : HeldFits(w) /\ WorkFits(w)
  BY <1>1 DEF HeldFits, WorkFits, Busy
<1> QED BY <1>2, <1>3 DEF PortsInv

LEMMA PortsStutter ==
  ASSUME SecurityInv, PortsInv, UNCHANGED vars
  PROVE  PortsInv'
<1>1. /\ group' = group /\ target' = target /\ set' = set /\ ports' = ports /\ worker' = worker
  BY DEF vars, rows
<1>2. Exists(set)' = Exists(set)
  BY <1>1 DEF Exists
<1>3. \A t \in Targets : \A i \in ports[t] : i[1] \in Exists(set)'
  BY <1>2 DEF PortsInv, PortFits
<1>4. CASE Workers = {}
  <2>1. ASSUME NEW t \in Targets PROVE PortFits(t)'
    <3>1. PortFits(t) /\ ~Waits(t) /\ ~Waits(t)'
      BY <1>4 DEF PortsInv, Waits
    <3> QED BY <1>1, <1>3, <1>4, <3>1, PortFrame
  <2> QED BY <1>4, <2>1 DEF PortsInv
<1>5. CASE Workers # {}
  <2>1. PICK w \in Workers : TRUE
    BY <1>5
  <2> QED BY <1>1, <1>2, <1>3, PortsKept
<1> QED BY <1>4, <1>5

\* Changes of policy,
LEMMA PolicyPorts ==
  ASSUME SecurityConstants, SecurityInv, PortsInv, Careful, NEW w \in Workers, Policy(w)
  PROVE  PortsInv'
<1>1. SecurityTypes /\ PolicyInv /\ {"classifier", "rule", "set"} \subseteq Policies \cup Outsides
  BY DEF SecurityInv, Policies
<1>2. ASSUME NEW c \in Classifiers, NEW to, UpdateClassifier(w, c, to) PROVE PortsInv'
  <2>1. /\ worker[w].kind = "none" /\ Commit(w, "classifier", c, classifier[c], to)
        /\ group' = group /\ target' = target /\ set' = set
    BY <1>2 DEF UpdateClassifier, Free
  <2>2. Exists(set)' = Exists(set)
    BY <2>1 DEF Exists
  <2> QED BY <1>1, <2>1, <2>2, CommitElsewhere
<1>3. CASE UpdateClassifierPost(w)
  BY <1>1, <1>3, PostElsewhere DEF UpdateClassifierPost
<1>4. ASSUME NEW r \in Rules, NEW c \in Classifiers, CreateRule(w, r, c) PROVE PortsInv'
  <2>1. /\ worker' = worker /\ group' = group /\ target' = target /\ set' = set /\ ports' = ports
    BY <1>4 DEF CreateRule
  <2>2. Exists(set)' = Exists(set)
    BY <2>1 DEF Exists
  <2>3. \A t \in Targets : \A i \in ports[t] : i[1] \in Exists(set)'
    BY <2>2 DEF PortsInv, PortFits
  <2> QED BY <2>1, <2>2, <2>3, PortsKept
<1>5. ASSUME NEW r \in Rules, NEW c \in Classifiers, UpdateRule(w, r, c) PROVE PortsInv'
  <2>1. /\ worker[w].kind = "none" /\ Commit(w, "rule", r, rule[r], c)
        /\ group' = group /\ target' = target /\ set' = set
    BY <1>5 DEF UpdateRule, Free
  <2>2. Exists(set)' = Exists(set)
    BY <2>1 DEF Exists
  <2> QED BY <1>1, <2>1, <2>2, CommitElsewhere
<1>6. ASSUME NEW r \in Rules, DeleteRule(w, r) PROVE PortsInv'
  <2>1. /\ worker' = worker /\ group' = group /\ target' = target /\ set' = set /\ ports' = ports
    BY <1>6 DEF DeleteRule
  <2>2. Exists(set)' = Exists(set)
    BY <2>1 DEF Exists
  <2>3. \A t \in Targets : \A i \in ports[t] : i[1] \in Exists(set)'
    BY <2>2 DEF PortsInv, PortFits
  <2> QED BY <2>1, <2>2, <2>3, PortsKept
<1>7. CASE UpdateRulePost(w)
  BY <1>1, <1>7, PostElsewhere DEF UpdateRulePost
<1>8. ASSUME NEW p \in Sets, NEW rs \in SUBSET Rules, NEW kids \in SUBSET Sets,
             CreateRuleSet(w, p, rs, kids) \/ UpdateRuleSet(w, p, rs, kids)
      PROVE  PortsInv'
  <2>1. /\ WriteRuleSet(w, p, rs, kids)
        /\ \E old, new : Commit(w, "set", p, old, new)
    BY <1>8 DEF CreateRuleSet, UpdateRuleSet
  <2>2. /\ worker[w].kind = "none" /\ group' = group /\ target' = target
        /\ set' = Adopted(p, rs, kids)
    BY <2>1 DEF WriteRuleSet, Free
  <2>3. Exists(set) \subseteq Exists(set)'
    <3> SUFFICES ASSUME NEW q \in Exists(set) PROVE q \in Exists(set)'
      OBVIOUS
    <3>1. q \in Sets /\ set[q] # None /\ set[q] \in SetRows
      BY <1>1 DEF Exists, SecurityTypes
    <3>2. /\ [rules |-> rs, parent |-> ParentOf(p)] \in SetRows
          /\ [set[q] EXCEPT !.parent = p] \in SetRows
          /\ [set[q] EXCEPT !.parent = None] \in SetRows
      BY <1>1, <3>1 DEF SetRows, ParentOf, SecurityTypes
    <3>3. set'[q] # None
      BY <2>2, <3>1, <3>2 DEF Adopted, SecurityConstants
    <3>4. DOMAIN set' = Sets
      BY <2>2 DEF Adopted
    <3> QED BY <3>1, <3>3, <3>4 DEF Exists
  <2> QED BY <1>1, <2>1, <2>2, <2>3, CommitElsewhere
<1>9. ASSUME NEW p \in Sets, DeleteRuleSet(w, p) PROVE PortsInv'
  <2>1. /\ Free(w, "set", p) /\ Commit(w, "set", p, set[p], None)
        /\ group' = group /\ target' = target
        /\ \A s \in Sides : Users(p, s) = {}
        /\ set' = [q \in Sets |-> IF q = p THEN None
                            ELSE IF set[q] # None /\ set[q].parent = p
                                 THEN [set[q] EXCEPT !.parent = None] ELSE set[q]]
    BY <1>9 DEF DeleteRuleSet
  <2>2. \A v \in Workers : worker[v].kind = "none"
    BY <2>1 DEF Free, Busy
  <2>3. \A q \in Exists(set) \ {p} : q \in Exists(set)'
    <3> SUFFICES ASSUME NEW q \in Exists(set) \ {p} PROVE q \in Exists(set)'
      OBVIOUS
    <3>1. q \in Sets /\ set[q] # None /\ set[q] \in SetRows
      BY <1>1 DEF Exists, SecurityTypes
    <3>2. [set[q] EXCEPT !.parent = None] \in SetRows
      BY <3>1 DEF SetRows
    <3>3. set'[q] # None /\ DOMAIN set' = Sets
      BY <2>1, <3>1, <3>2 DEF SecurityConstants
    <3> QED BY <3>1, <3>3 DEF Exists
  <2>4. ASSUME NEW t \in Targets, NEW i \in ports[t] PROVE i[1] \in Exists(set)'
    <3>1. PortFits(t) /\ i \in Sets \X Sides /\ i = <<i[1], i[2]>> /\ ~Waits(t)
      BY <1>1, <2>2 DEF PortsInv, SecurityTypes, Waits, Busy
    <3>2. target[t] # None
      BY <3>1 DEF PortFits
    <3>3. Has(target[t], i[1], i[2])
      BY <2>2, <3>1, <3>2 DEF PortFits, Working, Busy
    <3>4. target[t] \in Groups /\ DOMAIN group = Groups
      BY <1>1, <3>2 DEF SecurityTypes
    <3>5. i[1] # p
      BY <2>1, <3>1, <3>3, <3>4 DEF Has, Users, Exists
    <3>6. i[1] \in Exists(set)
      BY <3>1 DEF PortFits
    <3> QED BY <2>3, <3>5, <3>6
  <2>5. worker = [v \in Workers |-> worker[v]]
    BY <1>1 DEF SecurityTypes
  <2>6. /\ worker'[w].kind = "set" /\ worker'[w].todo = {} /\ worker'[w].held = None
        /\ \A v \in Workers : v # w => worker'[v] = worker[v]
        /\ ports' = ports
    BY <2>1, <2>5 DEF Commit, Idle
  <2> QED BY <2>1, <2>2, <2>4, <2>6, PortsKept
<1>10. CASE WriteRuleSetPost(w)
  BY <1>1, <1>10, PostElsewhere DEF WriteRuleSetPost
<1>11. CASE DeleteRuleSetPost(w)
  <2>1. /\ Post(w, "set") /\ worker[w].new = None
        /\ ports' = [t \in Targets |-> {i \in ports[t] : i[1] # worker[w].on}]
    BY <1>11 DEF DeleteRuleSetPost
  <2>2. worker[w].kind = "set" /\ SgFits(w)
    BY <2>1 DEF Post, SecurityInv, SgInv
  <2>3. worker[w].on \notin Exists(set)
    BY <2>1, <2>2 DEF SgFits, Busy, Exists
  <2>4. \A t \in Targets : {i \in ports[t] : i[1] # worker[w].on} = ports[t]
    BY <2>3 DEF PortsInv, PortFits
  <2>5. ports' = ports
    BY <1>1, <2>1, <2>4 DEF SecurityTypes
  <2> QED BY <1>1, <2>1, <2>5, PostElsewhere
<1>12. CASE \E c \in Classifiers : \E d \in Directions, t \in Traffic :
             UpdateClassifier(w, c, [direction |-> d, traffic |-> t])
  BY <1>2, <1>12
<1>13. CASE \E r \in Rules : \/ \E c \in Classifiers : CreateRule(w, r, c) \/ UpdateRule(w, r, c)
                             \/ DeleteRule(w, r)
  BY <1>4, <1>5, <1>6, <1>13
<1>14. CASE \E p \in Sets : \/ \E rs \in SUBSET Rules, kids \in SUBSET Sets :
                                CreateRuleSet(w, p, rs, kids) \/ UpdateRuleSet(w, p, rs, kids)
                           \/ DeleteRuleSet(w, p)
  BY <1>8, <1>9, <1>14
<1> QED BY <1>3, <1>7, <1>10, <1>11, <1>12, <1>13, <1>14 DEF Policy

\* and of the outside leave the ports.
LEMMA OutsidePorts ==
  ASSUME SecurityInv, PortsInv, NEW w \in Workers, Outside(w)
  PROVE  PortsInv'
<1>1. {"external", "routes", "l3"} \subseteq Policies \cup Outsides
  BY DEF Outsides
<1>2. ASSUME NEW kind \in Outsides, NEW k, NEW old, NEW new, worker[w].kind = "none",
             Commit(w, kind, k, old, new), group' = group, target' = target, set' = set
      PROVE  PortsInv'
  <2>1. Exists(set)' = Exists(set)
    BY <1>2 DEF Exists
  <2> QED BY <1>2, <2>1, CommitElsewhere
<1>3. ASSUME NEW rel \in Relations, CreateExternalPolicy(w, rel) PROVE PortsInv'
  <2>1. /\ worker[w].kind = "none" /\ group' = group /\ target' = target /\ set' = set
        /\ Commit(w, "external", None, Nothing, rel)
    BY <1>3 DEF CreateExternalPolicy, WriteExternal, Free
  <2> QED BY <1>2, <2>1 DEF Outsides
<1>4. ASSUME NEW rel \in Relations, UpdateExternalPolicy(w, rel) PROVE PortsInv'
  <2>1. /\ worker[w].kind = "none" /\ group' = group /\ target' = target /\ set' = set
        /\ Commit(w, "external", None, external, rel)
    BY <1>4 DEF UpdateExternalPolicy, WriteExternal, Free
  <2> QED BY <1>2, <2>1 DEF Outsides
<1>5. CASE DeleteExternalPolicy(w)
  <2>1. /\ worker[w].kind = "none" /\ group' = group /\ target' = target /\ set' = set
        /\ Commit(w, "external", None, external, Nothing)
    BY <1>5 DEF DeleteExternalPolicy, Free
  <2> QED BY <1>2, <2>1 DEF Outsides
<1>6. CASE ExternalPolicyPost(w)
  BY <1>1, <1>6, PostElsewhere DEF ExternalPolicyPost
<1>7. ASSUME NEW to, UpdateExternalSegment(w, to) PROVE PortsInv'
  <2>1. /\ worker[w].kind = "none" /\ group' = group /\ target' = target /\ set' = set
        /\ Commit(w, "routes", None, routes, to)
    BY <1>7 DEF UpdateExternalSegment, Free
  <2> QED BY <1>2, <2>1 DEF Outsides
<1>8. CASE UpdateExternalSegmentPost(w)
  BY <1>1, <1>8, PostElsewhere DEF UpdateExternalSegmentPost
<1>9. ASSUME NEW x \in L3s, CreateL3Policy(w, x) PROVE PortsInv'
  <2>1. /\ worker[w].kind = "none" /\ group' = group /\ target' = target /\ set' = set
        /\ Commit(w, "l3", x, None, x)
    BY <1>9 DEF CreateL3Policy, Free
  <2> QED BY <1>2, <2>1 DEF Outsides
<1>10. ASSUME NEW x \in L3s, DeleteL3Policy(w, x) PROVE PortsInv'
  <2>1. /\ worker[w].kind = "none" /\ group' = group /\ target' = target /\ set' = set
        /\ Commit(w, "l3", x, x, None)
    BY <1>10 DEF DeleteL3Policy, Free
  <2> QED BY <1>2, <2>1 DEF Outsides
<1>11. CASE CreateL3PolicyPost(w) \/ DeleteL3PolicyPost(w)
  BY <1>1, <1>11, PostElsewhere DEF CreateL3PolicyPost, DeleteL3PolicyPost
<1> QED BY <1>3, <1>4, <1>5, <1>6, <1>7, <1>8, <1>9, <1>10, <1>11 DEF Outside

\* What is known of groups and targets before a step.
LEMMA PortsBefore ==
  ASSUME SecurityInv, PortsInv
  PROVE  /\ worker = [v \in Workers |-> worker[v]]
         /\ group \in [Groups -> Relations \cup {None}]
         /\ target \in [Targets -> Groups \cup {None}]
         /\ ports \in [Targets -> SUBSET (Sets \X Sides)]
         /\ \A v \in Workers : JobFits(v) /\ HeldFits(v) /\ WorkFits(v)
         /\ \A t \in Targets : PortFits(t) /\ \A i \in ports[t] : i[1] \in Exists(set)
         /\ \A t \in Targets : target[t] # None => group[target[t]] # None
         /\ \A v, x \in Workers : v # x =>
              /\ worker[v].kind = "group" /\ worker[x].kind = "group" => worker[v].on # worker[x].on
              /\ worker[v].kind = "target" /\ worker[x].kind = "target" => worker[v].on # worker[x].on
BY DEF SecurityInv, PortsInv, PortFits, SecurityTypes, PolicyInv, JobsApart, Busy

\* An update of a group begins: nobody adds targets to it, and the ports are as before.
LEMMA WriteGroupPorts ==
  ASSUME SecurityConstants, SecurityInv, PortsInv, Careful, NEW w \in Workers, NEW g \in Groups,
         NEW rel \in Relations, NEW old \in Relations,
         WriteGroup(w, g, rel), Commit(w, "group", g, old, rel),
         \A p, s : s \in Sides => (Has(g, p, s) <=> p \in old[s])
  PROVE  PortsInv'
<1>1. /\ worker[w].kind = "none" /\ group' = [group EXCEPT ![g] = rel]
      /\ set' = set /\ target' = target /\ ports' = ports
      /\ \A v \in Workers : ~(worker[v].kind = "group" /\ worker[v].on = g)
      /\ \A v \in Workers : ~(worker[v].kind = "target" /\ worker[v].new = g)
  BY DEF WriteGroup, Free, Commit, Joined, Busy
<1>2. /\ worker'[w].kind = "group" /\ worker'[w].on = g /\ worker'[w].old = old
      /\ worker'[w].stage = "start" /\ worker'[w].todo = {} /\ worker'[w].held = None
      /\ \A v \in Workers : v # w => worker'[v] = worker[v]
  BY PortsBefore DEF Commit, Idle
<1>3. /\ group'[g] = rel /\ rel # None /\ g # None
      /\ \A h \in Groups : h # g => group'[h] = group[h]
  BY <1>1, PortsBefore DEF SecurityConstants
<1>4. Exists(set)' = Exists(set)
  BY <1>1 DEF Exists
<1>5. \A v \in Workers : worker'[v].kind = "target" <=> worker[v].kind = "target"
  BY <1>1, <1>2
<1>6. ASSUME NEW t \in Targets PROVE PortFits(t)'
  <2>1. Waits(t)' <=> Waits(t)
    BY <1>1, <1>2 DEF Waits, Busy
  <2>2. PortFits(t) /\ target[t] \in Groups \cup {None} /\ \A i \in ports[t] : i[1] \in Exists(set)'
    BY <1>4, PortsBefore
  <2>3. CASE target[t] # g
    <3>1. \A v \in Workers :
                /\ (worker'[v].kind = "group" /\ worker'[v].on = target[t])
                     <=> (worker[v].kind = "group" /\ worker[v].on = target[t])
                /\ worker[v].kind = "group" /\ worker[v].on = target[t] => worker'[v] = worker[v]
      BY <1>1, <1>2, <2>3
    <3> QED BY <1>1, <1>3, <2>1, <2>2, <2>3, <3>1, PortFrame
  <2>4. CASE target[t] = g
    <3>1. \A p \in Sets, s \in Sides :
            /\ <<p, s>> \in ports[t] => Has(g, p, s)
            /\ ~Waits(t) /\ Has(g, p, s) => <<p, s>> \in ports[t]
      BY <1>1, <1>3, <2>2, <2>4 DEF PortFits, Working, Busy
    <3>2. Working(w, g)' /\ \A p, s : (Late(w, t, p, s)' <=> p \in old[s]) /\ (Early(w, t, p, s)' <=> p \notin old[s])
      BY <1>2 DEF Working, Busy, Late, Early
    <3>3. \A p \in Sets, s \in Sides :
            /\ <<p, s>> \in ports'[t] => \E v \in Workers : Working(v, g)' /\ Late(v, t, p, s)'
            /\ ~Waits(t)' /\ (\A v \in Workers : ~(Working(v, g)' /\ Early(v, t, p, s)'))
                  => <<p, s>> \in ports'[t]
      BY <1>1, <2>1, <3>1, <3>2
    <3> QED BY <1>1, <1>3, <2>2, <2>4, <3>3 DEF PortFits
  <2> QED BY <2>3, <2>4
<1>7. HeldFits(w)' /\ WorkFits(w)'
  <2>1. \A v \in Workers : ~(worker'[v].kind = "target" /\ worker'[v].new = g)
    BY <1>1, <1>2
  <2> QED BY <1>2, <2>1 DEF HeldFits, WorkFits, Busy
<1>8. ASSUME NEW v \in Workers, v # w PROVE HeldFits(v)' /\ WorkFits(v)'
  <2>1. HeldFits(v) /\ WorkFits(v) /\ worker'[v] = worker[v] /\ JobFits(v)
    BY <1>2, <1>8, PortsBefore
  <2>2. worker[v].kind = "target" /\ worker[v].new # None => group'[worker[v].new] = group[worker[v].new]
    BY <1>1, <1>3, <2>1 DEF JobFits, Busy
  <2>3. worker[v].kind = "target" /\ worker[v].new = None => group'[worker[v].old] # None
    BY <1>3, <2>1 DEF WorkFits, Busy
  <2>4. \A x \in Workers : worker'[x].kind = "target" => worker'[x] = worker[x]
    BY <1>2
  <2> QED BY <1>1, <1>4, <2>1, <2>2, <2>3, <2>4, WorkFrame
<1> QED BY <1>6, <1>7, <1>8 DEF PortsInv

LEMMA CreateGroupPorts ==
  ASSUME SecurityConstants, SecurityInv, PortsInv, Careful, NEW w \in Workers, NEW g \in Groups,
         NEW rel \in Relations, CreateGroup(w, g, rel)
  PROVE  PortsInv'
<1>1. group[g] = None /\ WriteGroup(w, g, rel) /\ Commit(w, "group", g, Nothing, rel)
  BY DEF CreateGroup
<1>2. Nothing \in Relations /\ \A s \in Sides : Nothing[s] = {}
  BY DEF Nothing, Relations, Sides
<1>3. \A p, s : s \in Sides => (Has(g, p, s) <=> p \in Nothing[s])
  BY <1>1, <1>2 DEF Has
<1> QED BY <1>1, <1>2, <1>3, WriteGroupPorts

LEMMA UpdateGroupPorts ==
  ASSUME SecurityConstants, SecurityInv, PortsInv, Careful, NEW w \in Workers, NEW g \in Groups,
         NEW rel \in Relations, UpdateGroup(w, g, rel)
  PROVE  PortsInv'
<1>1. group[g] # None /\ WriteGroup(w, g, rel) /\ Commit(w, "group", g, group[g], rel)
  BY DEF UpdateGroup
<1>2. PICK old \in Relations : old = group[g]
  BY <1>1, PortsBefore
<1>3. \A p, s : s \in Sides => (Has(g, p, s) <=> p \in old[s])
  BY <1>1, <1>2 DEF Has
<1> QED BY <1>1, <1>2, <1>3, WriteGroupPorts

LEMMA DeleteGroupPorts ==
  ASSUME SecurityConstants, SecurityInv, PortsInv, Careful, NEW w \in Workers, NEW g \in Groups,
         DeleteGroup(w, g)
  PROVE  PortsInv'
<1>1. /\ group' = [group EXCEPT ![g] = None] /\ TargetsOf(g) = {}
      /\ \A v \in Workers : ~(worker[v].kind = "target" /\ worker[v].old = g)
      /\ set' = set /\ target' = target /\ ports' = ports /\ worker' = worker
  BY DEF DeleteGroup, Busy
<1>2. \A h \in Groups : h # g => group'[h] = group[h]
  BY <1>1, PortsBefore
<1>3. \A t \in Targets : target[t] # g
  BY <1>1 DEF TargetsOf
<1>4. Exists(set)' = Exists(set)
  BY <1>1 DEF Exists
<1>5. ASSUME NEW t \in Targets PROVE PortFits(t)'
  <2>1. PortFits(t) /\ target[t] \in Groups \cup {None} /\ \A i \in ports[t] : i[1] \in Exists(set)'
    BY <1>4, PortsBefore
  <2>2. Waits(t)' <=> Waits(t)
    BY <1>1 DEF Waits, Busy
  <2> QED BY <1>1, <1>2, <1>3, <2>1, <2>2, PortFrame
<1>6. ASSUME NEW v \in Workers PROVE HeldFits(v)' /\ WorkFits(v)'
  <2>1. HeldFits(v) /\ WorkFits(v) /\ JobFits(v)
    BY PortsBefore
  <2>2. worker[v].kind = "target" /\ worker[v].new # None => group'[worker[v].new] = group[worker[v].new]
    BY <1>2, <1>3, <2>1 DEF JobFits, Busy
  <2>3. worker[v].kind = "target" /\ worker[v].new = None => group'[worker[v].old] # None
    BY <1>1, <1>2, <2>1 DEF WorkFits, Busy
  <2> QED BY <1>1, <1>4, <2>1, <2>2, <2>3, WorkFrame
<1> QED BY <1>5, <1>6 DEF PortsInv

\* The target's own request has its port first.
LEMMA CreateTargetPorts ==
  ASSUME SecurityConstants, SecurityInv, PortsInv, Careful, NEW w \in Workers, NEW t \in Targets,
         NEW g \in Groups, CreateTarget(w, t, g)
  PROVE  PortsInv'
<1>1. /\ worker[w].kind = "none" /\ target[t] = None /\ target' = [target EXCEPT ![t] = g]
      /\ \A v \in Workers : /\ t \notin worker[v].todo
                            /\ ~(worker[v].kind = "group" /\ worker[v].on = g)
                            /\ ~(worker[v].kind = "target" /\ worker[v].on = t)
      /\ set' = set /\ group' = group /\ ports' = ports
  BY DEF CreateTarget, Free, Commit, Busy
<1>2. /\ worker'[w].kind = "target" /\ worker'[w].on = t /\ worker'[w].new = g
      /\ worker'[w].stage = "start" /\ worker'[w].todo = {} /\ worker'[w].held = None
      /\ \A v \in Workers : v # w => worker'[v] = worker[v]
  BY PortsBefore DEF CreateTarget, Commit, Idle
<1>3. /\ target'[t] = g /\ g # None
      /\ \A u \in Targets : u # t => target'[u] = target[u]
  BY <1>1, PortsBefore DEF SecurityConstants
<1>4. Exists(set)' = Exists(set)
  BY <1>1 DEF Exists
<1>5. PortFits(t)'
  <2>1. ports[t] = {}
    BY <1>1, PortsBefore DEF PortFits, Waits, Busy
  <2>2. Waits(t)'
    BY <1>2 DEF Waits, Busy
  <2> QED BY <1>1, <1>3, <2>1, <2>2 DEF PortFits
<1>6. ASSUME NEW u \in Targets, u # t PROVE PortFits(u)'
  <2>1. PortFits(u) /\ target[u] \in Groups \cup {None} /\ \A i \in ports[u] : i[1] \in Exists(set)'
    BY <1>4, PortsBefore
  <2>2. Waits(u)' <=> Waits(u)
    BY <1>1, <1>2, <1>6 DEF Waits, Busy
  <2>3. \A v \in Workers :
          /\ worker'[v].kind = "group" <=> worker[v].kind = "group"
          /\ worker[v].kind = "group" => worker'[v] = worker[v]
    BY <1>1, <1>2
  <2> QED BY <1>1, <1>3, <1>6, <2>1, <2>2, <2>3, PortFrame
<1>7. HeldFits(w)' /\ WorkFits(w)'
  BY <1>2, <1>3 DEF HeldFits, WorkFits, Busy
<1>8. ASSUME NEW v \in Workers, v # w PROVE HeldFits(v)' /\ WorkFits(v)'
  <2>1. HeldFits(v) /\ WorkFits(v) /\ worker'[v] = worker[v]
    BY <1>2, <1>8, PortsBefore
  <2>2. \A u \in Targets : u \in worker[v].todo => target'[u] = target[u]
    BY <1>1, <1>3
  <2>3. worker[v].kind = "target" /\ worker[v].new = None => group'[worker[v].old] # None
    BY <1>1, <2>1 DEF WorkFits, Busy
  <2>4. worker[v].kind = "group" =>
          \A x \in Workers : worker'[x].kind = "target" /\ worker'[x].new = worker[v].on =>
                               worker[x].kind = "target" /\ worker[x].new = worker[v].on
    BY <1>1, <1>2
  <2> QED BY <1>1, <1>4, <2>1, <2>2, <2>3, <2>4, WorkFrame
<1> QED BY <1>5, <1>6, <1>7, <1>8 DEF PortsInv

\* A target goes, whoever has its port in hand.
LEMMA DeleteTargetPorts ==
  ASSUME SecurityConstants, SecurityInv, PortsInv, NEW w \in Workers, NEW t \in Targets,
         DeleteTarget(w, t)
  PROVE  PortsInv'
<1>1. /\ worker[w].kind = "none" /\ target[t] # None /\ target' = [target EXCEPT ![t] = None]
      /\ \A v \in Workers : ~(worker[v].kind = "target" /\ worker[v].on = t)
      /\ set' = set /\ group' = group /\ ports' = ports
  BY DEF DeleteTarget, Free, Commit, Busy
<1>2. /\ worker'[w].kind = "target" /\ worker'[w].on = t /\ worker'[w].new = None
      /\ worker'[w].old = target[t]
      /\ worker'[w].stage = "start" /\ worker'[w].todo = {} /\ worker'[w].held = None
      /\ \A v \in Workers : v # w => worker'[v] = worker[v]
  BY PortsBefore DEF DeleteTarget, Commit, Idle
<1>3. /\ target'[t] = None /\ target[t] \in Groups /\ group[target[t]] # None
      /\ \A u \in Targets : u # t => target'[u] = target[u]
  BY <1>1, PortsBefore
<1>4. Exists(set)' = Exists(set)
  BY <1>1 DEF Exists
<1>5. PortFits(t)'
  <2>1. Waits(t)'
    BY <1>2 DEF Waits, Busy
  <2> QED BY <1>1, <1>3, <1>4, <2>1, PortsBefore DEF PortFits
<1>6. ASSUME NEW u \in Targets, u # t PROVE PortFits(u)'
  <2>1. PortFits(u) /\ target[u] \in Groups \cup {None} /\ \A i \in ports[u] : i[1] \in Exists(set)'
    BY <1>4, PortsBefore
  <2>2. Waits(u)' <=> Waits(u)
    BY <1>1, <1>2, <1>6 DEF Waits, Busy
  <2>3. \A v \in Workers :
          /\ worker'[v].kind = "group" <=> worker[v].kind = "group"
          /\ worker[v].kind = "group" => worker'[v] = worker[v]
    BY <1>1, <1>2
  <2> QED BY <1>1, <1>3, <1>6, <2>1, <2>2, <2>3, PortFrame
<1>7. HeldFits(w)' /\ WorkFits(w)'
  BY <1>1, <1>2, <1>3 DEF HeldFits, WorkFits, Busy
<1>8. ASSUME NEW v \in Workers, v # w PROVE HeldFits(v)' /\ WorkFits(v)'
  <2>1. HeldFits(v) /\ WorkFits(v) /\ worker'[v] = worker[v] /\ JobFits(v)
    BY <1>2, <1>8, PortsBefore
  <2>2. \A u \in Targets : target'[u] \in {target[u], None}
    BY <1>3
  <2>3. worker[v].kind = "target" /\ worker[v].new = None => group'[worker[v].old] # None
    BY <1>1, <2>1 DEF WorkFits, Busy
  <2>4. worker[v].kind = "group" =>
          \A x \in Workers : worker'[x].kind = "target" /\ worker'[x].new = worker[v].on =>
                               worker[x].kind = "target" /\ worker[x].new = worker[v].on
    <3>1. worker[v].kind = "group" => worker[v].on # None
      BY <2>1 DEF JobFits, Busy, SecurityConstants
    <3> QED BY <1>2, <3>1
  <2> QED BY <1>1, <1>4, <2>1, <2>2, <2>3, <2>4, WorkFrame
<1> QED BY <1>5, <1>6, <1>7, <1>8 DEF PortsInv

\* A step of a group's request that touches no port leaves the others as they are.
LEMMA GroupStepPorts ==
  ASSUME SecurityConstants, SecurityInv, PortsInv, NEW w \in Workers, worker[w].kind = "group",
         \A v \in Workers : v # w => worker'[v] = worker[v],
         group' = group, target' = target, set' = set, ports' = ports,
         \/ worker'[w].kind = "none"
         \/ worker'[w].kind = "group" /\ worker'[w].on = worker[w].on,
         HeldFits(w)', WorkFits(w)',
         \A t \in Targets : target[t] = worker[w].on => PortFits(t)'
  PROVE  PortsInv'
<1>1. Exists(set)' = Exists(set)
  BY DEF Exists
<1>2. ASSUME NEW t \in Targets, target[t] # worker[w].on PROVE PortFits(t)'
  <2>1. PortFits(t) /\ target[t] \in Groups \cup {None} /\ \A i \in ports[t] : i[1] \in Exists(set)'
    BY <1>1, PortsBefore
  <2>2. Waits(t)' <=> Waits(t)
    BY DEF Waits, Busy
  <2>3. \A v \in Workers :
                /\ (worker'[v].kind = "group" /\ worker'[v].on = target[t])
                     <=> (worker[v].kind = "group" /\ worker[v].on = target[t])
                /\ worker[v].kind = "group" /\ worker[v].on = target[t] => worker'[v] = worker[v]
    BY <1>2
  <2> QED BY <2>1, <2>2, <2>3, PortFrame
<1>3. ASSUME NEW v \in Workers, v # w PROVE HeldFits(v)' /\ WorkFits(v)'
  <2>1. HeldFits(v) /\ WorkFits(v) /\ worker'[v] = worker[v]
    BY <1>3, PortsBefore
  <2>2. worker[v].kind = "target" /\ worker[v].new = None => group'[worker[v].old] # None
    BY <2>1 DEF WorkFits, Busy
  <2>3. \A x \in Workers : worker'[x].kind = "target" => worker'[x] = worker[x]
    OBVIOUS
  <2> QED BY <1>1, <2>1, <2>2, <2>3, WorkFrame
<1> QED BY <1>2, <1>3 DEF PortsInv

\* Who works on a group, and what its targets' ports lack or still have.
LEMMA OneWorks ==
  ASSUME SecurityConstants, SecurityInv, PortsInv, NEW w \in Workers, worker[w].kind = "group",
         NEW t \in Targets, target[t] = worker[w].on
  PROVE  /\ target[t] # None /\ ~Waits(t)
         /\ \A v \in Workers : Working(v, target[t]) <=> v = w
         /\ \A i \in ports[t] : i[1] \in Exists(set)
         /\ \A p \in Sets, s \in Sides :
              /\ Has(target[t], p, s) <=> p \in worker[w].new[s]
              /\ <<p, s>> \in ports[t] => p \in worker[w].new[s] \/ Late(w, t, p, s)
              /\ p \in worker[w].new[s] /\ ~Early(w, t, p, s) => <<p, s>> \in ports[t]
<1>1. /\ worker[w].on \in Groups /\ worker[w].on # None
      /\ group[worker[w].on] = worker[w].new /\ group[worker[w].on] # None
      /\ \A v \in Workers : v # w => ~(worker[v].kind = "group" /\ worker[v].on = worker[w].on)
  BY GroupJob DEF SecurityConstants
<1>2. \A v \in Workers : Working(v, target[t]) <=> v = w
  BY <1>1 DEF Working, Busy
<1>3. ~Waits(t)
  <2> SUFFICES ASSUME NEW v \in Workers, worker[v].kind = "target", worker[v].on = t PROVE FALSE
    BY DEF Waits, Busy
  <2>1. worker[v].new = worker[w].on
    BY PortsBefore DEF JobFits, Busy
  <2> QED BY <2>1, PortsBefore DEF WorkFits, Busy
<1>4. \A p \in Sets, s \in Sides : Has(target[t], p, s) <=> p \in worker[w].new[s]
  BY <1>1 DEF Has
<1>5. PortFits(t)
  BY PortsBefore
<1> QED BY <1>1, <1>2, <1>3, <1>4, <1>5 DEF PortFits

\* The port of a target fits after a step by what it then has and lacks.
LEMMA PortAfter ==
  ASSUME SecurityConstants, SecurityInv, PortsInv, NEW w \in Workers, worker[w].kind = "group",
         NEW t \in Targets, target[t] = worker[w].on,
         \A v \in Workers : v # w => worker'[v] = worker[v],
         group' = group, target' = target, set' = set,
         worker'[w].kind = "group", worker'[w].on = worker[w].on,
         \A i \in ports'[t] : i[1] \in Exists(set),
         \A p \in Sets, s \in Sides :
              /\ <<p, s>> \in ports'[t] => p \in worker[w].new[s] \/ Late(w, t, p, s)'
              /\ p \in worker[w].new[s] /\ ~Early(w, t, p, s)' => <<p, s>> \in ports'[t]
  PROVE  PortFits(t)'
<1>1. /\ target[t] # None
      /\ \A v \in Workers : Working(v, target[t]) <=> v = w
      /\ \A p \in Sets, s \in Sides : Has(target[t], p, s) <=> p \in worker[w].new[s]
  BY OneWorks
<1>2. \A v \in Workers : Working(v, target[t])' <=> v = w
  BY <1>1 DEF Working, Busy
<1>3. \A p \in Sets, s \in Sides : Has(target[t], p, s)' <=> p \in worker[w].new[s]
  BY <1>1 DEF Has
<1>4. Exists(set)' = Exists(set)
  BY DEF Exists
<1> QED BY <1>1, <1>2, <1>3, <1>4 DEF PortFits

\* The ports of the targets are still to get what the group got;
LEMMA SetGroupRulesPorts ==
  ASSUME SecurityConstants, SecurityInv, PortsInv, WorkersWhole, NEW w \in Workers, SetGroupRules(w)
  PROVE  PortsInv'
<1> DEFINE gained == SgsOf(Minus(worker[w].new, worker[w].old))
<1>1. /\ worker[w].kind = "group" /\ worker[w].stage = "start"
      /\ worker' = [worker EXCEPT ![w] =
                      _update_sgs_on_ptg(worker[w], "associate", Minus(worker[w].new, worker[w].old))]
      /\ group' = group /\ target' = target /\ set' = set /\ ports' = ports
  BY DEF SetGroupRules, Busy, rows
<1>2. worker'[w] = _update_sgs_on_ptg(worker[w], "associate", Minus(worker[w].new, worker[w].old))
      /\ \A v \in Workers : v # w => worker'[v] = worker[v]
  BY <1>1, PortsBefore
<1>3. /\ worker'[w].kind = "group" /\ worker'[w].on = worker[w].on
      /\ worker'[w].old = worker[w].old /\ worker'[w].new = worker[w].new
      /\ worker'[w].stage = "associate" /\ worker'[w].list = gained
      /\ worker'[w].held = worker[w].held
      /\ worker'[w].todo = IF gained = {} THEN {} ELSE TargetsOf(worker[w].on)
  BY <1>1, <1>2, SgsTaken DEF WorkersWhole
<1>4. worker[w].old \in Relations /\ worker[w].new \in Relations /\ worker[w].on # None
  BY <1>1, GroupJob DEF SecurityConstants
<1>5. worker'[w].held = None
  BY <1>1, <1>3, PortsBefore DEF WorkFits, HeldFits, Busy
<1>6. HeldFits(w)' /\ WorkFits(w)'
  <2>1. \A t \in worker'[w].todo : t \in Targets /\ target'[t] = worker[w].on
    BY <1>1, <1>3 DEF TargetsOf
  <2>2. \A v \in Workers : ~(worker'[v].kind = "target" /\ worker'[v].new = worker[w].on)
    BY <1>1, <1>2, <1>3, PortsBefore DEF WorkFits, Busy
  <2>3. worker'[w].list = SgsOf(Minus(worker'[w].new, worker'[w].old))
    BY <1>3
  <2> QED BY <1>3, <1>5, <2>1, <2>2, <2>3 DEF HeldFits, WorkFits, Busy, SgsOf, Minus
<1>7. ASSUME NEW t \in Targets, target[t] = worker[w].on PROVE PortFits(t)'
  <2>1. \A p \in Sets, s \in Sides :
          /\ Late(w, t, p, s) <=> p \in worker[w].old[s]
          /\ Early(w, t, p, s) <=> p \notin worker[w].old[s]
          /\ Late(w, t, p, s)' <=> p \in worker[w].old[s]
          /\ Early(w, t, p, s)' <=> p \notin worker[w].old[s] /\ t \in worker'[w].todo
    BY <1>1, <1>3 DEF Late, Early
  <2>2. \A p \in Sets, s \in Sides :
          p \in worker[w].new[s] /\ p \notin worker[w].old[s] => t \in worker'[w].todo
    <3> SUFFICES ASSUME NEW p \in Sets, NEW s \in Sides, p \in worker[w].new[s], p \notin worker[w].old[s]
                 PROVE  t \in worker'[w].todo
      OBVIOUS
    <3>1. <<p, s>> \in gained
      BY <1>4, MinusIs
    <3> QED BY <1>3, <1>7, <3>1 DEF TargetsOf
  <2>3. /\ \A i \in ports[t] : i[1] \in Exists(set)
        /\ \A p \in Sets, s \in Sides :
              /\ <<p, s>> \in ports[t] => p \in worker[w].new[s] \/ Late(w, t, p, s)
              /\ p \in worker[w].new[s] /\ ~Early(w, t, p, s) => <<p, s>> \in ports[t]
    BY <1>1, <1>7, OneWorks
  <2> QED BY <1>1, <1>2, <1>3, <1>7, <2>1, <2>2, <2>3, PortAfter
<1> QED BY <1>1, <1>2, <1>3, <1>6, <1>7, GroupStepPorts

\* they are still to leave what it gave up,
LEMMA LeaveOldSgsPorts ==
  ASSUME SecurityConstants, SecurityInv, PortsInv, WorkersWhole, NEW w \in Workers, LeaveOldSgs(w)
  PROVE  PortsInv'
<1> DEFINE lost == SgsOf(Minus(worker[w].old, worker[w].new))
<1>1. /\ worker[w].kind = "group" /\ worker[w].stage = "associate" /\ worker[w].todo = {}
      /\ worker' = [worker EXCEPT ![w] =
                      _update_sgs_on_ptg(worker[w], "disassociate", Minus(worker[w].old, worker[w].new))]
      /\ group' = group /\ target' = target /\ set' = set /\ ports' = ports
  BY DEF LeaveOldSgs, Busy, rows
<1>2. worker'[w] = _update_sgs_on_ptg(worker[w], "disassociate", Minus(worker[w].old, worker[w].new))
      /\ \A v \in Workers : v # w => worker'[v] = worker[v]
  BY <1>1, PortsBefore
<1>3. /\ worker'[w].kind = "group" /\ worker'[w].on = worker[w].on
      /\ worker'[w].old = worker[w].old /\ worker'[w].new = worker[w].new
      /\ worker'[w].stage = "disassociate" /\ worker'[w].list = lost
      /\ worker'[w].held = worker[w].held
      /\ worker'[w].todo = IF lost = {} THEN {} ELSE TargetsOf(worker[w].on)
  BY <1>1, <1>2, SgsTaken DEF WorkersWhole
<1>4. worker[w].old \in Relations /\ worker[w].new \in Relations /\ worker[w].on # None
  BY <1>1, GroupJob DEF SecurityConstants
<1>5. worker'[w].held = None
  BY <1>1, <1>3, PortsBefore DEF HeldFits, Busy
<1>6. HeldFits(w)' /\ WorkFits(w)'
  <2>1. \A t \in worker'[w].todo : t \in Targets /\ target'[t] = worker[w].on
    BY <1>1, <1>3 DEF TargetsOf
  <2>2. \A v \in Workers : ~(worker'[v].kind = "target" /\ worker'[v].new = worker[w].on)
    BY <1>1, <1>2, <1>3, PortsBefore DEF WorkFits, Busy
  <2>3. worker'[w].list = SgsOf(Minus(worker'[w].old, worker'[w].new))
    BY <1>3
  <2> QED BY <1>3, <1>5, <2>1, <2>2, <2>3 DEF HeldFits, WorkFits, Busy, SgsOf, Minus
<1>7. ASSUME NEW t \in Targets, target[t] = worker[w].on PROVE PortFits(t)'
  <2>1. \A p \in Sets, s \in Sides :
          /\ Late(w, t, p, s) <=> p \in worker[w].old[s]
          /\ ~Early(w, t, p, s) /\ ~Early(w, t, p, s)'
          /\ Late(w, t, p, s)' <=> p \in worker[w].old[s] /\ t \in worker'[w].todo
    BY <1>1, <1>3 DEF Late, Early
  <2>2. \A p \in Sets, s \in Sides :
          p \in worker[w].old[s] /\ p \notin worker[w].new[s] => t \in worker'[w].todo
    <3> SUFFICES ASSUME NEW p \in Sets, NEW s \in Sides, p \in worker[w].old[s], p \notin worker[w].new[s]
                 PROVE  t \in worker'[w].todo
      OBVIOUS
    <3>1. <<p, s>> \in lost
      BY <1>4, MinusIs
    <3> QED BY <1>3, <1>7, <3>1 DEF TargetsOf
  <2>3. /\ \A i \in ports[t] : i[1] \in Exists(set)
        /\ \A p \in Sets, s \in Sides :
              /\ <<p, s>> \in ports[t] => p \in worker[w].new[s] \/ Late(w, t, p, s)
              /\ p \in worker[w].new[s] /\ ~Early(w, t, p, s) => <<p, s>> \in ports[t]
    BY <1>1, <1>7, OneWorks
  <2> QED BY <1>1, <1>2, <1>3, <1>7, <2>1, <2>2, <2>3, PortAfter
<1> QED BY <1>1, <1>2, <1>3, <1>6, <1>7, GroupStepPorts

\* and have done so in the end.
LEMMA UnsetGroupRulesPorts ==
  ASSUME SecurityConstants, SecurityInv, PortsInv, NEW w \in Workers, UnsetGroupRules(w)
  PROVE  PortsInv'
<1>1. /\ worker[w].kind = "group" /\ worker[w].stage = "disassociate" /\ worker[w].todo = {}
      /\ worker' = [worker EXCEPT ![w] = Idle]
      /\ group' = group /\ target' = target /\ set' = set /\ ports' = ports
  BY DEF UnsetGroupRules, Post, rows
<1>2. /\ worker'[w].kind = "none" /\ worker'[w].todo = {} /\ worker'[w].held = None
      /\ \A v \in Workers : v # w => worker'[v] = worker[v]
  BY <1>1, PortsBefore DEF Idle
<1>3. HeldFits(w)' /\ WorkFits(w)'
  BY <1>2, WorkIdle
<1>4. ASSUME NEW t \in Targets, target[t] = worker[w].on PROVE PortFits(t)'
  <2>1. /\ target[t] # None
        /\ \A v \in Workers : Working(v, target[t]) <=> v = w
        /\ \A i \in ports[t] : i[1] \in Exists(set)
        /\ \A p \in Sets, s \in Sides :
              /\ Has(target[t], p, s) <=> p \in worker[w].new[s]
              /\ <<p, s>> \in ports[t] => p \in worker[w].new[s] \/ Late(w, t, p, s)
              /\ p \in worker[w].new[s] /\ ~Early(w, t, p, s) => <<p, s>> \in ports[t]
    BY <1>1, <1>4, OneWorks
  <2>2. \A p \in Sets, s \in Sides : ~Late(w, t, p, s) /\ ~Early(w, t, p, s)
    BY <1>1 DEF Late, Early
  <2>3. \A p \in Sets, s \in Sides : Has(target[t], p, s)' <=> Has(target[t], p, s)
    BY <1>1 DEF Has
  <2>4. Exists(set)' = Exists(set)
    BY <1>1 DEF Exists
  <2>5. \A v \in Workers : ~Working(v, target[t])'
    BY <1>1, <1>2, <2>1 DEF Working, Busy
  <2> QED BY <1>1, <2>1, <2>2, <2>3, <2>4, <2>5 DEF PortFits
<1> QED BY <1>1, <1>2, <1>3, <1>4, GroupStepPorts

\* A step about one port leaves the others as they are.
LEMMA PortStep ==
  ASSUME SecurityConstants, SecurityInv, PortsInv, NEW w \in Workers, NEW t \in Targets,
         \A v \in Workers : v # w => worker'[v] = worker[v],
         group' = group, target' = target, set' = set,
         \A u \in Targets : u # t => ports'[u] = ports[u],
         \/ worker'[w].kind = "none" /\ worker[w].kind = "target" /\ worker[w].on = t
         \/ /\ worker'[w].kind = worker[w].kind /\ worker'[w].on = worker[w].on
            /\ worker'[w].old = worker[w].old /\ worker'[w].new = worker[w].new
            /\ worker[w].kind = "group" =>
                 /\ worker'[w].stage = worker[w].stage
                 /\ \A u \in Targets : u # t => (u \in worker'[w].todo <=> u \in worker[w].todo),
         HeldFits(w)', WorkFits(w)', PortFits(t)',
         \A v \in Workers : v # w /\ t \in worker[v].todo /\ target[t] # None => ports'[t] = ports[t]
  PROVE  PortsInv'
<1>1. Exists(set)' = Exists(set)
  BY DEF Exists
<1>2. ASSUME NEW u \in Targets, u # t PROVE PortFits(u)'
  <2>1. PortFits(u) /\ \A i \in ports[u] : i[1] \in Exists(set)'
    BY <1>1, PortsBefore
  <2>2. Waits(u)' <=> Waits(u)
    <3>1. \A v \in Workers : (worker'[v].kind = "target" /\ worker'[v].on = u)
                               <=> (worker[v].kind = "target" /\ worker[v].on = u)
      BY <1>2
    <3> QED BY <3>1 DEF Waits, Busy
  <2>3. \A v \in Workers :
                /\ (worker'[v].kind = "group" /\ worker'[v].on = target[u])
                     <=> (worker[v].kind = "group" /\ worker[v].on = target[u])
                /\ worker[v].kind = "group" /\ worker[v].on = target[u] =>
                     /\ worker'[v].old = worker[v].old /\ worker'[v].stage = worker[v].stage
                     /\ u \in worker'[v].todo <=> u \in worker[v].todo
    BY <1>2
  <2> QED BY <1>2, <2>1, <2>2, <2>3, PortFrame
<1>3. ASSUME NEW v \in Workers, v # w PROVE HeldFits(v)' /\ WorkFits(v)'
  <2>1. HeldFits(v) /\ WorkFits(v) /\ worker'[v] = worker[v]
    BY <1>3, PortsBefore
  <2>2. worker[v].kind = "target" /\ worker[v].new = None => group'[worker[v].old] # None
    BY <2>1 DEF WorkFits, Busy
  <2>3. \A x \in Workers : worker'[x].kind = "target" =>
                             worker[x].kind = "target" /\ worker'[x].new = worker[x].new
    OBVIOUS
  <2>4. \A u \in Targets : u \in worker[v].todo /\ target'[u] # None => ports'[u] = ports[u]
    BY <1>3
  <2> QED BY <1>1, <2>1, <2>2, <2>3, <2>4, WorkFrame
<1>4. \A u \in Targets : PortFits(u)'
  BY <1>2
<1>5. \A v \in Workers : HeldFits(v)' /\ WorkFits(v)'
  BY <1>3
<1> QED BY <1>4, <1>5 DEF PortsInv

\* The request for a target has its own row.
LEMMA TargetJob ==
  ASSUME SecurityConstants, SecurityInv, PortsInv, NEW w \in Workers, worker[w].kind = "target"
  PROVE  /\ worker[w].on \in Targets /\ target[worker[w].on] = worker[w].new
         /\ worker[w].new \in Groups \cup {None}
         /\ worker[w].new # None => group[worker[w].new] \in Relations
         /\ worker[w].todo \subseteq {worker[w].on}
         /\ Waits(worker[w].on)
         /\ \A v \in Workers : ~(worker[v].kind = "group" /\ worker[v].on = worker[w].new)
         /\ \A v \in Workers : v # w /\ worker[w].on \in worker[v].todo => worker[w].new = None
<1>1. JobFits(w) /\ HeldFits(w) /\ WorkFits(w)
  BY PortsBefore
<1>2. /\ worker[w].on \in Targets /\ target[worker[w].on] = worker[w].new
      /\ worker[w].new \in Groups \cup {None}
  BY <1>1 DEF JobFits, Busy
<1>3. worker[w].new # None => group[worker[w].new] \in Relations
  BY <1>2, PortsBefore
<1>4. worker[w].todo \subseteq {worker[w].on}
  BY <1>1 DEF WorkFits, Busy
<1>5. Waits(worker[w].on)
  BY DEF Waits, Busy
<1>6. \A v \in Workers : ~(worker[v].kind = "group" /\ worker[v].on = worker[w].new)
  BY PortsBefore DEF WorkFits, Busy
<1>7. ASSUME NEW v \in Workers, v # w, worker[w].on \in worker[v].todo PROVE worker[w].new = None
  <2>1. HeldFits(v) /\ WorkFits(v)
    BY PortsBefore
  <2>2. CASE worker[v].kind = "group"
    BY <1>2, <1>6, <1>7, <2>1, <2>2 DEF WorkFits, Busy
  <2>3. CASE worker[v].kind = "target"
    <3>1. worker[v].todo \subseteq {worker[v].on}
      BY <2>1, <2>3 DEF WorkFits, Busy
    <3> QED BY <1>7, <2>3, <3>1, PortsBefore
  <2>4. CASE worker[v].kind \notin {"group", "target"}
    BY <1>7, <2>1, <2>4 DEF HeldFits, Busy
  <2> QED BY <2>2, <2>3, <2>4
<1> QED BY <1>2, <1>3, <1>4, <1>5, <1>6, <1>7

\* The security groups of a relation are its rule sets, each for its side.
LEMMA SgsIs ==
  ASSUME NEW rel \in Relations
  PROVE  /\ \A p \in Sets, s \in Sides : <<p, s>> \in SgsOf(rel) <=> p \in rel[s]
         /\ SgsOf(rel) \subseteq Sets \X Sides
<1>1. \A s \in Sides : rel[s] \subseteq Sets
  BY SidesAre
<1>2. \A i : i \in SgsOf(rel) <=> \E s \in Sides : i \in rel[s] \X {s}
  BY DEF SgsOf
<1> QED BY <1>1, <1>2

\* A worker takes a port as it is.
LEMMA ReadPortPorts ==
  ASSUME SecurityConstants, SecurityInv, PortsInv, WorkersWhole, NEW w \in Workers, NEW t \in Targets, ReadPort(w, t)
  PROVE  PortsInv'
<1> DEFINE todo == IF target[t] = None THEN worker[w].todo \ {t} ELSE worker[w].todo
           held == IF target[t] = None THEN None ELSE [target |-> t, sgs |-> ports[t]]
<1>1. /\ t \in worker[w].todo
      /\ group' = group /\ target' = target /\ set' = set /\ ports' = ports
      /\ worker' = [worker EXCEPT ![w].todo = todo, ![w].held = held]
  BY DEF ReadPort, rows
<1>2. /\ worker'[w] = [worker[w] EXCEPT !.todo = todo, !.held = held]
      /\ \A v \in Workers : v # w => worker'[v] = worker[v]
  <2> HIDE DEF todo, held
  <2> QED BY <1>1, PortsBefore
<1>3. /\ worker'[w].kind = worker[w].kind /\ worker'[w].on = worker[w].on
      /\ worker'[w].old = worker[w].old /\ worker'[w].new = worker[w].new
      /\ worker'[w].stage = worker[w].stage /\ worker'[w].list = worker[w].list
      /\ worker'[w].todo = todo /\ worker'[w].held = held
  <2> HIDE DEF todo, held
  <2> QED BY <1>2 DEF WorkersWhole, Whole, Parts
<1>4. HeldFits(w) /\ WorkFits(w) /\ worker[w].kind \in {"group", "target"}
  BY <1>1, PortsBefore DEF HeldFits, Busy
<1>5. todo \subseteq worker[w].todo
  OBVIOUS
<1>6. Exists(set)' = Exists(set)
  BY <1>1 DEF Exists
<1>7. HeldFits(w)'
  <2>1. todo \subseteq Targets
    BY <1>4, <1>5 DEF HeldFits
  <2>2. target[t] # None => /\ held \in Ports /\ held.target = t /\ t \in todo /\ held.sgs = ports[t]
                            /\ \A i \in ports[t] : i[1] \in Exists(set)'
    BY <1>1, <1>6, PortsBefore DEF Ports
  <2>3. target[t] = None => held = None
    OBVIOUS
  <2> HIDE DEF todo, held
  <2> QED BY <1>1, <1>3, <1>4, <2>1, <2>2, <2>3 DEF HeldFits, Busy
<1>8. WorkFits(w)'
  <2>1. CASE worker[w].kind = "group"
    <3>1. /\ worker[w].stage \in {"associate", "disassociate"}
          /\ worker[w].stage = "associate" => worker[w].list = SgsOf(Minus(worker[w].new, worker[w].old))
          /\ worker[w].stage = "disassociate" => worker[w].list = SgsOf(Minus(worker[w].old, worker[w].new))
          /\ \A u \in worker[w].todo : target[u] \in {worker[w].on, None}
          /\ \A v \in Workers : ~(worker[v].kind = "target" /\ worker[v].new = worker[w].on)
      BY <1>1, <1>4, <2>1 DEF WorkFits, Busy
    <3>2. \A u \in todo : target'[u] \in {worker[w].on, None}
      BY <1>1, <1>5, <3>1
    <3>3. \A v \in Workers : ~(worker'[v].kind = "target" /\ worker'[v].new = worker[w].on)
      BY <1>2, <1>3, <2>1, <3>1
    <3>4. /\ SgsOf(Minus(worker'[w].new, worker'[w].old)) = SgsOf(Minus(worker[w].new, worker[w].old))
          /\ SgsOf(Minus(worker'[w].old, worker'[w].new)) = SgsOf(Minus(worker[w].old, worker[w].new))
      BY <1>3
    <3> HIDE DEF todo, held
    <3> QED BY <1>3, <2>1, <3>1, <3>2, <3>3, <3>4 DEF WorkFits, Busy, SgsOf, Minus
  <2>2. CASE worker[w].kind = "target"
    <3>1. /\ worker[w].stage = "associate" /\ worker[w].new # None
          /\ worker[w].list = SgsOf(group[worker[w].new]) /\ worker[w].todo = {worker[w].on}
      BY <1>1, <1>4, <2>2 DEF WorkFits, Busy
    <3>2. target[t] # None
      BY <1>1, <2>2, <3>1, TargetJob
    <3>3. todo = {worker[w].on}
      BY <3>1, <3>2
    <3> HIDE DEF todo, held
    <3>4. SgsOf(group'[worker'[w].new]) = SgsOf(group[worker[w].new])
      BY <1>1, <1>3
    <3> QED BY <1>3, <2>2, <3>1, <3>3, <3>4 DEF WorkFits, Busy, SgsOf
  <2> QED BY <1>4, <2>1, <2>2
<1>9. PortFits(t)'
  <2>1. PortFits(t) /\ \A i \in ports[t] : i[1] \in Exists(set)'
    BY <1>6, PortsBefore
  <2>2. Waits(t)' <=> Waits(t)
    BY <1>2, <1>3 DEF Waits, Busy
  <2>3. target[t] # None => todo = worker[w].todo
    OBVIOUS
  <2>4. target[t] # None => \A v \in Workers :
                /\ (worker'[v].kind = "group" /\ worker'[v].on = target[t])
                     <=> (worker[v].kind = "group" /\ worker[v].on = target[t])
                /\ worker[v].kind = "group" /\ worker[v].on = target[t] =>
                     /\ worker'[v].old = worker[v].old /\ worker'[v].stage = worker[v].stage
                     /\ t \in worker'[v].todo <=> t \in worker[v].todo
    <3> HIDE DEF todo, held
    <3> QED BY <1>2, <1>3, <2>3
  <2> QED BY <1>1, <2>1, <2>2, <2>4, PortFrame
<1>10. \A u \in Targets : u # t => (u \in worker'[w].todo <=> u \in worker[w].todo)
  BY <1>3
<1> HIDE DEF todo, held
<1> QED BY <1>1, <1>2, <1>3, <1>7, <1>8, <1>9, <1>10, PortStep

\* A target's request reads what its group now provides and consumes.
LEMMA ReadGroupPorts ==
  ASSUME SecurityConstants, SecurityInv, PortsInv, WorkersWhole, NEW w \in Workers, ReadGroup(w)
  PROVE  PortsInv'
<1>0. worker[w].kind = "target"
  BY DEF ReadGroup, Busy
<1>. PICK t \in Targets : t = worker[w].on
  BY <1>0, TargetJob
<1>. PICK list : list = SgsOf(group[worker[w].new])
  OBVIOUS
<1>1. /\ worker[w].kind = "target" /\ worker[w].new # None /\ worker[w].stage = "start"
      /\ worker' = [worker EXCEPT ![w] =
                      [worker[w] EXCEPT !.stage = "associate", !.todo = {t}, !.list = list]]
      /\ group' = group /\ target' = target /\ set' = set /\ ports' = ports
  BY DEF ReadGroup, Busy, rows
<1>2. worker[w].held = None /\ t \in Targets
  BY <1>1, PortsBefore, TargetJob DEF HeldFits, WorkFits, Busy
<1>3. /\ worker'[w] = [worker[w] EXCEPT !.stage = "associate", !.todo = {t}, !.list = list]
      /\ \A v \in Workers : v # w => worker'[v] = worker[v]
  <2> QED BY <1>1, PortsBefore
<1>4. /\ worker'[w].kind = "target" /\ worker'[w].on = t /\ worker'[w].held = None
      /\ worker'[w].old = worker[w].old /\ worker'[w].new = worker[w].new
      /\ worker'[w].stage = "associate" /\ worker'[w].list = list /\ worker'[w].todo = {t}
  <2>1. Whole(worker[w]) /\ worker[w].on = t
    BY DEF WorkersWhole
  <2>2. /\ worker'[w].kind = worker[w].kind /\ worker'[w].on = worker[w].on
        /\ worker'[w].old = worker[w].old /\ worker'[w].new = worker[w].new
        /\ worker'[w].stage = "associate" /\ worker'[w].list = list /\ worker'[w].todo = {t}
        /\ worker'[w].held = worker[w].held
    BY <1>3, <2>1 DEF Whole, Parts
  <2> QED BY <1>0, <1>2, <2>1, <2>2
<1>5. HeldFits(w)' /\ WorkFits(w)'
  BY <1>1, <1>2, <1>4 DEF HeldFits, WorkFits, Busy, SgsOf
<1>6. PortFits(t)'
  <2>1. PortFits(t) /\ \A i \in ports[t] : i[1] \in Exists(set)'
    BY <1>1, <1>2, PortsBefore DEF Exists
  <2>2. Waits(t)' <=> Waits(t)
    BY <1>1, <1>3, <1>4 DEF Waits, Busy
  <2>3. \A v \in Workers :
          /\ worker'[v].kind = "group" <=> worker[v].kind = "group"
          /\ worker[v].kind = "group" => worker'[v] = worker[v]
    BY <1>1, <1>3, <1>4
  <2> QED BY <1>1, <1>2, <2>1, <2>2, <2>3, PortFrame
<1> QED BY <1>1, <1>2, <1>3, <1>4, <1>5, <1>6, PortStep

\* The port of a target leaves what its group gave up, or gets what it has.
LEMMA OldPortWritten ==
  ASSUME SecurityConstants, SecurityInv, PortsInv, WorkersWhole, NEW w \in Workers, WritePort(w),
         worker[w].kind = "group"
  PROVE  PortsInv'
<1>1. worker[w].held # None
  BY DEF WritePort
<1>2. PICK t \in Targets : t = worker[w].held.target
  BY <1>1, WrittenIs
<1>3. /\ worker[w].held # None
      /\ group' = group /\ target' = target /\ set' = set
      /\ ports' = [ports EXCEPT ![t] = IF HasPort(t) THEN Changed(worker[w]) ELSE ports[t]]
  BY <1>2 DEF WritePort, rows
<1>4. PICK q : q = [worker[w] EXCEPT !.todo = worker[w].todo \ {t}, !.held = None]
  OBVIOUS
<1>5. worker' = [worker EXCEPT ![w] = q]
  BY <1>2, <1>4 DEF WritePort
<1>6. /\ worker[w].held \in Ports /\ t \in worker[w].todo /\ worker[w].todo \subseteq Targets
      /\ t \in Targets /\ worker[w].stage \in {"associate", "disassociate"}
      /\ Changed(worker[w]) \subseteq Sets \X Sides
      /\ \A i \in Changed(worker[w]) : i[1] \in Exists(set)
  BY <1>3, <1>2, WrittenIs, PortsBefore DEF WorkFits, Busy
<1>7. /\ \A v \in Workers : v # w => worker'[v] = worker[v]
      /\ ports'[t] = IF HasPort(t) THEN Changed(worker[w]) ELSE ports[t]
      /\ \A u \in Targets : u # t => ports'[u] = ports[u]
  BY <1>3, <1>6, <1>5, PortsBefore
<1>8. /\ worker'[w].kind = "group" /\ worker'[w].on = worker[w].on
      /\ worker'[w].old = worker[w].old /\ worker'[w].new = worker[w].new
      /\ worker'[w].stage = worker[w].stage /\ worker'[w].list = worker[w].list
      /\ worker'[w].todo = worker[w].todo \ {t} /\ worker'[w].held = None
  <2>1. worker'[w] = [worker[w] EXCEPT !.todo = worker[w].todo \ {t}, !.held = None]
    BY <1>5, <1>4, PortsBefore
  <2> QED BY <2>1 DEF WorkersWhole, Whole, Parts
<1>9. HeldFits(w) /\ WorkFits(w)
  BY PortsBefore
<1>10. Exists(set)' = Exists(set)
  BY <1>3 DEF Exists
<1>11. HeldFits(w)' /\ WorkFits(w)'
  <2>1. /\ worker[w].stage = "associate" => worker[w].list = SgsOf(Minus(worker[w].new, worker[w].old))
        /\ worker[w].stage = "disassociate" => worker[w].list = SgsOf(Minus(worker[w].old, worker[w].new))
        /\ \A u \in worker[w].todo : target[u] \in {worker[w].on, None}
        /\ \A v \in Workers : ~(worker[v].kind = "target" /\ worker[v].new = worker[w].on)
    BY <1>9 DEF WorkFits, Busy
  <2>2. \A u \in worker'[w].todo : target'[u] \in {worker[w].on, None}
    BY <1>3, <1>8, <2>1
  <2>3. \A v \in Workers : ~(worker'[v].kind = "target" /\ worker'[v].new = worker[w].on)
    BY <1>7, <1>8, <2>1
  <2>4. /\ SgsOf(Minus(worker'[w].new, worker'[w].old)) = SgsOf(Minus(worker[w].new, worker[w].old))
        /\ SgsOf(Minus(worker'[w].old, worker'[w].new)) = SgsOf(Minus(worker[w].old, worker[w].new))
    BY <1>8
  <2>5. worker'[w].todo \subseteq Targets
    BY <1>6, <1>8
  <2>6. WorkFits(w)'
    BY <1>6, <1>8, <2>1, <2>2, <2>3, <2>4 DEF WorkFits, Busy, SgsOf, Minus
  <2>7. HeldFits(w)'
    BY <1>8, <2>5 DEF HeldFits, Busy
  <2> QED BY <2>6, <2>7
<1>12. CASE target[t] = None
  <2>1. Waits(t)' <=> Waits(t)
    BY <1>7, <1>8 DEF Waits, Busy
  <2>2. HasPort(t) <=> Waits(t)
    BY <1>12 DEF HasPort, Waits
  <2>3. PortFits(t)'
    BY <1>3, <1>6, <1>7, <1>10, <1>12, <2>1, <2>2, PortsBefore DEF PortFits
  <2>4. \A v \in Workers : v # w /\ t \in worker[v].todo /\ target[t] # None => ports'[t] = ports[t]
    BY <1>12
  <2>5. \A u \in Targets : u # t => (u \in worker'[w].todo <=> u \in worker[w].todo)
    BY <1>8
  <2> QED BY <1>3, <1>6, <1>7, <1>8, <1>11, <2>3, <2>4, <2>5, PortStep
<1>13. CASE target[t] # None
  <2>1. target[t] = worker[w].on
    BY <1>6, <1>9, <1>13 DEF WorkFits, Busy
  <2>2. worker[w].held.sgs = ports[t] /\ ports'[t] = Changed(worker[w])
    BY <1>3, <1>7, <1>9, <1>13, <1>2 DEF HeldFits, HasPort
  <2>3. worker[w].old \in Relations /\ worker[w].new \in Relations
    BY GroupJob
  <2>4. \A p \in Sets, s \in Sides :
          /\ <<p, s>> \in ports[t] => p \in worker[w].new[s] \/ Late(w, t, p, s)
          /\ p \in worker[w].new[s] /\ ~Early(w, t, p, s) => <<p, s>> \in ports[t]
    <3>1. \A u \in Targets : target[u] = worker[w].on => \A p \in Sets, s \in Sides :
            /\ <<p, s>> \in ports[u] => p \in worker[w].new[s] \/ Late(w, u, p, s)
            /\ p \in worker[w].new[s] /\ ~Early(w, u, p, s) => <<p, s>> \in ports[u]
      BY OneWorks
    <3> QED BY <2>1, <3>1
  <2>5. ASSUME worker[w].stage = "associate", NEW p \in Sets, NEW s \in Sides
        PROVE  /\ <<p, s>> \in ports'[t] => p \in worker[w].new[s] \/ Late(w, t, p, s)'
               /\ p \in worker[w].new[s] /\ ~Early(w, t, p, s)' => <<p, s>> \in ports'[t]
    <3>1. <<p, s>> \in ports'[t] <=> <<p, s>> \in ports[t] \/ p \in worker[w].new[s] \ worker[w].old[s]
      <4>1. Changed(worker[w]) = ports[t] \cup SgsOf(Minus(worker[w].new, worker[w].old))
        BY <1>9, <2>2, <2>5 DEF Changed, WorkFits, Busy
      <4>2. <<p, s>> \in SgsOf(Minus(worker[w].new, worker[w].old)) <=> p \in worker[w].new[s] \ worker[w].old[s]
        BY <2>3, MinusIs
      <4> QED BY <2>2, <4>1, <4>2
    <3>2. /\ Late(w, t, p, s)' <=> p \in worker[w].old[s]
          /\ Late(w, t, p, s) <=> p \in worker[w].old[s]
          /\ Early(w, t, p, s) => p \notin worker[w].old[s]
      BY <1>8, <2>5 DEF Late, Early
    <3> QED BY <2>4, <3>1, <3>2
  <2>6. ASSUME worker[w].stage = "disassociate", NEW p \in Sets, NEW s \in Sides
        PROVE  /\ <<p, s>> \in ports'[t] => p \in worker[w].new[s] \/ Late(w, t, p, s)'
               /\ p \in worker[w].new[s] /\ ~Early(w, t, p, s)' => <<p, s>> \in ports'[t]
    <3>1. <<p, s>> \in ports'[t] <=> <<p, s>> \in ports[t] /\ ~(p \in worker[w].old[s] \ worker[w].new[s])
      <4>1. Changed(worker[w]) = ports[t] \ SgsOf(Minus(worker[w].old, worker[w].new))
        BY <1>9, <2>2, <2>6 DEF Changed, WorkFits, Busy
      <4>2. <<p, s>> \in SgsOf(Minus(worker[w].old, worker[w].new)) <=> p \in worker[w].old[s] \ worker[w].new[s]
        BY <2>3, MinusIs
      <4> QED BY <2>2, <4>1, <4>2
    <3>2. /\ Late(w, t, p, s) => p \in worker[w].old[s]
          /\ ~Early(w, t, p, s)
      BY <2>6 DEF Late, Early
    <3> QED BY <2>4, <3>1, <3>2
  <2>7. \A p \in Sets, s \in Sides :
          /\ <<p, s>> \in ports'[t] => p \in worker[w].new[s] \/ Late(w, t, p, s)'
          /\ p \in worker[w].new[s] /\ ~Early(w, t, p, s)' => <<p, s>> \in ports'[t]
    BY <1>6, <2>5, <2>6
  <2>8. PortFits(t)'
    BY <1>3, <1>6, <1>7, <1>8, <2>1, <2>2, <2>7, PortAfter
  <2>9. ASSUME NEW v \in Workers, v # w, t \in worker[v].todo PROVE FALSE
    <3>1. HeldFits(v) /\ WorkFits(v)
      BY PortsBefore
    <3>2. CASE worker[v].kind = "group"
      BY <1>13, <2>1, <2>9, <3>1, <3>2, PortsBefore DEF WorkFits, Busy
    <3>3. CASE worker[v].kind = "target"
      <4>1. t = worker[v].on /\ target[t] = worker[v].new
        BY <2>9, <3>3, TargetJob
      <4> QED BY <2>1, <3>3, <4>1, TargetJob
    <3>4. CASE worker[v].kind \notin {"group", "target"}
      BY <2>9, <3>1, <3>4 DEF HeldFits, Busy
    <3> QED BY <3>2, <3>3, <3>4
  <2>10. \A u \in Targets : u # t => (u \in worker'[w].todo <=> u \in worker[w].todo)
    BY <1>8
  <2>11. \A v \in Workers : v # w /\ t \in worker[v].todo /\ target[t] # None => ports'[t] = ports[t]
    BY <2>9
  <2> QED BY <1>3, <1>6, <1>7, <1>8, <1>11, <2>8, <2>10, <2>11, PortStep
<1> QED BY <1>12, <1>13

\* A new target's port gets what its group has.
LEMMA NewPortWritten ==
  ASSUME SecurityConstants, SecurityInv, PortsInv, NEW w \in Workers, WritePort(w),
         worker[w].kind = "target"
  PROVE  PortsInv'
<1>. PICK t \in Targets : t = worker[w].on
  BY TargetJob
<1>. PICK g \in Groups \cup {None} : g = worker[w].new
  BY TargetJob
<1>1. /\ worker[w].held # None /\ worker' = [worker EXCEPT ![w] = Idle]
      /\ group' = group /\ target' = target /\ set' = set
      /\ ports' = [ports EXCEPT ![worker[w].held.target] =
                     IF HasPort(worker[w].held.target) THEN Changed(worker[w])
                     ELSE ports[worker[w].held.target]]
  BY DEF WritePort, rows
<1>2. /\ worker[w].held.target \in worker[w].todo /\ worker[w].stage # "start"
      /\ Changed(worker[w]) \subseteq Sets \X Sides
      /\ \A i \in Changed(worker[w]) : i[1] \in Exists(set)
  BY <1>1, WrittenIs
<1>3. HeldFits(w) /\ WorkFits(w)
  BY PortsBefore
<1>4. /\ worker[w].stage = "associate" /\ g # None /\ worker[w].list = SgsOf(group[g])
  BY <1>2, <1>3 DEF WorkFits, Busy
<1>5. /\ worker[w].held.target = t /\ t \in Targets /\ target[t] = g
      /\ group[g] \in Relations /\ Waits(t)
      /\ \A v \in Workers : ~(worker[v].kind = "group" /\ worker[v].on = g)
      /\ \A v \in Workers : v # w => t \notin worker[v].todo
  BY <1>2, <1>4, TargetJob
<1>6. worker[w].held.sgs = ports[t]
  BY <1>1, <1>3, <1>4, <1>5 DEF HeldFits
<1>7. /\ worker'[w].kind = "none" /\ worker'[w].todo = {} /\ worker'[w].held = None
      /\ \A v \in Workers : v # w => worker'[v] = worker[v]
      /\ \A u \in Targets : u # t => ports'[u] = ports[u]
  BY <1>1, <1>5, PortsBefore DEF Idle
<1>8. ports'[t] = ports[t] \cup SgsOf(group[g])
  <2>1. HasPort(t)
    BY <1>4, <1>5 DEF HasPort
  <2>2. Changed(worker[w]) = ports[t] \cup SgsOf(group[g])
    BY <1>4, <1>6 DEF Changed
  <2>3. ports'[t] = Changed(worker[w])
    BY <1>1, <1>5, <2>1, PortsBefore
  <2> QED BY <2>2, <2>3
<1>9. \A i \in ports'[t] : i[1] \in Exists(set)'
  <2>1. \A i \in SgsOf(group[g]) : i[1] \in Exists(set)
    BY <1>1, <1>4, WrittenIs
  <2>2. \A i \in ports[t] : i[1] \in Exists(set)
    BY <1>5, PortsBefore
  <2> QED BY <1>1, <1>8, <2>1, <2>2 DEF Exists
<1>10. PortFits(t)'
  <2>1. \A p \in Sets, s \in Sides : <<p, s>> \in SgsOf(group[g]) <=> Has(g, p, s)
    <3>1. PICK rel \in Relations : rel = group[g]
      BY <1>5
    <3>2. group[g] # None
      BY <1>4, <1>5, PortsBefore
    <3> QED BY <3>1, <3>2, SgsIs DEF Has
  <2>2. \A v \in Workers : ~Working(v, g) /\ ~Working(v, g)'
    BY <1>5, <1>7 DEF Working, Busy
  <2>3. \A p \in Sets, s \in Sides : <<p, s>> \in ports[t] => Has(g, p, s)
    BY <1>4, <1>5, <2>2, PortsBefore DEF PortFits
  <2>4. \A p \in Sets, s \in Sides : <<p, s>> \in ports'[t] <=> Has(g, p, s)'
    <3>1. \A p, s : Has(g, p, s)' <=> Has(g, p, s)
      BY <1>1 DEF Has
    <3> QED BY <1>8, <2>1, <2>3, <3>1
  <2>5. target'[t] = g
    BY <1>1, <1>5
  <2> QED BY <1>4, <1>9, <2>4, <2>5 DEF PortFits
<1>11. HeldFits(w)' /\ WorkFits(w)'
  BY <1>7, WorkIdle
<1> QED BY <1>1, <1>5, <1>7, <1>10, <1>11, PortStep

LEMMA WritePortPorts ==
  ASSUME SecurityConstants, SecurityInv, PortsInv, WorkersWhole, NEW w \in Workers, WritePort(w)
  PROVE  PortsInv'
BY OldPortWritten, NewPortWritten, WrittenIs DEF WritePort

\* The port goes with the target.
LEMMA DeleteTargetPostPorts ==
  ASSUME SecurityConstants, SecurityInv, PortsInv, NEW w \in Workers, DeleteTargetPost(w)
  PROVE  PortsInv'
<1>0. worker[w].kind = "target"
  BY DEF DeleteTargetPost, Post
<1>. PICK t \in Targets : t = worker[w].on
  BY <1>0, TargetJob
<1>1. /\ worker[w].kind = "target" /\ worker[w].new = None /\ worker' = [worker EXCEPT ![w] = Idle]
      /\ group' = group /\ target' = target /\ set' = set
      /\ ports' = [ports EXCEPT ![t] = IF group[worker[w].old] = None THEN @ ELSE {}]
  BY DEF DeleteTargetPost, Post, rows
<1>2. t \in Targets /\ target[t] = None /\ group[worker[w].old] # None
  BY <1>1, TargetJob, PortsBefore DEF WorkFits, Busy
<1>3. /\ worker'[w].kind = "none" /\ worker'[w].todo = {} /\ worker'[w].held = None
      /\ \A v \in Workers : v # w => worker'[v] = worker[v]
      /\ ports'[t] = {} /\ \A u \in Targets : u # t => ports'[u] = ports[u]
  BY <1>1, <1>2, PortsBefore DEF Idle
<1>4. HeldFits(w)' /\ WorkFits(w)'
  BY <1>3, WorkIdle
<1>5. PortFits(t)'
  BY <1>1, <1>2, <1>3 DEF PortFits
<1> QED BY <1>1, <1>2, <1>3, <1>4, <1>5, PortStep

\* Steps of groups and targets.
LEMMA EndpointsPorts ==
  ASSUME SecurityConstants, SecurityInv, PortsInv, WorkersWhole, Careful, NEW w \in Workers, Endpoints(w)
  PROVE  PortsInv'
<1>1. CASE \E g \in Groups :
             \/ \E rel \in Relations : CreateGroup(w, g, rel) \/ UpdateGroup(w, g, rel)
             \/ DeleteGroup(w, g)
             \/ \E t \in Targets : CreateTarget(w, t, g)
  BY <1>1, CreateGroupPorts, UpdateGroupPorts, DeleteGroupPorts, CreateTargetPorts
<1>2. CASE SetGroupRules(w) \/ LeaveOldSgs(w) \/ UnsetGroupRules(w)
  BY <1>2, SetGroupRulesPorts, LeaveOldSgsPorts, UnsetGroupRulesPorts
<1>3. CASE \E t \in Targets : DeleteTarget(w, t) \/ ReadPort(w, t)
  BY <1>3, DeleteTargetPorts, ReadPortPorts
<1>4. CASE ReadGroup(w) \/ WritePort(w) \/ DeleteTargetPost(w)
  BY <1>4, ReadGroupPorts, WritePortPorts, DeleteTargetPostPorts
<1> QED BY <1>1, <1>2, <1>3, <1>4 DEF Endpoints

\* Whatever the security groups hold is of a rule set that exists, and the driver has
\* been told of the other side.
LEMMA SgTold ==
  ASSUME SecurityConstants, SecurityInv, NEW i \in sg
  PROVE  i \in Items /\ i[1] \in Exists(set) /\ Told(i)
<1>1. i \in Items
  BY DEF SecurityInv, SecurityTypes
<1>2. CASE NoPolicy
  BY <1>1, <1>2 DEF SecurityInv, SgInv, Exact
<1>3. CASE ~NoPolicy
  <2>1. PICK w \in Workers : Busy(w, Policies)
    BY <1>3 DEF NoPolicy
  <2>2. SgFits(w)
    BY DEF SecurityInv, SgInv
  <2>3. CASE Busy(w, {"classifier"})
    BY <1>1, <2>2, <2>3 DEF SgFits, Exact
  <2>4. CASE Busy(w, {"rule"})
    BY <1>1, <2>2, <2>4 DEF SgFits, Exact
  <2>5. CASE Busy(w, {"set"}) /\ worker[w].new = None
    BY <1>1, <2>2, <2>5 DEF SgFits, Exact
  <2>6. CASE Busy(w, {"set"}) /\ worker[w].new # None
    <3>1. CASE i[1] = worker[w].on
      <4>1. set[worker[w].on] # None /\ worker[w].on \in Sets /\ Told(i)
        BY <1>1, <2>2, <2>6, <3>1 DEF SgFits
      <4>2. DOMAIN set = Sets
        BY DEF SecurityInv, SecurityTypes
      <4> QED
        BY <1>1, <3>1, <4>1, <4>2 DEF Exists
    <3>2. CASE i[1] # worker[w].on /\ i[1] \in Recomputed(worker[w].old, worker[w].new)
      <4>1. worker[w].old.kids \cup worker[w].new.kids \subseteq Exists(set)
        BY <2>2, <2>6 DEF SgFits
      <4>2. i[1] \in Exists(set)
        BY <3>2, <4>1 DEF Recomputed
      <4> QED
        BY <1>1, <2>2, <2>6, <3>2, <4>2 DEF SgFits
    <3>3. CASE i[1] # worker[w].on /\ i[1] \notin Recomputed(worker[w].old, worker[w].new)
      BY <1>1, <2>2, <2>6, <3>3 DEF SgFits, Exact
    <3> QED
      BY <3>1, <3>2, <3>3
  <2> QED
    BY <2>1, <2>3, <2>4, <2>5, <2>6 DEF Busy, Policies
<1> QED
  BY <1>2, <1>3, <1>1

\* The invariant gives the run's property: types,
LEMMA SecurityTyped ==
  ASSUME SecurityConstants, SecurityInv, PortsInv
  PROVE  TypeOK
<1>1. sg \subseteq Exists(set) \X Sides \X {"ingress", "egress"} \X Traffic
                  \X ({{g} : g \in Groups} \cup Blocks)
  <2> SUFFICES ASSUME NEW i \in sg
               PROVE  i \in Exists(set) \X Sides \X {"ingress", "egress"} \X Traffic \X Remotes
    BY DEF Remotes
  <2> QED
    BY SgTold DEF Items
<1>2. ports \in [Targets -> SUBSET (Exists(set) \X Sides)]
  <2>1. ports \in [Targets -> SUBSET (Sets \X Sides)]
    BY DEF SecurityInv, SecurityTypes
  <2>2. ASSUME NEW t \in Targets PROVE ports[t] \subseteq Exists(set) \X Sides
    <3>1. \A i \in ports[t] : i[1] \in Exists(set)
      BY DEF PortsInv, PortFits
    <3>2. ports[t] \subseteq Sets \X Sides
      BY <2>1
    <3> QED
      BY <3>1, <3>2
  <2> QED
    BY <2>1, <2>2
<1>3. \A r \in Rules : rule[r] = None => \A p \in Exists(set) : r \notin set[p].rules
  <2>1. DOMAIN set = Sets
    BY DEF SecurityInv, SecurityTypes
  <2> QED
    BY <2>1 DEF SecurityInv, PolicyInv, Exists
<1> QED
  BY <1>1, <1>2, <1>3 DEF SecurityInv, SecurityTypes, SetRows, TypeOK

\* the image of the policy in security groups,
LEMMA RulesFollow ==
  ASSUME SecurityConstants, SecurityInv
  PROVE  RulesFollowPolicy
<1> SUFFICES ASSUME Quiet PROVE sg = UNION {Image(p) : p \in Exists(set)}
  BY DEF RulesFollowPolicy
<1>1. \A w \in Workers : ~Busy(w, Policies) /\ ~Busy(w, Outsides \cup {"group"})
  BY DEF Quiet, Busy, Policies, Outsides
<1>2. /\ SecurityTypes /\ PolicyInv
      /\ \A i \in Items : Exact(classifier, rule, i)
  BY <1>1 DEF SecurityInv, SgInv, NoPolicy
<1>3. ASSUME NEW p \in Exists(set) PROVE Image(p) \subseteq Items
  <2>1. \A r \in _get_enforced_prs_rules(p, {}) : classifier[rule[r]] \in ClassifierRows
    BY <1>2, RulesTyped, EnforcedIs
  <2>2. \A s \in Sides : _get_cidrs_mapping(p)[s] \subseteq Remotes
    BY <1>2, CidrsAreRemotes
  <2>3. p \in Sets
    BY <1>2, RulesTyped
  <2> QED
    BY <2>1, <2>2, <2>3, ManageTypes DEF Image
<1>4. ASSUME NEW i \in Items, NEW p \in Exists(set)
      PROVE  i \in Image(p) <=> i[1] = p /\ i \in sg
  <2>1. i \in Image(p)
          <=> /\ i[1] = p /\ i[5] \in _get_cidrs_mapping(p)[Other(i[2])]
              /\ \E r \in _get_enforced_prs_rules(p, {}) : Says(classifier[rule[r]], i)
    BY ManageIs DEF Image
  <2>2. (\E r \in _get_enforced_prs_rules(p, {}) : Says(classifier[rule[r]], i))
          <=> \E r \in set[p].rules : May(rule, p, r) /\ Says(classifier[rule[r]], i)
    BY EnforcedIs
  <2>3. i[5] \in _get_cidrs_mapping(i[1])[Other(i[2])] <=> Told(i)
    BY <1>1, <1>2, OwedIs
  <2>4. Exact(classifier, rule, i)
    BY <1>2
  <2> QED
    BY <2>1, <2>2, <2>3, <2>4 DEF Exact, SaidBy
<1>5. ASSUME NEW i \in sg PROVE i \in UNION {Image(p) : p \in Exists(set)}
  <2>1. i \in Items /\ i[1] \in Exists(set)
    BY SgTold
  <2> QED
    BY <1>4, <2>1
<1>6. ASSUME NEW i \in UNION {Image(p) : p \in Exists(set)} PROVE i \in sg
  <2>1. PICK p \in Exists(set) : i \in Image(p)
    OBVIOUS
  <2> QED
    BY <1>3, <1>4, <2>1
<1> QED
  BY <1>5, <1>6

\* the security groups of ports,
LEMMA PortsFollow ==
  ASSUME SecurityConstants, SecurityInv, PortsInv
  PROVE  PortsFollowGroups
<1> SUFFICES ASSUME Quiet, NEW t \in Targets
             PROVE  ports[t] = IF target[t] = None THEN {} ELSE SgsOf(group[target[t]])
  BY DEF PortsFollowGroups
<1>1. \A w \in Workers : ~Busy(w, {"target"}) /\ ~Busy(w, Outsides \cup {"group"})
  BY DEF Quiet, Busy, Outsides
<1>2. PortFits(t)
  BY DEF PortsInv
<1>3. CASE target[t] = None
  BY <1>1, <1>2, <1>3 DEF PortFits, Waits
<1>4. CASE target[t] # None
  <2>1. group[target[t]] # None /\ group[target[t]] \in Relations /\ ports[t] \subseteq Sets \X Sides
    BY <1>4 DEF SecurityInv, SecurityTypes, PolicyInv
  <2>2. \A p \in Sets, s \in Sides : <<p, s>> \in ports[t] <=> p \in group[target[t]][s]
    <3>1. \A w \in Workers : ~Working(w, target[t])
      BY <1>1 DEF Working, Busy
    <3> QED
      BY <1>1, <1>2, <1>4, <2>1, <3>1 DEF PortFits, Has, Waits
  <2>3. ASSUME NEW rel \in Relations
        PROVE  /\ SgsOf(rel) \subseteq Sets \X Sides
               /\ \A p \in Sets, s \in Sides : <<p, s>> \in SgsOf(rel) <=> p \in rel[s]
    BY SidesAre DEF SgsOf
  <2>4. SgsOf(group[target[t]]) \subseteq Sets \X Sides
    BY <2>1, <2>3
  <2>5. \A i \in Sets \X Sides : i \in ports[t] <=> i \in SgsOf(group[target[t]])
    BY <2>1, <2>2, <2>3
  <2> QED
    BY <1>4, <2>1, <2>4, <2>5
<1> QED
  BY <1>3, <1>4

\* and what a group is owed.
LEMMA RulesOwed ==
  ASSUME SecurityConstants, SecurityInv
  PROVE  RulesAreOwed
<1> SUFFICES ASSUME NEW i \in sg, NEW g \in Groups, i[5] = {g}
             PROVE  \/ group[g] # None /\ i[1] \in group[g][Other(i[2])]
                    \/ \E w \in Workers : Busy(w, {"group"}) /\ worker[w].on = g
                                          /\ i[1] \in worker[w].old[Other(i[2])]
  BY DEF RulesAreOwed
<1>1. i[5] \notin Blocks
  BY DEF SecurityConstants
<1>2. ToldOf(g, i[1], Other(i[2]))
  BY <1>1, SgTold DEF Told
<1>3. ASSUME NEW w \in Workers, Busy(w, {"group"}), worker[w].on = g
      PROVE  group[g] = worker[w].new /\ group[g] # None
  BY <1>3, GroupJob DEF Busy
<1> QED
  BY <1>2, <1>3 DEF ToldOf, Has

\* The invariant holds throughout, for careful clients and without the subnet pools option.
LEMMA SecurityInvHolds ==
  ASSUME SecurityConstants, Careful, ~UseSubnetpools
  PROVE  Spec => [](SecurityInv /\ PortsInv)
<1> DEFINE Inv == SecurityInv /\ PortsInv /\ WorkersWhole
<1>1. Init => Inv
  <2>1. Init => WorkersWhole
    BY JobIsWhole DEF Init, WorkersWhole
  <2> QED BY <2>1, SecurityStarts, PortsStart
<1>2. Inv /\ [Next]_vars => SecurityInv'
  BY PolicySafe, EndpointsSafe, OutsideSafe, SecurityStutters DEF Next
<1>3. Inv /\ [Next]_vars => PortsInv'
  BY PolicyPorts, EndpointsPorts, OutsidePorts, PortsStutter DEF Next
<1>4. Inv /\ [Next]_vars => WorkersWhole'
  BY WorkersStayWhole
<1> QED
  BY <1>1, <1>2, <1>3, <1>4, PTL DEF Spec

\* Whichever topic a behaviour follows, the security groups change as the driver does.
LEMMA PolicyMoves == MCSpec => Spec
<1>1. MCInit => Init
  BY DEF MCInit
<1>2. [MCNext]_<<vars, fabricVars, topic>> => [Next]_vars
  BY DEF MCNext
<1> QED
  BY <1>1, <1>2, PTL DEF MCSpec, Spec

--------------------
(* Theorems *)

\* The filters in AIM are those of the rules, and a subject lists the filters of the
\* rules of its rule set, each for its direction, over all the updates the driver
\* follows (aim_mapping.py, _populate_subject and update_policy_classifier_precommit).
THEOREM SubjectsFollowRulesAlways ==
  ASSUME AimConstants
  PROVE  MCSpec => []SubjectsFollowRules
<1>1. AimInv => SubjectsFollowRules
  <2> SUFFICES ASSUME AimInv PROVE SubjectsFollowRules
    OBVIOUS
  <2>1. Aim!TypeOK
    BY DEF AimInv, RuleInv, RuleTypes, GroupInv, GroupTypes, Aim!TypeOK, Values, ListPairs,
      Groupings, Aim!Rows
  <2>2. ASSUME NEW p \in Sets
        PROVE  /\ ruleSet[p] = None <=> subject[p] = None
               /\ ruleSet[p] # None /\ p \notin astray =>
                    subject[p] = Aim!Populated(ruleSet[p])
    <3>1. SubjectLists(p)
      BY DEF AimInv, RuleInv
    <3>2. ruleSet[p] # None =>
            Aim!Populated(ruleSet[p]) = [in |-> Lines(ruleSet[p], "in"),
                                         out |-> Lines(ruleSet[p], "out")]
      BY PopulatedIsWanted DEF AimInv, RuleInv, RuleTypes, RowsAreThere
    <3> QED BY <3>1, <3>2 DEF SubjectLists
  <2> QED BY <2>1, <2>2 DEF SubjectsFollowRules, Aim!SubjectFollowsRules, AimInv, RuleInv
<1> QED BY <1>1, AimInvHolds, FabricMoves, PTL

\* Endpoint groups have the contracts and the application profile of their rows, and
\* these exist, whatever requests come between a group's creation and its postcommit
\* method, except an update or the deletion of the group or of its application group
\* (aim_mapping.py, create_policy_target_group_postcommit).
THEOREM EpgsFollowGroupsAlways ==
  ASSUME AimConstants
  PROVE  MCSpec => []EpgsFollowGroups
<1>1. AimInv => EpgsFollowGroups
  <2> SUFFICES ASSUME AimInv PROVE EpgsFollowGroups
    OBVIOUS
  <2>1. Aim!EpgFollowsGroup
    BY DEF AimInv, GroupInv, Mapping, Aim!EpgFollowsGroup
  <2>2. Aim!ProfilesAreUsed
    BY DEF AimInv, GroupInv, Mapping, Aim!ProfilesAreUsed
  <2>3. Aim!EpgContractsExist
    <3> SUFFICES ASSUME NEW g \in FabricGroups \ detached, epg[g] # None,
                        NEW p \in epg[g].contracts
                 PROVE  subject[p] # None
      BY DEF Aim!EpgContractsExist
    <3>1. fabricGroup[g] = epg[g] /\ Mapping(g) /\ p \in Sets
      BY MappedGroups DEF AimInv
    <3>2. ruleSet[p] # None
      BY <3>1 DEF Mapping
    <3> QED BY <3>1, <3>2 DEF AimInv, RuleInv, SubjectLists
  <2> QED BY <2>1, <2>2, <2>3 DEF EpgsFollowGroups
<1> QED BY <1>1, AimInvHolds, FabricMoves, PTL

\* The security groups follow the policy: when no request is in progress they hold the
\* rules it amounts to, and the ports of targets are in those of their groups; no rule is
\* for a group that neither has nor gives up the rule set, whoever is in progress
\* (resource_mapping.py, _set_sg_rules_for_cidrs, _recompute_policy_rule_sets and
\* _update_sgs_on_ptg).
THEOREM SecurityFollowsPolicyAlways ==
  ASSUME SecurityConstants, Careful, ~UseSubnetpools
  PROVE  MCSpec => []SecurityFollowsPolicy
<1>1. SecurityInv /\ PortsInv => SecurityFollowsPolicy
  BY SecurityTyped, RulesFollow, PortsFollow, RulesOwed DEF SecurityFollowsPolicy
<1> QED
  BY <1>1, SecurityInvHolds, PolicyMoves, PTL
====================
