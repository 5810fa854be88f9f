--------------------------- MODULE SecurityGroups ---------------------------
(* The resource mapping driver's image of policy in security groups: every
   rule set has one for those who provide it and one for those who consume
   it, whose rules admit the addresses of the other side, and the ports of
   a group are in the security groups of the rule sets of the group.

   A request commits its rows in one step; later steps of the same worker
   run the postcommit method, which changes the security groups by the
   difference the request made.  The rules of a security group are made
   and unmade one by one, and only requests for an address touch the rules
   for it: all that a method changes of them is one step.  The groups of a
   port are read in one transaction and written back in another, after the
   rule sets of its group were read in a third.  All rows are of one
   tenant with one external segment. *)
EXTENDS Naturals, FiniteSets

CONSTANTS Sets, Rules, Classifiers, Groups, Targets, L3s,
          Traffic,        \* protocol and ports of a classifier, both given
          Blocks,         \* the address blocks that have a prefix
          Routes,         \* the destinations that external routes may have
          PoolOf,         \* the block of each L3 policy's pool
          UseSubnetpools, \* the configuration option
          Workers,
          Careful,        \* clients keep off what the driver does not follow
          None

ASSUME BlocksAssumption ==
  /\ \A b \in Blocks : b \subseteq UNION Blocks
  /\ \A a \in UNION Blocks : {a} \in Blocks
  /\ \A x \in L3s : PoolOf[x] \in Blocks

VARIABLES
  classifier, \* [direction, traffic]
  rule,       \* None or the classifier
  set,        \* None or [rules, parent] of a rule set
  group,      \* None or [provided, consumed]
  target,     \* None or the group
  external,   \* None or [provided, consumed] of the external policy
  routes,     \* destinations of the external segment's routes
  l3,         \* the L3 policies, all on the external segment
  sg,         \* rules <<rule set, side, flow, traffic, remote addresses>>
  ports,      \* the security groups <<rule set, side>> of a target's port
  worker

rows == <<classifier, rule, set, group, target, external, routes, l3>>
vars == <<rows, sg, ports, worker>>

Directions == {"in", "out", "bi"}
Sides == {"provided", "consumed"}
Relations == [provided : SUBSET Sets, consumed : SUBSET Sets]
Nothing == [provided |-> {}, consumed |-> {}]

\* What a worker has read: the security groups to add or remove (list), the
\* targets whose ports are left (todo) and the port it has at hand (held).
Idle == [kind |-> "none", on |-> None, old |-> None, new |-> None,
         stage |-> "start", list |-> {}, todo |-> {}, held |-> None]

Exists(f) == {k \in DOMAIN f : f[k] # None}

TypeOK ==
  /\ classifier \in [Classifiers -> [direction : Directions, traffic : Traffic]]
  /\ rule \in [Rules -> Classifiers \cup {None}]
  /\ set \in [Sets -> [rules : SUBSET Rules, parent : Sets \cup {None}] \cup {None}]
  /\ group \in [Groups -> Relations \cup {None}]
  /\ target \in [Targets -> Groups \cup {None}]
  /\ external \in Relations \cup {None}
  /\ routes \subseteq Routes /\ l3 \subseteq L3s
  /\ sg \subseteq Exists(set) \X Sides \X {"ingress", "egress"} \X Traffic
                  \X ({{g} : g \in Groups} \cup Blocks)
  /\ ports \in [Targets -> SUBSET (Exists(set) \X Sides)]
  /\ \A r \in Rules : rule[r] = None => \A p \in Exists(set) : r \notin set[p].rules

Init ==
  /\ classifier \in [Classifiers -> [direction : Directions, traffic : Traffic]]
  /\ rule = [r \in Rules |-> None] /\ set = [p \in Sets |-> None]
  /\ group = [g \in Groups |-> None] /\ target = [t \in Targets |-> None]
  /\ external = None /\ routes = {} /\ l3 = {}
  /\ sg = {} /\ ports = [t \in Targets |-> {}]
  /\ worker = [w \in Workers |-> Idle]

--------------------
(* What the driver reads. *)

\* IPSet.iter_cidrs: the largest blocks.
Cidrs(as) == LET in == {b \in Blocks : b \subseteq as} IN
             {b \in in : \A c \in in : b \subseteq c => b = c}

Pools(xs) == UNION {PoolOf[x] : x \in xs}

\* Addresses that routes lead to and no pool of an L3 policy has.
_process_external_cidrs(rts, xs) == Cidrs((UNION rts) \ Pools(xs))

Users(p, side) == {g \in Exists(group) : p \in group[g][side]}

_get_cidrs_mapping(p) ==
  [s \in Sides |->
     {{g} : g \in Users(p, s)} \cup
     (IF external = None \/ p \notin external[s] THEN {}
      ELSE _process_external_cidrs(routes, l3))]

ParentOf(p) == IF set[p] = None THEN None ELSE set[p].parent
Children(p) == {q \in Exists(set) : set[q].parent = p}
ClassifiersOf(p) == {rule[r] : r \in set[p].rules}

\* Rules of these (an empty list stands for all) that the parent allows.
_get_enforced_prs_rules(p, rs) ==
  LET subset == IF rs = {} THEN set[p].rules ELSE rs IN
  IF set[p].parent = None THEN subset
  ELSE {r \in subset : rule[r] \in ClassifiersOf(set[p].parent)}

Other(side) == IF side = "provided" THEN "consumed" ELSE "provided"

\* "in" is from consumers to providers.
Flows(side, direction) ==
  (IF direction = "bi" \/ (direction = "in") = (side = "provided") THEN {"ingress"} ELSE {})
  \cup
  (IF direction = "bi" \/ (direction = "in") = (side = "consumed") THEN {"egress"} ELSE {})

\* The security group rules for a classifier: each side admits and reaches the
\* addresses of the other.
_add_or_remove_policy_rule_set_rule(p, c, cidrs) ==
  UNION {{<<p, s, f, c.traffic, a>> : f \in Flows(s, c.direction), a \in cidrs[Other(s)]} :
           s \in Sides}

_manage_policy_rule_set_rules(p, rs, cidrs) ==
  UNION {_add_or_remove_policy_rule_set_rule(p, classifier[rule[r]], cidrs) : r \in rs}

\* What the rules of a rule set amount to.
Image(p) ==
  _manage_policy_rule_set_rules(p, _get_enforced_prs_rules(p, {}), _get_cidrs_mapping(p))

\* For the addresses of one provider or consumer: all rules go, those that the
\* parent allows come.
_set_rules_for_cidrs(rel, as) ==
  UNION {UNION {_manage_policy_rule_set_rules(p, _get_enforced_prs_rules(p, {}),
                  [t \in Sides |-> IF t = s THEN as ELSE {}]) : p \in rel[s]} : s \in Sides}

\* Mutant: what is no longer consumed is forgotten.
OnlyProvided(rel, as) ==
  UNION {_manage_policy_rule_set_rules(p, set[p].rules,
           [t \in Sides |-> IF t = "provided" THEN as ELSE {}]) : p \in rel["provided"]}

_unset_rules_for_cidrs(rel, as) ==
  UNION {UNION {_manage_policy_rule_set_rules(p, set[p].rules,
                  [t \in Sides |-> IF t = s THEN as ELSE {}]) : p \in rel[s]} : s \in Sides}

Minus(rel, other) == [s \in Sides |-> rel[s] \ other[s]]
SgsOf(rel) == UNION {rel[s] \X {s} : s \in Sides}
TargetsOf(g) == {t \in Targets : target[t] = g}

--------------------
(* Control of a worker. *)

Busy(v, kinds) == worker[v].kind \in kinds

\* One request at a time on a row.  Careful clients do nothing next to a change
\* of policy, and change one thing at a time about the outside.
Free(w, kind, k) ==
  /\ worker[w].kind = "none"
  /\ \A v \in Workers \ {w} :
       /\ ~(Busy(v, {kind}) /\ worker[v].on = k)
       /\ Careful => /\ ~Busy(v, {"classifier", "rule", "set"})
                     /\ kind \in {"classifier", "rule", "set"} => Busy(v, {"none"})
                     /\ kind \in {"external", "routes", "l3"} =>
                          ~Busy(v, {"external", "routes", "l3"})

Commit(w, kind, k, old, new) ==
  /\ worker' = [worker EXCEPT ![w] = [Idle EXCEPT !.kind = kind, !.on = k,
                                                 !.old = old, !.new = new]]
  /\ UNCHANGED <<sg, ports>>

\* The step of a postcommit method, with what the request changed.
Post(w, kind) ==
  /\ worker[w].kind = kind
  /\ worker' = [worker EXCEPT ![w] = Idle]
  /\ UNCHANGED rows

--------------------
(* Classifiers and rules. *)

\* No two rules of a rule set for the same traffic.
Distinct(cs, rl, st) ==
  \A p \in Exists(st) : \A r, q \in st[p].rules :
    r # q => cs[rl[r]].traffic # cs[rl[q]].traffic

UpdateClassifier(w, c, to) ==
  /\ Free(w, "classifier", c) /\ classifier[c] # to
  /\ classifier' = [classifier EXCEPT ![c] = to]
  /\ Careful => Distinct(classifier', rule, set)
  /\ Commit(w, "classifier", c, classifier[c], to)
  /\ UNCHANGED <<rule, set, group, target, external, routes, l3>>

\* The rules of the old classifier go, in the rule sets that enforce it.
UpdateClassifierPost(w) ==
  LET q == worker[w]
      enforcing == {p \in Exists(set) : \E r \in set[p].rules :
                      rule[r] = q.on /\ r \in _get_enforced_prs_rules(p, {r})}
      of(c) == UNION {_add_or_remove_policy_rule_set_rule(p, c, _get_cidrs_mapping(p)) :
                        p \in enforcing}
  IN /\ Post(w, "classifier")
     /\ sg' = (sg \ of(q.old)) \cup of(q.new)
     /\ UNCHANGED ports

\* Nothing is mapped before the rule is in a rule set.
CreateRule(w, r, c) ==
  /\ Free(w, "rule", r) /\ rule[r] = None
  /\ rule' = [rule EXCEPT ![r] = c]
  /\ UNCHANGED <<classifier, set, group, target, external, routes, l3, sg, ports, worker>>

UpdateRule(w, r, c) ==
  /\ Free(w, "rule", r) /\ rule[r] \notin {None, c}
  /\ rule' = [rule EXCEPT ![r] = c]
  /\ Careful => /\ Distinct(classifier, rule', set)
                /\ \A p \in Exists(set) : r \in set[p].rules => Children(p) = {}
  /\ Commit(w, "rule", r, rule[r], c)
  /\ UNCHANGED <<classifier, set, group, target, external, routes, l3>>

UpdateRulePost(w) ==
  LET q == worker[w]
      ps == {p \in Exists(set) : q.on \in set[p].rules}
  IN /\ Post(w, "rule")
     /\ sg' = (sg \ UNION {_add_or_remove_policy_rule_set_rule(p, classifier[q.old],
                             _get_cidrs_mapping(p)) : p \in ps})
              \cup UNION {_manage_policy_rule_set_rules(p, _get_enforced_prs_rules(p, {q.on}),
                            _get_cidrs_mapping(p)) : p \in ps}
     /\ UNCHANGED ports

\* Mutant: rules in use are deleted.
DeleteRuleInUse(w, r) ==
  /\ Free(w, "rule", r) /\ rule[r] # None
  /\ rule' = [rule EXCEPT ![r] = None]
  /\ UNCHANGED <<classifier, set, group, target, external, routes, l3, sg, ports, worker>>

\* A rule that is in a rule set is not deleted.
DeleteRule(w, r) ==
  /\ Free(w, "rule", r) /\ rule[r] # None
  /\ \A p \in Exists(set) : r \notin set[p].rules
  /\ rule' = [rule EXCEPT ![r] = None]
  /\ UNCHANGED <<classifier, set, group, target, external, routes, l3, sg, ports, worker>>

--------------------
(* Rule sets. *)

\* One level of children.
_set_children_for_policy_rule_set(p, kids) ==
  \A q \in kids : ParentOf(p) = None /\ Children(q) = {} /\ q # p

Adopted(p, rs, kids) ==
  [q \in Sets |->
     IF q = p THEN [rules |-> rs, parent |-> ParentOf(p)]
     ELSE IF set[q] = None THEN None
     ELSE IF q \in kids THEN [set[q] EXCEPT !.parent = p]
     ELSE IF set[q].parent = p THEN [set[q] EXCEPT !.parent = None]
     ELSE set[q]]

WriteRuleSet(w, p, rs, kids) ==
  /\ Free(w, "set", p)
  /\ rs \subseteq Exists(rule) /\ kids \subseteq Exists(set)
  /\ _set_children_for_policy_rule_set(p, kids)
  /\ set' = Adopted(p, rs, kids)
  /\ Careful => Distinct(classifier, rule, set')
  /\ UNCHANGED <<classifier, rule, group, target, external, routes, l3>>

CreateRuleSet(w, p, rs, kids) ==
  /\ set[p] = None
  /\ WriteRuleSet(w, p, rs, kids)
  /\ Commit(w, "set", p, [rules |-> {}, kids |-> {}], [rules |-> rs, kids |-> kids])

UpdateRuleSet(w, p, rs, kids) ==
  LET old == [rules |-> set[p].rules, kids |-> Children(p)]
      new == [rules |-> rs, kids |-> kids]
  IN /\ set[p] # None /\ old # new
     /\ WriteRuleSet(w, p, rs, kids)
     /\ Commit(w, "set", p, old, new)

Apply(p, rs, rules) ==
  rules \cup _manage_policy_rule_set_rules(p, _get_enforced_prs_rules(p, rs), _get_cidrs_mapping(p))
Remove(p, rs, rules) == rules \ _manage_policy_rule_set_rules(p, rs, _get_cidrs_mapping(p))

\* Rules that the parent does not allow go, the others come.
Refused(q) ==
  IF set[q].parent = None THEN {}
  ELSE {r \in set[q].rules : rule[r] \notin ClassifiersOf(set[q].parent)}

_recompute_policy_rule_sets(kids, rules) ==
  (UNION {Apply(q, set[q].rules, Remove(q, Refused(q), {i \in rules : i[1] = q})) : q \in kids})
  \cup {i \in rules : i[1] \notin kids}

\* Mutant: children that stay are not looked at when the rules change.
NewChildren(old, new) == (old.kids \ new.kids) \cup (new.kids \ old.kids)

\* Children that came or went, and all when rules came or went.
Recomputed(old, new) ==
  IF old.rules = new.rules THEN (old.kids \ new.kids) \cup (new.kids \ old.kids)
  ELSE old.kids \cup new.kids

\* Rules that left go, those that came (or all, when none came) are applied.
WriteRuleSetPost(w) ==
  LET q == worker[w]
      own == Apply(q.on, q.new.rules \ q.old.rules, Remove(q.on, q.old.rules \ q.new.rules, sg))
  IN /\ Post(w, "set") /\ q.new # None
     /\ sg' = _recompute_policy_rule_sets(Recomputed(q.old, q.new), own)
     /\ UNCHANGED ports

\* A rule set that is used is not deleted; its children have no parent then.
DeleteRuleSet(w, p) ==
  /\ Free(w, "set", p) /\ set[p] # None
  /\ \A s \in Sides : Users(p, s) = {} /\ (external # None => p \notin external[s])
  /\ Careful => Children(p) = {}
  /\ set' = [q \in Sets |-> IF q = p THEN None
                            ELSE IF set[q] # None /\ set[q].parent = p
                                 THEN [set[q] EXCEPT !.parent = None] ELSE set[q]]
  /\ Commit(w, "set", p, set[p], None)
  /\ UNCHANGED <<classifier, rule, group, target, external, routes, l3>>

DeleteRuleSetPost(w) ==
  LET p == worker[w].on IN
  /\ Post(w, "set") /\ worker[w].new = None
  /\ sg' = {i \in sg : i[1] # p}
  /\ ports' = [t \in Targets |-> {i \in ports[t] : i[1] # p}]

--------------------
(* Groups and their targets. *)

\* Whether a target of the group is being created.
Joined(g) == \E v \in Workers : Busy(v, {"target"}) /\ worker[v].new = g

\* Careful clients do not change a group while they add targets to it.
WriteGroup(w, g, rel) ==
  /\ Free(w, "group", g)
  /\ Careful => ~Joined(g)
  /\ \A s \in Sides : rel[s] \subseteq Exists(set)
  /\ group' = [group EXCEPT ![g] = rel]
  /\ UNCHANGED <<classifier, rule, set, target, external, routes, l3>>

CreateGroup(w, g, rel) ==
  /\ group[g] = None /\ WriteGroup(w, g, rel) /\ Commit(w, "group", g, Nothing, rel)

UpdateGroup(w, g, rel) ==
  /\ group[g] \notin {None, rel} /\ WriteGroup(w, g, rel) /\ Commit(w, "group", g, group[g], rel)

\* _update_sgs_on_ptg: the security groups for rel, and the targets as they are
\* now; nothing to do for no security groups.
_update_sgs_on_ptg(q, stage, rel) ==
  [q EXCEPT !.stage = stage, !.list = SgsOf(rel),
            !.todo = IF SgsOf(rel) = {} THEN {} ELSE TargetsOf(q.on)]

\* The rules for what the group got come first,
SetGroupRules(w) ==
  LET q == worker[w] IN
  /\ Busy(w, {"group"}) /\ q.stage = "start"
  /\ sg' = sg \cup _set_rules_for_cidrs(Minus(q.new, q.old), {{q.on}})
  /\ worker' = [worker EXCEPT ![w] = _update_sgs_on_ptg(q, "associate", Minus(q.new, q.old))]
  /\ UNCHANGED <<rows, ports>>

\* then the ports, which leave the security groups of what it gave up,
LeaveOldSgs(w) ==
  LET q == worker[w] IN
  /\ Busy(w, {"group"}) /\ q.stage = "associate" /\ q.todo = {}
  /\ worker' = [worker EXCEPT ![w] = _update_sgs_on_ptg(q, "disassociate", Minus(q.old, q.new))]
  /\ UNCHANGED <<rows, sg, ports>>

\* and at last the rules for that go.
UnsetGroupRules(w) ==
  LET q == worker[w] IN
  /\ Post(w, "group") /\ q.stage = "disassociate" /\ q.todo = {}
  /\ sg' = sg \ _unset_rules_for_cidrs(Minus(q.old, q.new), {{q.on}})
  /\ UNCHANGED ports

\* _assoc_sgs_to_pt, _disassoc_sgs_from_pt: the port is read, if its target is
\* still there,
ReadPort(w, t) ==
  /\ t \in worker[w].todo /\ worker[w].held = None
  /\ worker' = [worker EXCEPT
       ![w].todo = IF target[t] = None THEN @ \ {t} ELSE @,
       ![w].held = IF target[t] = None THEN None ELSE [target |-> t, sgs |-> ports[t]]]
  /\ UNCHANGED <<rows, sg, ports>>

HasPort(t) ==
  \/ target[t] # None
  \/ \E w \in Workers : Busy(w, {"target"}) /\ worker[w].on = t

\* Mutant: the security groups of what the group gave up stay on the ports.
Added(q) == q.held.sgs \cup q.list

Changed(q) == IF q.stage = "associate" THEN q.held.sgs \cup q.list ELSE q.held.sgs \ q.list

\* and written, if it is still there; with this the creation of a target ends.
WritePort(w) ==
  LET q == worker[w]
      t == q.held.target
  IN /\ q.held # None
     /\ ports' = [ports EXCEPT ![t] = IF HasPort(t) THEN Changed(q) ELSE @]
     /\ worker' = [worker EXCEPT ![w] =
          IF q.kind = "target" THEN Idle
          ELSE [q EXCEPT !.todo = @ \ {t}, !.held = None]]
     /\ UNCHANGED <<rows, sg>>

\* The plugin has first updated the group to provide and consume nothing, and
\* deleted its targets; then nothing of it is left to clean up.
DeleteGroup(w, g) ==
  /\ Free(w, "group", g) /\ group[g] = Nothing /\ TargetsOf(g) = {}
  /\ Careful => \A v \in Workers : ~(Busy(v, {"target"}) /\ worker[v].old = g)
  /\ group' = [group EXCEPT ![g] = None]
  /\ UNCHANGED <<classifier, rule, set, target, external, routes, l3, sg, ports, worker>>

\* An identifier is not used again while a request knows it.
CreateTarget(w, t, g) ==
  /\ Free(w, "target", t) /\ target[t] = None /\ group[g] # None
  /\ \A v \in Workers : t \notin worker[v].todo
  /\ Careful => \A v \in Workers : ~(Busy(v, {"group"}) /\ worker[v].on = g)
  /\ target' = [target EXCEPT ![t] = g]
  /\ Commit(w, "target", t, None, g)
  /\ UNCHANGED <<classifier, rule, set, group, external, routes, l3>>

\* _generate_list_of_sg_from_ptg: what the group provides and consumes now, not
\* when the request came.
ReadGroup(w) ==
  LET q == worker[w] IN
  /\ Busy(w, {"target"}) /\ q.new # None /\ q.stage = "start"
  /\ worker' = [worker EXCEPT ![w] = [q EXCEPT !.stage = "associate", !.todo = {q.on},
                                              !.list = SgsOf(group[q.new])]]
  /\ UNCHANGED <<rows, sg, ports>>

\* The port goes with the target.
DeleteTarget(w, t) ==
  /\ Free(w, "target", t) /\ target[t] # None
  /\ target' = [target EXCEPT ![t] = None]
  /\ Commit(w, "target", t, target[t], None)
  /\ UNCHANGED <<classifier, rule, set, group, external, routes, l3>>

\* The method fails when the group, which it looks up first, is gone too.
DeleteTargetPost(w) ==
  LET q == worker[w] IN
  /\ Post(w, "target") /\ q.new = None
  /\ ports' = [ports EXCEPT ![q.on] = IF group[q.old] = None THEN @ ELSE {}]
  /\ UNCHANGED sg

--------------------
(* What is outside: the external policy, routes and address pools. *)

WriteExternal(w, rel) ==
  /\ Free(w, "external", None)
  /\ \A s \in Sides : rel[s] \subseteq Exists(set)
  /\ external' = rel
  /\ UNCHANGED <<classifier, rule, set, group, target, routes, l3>>

\* One external policy per tenant.
CreateExternalPolicy(w, rel) ==
  /\ external = None /\ WriteExternal(w, rel)
  /\ Commit(w, "external", None, Nothing, rel)

UpdateExternalPolicy(w, rel) ==
  /\ external \notin {None, rel} /\ WriteExternal(w, rel)
  /\ Commit(w, "external", None, external, rel)

DeleteExternalPolicy(w) ==
  /\ Free(w, "external", None) /\ external # None
  /\ external' = None
  /\ Commit(w, "external", None, external, Nothing)
  /\ UNCHANGED <<classifier, rule, set, group, target, routes, l3>>

ExternalPolicyPost(w) ==
  LET q == worker[w]
      cidrs == _process_external_cidrs(routes, l3)
  IN /\ Post(w, "external")
     /\ sg' = (sg \ _unset_rules_for_cidrs(Minus(q.old, q.new), cidrs))
              \cup _set_rules_for_cidrs(Minus(q.new, q.old), cidrs)
     /\ UNCHANGED ports

\* The rules for old addresses go, those for new ones come.
_refresh_ep_cidrs_rules(new, old) ==
  IF external = None THEN sg
  ELSE (sg \ _unset_rules_for_cidrs(external, old)) \cup _set_rules_for_cidrs(external, new)

\* The tenants are found by the L3 policies of the segment; one that has no
\* external policy is a key error.
UpdateExternalSegment(w, to) ==
  /\ Free(w, "routes", None) /\ routes # to
  /\ Careful => l3 # {}
  /\ routes' = to
  /\ Commit(w, "routes", None, routes, to)
  /\ UNCHANGED <<classifier, rule, set, group, target, external, l3>>

UpdateExternalSegmentPost(w) ==
  LET q == worker[w] IN
  /\ Post(w, "routes")
  /\ sg' = IF l3 = {} THEN sg
           ELSE _refresh_ep_cidrs_rules(_process_external_cidrs(q.new, l3),
                                        _process_external_cidrs(q.old, l3))
  /\ UNCHANGED ports

\* The pools of a tenant's L3 policies do not overlap.
CreateL3Policy(w, x) ==
  /\ Free(w, "l3", x) /\ x \notin l3 /\ PoolOf[x] \cap Pools(l3) = {}
  /\ l3' = l3 \cup {x}
  /\ Commit(w, "l3", x, None, x)
  /\ UNCHANGED <<classifier, rule, set, group, target, external, routes>>

\* What was outside before is less the pool outside now.
CreateL3PolicyPost(w) ==
  LET q == worker[w]
      old == _process_external_cidrs(routes, l3 \ {q.on})
  IN /\ Post(w, "l3") /\ q.new # None
     /\ sg' = IF UseSubnetpools THEN sg
              ELSE _refresh_ep_cidrs_rules(Cidrs((UNION old) \ PoolOf[q.on]), old)
     /\ UNCHANGED ports

DeleteL3Policy(w, x) ==
  /\ Free(w, "l3", x) /\ x \in l3
  /\ Careful => external = None
  /\ l3' = l3 \ {x}
  /\ Commit(w, "l3", x, x, None)
  /\ UNCHANGED <<classifier, rule, set, group, target, external, routes>>

\* The old addresses are taken for those outside now and the pool.
DeleteL3PolicyPost(w) ==
  LET q == worker[w]
      new == _process_external_cidrs(routes, l3)
  IN /\ Post(w, "l3") /\ q.new = None
     /\ sg' = IF UseSubnetpools THEN sg
              ELSE _refresh_ep_cidrs_rules(new, Cidrs((UNION new) \cup PoolOf[q.on]))
     /\ UNCHANGED ports

--------------------
(* The specification. *)

Policy(w) ==
  \/ \E c \in Classifiers : \E d \in Directions, t \in Traffic :
       UpdateClassifier(w, c, [direction |-> d, traffic |-> t])
  \/ UpdateClassifierPost(w)
  \/ \E r \in Rules : \/ \E c \in Classifiers : CreateRule(w, r, c) \/ UpdateRule(w, r, c)
                      \/ DeleteRule(w, r)
  \/ UpdateRulePost(w)
  \/ \E p \in Sets : \/ \E rs \in SUBSET Rules, kids \in SUBSET Sets :
                          CreateRuleSet(w, p, rs, kids) \/ UpdateRuleSet(w, p, rs, kids)
                     \/ DeleteRuleSet(w, p)
  \/ WriteRuleSetPost(w) \/ DeleteRuleSetPost(w)

Endpoints(w) ==
  \/ \E g \in Groups : \/ \E rel \in Relations : CreateGroup(w, g, rel) \/ UpdateGroup(w, g, rel)
                       \/ DeleteGroup(w, g)
                       \/ \E t \in Targets : CreateTarget(w, t, g)
  \/ SetGroupRules(w) \/ LeaveOldSgs(w) \/ UnsetGroupRules(w)
  \/ \E t \in Targets : DeleteTarget(w, t) \/ ReadPort(w, t)
  \/ ReadGroup(w) \/ WritePort(w) \/ DeleteTargetPost(w)

Outside(w) ==
  \/ \E rel \in Relations : CreateExternalPolicy(w, rel) \/ UpdateExternalPolicy(w, rel)
  \/ DeleteExternalPolicy(w) \/ ExternalPolicyPost(w)
  \/ \E to \in SUBSET Routes : UpdateExternalSegment(w, to)
  \/ UpdateExternalSegmentPost(w)
  \/ \E x \in L3s : CreateL3Policy(w, x) \/ DeleteL3Policy(w, x)
  \/ CreateL3PolicyPost(w) \/ DeleteL3PolicyPost(w)

Next == \E w \in Workers : Policy(w) \/ Endpoints(w) \/ Outside(w)

Spec == Init /\ [][Next]_vars

--------------------
(* Properties. *)

Quiet == \A w \in Workers : Busy(w, {"none"})

\* When no request is in progress, the security groups of a rule set hold the
\* rules its policy amounts to and no others: what its parent allows of it, for
\* all who provide and consume it, inside and outside.
RulesFollowPolicy == Quiet => sg = UNION {Image(p) : p \in Exists(set)}

\* When no request is in progress, the port of a target is in the security
\* groups of what its group provides and consumes, and in no others.
PortsFollowGroups ==
  Quiet => \A t \in Targets :
             ports[t] = IF target[t] = None THEN {} ELSE SgsOf(group[target[t]])

\* Nobody gets traffic from a group before it provides or consumes the rule set,
\* nor after it has given it up and nothing is in progress for it: the rules for
\* a group's addresses are those of the relations it has, gets or gives up.
RulesAreOwed ==
  \A i \in sg : \A g \in Groups : i[5] = {g} =>
    \/ group[g] # None /\ i[1] \in group[g][Other(i[2])]
    \/ \E w \in Workers : Busy(w, {"group"}) /\ worker[w].on = g
                          /\ i[1] \in worker[w].old[Other(i[2])]
====================
