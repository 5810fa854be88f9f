----------------------------- MODULE AimRouting -----------------------------
(* The AIM mapping driver's image of policy in Neutron: an L3 policy has a
   router of its own and one for each of its external segments, with the
   contracts of the external policy of that segment; an L2 policy gets a
   subnet with its first group, on all routers of the L3 policy, and loses
   it with the last.

   All this happens behind the transaction of the request.  Every call of
   Neutron, every transaction, and every read that is used later, is one
   step; other workers run in between.  All rows are of one tenant. *)
CONSTANTS L3s, L2s, Segments, Policies, Groups,
          Subnets,
          Contracts, \* what an external policy provides and consumes
          L3Of,      \* the L3 policy of each L2 policy
          NetOf,     \* the external network of each segment
          Nat,       \* segments for any number of L3 policies
          Workers,
          Patient,   \* clients wait for an answer before they touch a row
          None

\* The first router of an L3 policy, and those of its segments.
Routers == L3s \X (Segments \cup {None})

VARIABLES
  segments,   \* L3 policies: None or the external segments
  policy,     \* external policies: None or [segments, contracts]
  group,      \* groups: None or [l2, subnets]
  routers,    \* Neutron's routers
  gateway,    \* the segment for whose network a router has a gateway, or None
  contracts,  \* the contracts of a router, or None
  subnets,    \* of the network of each L2 policy
  interfaces, \* pairs <<router, subnet>>
  worker

rows == <<segments, policy, group>>
neutron == <<routers, gateway, contracts, subnets, interfaces>>
vars == <<rows, neutron, worker>>

Idle == [pc |-> "idle", kind |-> "none", on |-> None, new |-> {}, known |-> {},
         with |-> None, subs |-> {}, at |-> None, rs |-> {}, todo |-> {}]

Kinds == {"none", "l3", "create_group", "delete_group", "policy"}
PCs == {"idle", "first", "unplug", "plug", "gateway", "contracts", "attach",
        "lock", "allocate", "sync", "links", "link", "check", "unlink",
        "drop", "dropping", "set", "setting"}

TypeOK ==
  /\ segments \in [L3s -> SUBSET Segments \cup {None}]
  /\ policy \in [Policies ->
       [segments : SUBSET Segments, contracts : Contracts] \cup {None}]
  /\ group \in [Groups -> [l2 : L2s, subnets : SUBSET Subnets] \cup {None}]
  /\ routers \subseteq Routers
  /\ gateway \in [Routers -> Segments \cup {None}]
  /\ contracts \in [Routers -> Contracts \cup {None}]
  /\ subnets \in [L2s -> SUBSET Subnets]
  /\ interfaces \subseteq routers \X Subnets
  /\ \A w \in Workers : /\ worker[w].pc \in PCs
                        /\ worker[w].kind \in Kinds
                        /\ worker[w].new \subseteq Segments
                        /\ worker[w].known \subseteq Segments \X Policies
                        /\ worker[w].with \in Contracts \cup {None}
                        /\ worker[w].subs \subseteq Subnets
                        /\ worker[w].at \in Subnets \cup {None}
                        /\ worker[w].rs \subseteq Routers

Init ==
  /\ segments = [x \in L3s |-> None]
  /\ policy = [p \in Policies |-> None]
  /\ group = [g \in Groups |-> None]
  /\ routers = {} /\ interfaces = {}
  /\ gateway = [r \in Routers |-> None] /\ contracts = [r \in Routers |-> None]
  /\ subnets = [l \in L2s |-> {}]
  /\ worker = [w \in Workers |-> Idle]

--------------------
(* What the driver reads. *)

\* The L2 policies of an L3 policy, and its association with routers.
L2sOf(x) == {l \in L2s : L3Of[l] = x}
RoutersOf(x) == IF segments[x] = None THEN {} ELSE {r \in routers : r[1] = x}
L3Subnets(x) == UNION {subnets[l] : l \in L2sOf(x)}
L2Groups(l) == {g \in Groups : group[g] # None /\ group[g].l2 = l}
GroupsFor(s) == {g \in Groups : group[g] # None /\ s \in group[g].subnets}
SubnetsOn(r) == {i[2] : i \in {j \in interfaces : j[1] = r}}

PoliciesOf(e) == {p \in Policies : policy[p] # None /\ e \in policy[p].segments}
L3sOf(e) == {x \in L3s : segments[x] # None /\ e \in segments[x]}

\* Routers of the L3 policies of these segments, with a gateway for their
\* networks: they take the contracts of an external policy.
_get_ext_policy_routers(es) ==
  {r \in UNION {RoutersOf(x) : x \in UNION {L3sOf(e) : e \in es}} :
     gateway[r] # None /\ NetOf[gateway[r]] \in {NetOf[e] : e \in es}}

\* One router for each network of these segments, whichever the list has last.
Mapped(x, es, rs) ==
  /\ rs \subseteq {r \in RoutersOf(x) : gateway[r] # None}
  /\ \A r, q \in rs : NetOf[gateway[r]] = NetOf[gateway[q]] => r = q
  /\ \A r \in rs : NetOf[gateway[r]] \in {NetOf[e] : e \in es}
  /\ \A r \in RoutersOf(x) : gateway[r] # None /\ NetOf[gateway[r]] \in {NetOf[e] : e \in es}
       => \E q \in rs : NetOf[gateway[q]] = NetOf[gateway[r]]

--------------------
(* Control of a worker. *)

At(w, pc) == worker[w].pc = pc
Goto(w, q) == worker' = [worker EXCEPT ![w] = q]
End(w) == Goto(w, Idle)
Busy(v, kind) == worker[v].kind = kind
GroupWork(v) == Busy(v, "create_group") \/ Busy(v, "delete_group")

\* Nobody has a second request on a row; patient clients also wait before they
\* change what the rows of a request in progress are related to.
L3Free(w, x) ==
  \A v \in Workers \ {w} :
    /\ ~(Busy(v, "l3") /\ worker[v].on = x)
    /\ Patient => /\ ~Busy(v, "policy")
                  /\ ~(GroupWork(v) /\ worker[v].on[2] \in L2sOf(x))

GroupFree(w, g, l, other) ==
  \A v \in Workers \ {w} :
    /\ ~(GroupWork(v) /\ worker[v].on[1] = g)
    /\ Patient => /\ ~(Busy(v, "l3") /\ worker[v].on = L3Of[l])
                  /\ ~(Busy(v, other) /\ worker[v].on[2] = l)

PolicyFree(w, p) ==
  \A v \in Workers \ {w} :
    /\ ~(Busy(v, "policy") /\ worker[v].on = p)
    /\ Patient => ~Busy(v, "l3") /\ ~Busy(v, "policy")

--------------------
(* L3 policies. *)

\* Without NAT, a segment is for one L3 policy.
_check_l3policy_ext_segment(x, es) == \A e \in es \ Nat : L3sOf(e) \subseteq {x}

\* Mutant: a new router is given to the subnets of one L2 policy only.
PlugFirst(x) == IF L2sOf(x) = {} THEN {} ELSE subnets[CHOOSE l \in L2sOf(x) : TRUE]

\* The subnets for every new router and the external policies of the segments
\* are read once, before the first router is created.
Plugged(x) == L3Subnets(x)

Plugging(q, es) ==
  IF es = {} THEN Idle
  ELSE [q EXCEPT !.pc = "plug", !.new = es, !.subs = Plugged(q.on),
                 !.known = {k \in es \X Policies : k[2] \in PoliciesOf(k[1])}]

Start(w, x) == At(w, "idle") /\ L3Free(w, x)

CreateL3Policy(w, x, es) ==
  /\ Start(w, x) /\ segments[x] = None
  /\ _check_l3policy_ext_segment(x, es)
  /\ segments' = [segments EXCEPT ![x] = es]
  /\ Goto(w, [Idle EXCEPT !.pc = "first", !.kind = "l3", !.on = x, !.new = es])
  /\ UNCHANGED <<policy, group, neutron>>

\* Segments to plug are those that are new; todo are those to unplug.
UpdateL3Policy(w, x, es) ==
  /\ Start(w, x) /\ segments[x] \notin {None, es}
  /\ _check_l3policy_ext_segment(x, es)
  /\ segments' = [segments EXCEPT ![x] = es]
  /\ \E rs \in SUBSET routers :
       /\ Mapped(x, segments[x] \ es, rs)
       /\ Goto(w, [Idle EXCEPT !.pc = "unplug", !.kind = "l3", !.on = x,
                               !.new = es \ segments[x], !.todo = rs])
  /\ UNCHANGED <<policy, group, neutron>>

\* L2 policies without groups go with their L3 policy.  Its first router is
\* cleaned up with the others.
DeleteL3Policy(w, x) ==
  /\ Start(w, x) /\ segments[x] # None /\ \A l \in L2sOf(x) : L2Groups(l) = {}
  /\ segments' = [segments EXCEPT ![x] = None]
  /\ Goto(w, [Idle EXCEPT !.pc = "unplug", !.kind = "l3", !.on = x, !.todo = RoutersOf(x)])
  /\ UNCHANGED <<policy, group, neutron>>

\* _use_implicit_router
NewRouter(r) ==
  /\ routers' = routers \cup {r}
  /\ UNCHANGED <<rows, gateway, contracts, subnets, interfaces>>

FirstRouter(w) ==
  LET q == worker[w] IN
  /\ At(w, "first") /\ NewRouter(<<q.on, None>>)
  /\ Goto(w, Plugging(q, q.new))

\* Mutant: the router is deleted with its gateway only, and its interfaces stay.
KeepInterfaces(w) ==
  LET q == worker[w] IN
  /\ At(w, "unplug")
  /\ IF q.todo = {} THEN Goto(w, Plugging(q, q.new)) /\ UNCHANGED <<routers, gateway, contracts>>
     ELSE \E r \in q.todo :
       /\ routers' = routers \ {r}
       /\ gateway' = [gateway EXCEPT ![r] = None]
       /\ contracts' = [contracts EXCEPT ![r] = None]
       /\ Goto(w, [q EXCEPT !.todo = @ \ {r}])
  /\ UNCHANGED <<rows, subnets, interfaces>>

\* Mutant: the first router stays.
KeepFirst(w) ==
  LET q == worker[w] IN
  /\ At(w, "unplug")
  /\ \/ q.todo = {} /\ Goto(w, Plugging(q, q.new)) /\ UNCHANGED interfaces
     \/ \E r \in q.todo :
          IF SubnetsOn(r) # {}
          THEN interfaces' = {i \in interfaces : i[1] # r} /\ UNCHANGED worker
          ELSE Goto(w, [q EXCEPT !.todo = @ \ {r}]) /\ UNCHANGED interfaces
  /\ routers' = routers \ {r \in q.todo : r[2] # None /\ SubnetsOn(r) = {}}
  /\ UNCHANGED <<rows, subnets, gateway, contracts>>

\* A router goes when it has no interfaces, with its gateway and contracts; the
\* first router is not detached, so with an interface it would stay.
Unplug(w) ==
  LET q == worker[w] IN
  /\ At(w, "unplug")
  /\ IF q.todo = {}
     THEN Goto(w, Plugging(q, q.new)) /\ UNCHANGED <<routers, gateway, contracts, interfaces>>
     ELSE \E r \in q.todo :
       IF SubnetsOn(r) # {} /\ r[2] # None
       THEN /\ \E s \in SubnetsOn(r) : interfaces' = interfaces \ {<<r, s>>}
            /\ UNCHANGED <<routers, gateway, contracts, worker>>
       ELSE /\ SubnetsOn(r) = {}
            /\ routers' = routers \ {r}
            /\ gateway' = [gateway EXCEPT ![r] = None]
            /\ contracts' = [contracts EXCEPT ![r] = None]
            /\ Goto(w, [q EXCEPT !.todo = @ \ {r}])
            /\ UNCHANGED interfaces
  /\ UNCHANGED <<rows, subnets>>

\* A router for the next segment.
PlugSegment(w) ==
  LET q == worker[w] IN
  /\ At(w, "plug")
  /\ IF q.new = {} THEN End(w) /\ UNCHANGED <<rows, neutron>>
     ELSE \E e \in q.new :
       /\ NewRouter(<<q.on, e>>)
       /\ Goto(w, [q EXCEPT !.pc = "gateway", !.new = @ \ {e}, !.todo = {<<q.on, e>>}])

AddGateway(w) ==
  LET q == worker[w] IN
  /\ At(w, "gateway")
  /\ gateway' = [r \in Routers |-> IF r \in q.todo THEN r[2] ELSE gateway[r]]
  /\ Goto(w, [q EXCEPT !.pc = "contracts"])
  /\ UNCHANGED <<rows, routers, contracts, subnets, interfaces>>

SetContracts(w) ==
  LET q == worker[w] IN
  /\ At(w, "contracts")
  /\ \E r \in q.todo :
       LET ps == {p \in Policies : <<r[2], p>> \in q.known /\ policy[p] # None} IN
       IF ps = {} THEN UNCHANGED contracts
       ELSE \E p \in ps : contracts' = [contracts EXCEPT ![r] = policy[p].contracts]
  /\ Goto(w, [q EXCEPT !.pc = "attach", !.todo = q.todo \X q.subs])
  /\ UNCHANGED <<rows, routers, gateway, subnets, interfaces>>

\* _attach_router_to_subnets: a subnet that has the router is skipped.
Attach(w, pc, next) ==
  LET q == worker[w] IN
  /\ At(w, pc)
  /\ IF q.todo = {} THEN Goto(w, next) /\ UNCHANGED interfaces
     ELSE \E i \in q.todo :
       /\ interfaces' = interfaces \cup {i}
       /\ Goto(w, [q EXCEPT !.todo = @ \ {i}])
  /\ UNCHANGED <<rows, routers, gateway, contracts, subnets>>

AttachRouter(w) == Attach(w, "attach", [worker[w] EXCEPT !.pc = "plug"])

--------------------
(* Groups and the subnets of their L2 policies. *)

CreateGroup(w, g, l) ==
  /\ At(w, "idle") /\ group[g] = None /\ segments[L3Of[l]] # None
  /\ GroupFree(w, g, l, "delete_group")
  /\ group' = [group EXCEPT ![g] = [l2 |-> l, subnets |-> {}]]
  /\ Goto(w, [Idle EXCEPT !.pc = "lock", !.kind = "create_group", !.on = <<g, l>>])
  /\ UNCHANGED <<segments, policy, neutron>>

\* Mutant: no lock.
NoLock(l) == FALSE

\* The lock on the L2 policy, held while an implicit subnet is used.
Locked(l) ==
  \E v \in Workers : /\ worker[v].pc \in {"allocate", "sync", "links", "link"}
                     /\ worker[v].on[2] = l

\* Subnets that are there are used, else one is allocated.
UseImplicitSubnet(w) ==
  LET g == worker[w].on[1]
      l == worker[w].on[2]
  IN /\ At(w, "lock") /\ ~Locked(l)
     /\ IF subnets[l] = {}
        THEN Goto(w, [worker[w] EXCEPT !.pc = "allocate"]) /\ UNCHANGED group
        ELSE group' = [group EXCEPT ![g].subnets = @ \cup subnets[l]] /\ End(w)
     /\ UNCHANGED <<segments, policy, neutron>>

\* The row is deleted: with it, what the clean-up of the subnets needs.
EraseGroup(w, g, l) ==
  /\ group' = [group EXCEPT ![g] = None]
  /\ Goto(w, [Idle EXCEPT !.pc = "check", !.kind = "delete_group", !.on = <<g, l>>,
                          !.subs = group[g].subnets, !.rs = RoutersOf(L3Of[l])])

\* Mutant: a creation is tried again until there is a free subnet.
RetryAllocation(w) ==
  LET l == worker[w].on[2]
      used == UNION {subnets[m] : m \in L2s}
  IN /\ At(w, "allocate")
     /\ \/ Goto(w, [worker[w] EXCEPT !.pc = "lock"]) /\ UNCHANGED subnets
        \/ \E s \in Subnets \ used :
              /\ subnets' = [subnets EXCEPT ![l] = @ \cup {s}]
              /\ Goto(w, [worker[w] EXCEPT !.pc = "sync", !.subs = {s}])
     /\ UNCHANGED <<rows, routers, gateway, contracts, interfaces>>

\* The subnet pools can be used up, by anybody: then the creation is undone.  A
\* new subnet has an identifier that no worker has at hand.
AllocateSubnet(w) ==
  LET l == worker[w].on[2]
      used == UNION {subnets[m] : m \in L2s}
      held == UNION {worker[v].subs \cup {worker[v].at} : v \in Workers}
  IN /\ At(w, "allocate")
     /\ \/ /\ EraseGroup(w, worker[w].on[1], l)
           /\ UNCHANGED <<segments, policy, subnets>>
        \/ /\ \E s \in Subnets \ (used \cup held) :
                /\ subnets' = [subnets EXCEPT ![l] = @ \cup {s}]
                /\ Goto(w, [worker[w] EXCEPT !.pc = "sync", !.subs = {s}])
           /\ UNCHANGED rows
     /\ UNCHANGED <<routers, gateway, contracts, interfaces>>

\* Mutant: the subnet is given to all groups of the L3 policy.
SyncAll(w) ==
  LET l == worker[w].on[2] IN
  /\ At(w, "sync")
  /\ group' = [g \in Groups |-> IF group[g] # None /\ L3Of[group[g].l2] = L3Of[l]
                                THEN [group[g] EXCEPT !.subnets = @ \cup subnets[l]]
                                ELSE group[g]]
  /\ Goto(w, [worker[w] EXCEPT !.pc = "links"])
  /\ UNCHANGED <<segments, policy, neutron>>

\* _sync_ptg_subnets: every group of the L2 policy gets the subnets.
SyncSubnets(w) ==
  LET l == worker[w].on[2] IN
  /\ At(w, "sync")
  /\ group' = [g \in Groups |-> IF g \in L2Groups(l)
                                THEN [group[g] EXCEPT !.subnets = @ \cup subnets[l]]
                                ELSE group[g]]
  /\ Goto(w, [worker[w] EXCEPT !.pc = "links"])
  /\ UNCHANGED <<segments, policy, neutron>>

\* Every router of the L3 policy, as it is now, is attached.
ReadRouters(w) ==
  LET q == worker[w] IN
  /\ At(w, "links")
  /\ Goto(w, [q EXCEPT !.pc = "link", !.todo = RoutersOf(L3Of[q.on[2]]) \X q.subs])
  /\ UNCHANGED <<rows, neutron>>

LinkSubnet(w) == Attach(w, "link", Idle)

DeleteGroup(w, g) ==
  /\ At(w, "idle") /\ group[g] # None
  /\ GroupFree(w, g, group[g].l2, "create_group")
  /\ EraseGroup(w, g, group[g].l2)
  /\ UNCHANGED <<segments, policy, neutron>>

\* The groups that still use a subnet.
Users(s) == GroupsFor(s)

\* _process_subnets_for_ptg_delete, for one subnet after the other.
CheckSubnet(w) ==
  LET q == worker[w] IN
  /\ At(w, "check")
  /\ IF q.subs = {} THEN End(w)
     ELSE \E s \in q.subs :
       Goto(w, IF Users(s) # {} THEN [q EXCEPT !.subs = @ \ {s}]
               ELSE [q EXCEPT !.pc = "unlink", !.subs = @ \ {s}, !.at = s,
                              !.todo = {<<r, s>> : r \in q.rs}])
  /\ UNCHANGED <<rows, neutron>>

\* The routers the L3 policy had when the row was deleted.
DetachRouter(w) ==
  LET q == worker[w] IN
  /\ At(w, "unlink") /\ q.todo # {}
  /\ \E i \in q.todo :
       /\ interfaces' = interfaces \ {i}
       /\ Goto(w, [q EXCEPT !.todo = @ \ {i}])
  /\ UNCHANGED <<rows, routers, gateway, contracts, subnets>>

\* Neutron refuses to delete a subnet with ports, the database one of a group.
DeleteSubnet(w) ==
  LET s == worker[w].at
      unused == GroupsFor(s) = {} /\ ~\E i \in interfaces : i[2] = s
  IN /\ At(w, "unlink") /\ worker[w].todo = {}
     /\ subnets' = [l \in L2s |-> IF unused THEN subnets[l] \ {s} ELSE subnets[l]]
     /\ Goto(w, [worker[w] EXCEPT !.pc = "check", !.at = None])
     /\ UNCHANGED <<rows, routers, gateway, contracts, interfaces>>

--------------------
(* External policies. *)

\* No other external policy of the tenant on any of the segments.
_check_external_policy(p, es) == \A e \in es : PoliciesOf(e) \subseteq {p}

\* The contracts of the policy are taken from the routers of the segments it
\* left, then given to those of the segments it has.
PolicyWork(p, removed, es, c) ==
  [Idle EXCEPT !.kind = "policy", !.on = p, !.new = es, !.with = c,
               !.pc = IF removed # {} THEN "drop" ELSE "set",
               !.known = removed \X {p}]

CreateExternalPolicy(w, p, es, c) ==
  /\ At(w, "idle") /\ PolicyFree(w, p) /\ policy[p] = None
  /\ _check_external_policy(p, es)
  /\ policy' = [policy EXCEPT ![p] = [segments |-> es, contracts |-> c]]
  /\ Goto(w, PolicyWork(p, {}, es, c))
  /\ UNCHANGED <<segments, group, neutron>>

\* Mutant: the routers are written only when the contracts change.
UpdateWrites(old, es, c) == IF c # old.contracts THEN es ELSE {}

\* Routers are written when there are new segments or other contracts.
Written(old, es, c) == IF es \subseteq old.segments /\ c = old.contracts THEN {} ELSE es

UpdateExternalPolicy(w, p, es, c) ==
  /\ At(w, "idle") /\ PolicyFree(w, p)
  /\ policy[p] \notin {None, [segments |-> es, contracts |-> c]}
  /\ _check_external_policy(p, es)
  /\ policy' = [policy EXCEPT ![p] = [segments |-> es, contracts |-> c]]
  /\ Goto(w, PolicyWork(p, policy[p].segments \ es, Written(policy[p], es, c), c))
  /\ UNCHANGED <<segments, group, neutron>>

DeleteExternalPolicy(w, p) ==
  /\ At(w, "idle") /\ PolicyFree(w, p) /\ policy[p] # None
  /\ policy' = [policy EXCEPT ![p] = None]
  /\ Goto(w, PolicyWork(p, policy[p].segments, {}, None))
  /\ UNCHANGED <<segments, group, neutron>>

\* The routers are read, then updated one by one.
ReadPolicyRouters(w, pc, es, next) ==
  /\ At(w, pc)
  /\ Goto(w, [worker[w] EXCEPT !.pc = next, !.todo = _get_ext_policy_routers(es)])
  /\ UNCHANGED <<rows, neutron>>

_set_router_ext_contracts(w, pc, c, next) ==
  LET q == worker[w] IN
  /\ At(w, pc)
  /\ IF q.todo = {} THEN Goto(w, next) /\ UNCHANGED contracts
     ELSE \E r \in q.todo :
       /\ contracts' = [contracts EXCEPT ![r] = IF r \in routers THEN c ELSE @]
       /\ Goto(w, [q EXCEPT !.todo = @ \ {r}])
  /\ UNCHANGED <<rows, routers, gateway, subnets, interfaces>>

ReadRemoved(w) == ReadPolicyRouters(w, "drop", {k[1] : k \in worker[w].known}, "dropping")
DropContracts(w) ==
  _set_router_ext_contracts(w, "dropping", None, [worker[w] EXCEPT !.pc = "set"])
ReadCurrent(w) == ReadPolicyRouters(w, "set", worker[w].new, "setting")
GiveContracts(w) == _set_router_ext_contracts(w, "setting", worker[w].with, Idle)

--------------------
(* The specification. *)

Step(w) ==
  \/ FirstRouter(w) \/ Unplug(w) \/ PlugSegment(w) \/ AddGateway(w) \/ SetContracts(w)
  \/ AttachRouter(w)
  \/ UseImplicitSubnet(w) \/ AllocateSubnet(w) \/ SyncSubnets(w) \/ ReadRouters(w)
  \/ LinkSubnet(w)
  \/ CheckSubnet(w) \/ DetachRouter(w) \/ DeleteSubnet(w)
  \/ ReadRemoved(w) \/ DropContracts(w) \/ ReadCurrent(w) \/ GiveContracts(w)

Request(w) ==
  \/ \E x \in L3s : \/ \E es \in SUBSET Segments : \/ CreateL3Policy(w, x, es)
                                                   \/ UpdateL3Policy(w, x, es)
                    \/ DeleteL3Policy(w, x)
  \/ \E g \in Groups : \/ \E l \in L2s : CreateGroup(w, g, l)
                       \/ DeleteGroup(w, g)
  \/ \E p \in Policies : \/ \E es \in SUBSET Segments, c \in Contracts :
                              \/ CreateExternalPolicy(w, p, es, c)
                              \/ UpdateExternalPolicy(w, p, es, c)
                         \/ DeleteExternalPolicy(w, p)

Next == \E w \in Workers : Request(w) \/ Step(w)

Fairness == \A w \in Workers : WF_vars(Step(w))
Spec == Init /\ [][Next]_vars /\ Fairness

--------------------
(* Properties. *)

Working(x) ==
  \E w \in Workers : \/ Busy(w, "l3") /\ worker[w].on = x
                     \/ GroupWork(w) /\ worker[w].on[2] \in L2sOf(x)

\* When nobody works on an L3 policy it has its first router and one router
\* for each external segment, with a gateway there; after its deletion it has
\* none (aim_mapping.py, create, update and delete_l3_policy_postcommit).
RoutersFollowSegments ==
  \A x \in L3s : ~Working(x) =>
    LET own == {r \in routers : r[1] = x} IN
    IF segments[x] = None THEN own = {}
    ELSE /\ own = {x} \X (segments[x] \cup {None})
         /\ \A r \in own : gateway[r] = r[2]

\* The router of a segment has the contracts of the segment's external policy,
\* whichever of segment and policy came first and whatever left again
\* (_plug_l3p_routers_to_ext_segment, update_external_policy_postcommit).
ContractsFollowPolicy ==
  (\A w \in Workers : ~Busy(w, "l3") /\ ~Busy(w, "policy")) =>
    \A r \in routers :
      IF r[2] = None \/ PoliciesOf(r[2]) = {} THEN contracts[r] = None
      ELSE \E p \in PoliciesOf(r[2]) : contracts[r] = policy[p].contracts

\* When nobody works on an L3 policy, the subnets of its L2 policies are on all
\* its routers and on no others, and exactly those with groups have one, which
\* all the groups have (_use_implicit_subnet, _process_subnets_for_ptg_delete).
SubnetsFollowGroups ==
  \A x \in L3s : ~Working(x) =>
    /\ \A r \in routers : r[1] = x => SubnetsOn(r) = L3Subnets(x)
    /\ \A l \in L2sOf(x) : /\ subnets[l] = {} <=> L2Groups(l) = {}
                           /\ \A g \in L2Groups(l) : group[g].subnets = subnets[l]

\* The first group of an L2 policy allocates a subnet, any subsequent one uses
\* it: at most one, whoever creates groups at the same time (_use_implicit_subnet).
OneSubnet == \A l \in L2s : \A s, t \in subnets[l] : s = t

\* No subnet is deleted while a group has it or a router an interface on it.
NoSubnetIsMissed ==
  /\ \A g \in Groups : group[g] # None => group[g].subnets \subseteq subnets[group[g].l2]
  /\ \A i \in interfaces : i[2] \in L3Subnets(i[1][1])

\* Every request that has the lock it needs, or needs none, comes to an end, and
\* the lock on an L2 policy is always released; the lock is not fair, so a request
\* can wait for it for as long as others come (_use_implicit_subnet).
Answered ==
  /\ \A w \in Workers : worker[w].pc \notin {"idle", "lock"} ~> worker[w].pc = "idle"
  /\ \A l \in L2s : Locked(l) ~> ~Locked(l)
====================
