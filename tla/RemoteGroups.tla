---------------------------- MODULE RemoteGroups ----------------------------
(* Neutron's security groups in AIM.  A rule may let in the members of a
   remote group, which are the addresses of the ports bound to it.  AIM
   has no members: the APIC mechanism driver lists their addresses in the
   rule and, once the fabric supports it (normalized), in a container of
   the group that the rule points to unless the group has no address.

   Every handler runs in the transaction of its request. *)
CONSTANTS RemoteSets, MemberPorts, RemoteRules, Addresses, SixAddresses, SixRules,
          Absent, Careful

VARIABLES
  sgSets,     \* rows: the security groups
  member,     \* rows: Absent or the [sets, ips] of a port
  sgRule,     \* rows: Absent or the [owner, remote] of a rule
  mapped,     \* AIM: the rules
  remoteIps,  \* AIM: the addresses that a rule lists
  pointing,   \* AIM: the rules that point to the container of their group
  container,  \* AIM: the addresses of a group
  normalized

rowVars == <<sgSets, member, sgRule>>
aimVars == <<mapped, remoteIps, pointing, container>>
remoteVars == <<rowVars, aimVars, normalized>>

RemoteTypeOK ==
  /\ sgSets \subseteq RemoteSets
  /\ member \in [MemberPorts -> [sets : SUBSET RemoteSets, ips : SUBSET Addresses] \cup {Absent}]
  /\ \A p \in MemberPorts : member[p] # Absent => member[p].sets \subseteq sgSets
  /\ sgRule \in [RemoteRules -> [owner : RemoteSets, remote : RemoteSets] \cup {Absent}]
  /\ \A r \in RemoteRules : sgRule[r] # Absent => {sgRule[r].owner, sgRule[r].remote} \subseteq sgSets
  /\ mapped \subseteq RemoteRules /\ pointing \subseteq mapped
  /\ remoteIps \in [RemoteRules -> SUBSET Addresses]
  /\ container \in [RemoteSets -> SUBSET Addresses] /\ normalized \in BOOLEAN

RemoteInit ==
  /\ sgSets = {} /\ member = [p \in MemberPorts |-> Absent]
  /\ sgRule = [r \in RemoteRules |-> Absent]
  /\ mapped = {} /\ remoteIps = [r \in RemoteRules |-> {}] /\ pointing = {}
  /\ container = [g \in RemoteSets |-> {}] /\ normalized = FALSE

--------------------
OfFamily(r) == IF r \in SixRules THEN SixAddresses ELSE Addresses \ SixAddresses

MembersOf(rows, g) ==
  UNION {rows[p].ips : p \in {q \in MemberPorts : rows[q] # Absent /\ g \in rows[q].sets}}

\* The rules that let in the members of one of these groups.
RulesTo(sets) == {r \in RemoteRules : sgRule[r] # Absent /\ sgRule[r].remote \in sets}

Aim == [ips |-> remoteIps, to |-> pointing, of |-> container]

\* Mutant: a group that others keep addresses in is taken for empty.
EmptiedAlways(aim, rows, ips, sets) ==
  [aim EXCEPT !.of = [g \in RemoteSets |-> IF g \in sets THEN @[g] \ ips ELSE @[g]],
              !.to = IF ips = {} THEN @ ELSE @ \ RulesTo(sets)]

\* Addresses leave groups: in each rule or, normalized, in the containers,
\* which the rules stop pointing to when no other address is left.
Emptied(aim, rows, ips, sets) ==
  IF ~normalized
  THEN [aim EXCEPT !.ips = [r \in RemoteRules |->
                              IF r \in RulesTo(sets) THEN @[r] \ ips ELSE @[r]]]
  ELSE LET last == {g \in sets : ips # {} /\ MembersOf(rows, g) \subseteq ips}
       IN [aim EXCEPT !.of = [g \in RemoteSets |-> IF g \in sets THEN @[g] \ ips ELSE @[g]],
                      !.to = @ \ RulesTo(last)]

\* Mutant: the rules are left alone.
FilledOnly(aim, rows, ips, sets) ==
  [aim EXCEPT !.of = [g \in RemoteSets |-> IF g \in sets THEN @[g] \cup ips ELSE @[g]]]

\* Addresses come to groups; the first one lets the rules point to them.
Filled(aim, rows, ips, sets) ==
  IF ~normalized
  THEN [aim EXCEPT !.ips = [r \in RemoteRules |->
          IF r \in RulesTo(sets) \cap mapped THEN @[r] \cup (ips \cap OfFamily(r)) ELSE @[r]]]
  ELSE LET first == {g \in sets : ips # {} /\ MembersOf(rows, g) \subseteq ips}
       IN [aim EXCEPT !.of = [g \in RemoteSets |-> IF g \in sets THEN @[g] \cup ips ELSE @[g]],
                      !.to = @ \cup (RulesTo(first) \cap mapped)]

Become(aim) ==
  remoteIps' = aim.ips /\ pointing' = aim.to /\ container' = aim.of

Taken(p) == UNION {member[q].ips : q \in {q \in MemberPorts \ {p} : member[q] # Absent}}

CreateMember(p, sets, ips) ==
  /\ member[p] = Absent /\ sets \subseteq sgSets
  /\ Careful => ips \cap Taken(p) = {}
  /\ member' = [member EXCEPT ![p] = [sets |-> sets, ips |-> ips]]
  /\ Become(Filled(Aim, member', ips, sets))
  /\ UNCHANGED <<sgSets, sgRule, mapped, normalized>>

\* The groups that the port leaves lose its new addresses.
UpdateMember(p, sets, ips) ==
  LET old == member[p]
      left == Emptied(Aim, member', ips, old.sets \ sets)
      joined == Filled(left, member', ips, sets \ old.sets)
  IN /\ member[p] # Absent /\ sets \subseteq sgSets
     /\ Careful => ips \cap Taken(p) = {} /\ (ips = old.ips \/ old.sets \subseteq sets)
     /\ member' = [member EXCEPT ![p] = [sets |-> sets, ips |-> ips]]
     /\ Become(IF ips = old.ips THEN joined
               ELSE Filled(Emptied(joined, member', old.ips, sets), member', ips, sets))
     /\ UNCHANGED <<sgSets, sgRule, mapped, normalized>>

\* The rows of the port are still there.
DeleteMember(p) ==
  /\ member[p] # Absent
  /\ member' = [member EXCEPT ![p] = Absent]
  /\ Become(Emptied(Aim, member, member[p].ips, member[p].sets))
  /\ UNCHANGED <<sgSets, sgRule, mapped, normalized>>

CreateSet(g) ==
  /\ g \notin sgSets /\ sgSets' = sgSets \cup {g}
  /\ UNCHANGED <<member, sgRule, aimVars, normalized>>

\* Neutron refuses to delete a group that a port is bound to.  The rows of the
\* group's rules go with it, and those of the rules that refer to it; in AIM
\* the rules of the group only.
DeleteSet(g) ==
  LET own == {r \in RemoteRules : sgRule[r] # Absent /\ sgRule[r].owner = g}
  IN /\ g \in sgSets
     /\ \A p \in MemberPorts : member[p] # Absent => g \notin member[p].sets
     /\ Careful => RulesTo({g}) \subseteq own
     /\ sgSets' = sgSets \ {g}
     /\ sgRule' = [r \in RemoteRules |-> IF r \in own \cup RulesTo({g}) THEN Absent ELSE sgRule[r]]
     /\ mapped' = mapped \ own /\ pointing' = pointing \ own
     /\ remoteIps' = [r \in RemoteRules |-> IF r \in own THEN {} ELSE remoteIps[r]]
     /\ container' = [container EXCEPT ![g] = {}]
     /\ UNCHANGED <<member, normalized>>

CreateRemoteRule(r, owner, remote) ==
  LET all == MembersOf(member, remote)
  IN /\ sgRule[r] = Absent /\ {owner, remote} \subseteq sgSets
     /\ r \notin mapped
     /\ sgRule' = [sgRule EXCEPT ![r] = [owner |-> owner, remote |-> remote]]
     /\ mapped' = mapped \cup {r}
     /\ remoteIps' = [remoteIps EXCEPT ![r] = IF normalized THEN {} ELSE all \cap OfFamily(r)]
     /\ pointing' = IF normalized /\ all # {} THEN pointing \cup {r} ELSE pointing
     /\ UNCHANGED <<sgSets, member, container, normalized>>

DeleteRemoteRule(r) ==
  /\ sgRule[r] # Absent
  /\ sgRule' = [sgRule EXCEPT ![r] = Absent]
  /\ mapped' = mapped \ {r} /\ pointing' = pointing \ {r}
  /\ remoteIps' = [remoteIps EXCEPT ![r] = {}]
  /\ UNCHANGED <<sgSets, member, container, normalized>>

\* Mutant: the rules keep their lists and point nowhere.
PointingNowhere == pointing

\* The rules with addresses of their family point to the containers from now on.
PointingNow == pointing \cup {r \in mapped : remoteIps[r] # {}}

\* Careful: a rule's group does not have addresses of the other family only.
NormalizeHpp ==
  /\ ~normalized
  /\ Careful => \A r \in RulesTo(sgSets) :
       MembersOf(member, sgRule[r].remote) # {} => remoteIps[r] # {}
  /\ normalized' = TRUE
  /\ container' = [g \in RemoteSets |-> IF g \in sgSets THEN MembersOf(member, g) ELSE {}]
  /\ pointing' = PointingNow
  /\ remoteIps' = [r \in RemoteRules |-> {}]
  /\ UNCHANGED <<rowVars, mapped>>

RemoteNext ==
  \/ \E p \in MemberPorts :
       \/ \E sets \in SUBSET RemoteSets : \E ips \in SUBSET Addresses :
            CreateMember(p, sets, ips) \/ UpdateMember(p, sets, ips)
       \/ DeleteMember(p)
  \/ \E g \in RemoteSets : CreateSet(g) \/ DeleteSet(g)
  \/ \E r \in RemoteRules :
       \/ \E owner, remote \in RemoteSets : CreateRemoteRule(r, owner, remote)
       \/ DeleteRemoteRule(r)
  \/ NormalizeHpp

RemoteSpec == RemoteInit /\ [][RemoteNext]_remoteVars

--------------------
\* A rule lets in exactly the addresses of its family of the ports that are
\* bound to its remote group now, whatever ports joined, left or changed
\* their addresses before and after the containers came into use; only rules
\* with a row are in AIM.
RulesLetMembersIn ==
  /\ mapped = {r \in RemoteRules : sgRule[r] # Absent}
  /\ \A r \in mapped :
       LET members == MembersOf(member, sgRule[r].remote)
       IN IF normalized
          THEN /\ r \in pointing <=> members # {}
               /\ container[sgRule[r].remote] = members
          ELSE remoteIps[r] = members \cap OfFamily(r)
====================
