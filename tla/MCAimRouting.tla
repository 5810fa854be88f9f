---------------------------- MODULE MCAimRouting ----------------------------
(* An instance of AimRouting for TLC.  Every segment has an external
   network of its own, and the L2 policies are of the first L3 policy.
   Each behaviour has a topic: one L2 policy and two segments, or two L2
   policies, two L3 policies and one segment. *)
EXTENDS AimRouting, TLC

CONSTANTS x1, x2, l1, l2, e1, e2, n1, n2

VARIABLE topic

MCL3Of == [l \in L2s |-> x1]
MCNetOf == (e1 :> n1) @@ (e2 :> n2)
MCNat == {e2}

About(t) ==
  CASE t = "segments" ->
         /\ segments[x2] = None
         /\ \A g \in Groups : group[g] # None => group[g].l2 = l1
    [] t = "policies" ->
         /\ \A x \in L3s : segments[x] # None => e2 \notin segments[x]
         /\ \A p \in Policies : policy[p] # None => e2 \notin policy[p].segments

MCInit == Init /\ topic \in {"segments", "policies"}
MCNext == Next /\ UNCHANGED topic /\ About(topic)'
MCSpec ==
  /\ MCInit /\ [][MCNext]_<<vars, topic>>
  /\ \A w \in Workers : WF_<<vars, topic>>(Step(w) /\ UNCHANGED topic)

--------------------
\* When no request is in progress, routers, contracts and subnets are those of the
\* external segments, policies and groups there are, one subnet for each L2 policy,
\* and no worker goes on without one that exists (aim_mapping.py).
RoutingFollowsPolicy ==
  /\ TypeOK /\ RoutersFollowSegments /\ ContractsFollowPolicy
  /\ SubnetsFollowGroups /\ OneSubnet /\ NoSubnetIsMissed
====================
