---------------------------- MODULE MCGroupPolicy ----------------------------
(* Small instances of GroupPolicy: two tenants, a user of one of them and
   an administrator, who can do whatever the other tenant's users can. *)
EXTENDS GroupPolicy, TLC

CONSTANTS t1, t2

User(t) == [tenant |-> t, admin |-> FALSE]
Admin == [tenant |-> t1, admin |-> TRUE]

TwoTenants == {t1, t2}
UserAndAdmin == {User(t2), Admin}

RuleSetSymmetry == Permutations(PolicyRuleSets)
====================
