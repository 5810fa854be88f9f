--------------------------- MODULE MCImplicitPolicy ---------------------------
(* Small instances of ImplicitPolicy: what the clients do. *)
EXTENDS ImplicitPolicy, TLC

\* Clients that leave the rows they created as they are.
Lifecycles ==
  {"create_group", "delete_group", "create_l2", "delete_l2", "create_l3", "delete_l3"}
WithSharing == Lifecycles \cup {"share_l3"}
WithGroupUpdates == Lifecycles \cup {"update_group"}
WithRenames == {"create_l2", "delete_l2", "create_l3", "rename_l3"}

Identities == Permutations(Groups) \cup Permutations(L2s) \cup Permutations(L3s)
====================
