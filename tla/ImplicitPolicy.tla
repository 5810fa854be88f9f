---------------------------- MODULE ImplicitPolicy ----------------------------
(* The implicit policy driver: the L2 policy that it creates for a group,
   and the L3 policy that it finds or creates for an L2 policy, when the
   client names none; and their deletion with their last user.

   The driver works behind the transaction of the request, in further
   transactions of its own: the requests of other workers run between any
   two of them.  Every transaction, and every read that is used later, is
   one step.  All rows are of one tenant. *)
CONSTANTS
  Groups, L2s, L3s,        \* identities of groups, L2 and L3 policies: a creation
                           \* waits for one that is free
  Workers,                 \* API workers
  Requests,                \* the operations that clients use
  Flags,                   \* values of the attribute shared that clients give
  Patient,                 \* clients leave a row alone until its creation is answered
  None                     \* no row

Operations ==
  {"create_group", "delete_group", "update_group", "create_l2", "delete_l2",
   "update_l2", "create_l3", "delete_l3", "rename_l3", "share_l3"}

ASSUME ImplicitPolicyAssumption ==
  /\ Requests \subseteq Operations
  /\ Flags \subseteq BOOLEAN
  /\ Patient \in BOOLEAN
  /\ None \notin Groups \cup L2s \cup L3s
  /\ Groups \cap L2s = {} /\ Groups \cap L3s = {} /\ L2s \cap L3s = {}

VARIABLES
  live,                    \* the rows that exist
  shared,                  \* those whose attribute shared is set
  default,                 \* the L3 policies that bear the default name
  owned,                   \* OwnedL2Policy and OwnedL3Policy
  l2_policy_id,            \* of each group
  l3_policy_id,            \* of each L2 policy
  worker                   \* what each worker does

rows == <<live, shared, default, owned, l2_policy_id, l3_policy_id>>
vars == <<rows, worker>>

Idle ==
  [op |-> "none", pc |-> "idle", group |-> None, l2 |-> None, l3 |-> None,
   isShared |-> FALSE, then |-> "idle"]

--------------------
(* Rows *)

\* A new row gets an identity that nothing remembers.
Fresh(S) ==
  {r \in S \ live : \A w \in Workers : r \notin {worker[w].group, worker[w].l2, worker[w].l3}}

GroupsOf(l2) == {g \in Groups \cap live : l2_policy_id[g] = l2}
L2sOf(l3) == {l \in L2s \cap live : l3_policy_id[l] = l3}

Insert(r, isShared) ==
  /\ live' = live \cup {r}
  /\ shared' = IF isShared THEN shared \cup {r} ELSE shared

\* The rows of ownership go with their policy.
Erase(r) ==
  /\ live' = live \ {r} /\ shared' = shared \ {r}
  /\ default' = default \ {r} /\ owned' = owned \ {r}
  /\ l2_policy_id' = [g \in Groups |-> IF g = r THEN None ELSE l2_policy_id[g]]
  /\ l3_policy_id' = [l \in L2s |-> IF l = r THEN None ELSE l3_policy_id[l]]

\* Mutant: only the existence of the reference is validated.
LinkableIfThere(isShared, target) == target \in live

\* _validate_shared_create, for a reference to a policy.
Linkable(isShared, target) == target \in live /\ (isShared => target \in shared)

\* A client may name the row in a request.
Touchable(r) ==
  Patient => \A w \in Workers : r \notin {worker[w].group, worker[w].l2}

--------------------
(* Control of a worker *)

At(w, pc) == worker[w].pc = pc
Goto(w, pc) == worker' = [worker EXCEPT ![w].pc = pc]
End(w) == worker' = [worker EXCEPT ![w] = Idle]

\* Mutant: the creation of the group alone is undone.
FailGroupOnly(w) ==
  IF worker[w].op = "create_group" THEN Goto(w, "group_read") ELSE End(w)

\* An exception of the driver: the creation it belongs to is undone; an update
\* is not.
Fail(w) ==
  IF worker[w].op = "update_l2" THEN End(w)
  ELSE IF At(w, "l2_own") \/ At(w, "l2_check") \/ At(w, "l2_set") THEN Goto(w, "group_read")
  ELSE Goto(w, "l2_undo")

\* The rest of the request when an L3 policy has been cleaned up, or need not be.
Resume(w) ==
  IF worker[w].then = "idle" THEN End(w)
  ELSE worker' = [worker EXCEPT ![w].pc = worker[w].then, ![w].l3 = None, ![w].then = "idle"]

--------------------
(* Requests for groups and L2 policies: the transaction of the request *)

Accept(w, op) == op \in Requests /\ At(w, "idle")

CreatePolicyTargetGroup(w) ==
  /\ Accept(w, "create_group")
  /\ \E g \in Fresh(Groups), l2 \in L2s \cup {None}, isShared \in Flags :
       /\ l2 # None => Touchable(l2) /\ Linkable(isShared, l2)
       /\ Insert(g, isShared)
       /\ l2_policy_id' = [l2_policy_id EXCEPT ![g] = l2]
       /\ worker' = IF l2 # None THEN worker ELSE
            [worker EXCEPT ![w] = [Idle EXCEPT !.op = "create_group", !.pc = "l2_txn",
                                               !.group = g, !.isShared = isShared]]
  /\ UNCHANGED <<default, owned, l3_policy_id>>

\* The L2 policy of a group is given once.
UpdatePolicyTargetGroup(w) ==
  /\ Accept(w, "update_group")
  /\ \E g \in Groups \cap live, l2 \in L2s :
       /\ Touchable(g) /\ Touchable(l2)
       /\ l2_policy_id[g] = None
       /\ Linkable(g \in shared, l2)
       /\ l2_policy_id' = [l2_policy_id EXCEPT ![g] = l2]
  /\ UNCHANGED <<live, shared, default, owned, l3_policy_id, worker>>

DeletePolicyTargetGroup(w) ==
  /\ Accept(w, "delete_group")
  /\ \E g \in Groups \cap live :
       /\ Touchable(g)
       /\ worker' = [worker EXCEPT ![w] =
            [Idle EXCEPT !.op = "delete_group", !.pc = "group_read", !.group = g]]
  /\ UNCHANGED rows

CreateL2Policy(w) ==
  /\ Accept(w, "create_l2")
  /\ \E l2 \in Fresh(L2s), l3 \in L3s \cup {None}, isShared \in Flags :
       /\ l3 # None => Linkable(isShared, l3)
       /\ Insert(l2, isShared)
       /\ l3_policy_id' = [l3_policy_id EXCEPT ![l2] = l3]
       /\ worker' = IF l3 # None THEN worker ELSE
            [worker EXCEPT ![w] = [Idle EXCEPT !.op = "create_l2", !.pc = "l3_find",
                                               !.l2 = l2, !.isShared = isShared]]
  /\ UNCHANGED <<default, owned, l2_policy_id>>

UpdateL2Policy(w) ==
  /\ Accept(w, "update_l2")
  /\ \E l2 \in L2s \cap live, l3 \in L3s \cup {None} :
       /\ Touchable(l2) /\ l3 # l3_policy_id[l2]
       /\ l3 # None => Linkable(l2 \in shared, l3)
       /\ l3_policy_id' = [l3_policy_id EXCEPT ![l2] = l3]
       /\ worker' = [worker EXCEPT ![w] =
            [Idle EXCEPT !.op = "update_l2", !.pc = "l3_cleanup", !.l2 = l2,
                         !.l3 = l3_policy_id[l2], !.isShared = l2 \in shared,
                         !.then = IF l3 = None THEN "l3_find" ELSE "idle"]]
  /\ UNCHANGED <<live, shared, default, owned, l2_policy_id>>

\* The transaction of delete_l2_policy; its driver then sees to the L3 policy.
DeleteL2Row(w, op, l2, next) ==
  /\ l2 \in live /\ GroupsOf(l2) = {}
  /\ Erase(l2)
  /\ worker' = [worker EXCEPT ![w] =
       [@ EXCEPT !.op = op, !.pc = "l3_cleanup", !.l2 = None, !.l3 = l3_policy_id[l2],
                 !.then = next]]

DeleteL2Policy(w) ==
  /\ Accept(w, "delete_l2")
  /\ \E l2 \in L2s : Touchable(l2) /\ DeleteL2Row(w, "delete_l2", l2, "idle")

--------------------
(* Requests for L3 policies, in one transaction *)

\* Mutant: no create_l3_policy_precommit.
AnyDefault == TRUE

\* create_l3_policy_precommit
DefaultIsFree == default = {}

CreateL3Policy(w) ==
  /\ Accept(w, "create_l3")
  /\ \E l3 \in Fresh(L3s), isShared \in Flags, named \in BOOLEAN :
       /\ named => DefaultIsFree
       /\ Insert(l3, isShared)
       /\ default' = IF named THEN default \cup {l3} ELSE default
  /\ UNCHANGED <<owned, l2_policy_id, l3_policy_id, worker>>

RenameL3Policy(w) ==
  /\ Accept(w, "rename_l3")
  /\ \E l3 \in L3s \cap live :
       default' = IF l3 \in default THEN default \ {l3} ELSE default \cup {l3}
  /\ UNCHANGED <<live, shared, owned, l2_policy_id, l3_policy_id, worker>>

\* Sharing can be reverted when no shared L2 policy uses the row.
ShareL3Policy(w) ==
  /\ Accept(w, "share_l3")
  /\ \E l3 \in L3s \cap live :
       /\ l3 \in shared => L2sOf(l3) \cap shared = {}
       /\ shared' = IF l3 \in shared THEN shared \ {l3} ELSE shared \cup {l3}
  /\ UNCHANGED <<live, default, owned, l2_policy_id, l3_policy_id, worker>>

DeleteL3Policy(w) ==
  /\ Accept(w, "delete_l3")
  /\ \E l3 \in L3s \cap live : L2sOf(l3) = {} /\ Erase(l3)
  /\ UNCHANGED worker

--------------------
(* _use_implicit_l3_policy *)

\* The lookup by name, and the one after DefaultL3PolicyAlreadyExists.
FindDefault(w) ==
  /\ At(w, "l3_find") \/ At(w, "l3_refind")
  /\ IF default # {}
       THEN \E l3 \in default :
              worker' = [worker EXCEPT ![w].pc = "l3_check", ![w].l3 = l3]
       ELSE IF At(w, "l3_find") THEN Goto(w, "l3_txn") ELSE Fail(w)
  /\ UNCHANGED rows

CreateDefault(w) ==
  /\ At(w, "l3_txn")
  /\ \/ /\ ~DefaultIsFree
        /\ Goto(w, "l3_refind")
        /\ UNCHANGED rows
     \/ \E l3 \in Fresh(L3s) :
          /\ DefaultIsFree
          /\ Insert(l3, worker[w].isShared)
          /\ default' = default \cup {l3}
          /\ worker' = [worker EXCEPT ![w].pc = "l3_own", ![w].l3 = l3]
          /\ UNCHANGED <<owned, l2_policy_id, l3_policy_id>>

\* _mark_l3_policy_owned and _mark_l2_policy_owned
MarkOwned(w, pc, r, next) ==
  /\ At(w, pc)
  /\ IF r \in live THEN owned' = owned \cup {r} /\ Goto(w, next)
                   ELSE Fail(w) /\ UNCHANGED owned
  /\ UNCHANGED <<live, shared, default, l2_policy_id, l3_policy_id>>

MarkL3Owned(w) == MarkOwned(w, "l3_own", worker[w].l3, "l3_check")

\* set_l3_policy_id validates in one transaction and sets in another.
CheckL3(w) ==
  /\ At(w, "l3_check")
  /\ IF Linkable(worker[w].isShared, worker[w].l3) THEN Goto(w, "l3_set") ELSE Fail(w)
  /\ UNCHANGED rows

\* Mutant: the rows are not looked at again.
SetL3Unchecked(w) ==
  /\ At(w, "l3_set")
  /\ l3_policy_id' = [l3_policy_id EXCEPT ![worker[w].l2] = worker[w].l3]
  /\ IF worker[w].op = "create_group" THEN Goto(w, "l2_own") ELSE End(w)
  /\ UNCHANGED <<live, shared, default, owned, l2_policy_id>>

SetL3(w) ==
  /\ At(w, "l3_set")
  /\ IF {worker[w].l2, worker[w].l3} \subseteq live
       THEN /\ l3_policy_id' = [l3_policy_id EXCEPT ![worker[w].l2] = worker[w].l3]
            /\ IF worker[w].op = "create_group" THEN Goto(w, "l2_own") ELSE End(w)
       ELSE Fail(w) /\ UNCHANGED l3_policy_id
  /\ UNCHANGED <<live, shared, default, owned, l2_policy_id>>

--------------------
(* _use_implicit_l2_policy *)

\* create_l2_policy, called by the driver.
CreateImplicitL2(w) ==
  /\ At(w, "l2_txn")
  /\ \E l2 \in Fresh(L2s) :
       /\ Insert(l2, worker[w].isShared)
       /\ worker' = [worker EXCEPT ![w].pc = "l3_find", ![w].l2 = l2]
  /\ UNCHANGED <<default, owned, l2_policy_id, l3_policy_id>>

MarkL2Owned(w) == MarkOwned(w, "l2_own", worker[w].l2, "l2_check")

CheckL2(w) ==
  /\ At(w, "l2_check")
  /\ IF Linkable(worker[w].isShared, worker[w].l2) THEN Goto(w, "l2_set") ELSE Fail(w)
  /\ UNCHANGED rows

SetL2(w) ==
  /\ At(w, "l2_set")
  /\ IF {worker[w].group, worker[w].l2} \subseteq live
       THEN /\ l2_policy_id' = [l2_policy_id EXCEPT ![worker[w].group] = worker[w].l2]
            /\ End(w)
       ELSE Fail(w) /\ UNCHANGED l2_policy_id
  /\ UNCHANGED <<live, shared, default, owned, l3_policy_id>>

--------------------
(* Undoing and cleaning up *)

\* delete_l2_policy in the except clause of create_l2_policy; the exception goes
\* on to create_policy_target_group when it was called from there.
UndoL2(w) ==
  LET next == IF worker[w].op = "create_group" THEN "group_read" ELSE "idle" IN
  /\ At(w, "l2_undo")
  /\ \/ DeleteL2Row(w, worker[w].op, worker[w].l2, next)
     \/ /\ worker[w].l2 \notin live \/ GroupsOf(worker[w].l2) # {}
        /\ IF next = "idle" THEN End(w) ELSE Goto(w, next)
        /\ UNCHANGED rows

\* delete_policy_target_group: its first transaction reads the row, ...
ReadGroup(w) ==
  /\ At(w, "group_read")
  /\ IF worker[w].group \in live
       THEN worker' = [worker EXCEPT ![w].pc = "group_delete",
                                     ![w].l2 = l2_policy_id[worker[w].group]]
       ELSE End(w)
  /\ UNCHANGED rows

\* ... and its last deletes it.
DeleteGroupRow(w) ==
  /\ At(w, "group_delete")
  /\ \/ worker[w].group \in live /\ Erase(worker[w].group) /\ Goto(w, "l2_cleanup")
     \/ worker[w].group \notin live /\ End(w) /\ UNCHANGED rows

\* _cleanup_l2_policy
CleanupL2(w) ==
  /\ At(w, "l2_cleanup")
  /\ IF worker[w].l2 \in owned THEN Goto(w, "l2_delete") ELSE End(w)
  /\ UNCHANGED rows

DeleteOwnedL2(w) ==
  /\ At(w, "l2_delete")
  /\ \/ DeleteL2Row(w, worker[w].op, worker[w].l2, "idle")
     \/ /\ worker[w].l2 \notin live \/ GroupsOf(worker[w].l2) # {}
        /\ End(w)
        /\ UNCHANGED rows

\* Mutant: ownership is not looked up.
CleanupAnyL3(w) ==
  /\ At(w, "l3_cleanup")
  /\ IF worker[w].l3 \in live THEN Goto(w, "l3_delete") ELSE Resume(w)
  /\ UNCHANGED rows

\* Mutant: the deletion of an L2 policy leaves its L3 policy alone.
CleanupNoL3(w) == At(w, "l3_cleanup") /\ Resume(w) /\ UNCHANGED rows

\* _cleanup_l3_policy
CleanupL3(w) ==
  /\ At(w, "l3_cleanup")
  /\ IF worker[w].l3 \in owned THEN Goto(w, "l3_delete") ELSE Resume(w)
  /\ UNCHANGED rows

\* delete_l3_policy with check_unused.  That the policy is gone is an error,
\* which the deletion of an L2 policy swallows and an update reports.
DeleteOwnedL3(w) ==
  LET l3 == worker[w].l3 IN
  /\ At(w, "l3_delete")
  /\ \/ l3 \in live /\ L2sOf(l3) = {} /\ Erase(l3) /\ Resume(w)
     \/ l3 \in live /\ L2sOf(l3) # {} /\ Resume(w) /\ UNCHANGED rows
     \/ /\ l3 \notin live
        /\ IF worker[w].op = "update_l2" THEN End(w) ELSE Resume(w)
        /\ UNCHANGED rows

--------------------
Init ==
  /\ live = {} /\ shared = {} /\ default = {} /\ owned = {}
  /\ l2_policy_id = [g \in Groups |-> None]
  /\ l3_policy_id = [l \in L2s |-> None]
  /\ worker = [w \in Workers |-> Idle]

Request(w) ==
  \/ CreatePolicyTargetGroup(w) \/ UpdatePolicyTargetGroup(w) \/ DeletePolicyTargetGroup(w)
  \/ CreateL2Policy(w) \/ UpdateL2Policy(w) \/ DeleteL2Policy(w)
  \/ CreateL3Policy(w) \/ RenameL3Policy(w) \/ ShareL3Policy(w) \/ DeleteL3Policy(w)

Work(w) ==
  \/ FindDefault(w) \/ CreateDefault(w) \/ MarkL3Owned(w) \/ CheckL3(w) \/ SetL3(w)
  \/ CreateImplicitL2(w) \/ MarkL2Owned(w) \/ CheckL2(w) \/ SetL2(w)
  \/ UndoL2(w) \/ ReadGroup(w) \/ DeleteGroupRow(w)
  \/ CleanupL2(w) \/ DeleteOwnedL2(w) \/ CleanupL3(w) \/ DeleteOwnedL3(w)

Next == \E w \in Workers : Request(w) \/ Work(w)

Spec == Init /\ [][Next]_vars

--------------------
(* Properties *)

Quiet == \A w \in Workers : At(w, "idle")

PCs == {"idle", "l2_txn", "l3_find", "l3_txn", "l3_refind", "l3_own", "l3_check", "l3_set",
        "l2_own", "l2_check", "l2_set", "l2_undo", "group_read", "group_delete",
        "l2_cleanup", "l2_delete", "l3_cleanup", "l3_delete"}

\* Every variable has its type; what is noted of a row is noted of a row that
\* exists, and the references of a row name rows that exist.
TypeOK ==
  /\ live \subseteq Groups \cup L2s \cup L3s
  /\ shared \subseteq live
  /\ default \subseteq L3s \cap live
  /\ owned \subseteq (L2s \cup L3s) \cap live
  /\ l2_policy_id \in [Groups -> (L2s \cap live) \cup {None}]
  /\ l3_policy_id \in [L2s -> (L3s \cap live) \cup {None}]
  /\ worker \in [Workers ->
       [op : Operations \cup {"none"}, pc : PCs, group : Groups \cup {None},
        l2 : L2s \cup {None}, l3 : L3s \cup {None}, isShared : BOOLEAN,
        then : {"idle", "l3_find", "group_read"}]]

\* "This driver ensures that the l2_policy_id attribute of PolicyTargetGroup
\* references an L2Policy instance and that the l3_policy_id attribute of L2Policy
\* references an L3Policy instance": when no request is running.
EveryRowHasItsPolicy ==
  Quiet =>
    /\ \A g \in Groups \cap live : l2_policy_id[g] # None
    /\ \A l \in L2s \cap live : l3_policy_id[l] # None

\* A policy that the driver created goes with its last user.
NoPolicyIsLeaked ==
  Quiet =>
    /\ \A l2 \in owned \cap L2s : GroupsOf(l2) # {}
    /\ \A l3 \in owned \cap L3s : L2sOf(l3) # {}

\* A policy that a client created is deleted at a client's request only, be it
\* the default one that the driver has been using.
ExplicitPoliciesStay ==
  [][\A r \in (live \ live') \ (owned \cup Groups) :
       \/ r \in L3s /\ \E w \in Workers : DeleteL3Policy(w)
       \/ r \in L2s /\ \E w \in Workers : DeleteL2Policy(w) \/ UndoL2(w)]_vars

\* "Default L3 Policy with name %(l3p_name)s already exists and is visible for
\* this tenant": a tenant has one at most.
OneDefaultL3Policy == \A x, y \in default : x = y

\* "A shared resource cannot use/link a non-shared resource".
SharedUsesShared ==
  /\ \A g \in Groups \cap shared : l2_policy_id[g] \in shared \cup {None}
  /\ \A l \in L2s \cap shared : l3_policy_id[l] \in shared \cup {None}

\* "Updating L2 policy of policy target group is not supported": once a group has
\* an L2 policy it keeps it.
GroupKeepsL2Policy ==
  [][\A g \in Groups \cap live :
       l2_policy_id[g] # None /\ g \in live' => l2_policy_id'[g] = l2_policy_id[g]]_vars
====================
