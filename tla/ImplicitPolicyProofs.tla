------------------------- MODULE ImplicitPolicyProofs -------------------------
(* Proofs about ImplicitPolicy, for any number of rows and workers.

   First, with any clients: references name rows that exist, the driver
   deletes no policy of a client, and the default L3 policy is one as long
   as nobody renames.

   Then, shared rows use shared policies as long as no client reverts the
   sharing of an L3 policy; and, with patient clients that do not move L2
   policies to other L3 policies, every row has its policy and no policy
   of the driver is left behind when the workers rest.  That says nothing
   of a state in which a worker works: the invariant names the worker that
   still owes a row its policy (OwesL2, OwesL3) or an owned policy its
   deletion (MindsL2, MindsL3). *)
EXTENDS ImplicitPolicy, TLAPS

\* The columns of a row that is gone are empty: a row that is deleted has no
\* users to look for among them.
DeadRowsAreEmpty ==
  /\ \A g \in Groups : l2_policy_id[g] # None => g \in live
  /\ \A l \in L2s : l3_policy_id[l] # None => l \in live

\* A worker that is about to delete a policy found it owned, and a policy that
\* still exists is owned still.
CondemnedIsOwned ==
  \A w \in Workers :
    /\ At(w, "l2_delete") /\ worker[w].l2 \in live => worker[w].l2 \in owned
    /\ At(w, "l3_delete") /\ worker[w].l3 \in live => worker[w].l3 \in owned

Inv == TypeOK /\ DeadRowsAreEmpty /\ CondemnedIsOwned

WorkerTypes ==
  [op : Operations \cup {"none"}, pc : PCs, group : Groups \cup {None},
   l2 : L2s \cup {None}, l3 : L3s \cup {None}, isShared : BOOLEAN,
   then : {"idle", "l3_find", "group_read"}]

Condemned(q) ==
  /\ q.pc = "l2_delete" /\ q.l2 \in live' => q.l2 \in owned'
  /\ q.pc = "l3_delete" /\ q.l3 \in live' => q.l3 \in owned'

RowsOK ==
  /\ live \subseteq Groups \cup L2s \cup L3s
  /\ shared \subseteq live
  /\ default \subseteq L3s \cap live
  /\ owned \subseteq (L2s \cup L3s) \cap live
  /\ l2_policy_id \in [Groups -> (L2s \cap live) \cup {None}]
  /\ l3_policy_id \in [L2s -> (L3s \cap live) \cup {None}]
  /\ DeadRowsAreEmpty

LEMMA IdleTyped == Idle \in WorkerTypes
  BY DEF Idle, WorkerTypes, PCs

\* Inserting a row keeps the others as they are.
LEMMA InsertKeeps ==
  ASSUME RowsOK, NEW r \in Groups \cup L2s \cup L3s, NEW isShared \in BOOLEAN,
         Insert(r, isShared)
  PROVE  /\ live' \subseteq Groups \cup L2s \cup L3s
         /\ shared' \subseteq live'
         /\ live' = live \cup {r}
  BY DEF RowsOK, Insert

\* Deleting a row that no other row refers to.
LEMMA EraseKeeps ==
  ASSUME RowsOK, NEW r \in live, Erase(r),
         \A g \in Groups \cap live : l2_policy_id[g] # r,
         \A l \in L2s \cap live : l3_policy_id[l] # r
  PROVE  RowsOK' /\ live' = live \ {r} /\ owned' = owned \ {r}
<1>1. /\ live' = live \ {r} /\ shared' = shared \ {r}
      /\ default' = default \ {r} /\ owned' = owned \ {r}
      /\ l2_policy_id' = [g \in Groups |-> IF g = r THEN None ELSE l2_policy_id[g]]
      /\ l3_policy_id' = [l \in L2s |-> IF l = r THEN None ELSE l3_policy_id[l]]
  BY DEF Erase
<1>2. r # None
  BY ImplicitPolicyAssumption DEF RowsOK
<1>3. ASSUME NEW g \in Groups
      PROVE  l2_policy_id'[g] \in (L2s \cap live') \cup {None}
             /\ (l2_policy_id'[g] # None => g \in live')
  BY <1>1, <1>2, <1>3 DEF RowsOK, DeadRowsAreEmpty
<1>4. ASSUME NEW l \in L2s
      PROVE  l3_policy_id'[l] \in (L3s \cap live') \cup {None}
             /\ (l3_policy_id'[l] # None => l \in live')
  BY <1>1, <1>2, <1>4 DEF RowsOK, DeadRowsAreEmpty
<1> QED BY <1>1, <1>3, <1>4 DEF RowsOK, DeadRowsAreEmpty

\* A step of worker w that leaves the rows, or inserts one no worker remembers,
\* or deletes one, preserves what the other workers rely on.
LEMMA OthersStay ==
  ASSUME Inv, NEW w \in Workers, NEW q \in WorkerTypes,
         worker' = [worker EXCEPT ![w] = q] \/ worker' = worker,
         worker' = [worker EXCEPT ![w] = q] => Condemned(q),
         owned \cap live' \subseteq owned',
         \A v \in Workers : {worker[v].l2, worker[v].l3} \cap (live' \ live) = {}
  PROVE  worker' \in [Workers -> WorkerTypes] /\ CondemnedIsOwned'
  BY DEF Inv, TypeOK, WorkerTypes, CondemnedIsOwned, Condemned, At

LEMMA InitInv == Init => Inv
  BY IdleTyped DEF Init, Inv, TypeOK, DeadRowsAreEmpty, CondemnedIsOwned, WorkerTypes, Idle, At

\* The parts of the invariant: the rows, the types of the workers, and what
\* they rely on.
LEMMA InvParts ==
  /\ Inv => RowsOK /\ worker \in [Workers -> WorkerTypes]
  /\ RowsOK' /\ worker' \in [Workers -> WorkerTypes] /\ CondemnedIsOwned' => Inv'
  BY DEF Inv, TypeOK, RowsOK, WorkerTypes, DeadRowsAreEmpty

\* Steps of a worker that move it on and leave the rows.
LEMMA MoveKeeps ==
  ASSUME Inv, NEW w \in Workers, NEW q \in WorkerTypes,
         worker' = [worker EXCEPT ![w] = q] \/ worker' = worker, UNCHANGED rows,
         Condemned(q)
  PROVE  Inv'
<1>1. RowsOK'
  BY InvParts DEF rows, RowsOK, DeadRowsAreEmpty
<1>2. worker' \in [Workers -> WorkerTypes] /\ CondemnedIsOwned'
  BY OthersStay DEF rows
<1> QED BY <1>1, <1>2, InvParts

\* Where a worker goes next is a record of its type.
LEMMA ControlTyped ==
  ASSUME Inv, NEW w \in Workers, NEW pc \in PCs
  PROVE  /\ Goto(w, pc) => \E q \in WorkerTypes :
                /\ worker' = [worker EXCEPT ![w] = q]
                /\ q = [worker[w] EXCEPT !.pc = pc]
         /\ End(w) => worker' = [worker EXCEPT ![w] = Idle]
<1>1. worker \in [Workers -> WorkerTypes]
  BY InvParts
<1>2. [worker[w] EXCEPT !.pc = pc] \in WorkerTypes
  BY <1>1 DEF WorkerTypes
<1>3. Goto(w, pc) => worker' = [worker EXCEPT ![w] = [worker[w] EXCEPT !.pc = pc]]
  BY <1>1 DEF Goto
<1> QED BY <1>2, <1>3 DEF End

\* A failing worker ends or goes on to undo, and deletes nothing yet.
LEMMA FailTyped ==
  ASSUME Inv, NEW w \in Workers, Fail(w)
  PROVE  \E q \in WorkerTypes :
           /\ worker' = [worker EXCEPT ![w] = q]
           /\ q.pc \in {"idle", "group_read", "l2_undo"}
<1>1. Idle \in WorkerTypes /\ Idle.pc = "idle"
  BY IdleTyped DEF Idle
<1>2. CASE End(w)
  BY <1>1, <1>2 DEF End
<1>3. ASSUME NEW pc \in {"group_read", "l2_undo"}, Goto(w, pc)
      PROVE  \E q \in WorkerTypes :
               worker' = [worker EXCEPT ![w] = q] /\ q.pc = pc
  <2>1. pc \in PCs
    BY <1>3 DEF PCs
  <2>2. PICK q \in WorkerTypes :
          worker' = [worker EXCEPT ![w] = q] /\ q = [worker[w] EXCEPT !.pc = pc]
    BY <1>3, <2>1, ControlTyped
  <2>3. q.pc = pc
    BY <2>2, InvParts DEF WorkerTypes
  <2> QED BY <2>2, <2>3
<1> QED BY <1>2, <1>3 DEF Fail

\* So does one that resumes.
LEMMA ResumeTyped ==
  ASSUME Inv, NEW w \in Workers, Resume(w)
  PROVE  \E q \in WorkerTypes :
           /\ worker' = [worker EXCEPT ![w] = q]
           /\ q.pc \in {"idle", "l3_find", "group_read"}
<1>1. worker[w] \in WorkerTypes /\ worker \in [Workers -> WorkerTypes]
  BY InvParts
<1>2. CASE worker[w].then = "idle"
  BY <1>2, IdleTyped DEF Resume, End, Idle
<1>3. CASE worker[w].then # "idle"
  <2> DEFINE q == [worker[w] EXCEPT !.pc = worker[w].then, !.l3 = None, !.then = "idle"]
  <2>1. q \in WorkerTypes /\ q.pc \in {"idle", "l3_find", "group_read"}
    BY <1>1 DEF WorkerTypes, PCs
  <2>2. worker' = [worker EXCEPT ![w] = q]
    BY <1>1, <1>3 DEF Resume
  <2> QED BY <2>1, <2>2
<1> QED BY <1>2, <1>3

--------------------
(* One lemma for each kind of step *)

\* Steps that keep or change the columns of rows that stay.
LEMMA StayKeeps ==
  ASSUME Inv, NEW w \in Workers, RowsOK', NEW q \in WorkerTypes,
         worker' = [worker EXCEPT ![w] = q] \/ worker' = worker,
         worker' = [worker EXCEPT ![w] = q] => Condemned(q),
         live' = live, owned \subseteq owned'
  PROVE  Inv'
<1>1. worker' \in [Workers -> WorkerTypes] /\ CondemnedIsOwned'
  BY OthersStay
<1> QED BY <1>1, InvParts

\* Creations: of a row that nobody remembers, by a worker that goes on to work
\* for it or is done.
LEMMA CreationKeeps ==
  ASSUME Inv, NEW w \in Workers, NEW S, NEW r \in Fresh(S),
         RowsOK', live' = live \cup {r}, owned' = owned,
         NEW q \in WorkerTypes, Condemned(q),
         worker' = [worker EXCEPT ![w] = q] \/ worker' = worker
  PROVE  Inv'
<1>1. \A v \in Workers : {worker[v].l2, worker[v].l3} \cap (live' \ live) = {}
  BY DEF Fresh
<1>2. worker' \in [Workers -> WorkerTypes] /\ CondemnedIsOwned'
  BY <1>1, OthersStay
<1> QED BY <1>2, InvParts

\* Deletions of a row without users.
LEMMA ErasureKeeps ==
  ASSUME Inv, NEW w \in Workers, NEW r \in live, Erase(r),
         \A g \in Groups \cap live : l2_policy_id[g] # r,
         \A l \in L2s \cap live : l3_policy_id[l] # r,
         NEW q \in WorkerTypes, q.pc \notin {"l2_delete", "l3_delete"},
         worker' = [worker EXCEPT ![w] = q] \/ worker' = worker
  PROVE  Inv'
<1>1. RowsOK' /\ live' = live \ {r} /\ owned' = owned \ {r}
  BY EraseKeeps, InvParts
<1>2. worker' \in [Workers -> WorkerTypes] /\ CondemnedIsOwned'
  BY <1>1, OthersStay DEF Condemned
<1> QED BY <1>1, <1>2, InvParts

--------------------
(* Requests *)

LEMMA CreateGroupKeeps ==
  ASSUME Inv, NEW w \in Workers, CreatePolicyTargetGroup(w)
  PROVE  Inv'
<1>1. PICK g \in Fresh(Groups), l2 \in L2s \cup {None}, isShared \in Flags :
        /\ l2 # None => l2 \in live
        /\ Insert(g, isShared)
        /\ l2_policy_id' = [l2_policy_id EXCEPT ![g] = l2]
        /\ worker' = IF l2 # None THEN worker ELSE
             [worker EXCEPT ![w] = [Idle EXCEPT !.op = "create_group", !.pc = "l2_txn",
                                                !.group = g, !.isShared = isShared]]
  BY DEF CreatePolicyTargetGroup, Linkable
<1>2. g \in Groups /\ isShared \in BOOLEAN /\ RowsOK
  BY ImplicitPolicyAssumption, InvParts DEF Fresh
<1>3. UNCHANGED <<default, owned, l3_policy_id>>
  BY DEF CreatePolicyTargetGroup
<1>4. live' = live \cup {g} /\ live' \subseteq Groups \cup L2s \cup L3s /\ shared' \subseteq live'
  BY <1>1, <1>2, InsertKeeps
<1>5. RowsOK'
  BY <1>1, <1>2, <1>3, <1>4 DEF RowsOK, DeadRowsAreEmpty
<1> DEFINE q == [Idle EXCEPT !.op = "create_group", !.pc = "l2_txn",
                             !.group = g, !.isShared = isShared]
<1>6. q \in WorkerTypes /\ Condemned(q)
  BY <1>2 DEF Idle, WorkerTypes, PCs, Operations, Condemned
<1> QED BY <1>1, <1>3, <1>4, <1>5, <1>6, CreationKeeps

LEMMA UpdateGroupKeeps ==
  ASSUME Inv, NEW w \in Workers, UpdatePolicyTargetGroup(w)
  PROVE  Inv'
<1>1. PICK g \in Groups \cap live, l2 \in L2s :
        l2 \in live /\ l2_policy_id' = [l2_policy_id EXCEPT ![g] = l2]
  BY DEF UpdatePolicyTargetGroup, Linkable
<1>2. UNCHANGED <<live, shared, default, owned, l3_policy_id, worker>>
  BY DEF UpdatePolicyTargetGroup
<1>3. RowsOK'
  BY <1>1, <1>2, InvParts DEF RowsOK, DeadRowsAreEmpty
<1> QED BY <1>2, <1>3, IdleTyped, StayKeeps DEF Condemned, Idle

LEMMA DeleteGroupKeeps ==
  ASSUME Inv, NEW w \in Workers, DeletePolicyTargetGroup(w)
  PROVE  Inv'
<1>1. PICK g \in Groups :
        worker' = [worker EXCEPT ![w] =
          [Idle EXCEPT !.op = "delete_group", !.pc = "group_read", !.group = g]]
  BY DEF DeletePolicyTargetGroup
<1> DEFINE q == [Idle EXCEPT !.op = "delete_group", !.pc = "group_read", !.group = g]
<1>2. q \in WorkerTypes /\ Condemned(q)
  BY DEF Idle, WorkerTypes, PCs, Operations, Condemned
<1> QED BY <1>1, <1>2, MoveKeeps DEF DeletePolicyTargetGroup

LEMMA CreateL2Keeps ==
  ASSUME Inv, NEW w \in Workers, CreateL2Policy(w)
  PROVE  Inv'
<1>1. PICK l2 \in Fresh(L2s), l3 \in L3s \cup {None}, isShared \in Flags :
        /\ l3 # None => l3 \in live
        /\ Insert(l2, isShared)
        /\ l3_policy_id' = [l3_policy_id EXCEPT ![l2] = l3]
        /\ worker' = IF l3 # None THEN worker ELSE
             [worker EXCEPT ![w] = [Idle EXCEPT !.op = "create_l2", !.pc = "l3_find",
                                                !.l2 = l2, !.isShared = isShared]]
  BY DEF CreateL2Policy, Linkable
<1>2. l2 \in L2s /\ isShared \in BOOLEAN /\ RowsOK
  BY ImplicitPolicyAssumption, InvParts DEF Fresh
<1>3. UNCHANGED <<default, owned, l2_policy_id>>
  BY DEF CreateL2Policy
<1>4. live' = live \cup {l2} /\ live' \subseteq Groups \cup L2s \cup L3s /\ shared' \subseteq live'
  BY <1>1, <1>2, InsertKeeps
<1>5. RowsOK'
  BY <1>1, <1>2, <1>3, <1>4 DEF RowsOK, DeadRowsAreEmpty
<1> DEFINE q == [Idle EXCEPT !.op = "create_l2", !.pc = "l3_find",
                             !.l2 = l2, !.isShared = isShared]
<1>6. q \in WorkerTypes /\ Condemned(q)
  BY <1>2 DEF Idle, WorkerTypes, PCs, Operations, Condemned
<1> QED BY <1>1, <1>3, <1>4, <1>5, <1>6, CreationKeeps

LEMMA UpdateL2Keeps ==
  ASSUME Inv, NEW w \in Workers, UpdateL2Policy(w)
  PROVE  Inv'
<1>1. PICK l2 \in L2s \cap live, l3 \in L3s \cup {None} :
        /\ l3 # None => l3 \in live
        /\ l3_policy_id' = [l3_policy_id EXCEPT ![l2] = l3]
        /\ worker' = [worker EXCEPT ![w] =
             [Idle EXCEPT !.op = "update_l2", !.pc = "l3_cleanup", !.l2 = l2,
                          !.l3 = l3_policy_id[l2], !.isShared = l2 \in shared,
                          !.then = IF l3 = None THEN "l3_find" ELSE "idle"]]
  BY DEF UpdateL2Policy, Linkable
<1>2. UNCHANGED <<live, shared, default, owned, l2_policy_id>>
  BY DEF UpdateL2Policy
<1>3. RowsOK'
  BY <1>1, <1>2, InvParts DEF RowsOK, DeadRowsAreEmpty
<1> DEFINE q == [Idle EXCEPT !.op = "update_l2", !.pc = "l3_cleanup", !.l2 = l2,
                             !.l3 = l3_policy_id[l2], !.isShared = l2 \in shared,
                             !.then = IF l3 = None THEN "l3_find" ELSE "idle"]
<1>4. l3_policy_id[l2] \in L3s \cup {None} /\ (l2 \in shared) \in BOOLEAN
  BY InvParts DEF RowsOK
<1>5. q \in WorkerTypes /\ Condemned(q)
  BY <1>4 DEF Idle, WorkerTypes, PCs, Operations, Condemned
<1> QED BY <1>1, <1>2, <1>3, <1>5, StayKeeps

\* The transaction of delete_l2_policy, wherever it is run from.
LEMMA DeleteL2RowKeeps ==
  ASSUME Inv, NEW w \in Workers, NEW op \in Operations \cup {"none"}, NEW l2 \in L2s,
         NEW next \in {"idle", "group_read"}, DeleteL2Row(w, op, l2, next)
  PROVE  Inv'
<1> DEFINE q == [worker[w] EXCEPT !.op = op, !.pc = "l3_cleanup", !.l2 = None,
                                  !.l3 = l3_policy_id[l2], !.then = next]
<1>1. RowsOK /\ worker \in [Workers -> WorkerTypes]
  BY InvParts
<1>2. q \in WorkerTypes /\ q.pc = "l3_cleanup"
  BY <1>1 DEF RowsOK, WorkerTypes, PCs
<1>3. worker' = [worker EXCEPT ![w] = q]
  BY <1>1 DEF DeleteL2Row
<1>4. l2 \in live /\ Erase(l2) /\ \A g \in Groups \cap live : l2_policy_id[g] # l2
  BY DEF DeleteL2Row, GroupsOf
<1>5. \A l \in L2s \cap live : l3_policy_id[l] # l2
  BY <1>1, ImplicitPolicyAssumption DEF RowsOK
<1> QED BY <1>2, <1>3, <1>4, <1>5, ErasureKeeps

LEMMA DeleteL2Keeps ==
  ASSUME Inv, NEW w \in Workers, DeleteL2Policy(w)
  PROVE  Inv'
<1>1. PICK l2 \in L2s : DeleteL2Row(w, "delete_l2", l2, "idle")
  BY DEF DeleteL2Policy
<1> QED BY <1>1, DeleteL2RowKeeps DEF Operations

LEMMA CreateL3Keeps ==
  ASSUME Inv, NEW w \in Workers, CreateL3Policy(w)
  PROVE  Inv'
<1>1. PICK l3 \in Fresh(L3s), isShared \in Flags, named \in BOOLEAN :
        /\ Insert(l3, isShared)
        /\ default' = IF named THEN default \cup {l3} ELSE default
  BY DEF CreateL3Policy
<1>2. l3 \in L3s /\ isShared \in BOOLEAN /\ RowsOK
  BY ImplicitPolicyAssumption, InvParts DEF Fresh
<1>3. UNCHANGED <<owned, l2_policy_id, l3_policy_id, worker>>
  BY DEF CreateL3Policy
<1>4. live' = live \cup {l3} /\ live' \subseteq Groups \cup L2s \cup L3s /\ shared' \subseteq live'
  BY <1>1, <1>2, InsertKeeps
<1>5. RowsOK'
  BY <1>1, <1>2, <1>3, <1>4 DEF RowsOK, DeadRowsAreEmpty
<1>6. Idle \in WorkerTypes /\ Condemned(Idle)
  BY IdleTyped DEF Idle, Condemned
<1> QED BY <1>3, <1>4, <1>5, <1>6, CreationKeeps

LEMMA RenameL3Keeps ==
  ASSUME Inv, NEW w \in Workers, RenameL3Policy(w)
  PROVE  Inv'
<1>1. UNCHANGED <<live, shared, owned, l2_policy_id, l3_policy_id, worker>>
      /\ default' \subseteq L3s \cap live
  BY InvParts DEF RenameL3Policy, RowsOK
<1>2. RowsOK'
  BY <1>1, InvParts DEF RowsOK, DeadRowsAreEmpty
<1> QED BY <1>1, <1>2, IdleTyped, StayKeeps DEF Condemned, Idle

LEMMA ShareL3Keeps ==
  ASSUME Inv, NEW w \in Workers, ShareL3Policy(w)
  PROVE  Inv'
<1>1. UNCHANGED <<live, default, owned, l2_policy_id, l3_policy_id, worker>>
      /\ shared' \subseteq live
  BY InvParts DEF ShareL3Policy, RowsOK
<1>2. RowsOK'
  BY <1>1, InvParts DEF RowsOK, DeadRowsAreEmpty
<1> QED BY <1>1, <1>2, IdleTyped, StayKeeps DEF Condemned, Idle

LEMMA DeleteL3Keeps ==
  ASSUME Inv, NEW w \in Workers, DeleteL3Policy(w)
  PROVE  Inv'
<1>1. PICK l3 \in L3s \cap live : L2sOf(l3) = {} /\ Erase(l3)
  BY DEF DeleteL3Policy
<1>2. \A l \in L2s \cap live : l3_policy_id[l] # l3
  BY <1>1 DEF L2sOf
<1>3. \A g \in Groups \cap live : l2_policy_id[g] # l3
  BY InvParts, ImplicitPolicyAssumption DEF RowsOK
<1>4. worker' = worker /\ Idle \in WorkerTypes /\ Idle.pc = "idle"
  BY IdleTyped DEF DeleteL3Policy, Idle
<1> QED BY <1>1, <1>2, <1>3, <1>4, ErasureKeeps

--------------------
(* The work behind the transaction of the request *)

Passing == PCs \ {"l2_delete", "l3_delete"}

\* A worker that only moves, and not to delete a policy.
LEMMA GotoKeeps ==
  ASSUME Inv, NEW w \in Workers, NEW pc \in Passing, Goto(w, pc), UNCHANGED rows
  PROVE  Inv'
<1>1. PICK q \in WorkerTypes :
        worker' = [worker EXCEPT ![w] = q] /\ q = [worker[w] EXCEPT !.pc = pc]
  BY ControlTyped DEF Passing
<1>2. q.pc = pc
  BY <1>1, InvParts DEF WorkerTypes
<1>3. Condemned(q)
  BY <1>2 DEF Condemned, Passing
<1> QED BY <1>1, <1>3, MoveKeeps

LEMMA EndKeeps ==
  ASSUME Inv, NEW w \in Workers, End(w), UNCHANGED rows
  PROVE  Inv'
<1>1. Condemned(Idle)
  BY DEF Condemned, Idle
<1> QED BY <1>1, IdleTyped, MoveKeeps DEF End

LEMMA FailKeeps ==
  ASSUME Inv, NEW w \in Workers, Fail(w), UNCHANGED rows
  PROVE  Inv'
<1>1. PICK q \in WorkerTypes :
        worker' = [worker EXCEPT ![w] = q] /\ q.pc \in {"idle", "group_read", "l2_undo"}
  BY FailTyped
<1>2. Condemned(q)
  BY <1>1 DEF Condemned
<1> QED BY <1>1, <1>2, MoveKeeps

LEMMA ResumeKeeps ==
  ASSUME Inv, NEW w \in Workers, Resume(w), UNCHANGED rows
  PROVE  Inv'
<1>1. PICK q \in WorkerTypes :
        worker' = [worker EXCEPT ![w] = q] /\ q.pc \in {"idle", "l3_find", "group_read"}
  BY ResumeTyped
<1>2. Condemned(q)
  BY <1>1 DEF Condemned
<1> QED BY <1>1, <1>2, MoveKeeps

LEMMA FindDefaultKeeps ==
  ASSUME Inv, NEW w \in Workers, FindDefault(w)
  PROVE  Inv'
<1>1. UNCHANGED rows
  BY DEF FindDefault
<1>2. CASE default # {}
  <2>1. PICK l3 \in default :
          worker' = [worker EXCEPT ![w].pc = "l3_check", ![w].l3 = l3]
    BY <1>2 DEF FindDefault
  <2> DEFINE q == [worker[w] EXCEPT !.pc = "l3_check", !.l3 = l3]
  <2>2. l3 \in L3s /\ worker \in [Workers -> WorkerTypes]
    BY InvParts DEF RowsOK
  <2>3. q \in WorkerTypes /\ q.pc = "l3_check" /\ worker' = [worker EXCEPT ![w] = q]
    BY <2>1, <2>2 DEF WorkerTypes, PCs
  <2>4. Condemned(q)
    BY <2>3 DEF Condemned
  <2> QED BY <1>1, <2>3, <2>4, MoveKeeps
<1>3. CASE default = {}
  BY <1>1, <1>3, GotoKeeps, FailKeeps DEF FindDefault, Passing, PCs
<1> QED BY <1>2, <1>3

LEMMA CreateDefaultKeeps ==
  ASSUME Inv, NEW w \in Workers, CreateDefault(w)
  PROVE  Inv'
<1>1. CASE Goto(w, "l3_refind") /\ UNCHANGED rows
  BY <1>1, GotoKeeps DEF Passing, PCs
<1>2. ASSUME NEW l3 \in Fresh(L3s),
             Insert(l3, worker[w].isShared), default' = default \cup {l3},
             worker' = [worker EXCEPT ![w].pc = "l3_own", ![w].l3 = l3],
             UNCHANGED <<owned, l2_policy_id, l3_policy_id>>
      PROVE  Inv'
  <2>1. l3 \in L3s /\ RowsOK /\ worker \in [Workers -> WorkerTypes]
    BY InvParts DEF Fresh
  <2>2. worker[w].isShared \in BOOLEAN
    BY <2>1 DEF WorkerTypes
  <2>3. live' = live \cup {l3} /\ live' \subseteq Groups \cup L2s \cup L3s
        /\ shared' \subseteq live'
    BY <1>2, <2>1, <2>2, InsertKeeps
  <2>4. RowsOK'
    BY <1>2, <2>1, <2>3 DEF RowsOK, DeadRowsAreEmpty
  <2> DEFINE q == [worker[w] EXCEPT !.pc = "l3_own", !.l3 = l3]
  <2>5. q \in WorkerTypes /\ q.pc = "l3_own" /\ worker' = [worker EXCEPT ![w] = q]
    BY <1>2, <2>1 DEF WorkerTypes, PCs
  <2>6. Condemned(q)
    BY <2>5 DEF Condemned
  <2> QED BY <1>2, <2>3, <2>4, <2>5, <2>6, CreationKeeps
<1> QED BY <1>1, <1>2 DEF CreateDefault

LEMMA MarkOwnedKeeps ==
  ASSUME Inv, NEW w \in Workers, NEW pc, NEW r \in L2s \cup L3s \cup {None},
         NEW next \in Passing, MarkOwned(w, pc, r, next)
  PROVE  Inv'
<1>1. UNCHANGED <<live, shared, default, l2_policy_id, l3_policy_id>>
  BY DEF MarkOwned
<1>2. CASE r \in live
  <2>1. owned' = owned \cup {r} /\ Goto(w, next)
    BY <1>2 DEF MarkOwned
  <2>2. r \in L2s \cup L3s
    BY <1>2, InvParts, ImplicitPolicyAssumption DEF RowsOK
  <2>3. RowsOK'
    BY <1>1, <1>2, <2>1, <2>2, InvParts DEF RowsOK, DeadRowsAreEmpty
  <2>4. PICK q \in WorkerTypes :
          worker' = [worker EXCEPT ![w] = q] /\ q = [worker[w] EXCEPT !.pc = next]
    BY <2>1, ControlTyped DEF Passing
  <2>5. q.pc = next
    BY <2>4, InvParts DEF WorkerTypes
  <2>6. Condemned(q)
    BY <2>5 DEF Condemned, Passing
  <2> QED BY <1>1, <2>1, <2>3, <2>4, <2>6, StayKeeps
<1>3. CASE r \notin live
  BY <1>1, <1>3, FailKeeps DEF MarkOwned, rows
<1> QED BY <1>2, <1>3

LEMMA MarkKeeps ==
  ASSUME Inv, NEW w \in Workers, MarkL3Owned(w) \/ MarkL2Owned(w)
  PROVE  Inv'
<1>1. worker[w].l3 \in L3s \cup {None} /\ worker[w].l2 \in L2s \cup {None}
  BY InvParts DEF WorkerTypes
<1>2. "l3_check" \in Passing /\ "l2_check" \in Passing
  BY DEF Passing, PCs
<1>3. CASE MarkL3Owned(w)
  BY <1>1, <1>2, <1>3, MarkOwnedKeeps DEF MarkL3Owned
<1>4. CASE MarkL2Owned(w)
  BY <1>1, <1>2, <1>4, MarkOwnedKeeps DEF MarkL2Owned
<1> QED BY <1>3, <1>4

LEMMA CheckKeeps ==
  ASSUME Inv, NEW w \in Workers, CheckL3(w) \/ CheckL2(w)
  PROVE  Inv'
<1>1. "l3_set" \in Passing /\ "l2_set" \in Passing
  BY DEF Passing, PCs
<1>2. CASE CheckL3(w)
  BY <1>1, <1>2, GotoKeeps, FailKeeps DEF CheckL3
<1>3. CASE CheckL2(w)
  BY <1>1, <1>3, GotoKeeps, FailKeeps DEF CheckL2
<1> QED BY <1>2, <1>3

\* A reference is set when both of its rows exist.
LEMMA SetL3Keeps ==
  ASSUME Inv, NEW w \in Workers, SetL3(w)
  PROVE  Inv'
<1> DEFINE l2 == worker[w].l2
           l3 == worker[w].l3
<1>1. UNCHANGED <<live, shared, default, owned, l2_policy_id>>
  BY DEF SetL3
<1>2. CASE {l2, l3} \subseteq live
  <2>1. /\ l3_policy_id' = [l3_policy_id EXCEPT ![l2] = l3]
        /\ Goto(w, "l2_own") \/ End(w)
    BY <1>2 DEF SetL3
  <2>2. l2 \in L2s \cap live /\ l3 \in L3s \cap live
    BY <1>2, InvParts, ImplicitPolicyAssumption DEF RowsOK, WorkerTypes
  <2>3. RowsOK'
    BY <1>1, <2>1, <2>2, InvParts DEF RowsOK, DeadRowsAreEmpty
  <2>4. CASE End(w)
    <3>1. Condemned(Idle)
      BY DEF Condemned, Idle
    <3> QED BY <1>1, <2>3, <2>4, <3>1, IdleTyped, StayKeeps DEF End
  <2>5. CASE Goto(w, "l2_own")
    <3>1. PICK q \in WorkerTypes :
            worker' = [worker EXCEPT ![w] = q] /\ q = [worker[w] EXCEPT !.pc = "l2_own"]
      BY <2>5, ControlTyped DEF PCs
    <3>2. Condemned(q)
      BY <3>1, InvParts DEF WorkerTypes, Condemned
    <3> QED BY <1>1, <2>3, <3>1, <3>2, StayKeeps
  <2> QED BY <2>1, <2>4, <2>5
<1>3. CASE ~({l2, l3} \subseteq live)
  BY <1>1, <1>3, FailKeeps DEF SetL3, rows
<1> QED BY <1>2, <1>3

LEMMA SetL2Keeps ==
  ASSUME Inv, NEW w \in Workers, SetL2(w)
  PROVE  Inv'
<1> DEFINE g == worker[w].group
           l2 == worker[w].l2
<1>1. UNCHANGED <<live, shared, default, owned, l3_policy_id>>
  BY DEF SetL2
<1>2. CASE {g, l2} \subseteq live
  <2>1. l2_policy_id' = [l2_policy_id EXCEPT ![g] = l2] /\ End(w)
    BY <1>2 DEF SetL2
  <2>2. g \in Groups \cap live /\ l2 \in L2s \cap live
    BY <1>2, InvParts, ImplicitPolicyAssumption DEF RowsOK, WorkerTypes
  <2>3. RowsOK'
    BY <1>1, <2>1, <2>2, InvParts DEF RowsOK, DeadRowsAreEmpty
  <2>4. Condemned(Idle)
    BY DEF Condemned, Idle
  <2> QED BY <1>1, <2>1, <2>3, <2>4, IdleTyped, StayKeeps DEF End
<1>3. CASE ~({g, l2} \subseteq live)
  BY <1>1, <1>3, FailKeeps DEF SetL2, rows
<1> QED BY <1>2, <1>3

LEMMA CreateImplicitL2Keeps ==
  ASSUME Inv, NEW w \in Workers, CreateImplicitL2(w)
  PROVE  Inv'
<1>1. PICK l2 \in Fresh(L2s) :
        /\ Insert(l2, worker[w].isShared)
        /\ worker' = [worker EXCEPT ![w].pc = "l3_find", ![w].l2 = l2]
  BY DEF CreateImplicitL2
<1>2. UNCHANGED <<default, owned, l2_policy_id, l3_policy_id>>
  BY DEF CreateImplicitL2
<1>3. l2 \in L2s /\ RowsOK /\ worker \in [Workers -> WorkerTypes]
  BY InvParts DEF Fresh
<1>4. worker[w].isShared \in BOOLEAN
  BY <1>3 DEF WorkerTypes
<1>5. live' = live \cup {l2} /\ live' \subseteq Groups \cup L2s \cup L3s /\ shared' \subseteq live'
  BY <1>1, <1>3, <1>4, InsertKeeps
<1>6. RowsOK'
  BY <1>2, <1>3, <1>5 DEF RowsOK, DeadRowsAreEmpty
<1> DEFINE q == [worker[w] EXCEPT !.pc = "l3_find", !.l2 = l2]
<1>7. q \in WorkerTypes /\ q.pc = "l3_find" /\ worker' = [worker EXCEPT ![w] = q]
  BY <1>1, <1>3 DEF WorkerTypes, PCs
<1>8. Condemned(q)
  BY <1>7 DEF Condemned
<1> QED BY <1>2, <1>5, <1>6, <1>7, <1>8, CreationKeeps

--------------------
(* Undoing and cleaning up *)

LEMMA UndoL2Keeps ==
  ASSUME Inv, NEW w \in Workers, UndoL2(w)
  PROVE  Inv'
<1> DEFINE next == IF worker[w].op = "create_group" THEN "group_read" ELSE "idle"
<1>1. worker[w].op \in Operations \cup {"none"} /\ worker[w].l2 \in L2s \cup {None}
  BY InvParts DEF WorkerTypes
<1>2. CASE DeleteL2Row(w, worker[w].op, worker[w].l2, next)
  <2>1. worker[w].l2 \in L2s
    BY <1>1, <1>2, InvParts, ImplicitPolicyAssumption DEF RowsOK, DeleteL2Row
  <2> QED BY <1>1, <1>2, <2>1, DeleteL2RowKeeps
<1>3. CASE UNCHANGED rows /\ (End(w) \/ Goto(w, "group_read"))
  BY <1>3, EndKeeps, GotoKeeps DEF Passing, PCs
<1> QED BY <1>2, <1>3 DEF UndoL2

LEMMA ReadGroupKeeps ==
  ASSUME Inv, NEW w \in Workers, ReadGroup(w)
  PROVE  Inv'
<1>1. UNCHANGED rows
  BY DEF ReadGroup
<1>2. CASE worker[w].group \in live
  <2> DEFINE q == [worker[w] EXCEPT !.pc = "group_delete",
                                    !.l2 = l2_policy_id[worker[w].group]]
  <2>1. worker \in [Workers -> WorkerTypes] /\ worker[w].group \in Groups
    BY <1>2, InvParts, ImplicitPolicyAssumption DEF RowsOK, WorkerTypes
  <2>2. l2_policy_id[worker[w].group] \in L2s \cup {None}
    BY <2>1, InvParts DEF RowsOK
  <2>3. q \in WorkerTypes /\ q.pc = "group_delete"
    BY <2>1, <2>2 DEF WorkerTypes, PCs
  <2>4. worker' = [worker EXCEPT ![w] = q]
    BY <1>2, <2>1 DEF ReadGroup
  <2>5. Condemned(q)
    BY <2>3 DEF Condemned
  <2> QED BY <1>1, <2>3, <2>4, <2>5, MoveKeeps
<1>3. CASE worker[w].group \notin live
  BY <1>1, <1>3, EndKeeps DEF ReadGroup
<1> QED BY <1>2, <1>3

LEMMA DeleteGroupRowKeeps ==
  ASSUME Inv, NEW w \in Workers, DeleteGroupRow(w)
  PROVE  Inv'
<1>1. CASE worker[w].group \in live /\ Erase(worker[w].group) /\ Goto(w, "l2_cleanup")
  <2>1. RowsOK /\ worker[w].group \in Groups
    BY <1>1, InvParts, ImplicitPolicyAssumption DEF RowsOK, WorkerTypes
  <2>2. \A g \in Groups \cap live : l2_policy_id[g] # worker[w].group
    BY <2>1, ImplicitPolicyAssumption DEF RowsOK
  <2>3. \A l \in L2s \cap live : l3_policy_id[l] # worker[w].group
    BY <2>1, ImplicitPolicyAssumption DEF RowsOK
  <2>4. PICK q \in WorkerTypes :
          worker' = [worker EXCEPT ![w] = q] /\ q = [worker[w] EXCEPT !.pc = "l2_cleanup"]
    BY <1>1, ControlTyped DEF PCs
  <2>5. q.pc = "l2_cleanup"
    BY <2>4, InvParts DEF WorkerTypes
  <2> QED BY <1>1, <2>2, <2>3, <2>4, <2>5, ErasureKeeps
<1>2. CASE End(w) /\ UNCHANGED rows
  BY <1>2, EndKeeps
<1> QED BY <1>1, <1>2 DEF DeleteGroupRow

\* A worker condemns a policy that it finds owned.
LEMMA CleanupKeeps ==
  ASSUME Inv, NEW w \in Workers, CleanupL2(w) \/ CleanupL3(w)
  PROVE  Inv'
<1>1. UNCHANGED rows
  BY DEF CleanupL2, CleanupL3
<1>2. ASSUME NEW pc \in PCs, Goto(w, pc),
             pc = "l2_delete" => worker[w].l2 \in owned,
             pc = "l3_delete" => worker[w].l3 \in owned
      PROVE  Inv'
  <2>1. PICK q \in WorkerTypes :
          worker' = [worker EXCEPT ![w] = q] /\ q = [worker[w] EXCEPT !.pc = pc]
    BY <1>2, ControlTyped
  <2>2. q.pc = pc /\ q.l2 = worker[w].l2 /\ q.l3 = worker[w].l3
    BY <2>1, InvParts DEF WorkerTypes
  <2>3. Condemned(q)
    BY <1>1, <1>2, <2>2 DEF Condemned, rows
  <2> QED BY <1>1, <2>1, <2>3, MoveKeeps
<1>3. "l2_delete" \in PCs /\ "l3_delete" \in PCs
  BY DEF PCs
<1>4. CASE CleanupL2(w)
  BY <1>1, <1>2, <1>3, <1>4, EndKeeps DEF CleanupL2
<1>5. CASE CleanupL3(w)
  BY <1>1, <1>2, <1>3, <1>5, ResumeKeeps DEF CleanupL3
<1> QED BY <1>4, <1>5

LEMMA DeleteOwnedL2Keeps ==
  ASSUME Inv, NEW w \in Workers, DeleteOwnedL2(w)
  PROVE  Inv'
<1>1. CASE DeleteL2Row(w, worker[w].op, worker[w].l2, "idle")
  <2>1. worker[w].op \in Operations \cup {"none"} /\ worker[w].l2 \in L2s
    BY <1>1, InvParts, ImplicitPolicyAssumption DEF RowsOK, DeleteL2Row, WorkerTypes
  <2> QED BY <1>1, <2>1, DeleteL2RowKeeps
<1>2. CASE End(w) /\ UNCHANGED rows
  BY <1>2, EndKeeps
<1> QED BY <1>1, <1>2 DEF DeleteOwnedL2

LEMMA DeleteOwnedL3Keeps ==
  ASSUME Inv, NEW w \in Workers, DeleteOwnedL3(w)
  PROVE  Inv'
<1> DEFINE l3 == worker[w].l3
<1>1. CASE l3 \in live /\ L2sOf(l3) = {} /\ Erase(l3) /\ Resume(w)
  <2>1. RowsOK /\ l3 \in L3s
    BY <1>1, InvParts, ImplicitPolicyAssumption DEF RowsOK, WorkerTypes
  <2>2. \A g \in Groups \cap live : l2_policy_id[g] # l3
    BY <2>1, ImplicitPolicyAssumption DEF RowsOK
  <2>3. \A l \in L2s \cap live : l3_policy_id[l] # l3
    BY <1>1 DEF L2sOf
  <2>4. PICK q \in WorkerTypes :
          worker' = [worker EXCEPT ![w] = q] /\ q.pc \in {"idle", "l3_find", "group_read"}
    BY <1>1, ResumeTyped
  <2> QED BY <1>1, <2>2, <2>3, <2>4, ErasureKeeps
<1>2. CASE (End(w) \/ Resume(w)) /\ UNCHANGED rows
  BY <1>2, EndKeeps, ResumeKeeps
<1> QED BY <1>1, <1>2 DEF DeleteOwnedL3

--------------------
(* The results *)

LEMMA NextInv == Inv /\ [Next]_vars => Inv'
<1> SUFFICES ASSUME Inv, [Next]_vars PROVE Inv'
  OBVIOUS
<1>1. CASE UNCHANGED vars
  BY <1>1 DEF vars, rows, Inv, TypeOK, DeadRowsAreEmpty, CondemnedIsOwned, At
<1>2. ASSUME NEW w \in Workers, Request(w) PROVE Inv'
  BY <1>2, CreateGroupKeeps, UpdateGroupKeeps, DeleteGroupKeeps, CreateL2Keeps,
     UpdateL2Keeps, DeleteL2Keeps, CreateL3Keeps, RenameL3Keeps, ShareL3Keeps,
     DeleteL3Keeps DEF Request
<1>3. ASSUME NEW w \in Workers, Work(w) PROVE Inv'
  BY <1>3, FindDefaultKeeps, CreateDefaultKeeps, MarkKeeps, CheckKeeps, SetL3Keeps,
     CreateImplicitL2Keeps, SetL2Keeps, UndoL2Keeps, ReadGroupKeeps,
     DeleteGroupRowKeeps, CleanupKeeps, DeleteOwnedL2Keeps, DeleteOwnedL3Keeps DEF Work
<1> QED BY <1>1, <1>2, <1>3 DEF Next

LEMMA InvHolds == Spec => []Inv
  BY InitInv, NextInv, PTL DEF Spec

\* References name rows that exist, whatever the requests of other workers do
\* between the transactions of one; and the rest of the types.
THEOREM TypeCorrect == Spec => []TypeOK
<1>1. Inv => TypeOK
  BY DEF Inv
<1> QED BY <1>1, InvHolds, PTL

\* The driver deletes policies of its own only: one that a client created goes by
\* a deletion that a client asks for, or with the creation that failed.
THEOREM ExplicitPoliciesAreKept == Spec => ExplicitPoliciesStay
<1> DEFINE Explained(r) ==
      \/ r \in L3s /\ \E w \in Workers : DeleteL3Policy(w)
      \/ r \in L2s /\ \E w \in Workers : DeleteL2Policy(w) \/ UndoL2(w)
<1>1. ASSUME Inv, Next, NEW r \in (live \ live') \ (owned \cup Groups)
      PROVE  Explained(r)
  <2>1. r \in L2s \cup L3s /\ r # None
    BY <1>1, InvParts, ImplicitPolicyAssumption DEF RowsOK
  <2>2. ASSUME NEW w \in Workers, Request(w) PROVE Explained(r)
    <3>1. CASE DeleteL2Policy(w)
      <4>1. PICK l2 \in L2s : DeleteL2Row(w, "delete_l2", l2, "idle")
        BY <3>1 DEF DeleteL2Policy
      <4>2. r = l2
        BY <1>1, <4>1 DEF DeleteL2Row, Erase
      <4> QED BY <3>1, <4>2
    <3>2. CASE DeleteL3Policy(w)
      <4>1. r \in L3s
        BY <1>1, <3>2 DEF DeleteL3Policy, Erase
      <4> QED BY <3>2, <4>1
    <3>3. ~(live \subseteq live')
      BY <1>1
    <3> QED BY <2>2, <3>1, <3>2, <3>3
          DEF Request, CreatePolicyTargetGroup, UpdatePolicyTargetGroup,
              DeletePolicyTargetGroup, CreateL2Policy, UpdateL2Policy, CreateL3Policy,
              RenameL3Policy, ShareL3Policy, Insert, rows
  <2>3. ASSUME NEW w \in Workers, Work(w) PROVE Explained(r)
    <3>1. CASE UndoL2(w)
      <4>1. r = worker[w].l2
        BY <1>1, <3>1 DEF UndoL2, DeleteL2Row, Erase, rows
      <4>2. r \in L2s
        BY <1>1, <2>1, <4>1, InvParts, ImplicitPolicyAssumption DEF WorkerTypes
      <4> QED BY <3>1, <4>2
    <3>2. CASE DeleteGroupRow(w)
      <4>1. r = worker[w].group
        BY <1>1, <3>2 DEF DeleteGroupRow, Erase, rows
      <4> QED BY <1>1, <2>1, <4>1, InvParts DEF WorkerTypes
    <3>3. CASE DeleteOwnedL2(w)
      <4>1. At(w, "l2_delete") /\ r = worker[w].l2
        BY <1>1, <3>3 DEF DeleteOwnedL2, DeleteL2Row, Erase, rows
      <4> QED BY <1>1, <4>1 DEF Inv, CondemnedIsOwned
    <3>4. CASE DeleteOwnedL3(w)
      <4>1. At(w, "l3_delete") /\ r = worker[w].l3
        BY <1>1, <3>4 DEF DeleteOwnedL3, Erase, rows
      <4> QED BY <1>1, <4>1 DEF Inv, CondemnedIsOwned
    <3>5. ~(live \subseteq live')
      BY <1>1
    <3> QED BY <2>3, <3>1, <3>2, <3>3, <3>4, <3>5
          DEF Work, FindDefault, CreateDefault, MarkL3Owned, MarkL2Owned, MarkOwned,
              CheckL3, CheckL2, SetL3, SetL2, CreateImplicitL2, ReadGroup, CleanupL2,
              CleanupL3, Insert, rows
  <2> QED BY <1>1, <2>2, <2>3 DEF Next
<1>2. Inv /\ [Next]_vars =>
        [\A r \in (live \ live') \ (owned \cup Groups) : Explained(r)]_vars
  BY <1>1
<1> QED BY <1>2, InvHolds, PTL DEF Spec, ExplicitPoliciesStay

\* create_l3_policy_precommit keeps the default L3 policy of the tenant the only
\* one against any creations that race, as long as no L3 policy is renamed.
THEOREM OneDefault ==
  ASSUME "rename_l3" \notin Requests
  PROVE  Spec => []OneDefaultL3Policy
<1>1. Init => OneDefaultL3Policy
  BY DEF Init, OneDefaultL3Policy
<1>2. ASSUME OneDefaultL3Policy, [Next]_vars PROVE OneDefaultL3Policy'
  <2>1. CASE UNCHANGED vars
    BY <1>2, <2>1 DEF vars, rows, OneDefaultL3Policy
  <2>2. CASE default' \subseteq default
    BY <1>2, <2>2 DEF OneDefaultL3Policy
  <2>3. CASE default = {} /\ \E l3 : default' = default \cup {l3}
    BY <2>3 DEF OneDefaultL3Policy
  <2>4. ASSUME NEW w \in Workers, Request(w) PROVE OneDefaultL3Policy'
    <3>1. CASE CreateL3Policy(w)
      BY <2>2, <2>3, <3>1 DEF CreateL3Policy, DefaultIsFree
    <3>2. ~RenameL3Policy(w)
      BY DEF RenameL3Policy, Accept
    <3>3. DeleteL2Policy(w) \/ DeleteL3Policy(w) => default' \subseteq default
      BY DEF DeleteL2Policy, DeleteL2Row, DeleteL3Policy, Erase
    <3> QED BY <2>2, <2>4, <3>1, <3>2, <3>3
          DEF Request, CreatePolicyTargetGroup, UpdatePolicyTargetGroup,
              DeletePolicyTargetGroup, CreateL2Policy, UpdateL2Policy, ShareL3Policy, rows
  <2>5. ASSUME NEW w \in Workers, Work(w) PROVE OneDefaultL3Policy'
    <3>1. CASE CreateDefault(w)
      BY <2>2, <2>3, <3>1 DEF CreateDefault, DefaultIsFree, rows
    <3>2. UndoL2(w) \/ DeleteGroupRow(w) \/ DeleteOwnedL2(w) \/ DeleteOwnedL3(w) =>
            default' \subseteq default
      BY DEF UndoL2, DeleteGroupRow, DeleteOwnedL2, DeleteOwnedL3, DeleteL2Row, Erase, rows
    <3> QED BY <2>2, <2>5, <3>1, <3>2
          DEF Work, FindDefault, MarkL3Owned, MarkL2Owned, MarkOwned, CheckL3, CheckL2,
              SetL3, SetL2, CreateImplicitL2, ReadGroup, CleanupL2, CleanupL3, rows
  <2> QED BY <1>2, <2>1, <2>4, <2>5 DEF Next
<1> QED BY <1>1, <1>2, PTL DEF Spec

--------------------
(* Sharing *)

\* A worker that will link its L2 policy.
LinksL2(q) ==
  q.pc \in {"l3_find", "l3_txn", "l3_refind", "l3_own", "l3_check", "l3_set"} \/ q.then = "l3_find"

\* What a worker remembers of the sharing of its rows is true, or they are gone.
Remembers(q) ==
  /\ q.pc \in {"l2_txn", "l2_own", "l2_check", "l2_set"} => q.op = "create_group"
  /\ q.then = "l3_find" => q.pc \in {"l3_cleanup", "l3_delete"}
  /\ q.op = "create_group" /\ q.group \in shared => q.isShared
  /\ LinksL2(q) /\ q.l2 \in shared => q.isShared
  /\ q.pc \in {"l3_own", "l3_set"} /\ q.isShared /\ q.l3 \in live => q.l3 \in shared
  /\ q.pc = "l2_set" /\ q.isShared /\ q.l2 \in live => q.l2 \in shared

SharingInv == SharedUsesShared /\ \A w \in Workers : Remembers(worker[w])

--------------------
(* What a step does to its worker *)

Others(w) == \A v \in Workers \ {w} : worker'[v] = worker[v]

\* The worker goes on at pc.
On(q, r, pc) ==
  /\ r.pc = pc /\ r.op = q.op /\ r.group = q.group /\ r.l2 = q.l2 /\ r.l3 = q.l3
  /\ r.isShared = q.isShared /\ r.then = q.then

HasFailed(q, r) ==
  /\ q.op = "update_l2" => r = Idle
  /\ q.op # "update_l2" =>
       On(q, r, IF q.pc \in {"l2_own", "l2_check", "l2_set"} THEN "group_read" ELSE "l2_undo")

HasResumed(q, r) ==
  /\ q.then = "idle" => r = Idle
  /\ q.then # "idle" =>
       /\ r.pc = q.then /\ r.op = q.op /\ r.group = q.group /\ r.l2 = q.l2 /\ r.l3 = None
       /\ r.isShared = q.isShared /\ r.then = "idle"

LEMMA GotoFacts ==
  ASSUME Inv, NEW w \in Workers, NEW pc, Goto(w, pc)
  PROVE  Others(w) /\ On(worker[w], worker'[w], pc)
BY InvParts DEF Goto, Others, On, WorkerTypes

LEMMA EndFacts ==
  ASSUME Inv, NEW w \in Workers, End(w)
  PROVE  Others(w) /\ worker'[w] = Idle
BY InvParts DEF End, Others

LEMMA FailFacts ==
  ASSUME Inv, NEW w \in Workers, Fail(w)
  PROVE  Others(w) /\ HasFailed(worker[w], worker'[w])
BY GotoFacts, EndFacts DEF Fail, At, HasFailed

LEMMA ResumeFacts ==
  ASSUME Inv, NEW w \in Workers, Resume(w)
  PROVE  Others(w) /\ HasResumed(worker[w], worker'[w])
<1>1. CASE worker[w].then = "idle"
  BY <1>1, EndFacts DEF Resume, HasResumed
<1>2. CASE worker[w].then # "idle"
  BY <1>2, InvParts DEF Resume, HasResumed, Others, WorkerTypes
<1> QED BY <1>1, <1>2

\* What is known of the rows and the workers.
LEMMA Known ==
  ASSUME Inv
  PROVE  /\ live \subseteq Groups \cup L2s \cup L3s /\ shared \subseteq live
         /\ default \subseteq L3s \cap live /\ owned \subseteq (L2s \cup L3s) \cap live
         /\ \A g \in Groups : /\ l2_policy_id[g] \in (L2s \cap live) \cup {None}
                              /\ l2_policy_id[g] # None => g \in live
         /\ \A l \in L2s : /\ l3_policy_id[l] \in (L3s \cap live) \cup {None}
                           /\ l3_policy_id[l] # None => l \in live
         /\ DOMAIN l2_policy_id = Groups /\ DOMAIN l3_policy_id = L2s
         /\ \A w \in Workers : worker[w] \in WorkerTypes
         /\ None \notin Groups \cup L2s \cup L3s
         /\ Groups \cap L2s = {} /\ Groups \cap L3s = {} /\ L2s \cap L3s = {}
BY InvParts, ImplicitPolicyAssumption DEF RowsOK, DeadRowsAreEmpty

\* A row that is inserted is new and nobody remembers it.
LEMMA FreshFacts ==
  ASSUME Inv, NEW S, NEW x \in Fresh(S)
  PROVE  /\ x \in S /\ x \notin live /\ x \notin shared
         /\ \A w \in Workers : x # worker[w].group /\ x # worker[w].l2 /\ x # worker[w].l3
BY Known DEF Fresh

--------------------
(* Sharing is closed *)

\* The rows that a worker remembers are shared as before, or gone.
Undisturbed(q) ==
  \A x \in {q.group, q.l2, q.l3} :
    /\ x \in live' => x \in live
    /\ x \in shared' => x \in shared
    /\ x \in live' /\ x \in shared => x \in shared'

LEMMA OthersRemember ==
  ASSUME NEW v \in Workers, worker'[v] = worker[v], Remembers(worker[v]), Undisturbed(worker[v])
  PROVE  Remembers(worker[v])'
BY DEF Remembers, Undisturbed, LinksL2

LEMMA SharingStays ==
  ASSUME SharingInv, NEW w \in Workers, Others(w), SharedUsesShared', Remembers(worker[w])',
         \A v \in Workers : Undisturbed(worker[v])
  PROVE  SharingInv'
BY OthersRemember DEF SharingInv, Others

LEMMA InsertDisturbsNobody ==
  ASSUME Inv, NEW S, NEW x \in Fresh(S), NEW isShared, Insert(x, isShared)
  PROVE  \A v \in Workers : Undisturbed(worker[v])
BY FreshFacts DEF Insert, Undisturbed

LEMMA EraseDisturbsNobody ==
  ASSUME NEW x, Erase(x)
  PROVE  \A v \in Workers : Undisturbed(worker[v])
BY DEF Erase, Undisturbed

\* Steps that change none of the rows' sharing or references.
LEMMA SharingMoves ==
  ASSUME SharingInv, NEW w \in Workers, Others(w), Remembers(worker[w])',
         UNCHANGED <<live, shared, l2_policy_id, l3_policy_id>>
  PROVE  SharingInv'
<1>1. \A v \in Workers : Undisturbed(worker[v])
  BY DEF Undisturbed
<1>2. SharedUsesShared'
  BY DEF SharingInv, SharedUsesShared
<1> QED BY <1>1, <1>2, SharingStays

\* A row that no other row refers to is deleted.
LEMMA SharingErase ==
  ASSUME Inv, SharingInv, NEW w \in Workers, Others(w), Remembers(worker[w])',
         NEW x \in live, Erase(x),
         \A g \in Groups \cap live : l2_policy_id[g] # x,
         \A l \in L2s \cap live : l3_policy_id[l] # x
  PROVE  SharingInv'
<1>1. SharedUsesShared'
  BY Known DEF Erase, SharingInv, SharedUsesShared
<1> QED BY <1>1, EraseDisturbsNobody, SharingStays

\* The requests that create a row.
NewGroup(w, g, l2, isShared) ==
  /\ Insert(g, isShared)
  /\ l2 # None => Touchable(l2) /\ Linkable(isShared, l2)
  /\ l2_policy_id' = [l2_policy_id EXCEPT ![g] = l2]
  /\ UNCHANGED <<default, owned, l3_policy_id>>
  /\ Others(w) /\ worker[w].pc = "idle"
  /\ l2 # None => worker'[w] = worker[w]
  /\ l2 = None =>
       worker'[w] = [Idle EXCEPT !.op = "create_group", !.pc = "l2_txn",
                                 !.group = g, !.isShared = isShared]

LEMMA CreateGroupFacts ==
  ASSUME Inv, NEW w \in Workers, CreatePolicyTargetGroup(w)
  PROVE  \E g \in Fresh(Groups), l2 \in L2s \cup {None}, isShared \in BOOLEAN :
           NewGroup(w, g, l2, isShared)
<1>1. \A isShared \in Flags : isShared \in BOOLEAN
  BY ImplicitPolicyAssumption
<1>2. worker \in [Workers -> WorkerTypes]
  BY InvParts
<1>3. PICK g \in Fresh(Groups), l2 \in L2s \cup {None}, isShared \in Flags :
        /\ l2 # None => Touchable(l2) /\ Linkable(isShared, l2)
        /\ Insert(g, isShared)
        /\ l2_policy_id' = [l2_policy_id EXCEPT ![g] = l2]
        /\ worker' = IF l2 # None THEN worker ELSE
             [worker EXCEPT ![w] = [Idle EXCEPT !.op = "create_group", !.pc = "l2_txn",
                                                !.group = g, !.isShared = isShared]]
  BY DEF CreatePolicyTargetGroup
<1>4. Others(w) /\ (l2 # None => worker'[w] = worker[w])
      /\ (l2 = None => worker'[w] = [Idle EXCEPT !.op = "create_group", !.pc = "l2_txn",
                                                 !.group = g, !.isShared = isShared])
  BY <1>2, <1>3 DEF Others
<1>5. UNCHANGED <<default, owned, l3_policy_id>> /\ worker[w].pc = "idle"
  BY DEF CreatePolicyTargetGroup, Accept, At
<1> QED BY <1>1, <1>3, <1>4, <1>5 DEF NewGroup

NewL2(w, l2, l3, isShared) ==
  /\ Insert(l2, isShared)
  /\ l3 # None => Linkable(isShared, l3)
  /\ l3_policy_id' = [l3_policy_id EXCEPT ![l2] = l3]
  /\ UNCHANGED <<default, owned, l2_policy_id>>
  /\ Others(w) /\ worker[w].pc = "idle"
  /\ l3 # None => worker'[w] = worker[w]
  /\ l3 = None =>
       worker'[w] = [Idle EXCEPT !.op = "create_l2", !.pc = "l3_find",
                                 !.l2 = l2, !.isShared = isShared]

LEMMA CreateL2Facts ==
  ASSUME Inv, NEW w \in Workers, CreateL2Policy(w)
  PROVE  \E l2 \in Fresh(L2s), l3 \in L3s \cup {None}, isShared \in BOOLEAN :
           NewL2(w, l2, l3, isShared)
<1>1. \A isShared \in Flags : isShared \in BOOLEAN
  BY ImplicitPolicyAssumption
<1>2. worker \in [Workers -> WorkerTypes]
  BY InvParts
<1>3. PICK l2 \in Fresh(L2s), l3 \in L3s \cup {None}, isShared \in Flags :
        /\ l3 # None => Linkable(isShared, l3)
        /\ Insert(l2, isShared)
        /\ l3_policy_id' = [l3_policy_id EXCEPT ![l2] = l3]
        /\ worker' = IF l3 # None THEN worker ELSE
             [worker EXCEPT ![w] = [Idle EXCEPT !.op = "create_l2", !.pc = "l3_find",
                                                !.l2 = l2, !.isShared = isShared]]
  BY DEF CreateL2Policy
<1>4. Others(w) /\ (l3 # None => worker'[w] = worker[w])
      /\ (l3 = None => worker'[w] = [Idle EXCEPT !.op = "create_l2", !.pc = "l3_find",
                                                 !.l2 = l2, !.isShared = isShared])
  BY <1>2, <1>3 DEF Others
<1>5. UNCHANGED <<default, owned, l2_policy_id>> /\ worker[w].pc = "idle"
  BY DEF CreateL2Policy, Accept, At
<1> QED BY <1>1, <1>3, <1>4, <1>5 DEF NewL2

\* The transaction that deletes an L2 policy.
LEMMA DeleteL2Facts ==
  ASSUME Inv, NEW w \in Workers, NEW op \in Operations \cup {"none"}, NEW l2 \in L2s,
         NEW next \in {"idle", "group_read"}, DeleteL2Row(w, op, l2, next)
  PROVE  /\ l2 \in live /\ GroupsOf(l2) = {} /\ Erase(l2) /\ Others(w)
         /\ worker'[w].op = op /\ worker'[w].pc = "l3_cleanup"
         /\ worker'[w].group = worker[w].group /\ worker'[w].l2 = None
         /\ worker'[w].l3 = l3_policy_id[l2]
         /\ worker'[w].isShared = worker[w].isShared /\ worker'[w].then = next
         /\ \A g \in Groups \cap live : l2_policy_id[g] # l2
         /\ \A l \in L2s \cap live : l3_policy_id[l] # l2
<1>1. worker \in [Workers -> WorkerTypes]
  BY InvParts
<1>2. l2 \in live /\ GroupsOf(l2) = {} /\ Erase(l2)
      /\ worker' = [worker EXCEPT ![w] =
           [@ EXCEPT !.op = op, !.pc = "l3_cleanup", !.l2 = None, !.l3 = l3_policy_id[l2],
                     !.then = next]]
  BY DEF DeleteL2Row
<1>3. \A g \in Groups \cap live : l2_policy_id[g] # l2
  BY <1>2 DEF GroupsOf
<1>4. \A l \in L2s \cap live : l3_policy_id[l] # l2
  BY Known
<1> QED BY <1>1, <1>2, <1>3, <1>4 DEF Others, WorkerTypes

--------------------
(* Sharing is closed under requests *)

LEMMA CreateGroupShares ==
  ASSUME Inv, SharingInv, NEW w \in Workers, CreatePolicyTargetGroup(w)
  PROVE  SharingInv'
<1>1. PICK g \in Fresh(Groups), l2 \in L2s \cup {None}, isShared \in BOOLEAN :
        NewGroup(w, g, l2, isShared)
  BY CreateGroupFacts
<1> USE <1>1 DEF NewGroup
<1>2. g \in Groups /\ g \notin live /\ g \notin shared /\ g \notin L2s
  BY Known, FreshFacts
<1>3. \A v \in Workers : Undisturbed(worker[v])
  BY <1>1, InsertDisturbsNobody
<1>4. SharedUsesShared'
  BY <1>1, <1>2, Known DEF SharingInv, SharedUsesShared, Insert, Linkable
<1>5. Remembers(worker[w])'
  <2>1. CASE l2 # None
    BY <1>1, <1>3, <2>1, OthersRemember DEF SharingInv
  <2>2. CASE l2 = None
    <3>1. g \in shared' => isShared
      BY <1>1, <1>2 DEF Insert
    <3> QED BY <1>1, <2>2, <3>1 DEF Remembers, LinksL2, Idle
  <2> QED BY <2>1, <2>2
<1> QED BY <1>1, <1>3, <1>4, <1>5, SharingStays

LEMMA CreateL2Shares ==
  ASSUME Inv, SharingInv, NEW w \in Workers, CreateL2Policy(w)
  PROVE  SharingInv'
<1>1. PICK l2 \in Fresh(L2s), l3 \in L3s \cup {None}, isShared \in BOOLEAN :
        NewL2(w, l2, l3, isShared)
  BY CreateL2Facts
<1> USE <1>1 DEF NewL2
<1>2. l2 \in L2s /\ l2 \notin live /\ l2 \notin shared /\ l2 \notin Groups
  BY Known, FreshFacts
<1>3. \A v \in Workers : Undisturbed(worker[v])
  BY <1>1, InsertDisturbsNobody
<1>4. SharedUsesShared'
  BY <1>1, <1>2, Known DEF SharingInv, SharedUsesShared, Insert, Linkable
<1>5. Remembers(worker[w])'
  <2>1. CASE l3 # None
    BY <1>1, <1>3, <2>1, OthersRemember DEF SharingInv
  <2>2. CASE l3 = None
    <3>1. l2 \in shared' => isShared
      BY <1>1, <1>2 DEF Insert
    <3> QED BY <1>1, <2>2, <3>1 DEF Remembers, LinksL2, Idle
  <2> QED BY <2>1, <2>2
<1> QED BY <1>1, <1>3, <1>4, <1>5, SharingStays

LEMMA UpdateShares ==
  ASSUME Inv, SharingInv, NEW w \in Workers, UpdatePolicyTargetGroup(w) \/ UpdateL2Policy(w)
  PROVE  SharingInv'
<1>1. CASE UpdatePolicyTargetGroup(w)
  <2>1. PICK g \in Groups \cap live, l2 \in L2s :
          Linkable(g \in shared, l2) /\ l2_policy_id' = [l2_policy_id EXCEPT ![g] = l2]
    BY <1>1 DEF UpdatePolicyTargetGroup
  <2>2. UNCHANGED <<live, shared, l3_policy_id, worker>>
    BY <1>1 DEF UpdatePolicyTargetGroup
  <2>3. SharedUsesShared'
    BY <2>1, <2>2, Known DEF SharingInv, SharedUsesShared, Linkable
  <2>4. \A v \in Workers : Undisturbed(worker[v])
    BY <2>2 DEF Undisturbed
  <2>5. Remembers(worker[w])'
    BY <2>2, <2>4, OthersRemember DEF SharingInv
  <2> QED BY <2>2, <2>3, <2>4, <2>5, SharingStays DEF Others
<1>2. CASE UpdateL2Policy(w)
  <2>1. PICK l2 \in L2s \cap live, l3 \in L3s \cup {None} :
          /\ l3 # None => Linkable(l2 \in shared, l3)
          /\ l3_policy_id' = [l3_policy_id EXCEPT ![l2] = l3]
          /\ worker' = [worker EXCEPT ![w] =
               [Idle EXCEPT !.op = "update_l2", !.pc = "l3_cleanup", !.l2 = l2,
                            !.l3 = l3_policy_id[l2], !.isShared = l2 \in shared,
                            !.then = IF l3 = None THEN "l3_find" ELSE "idle"]]
    BY <1>2 DEF UpdateL2Policy
  <2>2. UNCHANGED <<live, shared, l2_policy_id>>
    BY <1>2 DEF UpdateL2Policy
  <2>3. SharedUsesShared'
    BY <2>1, <2>2, Known DEF SharingInv, SharedUsesShared, Linkable
  <2>4. Others(w) /\ \A v \in Workers : Undisturbed(worker[v])
    BY <2>1, <2>2 DEF Undisturbed, Others
  <2>5. worker'[w].pc = "l3_cleanup" /\ worker'[w].op = "update_l2" /\ worker'[w].l2 = l2
        /\ worker'[w].isShared = (l2 \in shared)
    BY <2>1, InvParts DEF Idle
  <2>6. Remembers(worker[w])'
    BY <2>2, <2>5 DEF Remembers
  <2> QED BY <2>3, <2>4, <2>6, SharingStays
<1> QED BY <1>1, <1>2

--------------------
(* ... and under the rest of the steps *)

LEMMA EndShares ==
  ASSUME Inv, SharingInv, NEW w \in Workers, End(w),
         UNCHANGED <<live, shared, l2_policy_id, l3_policy_id>>
  PROVE  SharingInv'
<1>1. Others(w) /\ worker'[w] = Idle
  BY EndFacts
<1>2. Remembers(worker[w])'
  BY <1>1, Known DEF Remembers, LinksL2, Idle
<1> QED BY <1>1, <1>2, SharingMoves

LEMMA FailShares ==
  ASSUME Inv, SharingInv, NEW w \in Workers, Fail(w),
         worker[w].pc \notin {"l3_cleanup", "l3_delete"},
         UNCHANGED <<live, shared, l2_policy_id, l3_policy_id>>
  PROVE  SharingInv'
<1> DEFINE q == worker[w]
           r == worker'[w]
<1>1. Others(w) /\ HasFailed(q, r)
  BY FailFacts
<1>2. r = Idle \/ (r.pc \in {"group_read", "l2_undo"} /\ On(q, r, r.pc))
  BY <1>1 DEF HasFailed, On
<1>3. Remembers(q)
  BY DEF SharingInv
<1>4. q.pc \notin {"l3_cleanup", "l3_delete"}
  OBVIOUS
<1>5. Remembers(worker[w])'
  <2>1. CASE r = Idle
    BY <2>1, Known DEF Remembers, LinksL2, Idle
  <2>2. CASE r.pc \in {"group_read", "l2_undo"} /\ On(q, r, r.pc)
    <3> HIDE DEF q, r
    <3>1. /\ r.op = "create_group" /\ r.group \in shared' => r.isShared
          /\ LinksL2(r) /\ r.l2 \in shared' => r.isShared
          /\ r.then # "l3_find"
      BY <1>3, <1>4, <2>2 DEF Remembers, On, LinksL2
    <3> QED BY <2>2, <3>1 DEF Remembers, r, LinksL2
  <2> QED BY <1>2, <2>1, <2>2
<1> QED BY <1>1, <1>5, SharingMoves

\* Steps after which the worker remembers no more than before.
Forgetful == {"l3_find", "l3_txn", "l3_refind", "l3_check"}
Resting == {"group_read", "group_delete", "l2_cleanup", "l2_delete", "l3_cleanup", "l3_delete"}

LEMMA GotoRemembers ==
  ASSUME NEW q, NEW r, NEW pc, On(q, r, pc), UNCHANGED <<live, shared>>, Remembers(q),
         q.pc = "l3_cleanup" => pc = "l3_delete", q.pc # "l3_delete",
         pc \in Resting \/ (pc \in Forgetful /\ LinksL2(q))
  PROVE  /\ r.pc \in {"l2_txn", "l2_own", "l2_check", "l2_set"} => r.op = "create_group"
         /\ r.op = "create_group" /\ r.group \in shared' => r.isShared
         /\ LinksL2(r) /\ r.l2 \in shared' => r.isShared
         /\ r.pc \notin {"l3_own", "l3_set", "l2_set"}
         /\ r.then = "l3_find" => r.pc \in {"l3_cleanup", "l3_delete"}
BY DEF On, Remembers, LinksL2, Forgetful, Resting

LEMMA GotoShares ==
  ASSUME Inv, SharingInv, NEW w \in Workers, NEW pc, Goto(w, pc),
         worker[w].pc = "l3_cleanup" => pc = "l3_delete", worker[w].pc # "l3_delete",
         pc \in Resting \/ (pc \in Forgetful /\ LinksL2(worker[w])),
         UNCHANGED <<live, shared, l2_policy_id, l3_policy_id>>
  PROVE  SharingInv'
<1>1. Others(w) /\ On(worker[w], worker'[w], pc)
  BY GotoFacts
<1>2. Remembers(worker[w])
  BY DEF SharingInv
<1>3. Remembers(worker[w])'
  BY <1>1, <1>2, GotoRemembers DEF Remembers, LinksL2
<1> QED BY <1>1, <1>3, SharingMoves

LEMMA ResumeShares ==
  ASSUME Inv, SharingInv, NEW w \in Workers, Resume(w)
  PROVE  Others(w) /\ (live' \subseteq live /\ shared' \subseteq shared => Remembers(worker[w])')
<1> DEFINE q == worker[w]
           r == worker'[w]
<1>1. Others(w) /\ HasResumed(q, r)
  BY ResumeFacts
<1>2. Remembers(q) /\ q.then \in {"idle", "l3_find", "group_read"} /\ None \notin live
  BY Known DEF SharingInv, WorkerTypes
<1>3. CASE q.then = "idle"
  BY <1>1, <1>2, <1>3, Known DEF HasResumed, Remembers, LinksL2, Idle
<1>4. ASSUME q.then # "idle", live' \subseteq live, shared' \subseteq shared
      PROVE  Remembers(worker[w])'
  <2> HIDE DEF q, r
  <2>1. r.pc \in {"l3_find", "group_read"} /\ r.then = "idle" /\ r.op = q.op
        /\ r.group = q.group /\ r.l2 = q.l2 /\ r.isShared = q.isShared
        /\ (r.pc = "l3_find" => q.then = "l3_find")
    BY <1>1, <1>2, <1>4 DEF HasResumed
  <2>2. /\ r.op = "create_group" /\ r.group \in shared' => r.isShared
        /\ LinksL2(r) /\ r.l2 \in shared' => r.isShared
    BY <1>2, <1>4, <2>1 DEF Remembers, LinksL2
  <2> QED BY <2>1, <2>2 DEF Remembers, r, LinksL2
<1> QED BY <1>1, <1>3, <1>4

LEMMA DeleteGroupShares ==
  ASSUME Inv, SharingInv, NEW w \in Workers, DeletePolicyTargetGroup(w)
  PROVE  SharingInv'
<1>1. UNCHANGED rows
  BY DEF DeletePolicyTargetGroup
<1>2. Others(w) /\ worker'[w].pc = "group_read" /\ worker'[w].op = "delete_group"
      /\ worker'[w].l2 = None /\ worker'[w].then = "idle"
  BY InvParts DEF DeletePolicyTargetGroup, Others, Idle
<1>3. Remembers(worker[w])'
  BY <1>2 DEF Remembers, LinksL2
<1> QED BY <1>1, <1>2, <1>3, SharingMoves DEF rows

LEMMA L3RequestShares ==
  ASSUME Inv, SharingInv, NEW w \in Workers,
         CreateL3Policy(w) \/ RenameL3Policy(w) \/ DeleteL3Policy(w)
  PROVE  SharingInv'
<1>1. Others(w) /\ worker'[w] = worker[w]
  BY DEF CreateL3Policy, RenameL3Policy, DeleteL3Policy, Others
<1>2. Remembers(worker[w])
  BY DEF SharingInv
<1>3. CASE CreateL3Policy(w)
  <2>1. PICK l3 \in Fresh(L3s), isShared \in Flags : Insert(l3, isShared)
    BY <1>3 DEF CreateL3Policy
  <2>2. UNCHANGED <<l2_policy_id, l3_policy_id>> /\ shared \subseteq shared' /\ live \subseteq live'
    BY <1>3, <2>1 DEF CreateL3Policy, Insert
  <2>3. \A v \in Workers : Undisturbed(worker[v])
    BY <2>1, InsertDisturbsNobody
  <2>4. l3 \notin Groups \cup L2s
    BY <2>1, Known, FreshFacts
  <2>5. SharedUsesShared'
    BY <2>1, <2>2, <2>4 DEF SharingInv, SharedUsesShared, Insert
  <2>6. Remembers(worker[w])'
    BY <1>1, <1>2, <2>3, OthersRemember
  <2> QED BY <1>1, <2>3, <2>5, <2>6, SharingStays
<1>4. CASE RenameL3Policy(w)
  <2>1. UNCHANGED <<live, shared, l2_policy_id, l3_policy_id>>
    BY <1>4 DEF RenameL3Policy
  <2>2. Remembers(worker[w])'
    BY <1>1, <1>2, <2>1 DEF Remembers, LinksL2
  <2> QED BY <1>1, <2>1, <2>2, SharingMoves
<1>5. CASE DeleteL3Policy(w)
  <2>1. PICK l3 \in L3s \cap live : L2sOf(l3) = {} /\ Erase(l3)
    BY <1>5 DEF DeleteL3Policy
  <2>2. /\ \A g \in Groups \cap live : l2_policy_id[g] # l3
        /\ \A l \in L2s \cap live : l3_policy_id[l] # l3
    BY <2>1, Known DEF L2sOf
  <2>3. Remembers(worker[w])'
    BY <1>1, <1>2, <2>1, EraseDisturbsNobody, OthersRemember
  <2> QED BY <1>1, <2>1, <2>2, <2>3, SharingErase
<1> QED BY <1>3, <1>4, <1>5

LEMMA DeleteL2Shares ==
  ASSUME Inv, SharingInv, NEW w \in Workers, NEW op \in Operations \cup {"none"},
         NEW l2 \in L2s, NEW next \in {"idle", "group_read"},
         DeleteL2Row(w, op, l2, next),
         op = worker[w].op \/ op = "delete_l2"
  PROVE  SharingInv'
<1> DEFINE q == worker[w]
           r == worker'[w]
<1>1. /\ l2 \in live /\ Erase(l2) /\ Others(w)
      /\ r.op = op /\ r.pc = "l3_cleanup" /\ r.group = q.group /\ r.l2 = None
      /\ r.isShared = q.isShared /\ r.then = next
  BY DeleteL2Facts
<1>2. /\ \A g \in Groups \cap live : l2_policy_id[g] # l2
      /\ \A l \in L2s \cap live : l3_policy_id[l] # l2
  BY DeleteL2Facts
<1>3. r.op = "create_group" /\ r.group \in shared' => r.isShared
  BY <1>1 DEF SharingInv, Remembers, Erase
<1>4. Remembers(worker[w])'
  BY <1>1, <1>3 DEF Remembers, LinksL2
<1> QED BY <1>1, <1>2, <1>4, SharingErase

LEMMA DeletionsOfL2Share ==
  ASSUME Inv, SharingInv, NEW w \in Workers, DeleteL2Policy(w) \/ UndoL2(w) \/ DeleteOwnedL2(w)
  PROVE  SharingInv'
<1>1. CASE DeleteL2Policy(w)
  BY <1>1, DeleteL2Shares DEF DeleteL2Policy, Operations
<1>2. /\ worker[w].l2 \in live => worker[w].l2 \in L2s
      /\ worker[w].op \in Operations \cup {"none"}
  BY Known DEF WorkerTypes
<1>3. CASE UndoL2(w)
  <2> DEFINE next == IF worker[w].op = "create_group" THEN "group_read" ELSE "idle"
  <2>1. CASE DeleteL2Row(w, worker[w].op, worker[w].l2, next)
    BY <1>2, <2>1, DeleteL2Shares DEF DeleteL2Row
  <2>2. CASE UNCHANGED rows /\ (End(w) \/ Goto(w, "group_read"))
    BY <1>3, <2>2, EndShares, GotoShares DEF rows, Resting, UndoL2, At
  <2> QED BY <1>3, <2>1, <2>2 DEF UndoL2
<1>4. CASE DeleteOwnedL2(w)
  <2>1. CASE DeleteL2Row(w, worker[w].op, worker[w].l2, "idle")
    BY <1>2, <2>1, DeleteL2Shares DEF DeleteL2Row
  <2>2. CASE UNCHANGED rows /\ End(w)
    BY <2>2, EndShares DEF rows
  <2> QED BY <1>4, <2>1, <2>2 DEF DeleteOwnedL2
<1> QED BY <1>1, <1>3, <1>4

\* A worker that reads its group or whose request is done with an L3 policy.
LEMMA CleanupShares ==
  ASSUME Inv, SharingInv, NEW w \in Workers,
         ReadGroup(w) \/ DeleteGroupRow(w) \/ CleanupL2(w) \/ CleanupL3(w)
  PROVE  SharingInv'
<1> DEFINE q == worker[w]
           r == worker'[w]
<1>1. Remembers(q) /\ worker \in [Workers -> WorkerTypes]
  BY InvParts DEF SharingInv
<1>2. CASE ReadGroup(w)
  <2>1. CASE worker[w].group \in live
    <3>1. UNCHANGED rows /\ Others(w)
      BY <1>1, <1>2, <2>1 DEF ReadGroup, Others
    <3>2. r.pc = "group_delete" /\ r.op = q.op /\ r.group = q.group /\ r.then = q.then
          /\ r.isShared = q.isShared
      BY <1>1, <1>2, <2>1 DEF ReadGroup, WorkerTypes
    <3>3. q.pc = "group_read"
      BY <1>2 DEF ReadGroup, At
    <3>4. Remembers(worker[w])'
      BY <1>1, <3>1, <3>2, <3>3 DEF Remembers, LinksL2, rows
    <3> QED BY <3>1, <3>4, SharingMoves DEF rows
  <2>2. CASE worker[w].group \notin live
    BY <1>2, <2>2, EndShares DEF ReadGroup, rows
  <2> QED BY <2>1, <2>2
<1>3. CASE DeleteGroupRow(w)
  <2>1. CASE worker[w].group \in live /\ Erase(worker[w].group) /\ Goto(w, "l2_cleanup")
    <3>1. Others(w) /\ On(q, r, "l2_cleanup")
      BY <2>1, GotoFacts
    <3>2. /\ \A g \in Groups \cap live : l2_policy_id[g] # q.group
          /\ \A l \in L2s \cap live : l3_policy_id[l] # q.group
      BY <1>1, <2>1, Known DEF WorkerTypes
    <3>3. q.pc = "group_delete"
      BY <1>3 DEF DeleteGroupRow, At
    <3>4. Remembers(worker[w])'
      BY <1>1, <2>1, <3>1, <3>3 DEF Remembers, LinksL2, On, Erase
    <3> QED BY <2>1, <3>1, <3>2, <3>4, SharingErase
  <2>2. CASE End(w) /\ UNCHANGED rows
    BY <2>2, EndShares DEF rows
  <2> QED BY <1>3, <2>1, <2>2 DEF DeleteGroupRow
<1>4. CASE CleanupL2(w)
  BY <1>4, EndShares, GotoShares DEF CleanupL2, At, rows, Resting
<1>5. CASE CleanupL3(w)
  <2>1. CASE Goto(w, "l3_delete") /\ UNCHANGED rows
    BY <1>5, <2>1, GotoShares DEF CleanupL3, At, rows, Resting
  <2>2. CASE Resume(w) /\ UNCHANGED rows
    BY <2>2, ResumeShares, SharingMoves DEF rows
  <2> QED BY <1>5, <2>1, <2>2 DEF CleanupL3
<1> QED BY <1>2, <1>3, <1>4, <1>5

LEMMA DeleteOwnedL3Shares ==
  ASSUME Inv, SharingInv, NEW w \in Workers, DeleteOwnedL3(w)
  PROVE  SharingInv'
<1> DEFINE l3 == worker[w].l3
<1>1. CASE l3 \in live /\ L2sOf(l3) = {} /\ Erase(l3) /\ Resume(w)
  <2>1. /\ \A g \in Groups \cap live : l2_policy_id[g] # l3
        /\ \A l \in L2s \cap live : l3_policy_id[l] # l3
    BY <1>1, Known DEF L2sOf, WorkerTypes
  <2>2. Others(w) /\ Remembers(worker[w])'
    BY <1>1, ResumeShares DEF Erase
  <2> QED BY <1>1, <2>1, <2>2, SharingErase
<1>2. CASE Resume(w) /\ UNCHANGED rows
  BY <1>2, ResumeShares, SharingMoves DEF rows
<1>3. CASE End(w) /\ UNCHANGED rows
  BY <1>3, EndShares DEF rows
<1> QED BY <1>1, <1>2, <1>3 DEF DeleteOwnedL3

\* The default L3 policy is found or created.
LEMMA DefaultShares ==
  ASSUME Inv, SharingInv, NEW w \in Workers, FindDefault(w) \/ CreateDefault(w)
  PROVE  SharingInv'
<1> DEFINE q == worker[w]
           r == worker'[w]
<1>1. Remembers(q) /\ worker \in [Workers -> WorkerTypes]
  BY InvParts DEF SharingInv
<1>2. q.pc # "l3_cleanup" /\ q.pc # "l3_delete" /\ LinksL2(q)
  BY DEF FindDefault, CreateDefault, At, LinksL2
<1>3. ASSUME NEW pc \in {"l3_check", "l3_own"}, NEW l3,
             worker' = [worker EXCEPT ![w].pc = pc, ![w].l3 = l3]
      PROVE  /\ Others(w) /\ r.pc = pc /\ r.op = q.op /\ r.group = q.group /\ r.then = q.then
             /\ r.isShared = q.isShared /\ r.l2 = q.l2 /\ r.l3 = l3
  BY <1>1, <1>3 DEF Others, WorkerTypes
<1>4. ASSUME NEW pc \in {"l3_check", "l3_own"}, NEW l3,
             worker' = [worker EXCEPT ![w].pc = pc, ![w].l3 = l3],
             q.group \in shared' => q.group \in shared,
             q.l2 \in shared' => q.l2 \in shared,
             pc = "l3_own" /\ q.isShared => l3 \in shared'
      PROVE  Remembers(worker[w])'
  BY <1>1, <1>2, <1>3, <1>4 DEF Remembers, LinksL2
<1>5. CASE FindDefault(w)
  <2>1. CASE \E l3 \in default : worker' = [worker EXCEPT ![w].pc = "l3_check", ![w].l3 = l3]
    <3>1. PICK l3 \in default : worker' = [worker EXCEPT ![w].pc = "l3_check", ![w].l3 = l3]
      BY <2>1
    <3>2. UNCHANGED rows
      BY <1>5 DEF FindDefault
    <3>3. Others(w) /\ Remembers(worker[w])'
      BY <1>3, <1>4, <3>1, <3>2 DEF rows
    <3> QED BY <3>2, <3>3, SharingMoves DEF rows
  <2>2. CASE Goto(w, "l3_txn")
    BY <1>2, <1>5, <2>2, GotoShares DEF FindDefault, rows, Forgetful
  <2>3. CASE Fail(w)
    BY <1>2, <1>5, <2>3, FailShares DEF FindDefault, rows
  <2> QED BY <1>5, <2>1, <2>2, <2>3 DEF FindDefault
<1>6. CASE CreateDefault(w)
  <2>1. CASE Goto(w, "l3_refind") /\ UNCHANGED rows
    BY <1>2, <2>1, GotoShares DEF rows, Forgetful
  <2>2. ASSUME NEW l3 \in Fresh(L3s), Insert(l3, worker[w].isShared),
               worker' = [worker EXCEPT ![w].pc = "l3_own", ![w].l3 = l3],
               UNCHANGED <<l2_policy_id, l3_policy_id>>
        PROVE  SharingInv'
    <3>1. l3 \notin live /\ l3 \notin Groups \cup L2s /\ l3 # q.group /\ l3 # q.l2
      BY Known, FreshFacts
    <3>2. \A v \in Workers : Undisturbed(worker[v])
      BY <2>2, InsertDisturbsNobody
    <3>3. SharedUsesShared'
      BY <2>2, <3>1 DEF SharingInv, SharedUsesShared, Insert
    <3>4. /\ q.group \in shared' => q.group \in shared
          /\ q.l2 \in shared' => q.l2 \in shared
          /\ q.isShared => l3 \in shared'
      BY <2>2, <3>1 DEF Insert
    <3>5. Others(w) /\ Remembers(worker[w])'
      BY <1>3, <1>4, <2>2, <3>4
    <3> QED BY <3>2, <3>3, <3>5, SharingStays
  <2> QED BY <1>6, <2>1, <2>2 DEF CreateDefault
<1> QED BY <1>5, <1>6

LEMMA CreateImplicitL2Shares ==
  ASSUME Inv, SharingInv, NEW w \in Workers, CreateImplicitL2(w)
  PROVE  SharingInv'
<1> DEFINE q == worker[w]
           r == worker'[w]
<1>1. Remembers(q) /\ worker \in [Workers -> WorkerTypes] /\ q.pc = "l2_txn"
  BY InvParts DEF SharingInv, CreateImplicitL2, At
<1>2. PICK l2 \in Fresh(L2s) :
        /\ Insert(l2, q.isShared)
        /\ worker' = [worker EXCEPT ![w].pc = "l3_find", ![w].l2 = l2]
  BY DEF CreateImplicitL2
<1>3. UNCHANGED <<l2_policy_id, l3_policy_id>>
  BY DEF CreateImplicitL2
<1>4. Others(w) /\ r.pc = "l3_find" /\ r.op = q.op /\ r.group = q.group /\ r.then = q.then
      /\ r.isShared = q.isShared /\ r.l2 = l2
  BY <1>1, <1>2 DEF Others, WorkerTypes
<1>5. l2 \in L2s /\ l2 \notin live /\ l2 \notin shared /\ l2 \notin Groups /\ l2 # q.group
      /\ l3_policy_id[l2] = None
  BY Known, FreshFacts
<1>6. \A v \in Workers : Undisturbed(worker[v])
  BY <1>2, InsertDisturbsNobody
<1>7. SharedUsesShared'
  BY <1>2, <1>3, <1>5 DEF SharingInv, SharedUsesShared, Insert
<1>8. r.l2 \in shared' => r.isShared
  BY <1>2, <1>4, <1>5 DEF Insert
<1>9. r.group \in shared' => r.isShared
  BY <1>1, <1>2, <1>4, <1>5 DEF Insert, Remembers
<1>10. Remembers(worker[w])'
  BY <1>1, <1>4, <1>8, <1>9 DEF Remembers, LinksL2
<1> QED BY <1>4, <1>6, <1>7, <1>10, SharingStays

LEMMA MarkShares ==
  ASSUME Inv, SharingInv, NEW w \in Workers, MarkL3Owned(w) \/ MarkL2Owned(w)
  PROVE  SharingInv'
<1> DEFINE q == worker[w]
           r == worker'[w]
<1>1. Remembers(q) /\ q.pc \in {"l3_own", "l2_own"}
      /\ UNCHANGED <<live, shared, l2_policy_id, l3_policy_id>>
  BY DEF SharingInv, MarkL3Owned, MarkL2Owned, MarkOwned, At
<1>2. CASE Fail(w)
  BY <1>1, <1>2, FailShares
<1>3. CASE MarkL3Owned(w) /\ Goto(w, "l3_check")
  BY <1>1, <1>3, GotoShares DEF MarkL3Owned, MarkOwned, At, Forgetful, LinksL2
<1>4. CASE MarkL2Owned(w) /\ Goto(w, "l2_check")
  <2>1. Others(w) /\ On(q, r, "l2_check") /\ q.pc = "l2_own"
    BY <1>4, GotoFacts DEF MarkL2Owned, MarkOwned, At
  <2>2. Remembers(worker[w])'
    BY <1>1, <2>1 DEF Remembers, LinksL2, On
  <2> QED BY <1>1, <2>1, <2>2, SharingMoves
<1> QED BY <1>2, <1>3, <1>4 DEF MarkL3Owned, MarkL2Owned, MarkOwned

LEMMA CheckShares ==
  ASSUME Inv, SharingInv, NEW w \in Workers, CheckL3(w) \/ CheckL2(w)
  PROVE  SharingInv'
<1> DEFINE q == worker[w]
           r == worker'[w]
<1>1. Remembers(q) /\ q.pc \in {"l3_check", "l2_check"}
      /\ UNCHANGED <<live, shared, l2_policy_id, l3_policy_id>>
  BY DEF SharingInv, CheckL3, CheckL2, At, rows
<1>2. CASE Fail(w)
  BY <1>1, <1>2, FailShares
<1>3. CASE CheckL3(w) /\ Linkable(q.isShared, q.l3) /\ Goto(w, "l3_set")
  <2>1. Others(w) /\ On(q, r, "l3_set") /\ q.pc = "l3_check"
    BY <1>3, GotoFacts DEF CheckL3, At
  <2>2. Remembers(worker[w])'
    BY <1>1, <1>3, <2>1 DEF Remembers, LinksL2, On, Linkable
  <2> QED BY <1>1, <2>1, <2>2, SharingMoves
<1>4. CASE CheckL2(w) /\ Linkable(q.isShared, q.l2) /\ Goto(w, "l2_set")
  <2>1. Others(w) /\ On(q, r, "l2_set") /\ q.pc = "l2_check"
    BY <1>4, GotoFacts DEF CheckL2, At
  <2>2. Remembers(worker[w])'
    BY <1>1, <1>4, <2>1 DEF Remembers, LinksL2, On, Linkable
  <2> QED BY <1>1, <2>1, <2>2, SharingMoves
<1> QED BY <1>2, <1>3, <1>4 DEF CheckL3, CheckL2

\* What was looked up in an earlier transaction still holds.
LEMMA SetShares ==
  ASSUME Inv, SharingInv, NEW w \in Workers, SetL3(w) \/ SetL2(w)
  PROVE  SharingInv'
<1> DEFINE q == worker[w]
           r == worker'[w]
<1>1. Remembers(q) /\ q.pc \in {"l3_set", "l2_set"} /\ UNCHANGED <<live, shared>>
      /\ \A v \in Workers : Undisturbed(worker[v])
  BY DEF SharingInv, SetL3, SetL2, At, Undisturbed
<1>2. CASE SetL3(w)
  <2>1. UNCHANGED l2_policy_id /\ q.pc = "l3_set" /\ LinksL2(q)
    BY <1>2 DEF SetL3, At, LinksL2
  <2>2. CASE {q.l2, q.l3} \subseteq live
    <3>1. /\ l3_policy_id' = [l3_policy_id EXCEPT ![q.l2] = q.l3]
          /\ IF q.op = "create_group" THEN Goto(w, "l2_own") ELSE End(w)
      BY <1>2, <2>2 DEF SetL3
    <3>2. q.l2 \in shared => q.l3 \in shared
      BY <1>1, <2>1, <2>2 DEF Remembers
    <3>3. SharedUsesShared'
      BY <1>1, <2>1, <3>1, <3>2, Known DEF SharingInv, SharedUsesShared
    <3>4. CASE q.op = "create_group" /\ Goto(w, "l2_own")
      <4>1. Others(w) /\ On(q, r, "l2_own")
        BY <3>4, GotoFacts
      <4>2. Remembers(worker[w])'
        BY <1>1, <2>1, <3>4, <4>1 DEF Remembers, LinksL2, On
      <4> QED BY <1>1, <3>3, <4>1, <4>2, SharingStays
    <3>5. CASE End(w)
      <4>1. Others(w) /\ r = Idle
        BY <3>5, EndFacts
      <4>2. Remembers(worker[w])'
        BY <4>1, Known DEF Remembers, LinksL2, Idle
      <4> QED BY <1>1, <3>3, <4>1, <4>2, SharingStays
    <3> QED BY <3>1, <3>4, <3>5
  <2>3. CASE ~({q.l2, q.l3} \subseteq live)
    BY <1>1, <1>2, <2>1, <2>3, FailShares DEF SetL3
  <2> QED BY <2>2, <2>3
<1>3. CASE SetL2(w)
  <2>1. UNCHANGED l3_policy_id /\ q.pc = "l2_set"
    BY <1>3 DEF SetL2, At
  <2>2. CASE {q.group, q.l2} \subseteq live
    <3>1. l2_policy_id' = [l2_policy_id EXCEPT ![q.group] = q.l2] /\ End(w)
      BY <1>3, <2>2 DEF SetL2
    <3>2. q.group \in shared => q.l2 \in shared
      BY <1>1, <2>1, <2>2 DEF Remembers
    <3>3. SharedUsesShared'
      BY <1>1, <2>1, <3>1, <3>2, Known DEF SharingInv, SharedUsesShared
    <3>4. Others(w) /\ r = Idle
      BY <3>1, EndFacts
    <3>5. Remembers(worker[w])'
      BY <3>4, Known DEF Remembers, LinksL2, Idle
    <3> QED BY <1>1, <3>3, <3>4, <3>5, SharingStays
  <2>3. CASE ~({q.group, q.l2} \subseteq live)
    BY <1>1, <1>3, <2>1, <2>3, FailShares DEF SetL2
  <2> QED BY <2>2, <2>3
<1> QED BY <1>2, <1>3

LEMMA SharingInit == Init => SharingInv
BY ImplicitPolicyAssumption DEF Init, SharingInv, SharedUsesShared, Remembers, LinksL2, Idle

LEMMA SharingNext ==
  ASSUME "share_l3" \notin Requests, Inv, SharingInv, [Next]_vars
  PROVE  SharingInv'
<1>1. CASE UNCHANGED vars
  BY <1>1 DEF vars, rows, SharingInv, SharedUsesShared, Remembers, LinksL2
<1>2. ASSUME NEW w \in Workers, Request(w) PROVE SharingInv'
  <2>1. ~ShareL3Policy(w)
    BY DEF ShareL3Policy, Accept
  <2> QED BY <1>2, <2>1, CreateGroupShares, UpdateShares, DeleteGroupShares, CreateL2Shares,
        DeletionsOfL2Share, L3RequestShares DEF Request
<1>3. ASSUME NEW w \in Workers, Work(w) PROVE SharingInv'
  BY <1>3, DefaultShares, MarkShares, CheckShares, SetShares, CreateImplicitL2Shares,
     DeletionsOfL2Share, CleanupShares, DeleteOwnedL3Shares DEF Work
<1> QED BY <1>1, <1>2, <1>3 DEF Next

\* A shared group uses a shared L2 policy and a shared L2 policy a shared L3
\* policy, although the driver looks at the sharing in one transaction and links
\* in a later one: what it has seen is reverted for L3 policies only.
THEOREM SharingIsClosed ==
  ASSUME "share_l3" \notin Requests
  PROVE  Spec => []SharedUsesShared
<1>1. Inv /\ SharingInv /\ [Next]_vars => SharingInv'
  BY SharingNext
<1>2. SharingInv => SharedUsesShared
  BY DEF SharingInv
<1> QED BY <1>1, <1>2, SharingInit, InvHolds, PTL DEF Spec

--------------------
(* Every row is owed its policy *)

\* The L2 policy of the worker has no L3 policy yet.
Unlinked == {"l3_find", "l3_txn", "l3_refind", "l3_own", "l3_check", "l3_set", "l2_undo"}

\* The worker has created its L2 policy, for a client or for its group.
Making(q) == q.pc \in Unlinked \cup {"l2_own", "l2_check", "l2_set"}

\* The group that is created has no L2 policy yet.
Ungrouped(q) == q.pc = "l2_txn" \/ (q.op = "create_group" /\ Making(q))

\* Operations and steps fit: who creates an L2 policy for a client works for no
\* group, and who returns to a group has failed to create it.
Fits(q) ==
  /\ q.op # "update_l2" /\ q.then # "l3_find"
  /\ q.pc \in {"l2_txn", "l2_own", "l2_check", "l2_set"} => q.op = "create_group"
  /\ Making(q) => q.op \in {"create_group", "create_l2"}
  /\ q.op = "create_l2" => q.group = None
  /\ q.then = "group_read" => q.op = "create_group" /\ q.pc \in {"l3_cleanup", "l3_delete"}
  /\ q.pc = "idle" => q.group = None

\* What a worker relies on: nobody else touches what it makes.
Relies(q) ==
  /\ Making(q) => /\ q.l2 \in L2s \cap live /\ GroupsOf(q.l2) = {}
                  /\ q.isShared => q.l2 \in shared
  /\ q.pc \in Unlinked => l3_policy_id[q.l2] = None
  /\ Ungrouped(q) => q.group \in Groups \cap live /\ l2_policy_id[q.group] = None
  /\ q.pc = "group_delete" /\ q.group \in live => q.l2 = l2_policy_id[q.group]

\* Workers keep off the rows of each other.
Apart(q, r) ==
  /\ q.group # None => r.group # q.group
  /\ Making(q) => r.l2 # q.l2

\* The worker will give the group an L2 policy, or delete it.
OwesL2(q, g) ==
  /\ q.group = g
  /\ \/ Making(q) \/ q.pc \in {"l2_txn", "group_read", "group_delete"}
     \/ q.then = "group_read"

\* The worker will give the L2 policy an L3 policy, or delete it.
OwesL3(q, l) == q.l2 = l /\ q.pc \in Unlinked

Solo == \A w \in Workers : Fits(worker[w]) /\ Relies(worker[w])
AllApart == \A v, w \in Workers : v # w => Apart(worker[v], worker[w])
GroupsAreOwed ==
  \A g \in Groups \cap live : l2_policy_id[g] # None \/ \E w \in Workers : OwesL2(worker[w], g)
L2sAreOwed ==
  \A l \in L2s \cap live : l3_policy_id[l] # None \/ \E w \in Workers : OwesL3(worker[w], l)

Owed == Solo /\ AllApart /\ GroupsAreOwed /\ L2sAreOwed

\* The rows that a worker works for are as before.
Spared(q) ==
  /\ q.group # None =>
       /\ q.group \in live' <=> q.group \in live
       /\ l2_policy_id'[q.group] = l2_policy_id[q.group]
  /\ Making(q) =>
       /\ q.l2 \in live' <=> q.l2 \in live
       /\ q.l2 \in shared' <=> q.l2 \in shared
       /\ l3_policy_id'[q.l2] = l3_policy_id[q.l2]
       /\ \A g \in Groups \cap live' :
            l2_policy_id'[g] = q.l2 => g \in live /\ l2_policy_id[g] = q.l2

\* A row that is without its policy after the step is not the worker's duty, or
\* remains so.
PassesGroups(q, r) ==
  \A g \in Groups \cap live' :
    l2_policy_id'[g] = None =>
      OwesL2(r, g) \/ (g \in live /\ l2_policy_id[g] = None /\ ~OwesL2(q, g))
PassesL2s(q, r) ==
  \A l \in L2s \cap live' :
    l3_policy_id'[l] = None =>
      OwesL3(r, l) \/ (l \in live /\ l3_policy_id[l] = None /\ ~OwesL3(q, l))

LEMMA SparedRelies ==
  ASSUME Inv, Inv', NEW v \in Workers, worker'[v] = worker[v], Fits(worker[v]), Relies(worker[v]),
         Spared(worker[v])
  PROVE  Fits(worker[v])' /\ Relies(worker[v])'
<1> DEFINE q == worker[v]
<1>1. q \in WorkerTypes /\ None \notin Groups \cup L2s \cup L3s
  BY Known
<1>2. q.group \in Groups => q.group # None
  BY <1>1
<1> HIDE DEF q
<1>3. Fits(worker'[v])
  BY DEF Fits, Making, Unlinked
<1>4. Making(q) => q.l2 \in L2s \cap live' /\ (q.isShared => q.l2 \in shared')
  BY DEF Relies, Spared, q
<1>5. Making(q) => \A g \in Groups \cap live' : l2_policy_id'[g] # q.l2
  BY DEF Relies, Spared, GroupsOf, q
<1>6. q.pc \in Unlinked => l3_policy_id'[q.l2] = None
  BY DEF Relies, Spared, Making, q
<1>7. Ungrouped(q) => q.group \in Groups \cap live' /\ l2_policy_id'[q.group] = None
  BY <1>2 DEF Relies, Spared, q
<1>8. q.pc = "group_delete" /\ q.group \in live' => q.l2 = l2_policy_id'[q.group]
  <2>1. None \notin live'
    BY <1>1 DEF Inv, TypeOK
  <2> QED BY <2>1 DEF Relies, Spared, q
<1> QED BY <1>3, <1>4, <1>5, <1>6, <1>7, <1>8
     DEF Relies, Fits, Making, Unlinked, Ungrouped, GroupsOf, q

LEMMA OwedStep ==
  ASSUME Inv, Inv', Owed, NEW w \in Workers, Others(w),
         Fits(worker'[w]), Relies(worker[w])',
         \A v \in Workers \ {w} :
           /\ Spared(worker[v])
           /\ Apart(worker[v], worker'[w]) /\ Apart(worker'[w], worker[v]),
         PassesGroups(worker[w], worker'[w]), PassesL2s(worker[w], worker'[w])
  PROVE  Owed'
<1>1. Solo'
  <2>1. \A v \in Workers \ {w} : Fits(worker[v])' /\ Relies(worker[v])'
    BY SparedRelies DEF Owed, Solo, Others
  <2>2. Fits(worker[w])' /\ Relies(worker[w])'
    BY DEF Fits, Making, Unlinked
  <2> QED BY <2>1, <2>2 DEF Solo
<1>2. AllApart'
  <2>1. ASSUME NEW u \in Workers, NEW v \in Workers, u # v
        PROVE  Apart(worker'[u], worker'[v])
    <3>1. CASE u = w
      BY <2>1, <3>1 DEF Others
    <3>2. CASE v = w
      BY <2>1, <3>2 DEF Others
    <3>3. CASE u # w /\ v # w
      BY <2>1, <3>3 DEF Others, Owed, AllApart
    <3> QED BY <3>1, <3>2, <3>3
  <2> QED BY <2>1 DEF AllApart, Apart, Making, Unlinked
<1>3. GroupsAreOwed'
  <2>1. ASSUME NEW g \in Groups \cap live', l2_policy_id'[g] = None
        PROVE  \E v \in Workers : OwesL2(worker'[v], g)
    <3>1. CASE OwesL2(worker'[w], g)
      BY <3>1
    <3>2. CASE g \in live /\ l2_policy_id[g] = None /\ ~OwesL2(worker[w], g)
      <4>1. PICK v \in Workers : OwesL2(worker[v], g)
        BY <2>1, <3>2 DEF Owed, GroupsAreOwed
      <4>2. v # w
        BY <3>2, <4>1
      <4> QED BY <4>1, <4>2 DEF Others
    <3> QED BY <2>1, <3>1, <3>2 DEF PassesGroups
  <2> QED BY <2>1 DEF GroupsAreOwed, OwesL2, Making, Unlinked
<1>4. L2sAreOwed'
  <2>1. ASSUME NEW l \in L2s \cap live', l3_policy_id'[l] = None
        PROVE  \E v \in Workers : OwesL3(worker'[v], l)
    <3>1. CASE OwesL3(worker'[w], l)
      BY <3>1
    <3>2. CASE l \in live /\ l3_policy_id[l] = None /\ ~OwesL3(worker[w], l)
      <4>1. PICK v \in Workers : OwesL3(worker[v], l)
        BY <2>1, <3>2 DEF Owed, L2sAreOwed
      <4>2. v # w
        BY <3>2, <4>1
      <4> QED BY <4>1, <4>2 DEF Others
    <3> QED BY <2>1, <3>1, <3>2 DEF PassesL2s
  <2> QED BY <2>1 DEF L2sAreOwed, OwesL3, Unlinked
<1> QED BY <1>1, <1>2, <1>3, <1>4 DEF Owed

\* A worker that takes up no further row stays apart from the others.
LEMMA StaysApart ==
  ASSUME Inv, Owed, NEW w \in Workers,
         worker'[w].group \in {worker[w].group, None}, worker'[w].l2 \in {worker[w].l2, None},
         Making(worker'[w]) => Making(worker[w]) /\ worker'[w].l2 = worker[w].l2
  PROVE  \A v \in Workers \ {w} :
           Apart(worker[v], worker'[w]) /\ Apart(worker'[w], worker[v])
<1> SUFFICES ASSUME NEW v \in Workers \ {w}
             PROVE  Apart(worker[v], worker'[w]) /\ Apart(worker'[w], worker[v])
  OBVIOUS
<1>1. Apart(worker[v], worker[w]) /\ Apart(worker[w], worker[v])
  BY DEF Owed, AllApart
<1>2. Making(worker[v]) => worker[v].l2 \in L2s
  BY DEF Owed, Solo, Relies
<1>3. None \notin L2s
  BY Known
<1> QED BY <1>1, <1>2, <1>3 DEF Apart

\* Which changes of rows spare a worker.
LEMMA RestSpares ==
  ASSUME Inv, Owed, UNCHANGED <<live, l2_policy_id, l3_policy_id>>,
         \A l \in L2s : l \in shared' <=> l \in shared
  PROVE  \A v \in Workers : Spared(worker[v])
BY DEF Spared, Owed, Solo, Relies

LEMMA InsertSpares ==
  ASSUME Inv, Owed, NEW S, NEW x \in Fresh(S), NEW isShared, Insert(x, isShared),
         \A g \in Groups : g # x => l2_policy_id'[g] = l2_policy_id[g],
         \A l \in L2s : l # x => l3_policy_id'[l] = l3_policy_id[l],
         x \in Groups =>
           l2_policy_id'[x] = None \/ \A v \in Workers : worker[v].l2 # l2_policy_id'[x]
  PROVE  \A v \in Workers : Spared(worker[v])
<1> SUFFICES ASSUME NEW v \in Workers PROVE Spared(worker[v])
  OBVIOUS
<1> DEFINE q == worker[v]
<1>1. q.group # x /\ q.l2 # x
  BY FreshFacts
<1>2. live' = live \cup {x} /\ shared' \in {shared, shared \cup {x}}
  BY DEF Insert
<1>3. q.group # None => q.group \in Groups
  BY Known DEF WorkerTypes
<1>4. Making(q) => q.l2 \in L2s /\ q.l2 # None
  BY Known DEF Owed, Solo, Relies
<1>5. ASSUME Making(q), NEW g \in Groups \cap live', l2_policy_id'[g] = q.l2
      PROVE  g \in live /\ l2_policy_id[g] = q.l2
  <2>1. g # x
    BY <1>4, <1>5
  <2> QED BY <1>2, <1>5, <2>1
<1> QED BY <1>1, <1>2, <1>3, <1>4, <1>5 DEF Spared

LEMMA EraseSpares ==
  ASSUME Inv, Owed, NEW x, Erase(x), NEW v \in Workers, worker[v].group # x,
         Making(worker[v]) => worker[v].l2 # x
  PROVE  Spared(worker[v])
<1> DEFINE q == worker[v]
<1>1. q.group # None => q.group \in Groups
  BY Known DEF WorkerTypes
<1>2. Making(q) => q.l2 \in L2s /\ q.l2 # None
  BY Known DEF Owed, Solo, Relies
<1> QED BY <1>1, <1>2 DEF Spared, Erase

\* A group gets its L2 policy.
LEMMA GroupSpares ==
  ASSUME Inv, Owed, UNCHANGED <<live, shared, l3_policy_id>>,
         NEW g \in Groups \cap live, NEW l2, l2_policy_id' = [l2_policy_id EXCEPT ![g] = l2],
         NEW v \in Workers, worker[v].group # g, Making(worker[v]) => worker[v].l2 # l2
  PROVE  Spared(worker[v])
<1> DEFINE q == worker[v]
<1>1. q.group # None => q.group \in Groups
  BY Known DEF WorkerTypes
<1>2. \A h \in Groups : h # g => l2_policy_id'[h] = l2_policy_id[h]
  BY Known
<1>3. l2_policy_id'[g] = l2
  BY Known
<1> QED BY <1>1, <1>2, <1>3 DEF Spared

\* An L2 policy gets its L3 policy.
LEMMA L2Spares ==
  ASSUME Inv, Owed, UNCHANGED <<live, shared, l2_policy_id>>,
         NEW l2 \in L2s, NEW l3, l3_policy_id' = [l3_policy_id EXCEPT ![l2] = l3],
         NEW v \in Workers, Making(worker[v]) => worker[v].l2 # l2
  PROVE  Spared(worker[v])
<1> DEFINE q == worker[v]
<1>1. Making(q) => q.l2 \in L2s
  BY DEF Owed, Solo, Relies
<1> QED BY <1>1, Known DEF Spared

\* A worker goes on with the policy it makes.
LEMMA MakingMoves ==
  ASSUME Inv, Inv', Owed, NEW w \in Workers, Others(w),
         \A v \in Workers : Spared(worker[v]),
         Making(worker[w]), Making(worker'[w]),
         worker[w].pc \in Unlinked <=> worker'[w].pc \in Unlinked,
         worker'[w].op = worker[w].op, worker'[w].group = worker[w].group,
         worker'[w].l2 = worker[w].l2, worker'[w].isShared = worker[w].isShared,
         worker'[w].then = worker[w].then,
         \A g \in Groups \cap live' :
           l2_policy_id'[g] = None => g \in live /\ l2_policy_id[g] = None,
         \A l \in L2s \cap live' :
           l3_policy_id'[l] = None => l \in live /\ l3_policy_id[l] = None
  PROVE  Owed'
<1> DEFINE q == worker[w]
           r == worker'[w]
<1>1. Fits(q) /\ Relies(q) /\ Spared(q)
  BY DEF Owed, Solo
<1>2. q.then # "group_read" /\ q.op \in {"create_group", "create_l2"}
  BY <1>1 DEF Fits, Making, Unlinked
<1> HIDE DEF q, r
<1>3. Fits(r)
  <2>1. r.pc \in {"l2_txn", "l2_own", "l2_check", "l2_set"} => r.op = "create_group"
    BY <1>1 DEF q, r, Fits, Making, Unlinked
  <2> QED BY <1>1, <1>2, <2>1 DEF q, r, Fits, Making, Unlinked
<1>4. Relies(worker[w])'
  <2>1. Making(q) /\ (q.pc \in Unlinked <=> r.pc \in Unlinked) /\ r.op = q.op
        /\ r.group = q.group /\ r.l2 = q.l2 /\ r.isShared = q.isShared
    BY DEF q, r
  <2>2. q.l2 \in L2s \cap live' /\ (q.isShared => q.l2 \in shared')
    BY <1>1, <2>1 DEF Relies, Spared
  <2>3. \A g \in Groups \cap live' : l2_policy_id'[g] # q.l2
    BY <1>1, <2>1 DEF Relies, Spared, GroupsOf
  <2>4. q.pc \in Unlinked => l3_policy_id'[q.l2] = None
    BY <1>1, <2>1 DEF Relies, Spared
  <2>5. q.op = "create_group" =>
          q.group \in Groups \cap live' /\ l2_policy_id'[q.group] = None
    BY <1>1, <2>1, Known DEF Relies, Spared, Ungrouped
  <2>6. r.pc # "l2_txn" /\ r.pc # "group_delete"
    BY DEF r, Making, Unlinked
  <2> QED BY <2>1, <2>2, <2>3, <2>4, <2>5, <2>6 DEF r, Relies, Making, Unlinked, Ungrouped, GroupsOf
<1>5. \A v \in Workers \ {w} :
        Apart(worker[v], worker'[w]) /\ Apart(worker'[w], worker[v])
  BY StaysApart
<1>6. PassesGroups(worker[w], worker'[w]) /\ PassesL2s(worker[w], worker'[w])
  BY DEF PassesGroups, PassesL2s, OwesL2, OwesL3
<1> QED BY <1>3, <1>4, <1>5, <1>6, OwedStep DEF r

\* A worker that makes nothing goes on, and no row changes.
LEMMA RestingMoves ==
  ASSUME Inv, Inv', Owed, NEW w \in Workers, Others(w),
         UNCHANGED <<live, shared, l2_policy_id, l3_policy_id>>,
         worker[w].pc \notin Unlinked,
         Fits(worker'[w]), ~Making(worker'[w]),
         worker'[w].pc \notin {"l2_txn", "group_delete"},
         worker'[w].group \in {worker[w].group, None}, worker'[w].l2 \in {worker[w].l2, None},
         \A g \in Groups \cap live : OwesL2(worker[w], g) => OwesL2(worker'[w], g)
  PROVE  Owed'
<1>1. Relies(worker[w])'
  BY DEF Relies, Making, Unlinked, Ungrouped
<1>2. \A v \in Workers : Spared(worker[v])
  BY RestSpares
<1>3. \A v \in Workers \ {w} :
        Apart(worker[v], worker'[w]) /\ Apart(worker'[w], worker[v])
  BY StaysApart
<1>4. PassesGroups(worker[w], worker'[w]) /\ PassesL2s(worker[w], worker'[w])
  BY DEF PassesGroups, PassesL2s, OwesL3
<1> QED BY <1>1, <1>2, <1>3, <1>4, OwedStep

--------------------
(* Requests keep the duties *)

\* A worker that waits for requests owes nothing.
LEMMA IdleOwesNothing ==
  ASSUME Inv, Owed, NEW w \in Workers, worker[w].pc = "idle"
  PROVE  /\ worker[w].group = None /\ ~Making(worker[w]) /\ worker[w].then # "group_read"
         /\ \A g \in Groups : ~OwesL2(worker[w], g)
         /\ \A l \in L2s : ~OwesL3(worker[w], l)
BY Known DEF Owed, Solo, Fits, OwesL2, OwesL3, Making, Unlinked

\* Requests that are answered at once.
LEMMA AnsweredKeepsOwed ==
  ASSUME Inv, Inv', Owed, NEW w \in Workers, Others(w), worker'[w] = worker[w],
         \A v \in Workers : Spared(worker[v]),
         \A g \in Groups \cap live' :
           l2_policy_id'[g] = None => g \in live /\ l2_policy_id[g] = None,
         \A l \in L2s \cap live' :
           l3_policy_id'[l] = None => l \in live /\ l3_policy_id[l] = None
  PROVE  Owed'
<1>1. Fits(worker[w]) /\ Relies(worker[w])
  BY DEF Owed, Solo
<1>2. Fits(worker'[w]) /\ Relies(worker[w])'
  <2>1. Fits(worker[w])' /\ Relies(worker[w])'
    BY <1>1, SparedRelies
  <2> QED BY <1>1, <2>1
<1>3. \A v \in Workers \ {w} :
        Apart(worker[v], worker'[w]) /\ Apart(worker'[w], worker[v])
  BY DEF Owed, AllApart
<1>4. PassesGroups(worker[w], worker'[w]) /\ PassesL2s(worker[w], worker'[w])
  BY DEF PassesGroups, PassesL2s
<1> QED BY <1>2, <1>3, <1>4, OwedStep

LEMMA CreateGroupOwed ==
  ASSUME Patient, Inv, Inv', Owed, NEW w \in Workers, CreatePolicyTargetGroup(w)
  PROVE  Owed'
<1> DEFINE q == worker[w]
           r == worker'[w]
<1>1. PICK g \in Fresh(Groups), l2 \in L2s \cup {None}, isShared \in BOOLEAN :
        NewGroup(w, g, l2, isShared)
  BY CreateGroupFacts
<1> USE <1>1 DEF NewGroup
<1>2. g \in Groups /\ g \notin live /\ g # None /\ g \notin L2s
      /\ \A v \in Workers : g # worker[v].group /\ g # worker[v].l2
  BY Known, FreshFacts
<1>3. l2_policy_id'[g] = l2 /\ \A h \in Groups : h # g => l2_policy_id'[h] = l2_policy_id[h]
  BY <1>1, <1>2, Known
<1>4. l2 # None => \A v \in Workers : worker[v].l2 # l2
  BY <1>1 DEF Touchable
<1>5. \A v \in Workers : Spared(worker[v])
  BY <1>1, <1>2, <1>3, <1>4, InsertSpares
<1>6. live' = live \cup {g}
  BY <1>1 DEF Insert
<1>7. \A l \in L2s \cap live' : l3_policy_id'[l] = None => l \in live /\ l3_policy_id[l] = None
  BY <1>1, <1>2, <1>6
<1>8. CASE l2 # None
  <2>1. Others(w) /\ worker'[w] = worker[w]
    BY <1>1, <1>8
  <2>2. \A h \in Groups \cap live' :
          l2_policy_id'[h] = None => h \in live /\ l2_policy_id[h] = None
    BY <1>3, <1>6, <1>8
  <2> QED BY <1>5, <1>7, <2>1, <2>2, AnsweredKeepsOwed
<1>9. CASE l2 = None
  <2>1. /\ r.op = "create_group" /\ r.pc = "l2_txn" /\ r.group = g /\ r.l2 = None
        /\ r.then = "idle"
    BY <1>1, <1>9 DEF Idle
  <2> HIDE DEF r
  <2>2. Fits(r)
    BY <2>1 DEF Fits, Making, Unlinked
  <2>3. Relies(worker[w])'
    BY <1>2, <1>3, <1>6, <1>9, <2>1 DEF Relies, Making, Unlinked, Ungrouped, r
  <2>4. \A v \in Workers \ {w} : Apart(worker[v], r) /\ Apart(r, worker[v])
    <3>1. \A v \in Workers : Making(worker[v]) => worker[v].l2 # None
      BY Known DEF Owed, Solo, Relies
    <3> QED BY <1>2, <2>1, <3>1 DEF Apart, Making, Unlinked
  <2>5. PassesGroups(q, r) /\ PassesL2s(q, r)
    <3>1. OwesL2(r, g)
      BY <2>1 DEF OwesL2
    <3>2. q.group = None /\ \A h \in Groups : ~OwesL2(q, h)
      BY <1>1, IdleOwesNothing
    <3>3. \A l \in L2s : ~OwesL3(q, l)
      BY <1>1, IdleOwesNothing
    <3> QED BY <1>3, <1>6, <1>7, <3>1, <3>2, <3>3 DEF PassesGroups, PassesL2s
  <2> QED BY <1>1, <1>5, <2>2, <2>3, <2>4, <2>5, OwedStep DEF r
<1> QED BY <1>8, <1>9

LEMMA UpdateGroupOwed ==
  ASSUME Patient, Inv, Inv', Owed, NEW w \in Workers, UpdatePolicyTargetGroup(w)
  PROVE  Owed'
<1>1. PICK g \in Groups \cap live, l2 \in L2s :
        /\ Touchable(g) /\ Touchable(l2)
        /\ l2_policy_id' = [l2_policy_id EXCEPT ![g] = l2]
  BY DEF UpdatePolicyTargetGroup
<1>2. UNCHANGED <<live, shared, l3_policy_id>> /\ worker' = worker
  BY DEF UpdatePolicyTargetGroup
<1>3. \A v \in Workers : worker[v].group # g /\ worker[v].l2 # l2
  BY <1>1 DEF Touchable
<1>4. \A v \in Workers : Spared(worker[v])
  BY <1>1, <1>2, <1>3, GroupSpares
<1>5. \A h \in Groups \cap live' :
        l2_policy_id'[h] = None => h \in live /\ l2_policy_id[h] = None
  BY <1>1, <1>2, Known
<1> QED BY <1>2, <1>4, <1>5, AnsweredKeepsOwed DEF Others

LEMMA DeleteGroupOwed ==
  ASSUME Patient, Inv, Inv', Owed, NEW w \in Workers, DeletePolicyTargetGroup(w)
  PROVE  Owed'
<1> DEFINE q == worker[w]
           r == worker'[w]
<1>1. PICK g \in Groups \cap live :
        /\ Touchable(g)
        /\ worker' = [worker EXCEPT ![w] =
             [Idle EXCEPT !.op = "delete_group", !.pc = "group_read", !.group = g]]
  BY DEF DeletePolicyTargetGroup
<1>2. UNCHANGED rows /\ worker[w].pc = "idle"
  BY DEF DeletePolicyTargetGroup, Accept, At
<1>3. Others(w) /\ r.op = "delete_group" /\ r.pc = "group_read" /\ r.group = g /\ r.l2 = None
      /\ r.then = "idle"
  BY <1>1, InvParts DEF Others, Idle
<1>4. \A v \in Workers : worker[v].group # g /\ Spared(worker[v])
  BY <1>1, <1>2, RestSpares DEF Touchable, rows
<1> HIDE DEF r
<1>5. Fits(r) /\ Relies(worker[w])'
  BY <1>3 DEF Fits, Relies, Making, Unlinked, Ungrouped, r
<1>6. \A v \in Workers \ {w} : Apart(worker[v], r) /\ Apart(r, worker[v])
  <2>1. \A v \in Workers : Making(worker[v]) => worker[v].l2 # None
    BY Known DEF Owed, Solo, Relies
  <2> QED BY <1>3, <1>4, <2>1 DEF Apart, Making, Unlinked
<1>7. PassesGroups(q, r) /\ PassesL2s(q, r)
  BY <1>2, IdleOwesNothing DEF PassesGroups, PassesL2s, rows
<1> QED BY <1>3, <1>4, <1>5, <1>6, <1>7, OwedStep DEF r

LEMMA CreateL2Owed ==
  ASSUME Inv, Inv', Owed, NEW w \in Workers, CreateL2Policy(w)
  PROVE  Owed'
<1> DEFINE q == worker[w]
           r == worker'[w]
<1>1. PICK l2 \in Fresh(L2s), l3 \in L3s \cup {None}, isShared \in BOOLEAN :
        NewL2(w, l2, l3, isShared)
  BY CreateL2Facts
<1> USE <1>1 DEF NewL2
<1>2. l2 \in L2s /\ l2 \notin live /\ l2 # None /\ l2 \notin Groups
      /\ \A v \in Workers : l2 # worker[v].group /\ l2 # worker[v].l2
  BY Known, FreshFacts
<1>3. l3_policy_id'[l2] = l3 /\ \A h \in L2s : h # l2 => l3_policy_id'[h] = l3_policy_id[h]
  BY <1>1, <1>2, Known
<1>4. \A v \in Workers : Spared(worker[v])
  BY <1>1, <1>2, <1>3, InsertSpares
<1>5. live' = live \cup {l2} /\ (isShared => l2 \in shared')
  BY <1>1 DEF Insert
<1>6. \A g \in Groups \cap live' : g \in live /\ l2_policy_id'[g] = l2_policy_id[g]
  BY <1>1, <1>2, <1>5
<1>7. CASE l3 # None
  <2>1. Others(w) /\ worker'[w] = worker[w]
    BY <1>1, <1>7
  <2>2. \A l \in L2s \cap live' :
          l3_policy_id'[l] = None => l \in live /\ l3_policy_id[l] = None
    BY <1>3, <1>5, <1>7
  <2> QED BY <1>4, <1>6, <2>1, <2>2, AnsweredKeepsOwed
<1>8. CASE l3 = None
  <2>1. /\ r.op = "create_l2" /\ r.pc = "l3_find" /\ r.group = None /\ r.l2 = l2
        /\ r.then = "idle" /\ r.isShared = isShared
    BY <1>1, <1>8 DEF Idle
  <2> HIDE DEF r
  <2>2. Fits(r)
    BY <2>1 DEF Fits, Making, Unlinked
  <2>3. Relies(worker[w])'
    <3>1. \A g \in Groups \cap live' : l2_policy_id'[g] # l2
      BY <1>2, <1>6, Known
    <3> QED BY <1>2, <1>3, <1>5, <1>8, <2>1, <3>1
          DEF Relies, Making, Unlinked, Ungrouped, GroupsOf, r
  <2>4. \A v \in Workers \ {w} : Apart(worker[v], r) /\ Apart(r, worker[v])
    BY <1>2, <2>1 DEF Apart
  <2>5. PassesGroups(q, r) /\ PassesL2s(q, r)
    <3>1. OwesL3(r, l2)
      BY <2>1 DEF OwesL3, Unlinked
    <3>2. \A h \in Groups : ~OwesL2(q, h)
      BY <1>1, IdleOwesNothing
    <3>3. \A l \in L2s : ~OwesL3(q, l)
      BY <1>1, IdleOwesNothing
    <3> QED BY <1>3, <1>5, <1>6, <3>1, <3>2, <3>3 DEF PassesGroups, PassesL2s
  <2> QED BY <1>1, <1>4, <2>2, <2>3, <2>4, <2>5, OwedStep DEF r
<1> QED BY <1>7, <1>8

\* An L2 policy without groups is deleted, which no worker is making but the one
\* that deletes it.
LEMMA DeleteL2RowOwed ==
  ASSUME Inv, Inv', Owed, NEW w \in Workers, NEW op \in Operations \cup {"none"},
         NEW l2 \in L2s, NEW next \in {"idle", "group_read"}, DeleteL2Row(w, op, l2, next),
         op = worker[w].op \/ (op = "delete_l2" /\ next = "idle"),
         next = "group_read" => op = "create_group",
         next = "idle" => \A g \in Groups : ~OwesL2(worker[w], g),
         worker[w].pc \in Unlinked => worker[w].l2 = l2,
         \A v \in Workers \ {w} : Making(worker[v]) => worker[v].l2 # l2
  PROVE  Owed'
<1> DEFINE q == worker[w]
           r == worker'[w]
<1>1. /\ l2 \in live /\ Erase(l2) /\ Others(w)
      /\ r.op = op /\ r.pc = "l3_cleanup" /\ r.group = q.group /\ r.l2 = None
      /\ r.then = next
  BY DeleteL2Facts
<1>2. Fits(q)
  BY DEF Owed, Solo
<1>3. \A v \in Workers : worker[v].group # l2
  BY Known DEF WorkerTypes
<1>4. \A v \in Workers \ {w} : Spared(worker[v])
  BY <1>1, <1>3, EraseSpares
<1>5. \A v \in Workers \ {w} : Apart(worker[v], r) /\ Apart(r, worker[v])
  BY <1>1, StaysApart DEF Making, Unlinked
<1> HIDE DEF q, r
<1>6. Fits(r)
  BY <1>1, <1>2 DEF Fits, Making, Unlinked, q
<1>7. Relies(worker[w])'
  BY <1>1 DEF r, Relies, Making, Unlinked, Ungrouped
<1>8. PassesGroups(q, r)
  <2>1. ASSUME NEW g \in Groups \cap live', l2_policy_id'[g] = None
        PROVE  g \in live /\ l2_policy_id[g] = None
    BY <1>1, <2>1, Known DEF Erase
  <2>2. next = "group_read" => \A g \in Groups : OwesL2(q, g) => OwesL2(r, g)
    BY <1>1 DEF OwesL2
  <2> QED BY <2>1, <2>2 DEF PassesGroups, q
<1>9. PassesL2s(q, r)
  <2>1. ASSUME NEW l \in L2s \cap live', l3_policy_id'[l] = None
        PROVE  l # l2 /\ l \in live /\ l3_policy_id[l] = None
    BY <1>1, <2>1 DEF Erase
  <2> QED BY <2>1 DEF PassesL2s, OwesL3, q
<1> QED BY <1>1, <1>4, <1>5, <1>6, <1>7, <1>8, <1>9, OwedStep DEF q, r

LEMMA DeleteL2Owed ==
  ASSUME Patient, Inv, Inv', Owed, NEW w \in Workers, DeleteL2Policy(w)
  PROVE  Owed'
<1>1. PICK l2 \in L2s : Touchable(l2) /\ DeleteL2Row(w, "delete_l2", l2, "idle")
  BY DEF DeleteL2Policy
<1>2. worker[w].pc = "idle"
  BY DEF DeleteL2Policy, Accept, At
<1>3. worker[w].pc \notin Unlinked
  BY <1>2 DEF Unlinked
<1>4. \A v \in Workers : worker[v].l2 # l2
  BY <1>1 DEF Touchable
<1>5. "delete_l2" \in Operations \cup {"none"}
  BY DEF Operations
<1> QED BY <1>1, <1>2, <1>3, <1>4, <1>5, IdleOwesNothing, DeleteL2RowOwed

\* The worker that undoes the creation of its L2 policy can delete it: nobody
\* else has used it.
LEMMA UndoL2Owed ==
  ASSUME Inv, Inv', Owed, NEW w \in Workers, UndoL2(w)
  PROVE  Owed'
<1> DEFINE q == worker[w]
           next == IF q.op = "create_group" THEN "group_read" ELSE "idle"
<1>1. q.pc = "l2_undo" /\ Fits(q) /\ Relies(q) /\ q.pc \in Unlinked /\ Making(q)
  BY DEF UndoL2, At, Owed, Solo, Making, Unlinked
<1>2. q.l2 \in L2s \cap live /\ GroupsOf(q.l2) = {}
  BY <1>1 DEF Relies
<1>3. DeleteL2Row(w, q.op, q.l2, next)
  BY <1>2 DEF UndoL2
<1>4. q.op \in {"create_group", "create_l2"} /\ (q.op = "create_l2" => q.group = None)
  BY <1>1 DEF Fits
<1>5. next = "idle" => \A g \in Groups : ~OwesL2(q, g)
  BY <1>4, Known DEF OwesL2
<1>6. \A v \in Workers \ {w} : Making(worker[v]) => worker[v].l2 # q.l2
  BY DEF Owed, AllApart, Apart
<1>7. q.op \in Operations \cup {"none"} /\ next \in {"idle", "group_read"}
      /\ (next = "group_read" => q.op = "create_group")
  BY Known DEF WorkerTypes
<1> HIDE DEF next
<1> QED BY <1>2, <1>3, <1>5, <1>6, <1>7, DeleteL2RowOwed

LEMMA DeleteOwnedL2Owed ==
  ASSUME Inv, Inv', Owed, NEW w \in Workers, DeleteOwnedL2(w)
  PROVE  Owed'
<1> DEFINE q == worker[w]
<1>1. q.pc = "l2_delete" /\ Fits(q)
  BY DEF DeleteOwnedL2, At, Owed, Solo
<1>2. q.pc \notin Unlinked /\ ~Making(q) /\ \A g \in Groups : ~OwesL2(q, g)
  BY <1>1 DEF Fits, Making, Unlinked, OwesL2
<1>3. CASE DeleteL2Row(w, q.op, q.l2, "idle")
  <2>1. q.l2 \in L2s /\ q.op \in Operations \cup {"none"}
    BY <1>3, Known DEF DeleteL2Row, WorkerTypes
  <2>2. \A v \in Workers \ {w} : Making(worker[v]) => worker[v].l2 # q.l2
    BY DEF Owed, AllApart, Apart
  <2> QED BY <1>2, <1>3, <2>1, <2>2, DeleteL2RowOwed
<1>4. CASE End(w) /\ UNCHANGED rows
  <2>1. Others(w) /\ worker'[w] = Idle
    BY <1>4, EndFacts
  <2>2. Fits(Idle) /\ ~Making(Idle) /\ Idle.pc = "idle" /\ Idle.group = None /\ Idle.l2 = None
    BY DEF Fits, Making, Unlinked, Idle
  <2> QED BY <1>2, <1>4, <2>1, <2>2, RestingMoves DEF rows
<1> QED BY <1>3, <1>4 DEF DeleteOwnedL2

LEMMA L3RequestOwed ==
  ASSUME Inv, Inv', Owed, NEW w \in Workers,
         CreateL3Policy(w) \/ RenameL3Policy(w) \/ ShareL3Policy(w) \/ DeleteL3Policy(w)
  PROVE  Owed'
<1>1. Others(w) /\ worker'[w] = worker[w]
  BY DEF CreateL3Policy, RenameL3Policy, ShareL3Policy, DeleteL3Policy, Others
<1>2. CASE CreateL3Policy(w)
  <2>1. PICK l3 \in Fresh(L3s), isShared \in Flags : Insert(l3, isShared)
    BY <1>2 DEF CreateL3Policy
  <2>2. UNCHANGED <<l2_policy_id, l3_policy_id>> /\ live' = live \cup {l3}
    BY <1>2, <2>1 DEF CreateL3Policy, Insert
  <2>3. l3 \notin Groups \cup L2s
    BY <2>1, Known, FreshFacts
  <2>4. \A v \in Workers : Spared(worker[v])
    BY <2>1, <2>2, <2>3, InsertSpares
  <2> QED BY <1>1, <2>2, <2>3, <2>4, AnsweredKeepsOwed
<1>3. CASE RenameL3Policy(w)
  <2>1. UNCHANGED <<live, shared, l2_policy_id, l3_policy_id>>
    BY <1>3 DEF RenameL3Policy
  <2>2. \A v \in Workers : Spared(worker[v])
    BY <2>1, RestSpares
  <2> QED BY <1>1, <2>1, <2>2, AnsweredKeepsOwed
<1>4. CASE ShareL3Policy(w)
  <2>1. UNCHANGED <<live, l2_policy_id, l3_policy_id>> /\ \A l \in L2s : l \in shared' <=> l \in shared
    BY <1>4, Known DEF ShareL3Policy
  <2>2. \A v \in Workers : Spared(worker[v])
    BY <2>1, RestSpares
  <2> QED BY <1>1, <2>1, <2>2, AnsweredKeepsOwed
<1>5. CASE DeleteL3Policy(w)
  <2>1. PICK l3 \in L3s \cap live : Erase(l3)
    BY <1>5 DEF DeleteL3Policy
  <2>2. l3 \notin Groups \cup L2s /\ l3 # None
    BY Known
  <2>3. \A v \in Workers : Spared(worker[v])
    <3>1. \A v \in Workers : worker[v].group # l3 /\ worker[v].l2 # l3
      BY <2>2, Known DEF WorkerTypes
    <3> QED BY <2>1, <3>1, EraseSpares
  <2>4. /\ \A g \in Groups \cap live' : g \in live /\ l2_policy_id'[g] = l2_policy_id[g]
        /\ \A l \in L2s \cap live' : l \in live /\ l3_policy_id'[l] = l3_policy_id[l]
    BY <2>1, <2>2 DEF Erase
  <2> QED BY <1>1, <2>3, <2>4, AnsweredKeepsOwed
<1> QED BY <1>2, <1>3, <1>4, <1>5

--------------------
(* The work of the driver keeps the duties *)

\* Steps towards the L3 policy, and its failures.
LEMMA UnlinkedMoves ==
  ASSUME Inv, Inv', Owed, NEW w \in Workers, NEW pc \in Unlinked,
         worker[w].pc \in Unlinked, Goto(w, pc) \/ Fail(w),
         UNCHANGED <<live, shared, l2_policy_id, l3_policy_id>>
  PROVE  Owed'
<1> DEFINE q == worker[w]
           r == worker'[w]
<1>1. Making(q) /\ Fits(q)
  BY DEF Making, Owed, Solo
<1>2. q.op # "update_l2" /\ q.pc \notin {"l2_own", "l2_check", "l2_set"}
  BY <1>1 DEF Fits, Unlinked
<1>3. Others(w) /\ r.pc \in Unlinked /\ On(q, r, r.pc)
  <2>1. CASE Goto(w, pc)
    BY <2>1, GotoFacts DEF On
  <2>2. CASE Fail(w)
    <3>1. Others(w) /\ On(q, r, "l2_undo")
      BY <1>2, <2>2, FailFacts DEF HasFailed
    <3> QED BY <3>1 DEF On, Unlinked
  <2> QED BY <2>1, <2>2
<1>4. Making(r) /\ \A v \in Workers : Spared(worker[v])
  BY <1>3, RestSpares DEF Making
<1> QED BY <1>1, <1>3, <1>4, MakingMoves DEF On

LEMMA DefaultOwed ==
  ASSUME Inv, Inv', Owed, NEW w \in Workers, FindDefault(w) \/ CreateDefault(w)
  PROVE  Owed'
<1> DEFINE q == worker[w]
           r == worker'[w]
<1>1. worker \in [Workers -> WorkerTypes]
  BY InvParts
<1>2. q.pc \in Unlinked /\ Making(q)
  BY DEF FindDefault, CreateDefault, At, Unlinked, Making
<1>3. ASSUME NEW pc \in {"l3_check", "l3_own"}, NEW l3,
             worker' = [worker EXCEPT ![w].pc = pc, ![w].l3 = l3]
      PROVE  /\ Others(w) /\ r.pc \in Unlinked /\ Making(r)
             /\ r.op = q.op /\ r.group = q.group /\ r.then = q.then
             /\ r.isShared = q.isShared /\ r.l2 = q.l2
  BY <1>1, <1>3 DEF Others, WorkerTypes, Making, Unlinked
<1>4. CASE FindDefault(w)
  <2>1. UNCHANGED rows /\ \A v \in Workers : Spared(worker[v])
    BY <1>4, RestSpares DEF FindDefault, rows
  <2>2. CASE \E l3 \in default : worker' = [worker EXCEPT ![w].pc = "l3_check", ![w].l3 = l3]
    BY <1>2, <1>3, <2>1, <2>2, MakingMoves DEF rows
  <2>3. CASE Goto(w, "l3_txn") \/ Fail(w)
    BY <1>2, <2>1, <2>3, UnlinkedMoves DEF rows, Unlinked
  <2> QED BY <1>4, <2>2, <2>3 DEF FindDefault
<1>5. CASE CreateDefault(w)
  <2>1. CASE Goto(w, "l3_refind") /\ UNCHANGED rows
    BY <1>2, <2>1, UnlinkedMoves DEF rows, Unlinked
  <2>2. ASSUME NEW l3 \in Fresh(L3s), Insert(l3, worker[w].isShared),
               worker' = [worker EXCEPT ![w].pc = "l3_own", ![w].l3 = l3],
               UNCHANGED <<l2_policy_id, l3_policy_id>>
        PROVE  Owed'
    <3>1. l3 \notin Groups \cup L2s
      BY Known, FreshFacts
    <3>2. live' = live \cup {l3} /\ \A v \in Workers : Spared(worker[v])
      BY <2>2, <3>1, InsertSpares DEF Insert
    <3> QED BY <1>2, <1>3, <2>2, <3>1, <3>2, MakingMoves
  <2> QED BY <1>5, <2>1, <2>2 DEF CreateDefault
<1> QED BY <1>4, <1>5

\* The L2 policy is live, so that marking it owned does not fail, ...
LEMMA MarkOwed ==
  ASSUME Inv, Inv', Owed, NEW w \in Workers, MarkL3Owned(w) \/ MarkL2Owned(w)
  PROVE  Owed'
<1> DEFINE q == worker[w]
           r == worker'[w]
<1>1. UNCHANGED <<live, shared, l2_policy_id, l3_policy_id>>
  BY DEF MarkL3Owned, MarkL2Owned, MarkOwned
<1>2. CASE MarkL3Owned(w)
  BY <1>1, <1>2, UnlinkedMoves DEF MarkL3Owned, MarkOwned, At, Unlinked
<1>3. CASE MarkL2Owned(w)
  <2>1. q.pc = "l2_own" /\ Making(q)
    BY <1>3 DEF MarkL2Owned, MarkOwned, At, Making
  <2>2. q.l2 \in live
    BY <2>1 DEF Owed, Solo, Relies
  <2>3. Others(w) /\ On(q, r, "l2_check")
    BY <1>3, <2>2, GotoFacts DEF MarkL2Owned, MarkOwned
  <2>4. Making(r) /\ q.pc \notin Unlinked /\ r.pc \notin Unlinked
    BY <2>1, <2>3 DEF On, Making, Unlinked
  <2>5. \A v \in Workers : Spared(worker[v])
    BY <1>1, RestSpares
  <2> QED BY <1>1, <2>1, <2>3, <2>4, <2>5, MakingMoves DEF On
<1> QED BY <1>2, <1>3

\* ... and it can be linked.
LEMMA CheckOwed ==
  ASSUME Inv, Inv', Owed, NEW w \in Workers, CheckL3(w) \/ CheckL2(w)
  PROVE  Owed'
<1> DEFINE q == worker[w]
           r == worker'[w]
<1>1. UNCHANGED rows
  BY DEF CheckL3, CheckL2
<1>2. CASE CheckL3(w)
  BY <1>1, <1>2, UnlinkedMoves DEF CheckL3, At, Unlinked, rows
<1>3. CASE CheckL2(w)
  <2>1. q.pc = "l2_check" /\ Making(q)
    BY <1>3 DEF CheckL2, At, Making
  <2>2. Linkable(q.isShared, q.l2)
    BY <2>1 DEF Owed, Solo, Relies, Linkable
  <2>3. Others(w) /\ On(q, r, "l2_set")
    BY <1>3, <2>2, GotoFacts DEF CheckL2
  <2>4. Making(r) /\ q.pc \notin Unlinked /\ r.pc \notin Unlinked
    BY <2>1, <2>3 DEF On, Making, Unlinked
  <2>5. \A v \in Workers : Spared(worker[v])
    BY <1>1, RestSpares DEF rows
  <2> QED BY <1>1, <2>1, <2>3, <2>4, <2>5, MakingMoves DEF On, rows
<1> QED BY <1>2, <1>3

\* The L2 policy gets its L3 policy.
LEMMA SetL3Owed ==
  ASSUME Inv, Inv', Owed, NEW w \in Workers, SetL3(w)
  PROVE  Owed'
<1> DEFINE q == worker[w]
           r == worker'[w]
<1>1. UNCHANGED <<live, shared, l2_policy_id>> /\ q.pc = "l3_set"
  BY DEF SetL3, At
<1>2. Making(q) /\ q.pc \in Unlinked /\ Fits(q) /\ Relies(q)
  BY <1>1 DEF Making, Unlinked, Owed, Solo
<1>3. CASE {q.l2, q.l3} \subseteq live
  <2>1. /\ l3_policy_id' = [l3_policy_id EXCEPT ![q.l2] = q.l3]
        /\ IF q.op = "create_group" THEN Goto(w, "l2_own") ELSE End(w)
    BY <1>3 DEF SetL3
  <2>2. q.l2 \in L2s \cap live /\ q.l3 # None
    BY <1>2, <1>3, Known DEF Relies
  <2>3. \A v \in Workers \ {w} : Spared(worker[v])
    <3>1. \A v \in Workers \ {w} : Making(worker[v]) => worker[v].l2 # q.l2
      BY DEF Owed, AllApart, Apart
    <3> QED BY <1>1, <2>1, <2>2, <3>1, L2Spares
  <2>4. \A l \in L2s : l3_policy_id'[l] = None => l # q.l2 /\ l3_policy_id[l] = None
    BY <2>1, <2>2, Known
  <2>5. PassesL2s(q, r)
    BY <1>1, <2>4 DEF PassesL2s, OwesL3
  <2>6. CASE q.op = "create_group" /\ Goto(w, "l2_own")
    <3>1. Others(w) /\ On(q, r, "l2_own")
      BY <2>6, GotoFacts
    <3>2. Making(r) /\ r.pc \notin Unlinked /\ r.op = "create_group" /\ r.pc = "l2_own"
      BY <2>6, <3>1 DEF On, Making, Unlinked
    <3> HIDE DEF q, r
    <3>3. Fits(r)
      BY <1>1, <1>2, <3>1, <3>2 DEF Fits, On, Making, Unlinked
    <3>4. Relies(worker[w])'
      <4>1. q.l2 \in L2s \cap live /\ GroupsOf(q.l2) = {} /\ (q.isShared => q.l2 \in shared)
            /\ q.group \in Groups \cap live /\ l2_policy_id[q.group] = None
        BY <1>2, <2>6 DEF Relies, Ungrouped
      <4> QED BY <1>1, <3>1, <3>2, <4>1
           DEF On, Relies, Making, Unlinked, Ungrouped, GroupsOf, r
    <3>5. \A v \in Workers \ {w} : Apart(worker[v], r) /\ Apart(r, worker[v])
      BY <1>2, <3>1, StaysApart DEF On, q, r
    <3>6. PassesGroups(q, r)
      BY <1>1, <1>2, <3>1, <3>2 DEF PassesGroups, OwesL2, On
    <3> QED BY <2>3, <2>5, <3>1, <3>3, <3>4, <3>5, <3>6, OwedStep DEF q, r
  <2>7. CASE q.op # "create_group" /\ End(w)
    <3>1. Others(w) /\ r = Idle
      BY <2>7, EndFacts
    <3>2. Fits(r) /\ ~Making(r) /\ r.group = None /\ r.l2 = None
      BY <3>1 DEF Fits, Making, Unlinked, Idle
    <3>3. Relies(worker[w])'
      BY <3>1 DEF Relies, Making, Unlinked, Ungrouped, Idle
    <3>4. \A v \in Workers \ {w} : Apart(worker[v], r) /\ Apart(r, worker[v])
      BY <3>2, StaysApart
    <3>5. \A g \in Groups : ~OwesL2(q, g)
      BY <1>2, <2>7, Known DEF Fits, OwesL2
    <3>6. PassesGroups(q, r)
      BY <1>1, <3>5 DEF PassesGroups
    <3> QED BY <2>3, <2>5, <3>1, <3>2, <3>3, <3>4, <3>6, OwedStep
  <2> QED BY <2>1, <2>6, <2>7
<1>4. CASE ~({q.l2, q.l3} \subseteq live)
  BY <1>1, <1>2, <1>4, UnlinkedMoves DEF SetL3, Unlinked
<1> QED BY <1>3, <1>4

\* The group gets its L2 policy.
LEMMA SetL2Owed ==
  ASSUME Inv, Inv', Owed, NEW w \in Workers, SetL2(w)
  PROVE  Owed'
<1> DEFINE q == worker[w]
           r == worker'[w]
<1>1. UNCHANGED <<live, shared, l3_policy_id>> /\ q.pc = "l2_set"
  BY DEF SetL2, At
<1>2. Making(q) /\ q.pc \notin Unlinked /\ Fits(q) /\ Relies(q)
  BY <1>1 DEF Making, Unlinked, Owed, Solo
<1>3. q.l2 \in L2s \cap live /\ q.group \in Groups \cap live /\ q.group # None
  BY <1>1, <1>2, Known DEF Fits, Relies, Ungrouped
<1>4. l2_policy_id' = [l2_policy_id EXCEPT ![q.group] = q.l2] /\ End(w)
  BY <1>3 DEF SetL2
<1>5. Others(w) /\ r = Idle
  BY <1>4, EndFacts
<1>6. Fits(r) /\ ~Making(r) /\ r.group = None /\ r.l2 = None
  BY <1>5 DEF Fits, Making, Unlinked, Idle
<1>7. Relies(worker[w])'
  BY <1>5 DEF Relies, Making, Unlinked, Ungrouped, Idle
<1>8. \A v \in Workers \ {w} : Apart(worker[v], r) /\ Apart(r, worker[v])
  BY <1>6, StaysApart
<1>9. \A v \in Workers \ {w} : Spared(worker[v])
  <2>1. \A v \in Workers \ {w} :
          worker[v].group # q.group /\ (Making(worker[v]) => worker[v].l2 # q.l2)
    BY <1>3 DEF Owed, AllApart, Apart
  <2> QED BY <1>1, <1>3, <1>4, <2>1, GroupSpares
<1>10. PassesGroups(q, r)
  <2>1. \A g \in Groups : l2_policy_id'[g] = None => g # q.group /\ l2_policy_id[g] = None
    BY <1>3, <1>4, Known
  <2> QED BY <1>1, <2>1 DEF PassesGroups, OwesL2
<1>11. PassesL2s(q, r)
  BY <1>1, <1>2 DEF PassesL2s, OwesL3
<1> QED BY <1>5, <1>6, <1>7, <1>8, <1>9, <1>10, <1>11, OwedStep

LEMMA CreateImplicitL2Owed ==
  ASSUME Inv, Inv', Owed, NEW w \in Workers, CreateImplicitL2(w)
  PROVE  Owed'
<1> DEFINE q == worker[w]
           r == worker'[w]
<1>1. PICK l2 \in Fresh(L2s) :
        /\ Insert(l2, q.isShared)
        /\ worker' = [worker EXCEPT ![w].pc = "l3_find", ![w].l2 = l2]
  BY DEF CreateImplicitL2
<1>2. UNCHANGED <<l2_policy_id, l3_policy_id>> /\ q.pc = "l2_txn"
  BY DEF CreateImplicitL2, At
<1>3. Others(w) /\ r.pc = "l3_find" /\ r.op = q.op /\ r.group = q.group /\ r.then = q.then
      /\ r.isShared = q.isShared /\ r.l2 = l2
  BY <1>1, InvParts DEF Others, WorkerTypes
<1>4. /\ l2 \in L2s /\ l2 \notin live /\ l2 \notin Groups /\ l3_policy_id[l2] = None
      /\ \A g \in Groups : l2_policy_id[g] # l2
      /\ \A v \in Workers : l2 # worker[v].group /\ l2 # worker[v].l2
  BY Known, FreshFacts
<1>5. live' = live \cup {l2} /\ (q.isShared => l2 \in shared')
  BY <1>1 DEF Insert
<1>6. \A v \in Workers : Spared(worker[v])
  BY <1>1, <1>2, <1>4, InsertSpares
<1>7. Fits(q) /\ Relies(q) /\ ~Making(q) /\ Ungrouped(q) /\ q.op = "create_group"
  BY <1>2 DEF Owed, Solo, Making, Unlinked, Ungrouped, Fits
<1>8. q.group \in Groups \cap live /\ l2_policy_id[q.group] = None
  BY <1>7 DEF Relies
<1> HIDE DEF q, r
<1>9. Fits(r)
  BY <1>2, <1>3, <1>7 DEF Fits, Making, Unlinked
<1>10. Relies(worker[w])'
  BY <1>2, <1>3, <1>4, <1>5, <1>8 DEF Relies, Making, Unlinked, Ungrouped, GroupsOf, r
<1>11. \A v \in Workers \ {w} : Apart(worker[v], r) /\ Apart(r, worker[v])
  <2> SUFFICES ASSUME NEW v \in Workers \ {w} PROVE Apart(worker[v], r) /\ Apart(r, worker[v])
    OBVIOUS
  <2>1. Apart(worker[v], q) /\ Apart(q, worker[v])
    BY DEF Owed, AllApart, q
  <2> QED BY <1>3, <1>4, <2>1 DEF Apart
<1>12. PassesGroups(q, r)
  BY <1>2, <1>3, <1>4, <1>5, <1>7 DEF PassesGroups, OwesL2, Making, Unlinked
<1>13. PassesL2s(q, r)
  <2>1. OwesL3(r, l2) /\ \A l \in L2s : ~OwesL3(q, l)
    BY <1>2, <1>3 DEF OwesL3, Unlinked
  <2> QED BY <1>2, <1>5, <2>1 DEF PassesL2s
<1> QED BY <1>3, <1>6, <1>9, <1>10, <1>11, <1>12, <1>13, OwedStep DEF q, r

\* A worker is done with its group, ...
LEMMA EndOwed ==
  ASSUME Inv, Inv', Owed, NEW w \in Workers, End(w),
         UNCHANGED <<live, shared, l2_policy_id, l3_policy_id>>, worker[w].pc \notin Unlinked,
         \A g \in Groups \cap live : ~OwesL2(worker[w], g)
  PROVE  Owed'
<1>1. Others(w) /\ worker'[w] = Idle
  BY EndFacts
<1>2. Fits(Idle) /\ ~Making(Idle) /\ Idle.pc = "idle" /\ Idle.group = None /\ Idle.l2 = None
  BY DEF Fits, Making, Unlinked, Idle
<1> QED BY <1>1, <1>2, RestingMoves

\* ... or with an L3 policy, and goes on to delete its group.
LEMMA ResumeOwed ==
  ASSUME Inv, Inv', Owed, NEW w \in Workers, Resume(w),
         worker[w].pc \in {"l3_cleanup", "l3_delete"}
  PROVE  /\ Others(w) /\ Fits(worker'[w]) /\ Relies(worker[w])' /\ ~Making(worker'[w])
         /\ worker'[w].pc \in {"idle", "group_read"}
         /\ worker'[w].group \in {worker[w].group, None}
         /\ worker'[w].l2 \in {worker[w].l2, None}
         /\ \A g \in Groups : OwesL2(worker[w], g) => OwesL2(worker'[w], g)
<1> DEFINE q == worker[w]
           r == worker'[w]
<1>1. Others(w) /\ HasResumed(q, r)
  BY ResumeFacts
<1>2. Fits(q) /\ q.then \in {"idle", "group_read"}
  BY Known DEF Owed, Solo, Fits, WorkerTypes
<1>3. CASE q.then = "idle"
  <2>1. r = Idle
    BY <1>1, <1>3 DEF HasResumed
  <2>2. \A g \in Groups : ~OwesL2(q, g)
    BY <1>3 DEF OwesL2, Making, Unlinked
  <2> QED BY <1>1, <2>1, <2>2 DEF Fits, Relies, Making, Unlinked, Ungrouped, Idle
<1>4. CASE q.then = "group_read"
  <2> HIDE DEF q, r
  <2>1. r.pc = "group_read" /\ r.op = q.op /\ r.group = q.group /\ r.l2 = q.l2
        /\ r.then = "idle" /\ q.op = "create_group"
    BY <1>1, <1>2, <1>4 DEF HasResumed, Fits
  <2>2. Fits(r) /\ ~Making(r)
    BY <2>1 DEF Fits, Making, Unlinked
  <2>3. Relies(worker[w])'
    BY <2>1 DEF Relies, Making, Unlinked, Ungrouped, r
  <2>4. \A g \in Groups : OwesL2(q, g) => OwesL2(r, g)
    BY <2>1 DEF OwesL2
  <2> QED BY <1>1, <2>1, <2>2, <2>3, <2>4 DEF q, r
<1> QED BY <1>2, <1>3, <1>4

LEMMA ResumeMoves ==
  ASSUME Inv, Inv', Owed, NEW w \in Workers, Resume(w), UNCHANGED rows,
         worker[w].pc \in {"l3_cleanup", "l3_delete"}
  PROVE  Owed'
<1>1. worker[w].pc \notin Unlinked
  BY DEF Unlinked
<1> QED BY <1>1, ResumeOwed, RestingMoves DEF rows

\* A worker that deletes its group remembers its L2 policy.
LEMMA ReadGroupOwed ==
  ASSUME Inv, Inv', Owed, NEW w \in Workers, ReadGroup(w)
  PROVE  Owed'
<1> DEFINE q == worker[w]
           r == worker'[w]
<1>1. UNCHANGED rows /\ q.pc = "group_read" /\ Fits(q)
  BY DEF ReadGroup, At, Owed, Solo
<1>2. q.pc \notin Unlinked
  BY <1>1 DEF Unlinked
<1>3. CASE q.group \in live
  <2>1. q.group \in Groups
    BY <1>3, Known DEF WorkerTypes
  <2>2. Others(w) /\ r.pc = "group_delete" /\ r.op = q.op /\ r.group = q.group
        /\ r.then = q.then /\ r.l2 = l2_policy_id[q.group]
    BY <1>3, InvParts DEF ReadGroup, WorkerTypes, Others
  <2>3. \A v \in Workers : Spared(worker[v])
    BY <1>1, RestSpares DEF rows
  <2>4. \A v \in Workers \ {w} : Apart(worker[v], r) /\ Apart(r, worker[v])
    <3> SUFFICES ASSUME NEW v \in Workers \ {w}
                 PROVE  Apart(worker[v], r) /\ Apart(r, worker[v])
      OBVIOUS
    <3>1. Apart(worker[v], q) /\ Apart(q, worker[v])
      BY DEF Owed, AllApart
    <3>2. Making(worker[v]) => r.l2 # worker[v].l2
      BY <1>3, <2>1, <2>2 DEF Owed, Solo, Relies, GroupsOf
    <3>3. ~Making(r)
      BY <2>2 DEF Making, Unlinked
    <3> QED BY <2>2, <3>1, <3>2, <3>3 DEF Apart
  <2> HIDE DEF q, r
  <2>5. Fits(r)
    BY <1>1, <2>2 DEF Fits, Making, Unlinked
  <2>6. Relies(worker[w])'
    BY <1>1, <2>2 DEF Relies, Making, Unlinked, Ungrouped, rows, r
  <2>7. PassesGroups(q, r) /\ PassesL2s(q, r)
    BY <1>1, <1>2, <2>2 DEF PassesGroups, PassesL2s, OwesL2, OwesL3, rows
  <2> QED BY <2>2, <2>3, <2>4, <2>5, <2>6, <2>7, OwedStep DEF q, r
<1>4. CASE q.group \notin live
  <2>1. End(w) /\ \A g \in Groups \cap live : ~OwesL2(q, g)
    BY <1>4 DEF ReadGroup, OwesL2
  <2> QED BY <1>1, <1>2, <2>1, EndOwed DEF rows
<1> QED BY <1>3, <1>4

LEMMA DeleteGroupRowOwed ==
  ASSUME Inv, Inv', Owed, NEW w \in Workers, DeleteGroupRow(w)
  PROVE  Owed'
<1> DEFINE q == worker[w]
           r == worker'[w]
<1>1. q.pc = "group_delete" /\ Fits(q)
  BY DEF DeleteGroupRow, At, Owed, Solo
<1>2. q.pc \notin Unlinked
  BY <1>1 DEF Unlinked
<1>3. CASE q.group \in live /\ Erase(q.group) /\ Goto(w, "l2_cleanup")
  <2>1. q.group \in Groups /\ q.group # None
    BY <1>3, Known DEF WorkerTypes
  <2>2. Others(w) /\ On(q, r, "l2_cleanup")
    BY <1>3, GotoFacts
  <2>3. ~Making(r)
    BY <2>2 DEF On, Making, Unlinked
  <2>4. \A v \in Workers \ {w} : Spared(worker[v])
    <3>1. \A v \in Workers \ {w} :
            worker[v].group # q.group /\ (Making(worker[v]) => worker[v].l2 # q.group)
      BY <2>1, Known DEF Owed, AllApart, Apart, WorkerTypes
    <3> QED BY <1>3, <3>1, EraseSpares
  <2>5. \A v \in Workers \ {w} : Apart(worker[v], r) /\ Apart(r, worker[v])
    BY <2>2, <2>3, StaysApart DEF On
  <2> HIDE DEF q, r
  <2>6. Fits(r)
    BY <1>1, <2>2 DEF On, Fits, Making, Unlinked
  <2>7. Relies(worker[w])'
    BY <2>2 DEF On, Relies, Making, Unlinked, Ungrouped, r
  <2>8. PassesGroups(q, r)
    <3>1. \A g \in Groups \cap live' :
            l2_policy_id'[g] = None => g # q.group /\ g \in live /\ l2_policy_id[g] = None
      BY <1>3 DEF Erase
    <3> QED BY <3>1 DEF PassesGroups, OwesL2
  <2>9. PassesL2s(q, r)
    <3>1. \A l \in L2s \cap live' : l3_policy_id'[l] = None => l \in live /\ l3_policy_id[l] = None
      BY <1>3, <2>1, Known DEF Erase
    <3> QED BY <1>2, <3>1 DEF PassesL2s, OwesL3
  <2> QED BY <2>2, <2>4, <2>5, <2>6, <2>7, <2>8, <2>9, OwedStep DEF q, r
<1>4. CASE q.group \notin live /\ End(w) /\ UNCHANGED rows
  <2>1. \A g \in Groups \cap live : ~OwesL2(q, g)
    BY <1>4 DEF OwesL2
  <2> QED BY <1>2, <1>4, <2>1, EndOwed DEF rows
<1> QED BY <1>3, <1>4 DEF DeleteGroupRow

LEMMA CleanupOwed ==
  ASSUME Inv, Inv', Owed, NEW w \in Workers, CleanupL2(w) \/ CleanupL3(w)
  PROVE  Owed'
<1> DEFINE q == worker[w]
           r == worker'[w]
<1>1. UNCHANGED rows /\ q.pc \in {"l2_cleanup", "l3_cleanup"} /\ Fits(q)
  BY DEF CleanupL2, CleanupL3, At, Owed, Solo
<1>2. q.pc \notin Unlinked
  BY <1>1 DEF Unlinked
<1>3. ASSUME NEW pc \in {"l2_delete", "l3_delete"}, Goto(w, pc),
             q.pc = "l3_cleanup" => pc = "l3_delete"
      PROVE  Owed'
  <2>1. Others(w) /\ On(q, r, pc)
    BY <1>3, GotoFacts
  <2> HIDE DEF q, r
  <2>2. Fits(r) /\ ~Making(r)
    BY <1>1, <1>3, <2>1 DEF On, Fits, Making, Unlinked
  <2>3. \A g \in Groups : OwesL2(q, g) => OwesL2(r, g)
    BY <1>1, <2>1 DEF On, OwesL2, Making, Unlinked
  <2> QED BY <1>1, <1>2, <2>1, <2>2, <2>3, RestingMoves DEF On, rows, q, r
<1>4. CASE CleanupL2(w)
  <2>1. q.pc = "l2_cleanup"
    BY <1>4 DEF CleanupL2, At
  <2>2. \A g \in Groups : ~OwesL2(q, g)
    BY <1>1, <2>1 DEF OwesL2, Fits, Making, Unlinked
  <2> QED BY <1>1, <1>2, <1>3, <1>4, <2>1, <2>2, EndOwed DEF CleanupL2, rows
<1>5. CASE CleanupL3(w)
  <2>1. q.pc = "l3_cleanup"
    BY <1>5 DEF CleanupL3, At
  <2> QED BY <1>1, <1>3, <1>5, <2>1, ResumeMoves DEF CleanupL3
<1> QED BY <1>4, <1>5

LEMMA DeleteOwnedL3Owed ==
  ASSUME Inv, Inv', Owed, NEW w \in Workers, DeleteOwnedL3(w)
  PROVE  Owed'
<1> DEFINE q == worker[w]
           r == worker'[w]
           l3 == q.l3
<1>1. q.pc = "l3_delete" /\ Fits(q)
  BY DEF DeleteOwnedL3, At, Owed, Solo
<1>2. CASE l3 \in live /\ Erase(l3) /\ Resume(w)
  <2>1. l3 \notin Groups \cup L2s /\ l3 # None
    BY <1>2, Known DEF WorkerTypes
  <2>2. \A v \in Workers : Spared(worker[v])
    <3>1. \A v \in Workers : worker[v].group # l3 /\ worker[v].l2 # l3
      BY <2>1, Known DEF WorkerTypes
    <3> QED BY <1>2, <3>1, EraseSpares
  <2>3. /\ \A g \in Groups \cap live' : g \in live /\ l2_policy_id'[g] = l2_policy_id[g]
        /\ \A l \in L2s \cap live' : l \in live /\ l3_policy_id'[l] = l3_policy_id[l]
    BY <1>2, <2>1 DEF Erase
  <2>4. /\ Others(w) /\ Fits(r) /\ Relies(worker[w])' /\ ~Making(r)
        /\ r.group \in {q.group, None} /\ r.l2 \in {q.l2, None}
        /\ \A g \in Groups : OwesL2(q, g) => OwesL2(r, g)
    BY <1>1, <1>2, ResumeOwed
  <2>5. \A v \in Workers \ {w} : Apart(worker[v], r) /\ Apart(r, worker[v])
    BY <2>4, StaysApart
  <2>6. \A l \in L2s : ~OwesL3(q, l)
    BY <1>1 DEF OwesL3, Unlinked
  <2>7. PassesGroups(q, r) /\ PassesL2s(q, r)
    BY <2>3, <2>4, <2>6 DEF PassesGroups, PassesL2s
  <2> QED BY <2>2, <2>4, <2>5, <2>7, OwedStep
<1>3. CASE Resume(w) /\ UNCHANGED rows
  BY <1>1, <1>3, ResumeMoves
<1>4. q.op # "update_l2"
  BY <1>1 DEF Fits
<1> QED BY <1>2, <1>3, <1>4 DEF DeleteOwnedL3

LEMMA OwedInit == Init => Owed
BY DEF Init, Owed, Solo, AllApart, GroupsAreOwed, L2sAreOwed, Fits, Relies, Apart, Making,
       Unlinked, Ungrouped, Idle

LEMMA OwedNext ==
  ASSUME Patient, "update_l2" \notin Requests, Inv, Inv', Owed, [Next]_vars
  PROVE  Owed'
<1>1. CASE UNCHANGED vars
  BY <1>1 DEF vars, rows, Owed, Solo, AllApart, GroupsAreOwed, L2sAreOwed, Fits, Relies,
     Apart, OwesL2, OwesL3, Making, Unlinked, Ungrouped, GroupsOf
<1>2. ASSUME NEW w \in Workers, Request(w) PROVE Owed'
  <2>1. ~UpdateL2Policy(w)
    BY DEF UpdateL2Policy, Accept
  <2> QED BY <1>2, <2>1, CreateGroupOwed, UpdateGroupOwed, DeleteGroupOwed, CreateL2Owed,
        DeleteL2Owed, L3RequestOwed DEF Request
<1>3. ASSUME NEW w \in Workers, Work(w) PROVE Owed'
  BY <1>3, DefaultOwed, MarkOwed, CheckOwed, SetL3Owed, CreateImplicitL2Owed, SetL2Owed,
     UndoL2Owed, ReadGroupOwed, DeleteGroupRowOwed, CleanupOwed, DeleteOwnedL2Owed,
     DeleteOwnedL3Owed DEF Work
<1> QED BY <1>1, <1>2, <1>3 DEF Next

LEMMA OwedHolds ==
  ASSUME Patient, "update_l2" \notin Requests
  PROVE  Spec => []Owed
<1>1. Inv /\ Inv' /\ Owed /\ [Next]_vars => Owed'
  BY OwedNext
<1> QED BY <1>1, OwedInit, InvHolds, PTL DEF Spec

\* When no request runs, every group has an L2 policy and every L2 policy an L3
\* policy, however the creations, their failures and the deletions of patient
\* clients have interleaved.
THEOREM EveryRowGetsItsPolicy ==
  ASSUME Patient, "update_l2" \notin Requests
  PROVE  Spec => []EveryRowHasItsPolicy
<1>1. ASSUME Inv, Owed, Quiet
      PROVE  /\ \A g \in Groups \cap live : l2_policy_id[g] # None
             /\ \A l \in L2s \cap live : l3_policy_id[l] # None
  <2>1. \A w \in Workers : worker[w].pc = "idle"
    BY <1>1 DEF Quiet, At
  <2>2. \A w \in Workers : /\ \A g \in Groups : ~OwesL2(worker[w], g)
                           /\ \A l \in L2s : ~OwesL3(worker[w], l)
    BY <1>1, <2>1, IdleOwesNothing
  <2> QED BY <1>1, <2>2 DEF Owed, GroupsAreOwed, L2sAreOwed
<1>2. Inv /\ Owed => EveryRowHasItsPolicy
  BY <1>1 DEF EveryRowHasItsPolicy
<1> QED BY <1>2, InvHolds, OwedHolds, PTL

--------------------
(* Every owned policy is minded *)

\* The worker will give the owned policy a user, or delete it.
MindsL2(q, l) == q.l2 = l /\ q.pc \in {"l2_check", "l2_set", "l2_cleanup", "l2_delete"}
MindsL3(q, l) ==
  /\ q.l3 = l
  /\ \/ q.pc \in {"l3_set", "l3_cleanup", "l3_delete"}
     \/ q.pc = "l3_check" /\ (q.isShared => l \in shared)

L2sAreMinded ==
  \A l \in L2s \cap owned : GroupsOf(l) # {} \/ \E w \in Workers : MindsL2(worker[w], l)
L3sAreMinded ==
  \A l \in L3s \cap owned : L2sOf(l) # {} \/ \E w \in Workers : MindsL3(worker[w], l)

Minded == L2sAreMinded /\ L3sAreMinded

\* Users of a policy go on to use it.
GroupsStay ==
  \A g \in Groups \cap live : l2_policy_id[g] # None =>
    g \in live' /\ l2_policy_id'[g] = l2_policy_id[g]
L2sStay ==
  \A l \in L2s \cap live : l3_policy_id[l] # None =>
    l \in live' /\ l3_policy_id'[l] = l3_policy_id[l]

\* An owned policy without users is not the worker's duty, or remains so.
PassesOwnedL2s(w) ==
  \A l \in L2s \cap owned' : GroupsOf(l)' = {} =>
    MindsL2(worker'[w], l) \/ (l \in owned /\ GroupsOf(l) = {} /\ ~MindsL2(worker[w], l))
PassesOwnedL3s(w) ==
  \A l \in L3s \cap owned' : L2sOf(l)' = {} =>
    MindsL3(worker[w], l)' \/ (l \in owned /\ L2sOf(l) = {} /\ ~MindsL3(worker[w], l))

LEMMA MindedStep ==
  ASSUME Inv, Inv', Minded, NEW w \in Workers, Others(w), shared \cap live' \subseteq shared',
         PassesOwnedL2s(w), PassesOwnedL3s(w)
  PROVE  Minded'
<1>1. L2sAreMinded'
  <2>1. ASSUME NEW l \in L2s \cap owned', GroupsOf(l)' = {}
        PROVE  \E v \in Workers : MindsL2(worker'[v], l)
    <3>1. CASE MindsL2(worker'[w], l)
      BY <3>1
    <3>2. CASE l \in owned /\ GroupsOf(l) = {} /\ ~MindsL2(worker[w], l)
      <4>1. PICK v \in Workers : MindsL2(worker[v], l)
        BY <2>1, <3>2 DEF Minded, L2sAreMinded
      <4>2. v # w
        BY <3>2, <4>1
      <4> QED BY <4>1, <4>2 DEF Others
    <3> QED BY <2>1, <3>1, <3>2 DEF PassesOwnedL2s
  <2> QED BY <2>1 DEF L2sAreMinded, MindsL2
<1>2. L3sAreMinded'
  <2>1. ASSUME NEW l \in L3s \cap owned', L2sOf(l)' = {}
        PROVE  \E v \in Workers : MindsL3(worker[v], l)'
    <3>1. CASE MindsL3(worker[w], l)'
      BY <3>1
    <3>2. CASE l \in owned /\ L2sOf(l) = {} /\ ~MindsL3(worker[w], l)
      <4>1. PICK v \in Workers : MindsL3(worker[v], l)
        BY <2>1, <3>2 DEF Minded, L3sAreMinded
      <4>2. worker'[v] = worker[v]
        BY <3>2, <4>1 DEF Others
      <4>3. l \in shared => l \in shared'
        BY <2>1 DEF Inv, TypeOK
      <4> QED BY <4>1, <4>2, <4>3 DEF MindsL3
    <3> QED BY <2>1, <3>1, <3>2 DEF PassesOwnedL3s
  <2> QED BY <2>1 DEF L3sAreMinded
<1> QED BY <1>1, <1>2 DEF Minded

\* What the users of a policy and its worker do decides whether it stays minded.
LEMMA L2sPass ==
  ASSUME Inv, NEW w \in Workers, GroupsStay,
         \A l \in L2s \cap owned' : l \in owned \/ MindsL2(worker'[w], l),
         \A l \in L2s \cap owned' :
           MindsL2(worker[w], l) => MindsL2(worker'[w], l) \/ GroupsOf(l)' # {}
  PROVE  PassesOwnedL2s(w)
<1>1. ASSUME NEW l \in L2s, GroupsOf(l)' = {} PROVE GroupsOf(l) = {}
  <2>1. l # None
    BY Known
  <2> QED BY <1>1, <2>1 DEF GroupsStay, GroupsOf
<1> QED BY <1>1 DEF PassesOwnedL2s

LEMMA L3sPass ==
  ASSUME Inv, NEW w \in Workers, L2sStay,
         \A l \in L3s \cap owned' : l \in owned \/ MindsL3(worker[w], l)',
         \A l \in L3s \cap owned' :
           MindsL3(worker[w], l) => MindsL3(worker[w], l)' \/ L2sOf(l)' # {}
  PROVE  PassesOwnedL3s(w)
<1>1. ASSUME NEW l \in L3s, L2sOf(l)' = {} PROVE L2sOf(l) = {}
  <2>1. l # None
    BY Known
  <2> QED BY <1>1, <2>1 DEF L2sStay, L2sOf
<1> QED BY <1>1 DEF PassesOwnedL3s

\* Steps of workers that mind nothing, and leave the users of policies alone.
Minding == {"l2_check", "l2_set", "l2_cleanup", "l2_delete", "l3_check", "l3_set",
            "l3_cleanup", "l3_delete"}

LEMMA NothingMinded ==
  ASSUME NEW q, q.pc \notin Minding
  PROVE  \A l : ~MindsL2(q, l) /\ ~MindsL3(q, l)
BY DEF Minding, MindsL2, MindsL3

LEMMA MindlessKeepsMinded ==
  ASSUME Inv, Inv', Minded, NEW w \in Workers, Others(w), worker[w].pc \notin Minding,
         GroupsStay, L2sStay, owned' \subseteq owned, shared \cap live' \subseteq shared'
  PROVE  Minded'
<1>1. PassesOwnedL2s(w)
  BY NothingMinded, L2sPass
<1>2. PassesOwnedL3s(w)
  BY NothingMinded, L3sPass
<1> QED BY <1>1, <1>2, MindedStep

LEMMA InsertLeaves ==
  ASSUME Inv, NEW S, NEW x \in Fresh(S), NEW isShared, Insert(x, isShared),
         \A g \in Groups : g # x => l2_policy_id'[g] = l2_policy_id[g],
         \A l \in L2s : l # x => l3_policy_id'[l] = l3_policy_id[l]
  PROVE  GroupsStay /\ L2sStay /\ shared \cap live' \subseteq shared'
BY FreshFacts DEF Insert, GroupsStay, L2sStay

LEMMA EraseLeaves ==
  ASSUME Inv, NEW x, Erase(x)
  PROVE  /\ owned' = owned \ {x} /\ shared \cap live' \subseteq shared'
         /\ x \notin Groups => GroupsStay
         /\ x \notin L2s => L2sStay
BY DEF Erase, GroupsStay, L2sStay

LEMMA RequestsMind ==
  ASSUME Inv, Inv', Minded, NEW w \in Workers,
         \/ CreatePolicyTargetGroup(w) \/ UpdatePolicyTargetGroup(w)
         \/ DeletePolicyTargetGroup(w) \/ CreateL2Policy(w)
         \/ CreateL3Policy(w) \/ RenameL3Policy(w) \/ DeleteL3Policy(w)
  PROVE  Minded'
<1>1. worker[w].pc \notin Minding
  BY DEF CreatePolicyTargetGroup, UpdatePolicyTargetGroup, DeletePolicyTargetGroup,
         CreateL2Policy, CreateL3Policy, RenameL3Policy, DeleteL3Policy, Accept, At, Minding
<1>2. CASE CreatePolicyTargetGroup(w)
  <2>1. PICK g \in Fresh(Groups), l2 \in L2s \cup {None}, isShared \in BOOLEAN :
          NewGroup(w, g, l2, isShared)
    BY <1>2, CreateGroupFacts
  <2> USE DEF NewGroup
  <2>2. \A h \in Groups : h # g => l2_policy_id'[h] = l2_policy_id[h]
    BY <2>1, Known
  <2>3. GroupsStay /\ L2sStay /\ shared \cap live' \subseteq shared'
    BY <2>1, <2>2, InsertLeaves
  <2> QED BY <1>1, <2>1, <2>3, MindlessKeepsMinded
<1>3. CASE UpdatePolicyTargetGroup(w)
  <2>1. PICK g \in Groups \cap live, l2 \in L2s :
          l2_policy_id[g] = None /\ l2_policy_id' = [l2_policy_id EXCEPT ![g] = l2]
    BY <1>3 DEF UpdatePolicyTargetGroup
  <2>2. UNCHANGED <<live, shared, owned, l3_policy_id>> /\ Others(w)
    BY <1>3 DEF UpdatePolicyTargetGroup, Others
  <2>3. GroupsStay /\ L2sStay
    BY <2>1, <2>2, Known DEF GroupsStay, L2sStay
  <2> QED BY <1>1, <2>2, <2>3, MindlessKeepsMinded
<1>4. CASE DeletePolicyTargetGroup(w)
  <2>1. UNCHANGED rows
    BY <1>4 DEF DeletePolicyTargetGroup
  <2>3. Others(w)
    BY <1>4, InvParts DEF DeletePolicyTargetGroup, Others
  <2>2. GroupsStay /\ L2sStay
    BY <2>1 DEF GroupsStay, L2sStay, rows
  <2> QED BY <1>1, <2>1, <2>2, <2>3, MindlessKeepsMinded DEF rows
<1>5. CASE CreateL2Policy(w)
  <2>1. PICK l2 \in Fresh(L2s), l3 \in L3s \cup {None}, isShared \in BOOLEAN :
          NewL2(w, l2, l3, isShared)
    BY <1>5, CreateL2Facts
  <2> USE DEF NewL2
  <2>2. \A h \in L2s : h # l2 => l3_policy_id'[h] = l3_policy_id[h]
    BY <2>1, Known
  <2>3. GroupsStay /\ L2sStay /\ shared \cap live' \subseteq shared'
    BY <2>1, <2>2, InsertLeaves
  <2> QED BY <1>1, <2>1, <2>3, MindlessKeepsMinded
<1>6. CASE CreateL3Policy(w)
  <2>1. PICK l3 \in Fresh(L3s), isShared \in Flags : Insert(l3, isShared)
    BY <1>6 DEF CreateL3Policy
  <2>2. UNCHANGED <<owned, l2_policy_id, l3_policy_id>> /\ Others(w)
    BY <1>6 DEF CreateL3Policy, Others
  <2>3. GroupsStay /\ L2sStay /\ shared \cap live' \subseteq shared'
    BY <2>1, <2>2, InsertLeaves
  <2> QED BY <1>1, <2>2, <2>3, MindlessKeepsMinded
<1>7. CASE RenameL3Policy(w)
  <2>1. UNCHANGED <<live, shared, owned, l2_policy_id, l3_policy_id>> /\ Others(w)
    BY <1>7 DEF RenameL3Policy, Others
  <2>2. GroupsStay /\ L2sStay
    BY <2>1 DEF GroupsStay, L2sStay
  <2> QED BY <1>1, <2>1, <2>2, MindlessKeepsMinded
<1>8. CASE DeleteL3Policy(w)
  <2>1. PICK l3 \in L3s \cap live : Erase(l3)
    BY <1>8 DEF DeleteL3Policy
  <2>2. l3 \notin Groups \cup L2s /\ Others(w)
    BY <1>8, Known DEF DeleteL3Policy, Others
  <2>3. GroupsStay /\ L2sStay /\ owned' \subseteq owned /\ shared \cap live' \subseteq shared'
    BY <2>1, <2>2, EraseLeaves
  <2> QED BY <1>1, <2>2, <2>3, MindlessKeepsMinded
<1> QED BY <1>2, <1>3, <1>4, <1>5, <1>6, <1>7, <1>8

\* Whoever deletes an L2 policy sees to its L3 policy.
LEMMA DeleteL2RowMinds ==
  ASSUME Inv, Inv', Minded, NEW w \in Workers, NEW op \in Operations \cup {"none"},
         NEW l2 \in L2s, NEW next \in {"idle", "group_read"}, DeleteL2Row(w, op, l2, next),
         worker[w].pc \notin Minding \/ (worker[w].pc = "l2_delete" /\ worker[w].l2 = l2)
  PROVE  Minded'
<1> DEFINE q == worker[w]
           r == worker'[w]
<1>1. /\ l2 \in live /\ Erase(l2) /\ Others(w)
      /\ r.pc = "l3_cleanup" /\ r.l3 = l3_policy_id[l2]
  BY DeleteL2Facts
<1>2. owned' = owned \ {l2} /\ shared \cap live' \subseteq shared' /\ GroupsStay
  BY <1>1, Known, EraseLeaves
<1>3. PassesOwnedL2s(w)
  <2>1. \A l \in L2s : MindsL2(q, l) => l = l2
    BY DEF MindsL2, Minding
  <2> QED BY <1>2, <2>1, L2sPass
<1>4. PassesOwnedL3s(w)
  <2>1. ASSUME NEW l \in L3s \cap owned', L2sOf(l)' = {}
        PROVE  MindsL3(worker[w], l)' \/ (l \in owned /\ L2sOf(l) = {} /\ ~MindsL3(worker[w], l))
    <3>1. ~MindsL3(q, l)
      BY DEF MindsL3, Minding
    <3>2. CASE l = l3_policy_id[l2]
      BY <1>1, <3>2 DEF MindsL3
    <3>3. CASE l # l3_policy_id[l2]
      <4>1. ASSUME NEW k \in L2s \cap live, l3_policy_id[k] = l
            PROVE  k \in L2s \cap live' /\ l3_policy_id'[k] = l
        BY <1>1, <3>3, <4>1 DEF Erase
      <4>2. L2sOf(l) = {}
        BY <2>1, <4>1 DEF L2sOf
      <4> QED BY <1>2, <3>1, <4>2
    <3> QED BY <3>2, <3>3
  <2> QED BY <2>1 DEF PassesOwnedL3s
<1> QED BY <1>1, <1>2, <1>3, <1>4, MindedStep

LEMMA DeletionsOfL2Mind ==
  ASSUME Inv, Inv', Owed, Minded, NEW w \in Workers,
         DeleteL2Policy(w) \/ UndoL2(w) \/ DeleteOwnedL2(w)
  PROVE  Minded'
<1> DEFINE q == worker[w]
<1>1. q.op \in Operations \cup {"none"} /\ "delete_l2" \in Operations
  BY Known DEF WorkerTypes, Operations
<1>2. CASE DeleteL2Policy(w)
  <2>1. PICK l2 \in L2s : DeleteL2Row(w, "delete_l2", l2, "idle")
    BY <1>2 DEF DeleteL2Policy
  <2>2. q.pc \notin Minding
    BY <1>2 DEF DeleteL2Policy, Accept, At, Minding
  <2> QED BY <1>1, <2>1, <2>2, DeleteL2RowMinds
<1>3. CASE UndoL2(w)
  <2> DEFINE next == IF q.op = "create_group" THEN "group_read" ELSE "idle"
  <2>1. q.pc = "l2_undo" /\ q.pc \notin Minding /\ Making(q)
    BY <1>3 DEF UndoL2, At, Minding, Making, Unlinked
  <2>2. q.l2 \in L2s \cap live /\ GroupsOf(q.l2) = {}
    BY <2>1 DEF Owed, Solo, Relies
  <2>3. DeleteL2Row(w, q.op, q.l2, next) /\ next \in {"idle", "group_read"}
    BY <1>3, <2>2 DEF UndoL2
  <2> HIDE DEF next
  <2> QED BY <1>1, <2>1, <2>2, <2>3, DeleteL2RowMinds
<1>4. CASE DeleteOwnedL2(w)
  <2>1. q.pc = "l2_delete"
    BY <1>4 DEF DeleteOwnedL2, At
  <2>2. CASE DeleteL2Row(w, q.op, q.l2, "idle")
    <3>1. q.l2 \in L2s
      BY <2>2, Known DEF DeleteL2Row, WorkerTypes
    <3> QED BY <1>1, <2>1, <2>2, <3>1, DeleteL2RowMinds
  <2>3. CASE (q.l2 \notin live \/ GroupsOf(q.l2) # {}) /\ End(w) /\ UNCHANGED rows
    <3>1. Others(w) /\ GroupsStay /\ L2sStay
      BY <2>3, EndFacts DEF GroupsStay, L2sStay, rows
    <3>2. PassesOwnedL2s(w)
      <4>1. \A l \in L2s \cap owned' : MindsL2(q, l) => GroupsOf(l)' # {}
        BY <2>3, Known DEF MindsL2, GroupsOf, rows
      <4> QED BY <2>3, <3>1, <4>1, L2sPass DEF rows
    <3>3. PassesOwnedL3s(w)
      BY <2>1, <2>3, <3>1, L3sPass DEF MindsL3, rows
    <3> QED BY <2>3, <3>1, <3>2, <3>3, MindedStep DEF rows
  <2> QED BY <1>4, <2>2, <2>3 DEF DeleteOwnedL2
<1> QED BY <1>2, <1>3, <1>4

\* Steps of a worker that change no row; and those that mark its policy owned.
LEMMA RestMinds ==
  ASSUME Inv, Inv', Minded, NEW w \in Workers, Others(w),
         UNCHANGED <<live, shared, l2_policy_id, l3_policy_id>>,
         \A l \in L2s \cap owned' : l \in owned \/ MindsL2(worker'[w], l),
         \A l \in L3s \cap owned' : l \in owned \/ MindsL3(worker[w], l)',
         \A l \in L2s \cap owned :
           MindsL2(worker[w], l) => MindsL2(worker'[w], l) \/ GroupsOf(l) # {},
         \A l \in L3s \cap owned :
           MindsL3(worker[w], l) => MindsL3(worker[w], l)' \/ L2sOf(l) # {},
         worker[w].pc \in Minding => owned' = owned
  PROVE  Minded'
<1>1. GroupsStay /\ L2sStay
  BY DEF GroupsStay, L2sStay
<1>2. PassesOwnedL2s(w)
  <2>1. ASSUME NEW l \in L2s \cap owned', MindsL2(worker[w], l)
        PROVE  MindsL2(worker'[w], l) \/ GroupsOf(l)' # {}
    <3>1. l \in owned
      BY <2>1, NothingMinded
    <3>2. GroupsOf(l)' = GroupsOf(l)
      BY DEF GroupsOf
    <3> QED BY <2>1, <3>1, <3>2
  <2> QED BY <1>1, <2>1, L2sPass
<1>3. PassesOwnedL3s(w)
  <2>1. ASSUME NEW l \in L3s \cap owned', MindsL3(worker[w], l)
        PROVE  MindsL3(worker[w], l)' \/ L2sOf(l)' # {}
    <3>1. l \in owned
      BY <2>1, NothingMinded
    <3>2. L2sOf(l)' = L2sOf(l)
      BY DEF L2sOf
    <3> QED BY <2>1, <3>1, <3>2
  <2> QED BY <1>1, <2>1, L3sPass
<1> QED BY <1>2, <1>3, MindedStep

LEMMA ControlFacts ==
  ASSUME Inv, NEW w \in Workers, (\E pc : Goto(w, pc)) \/ End(w) \/ Fail(w) \/ Resume(w)
  PROVE  Others(w)
BY GotoFacts, EndFacts, FailFacts, ResumeFacts

LEMMA DefaultMinds ==
  ASSUME Inv, Inv', Minded, NEW w \in Workers,
         FindDefault(w) \/ CreateDefault(w) \/ CreateImplicitL2(w)
  PROVE  Minded'
<1>1. worker[w].pc \notin Minding
  BY DEF FindDefault, CreateDefault, CreateImplicitL2, At, Minding
<1>2. Others(w)
  <2>1. CASE FindDefault(w)
    <3>1. ASSUME NEW l3 \in default, worker' = [worker EXCEPT ![w].pc = "l3_check", ![w].l3 = l3]
          PROVE  Others(w)
      BY <3>1, InvParts DEF Others
    <3> QED BY <2>1, <3>1, ControlFacts DEF FindDefault
  <2>2. CASE CreateDefault(w)
    <3>1. ASSUME NEW l3, worker' = [worker EXCEPT ![w].pc = "l3_own", ![w].l3 = l3]
          PROVE  Others(w)
      BY <3>1, InvParts DEF Others
    <3> QED BY <2>2, <3>1, ControlFacts DEF CreateDefault
  <2>3. CASE CreateImplicitL2(w)
    BY <2>3, InvParts DEF CreateImplicitL2, Others
  <2> QED BY <2>1, <2>2, <2>3
<1>3. GroupsStay /\ L2sStay /\ owned' = owned /\ shared \cap live' \subseteq shared'
  <2>1. CASE UNCHANGED rows
    BY <2>1 DEF GroupsStay, L2sStay, rows
  <2>2. ASSUME NEW S, NEW x \in Fresh(S), NEW isShared, Insert(x, isShared),
               UNCHANGED <<owned, l2_policy_id, l3_policy_id>>
        PROVE  GroupsStay /\ L2sStay /\ owned' = owned /\ shared \cap live' \subseteq shared'
    BY <2>2, InsertLeaves
  <2> QED BY <2>1, <2>2 DEF FindDefault, CreateDefault, CreateImplicitL2
<1> QED BY <1>1, <1>2, <1>3, MindlessKeepsMinded

LEMMA MarkMinds ==
  ASSUME Inv, Inv', SharingInv, Minded, NEW w \in Workers, MarkL3Owned(w) \/ MarkL2Owned(w)
  PROVE  Minded'
<1> DEFINE q == worker[w]
           r == worker'[w]
<1>1. UNCHANGED <<live, shared, default, l2_policy_id, l3_policy_id>>
      /\ q.pc \in {"l3_own", "l2_own"} /\ q.pc \notin Minding
  BY DEF MarkL3Owned, MarkL2Owned, MarkOwned, At, Minding
<1>2. CASE Fail(w) /\ UNCHANGED owned
  BY <1>1, <1>2, ControlFacts, NothingMinded, RestMinds
<1>3. CASE MarkL3Owned(w) /\ q.l3 \in live /\ owned' = owned \cup {q.l3} /\ Goto(w, "l3_check")
  <2>1. Others(w) /\ On(q, r, "l3_check") /\ q.pc = "l3_own"
    BY <1>3, GotoFacts DEF MarkL3Owned, MarkOwned, At
  <2>2. q.isShared => q.l3 \in shared
    BY <1>3, <2>1 DEF SharingInv, Remembers
  <2>3. \A l : l = q.l3 => MindsL3(worker[w], l)'
    BY <1>1, <2>1, <2>2 DEF MindsL3, On
  <2>4. q.l3 \notin L2s
    BY <1>3, Known DEF WorkerTypes
  <2> QED BY <1>1, <1>3, <2>1, <2>3, <2>4, NothingMinded, RestMinds
<1>4. CASE MarkL2Owned(w) /\ q.l2 \in live /\ owned' = owned \cup {q.l2} /\ Goto(w, "l2_check")
  <2>1. Others(w) /\ On(q, r, "l2_check")
    BY <1>4, GotoFacts
  <2>2. MindsL2(r, q.l2)
    BY <2>1 DEF MindsL2, On
  <2>3. q.l2 \notin L3s
    BY <1>4, Known DEF WorkerTypes
  <2> QED BY <1>1, <1>4, <2>1, <2>2, <2>3, NothingMinded, RestMinds
<1> QED BY <1>2, <1>3, <1>4 DEF MarkL3Owned, MarkL2Owned, MarkOwned

\* An owned policy that its worker minds can be linked.
LEMMA CheckMinds ==
  ASSUME Inv, Inv', Owed, Minded, NEW w \in Workers, CheckL3(w) \/ CheckL2(w)
  PROVE  Minded'
<1> DEFINE q == worker[w]
           r == worker'[w]
<1>1. UNCHANGED rows
  BY DEF CheckL3, CheckL2
<1>2. Others(w)
  BY ControlFacts DEF CheckL3, CheckL2
<1>3. CASE CheckL3(w)
  <2>1. q.pc = "l3_check"
    BY <1>3 DEF CheckL3, At
  <2>2. \A l : ~MindsL2(q, l)
    BY <2>1 DEF MindsL2
  <2>3. ASSUME NEW l \in L3s \cap owned, MindsL3(q, l)
        PROVE  MindsL3(worker[w], l)'
    <3>1. Linkable(q.isShared, q.l3) /\ q.l3 = l
      BY <2>1, <2>3, Known DEF MindsL3, Linkable
    <3>2. On(q, r, "l3_set")
      BY <1>3, <3>1, GotoFacts DEF CheckL3
    <3> QED BY <3>1, <3>2 DEF MindsL3, On
  <2> QED BY <1>1, <1>2, <2>2, <2>3, RestMinds DEF rows
<1>4. CASE CheckL2(w)
  <2>1. q.pc = "l2_check" /\ Making(q)
    BY <1>4 DEF CheckL2, At, Making
  <2>2. Linkable(q.isShared, q.l2)
    BY <2>1 DEF Owed, Solo, Relies, Linkable
  <2>3. On(q, r, "l2_set")
    BY <1>4, <2>2, GotoFacts DEF CheckL2
  <2>4. \A l : ~MindsL3(q, l) /\ (MindsL2(q, l) => MindsL2(r, l))
    BY <2>1, <2>3 DEF MindsL2, MindsL3, On
  <2> QED BY <1>1, <1>2, <2>4, RestMinds DEF rows
<1> QED BY <1>3, <1>4

LEMMA SetL3Minds ==
  ASSUME Inv, Inv', Owed, Minded, NEW w \in Workers, SetL3(w)
  PROVE  Minded'
<1> DEFINE q == worker[w]
<1>1. UNCHANGED <<live, shared, default, owned, l2_policy_id>> /\ q.pc = "l3_set" /\ Others(w)
  BY ControlFacts DEF SetL3, At
<1>2. \A l : ~MindsL2(q, l) /\ (MindsL3(q, l) => l = q.l3)
  BY <1>1 DEF MindsL2, MindsL3
<1>3. CASE {q.l2, q.l3} \subseteq live
  <2>1. q.pc \in Unlinked /\ Making(q)
    BY <1>1 DEF Making, Unlinked
  <2>2. q.l2 \in L2s \cap live /\ l3_policy_id[q.l2] = None
    BY <2>1 DEF Owed, Solo, Relies
  <2>3. l3_policy_id' = [l3_policy_id EXCEPT ![q.l2] = q.l3]
    BY <1>3 DEF SetL3
  <2>4. L2sStay /\ GroupsStay
    BY <1>1, <2>2, <2>3, Known DEF L2sStay, GroupsStay
  <2>5. \A l : l = q.l3 => L2sOf(l)' # {}
    BY <1>1, <2>2, <2>3, Known DEF L2sOf
  <2>6. PassesOwnedL2s(w)
    BY <1>1, <1>2, <2>4, L2sPass
  <2>7. PassesOwnedL3s(w)
    <3>1. \A l \in L3s \cap owned' : MindsL3(q, l) => L2sOf(l)' # {}
      BY <1>2, <2>5
    <3> QED BY <1>1, <2>4, <3>1, L3sPass
  <2> QED BY <1>1, <2>6, <2>7, MindedStep
<1>4. CASE ~({q.l2, q.l3} \subseteq live)
  <2>1. UNCHANGED l3_policy_id
    BY <1>4 DEF SetL3
  <2>2. q.l2 \in live
    BY <1>1 DEF Owed, Solo, Relies, Making, Unlinked
  <2>3. \A l \in L3s \cap owned : ~MindsL3(q, l)
    BY <1>2, <1>4, <2>2, Known
  <2> QED BY <1>1, <1>2, <2>1, <2>3, RestMinds
<1> QED BY <1>3, <1>4

LEMMA SetL2Minds ==
  ASSUME Inv, Inv', Owed, Minded, NEW w \in Workers, SetL2(w)
  PROVE  Minded'
<1> DEFINE q == worker[w]
<1>1. UNCHANGED <<live, shared, default, owned, l3_policy_id>> /\ q.pc = "l2_set" /\ Others(w)
  BY ControlFacts DEF SetL2, At
<1>2. \A l : ~MindsL3(q, l) /\ (MindsL2(q, l) => l = q.l2)
  BY <1>1 DEF MindsL2, MindsL3
<1>3. Making(q) /\ Ungrouped(q)
  BY <1>1 DEF Owed, Solo, Fits, Making, Ungrouped
<1>4. q.l2 \in L2s \cap live /\ q.group \in Groups \cap live /\ l2_policy_id[q.group] = None
  BY <1>3 DEF Owed, Solo, Relies
<1>5. l2_policy_id' = [l2_policy_id EXCEPT ![q.group] = q.l2]
  BY <1>4 DEF SetL2
<1>6. L2sStay /\ GroupsStay
  BY <1>1, <1>4, <1>5, Known DEF L2sStay, GroupsStay
<1>7. \A l : l = q.l2 => GroupsOf(l)' # {}
  BY <1>1, <1>4, <1>5, Known DEF GroupsOf
<1>8. PassesOwnedL2s(w)
  <2>1. \A l \in L2s \cap owned' : MindsL2(q, l) => GroupsOf(l)' # {}
    BY <1>2, <1>7
  <2> QED BY <1>1, <1>6, <2>1, L2sPass
<1>9. PassesOwnedL3s(w)
  BY <1>1, <1>2, <1>6, L3sPass
<1> QED BY <1>1, <1>8, <1>9, MindedStep

\* The last group of an owned policy leaves it to the worker that deletes it.
LEMMA GroupDeletionMinds ==
  ASSUME Inv, Inv', Owed, Minded, NEW w \in Workers, ReadGroup(w) \/ DeleteGroupRow(w)
  PROVE  Minded'
<1> DEFINE q == worker[w]
           r == worker'[w]
<1>1. q.pc \in {"group_read", "group_delete"} /\ q.pc \notin Minding
  BY DEF ReadGroup, DeleteGroupRow, At, Minding
<1>2. CASE UNCHANGED rows
  <2>1. Others(w)
    <3>1. ASSUME NEW l2, worker' = [worker EXCEPT ![w].pc = "group_delete", ![w].l2 = l2]
          PROVE  Others(w)
      BY <3>1, InvParts DEF Others
    <3>2. CASE ReadGroup(w)
      BY <3>1, <3>2, ControlFacts DEF ReadGroup
    <3>3. CASE DeleteGroupRow(w)
      BY <3>3, ControlFacts DEF DeleteGroupRow
    <3> QED BY <3>2, <3>3
  <2> QED BY <1>1, <1>2, <2>1, NothingMinded, RestMinds DEF rows
<1>3. CASE /\ q.pc = "group_delete" /\ q.group \in live /\ Erase(q.group)
           /\ Goto(w, "l2_cleanup")
  <2>1. Others(w) /\ On(q, r, "l2_cleanup")
    BY <1>3, GotoFacts
  <2>2. q.group \in Groups /\ q.group \notin L2s /\ q.l2 = l2_policy_id[q.group]
    BY <1>3, Known DEF Owed, Solo, Relies, WorkerTypes
  <2>3. owned' = owned \ {q.group} /\ shared \cap live' \subseteq shared' /\ L2sStay
    BY <1>3, <2>2, EraseLeaves
  <2>4. PassesOwnedL3s(w)
    BY <1>1, <2>3, NothingMinded, L3sPass
  <2>5. PassesOwnedL2s(w)
    <3>1. ASSUME NEW l \in L2s \cap owned', GroupsOf(l)' = {}
          PROVE  MindsL2(r, l) \/ (l \in owned /\ GroupsOf(l) = {} /\ ~MindsL2(q, l))
      <4>1. CASE l = l2_policy_id[q.group]
        BY <2>1, <2>2, <4>1 DEF MindsL2, On
      <4>2. CASE l # l2_policy_id[q.group]
        <5>1. ASSUME NEW g \in Groups \cap live, l2_policy_id[g] = l
              PROVE  g \in Groups \cap live' /\ l2_policy_id'[g] = l
          BY <1>3, <4>2, <5>1 DEF Erase
        <5>2. GroupsOf(l) = {}
          BY <3>1, <5>1 DEF GroupsOf
        <5> QED BY <1>1, <2>3, <5>2, NothingMinded
      <4> QED BY <4>1, <4>2
    <3> QED BY <3>1 DEF PassesOwnedL2s
  <2> QED BY <2>1, <2>3, <2>4, <2>5, MindedStep
<1> QED BY <1>2, <1>3 DEF ReadGroup, DeleteGroupRow, At

\* Policies that a worker gives up are not owned, in use, or gone.
LEMMA CleanupMinds ==
  ASSUME Inv, Inv', Minded, NEW w \in Workers, CleanupL2(w) \/ CleanupL3(w)
  PROVE  Minded'
<1> DEFINE q == worker[w]
           r == worker'[w]
<1>1. UNCHANGED rows /\ Others(w)
  BY ControlFacts DEF CleanupL2, CleanupL3
<1>2. CASE CleanupL2(w)
  <2>1. q.pc = "l2_cleanup"
    BY <1>2 DEF CleanupL2, At
  <2>2. ASSUME NEW l \in owned, MindsL2(q, l) PROVE MindsL2(r, l)
    <3>1. On(q, r, "l2_delete") /\ q.l2 = l
      BY <1>2, <2>2, GotoFacts DEF CleanupL2, MindsL2
    <3> QED BY <3>1 DEF MindsL2, On
  <2>3. \A l : ~MindsL3(q, l)
    BY <2>1 DEF MindsL3
  <2> QED BY <1>1, <2>2, <2>3, RestMinds DEF rows
<1>3. CASE CleanupL3(w)
  <2>1. q.pc = "l3_cleanup"
    BY <1>3 DEF CleanupL3, At
  <2>2. ASSUME NEW l \in owned, MindsL3(q, l) PROVE MindsL3(worker[w], l)'
    <3>1. On(q, r, "l3_delete") /\ q.l3 = l
      BY <1>3, <2>2, GotoFacts DEF CleanupL3, MindsL3
    <3> QED BY <3>1 DEF MindsL3, On
  <2>3. \A l : ~MindsL2(q, l)
    BY <2>1 DEF MindsL2
  <2> QED BY <1>1, <2>2, <2>3, RestMinds DEF rows
<1> QED BY <1>2, <1>3

LEMMA DeleteOwnedL3Minds ==
  ASSUME Inv, Inv', Owed, Minded, NEW w \in Workers, DeleteOwnedL3(w)
  PROVE  Minded'
<1> DEFINE q == worker[w]
           l3 == q.l3
<1>1. q.pc = "l3_delete" /\ q.op # "update_l2" /\ Others(w)
  BY ControlFacts DEF DeleteOwnedL3, At, Owed, Solo, Fits
<1>2. \A l : ~MindsL2(q, l) /\ (MindsL3(q, l) => l = l3)
  BY <1>1 DEF MindsL2, MindsL3
<1>3. CASE l3 \in live /\ Erase(l3)
  <2>1. l3 \notin Groups \cup L2s
    BY <1>3, Known DEF WorkerTypes
  <2>2. owned' = owned \ {l3} /\ shared \cap live' \subseteq shared' /\ GroupsStay /\ L2sStay
    BY <1>3, <2>1, EraseLeaves
  <2>3. PassesOwnedL2s(w) /\ PassesOwnedL3s(w)
    BY <1>2, <2>2, L2sPass, L3sPass
  <2> QED BY <1>1, <2>2, <2>3, MindedStep
<1>4. CASE (l3 \notin live \/ L2sOf(l3) # {}) /\ UNCHANGED rows
  <2>1. \A l \in L3s \cap owned : MindsL3(q, l) => L2sOf(l) # {}
    BY <1>2, <1>4, Known
  <2> QED BY <1>1, <1>2, <1>4, <2>1, RestMinds DEF rows
<1> QED BY <1>1, <1>3, <1>4 DEF DeleteOwnedL3

LEMMA MindedInit == Init => Minded
BY DEF Init, Minded, L2sAreMinded, L3sAreMinded

LEMMA MindedNext ==
  ASSUME "update_l2" \notin Requests, "share_l3" \notin Requests,
         Inv, Inv', Owed, SharingInv, Minded, [Next]_vars
  PROVE  Minded'
<1>1. CASE UNCHANGED vars
  BY <1>1 DEF vars, rows, Minded, L2sAreMinded, L3sAreMinded, MindsL2, MindsL3, GroupsOf, L2sOf
<1>2. ASSUME NEW w \in Workers, Request(w) PROVE Minded'
  <2>1. ~UpdateL2Policy(w) /\ ~ShareL3Policy(w)
    BY DEF UpdateL2Policy, ShareL3Policy, Accept
  <2> QED BY <1>2, <2>1, RequestsMind, DeletionsOfL2Mind DEF Request
<1>3. ASSUME NEW w \in Workers, Work(w) PROVE Minded'
  BY <1>3, DefaultMinds, MarkMinds, CheckMinds, SetL3Minds, SetL2Minds, DeletionsOfL2Mind,
     GroupDeletionMinds, CleanupMinds, DeleteOwnedL3Minds DEF Work
<1> QED BY <1>1, <1>2, <1>3 DEF Next

\* When no request runs, every policy that the driver has created has a user:
\* the worker that takes the last one away, or fails to add the first, deletes it.
THEOREM NothingIsLeaked ==
  ASSUME Patient, "update_l2" \notin Requests, "share_l3" \notin Requests
  PROVE  Spec => []NoPolicyIsLeaked
<1>1. Inv /\ Inv' /\ Owed /\ SharingInv /\ Minded /\ [Next]_vars => Minded'
  BY MindedNext
<1>2. Inv /\ SharingInv /\ [Next]_vars => SharingInv'
  BY SharingNext
<1>3. Minded => NoPolicyIsLeaked
  <2> SUFFICES ASSUME Minded, Quiet
               PROVE  /\ \A l2 \in owned \cap L2s : GroupsOf(l2) # {}
                      /\ \A l3 \in owned \cap L3s : L2sOf(l3) # {}
    BY DEF NoPolicyIsLeaked
  <2>1. \A w \in Workers : worker[w].pc \notin Minding
    BY DEF Quiet, At, Minding
  <2> QED BY <2>1, NothingMinded DEF Minded, L2sAreMinded, L3sAreMinded
<1> QED BY <1>1, <1>2, <1>3, SharingInit, MindedInit, InvHolds, OwedHolds, PTL DEF Spec
====================
