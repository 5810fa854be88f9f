---------------------------- MODULE PolicyObjects ----------------------------
(* What the service plugin promises a client that addresses an object only
   while nobody else does: a creation that is answered with an object made
   exactly that one, one that is answered with an error made none, and an
   update or a deletion that is answered without an error took effect. *)
CONSTANTS
  Clients,
  Objects,                 \* identities
  Contents,                \* what the attributes of an object say
  None                     \* no object, no content

VARIABLES
  object,                  \* the content of each object, None when there is none
  call                     \* the last call of each client

vars == <<object, call>>

Ops == {"create", "update", "delete"}

NoCall == [op |-> "none", id |-> None, content |-> None, state |-> "ok"]

Init ==
  /\ object = [i \in Objects |-> None]
  /\ call = [c \in Clients |-> NoCall]

Call(c, op, i, x) ==
  /\ call[c].state \in {"ok", "error"}
  /\ call' = [call EXCEPT ![c] = [op |-> op, id |-> i, content |-> x, state |-> "pending"]]
  /\ UNCHANGED object

Pending(c, op) == call[c].op = op /\ call[c].state = "pending"

\* A creation is answered in the moment the object comes to be.
Create(c, i) ==
  /\ Pending(c, "create") /\ object[i] = None
  /\ object' = [object EXCEPT ![i] = call[c].content]
  /\ call' = [call EXCEPT ![c].id = i, ![c].state = "ok"]

\* An update may be applied more than once before it is answered.
Update(c) ==
  /\ Pending(c, "update") /\ object[call[c].id] # None
  /\ object' = [object EXCEPT ![call[c].id] = call[c].content]
  /\ UNCHANGED call

Delete(c) ==
  /\ Pending(c, "delete") /\ object[call[c].id] # None
  /\ object' = [object EXCEPT ![call[c].id] = None]
  /\ call' = [call EXCEPT ![c].state = "deleted"]

Succeed(c) ==
  /\ \/ call[c].state = "deleted"
     \/ Pending(c, "update") /\ object[call[c].id] = call[c].content
  /\ call' = [call EXCEPT ![c].state = "ok"]
  /\ UNCHANGED object

\* Only an update may fail after it took effect.
Fail(c) ==
  /\ call[c].state = "pending"
  /\ call' = [call EXCEPT ![c].state = "error"]
  /\ UNCHANGED object

Next ==
  \E c \in Clients :
    \/ \E op \in Ops, i \in Objects \cup {None}, x \in Contents \cup {None} : Call(c, op, i, x)
    \/ \E i \in Objects : Create(c, i)
    \/ Update(c) \/ Delete(c) \/ Succeed(c) \/ Fail(c)

Spec == Init /\ [][Next]_vars
====================
