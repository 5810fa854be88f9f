---------------------------- MODULE DriverManager ----------------------------
(* How the service plugin calls its policy drivers around the transaction
   of a request: the precommit methods inside it, the postcommit methods
   one after the other behind it, the undoing of a creation whose drivers
   failed, and the retries of a request that ended in a retriable error.

   The object stands for a row of any resource type.  A request first
   waits in stage "txn" for its transaction, runs the drivers in stage
   "post", reads the row back in stage "read" and is answered.  When the
   drivers of a creation fail it goes through "undo_txn" and "undo_post",
   the stages of the nested deletion. *)
EXTENDS Integers, FiniteSets

CONSTANTS
  DriverCount,             \* configured policy drivers, in the order of the configuration
  Workers,                 \* API workers
  MaxIds,                  \* bound: rows ever created
  Contents,                \* what the attributes of a row say
  MaxRetries,              \* retries of a request after its first attempt
  Faults,                  \* the errors that each kind of driver method may raise
  Patient,                 \* clients leave an object alone while it is being worked on
  None                     \* no row, no content

Drivers == 1 .. DriverCount
Ids == 1 .. MaxIds
Ops == {"create", "update", "delete"}

\* "retriable": a database error that is_retriable recognises; "invalid": an
\* InvalidRequestError of SQLAlchemy; "known": an error of GBP or Neutron;
\* "other": any other exception.
Kinds == {"retriable", "invalid", "known", "other"}

ASSUME DriverManagerAssumption ==
  /\ DriverCount \in Nat \ {0}
  /\ MaxIds \in Nat
  /\ MaxRetries \in Nat
  /\ Faults \in [Ops \X {"precommit", "postcommit"} -> SUBSET Kinds]
  /\ Patient \in BOOLEAN
  /\ None \notin Contents \cup Ids

VARIABLES
  row,                     \* the content of each row, None when there is none
  born,                    \* how many rows have been created
  realised,                \* what each driver has made of each row
  request                  \* what each worker does

vars == <<row, born, realised, request>>

Stages == {"idle", "txn", "post", "read", "undo_txn", "undo_post"}

\* called counts the drivers that the loop has passed, notified holds those
\* that were called, eaten is the flag error of _call_on_drivers, and raised the
\* error that the deletion in an except clause will re-raise.
NoRequest ==
  [stage |-> "idle", op |-> "none", id |-> None, content |-> None, made |-> {},
   called |-> 0, eaten |-> FALSE, notified |-> {}, tries |-> 0, undoTries |-> 0,
   raised |-> "none", answer |-> "ok"]

--------------------
(* Errors, retries and answers *)

\* What a caller of _call_on_drivers sees of an error.
Seen(kind) == IF kind \in {"retriable", "invalid"} THEN "retriable" ELSE "error"

Answered(q, a) ==
  [q EXCEPT !.stage = "idle", !.called = 0, !.eaten = FALSE, !.tries = 0,
            !.undoTries = 0, !.raised = "none", !.answer = a]

\* Mutant: the loop over the drivers goes on where it was.
Unwound(q) == [q EXCEPT !.notified = {}, !.eaten = FALSE]

\* The drivers will be called from the first one on.
Rewound(q) == [q EXCEPT !.called = 0, !.notified = {}, !.eaten = FALSE]

\* Mutant: one retry too many.
RetriedOnceMore(q, e) ==
  IF e = "retriable" /\ q.tries <= MaxRetries
    THEN [Rewound(q) EXCEPT !.stage = "txn", !.tries = @ + 1, !.raised = "none"]
    ELSE Answered(q, "error")

\* Mutant: the attempts of an update are not counted.
RetriedForever(q, e) ==
  IF e = "retriable" /\ q.tries < MaxRetries
    THEN [Rewound(q) EXCEPT !.stage = "txn", !.id = IF q.op = "create" THEN None ELSE @,
                            !.tries = IF q.op = "update" THEN @ ELSE @ + 1,
                            !.undoTries = 0, !.raised = "none"]
    ELSE Answered(q, "error")

\* retry_if_session_inactive: the whole method runs again.
Retried(q, e) ==
  IF e = "retriable" /\ q.tries < MaxRetries
    THEN [Rewound(q) EXCEPT !.stage = "txn", !.id = IF q.op = "create" THEN None ELSE @,
                            !.tries = @ + 1, !.undoTries = 0, !.raised = "none"]
    ELSE Answered(q, "error")

\* Mutant: the error of the deletion is not tagged, the creation is retried.
UndoFailedUntagged(q, e) ==
  IF e = "retriable" /\ q.undoTries < MaxRetries
    THEN [q EXCEPT !.undoTries = @ + 1]
    ELSE Retried(q, e)

\* The deletion in the except clause is a decorated method as well: an error
\* that is left after its retries is tagged, and replaces the one it handles.
UndoFailed(q, e) ==
  IF e = "retriable" /\ q.undoTries < MaxRetries
    THEN [q EXCEPT !.undoTries = @ + 1]
    ELSE Answered(q, "error")

\* Mutant: no except clause around the drivers of a creation.
FailedNotUndone(q, e) ==
  IF q.stage = "post" /\ q.op = "delete" THEN Answered(q, "ok") ELSE Retried(q, e)

\* Where the plugin goes when the current stage raises e.
Failed(q, e) ==
  CASE q.stage = "undo_txn"  -> UndoFailed(q, e)
    [] q.stage = "undo_post" -> Retried(q, q.raised)
    [] q.stage = "post" /\ q.op = "create" ->
         [Rewound(q) EXCEPT !.stage = "undo_txn", !.raised = e]
    [] q.stage = "post" /\ q.op = "delete" -> Answered(q, "ok")
    [] OTHER -> Retried(q, e)

\* Where it goes when the drivers have been called.
Completed(q) ==
  CASE q.stage = "undo_post" -> Retried(q, q.raised)
    [] q.op = "delete"       -> Answered(q, "ok")
    [] OTHER                 -> [q EXCEPT !.stage = "read", !.called = 0]

--------------------
(* Requests *)

Busy(w) == request[w].stage # "idle"
Creating(w) == Busy(w) /\ request[w].op = "create"

\* Bound: rows enough for every attempt of the creations that run.
IdsSuffice ==
  born + (MaxRetries + 1) * (1 + Cardinality({w \in Workers : Creating(w)})) <= MaxIds

\* The objects that a request may name.
Addressed ==
  {i \in 1 .. born :
     Patient => \A w \in Workers : Busy(w) => i \notin request[w].made \cup {request[w].id}}

Receive(w, op, i, x) ==
  /\ request[w].stage = "idle"
  /\ request' = [request EXCEPT ![w] =
       [NoRequest EXCEPT !.stage = "txn", !.op = op, !.id = i, !.content = x]]
  /\ UNCHANGED <<row, born, realised>>

ReceiveCreate(w) == IdsSuffice /\ \E x \in Contents : Receive(w, "create", None, x)
ReceiveUpdate(w) == \E i \in Addressed, x \in Contents : Receive(w, "update", i, x)
ReceiveDelete(w) == \E i \in Addressed : Receive(w, "delete", i, None)

--------------------
(* The transaction, with the precommit methods of all drivers *)

CommitCreate(w) ==
  /\ request[w].stage = "txn" /\ request[w].op = "create" /\ born < MaxIds
  /\ born' = born + 1
  /\ row' = [row EXCEPT ![born + 1] = request[w].content]
  /\ request' = [request EXCEPT ![w].stage = "post", ![w].id = born + 1,
                                ![w].made = @ \cup {born + 1}]
  /\ UNCHANGED realised

\* The row that the request names is there.
Exists(w) == request[w].id # None /\ row[request[w].id] # None

CommitUpdate(w) ==
  /\ request[w].stage = "txn" /\ request[w].op = "update"
  /\ Exists(w)
  /\ row' = [row EXCEPT ![request[w].id] = request[w].content]
  /\ request' = [request EXCEPT ![w].stage = "post"]
  /\ UNCHANGED <<born, realised>>

\* The transaction of a deletion runs, its own or that of an undo.
Erasing(w) ==
  \/ request[w].stage = "txn" /\ request[w].op = "delete"
  \/ request[w].stage = "undo_txn"

CommitDelete(w) ==
  /\ Erasing(w) /\ Exists(w)
  /\ row' = [row EXCEPT ![request[w].id] = None]
  /\ request' = [request EXCEPT ![w].stage = IF @ = "txn" THEN "post" ELSE "undo_post"]
  /\ UNCHANGED <<born, realised>>

NotFound(w) ==
  /\ Erasing(w) \/ (request[w].stage = "txn" /\ request[w].op = "update")
  /\ ~Exists(w)
  /\ request' = [request EXCEPT ![w] = Failed(@, "error")]
  /\ UNCHANGED <<row, born, realised>>

\* A precommit method raises: the transaction is rolled back.
RollBack(w) ==
  /\ request[w].stage \in {"txn", "undo_txn"}
  /\ request[w].op = "create" /\ request[w].stage = "txn" <=> ~Exists(w)
  /\ \E kind \in Faults[IF Erasing(w) THEN "delete" ELSE request[w].op, "precommit"] :
       request' = [request EXCEPT ![w] = Failed(@, Seen(kind))]
  /\ UNCHANGED <<row, born, realised>>

--------------------
(* _call_on_drivers behind the transaction *)

Deleting(q) == q.op = "delete" \/ q.stage = "undo_post"

\* Mutant: always in the order of the configuration.
ConfiguredOrder(q) == q.called + 1

\* The driver that is called next: the deletions go through them in reverse.
ordered_policy_drivers(q) ==
  IF Deleting(q) THEN DriverCount - q.called ELSE q.called + 1

\* Only the deletions pass continue_on_failure.
continue_on_failure(q) == Deleting(q)

CallAhead(w) == request[w].stage \in {"post", "undo_post"} /\ request[w].called < DriverCount

Realise(w) ==
  realised' = [realised EXCEPT ![request[w].id][ordered_policy_drivers(request[w])] =
                 IF Deleting(request[w]) THEN None ELSE request[w].content]

Passed(q) ==
  [q EXCEPT !.called = @ + 1, !.notified = @ \cup {ordered_policy_drivers(q)}]

CallDriver(w) ==
  /\ CallAhead(w)
  /\ Realise(w)
  /\ request' = [request EXCEPT ![w] = Passed(@)]
  /\ UNCHANGED <<row, born>>

\* Mutant: the flag error is not set.
EatenSilently(q) == Passed(q)

\* An error that is neither retriable nor known is eaten; the loop goes on, or
\* breaks.
Eaten(q) ==
  IF continue_on_failure(q)
    THEN [Passed(q) EXCEPT !.eaten = TRUE]
    ELSE Failed(q, "error")

\* The driver raises, with its work done or not.
DriverRaises(w) ==
  /\ CallAhead(w)
  /\ Realise(w) \/ UNCHANGED realised
  /\ \E kind \in Faults[IF Deleting(request[w]) THEN "delete" ELSE request[w].op, "postcommit"] :
       request' = [request EXCEPT ![w] = IF kind = "other" THEN Eaten(@) ELSE Failed(@, Seen(kind))]
  /\ UNCHANGED <<row, born>>

\* All drivers were called: GroupPolicyDriverError if an error was eaten.
Return(w) ==
  /\ request[w].stage \in {"post", "undo_post"} /\ request[w].called = DriverCount
  /\ request' = [request EXCEPT ![w] = IF @.eaten THEN Failed(@, "error") ELSE Completed(@)]
  /\ UNCHANGED <<row, born, realised>>

ReadBack(w) ==
  /\ request[w].stage = "read"
  /\ request' = [request EXCEPT ![w] =
       Answered(@, IF row[request[w].id] # None THEN "ok" ELSE "error")]
  /\ UNCHANGED <<row, born, realised>>

--------------------
Init ==
  /\ row = [i \in Ids |-> None]
  /\ born = 0
  /\ realised = [i \in Ids |-> [d \in Drivers |-> None]]
  /\ request = [w \in Workers |-> NoRequest]

Receives(w) == ReceiveCreate(w) \/ ReceiveUpdate(w) \/ ReceiveDelete(w)

Serve(w) ==
  \/ CommitCreate(w) \/ CommitUpdate(w) \/ CommitDelete(w)
  \/ NotFound(w) \/ RollBack(w)
  \/ CallDriver(w) \/ DriverRaises(w) \/ Return(w) \/ ReadBack(w)

Next == \E w \in Workers : Receives(w) \/ Serve(w)

Spec == Init /\ [][Next]_vars

--------------------
(* Properties *)

FairSpec == Spec /\ \A w \in Workers : WF_vars(Serve(w))

\* Every method that is retried gives up in the end: whatever the drivers raise,
\* a request is answered.
RequestsEnd == \A w \in Workers : Busy(w) ~> ~Busy(w)

\* Every variable has its type, and a worker is in a stage of its operation.
TypeOK ==
  /\ row \in [Ids -> Contents \cup {None}]
  /\ born \in 0 .. MaxIds
  /\ realised \in [Ids -> [Drivers -> Contents \cup {None}]]
  /\ request \in [Workers ->
       [stage : Stages, op : Ops \cup {"none"}, id : Ids \cup {None},
        content : Contents \cup {None}, made : SUBSET Ids, called : 0 .. DriverCount,
        notified : SUBSET Drivers, eaten : BOOLEAN, tries : 0 .. MaxRetries, undoTries : 0 .. MaxRetries,
        raised : {"none", "retriable", "error"}, answer : {"ok", "error"}]]

\* Rows that a creation has made and that nobody has deleted.
Left(w) == {i \in request[w].made : row[i] # None}

\* However often a creation is undone and retried, it leaves one row at most,
\* and none is left behind when it begins again.
OneRowPerCreation ==
  \A w \in Workers :
    /\ \A i, j \in Left(w) : i = j
    /\ request[w].stage = "txn" => Left(w) = {}

\* A creation or an update that is answered without an error has been realised
\* by all drivers.
AnsweredIsRealised ==
  [][\A w \in Workers :
       LET q == request[w] IN
         q.stage = "read" /\ request'[w].answer = "ok" /\ request'[w] # q =>
           \A d \in Drivers : row[q.id] = q.content /\ realised[q.id][d] = q.content]_vars

\* Nobody but w has a request on row i, or had the last word on it.
LastWord(w, i) == \A v \in Workers \ {w} : i \notin request[v].made \cup {request[v].id}

\* The rows that a creation has undone are forgotten by every driver before it
\* tries again or is answered.
UndoneIsForgotten ==
  \A w \in Workers : request[w].stage \in {"txn", "idle"} =>
    \A i \in request[w].made, d \in Drivers :
      row[i] = None /\ LastWord(w, i) => realised[i][d] = None

\* A driver builds on the drivers before it: it has realised a row only while
\* they have, which is why deletions go through them in reverse.
DriversAreStacked ==
  \A i \in Ids, d, e \in Drivers :
    d < e /\ realised[i][e] # None => realised[i][d] # None

\* A deletion is not answered before every driver was told.
EveryDriverIsNotified ==
  \A w \in Workers :
    ~Busy(w) /\ request[w].op = "delete" /\ request[w].answer = "ok"
      => request[w].notified = Drivers

--------------------
(* The promise to patient clients *)

\* A row is an object for the clients when its creation was answered.
Hidden(i) == \E w \in Workers : Creating(w) /\ i \in request[w].made
objects == [i \in Ids |-> IF Hidden(i) THEN None ELSE row[i]]

\* A request as its client sees it.
AsCall(q) ==
  [op |-> q.op, content |-> q.content,
   id |-> IF q.op = "create" /\ (q.stage # "idle" \/ q.answer = "error") THEN None ELSE q.id,
   state |-> IF q.stage = "idle" THEN q.answer
             ELSE IF q.op = "delete" /\ q.stage = "post" THEN "deleted"
             ELSE "pending"]
calls == [w \in Workers |-> AsCall(request[w])]

Objects ==
  INSTANCE PolicyObjects WITH
    Clients <- Workers, Objects <- Ids, object <- objects, call <- calls

\* Creations are atomic and happen once, whatever is retried and undone.
ImplementsObjects == Objects!Spec
====================
