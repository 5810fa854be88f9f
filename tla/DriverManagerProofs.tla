------------------------ MODULE DriverManagerProofs ------------------------
(* Theorems about DriverManager, for any number of drivers, workers and
   retries.

   Rows, ids and stages of a request agree (Sound): from it follow the
   types, and that a creation leaves one row at most, whatever drivers
   raise and other clients do.  With patient clients the rows of requests
   that run are apart (Apart), so that what a request has written is still
   there when it goes on (RowsAreKept, DriversHaveWritten).  Where no
   driver is skipped in a deletion, the drivers that were called have
   forgotten the row (DriversHaveErased, Forgotten). *)
EXTENDS DriverManager, TLAPS

--------------------
(* The invariants *)

Requests ==
  [stage : Stages, op : Ops \cup {"none"}, id : Ids \cup {None},
   content : Contents \cup {None}, made : SUBSET Ids, called : 0 .. DriverCount,
   notified : SUBSET Drivers, eaten : BOOLEAN, tries : 0 .. MaxRetries, undoTries : 0 .. MaxRetries,
   raised : {"none", "retriable", "error"}, answer : {"ok", "error"}]

\* What the stage of a request says about the rest of it.
Shape(q) ==
  /\ q.stage # "idle" => q.op \in Ops
  /\ q.stage # "idle" /\ q.op # "delete" => q.content \in Contents
  /\ q.stage # "idle" /\ q.op # "create" => q.id \in Ids
  /\ q.stage \in {"post", "read", "undo_txn", "undo_post"} => q.id \in Ids
  /\ q.stage \in {"undo_txn", "undo_post"} => q.op = "create"
  /\ q.stage = "read" => q.op # "delete"
  /\ q.stage = "txn" /\ q.op = "create" => q.id = None
  /\ q.op = "create" /\ q.id # None => q.id \in q.made
  /\ q.op # "create" => q.made = {}
  /\ q.stage \notin {"post", "undo_post"} => q.called = 0

\* No request knows a row that has not been created, and no driver.
OnlyBorn ==
  /\ \A w \in Workers : request[w].made \cup {request[w].id} \subseteq 1 .. born \cup {None}
  /\ \A i \in Ids : i > born => row[i] = None /\ realised[i] = [d \in Drivers |-> None]

Sound == TypeOK /\ (\A w \in Workers : Shape(request[w])) /\ OnlyBorn

\* Of the rows of a creation only that of its last attempt is there, and when
\* the nested deletion has committed not even that.
OneRow ==
  \A w \in Workers :
    /\ \A i \in request[w].made : row[i] # None => i = request[w].id
    /\ request[w].stage = "undo_post" => row[request[w].id] = None

\* The rows of the requests that run.
Claims(w) == (request[w].made \cup {request[w].id}) \ {None}
Apart == \A v, w \in Workers : v # w /\ Busy(v) /\ Busy(w) => Claims(v) \cap Claims(w) = {}

\* The row a request has committed is still as it was left.
Writing(q) == q.op # "delete" /\ q.stage \in {"post", "read", "undo_txn"}
Erased(q) == q.stage = "undo_post" \/ (q.stage = "post" /\ q.op = "delete")

RowsAreKept ==
  \A w \in Workers :
    /\ Writing(request[w]) => row[request[w].id] = request[w].content
    /\ Erased(request[w]) => row[request[w].id] = None

\* So is what the drivers that were called have made of it.
DriversHaveWritten ==
  \A w \in Workers, d \in Drivers :
    LET q == request[w] IN
      q.stage = "read" \/ (q.stage = "post" /\ q.op # "delete" /\ d <= q.called)
        => realised[q.id][d] = q.content

DriversHaveErased ==
  \A w \in Workers, d \in Drivers :
    LET q == request[w] IN
      Erased(q) /\ d > DriverCount - q.called => realised[q.id][d] = None

\* What is left of a row without a row is about to be deleted.
Forgotten ==
  \A i \in Ids : row[i] = None =>
    \/ \A d \in Drivers : realised[i][d] = None
    \/ \E w \in Workers : Erased(request[w]) /\ request[w].id = i

--------------------
(* Where a request goes *)

Kept(q, r) == r \in Requests /\ r.op = q.op /\ r.content = q.content /\ r.made = q.made

\* It is answered a.
Ended(q, r, a) ==
  Kept(q, r) /\ r.stage = "idle" /\ r.id = q.id /\ r.called = 0 /\ r.answer = a

\* It begins again.
Begun(q, r) ==
  /\ Kept(q, r) /\ r.stage = "txn" /\ r.called = 0
  /\ r.id = IF q.op = "create" THEN None ELSE q.id

\* It goes on with its row.
Goes(q, r, stage) == Kept(q, r) /\ r.stage = stage /\ r.id = q.id

\* It is over, or begins again.
Given(q, r) == Ended(q, r, "error") \/ Begun(q, r)

LEMMA RetriedFacts ==
  ASSUME NEW q \in Requests, NEW e
  PROVE  Given(q, Retried(q, e))
<1>1. MaxRetries \in Nat /\ DriverCount \in Nat \ {0} /\ 0 \in 0 .. DriverCount /\ 0 \in 0 .. MaxRetries
  BY DriverManagerAssumption
<1>2. CASE e = "retriable" /\ q.tries < MaxRetries
  <2>1. q.tries + 1 \in 0 .. MaxRetries
    BY <1>1, <1>2 DEF Requests
  <2> DEFINE i == IF q.op = "create" THEN None ELSE q.id
             r == [stage |-> "txn", op |-> q.op, id |-> i, content |-> q.content,
                   made |-> q.made, called |-> 0, eaten |-> FALSE, notified |-> {},
                   tries |-> q.tries + 1, undoTries |-> 0, raised |-> "none",
                   answer |-> q.answer]
  <2>2. i \in Ids \cup {None}
    BY DEF Requests
  <2>3. Retried(q, e) = r
    BY <1>2 DEF Retried, Rewound, Requests
  <2>4. r \in Requests
    BY <1>1, <2>1, <2>2 DEF Requests, Stages
  <2>5. r.stage = "txn" /\ r.op = q.op /\ r.id = i /\ r.content = q.content
        /\ r.made = q.made /\ r.called = 0
    OBVIOUS
  <2> HIDE DEF r
  <2> QED BY <2>3, <2>4, <2>5 DEF Given, Begun, Kept
<1>3. CASE ~(e = "retriable" /\ q.tries < MaxRetries)
  BY <1>1, <1>3 DEF Retried, Answered, Given, Ended, Kept, Requests, Stages
<1> QED BY <1>2, <1>3

LEMMA AnsweredFacts ==
  ASSUME NEW q \in Requests, NEW a \in {"ok", "error"}
  PROVE  Ended(q, Answered(q, a), a)
<1>1. 0 \in 0 .. DriverCount /\ 0 \in 0 .. MaxRetries
  BY DriverManagerAssumption
<1> QED BY <1>1 DEF Answered, Ended, Kept, Requests, Stages

\* What Failed and Completed make of a request that is in its transaction or behind it.
LEMMA FailedFacts ==
  ASSUME NEW q \in Requests, NEW e \in {"retriable", "error"}
  PROVE  LET r == Failed(q, e) IN
         /\ q.stage = "undo_txn" =>
              \/ Ended(q, r, "error")
              \/ Goes(q, r, "undo_txn") /\ r.called = q.called
         /\ q.stage = "post" /\ q.op = "create" => Goes(q, r, "undo_txn") /\ r.called = 0
         /\ q.stage = "post" /\ q.op = "delete" => Ended(q, r, "ok")
         /\ q.stage # "undo_txn" /\ ~(q.stage = "post" /\ q.op \in {"create", "delete"})
              => Given(q, r)
<1>1. MaxRetries \in Nat /\ DriverCount \in Nat \ {0} /\ 0 \in 0 .. DriverCount /\ 0 \in 0 .. MaxRetries
  BY DriverManagerAssumption
<1>2. CASE q.stage = "undo_txn"
  <2>1. CASE e = "retriable" /\ q.undoTries < MaxRetries
    <3>1. q.undoTries + 1 \in 0 .. MaxRetries
      BY <1>1, <2>1 DEF Requests
    <3>2. Failed(q, e) = [q EXCEPT !.undoTries = @ + 1]
      BY <1>2, <2>1 DEF Failed, UndoFailed
    <3> QED BY <1>2, <3>1, <3>2 DEF Goes, Kept, Requests
  <2>2. CASE ~(e = "retriable" /\ q.undoTries < MaxRetries)
    <3>1. Failed(q, e) = Answered(q, "error")
      BY <1>2, <2>2 DEF Failed, UndoFailed
    <3> QED BY <1>2, <3>1, AnsweredFacts
  <2> QED BY <2>1, <2>2
<1>3. CASE q.stage = "post" /\ q.op = "create"
  <2>1. Failed(q, e) = [Rewound(q) EXCEPT !.stage = "undo_txn", !.raised = e]
    BY <1>3 DEF Failed
  <2> QED BY <1>1, <1>3, <2>1 DEF Rewound, Goes, Kept, Requests, Stages
<1>4. CASE q.stage = "post" /\ q.op = "delete"
  <2>1. Failed(q, e) = Answered(q, "ok")
    BY <1>4 DEF Failed
  <2> QED BY <1>4, <2>1, AnsweredFacts
<1>5. CASE q.stage # "undo_txn" /\ ~(q.stage = "post" /\ q.op \in {"create", "delete"})
  <2>1. Failed(q, e) \in {Retried(q, q.raised), Retried(q, e)}
    BY <1>5 DEF Failed
  <2> QED BY <1>5, <2>1, RetriedFacts
<1> QED BY <1>2, <1>3, <1>4, <1>5

LEMMA CompletedFacts ==
  ASSUME NEW q \in Requests, ~(q.stage = "undo_post" /\ q.op = "delete")
  PROVE  LET r == Completed(q) IN
         /\ q.stage = "undo_post" => Given(q, r)
         /\ q.stage # "undo_post" /\ q.op = "delete" => Ended(q, r, "ok")
         /\ q.stage # "undo_post" /\ q.op # "delete" => Goes(q, r, "read") /\ r.called = 0
<1>1. 0 \in 0 .. DriverCount
  BY DriverManagerAssumption
<1>2. CASE q.stage = "undo_post"
  <2>1. Completed(q) = Retried(q, q.raised)
    BY <1>2 DEF Completed
  <2> QED BY <1>2, <2>1, RetriedFacts
<1>3. CASE q.stage # "undo_post" /\ q.op = "delete"
  <2>1. Completed(q) = Answered(q, "ok")
    BY <1>3 DEF Completed
  <2> QED BY <1>3, <2>1, AnsweredFacts
<1>4. CASE q.stage # "undo_post" /\ q.op # "delete"
  <2>1. Completed(q) = [q EXCEPT !.stage = "read", !.called = 0]
    BY <1>4 DEF Completed
  <2> QED BY <1>1, <1>4, <2>1 DEF Goes, Kept, Requests, Stages
<1> QED BY <1>2, <1>3, <1>4

LEMMA PassedFacts ==
  ASSUME NEW q \in Requests, q.called < DriverCount
  PROVE  /\ ordered_policy_drivers(q) \in Drivers
         /\ Goes(q, Passed(q), q.stage) /\ Passed(q).called = q.called + 1
<1>1. DriverCount \in Nat \ {0} /\ q.called \in 0 .. DriverCount /\ q.called + 1 \in 0 .. DriverCount
  BY DriverManagerAssumption DEF Requests
<1>2. ordered_policy_drivers(q) \in Drivers
  BY <1>1 DEF ordered_policy_drivers, Drivers
<1> QED BY <1>1, <1>2 DEF Passed, Goes, Kept, Requests

LEMMA EatenFacts ==
  ASSUME NEW q \in Requests, q.called < DriverCount, Deleting(q)
  PROVE  Goes(q, Eaten(q), q.stage) /\ Eaten(q).called = q.called + 1
<1>1. Passed(q) \in Requests /\ Goes(q, Passed(q), q.stage) /\ Passed(q).called = q.called + 1
  BY PassedFacts DEF Goes, Kept
<1>2. Eaten(q) = [Passed(q) EXCEPT !.eaten = TRUE]
  BY DEF Eaten, continue_on_failure
<1> HIDE DEF Passed
<1> QED BY <1>1, <1>2 DEF Goes, Kept, Requests

\* The steps of a request that leave the rows alone.
Quiet(w) ==
  NotFound(w) \/ RollBack(w) \/ CallDriver(w) \/ DriverRaises(w) \/ Return(w) \/ ReadBack(w)

\* A deletion may go on without a driver having done its work.
MaySkip == "other" \in Faults["delete", "postcommit"]

\* No driver raises while a row is deleted behind its transaction.
DeletesPass == Faults["delete", "postcommit"] = {}

\* Where they lead, and when.
Moves(w) ==
  LET q == request[w]
      r == request'[w]
  IN \/ \E a \in {"ok", "error"} : Ended(q, r, a)
     \/ /\ Begun(q, r)
        /\ q.stage \in {"txn", "undo_post"} \/ (q.stage = "post" /\ q.op = "update")
     \/ q.stage = "undo_txn" /\ Goes(q, r, "undo_txn") /\ r.called = q.called
     \/ q.stage = "post" /\ q.op = "create" /\ Goes(q, r, "undo_txn") /\ r.called = 0
     \/ /\ q.stage = "post" /\ q.op # "delete" /\ q.called = DriverCount
        /\ Goes(q, r, "read") /\ r.called = 0
     \/ /\ CallAhead(w) /\ Goes(q, r, q.stage) /\ r.called = q.called + 1
        /\ Realise(w) \/ (Deleting(q) /\ MaySkip)

LEMMA SeenType == \A kind : Seen(kind) \in {"retriable", "error"}
BY DEF Seen

\* A failure at any stage is one of these moves.
LEMMA FailedMoves ==
  ASSUME NEW w \in Workers, request[w] \in Requests, Shape(request[w]),
         request[w].stage \in {"txn", "post", "undo_txn", "undo_post"},
         NEW e \in {"retriable", "error"}, request'[w] = Failed(request[w], e)
  PROVE  Moves(w)
<1> DEFINE q == request[w]
           r == request'[w]
<1>1. q.stage # "undo_txn" => q.op \in Ops
  BY DEF Shape
<1>2. CASE q.stage = "undo_txn"
  BY <1>2, FailedFacts DEF Moves
<1>3. CASE q.stage = "post" /\ q.op = "create"
  BY <1>3, FailedFacts DEF Moves
<1>4. CASE q.stage = "post" /\ q.op = "delete"
  BY <1>4, FailedFacts DEF Moves
<1>5. CASE q.stage # "undo_txn" /\ ~(q.stage = "post" /\ q.op \in {"create", "delete"})
  <2>1. Given(q, r)
    BY <1>5, FailedFacts
  <2> QED BY <1>1, <1>5, <2>1 DEF Moves, Given, Ops
<1> QED BY <1>2, <1>3, <1>4, <1>5

LEMMA QuietSteps ==
  ASSUME TypeOK, NEW w \in Workers, Shape(request[w]), Quiet(w)
  PROVE  /\ UNCHANGED <<row, born>>
         /\ request' = [request EXCEPT ![w] = request'[w]]
         /\ Moves(w)
         /\ UNCHANGED realised \/ (CallAhead(w) /\ Realise(w))
         /\ Erased(request[w]) /\ ~Erased(request'[w]) =>
              request[w].called = DriverCount \/ ~DeletesPass
<1> DEFINE q == request[w]
           r == request'[w]
<1>1. q \in Requests /\ request \in [Workers -> Requests]
  BY DEF TypeOK, Requests
<1>2. CASE NotFound(w)
  <2>1. request' = [request EXCEPT ![w] = Failed(q, "error")] /\ r = Failed(q, "error")
    BY <1>1, <1>2 DEF NotFound
  <2>2. q.stage \in {"txn", "undo_txn"} /\ UNCHANGED <<row, born, realised>>
    BY <1>2 DEF NotFound, Erasing
  <2> QED BY <1>1, <2>1, <2>2, FailedMoves DEF Erased
<1>3. CASE RollBack(w)
  <2>1. PICK kind : request' = [request EXCEPT ![w] = Failed(q, Seen(kind))]
    BY <1>3 DEF RollBack
  <2>2. r = Failed(q, Seen(kind))
    BY <1>1, <2>1
  <2>3. q.stage \in {"txn", "undo_txn"} /\ UNCHANGED <<row, born, realised>>
    BY <1>3 DEF RollBack
  <2> QED BY <1>1, <2>1, <2>2, <2>3, SeenType, FailedMoves DEF Erased
<1>4. CASE CallDriver(w)
  <2>1. request' = [request EXCEPT ![w] = Passed(q)] /\ r = Passed(q)
    BY <1>1, <1>4 DEF CallDriver
  <2>2. CallAhead(w) /\ Realise(w) /\ UNCHANGED <<row, born>>
    BY <1>4 DEF CallDriver
  <2>3. Goes(q, r, q.stage) /\ r.called = q.called + 1
    BY <1>1, <2>1, <2>2, PassedFacts DEF CallAhead
  <2>4. Erased(q) => Erased(r)
    BY <2>3 DEF Erased, Goes, Kept
  <2> QED BY <2>1, <2>2, <2>3, <2>4 DEF Moves
<1>5. CASE DriverRaises(w)
  <2>1. /\ CallAhead(w) /\ UNCHANGED <<row, born>>
        /\ UNCHANGED realised \/ Realise(w)
    BY <1>5 DEF DriverRaises
  <2>2. q.stage \in {"post", "undo_post"}
    BY <2>1 DEF CallAhead
  <2>3. PICK kind \in Faults[IF Deleting(q) THEN "delete" ELSE q.op, "postcommit"] :
          request' = [request EXCEPT ![w] = IF kind = "other" THEN Eaten(@) ELSE Failed(@, Seen(kind))]
    BY <1>5 DEF DriverRaises
  <2>4. CASE kind = "other" /\ Deleting(q)
    <3>1. request' = [request EXCEPT ![w] = Eaten(q)] /\ r = Eaten(q)
      BY <1>1, <2>3, <2>4
    <3>2. Goes(q, r, q.stage) /\ r.called = q.called + 1
      BY <1>1, <2>1, <2>4, <3>1, EatenFacts DEF CallAhead
    <3>3. MaySkip
      BY <2>3, <2>4 DEF MaySkip
    <3>4. Erased(q) => Erased(r)
      BY <3>2 DEF Erased, Goes, Kept
    <3> QED BY <2>1, <2>4, <3>1, <3>2, <3>3, <3>4 DEF Moves
  <2>5. CASE ~(kind = "other" /\ Deleting(q))
    <3>1. PICK e \in {"retriable", "error"} : request' = [request EXCEPT ![w] = Failed(q, e)]
      <4>1. CASE kind = "other"
        BY <1>1, <2>3, <2>5, <4>1 DEF Eaten, continue_on_failure
      <4>2. CASE kind # "other"
        BY <1>1, <2>3, <4>2, SeenType
      <4> QED BY <4>1, <4>2
    <3>2. r = Failed(q, e)
      BY <1>1, <3>1
    <3>3. Moves(w)
      BY <1>1, <2>2, <3>2, FailedMoves
    <3>4. Erased(q) => ~DeletesPass
      BY <2>3, Zenon DEF Erased, Deleting, DeletesPass
    <3> QED BY <2>1, <3>1, <3>2, <3>3, <3>4
  <2> QED BY <2>4, <2>5
<1>6. CASE Return(w)
  <2>1. q.stage \in {"post", "undo_post"} /\ q.called = DriverCount /\ UNCHANGED <<row, born, realised>>
    BY <1>6 DEF Return
  <2>2. CASE q.eaten
    <3>1. request' = [request EXCEPT ![w] = Failed(q, "error")] /\ r = Failed(q, "error")
      BY <1>1, <1>6, <2>2 DEF Return
    <3> QED BY <1>1, <2>1, <3>1, FailedMoves
  <2>3. CASE ~q.eaten
    <3>1. request' = [request EXCEPT ![w] = Completed(q)] /\ r = Completed(q)
      BY <1>1, <1>6, <2>3 DEF Return
    <3>2. ~(q.stage = "undo_post" /\ q.op = "delete")
      BY DEF Shape
    <3>3. Moves(w)
      BY <1>1, <2>1, <3>1, <3>2, CompletedFacts DEF Moves, Given
    <3> QED BY <2>1, <3>1, <3>3
  <2> QED BY <2>2, <2>3
<1>7. CASE ReadBack(w)
  <2>1. PICK a \in {"ok", "error"} : request' = [request EXCEPT ![w] = Answered(q, a)]
    BY <1>7 DEF ReadBack
  <2>2. r = Answered(q, a)
    BY <1>1, <2>1
  <2>3. q.stage = "read" /\ UNCHANGED <<row, born, realised>>
    BY <1>7 DEF ReadBack
  <2> QED BY <1>1, <2>1, <2>2, <2>3, AnsweredFacts DEF Moves, Erased
<1> QED BY <1>2, <1>3, <1>4, <1>5, <1>6, <1>7 DEF Quiet

--------------------
(* Soundness, and one row per creation *)

LEMMA MovesSound ==
  ASSUME NEW w \in Workers, request[w] \in Requests, Shape(request[w]), Moves(w)
  PROVE  /\ request'[w] \in Requests /\ Shape(request'[w])
         /\ request'[w].made = request[w].made
         /\ request'[w].id \in {request[w].id, None}
<1> DEFINE q == request[w]
           r == request'[w]
<1>1. r \in Requests /\ r.op = q.op /\ r.content = q.content /\ r.made = q.made
  BY DEF Moves, Ended, Begun, Goes, Kept
<1>2. ASSUME NEW a, Ended(q, r, a)
      PROVE  Shape(r) /\ r.id = q.id
  BY <1>1, <1>2 DEF Ended, Shape
<1>3. CASE Begun(q, r) /\ q.stage # "idle"
  BY <1>1, <1>3 DEF Begun, Shape
<1>4. CASE q.stage = "undo_txn" /\ Goes(q, r, "undo_txn") /\ r.called = q.called
  BY <1>1, <1>4 DEF Goes, Shape
<1>5. CASE q.stage = "post" /\ q.op = "create" /\ Goes(q, r, "undo_txn") /\ r.called = 0
  BY <1>1, <1>5 DEF Goes, Shape
<1>6. CASE q.stage = "post" /\ q.op # "delete" /\ Goes(q, r, "read") /\ r.called = 0
  BY <1>1, <1>6 DEF Goes, Shape
<1>7. CASE CallAhead(w) /\ Goes(q, r, q.stage)
  BY <1>1, <1>7 DEF Goes, Shape, CallAhead
<1> QED BY <1>1, <1>2, <1>3, <1>4, <1>5, <1>6, <1>7 DEF Moves

LEMMA OthersStay ==
  ASSUME TypeOK, NEW w \in Workers, NEW r \in Requests, request' = [request EXCEPT ![w] = r]
  PROVE  /\ request' \in [Workers -> Requests] /\ request'[w] = r
         /\ \A v \in Workers \ {w} : request'[v] = request[v]
BY DEF TypeOK, Requests

\* A driver method writes what its request says into the row of its request.
LEMMA RealiseType ==
  ASSUME Sound, NEW w \in Workers, CallAhead(w), Realise(w)
  PROVE  LET q == request[w]
             d == ordered_policy_drivers(q)
             x == IF Deleting(q) THEN None ELSE q.content
         IN /\ q.id \in Ids /\ d \in Drivers /\ q.called \in 0 .. DriverCount - 1
            /\ x \in Contents \cup {None} /\ (~Deleting(q) => x # None)
            /\ realised' \in [Ids -> [Drivers -> Contents \cup {None}]]
            /\ realised'[q.id][d] = x
            /\ \A i \in Ids, e \in Drivers :
                 i # q.id \/ e # d => realised'[i][e] = realised[i][e]
            /\ \A i \in Ids : i # q.id => realised'[i] = realised[i]
<1> DEFINE q == request[w]
           d == ordered_policy_drivers(q)
           x == IF Deleting(q) THEN None ELSE q.content
<1>1. q \in Requests /\ Shape(q) /\ realised \in [Ids -> [Drivers -> Contents \cup {None}]]
  BY DEF Sound, TypeOK, Requests
<1>2. q.stage \in {"post", "undo_post"} /\ q.called < DriverCount
  BY DEF CallAhead
<1>3. q.id \in Ids /\ d \in Drivers /\ q.called \in 0 .. DriverCount - 1
  <2>1. q.called \in 0 .. DriverCount /\ DriverCount \in Nat
    BY <1>1, DriverManagerAssumption DEF Requests
  <2> QED BY <1>1, <1>2, <2>1, PassedFacts DEF Shape
<1>4. x \in Contents \cup {None} /\ (~Deleting(q) => x # None)
  BY <1>1, <1>2, DriverManagerAssumption DEF Shape, Deleting, Requests
<1>5. realised' = [realised EXCEPT ![q.id][d] = x]
  BY DEF Realise
<1> HIDE DEF q, d, x
<1>6. /\ realised' \in [Ids -> [Drivers -> Contents \cup {None}]]
      /\ realised'[q.id][d] = x
      /\ \A i \in Ids, e \in Drivers : i # q.id \/ e # d => realised'[i][e] = realised[i][e]
      /\ \A i \in Ids : i # q.id => realised'[i] = realised[i]
  BY <1>1, <1>3, <1>4, <1>5
<1> QED BY <1>3, <1>4, <1>6 DEF q, d, x

LEMMA SoundInit == Init => Sound
<1> SUFFICES ASSUME Init PROVE Sound
  OBVIOUS
<1>1. 0 \in 0 .. DriverCount /\ 0 \in 0 .. MaxRetries /\ 0 \in 0 .. MaxIds
  BY DriverManagerAssumption
<1>2. NoRequest \in Requests
  BY <1>1 DEF NoRequest, Requests, Stages
<1>3. TypeOK
  BY <1>1, <1>2 DEF Init, TypeOK, Requests
<1>4. \A w \in Workers : Shape(request[w])
  BY DEF Init, NoRequest, Shape
<1>5. OnlyBorn
  <2>1. \A w \in Workers : request[w].made = {} /\ request[w].id = None
    BY DEF Init, NoRequest
  <2> QED BY <2>1 DEF OnlyBorn, Init
<1> QED BY <1>3, <1>4, <1>5 DEF Sound

\* A request that is received names a row that has been created.
LEMMA ReceivedFacts ==
  ASSUME Sound, NEW w \in Workers, Receives(w)
  PROVE  /\ request[w].stage = "idle" /\ UNCHANGED <<row, born, realised>>
         /\ request'[w] \in Requests /\ request' = [request EXCEPT ![w] = request'[w]]
         /\ request'[w].stage = "txn" /\ request'[w].made = {} /\ request'[w].called = 0
         /\ \/ request'[w].op = "create" /\ request'[w].id = None /\ request'[w].content \in Contents
            \/ request'[w].op = "update" /\ request'[w].id \in Addressed /\ request'[w].content \in Contents
            \/ request'[w].op = "delete" /\ request'[w].id \in Addressed /\ request'[w].content = None
         /\ Addressed \subseteq 1 .. born /\ 1 .. born \subseteq Ids
<1>1. 0 \in 0 .. DriverCount /\ 0 \in 0 .. MaxRetries /\ request \in [Workers -> Requests]
  BY DriverManagerAssumption DEF Sound, TypeOK, Requests
<1>2. Addressed \subseteq 1 .. born /\ 1 .. born \subseteq Ids
  BY DriverManagerAssumption DEF Addressed, Ids, Sound, TypeOK
<1>3. PICK op \in Ops, i \in Ids \cup {None}, x \in Contents \cup {None} :
        /\ Receive(w, op, i, x)
        /\ \/ op = "create" /\ i = None /\ x \in Contents
           \/ op = "update" /\ i \in Addressed /\ x \in Contents
           \/ op = "delete" /\ i \in Addressed /\ x = None
  BY <1>2 DEF Receives, ReceiveCreate, ReceiveUpdate, ReceiveDelete, Ops
<1> DEFINE r == [NoRequest EXCEPT !.stage = "txn", !.op = op, !.id = i, !.content = x]
<1>4. r \in Requests /\ r.stage = "txn" /\ r.op = op /\ r.id = i /\ r.content = x
      /\ r.made = {} /\ r.called = 0
  BY <1>1 DEF NoRequest, Requests, Stages
<1>5. request' = [request EXCEPT ![w] = r]
  BY <1>3 DEF Receive
<1>6. request[w].stage = "idle" /\ UNCHANGED <<row, born, realised>>
  BY <1>3 DEF Receive
<1> HIDE DEF r
<1>7. request'[w] = r
  BY <1>1, <1>5
<1> QED BY <1>2, <1>3, <1>4, <1>5, <1>6, <1>7

LEMMA CommitCreateFacts ==
  ASSUME Sound, NEW w \in Workers, CommitCreate(w)
  PROVE  LET q == request[w]
             r == request'[w]
         IN /\ q.stage = "txn" /\ q.op = "create" /\ q.content \in Contents
            /\ born + 1 \in Ids /\ born' = born + 1 /\ UNCHANGED realised
            /\ row' = [row EXCEPT ![born + 1] = q.content]
            /\ r \in Requests /\ request' = [request EXCEPT ![w] = r]
            /\ r.stage = "post" /\ r.op = "create" /\ r.content = q.content /\ r.called = 0
            /\ r.id = born + 1 /\ r.made = q.made \cup {born + 1}
<1> DEFINE q == request[w]
           r == [q EXCEPT !.stage = "post", !.id = born + 1, !.made = @ \cup {born + 1}]
<1>1. q \in Requests /\ request \in [Workers -> Requests] /\ Shape(q)
  BY DEF Sound, TypeOK, Requests
<1>2. q.stage = "txn" /\ q.op = "create" /\ q.content \in Contents /\ q.called = 0
  BY <1>1 DEF CommitCreate, Shape
<1>3. born + 1 \in Ids
  BY DriverManagerAssumption DEF CommitCreate, Sound, TypeOK, Ids
<1>4. r \in Requests /\ r.stage = "post" /\ r.op = "create" /\ r.content = q.content
      /\ r.called = 0 /\ r.id = born + 1 /\ r.made = q.made \cup {born + 1}
  BY <1>1, <1>2, <1>3 DEF Requests, Stages
<1>5. request' = [request EXCEPT ![w] = r]
  BY <1>1 DEF CommitCreate, Requests
<1> HIDE DEF r
<1>6. request'[w] = r
  BY <1>1, <1>5
<1> QED BY <1>2, <1>3, <1>4, <1>5, <1>6 DEF CommitCreate

LEMMA CommitUpdateFacts ==
  ASSUME Sound, NEW w \in Workers, CommitUpdate(w)
  PROVE  LET q == request[w]
             r == request'[w]
         IN /\ q.stage = "txn" /\ q.op = "update" /\ q.content \in Contents
            /\ q.id \in Ids /\ row[q.id] # None /\ UNCHANGED <<born, realised>>
            /\ row' = [row EXCEPT ![q.id] = q.content]
            /\ Goes(q, r, "post") /\ r.called = 0 /\ request' = [request EXCEPT ![w] = r]
<1> DEFINE q == request[w]
           r == [q EXCEPT !.stage = "post"]
<1>1. q \in Requests /\ request \in [Workers -> Requests] /\ Shape(q)
  BY DEF Sound, TypeOK, Requests
<1>2. q.stage = "txn" /\ q.op = "update" /\ q.content \in Contents /\ q.called = 0
      /\ q.id \in Ids /\ row[q.id] # None
  BY <1>1 DEF CommitUpdate, Shape, Exists
<1>3. Goes(q, r, "post") /\ r.called = 0
  BY <1>1, <1>2 DEF Goes, Kept, Requests, Stages
<1>4. request' = [request EXCEPT ![w] = r]
  BY <1>1 DEF CommitUpdate
<1> HIDE DEF r
<1>5. request'[w] = r
  BY <1>1, <1>4
<1> QED BY <1>2, <1>3, <1>4, <1>5 DEF CommitUpdate

LEMMA CommitDeleteFacts ==
  ASSUME Sound, NEW w \in Workers, CommitDelete(w)
  PROVE  LET q == request[w]
             r == request'[w]
             stage == IF q.stage = "txn" THEN "post" ELSE "undo_post"
         IN /\ \/ q.stage = "txn" /\ q.op = "delete"
               \/ q.stage = "undo_txn" /\ q.op = "create"
            /\ q.id \in Ids /\ row[q.id] # None /\ UNCHANGED <<born, realised>>
            /\ row' = [row EXCEPT ![q.id] = None]
            /\ Goes(q, r, stage) /\ r.called = 0 /\ request' = [request EXCEPT ![w] = r]
<1> DEFINE q == request[w]
           stage == IF q.stage = "txn" THEN "post" ELSE "undo_post"
           r == [q EXCEPT !.stage = stage]
<1>1. q \in Requests /\ request \in [Workers -> Requests] /\ Shape(q)
  BY DEF Sound, TypeOK, Requests
<1>2. \/ q.stage = "txn" /\ q.op = "delete"
      \/ q.stage = "undo_txn" /\ q.op = "create"
  BY <1>1 DEF CommitDelete, Erasing, Shape
<1>3. q.id \in Ids /\ row[q.id] # None /\ q.called = 0
  BY <1>1, <1>2 DEF CommitDelete, Exists, Shape
<1>4. stage \in Stages
  BY DEF Stages
<1>5. request' = [request EXCEPT ![w] = r]
  BY <1>1 DEF CommitDelete
<1> HIDE DEF stage
<1>6. Goes(q, r, stage) /\ r.called = 0
  BY <1>1, <1>3, <1>4 DEF Goes, Kept, Requests
<1> HIDE DEF r
<1>7. request'[w] = r
  BY <1>1, <1>5
<1> QED BY <1>2, <1>3, <1>5, <1>6, <1>7 DEF CommitDelete, stage

\* Every step is of one of these kinds.
LEMMA StepKinds ==
  ASSUME [Next]_vars
  PROVE  \/ UNCHANGED vars
         \/ \E w \in Workers : \/ Receives(w)
                               \/ CommitCreate(w) \/ CommitUpdate(w) \/ CommitDelete(w)
                               \/ Quiet(w)
BY DEF Next, Serve, Quiet

LEMMA NothingIsBorn ==
  ASSUME OnlyBorn, UNCHANGED born, NEW w \in Workers,
         \A v \in Workers \ {w} : request'[v] = request[v],
         request'[w].made \cup {request'[w].id} \subseteq 1 .. born \cup {None},
         \A i \in Ids : i > born => row'[i] = row[i] /\ realised'[i] = realised[i]
  PROVE  OnlyBorn'
<1>1. \A v \in Workers : request'[v].made \cup {request'[v].id} \subseteq 1 .. born \cup {None}
  BY DEF OnlyBorn
<1>2. \A i \in Ids : i > born => row'[i] = None /\ realised'[i] = [d \in Drivers |-> None]
  BY DEF OnlyBorn
<1> QED BY <1>1, <1>2 DEF OnlyBorn

LEMMA SoundNext ==
  ASSUME Sound, [Next]_vars
  PROVE  Sound'
<1> USE DEF Sound
<1>1. /\ request \in [Workers -> Requests] /\ row \in [Ids -> Contents \cup {None}]
      /\ born \in Nat /\ born <= MaxIds /\ MaxIds \in Nat
      /\ \A w \in Workers : request[w] \in Requests /\ Shape(request[w])
                            /\ request[w].made \cup {request[w].id} \subseteq 1 .. born \cup {None}
  BY DriverManagerAssumption DEF TypeOK, Requests, OnlyBorn
<1>2. CASE UNCHANGED vars
  BY <1>2 DEF vars, TypeOK, OnlyBorn
<1>3. ASSUME NEW w \in Workers, Receives(w)
      PROVE  Sound'
  <2>1. /\ request'[w] \in Requests /\ request' = [request EXCEPT ![w] = request'[w]]
        /\ UNCHANGED <<row, born, realised>>
    BY <1>3, ReceivedFacts
  <2>2. request' \in [Workers -> Requests] /\ \A v \in Workers \ {w} : request'[v] = request[v]
    BY <2>1, OthersStay
  <2>3. TypeOK'
    BY <2>1, <2>2 DEF TypeOK, Requests
  <2>4. Shape(request'[w])
    BY <1>3, ReceivedFacts DEF Shape, Ops
  <2>5. request'[w].made \cup {request'[w].id} \subseteq 1 .. born \cup {None}
    BY <1>3, ReceivedFacts
  <2>6. OnlyBorn'
    BY <2>1, <2>2, <2>5, NothingIsBorn
  <2> QED BY <1>1, <2>2, <2>3, <2>4, <2>6
<1>4. ASSUME NEW w \in Workers, CommitCreate(w)
      PROVE  Sound'
  <2> DEFINE q == request[w]
             r == request'[w]
  <2>1. /\ q.content \in Contents /\ born + 1 \in Ids /\ born' = born + 1 /\ UNCHANGED realised
        /\ row' = [row EXCEPT ![born + 1] = q.content]
        /\ r \in Requests /\ request' = [request EXCEPT ![w] = r]
        /\ r.id = born + 1 /\ r.made = q.made \cup {born + 1}
    BY <1>4, CommitCreateFacts
  <2>2. request' \in [Workers -> Requests] /\ \A v \in Workers \ {w} : request'[v] = request[v]
    BY <2>1, OthersStay
  <2>3. TypeOK'
    BY <1>1, <2>1, <2>2 DEF TypeOK, Requests, Ids
  <2>4. Shape(r)
    BY <1>4, <2>1, CommitCreateFacts DEF Shape, Ops
  <2>5. OnlyBorn'
    <3>1. \A v \in Workers :
            request'[v].made \cup {request'[v].id} \subseteq 1 .. born + 1 \cup {None}
      <4>1. 1 .. born \subseteq 1 .. born + 1 /\ born + 1 \in 1 .. born + 1
        BY <1>1
      <4> QED BY <1>1, <2>1, <2>2, <4>1
    <3>2. \A i \in Ids : i > born + 1 => i > born /\ i # born + 1
      BY <1>1 DEF Ids
    <3>3. \A i \in Ids : i > born + 1 => row'[i] = None /\ realised'[i] = [d \in Drivers |-> None]
      BY <1>1, <2>1, <3>2 DEF OnlyBorn
    <3> QED BY <2>1, <3>1, <3>3 DEF OnlyBorn
  <2> QED BY <1>1, <2>2, <2>3, <2>4, <2>5
<1>5. ASSUME NEW w \in Workers, CommitUpdate(w) \/ CommitDelete(w)
      PROVE  Sound'
  <2> DEFINE q == request[w]
             r == request'[w]
  <2>1. /\ q.id \in Ids /\ UNCHANGED <<born, realised>> /\ row[q.id] # None
        /\ \E x \in Contents \cup {None} : row' = [row EXCEPT ![q.id] = x]
        /\ r \in Requests /\ request' = [request EXCEPT ![w] = r]
        /\ r.id = q.id /\ r.made = q.made
    BY <1>5, CommitUpdateFacts, CommitDeleteFacts DEF Goes, Kept
  <2>2. request' \in [Workers -> Requests] /\ \A v \in Workers \ {w} : request'[v] = request[v]
    BY <2>1, OthersStay
  <2>3. TypeOK'
    BY <1>1, <2>1, <2>2 DEF TypeOK, Requests
  <2>4. Shape(r)
    <3>1. CASE CommitUpdate(w)
      BY <1>1, <3>1, CommitUpdateFacts DEF Shape, Goes, Kept, Ops
    <3>2. CASE CommitDelete(w)
      BY <1>1, <3>2, CommitDeleteFacts DEF Shape, Goes, Kept, Ops
    <3> QED BY <1>5, <3>1, <3>2
  <2>5. \A i \in Ids : i > born => row'[i] = row[i]
    <3>1. \A i \in Ids : i > born => i # q.id
      BY <2>1 DEF OnlyBorn
    <3> QED BY <1>1, <2>1, <3>1
  <2>6. OnlyBorn'
    BY <1>1, <2>1, <2>2, <2>5, NothingIsBorn
  <2> QED BY <1>1, <2>2, <2>3, <2>4, <2>6
<1>6. ASSUME NEW w \in Workers, Quiet(w)
      PROVE  Sound'
  <2>1. /\ UNCHANGED <<row, born>> /\ request' = [request EXCEPT ![w] = request'[w]]
        /\ Moves(w)
        /\ UNCHANGED realised \/ (CallAhead(w) /\ Realise(w))
    BY <1>1, <1>6, QuietSteps
  <2>2. /\ request'[w] \in Requests /\ Shape(request'[w]) /\ request'[w].made = request[w].made
        /\ request'[w].id \in {request[w].id, None}
    BY <1>1, <2>1, MovesSound
  <2>3. request' \in [Workers -> Requests] /\ \A v \in Workers \ {w} : request'[v] = request[v]
    BY <2>1, <2>2, OthersStay
  <2>4. /\ realised' \in [Ids -> [Drivers -> Contents \cup {None}]]
        /\ \A i \in Ids : i > born => realised'[i] = realised[i]
    <3>1. CASE UNCHANGED realised
      BY <3>1 DEF TypeOK
    <3>2. CASE CallAhead(w) /\ Realise(w)
      <4>1. /\ request[w].id \in Ids /\ realised' \in [Ids -> [Drivers -> Contents \cup {None}]]
            /\ \A i \in Ids : i # request[w].id => realised'[i] = realised[i]
        BY <3>2, RealiseType
      <4>2. request[w].id \in 1 .. born
        BY <1>1, <4>1, DriverManagerAssumption
      <4> QED BY <1>1, <4>1, <4>2 DEF Ids
    <3> QED BY <2>1, <3>1, <3>2
  <2>5. TypeOK'
    BY <2>1, <2>3, <2>4 DEF TypeOK, Requests
  <2>6. OnlyBorn'
    BY <1>1, <2>1, <2>2, <2>3, <2>4, NothingIsBorn
  <2> QED BY <1>1, <2>2, <2>3, <2>5, <2>6
<1> QED BY <1>2, <1>3, <1>4, <1>5, <1>6, StepKinds

\* Every variable has its type, whatever the drivers raise (policy_driver_manager.py,
\* plugin.py).
THEOREM TypeCorrect == Spec => []TypeOK
<1>1. Init => Sound
  BY SoundInit
<1>2. Sound /\ [Next]_vars => Sound'
  BY SoundNext
<1>3. Sound => TypeOK
  BY DEF Sound
<1> QED BY <1>1, <1>2, <1>3, PTL DEF Spec

LEMMA OneRowInit == Init => OneRow
BY DEF Init, NoRequest, OneRow

\* What a step leaves of the rows a request knows: a row that is created is new.
LEMMA OneRowNext ==
  ASSUME Sound, OneRow, [Next]_vars
  PROVE  OneRow'
<1>1. /\ request \in [Workers -> Requests] /\ row \in [Ids -> Contents \cup {None}]
      /\ born \in Nat /\ None \notin Contents \cup Ids
      /\ \A w \in Workers : request[w] \in Requests /\ Shape(request[w])
                            /\ request[w].made \cup {request[w].id} \subseteq 1 .. born \cup {None}
  BY DriverManagerAssumption DEF Sound, TypeOK, Requests, OnlyBorn
<1>2. CASE UNCHANGED vars
  BY <1>2 DEF vars, OneRow
<1>3. ASSUME NEW w \in Workers, Receives(w)
      PROVE  OneRow'
  <2>1. /\ request'[w].made = {} /\ request'[w].stage = "txn" /\ row' = row
        /\ \A v \in Workers \ {w} : request'[v] = request[v]
    BY <1>3, ReceivedFacts, OthersStay DEF Sound
  <2> QED BY <2>1 DEF OneRow
<1>4. ASSUME NEW w \in Workers, CommitCreate(w)
      PROVE  OneRow'
  <2> DEFINE q == request[w]
             r == request'[w]
  <2>1. /\ q.stage = "txn" /\ q.op = "create" /\ born + 1 \in Ids
        /\ row' = [row EXCEPT ![born + 1] = q.content]
        /\ r.stage = "post" /\ r.id = born + 1 /\ r.made = q.made \cup {born + 1}
        /\ \A v \in Workers \ {w} : request'[v] = request[v]
    BY <1>4, CommitCreateFacts, OthersStay DEF Sound
  <2>2. \A i \in q.made : i # born + 1 /\ row[i] = None /\ i \in Ids
    <3>1. q.id = None /\ q.made \subseteq Ids
      BY <1>1, <2>1 DEF Shape, Requests
    <3>2. \A i \in q.made : i \in 1 .. born
      BY <1>1, <3>1
    <3> QED BY <1>1, <3>1, <3>2 DEF OneRow
  <2>3. \A i \in Ids : i # born + 1 => row'[i] = row[i]
    BY <1>1, <2>1
  <2>4. \A i \in r.made : row'[i] # None => i = r.id
    BY <1>1, <2>1, <2>2
  <2>5. ASSUME NEW v \in Workers \ {w}
        PROVE  /\ \A i \in request[v].made : row'[i] # None => i = request[v].id
               /\ request[v].stage = "undo_post" => row'[request[v].id] = None
    <3>1. request[v].made \subseteq Ids /\ (request[v].stage = "undo_post" => request[v].id \in Ids)
      BY <1>1 DEF Requests, Shape
    <3>2. born + 1 \notin request[v].made /\ (request[v].id \in Ids => request[v].id # born + 1)
      <4>1. request[v].made \cup {request[v].id} \subseteq 1 .. born \cup {None}
        BY <1>1
      <4>2. born + 1 \notin 1 .. born \cup {None}
        BY <1>1, <2>1
      <4> QED BY <4>1, <4>2
    <3>3. /\ \A i \in request[v].made : row[i] # None => i = request[v].id
          /\ request[v].stage = "undo_post" => row[request[v].id] = None
      BY DEF OneRow
    <3> QED BY <2>3, <3>1, <3>2, <3>3
  <2> QED BY <2>1, <2>4, <2>5 DEF OneRow
<1>5. ASSUME NEW w \in Workers, CommitUpdate(w) \/ CommitDelete(w)
      PROVE  OneRow'
  <2> DEFINE q == request[w]
             r == request'[w]
  <2>1. /\ q.id \in Ids /\ row[q.id] # None /\ r.id = q.id /\ r.made = q.made
        /\ \E x \in Contents \cup {None} : row' = [row EXCEPT ![q.id] = x]
        /\ \A v \in Workers \ {w} : request'[v] = request[v]
    BY <1>1, <1>5, CommitUpdateFacts, CommitDeleteFacts, OthersStay DEF Goes, Kept, Sound
  <2>2. ASSUME NEW v \in Workers
        PROVE  /\ \A i \in request[v].made : row'[i] # None => i = request[v].id
               /\ request[v].stage = "undo_post" => row'[request[v].id] = None
    <3>1. \A i \in Ids : row'[i] # None => row[i] # None
      BY <1>1, <2>1
    <3>2. request[v].made \subseteq Ids /\ (request[v].stage = "undo_post" => request[v].id \in Ids)
      BY <1>1 DEF Requests, Shape
    <3>3. /\ \A i \in request[v].made : row[i] # None => i = request[v].id
          /\ request[v].stage = "undo_post" => row[request[v].id] = None
      BY DEF OneRow
    <3> QED BY <3>1, <3>2, <3>3
  <2>3. r.stage = "undo_post" => row'[r.id] = None
    <3>1. CASE CommitUpdate(w)
      BY <3>1, CommitUpdateFacts DEF Goes
    <3>2. CASE CommitDelete(w)
      <4>1. row' = [row EXCEPT ![q.id] = None]
        BY <3>2, CommitDeleteFacts
      <4> HIDE DEF q, r
      <4> QED BY <1>1, <2>1, <4>1
    <3> QED BY <1>5, <3>1, <3>2
  <2> QED BY <2>1, <2>2, <2>3 DEF OneRow
<1>6. ASSUME NEW w \in Workers, Quiet(w)
      PROVE  OneRow'
  <2> DEFINE q == request[w]
             r == request'[w]
  <2>1. row' = row /\ Moves(w) /\ request' = [request EXCEPT ![w] = r]
    BY <1>1, <1>6, QuietSteps DEF Sound
  <2>2. r \in Requests /\ r.made = q.made /\ r.id \in {q.id, None}
    BY <1>1, <2>1, MovesSound
  <2>3. \A v \in Workers \ {w} : request'[v] = request[v]
    BY <2>1, <2>2, OthersStay DEF Sound
  <2>4. \A i \in r.made : row[i] # None => i = r.id
    <3>1. CASE r.id = q.id
      BY <2>2, <3>1 DEF OneRow
    <3>2. CASE r.id # q.id
      <4>1. Begun(q, r) /\ q.op = "create" /\ q.stage \in {"txn", "undo_post"}
        BY <2>1, <3>2 DEF Moves, Ended, Begun, Goes
      <4>2. CASE q.stage = "txn"
        BY <1>1, <3>2, <4>1, <4>2 DEF Shape, Begun
      <4>3. CASE q.stage = "undo_post"
        BY <2>2, <4>3 DEF OneRow
      <4> QED BY <4>1, <4>2, <4>3
    <3> QED BY <3>1, <3>2
  <2>5. r.stage = "undo_post" => row[r.id] = None
    <3>1. r.stage = "undo_post" => q.stage = "undo_post" /\ r.id = q.id
      BY <2>1 DEF Moves, Ended, Begun, Goes
    <3> QED BY <3>1 DEF OneRow
  <2> QED BY <2>1, <2>3, <2>4, <2>5 DEF OneRow
<1> QED BY <1>2, <1>3, <1>4, <1>5, <1>6, StepKinds

LEMMA OneRowImplies == Sound /\ OneRow => OneRowPerCreation
<1> SUFFICES ASSUME Sound, OneRow, NEW w \in Workers
             PROVE  /\ \A i, j \in Left(w) : i = j
                    /\ request[w].stage = "txn" => Left(w) = {}
  BY DEF OneRowPerCreation
<1>1. request[w] \in Requests /\ Shape(request[w]) /\ None \notin Ids
  BY DriverManagerAssumption DEF Sound, TypeOK, Requests
<1>2. \A i \in Left(w) : i = request[w].id /\ i \in request[w].made /\ i \in Ids
  BY <1>1 DEF OneRow, Left, Requests
<1>3. request[w].stage = "txn" => request[w].made = {} \/ request[w].id = None
  BY <1>1 DEF Shape, Ops
<1> QED BY <1>1, <1>2, <1>3

\* A creation leaves one row at most and none when it begins again: with any clients
\* and any errors, those of the deletion that undoes it included
\* (create_* and retry_if_session_inactive, plugin.py).
THEOREM OneRowIsLeft == Spec => []OneRowPerCreation
<1>1. Init => Sound /\ OneRow
  BY SoundInit, OneRowInit
<1>2. Sound /\ OneRow /\ [Next]_vars => Sound' /\ OneRow'
  BY SoundNext, OneRowNext
<1>3. Sound /\ OneRow => OneRowPerCreation
  BY OneRowImplies
<1> QED BY <1>1, <1>2, <1>3, PTL DEF Spec

--------------------
(* Patient clients: the rows of the requests that run are apart *)

LEMMA SoundFacts ==
  ASSUME Sound
  PROVE  /\ request \in [Workers -> Requests] /\ row \in [Ids -> Contents \cup {None}]
         /\ realised \in [Ids -> [Drivers -> Contents \cup {None}]]
         /\ born \in Nat /\ None \notin Contents \cup Ids
         /\ DriverCount \in Nat \ {0}
         /\ \A w \in Workers : request[w] \in Requests /\ Shape(request[w])
BY DriverManagerAssumption DEF Sound, TypeOK, Requests

\* What a request knows has been created.
LEMMA ClaimsAreBorn ==
  ASSUME Sound, NEW w \in Workers
  PROVE  Claims(w) \subseteq 1 .. born
<1>1. request[w].made \cup {request[w].id} \subseteq 1 .. born \cup {None}
  BY DEF Sound, OnlyBorn
<1> QED BY <1>1 DEF Claims

\* The row a request works on is claimed.
LEMMA WorksOnClaim ==
  ASSUME Sound, NEW w \in Workers, request[w].id \in Ids
  PROVE  request[w].id \in Claims(w)
BY DriverManagerAssumption DEF Claims

\* The requests of others have other rows.
LEMMA OtherRows ==
  ASSUME Sound, Apart, NEW v \in Workers, NEW w \in Workers, v # w, Busy(v), Busy(w),
         request[v].id \in Ids, request[w].id \in Ids
  PROVE  request[v].id # request[w].id
<1>1. Claims(v) \cap Claims(w) = {}
  BY DEF Apart
<1> QED BY <1>1, WorksOnClaim

LEMMA FewerClaims ==
  ASSUME Apart, NEW w \in Workers, \A v \in Workers \ {w} : request'[v] = request[v],
         Busy(w)' => Busy(w) /\ Claims(w)' \subseteq Claims(w)
  PROVE  Apart'
<1>1. \A v \in Workers \ {w} : Claims(v)' = Claims(v) /\ (Busy(v)' <=> Busy(v))
  BY DEF Claims, Busy
<1> SUFFICES ASSUME NEW u \in Workers, NEW v \in Workers, u # v, Busy(u)', Busy(v)'
             PROVE  Claims(u)' \cap Claims(v)' = {}
  BY DEF Apart
<1>2. Busy(u) /\ Busy(v) /\ Claims(u)' \subseteq Claims(u) /\ Claims(v)' \subseteq Claims(v)
  BY <1>1
<1>3. Claims(u) \cap Claims(v) = {}
  BY <1>2 DEF Apart
<1> QED BY <1>2, <1>3

LEMMA ApartInit == Init => Apart
BY DEF Init, NoRequest, Apart, Busy

LEMMA ApartNext ==
  ASSUME Sound, Apart, Patient, [Next]_vars
  PROVE  Apart'
<1>1. CASE UNCHANGED vars
  BY <1>1 DEF vars, Apart, Busy, Claims
<1>2. ASSUME NEW w \in Workers, Receives(w)
      PROVE  Apart'
  <2>1. /\ request'[w].made = {}
        /\ request'[w].id = None \/ request'[w].id \in Addressed
        /\ \A v \in Workers \ {w} : request'[v] = request[v]
    BY <1>2, ReceivedFacts, OthersStay DEF Sound
  <2>2. \A v \in Workers \ {w} : Claims(v)' = Claims(v) /\ (Busy(v)' <=> Busy(v))
    BY <2>1 DEF Claims, Busy
  <2>3. \A v \in Workers : Busy(v) => Claims(w)' \cap Claims(v) = {}
    <3>1. Claims(w)' = {request'[w].id} \ {None}
      BY <2>1 DEF Claims
    <3>2. \A v \in Workers : Busy(v) => request'[w].id = None \/ request'[w].id \notin Claims(v)
      BY <2>1 DEF Addressed, Claims
    <3> QED BY <3>1, <3>2
  <2> QED BY <2>2, <2>3 DEF Apart
<1>3. ASSUME NEW w \in Workers, CommitCreate(w)
      PROVE  Apart'
  <2>1. /\ request[w].stage = "txn" /\ request'[w].id = born + 1 /\ born + 1 \in Ids
        /\ request'[w].made = request[w].made \cup {born + 1}
        /\ \A v \in Workers \ {w} : request'[v] = request[v]
    BY <1>3, CommitCreateFacts, OthersStay DEF Sound
  <2>2. \A v \in Workers \ {w} : Claims(v)' = Claims(v) /\ (Busy(v)' <=> Busy(v))
    BY <2>1 DEF Claims, Busy
  <2>3. Claims(w)' \subseteq Claims(w) \cup {born + 1}
    BY <2>1 DEF Claims
  <2>4. \A v \in Workers : born + 1 \notin Claims(v)
    <3>1. born + 1 \notin 1 .. born
      BY SoundFacts
    <3> QED BY <3>1, ClaimsAreBorn
  <2>5. Busy(w)
    BY <2>1 DEF Busy
  <2> SUFFICES ASSUME NEW u \in Workers, NEW v \in Workers, u # v, Busy(u)', Busy(v)'
               PROVE  Claims(u)' \cap Claims(v)' = {}
    BY DEF Apart
  <2>6. Busy(u) /\ Busy(v)
    BY <2>2, <2>5
  <2>7. Claims(u) \cap Claims(v) = {}
    BY <2>6 DEF Apart
  <2> QED BY <2>2, <2>3, <2>4, <2>7
<1>4. ASSUME NEW w \in Workers, CommitUpdate(w) \/ CommitDelete(w)
      PROVE  Apart'
  <2>1. /\ request[w].stage # "idle" /\ request'[w].made = request[w].made
        /\ request'[w].id = request[w].id
        /\ \A v \in Workers \ {w} : request'[v] = request[v]
    BY <1>4, CommitUpdateFacts, CommitDeleteFacts, OthersStay DEF Goes, Kept, Sound
  <2> QED BY <2>1, FewerClaims DEF Busy, Claims
<1>5. ASSUME NEW w \in Workers, Quiet(w)
      PROVE  Apart'
  <2>1. Moves(w) /\ request' = [request EXCEPT ![w] = request'[w]]
    BY <1>5, SoundFacts, QuietSteps DEF Sound
  <2>2. /\ request'[w] \in Requests /\ request'[w].made = request[w].made
        /\ request'[w].id \in {request[w].id, None}
    BY <2>1, SoundFacts, MovesSound
  <2>3. \A v \in Workers \ {w} : request'[v] = request[v]
    BY <2>1, <2>2, OthersStay DEF Sound
  <2>4. request[w].stage # "idle"
    BY <1>5 DEF Quiet, NotFound, Erasing, RollBack, CallDriver, DriverRaises, CallAhead, Return, ReadBack
  <2> QED BY <2>2, <2>3, <2>4, FewerClaims DEF Busy, Claims
<1> QED BY <1>1, <1>2, <1>3, <1>4, <1>5, StepKinds

\* What a request that goes on with its row has done in a quiet step.
LEMMA QuietKeeps ==
  ASSUME Sound, NEW w \in Workers, Quiet(w)
  PROVE  LET q == request[w]
             r == request'[w]
         IN /\ UNCHANGED row /\ \A v \in Workers \ {w} : request'[v] = request[v]
            /\ q.stage # "idle" /\ r.op = q.op /\ r.made = q.made
            /\ UNCHANGED realised \/ (CallAhead(w) /\ Realise(w))
            /\ Writing(r) => Writing(q) /\ r.id = q.id /\ r.content = q.content
            /\ Erased(r) => Erased(q) /\ r.id = q.id
            /\ r.stage = "post" /\ r.op # "delete" =>
                 /\ q.stage = "post" /\ q.op # "delete"
                 /\ CallAhead(w) /\ Realise(w) /\ r.called = q.called + 1
            /\ r.stage = "read" =>
                 /\ q.stage = "post" /\ q.op # "delete" /\ q.called = DriverCount
                 /\ UNCHANGED realised
            /\ Erased(r) => /\ CallAhead(w) /\ r.called = q.called + 1
                            /\ Realise(w) \/ MaySkip
            /\ Erased(q) /\ ~Erased(r) =>
                 q.called = DriverCount \/ ~DeletesPass
<1> DEFINE q == request[w]
           r == request'[w]
<1>1. q \in Requests /\ Shape(q) /\ DriverCount \in Nat /\ q.called \in 0 .. DriverCount
  BY SoundFacts DEF Requests
<1>2. /\ UNCHANGED row /\ Moves(w) /\ request' = [request EXCEPT ![w] = r]
      /\ UNCHANGED realised \/ (CallAhead(w) /\ Realise(w))
      /\ Erased(q) /\ ~Erased(r) => q.called = DriverCount \/ ~DeletesPass
  BY <1>1, QuietSteps DEF Sound
<1>3. r \in Requests /\ \A v \in Workers \ {w} : request'[v] = request[v]
  BY <1>1, <1>2, MovesSound, OthersStay DEF Sound
<1>4. q.stage # "idle"
  BY DEF Quiet, NotFound, Erasing, RollBack, CallDriver, DriverRaises, CallAhead, Return, ReadBack
<1>5. r.op = q.op /\ r.content = q.content /\ r.made = q.made
  BY <1>2 DEF Moves, Ended, Begun, Goes, Kept
<1>6. Writing(r) => Writing(q) /\ r.id = q.id
  BY <1>1, <1>2, <1>5 DEF Moves, Ended, Begun, Goes, Writing, CallAhead, Shape
<1>7. Erased(r) => /\ Erased(q) /\ r.id = q.id /\ CallAhead(w) /\ r.called = q.called + 1
                   /\ Realise(w) \/ MaySkip
  BY <1>2, <1>5 DEF Moves, Ended, Begun, Goes, Erased
<1>8. r.stage = "post" /\ r.op # "delete" =>
        /\ q.stage = "post" /\ q.op # "delete"
        /\ CallAhead(w) /\ Realise(w) /\ r.called = q.called + 1
  BY <1>2, <1>5 DEF Moves, Ended, Begun, Goes, Deleting
<1>9. r.stage = "read" =>
        /\ q.stage = "post" /\ q.op # "delete" /\ q.called = DriverCount
        /\ UNCHANGED realised
  <2>1. r.stage = "read" => q.stage = "post" /\ q.op # "delete" /\ q.called = DriverCount
    BY <1>2 DEF Moves, Ended, Begun, Goes, CallAhead
  <2>2. q.called = DriverCount => ~CallAhead(w)
    BY <1>1 DEF CallAhead
  <2> QED BY <1>2, <2>1, <2>2
<1> QED BY <1>2, <1>3, <1>4, <1>5, <1>6, <1>7, <1>8, <1>9

\* A commit changes the row of its own request, and that of no other.
LEMMA OthersKeepRows ==
  ASSUME Sound, Apart, NEW w \in Workers, Busy(w), NEW i \in Ids, NEW x,
         i = request[w].id \/ i = born + 1, row' = [row EXCEPT ![i] = x],
         NEW v \in Workers, v # w, Busy(v), request[v].id \in Ids
  PROVE  row'[request[v].id] = row[request[v].id]
<1>1. request[v].id # i
  <2>1. CASE i = request[w].id
    BY <2>1, OtherRows
  <2>2. CASE i = born + 1
    <3>1. request[v].id \in 1 .. born
      BY ClaimsAreBorn, WorksOnClaim
    <3> QED BY <2>2, <3>1, SoundFacts
  <2> QED BY <2>1, <2>2
<1> QED BY <1>1, SoundFacts

LEMMA RowsAreKeptInit == Init => RowsAreKept
BY DEF Init, NoRequest, RowsAreKept, Writing, Erased

\* The row of a request that is past its transaction.
LEMMA RowInUse ==
  ASSUME Sound, NEW w \in Workers, Writing(request[w]) \/ Erased(request[w])
  PROVE  request[w].id \in Ids /\ Busy(w)
BY SoundFacts DEF Writing, Erased, Shape, Busy

LEMMA RowsAreKeptNext ==
  ASSUME Sound, Apart, RowsAreKept, [Next]_vars
  PROVE  RowsAreKept'
<1>1. CASE UNCHANGED vars
  BY <1>1 DEF vars, RowsAreKept
<1>2. ASSUME NEW w \in Workers, Receives(w)
      PROVE  RowsAreKept'
  <2>1. /\ request'[w].stage = "txn" /\ UNCHANGED row
        /\ \A v \in Workers \ {w} : request'[v] = request[v]
    BY <1>2, ReceivedFacts, OthersStay DEF Sound
  <2> QED BY <2>1 DEF RowsAreKept, Writing, Erased
<1>3. ASSUME NEW w \in Workers, CommitCreate(w) \/ CommitUpdate(w) \/ CommitDelete(w)
      PROVE  RowsAreKept'
  <2>1. \A v \in Workers \ {w} : request'[v] = request[v]
    BY <1>3, CommitCreateFacts, CommitUpdateFacts, CommitDeleteFacts, OthersStay DEF Goes, Kept, Sound
  <2>2. Busy(w)
    BY <1>3, CommitCreateFacts, CommitUpdateFacts, CommitDeleteFacts DEF Busy
  <2>3. \E i \in Ids, x \in Contents \cup {None} :
          /\ i = request[w].id \/ i = born + 1
          /\ row' = [row EXCEPT ![i] = x]
    BY <1>3, CommitCreateFacts, CommitUpdateFacts, CommitDeleteFacts
  <2>4. ASSUME NEW v \in Workers \ {w}
        PROVE  /\ Writing(request'[v]) => row'[request'[v].id] = request'[v].content
               /\ Erased(request'[v]) => row'[request'[v].id] = None
    <3>1. Writing(request[v]) \/ Erased(request[v]) => row'[request[v].id] = row[request[v].id]
      BY <2>2, <2>3, OthersKeepRows, RowInUse
    <3>2. /\ Writing(request[v]) => row[request[v].id] = request[v].content
          /\ Erased(request[v]) => row[request[v].id] = None
      BY DEF RowsAreKept
    <3> QED BY <2>1, <3>1, <3>2
  <2>5. /\ Writing(request'[w]) => row'[request'[w].id] = request'[w].content
        /\ Erased(request'[w]) => row'[request'[w].id] = None
    <3>1. CASE CommitCreate(w)
      BY <3>1, CommitCreateFacts, SoundFacts DEF Erased
    <3>2. CASE CommitUpdate(w)
      BY <3>2, CommitUpdateFacts, SoundFacts DEF Erased, Goes, Kept
    <3>3. CASE CommitDelete(w)
      BY <3>3, CommitDeleteFacts, SoundFacts DEF Writing, Goes, Kept
    <3> QED BY <1>3, <3>1, <3>2, <3>3
  <2> QED BY <2>4, <2>5 DEF RowsAreKept
<1>4. ASSUME NEW w \in Workers, Quiet(w)
      PROVE  RowsAreKept'
  <2>1. /\ UNCHANGED row /\ \A v \in Workers \ {w} : request'[v] = request[v]
        /\ Writing(request'[w]) =>
             /\ Writing(request[w]) /\ request'[w].id = request[w].id
             /\ request'[w].content = request[w].content
        /\ Erased(request'[w]) => Erased(request[w]) /\ request'[w].id = request[w].id
    BY <1>4, QuietKeeps
  <2> QED BY <2>1 DEF RowsAreKept
<1> QED BY <1>1, <1>2, <1>3, <1>4, StepKinds

--------------------
(* What the drivers have made of the rows *)

LEMMA DriversInit == Init => DriversHaveWritten /\ DriversHaveErased
BY DEF Init, NoRequest, DriversHaveWritten, DriversHaveErased, Erased

\* A driver that is called for one request touches the rows of no other.
LEMMA OthersKeepDrivers ==
  ASSUME Sound, Apart, NEW w \in Workers, Busy(w),
         UNCHANGED realised \/ (CallAhead(w) /\ Realise(w)),
         NEW v \in Workers, v # w, Busy(v), request[v].id \in Ids
  PROVE  realised'[request[v].id] = realised[request[v].id]
<1>1. CASE UNCHANGED realised
  BY <1>1
<1>2. CASE CallAhead(w) /\ Realise(w)
  <2>1. /\ request[w].id \in Ids
        /\ \A i \in Ids : i # request[w].id => realised'[i] = realised[i]
    BY <1>2, RealiseType
  <2>2. request[v].id # request[w].id
    BY <2>1, OtherRows
  <2> QED BY <2>1, <2>2
<1> QED BY <1>1, <1>2

\* Steps that leave the drivers alone and a request where none was called.
LEMMA DriversNotCalled ==
  ASSUME Sound, NEW w \in Workers, UNCHANGED realised,
         \A v \in Workers \ {w} : request'[v] = request[v],
         request'[w].stage # "read", request'[w].called = 0
  PROVE  /\ DriversHaveWritten => DriversHaveWritten'
         /\ DriversHaveErased => DriversHaveErased'
<1>1. \A d \in Drivers : ~(d <= 0) /\ ~(d > DriverCount - 0)
  BY SoundFacts DEF Drivers
<1>2. ASSUME DriversHaveWritten PROVE DriversHaveWritten'
  BY <1>1, <1>2 DEF DriversHaveWritten
<1>3. ASSUME DriversHaveErased PROVE DriversHaveErased'
  BY <1>1, <1>3 DEF DriversHaveErased
<1> QED BY <1>2, <1>3

LEMMA NoDriverCalled ==
  ASSUME Sound, NEW w \in Workers,
         Receives(w) \/ CommitCreate(w) \/ CommitUpdate(w) \/ CommitDelete(w)
  PROVE  /\ UNCHANGED realised /\ \A v \in Workers \ {w} : request'[v] = request[v]
         /\ request'[w].stage # "read" /\ request'[w].called = 0
<1>1. /\ UNCHANGED realised /\ request' = [request EXCEPT ![w] = request'[w]]
      /\ request'[w].stage # "read" /\ request'[w].called = 0 /\ request'[w] \in Requests
  BY ReceivedFacts, CommitCreateFacts, CommitUpdateFacts, CommitDeleteFacts DEF Goes, Kept
<1> QED BY <1>1, OthersStay DEF Sound

LEMMA DriversHaveWrittenNext ==
  ASSUME Sound, Apart, DriversHaveWritten, [Next]_vars
  PROVE  DriversHaveWritten'
<1>1. CASE UNCHANGED vars
  BY <1>1 DEF vars, DriversHaveWritten
<1>2. ASSUME NEW w \in Workers,
             Receives(w) \/ CommitCreate(w) \/ CommitUpdate(w) \/ CommitDelete(w)
      PROVE  DriversHaveWritten'
  BY <1>2, NoDriverCalled, DriversNotCalled
<1>3. ASSUME NEW w \in Workers, Quiet(w)
      PROVE  DriversHaveWritten'
  <2> DEFINE q == request[w]
             r == request'[w]
  <2>1. /\ \A v \in Workers \ {w} : request'[v] = request[v]
        /\ Busy(w) /\ (UNCHANGED realised \/ (CallAhead(w) /\ Realise(w)))
    BY <1>3, QuietKeeps DEF Busy
  <2>2. ASSUME NEW v \in Workers \ {w}, NEW d \in Drivers,
               request'[v].stage = "read"
                 \/ (request'[v].stage = "post" /\ request'[v].op # "delete" /\ d <= request'[v].called)
        PROVE  realised'[request'[v].id][d] = request'[v].content
    <3>1. request'[v] = request[v]
      BY <2>1
    <3>2. realised[request[v].id][d] = request[v].content
      BY <2>2, <3>1 DEF DriversHaveWritten
    <3>3. request[v].id \in Ids /\ Busy(v)
      BY <2>2, <3>1, SoundFacts DEF Shape, Busy
    <3>4. realised'[request[v].id] = realised[request[v].id]
      BY <2>1, <3>3, OthersKeepDrivers
    <3> QED BY <3>1, <3>2, <3>4
  <2>3. ASSUME NEW d \in Drivers, r.stage = "read"
        PROVE  realised'[r.id][d] = r.content
    <3>1. /\ q.stage = "post" /\ q.op # "delete" /\ q.called = DriverCount /\ UNCHANGED realised
          /\ r.id = q.id /\ r.content = q.content
      BY <1>3, <2>3, QuietKeeps DEF Writing
    <3>2. d <= q.called
      BY <3>1, SoundFacts DEF Drivers
    <3> QED BY <3>1, <3>2 DEF DriversHaveWritten
  <2>4. ASSUME NEW d \in Drivers, r.stage = "post", r.op # "delete", d <= r.called
        PROVE  realised'[r.id][d] = r.content
    <3>1. /\ q.stage = "post" /\ q.op # "delete" /\ r.called = q.called + 1
          /\ CallAhead(w) /\ Realise(w) /\ r.id = q.id /\ r.content = q.content
      BY <1>3, <2>4, QuietKeeps DEF Writing
    <3>2. ~Deleting(q) /\ ordered_policy_drivers(q) = q.called + 1
      BY <3>1 DEF Deleting, ordered_policy_drivers
    <3>3. /\ q.id \in Ids /\ q.called \in 0 .. DriverCount - 1
          /\ realised'[q.id][q.called + 1] = q.content
          /\ \A e \in Drivers : e # q.called + 1 => realised'[q.id][e] = realised[q.id][e]
      BY <3>1, <3>2, RealiseType
    <3>4. CASE d = q.called + 1
      BY <3>1, <3>3, <3>4
    <3>5. CASE d # q.called + 1
      <4>1. d <= q.called
        BY <2>4, <3>1, <3>3, <3>5, SoundFacts DEF Drivers
      <4> QED BY <3>1, <3>3, <3>5, <4>1 DEF DriversHaveWritten
    <3> QED BY <3>4, <3>5
  <2> QED BY <2>2, <2>3, <2>4 DEF DriversHaveWritten
<1> QED BY <1>1, <1>2, <1>3, StepKinds

LEMMA DriversHaveErasedNext ==
  ASSUME Sound, Apart, ~MaySkip, DriversHaveErased, [Next]_vars
  PROVE  DriversHaveErased'
<1>1. CASE UNCHANGED vars
  BY <1>1 DEF vars, DriversHaveErased
<1>2. ASSUME NEW w \in Workers,
             Receives(w) \/ CommitCreate(w) \/ CommitUpdate(w) \/ CommitDelete(w)
      PROVE  DriversHaveErased'
  BY <1>2, NoDriverCalled, DriversNotCalled
<1>3. ASSUME NEW w \in Workers, Quiet(w)
      PROVE  DriversHaveErased'
  <2> DEFINE q == request[w]
             r == request'[w]
  <2>1. /\ \A v \in Workers \ {w} : request'[v] = request[v]
        /\ Busy(w) /\ (UNCHANGED realised \/ (CallAhead(w) /\ Realise(w)))
    BY <1>3, QuietKeeps DEF Busy
  <2>2. ASSUME NEW v \in Workers \ {w}, NEW d \in Drivers,
               Erased(request'[v]), d > DriverCount - request'[v].called
        PROVE  realised'[request'[v].id][d] = None
    <3>1. request'[v] = request[v]
      BY <2>1
    <3>2. realised[request[v].id][d] = None
      BY <2>2, <3>1 DEF DriversHaveErased
    <3>3. request[v].id \in Ids /\ Busy(v)
      BY <2>2, <3>1, RowInUse
    <3>4. realised'[request[v].id] = realised[request[v].id]
      BY <2>1, <3>3, OthersKeepDrivers
    <3> QED BY <3>1, <3>2, <3>4
  <2>3. ASSUME NEW d \in Drivers, Erased(r), d > DriverCount - r.called
        PROVE  realised'[r.id][d] = None
    <3>1. Erased(q) /\ r.id = q.id /\ CallAhead(w) /\ Realise(w) /\ r.called = q.called + 1
      BY <1>3, <2>3, QuietKeeps
    <3>2. Deleting(q) /\ ordered_policy_drivers(q) = DriverCount - q.called
      BY <3>1 DEF Erased, Deleting, ordered_policy_drivers
    <3>3. /\ q.id \in Ids /\ q.called \in 0 .. DriverCount - 1
          /\ realised'[q.id][DriverCount - q.called] = None
          /\ \A e \in Drivers : e # DriverCount - q.called => realised'[q.id][e] = realised[q.id][e]
      BY <3>1, <3>2, RealiseType
    <3>4. CASE d = DriverCount - q.called
      BY <3>1, <3>3, <3>4
    <3>5. CASE d # DriverCount - q.called
      <4>1. d > DriverCount - q.called
        BY <2>3, <3>1, <3>3, <3>5, SoundFacts DEF Drivers
      <4> QED BY <3>1, <3>3, <3>5, <4>1 DEF DriversHaveErased
    <3> QED BY <3>4, <3>5
  <2> QED BY <2>2, <2>3 DEF DriversHaveErased
<1> QED BY <1>1, <1>2, <1>3, StepKinds

\* The driver that is called is the next one in the stack, from below or from above.
LEMMA StackedNext ==
  ASSUME Sound, DriversHaveWritten, DriversHaveErased, DriversAreStacked, [Next]_vars
  PROVE  DriversAreStacked'
<1>1. CASE UNCHANGED realised
  BY <1>1 DEF DriversAreStacked
<1>2. ASSUME NEW w \in Workers, CallAhead(w), Realise(w)
      PROVE  DriversAreStacked'
  <2> DEFINE q == request[w]
             f == ordered_policy_drivers(q)
  <2>1. /\ q.id \in Ids /\ f \in Drivers /\ q.called \in 0 .. DriverCount - 1
        /\ realised'[q.id][f] = IF Deleting(q) THEN None ELSE q.content
        /\ ~Deleting(q) => q.content # None
        /\ \A i \in Ids, e \in Drivers : i # q.id \/ e # f => realised'[i][e] = realised[i][e]
    BY <1>2, RealiseType
  <2>2. CASE ~Deleting(q)
    <3>1. q.stage = "post" /\ q.op # "delete" /\ f = q.called + 1
      BY <1>2, <2>2 DEF CallAhead, Deleting, ordered_policy_drivers
    <3>2. \A d \in Drivers : d < f => d <= q.called
      BY <2>1, <3>1, SoundFacts DEF Drivers
    <3>3. \A d \in Drivers : d < f => realised[q.id][d] # None
      BY <2>1, <2>2, <3>1, <3>2 DEF DriversHaveWritten
    <3> SUFFICES ASSUME NEW i \in Ids, NEW d \in Drivers, NEW e \in Drivers, d < e,
                        realised'[i][e] # None
                 PROVE  realised'[i][d] # None
      BY DEF DriversAreStacked
    <3>4. CASE i = q.id /\ e = f
      BY <2>1, <3>3, <3>4, SoundFacts DEF Drivers
    <3>5. CASE i = q.id /\ d = f
      BY <2>1, <2>2, <3>5
    <3>6. CASE ~(i = q.id /\ e = f) /\ ~(i = q.id /\ d = f)
      BY <2>1, <3>6 DEF DriversAreStacked
    <3> QED BY <3>4, <3>5, <3>6
  <2>3. CASE Deleting(q)
    <3>1. Erased(q) /\ f = DriverCount - q.called
      BY <1>2, <2>3 DEF CallAhead, Deleting, Erased, ordered_policy_drivers
    <3>2. \A e \in Drivers : e > f => realised[q.id][e] = None
      BY <3>1 DEF DriversHaveErased
    <3> SUFFICES ASSUME NEW i \in Ids, NEW d \in Drivers, NEW e \in Drivers, d < e,
                        realised'[i][e] # None
                 PROVE  realised'[i][d] # None
      BY DEF DriversAreStacked
    <3>3. ~(i = q.id /\ e = f)
      BY <2>1, <2>3
    <3>4. ~(i = q.id /\ d = f)
      <4>1. i = q.id /\ d = f => e # f /\ realised[i][e] = None
        BY <2>1, <3>2, SoundFacts DEF Drivers
      <4> QED BY <2>1, <4>1
    <3> QED BY <2>1, <3>3, <3>4 DEF DriversAreStacked
  <2> QED BY <2>2, <2>3
<1>3. UNCHANGED realised \/ \E w \in Workers : CallAhead(w) /\ Realise(w)
  <2>1. CASE UNCHANGED vars
    BY <2>1 DEF vars
  <2>2. ASSUME NEW w \in Workers,
               Receives(w) \/ CommitCreate(w) \/ CommitUpdate(w) \/ CommitDelete(w)
        PROVE  UNCHANGED realised
    BY <2>2, NoDriverCalled
  <2>3. ASSUME NEW w \in Workers, Quiet(w)
        PROVE  UNCHANGED realised \/ (CallAhead(w) /\ Realise(w))
    BY <2>3, QuietKeeps
  <2> QED BY <2>1, <2>2, <2>3, StepKinds
<1> QED BY <1>1, <1>2, <1>3

\* A row that is gone has been taken from all drivers when its request leaves it.
LEMMA ForgottenNext ==
  ASSUME Sound, RowsAreKept, DriversHaveErased, Forgotten, DeletesPass, [Next]_vars
  PROVE  Forgotten'
<1>1. CASE UNCHANGED vars
  BY <1>1 DEF vars, Forgotten
<1>2. ASSUME NEW w \in Workers,
             Receives(w) \/ CommitCreate(w) \/ CommitUpdate(w) \/ CommitDelete(w)
      PROVE  Forgotten'
  <2>1. /\ UNCHANGED realised /\ \A v \in Workers \ {w} : request'[v] = request[v]
        /\ ~Erased(request[w])
    BY <1>2, NoDriverCalled, ReceivedFacts, CommitCreateFacts, CommitUpdateFacts, CommitDeleteFacts
       DEF Erased
  <2>2. \A i \in Ids : row'[i] = None =>
          row[i] = None \/ (Erased(request'[w]) /\ request'[w].id = i)
    <3>1. CASE Receives(w)
      BY <3>1, ReceivedFacts
    <3>2. CASE CommitCreate(w)
      BY <3>2, CommitCreateFacts, SoundFacts
    <3>3. CASE CommitUpdate(w)
      <4> DEFINE q == request[w]
      <4>1. row' = [row EXCEPT ![q.id] = q.content] /\ q.content # None
        BY <3>3, CommitUpdateFacts, SoundFacts
      <4> HIDE DEF q
      <4> QED BY <4>1, SoundFacts
    <3>4. CASE CommitDelete(w)
      BY <3>4, CommitDeleteFacts, SoundFacts DEF Goes, Kept, Erased
    <3> QED BY <1>2, <3>1, <3>2, <3>3, <3>4
  <2> SUFFICES ASSUME NEW i \in Ids, row'[i] = None
               PROVE  \/ \A d \in Drivers : realised[i][d] = None
                      \/ \E v \in Workers : Erased(request'[v]) /\ request'[v].id = i
    BY <2>1 DEF Forgotten
  <2>3. CASE \E v \in Workers : Erased(request[v]) /\ request[v].id = i
    <3>1. PICK v \in Workers : Erased(request[v]) /\ request[v].id = i
      BY <2>3
    <3>2. request'[v] = request[v]
      BY <2>1, <3>1
    <3> QED BY <3>1, <3>2
  <2>4. CASE row[i] = None
    BY <2>3, <2>4 DEF Forgotten
  <2> QED BY <2>2, <2>4
<1>3. ASSUME NEW w \in Workers, Quiet(w)
      PROVE  Forgotten'
  <2> DEFINE q == request[w]
             r == request'[w]
  <2>1. /\ UNCHANGED row /\ \A v \in Workers \ {w} : request'[v] = request[v]
        /\ UNCHANGED realised \/ (CallAhead(w) /\ Realise(w))
        /\ Erased(r) => r.id = q.id
    BY <1>3, QuietKeeps
  <2>2. Erased(q) /\ ~Erased(r) => q.called = DriverCount
    BY <1>3, QuietKeeps, Zenon
  <2> SUFFICES ASSUME NEW i \in Ids, row[i] = None
               PROVE  \/ \A d \in Drivers : realised'[i][d] = None
                      \/ \E v \in Workers : Erased(request'[v]) /\ request'[v].id = i
    BY <2>1 DEF Forgotten
  <2>3. CASE Erased(q) /\ q.id = i
    <3>1. CASE Erased(r)
      BY <1>3, <2>3, <3>1, QuietKeeps
    <3>2. CASE ~Erased(r)
      <4>1. q.called = DriverCount
        BY <2>2, <2>3, <3>2
      <4>2. DriverCount \in Nat
        BY SoundFacts
      <4>3. ~CallAhead(w)
        BY <4>1, <4>2 DEF CallAhead
      <4>4. \A d \in Drivers : d > DriverCount - DriverCount
        BY <4>2 DEF Drivers
      <4>5. \A d \in Drivers : realised[i][d] = None
        BY <2>3, <4>1, <4>4 DEF DriversHaveErased
      <4> QED BY <2>1, <4>3, <4>5
    <3> QED BY <3>1, <3>2
  <2>4. CASE ~(Erased(q) /\ q.id = i)
    <3>1. realised'[i] = realised[i]
      <4>1. CASE UNCHANGED realised
        BY <4>1
      <4>2. CASE CallAhead(w) /\ Realise(w)
        <5>1. q.id # i
          <6>1. CASE Deleting(q)
            BY <2>4, <4>2, <6>1 DEF CallAhead, Deleting, Erased
          <6>2. CASE ~Deleting(q)
            <7>1. Writing(q)
              BY <4>2, <6>2 DEF CallAhead, Deleting, Writing
            <7>2. q.content # None
              BY <4>2, <6>2, RealiseType
            <7> QED BY <7>1, <7>2 DEF RowsAreKept
          <6> QED BY <6>1, <6>2
        <5> QED BY <4>2, <5>1, RealiseType
      <4> QED BY <2>1, <4>1, <4>2
    <3>2. CASE \A d \in Drivers : realised[i][d] = None
      BY <3>1, <3>2
    <3>3. CASE \E v \in Workers \ {w} : Erased(request[v]) /\ request[v].id = i
      BY <2>1, <3>3
    <3> QED BY <2>4, <3>2, <3>3 DEF Forgotten
  <2> QED BY <2>3, <2>4
<1> QED BY <1>1, <1>2, <1>3, StepKinds

LEMMA StackedInit == Init => DriversAreStacked /\ Forgotten
BY DEF Init, DriversAreStacked, Forgotten

--------------------
(* What patient clients are told *)

\* An update or a creation that is answered without an error is in its row and in
\* every driver: nothing that was retried or undone in between has left it half done
\* (_call_on_drivers, policy_driver_manager.py; the reading back in plugin.py).
THEOREM AnswersAreTrue ==
  ASSUME Patient
  PROVE  Spec => AnsweredIsRealised
<1> DEFINE Inv == Sound /\ Apart /\ RowsAreKept /\ DriversHaveWritten
           Answer(w) == LET q == request[w] IN
             q.stage = "read" /\ request'[w].answer = "ok" /\ request'[w] # q =>
               \A d \in Drivers : row[q.id] = q.content /\ realised[q.id][d] = q.content
<1>1. Init => Inv
  BY SoundInit, ApartInit, RowsAreKeptInit, DriversInit
<1>2. Inv /\ [Next]_vars => Inv'
  BY SoundNext, ApartNext, RowsAreKeptNext, DriversHaveWrittenNext
<1>3. Inv => \A w \in Workers : Answer(w)
  BY DEF RowsAreKept, DriversHaveWritten, Writing, Shape, Sound
<1>4. Inv /\ [Next]_vars => [\A w \in Workers : Answer(w)]_vars
  BY <1>3
<1> QED BY <1>1, <1>2, <1>4, PTL DEF Spec, AnsweredIsRealised

\* A driver has realised a row only while the drivers before it have, as long as no
\* method of a deletion may be skipped: deletions call the drivers in reverse
\* (ordered_policy_drivers, policy_driver_manager.py).
THEOREM DriversStayStacked ==
  ASSUME Patient, ~MaySkip
  PROVE  Spec => []DriversAreStacked
<1> DEFINE Inv == /\ Sound /\ Apart
                  /\ DriversHaveWritten /\ DriversHaveErased /\ DriversAreStacked
<1>1. Init => Inv
  BY SoundInit, ApartInit, DriversInit, StackedInit
<1>2. Inv /\ [Next]_vars => Inv'
  BY SoundNext, ApartNext, DriversHaveWrittenNext, DriversHaveErasedNext, StackedNext
<1>3. Inv => DriversAreStacked
  OBVIOUS
<1> QED BY <1>1, <1>2, <1>3, PTL DEF Spec

\* The rows that a creation has undone are forgotten by every driver before it tries
\* again or is answered, as long as the drivers do not raise while a row is deleted
\* behind its transaction (the except clauses of create_*, plugin.py).
THEOREM UndoneRowsAreForgotten ==
  ASSUME Patient, DeletesPass
  PROVE  Spec => []UndoneIsForgotten
<1> DEFINE Inv == /\ Sound /\ Apart /\ RowsAreKept /\ DriversHaveErased /\ Forgotten
<1>1. Init => Inv
  BY SoundInit, ApartInit, RowsAreKeptInit, DriversInit, StackedInit
<1>2. ~MaySkip
  BY Zenon DEF DeletesPass, MaySkip
<1>3. Inv /\ [Next]_vars => Inv'
  BY <1>2, SoundNext, ApartNext, RowsAreKeptNext, DriversHaveErasedNext, ForgottenNext
<1>4. Inv => UndoneIsForgotten
  <2> SUFFICES ASSUME Inv, NEW w \in Workers, request[w].stage \in {"txn", "idle"},
                      NEW i \in request[w].made, row[i] = None, LastWord(w, i)
               PROVE  \A d \in Drivers : realised[i][d] = None
    BY DEF UndoneIsForgotten
  <2>1. i \in Ids
    BY SoundFacts DEF Requests
  <2>2. ASSUME NEW v \in Workers, Erased(request[v]), request[v].id = i
        PROVE  FALSE
    <3>1. v # w
      BY <2>2 DEF Erased
    <3> QED BY <2>2, <3>1 DEF LastWord
  <2> QED BY <2>1, <2>2 DEF Forgotten
<1> QED BY <1>1, <1>3, <1>4, PTL DEF Spec

--------------------
(* The promise to patient clients *)

\* No driver objects to the deletion that undoes a creation.
UndosBegin == Faults["delete", "precommit"] = {}

\* Rows that are hidden, and how a request that ends has ended.
LEMMA AnswerKinds ==
  ASSUME Sound, RowsAreKept, UndosBegin, NEW w \in Workers, Quiet(w)
  PROVE  LET q == request[w]
             r == request'[w]
         IN r.stage = "idle" =>
              \/ /\ Ended(q, r, "error")
                 /\ q.stage \in {"txn", "undo_post"} \/ (q.stage = "post" /\ q.op = "update")
              \/ /\ Ended(q, r, "ok")
                 /\ q.stage = "read" \/ (q.stage = "post" /\ q.op = "delete")
<1> DEFINE q == request[w]
           r == request'[w]
<1>1. q \in Requests /\ Shape(q) /\ request \in [Workers -> Requests] /\ None \notin Contents \cup Ids
  BY SoundFacts
<1>2. q.stage \in {"read", "undo_txn"} => row[q.id] # None
  BY <1>1 DEF RowsAreKept, Writing, Shape
<1>3. q.stage = "undo_txn" => Exists(w)
  BY <1>1, <1>2 DEF Shape, Exists
<1> SUFFICES ASSUME r.stage = "idle"
             PROVE  \/ /\ Ended(q, r, "error")
                       /\ q.stage \in {"txn", "undo_post"} \/ (q.stage = "post" /\ q.op = "update")
                    \/ /\ Ended(q, r, "ok")
                       /\ q.stage = "read" \/ (q.stage = "post" /\ q.op = "delete")
  OBVIOUS
<1>4. ASSUME NEW e \in {"retriable", "error"}, r = Failed(q, e),
             q.stage \in {"txn", "post", "undo_post"}
      PROVE  \/ /\ Ended(q, r, "error")
                /\ q.stage \in {"txn", "undo_post"} \/ (q.stage = "post" /\ q.op = "update")
             \/ Ended(q, r, "ok") /\ q.stage = "post" /\ q.op = "delete"
  <2>1. CASE q.stage = "post" /\ q.op = "create"
    BY <1>1, <1>4, <2>1, FailedFacts DEF Goes
  <2>2. CASE q.stage = "post" /\ q.op = "delete"
    BY <1>1, <1>4, <2>2, FailedFacts
  <2>3. CASE ~(q.stage = "post" /\ q.op \in {"create", "delete"})
    <3>1. Given(q, r)
      BY <1>1, <1>4, <2>3, FailedFacts
    <3>2. q.op \in Ops
      BY <1>1, <1>4 DEF Shape
    <3> QED BY <1>4, <2>3, <3>1, <3>2 DEF Given, Begun, Ops
  <2> QED BY <2>1, <2>2, <2>3
<1>5. CASE NotFound(w)
  <2>1. r = Failed(q, "error") /\ q.stage \in {"txn", "undo_txn"} /\ ~Exists(w)
    BY <1>1, <1>5 DEF NotFound, Erasing
  <2> QED BY <1>3, <1>4, <2>1
<1>6. CASE RollBack(w)
  <2>1. PICK kind \in Faults[IF Erasing(w) THEN "delete" ELSE q.op, "precommit"] :
          request' = [request EXCEPT ![w] = Failed(@, Seen(kind))]
    BY <1>6, Zenon DEF RollBack
  <2>2. r = Failed(q, Seen(kind))
    BY <1>1, <2>1
  <2>3. ~Erasing(w)
    BY <2>1, Zenon DEF UndosBegin
  <2>4. q.stage = "txn"
    BY <1>6, <2>3 DEF RollBack, Erasing
  <2> QED BY <1>4, <2>2, <2>4, SeenType
<1>7. CASE CallDriver(w)
  <2>1. r = Passed(q) /\ CallAhead(w)
    BY <1>1, <1>7 DEF CallDriver
  <2> QED BY <1>1, <2>1, PassedFacts DEF CallAhead, Goes
<1>8. CASE DriverRaises(w)
  <2>1. CallAhead(w) /\ q.stage \in {"post", "undo_post"}
    BY <1>8 DEF DriverRaises, CallAhead
  <2>2. PICK kind : request' = [request EXCEPT ![w] = IF kind = "other" THEN Eaten(@) ELSE Failed(@, Seen(kind))]
    BY <1>8, Zenon DEF DriverRaises
  <2>3. CASE kind = "other" /\ Deleting(q)
    <3>1. r = Eaten(q)
      BY <1>1, <2>2, <2>3
    <3> QED BY <1>1, <2>1, <2>3, <3>1, EatenFacts DEF CallAhead, Goes
  <2>4. CASE ~(kind = "other" /\ Deleting(q))
    <3>1. \E e \in {"retriable", "error"} : r = Failed(q, e)
      <4>1. CASE kind = "other"
        BY <1>1, <2>2, <2>4, <4>1 DEF Eaten, continue_on_failure
      <4>2. CASE kind # "other"
        BY <1>1, <2>2, <4>2, SeenType
      <4> QED BY <4>1, <4>2
    <3> QED BY <1>4, <2>1, <3>1
  <2> QED BY <2>3, <2>4
<1>9. CASE Return(w)
  <2>1. q.stage \in {"post", "undo_post"} /\ r = IF q.eaten THEN Failed(q, "error") ELSE Completed(q)
    BY <1>1, <1>9 DEF Return
  <2>2. CASE q.eaten
    BY <1>4, <2>1, <2>2
  <2>3. CASE ~q.eaten
    BY <1>1, <2>1, <2>3, CompletedFacts DEF Given, Begun, Goes, Shape
  <2> QED BY <2>2, <2>3
<1>10. CASE ReadBack(w)
  <2>1. q.stage = "read" /\ r = Answered(q, "ok")
    BY <1>1, <1>2, <1>10 DEF ReadBack
  <2> QED BY <1>1, <2>1, AnsweredFacts
<1> QED BY <1>5, <1>6, <1>7, <1>8, <1>9, <1>10 DEF Quiet

\* A row is hidden by the creation that has made it only.
LEMMA NotHidden ==
  ASSUME Sound, Apart, NEW w \in Workers, Busy(w), NEW i \in Claims(w),
         NEW v \in Workers, Creating(v), i \in request[v].made
  PROVE  v = w
<1>1. i \in Claims(v) /\ Busy(v)
  BY DriverManagerAssumption, SoundFacts, ClaimsAreBorn DEF Claims, Creating, Requests
<1> QED BY <1>1 DEF Apart

LEMMA RowIsSeen ==
  ASSUME Sound, Apart, NEW w \in Workers, Busy(w), request[w].op # "create",
         request[w].id \in Ids
  PROVE  ~Hidden(request[w].id) /\ objects[request[w].id] = row[request[w].id]
<1>1. ~Hidden(request[w].id)
  BY NotHidden, WorksOnClaim DEF Hidden, Creating
<1> QED BY <1>1 DEF objects

LEMMA HidesTheSame ==
  ASSUME NEW w \in Workers, \A v \in Workers \ {w} : request'[v] = request[v],
         NEW i,
         (Creating(w)' /\ i \in request'[w].made) <=> (Creating(w) /\ i \in request[w].made)
  PROVE  Hidden(i)' <=> Hidden(i)
<1>1. \A v \in Workers \ {w} : Creating(v)' <=> Creating(v)
  BY DEF Creating, Busy
<1> QED BY <1>1 DEF Hidden

LEMMA OneCallChanges ==
  ASSUME NEW w \in Workers, \A v \in Workers \ {w} : request'[v] = request[v]
  PROVE  /\ calls \in [Workers -> {AsCall(request[v]) : v \in Workers}]
         /\ calls[w] = AsCall(request[w])
         /\ calls' = [calls EXCEPT ![w] = AsCall(request'[w])]
BY DEF calls

\* The steps of the promise, with the places where it looks at a call made plain.
LEMMA ImplementsInit == Init => Objects!Init
<1> SUFFICES ASSUME Init PROVE Objects!Init
  OBVIOUS
<1>1. objects = [i \in Ids |-> None]
  BY DEF Init, objects
<1>2. calls = [w \in Workers |-> Objects!NoCall]
  BY DEF Init, calls, AsCall, NoRequest, Objects!NoCall
<1> QED BY <1>1, <1>2 DEF Objects!Init

LEMMA ReceiveImplements ==
  ASSUME Sound, NEW w \in Workers, Receives(w)
  PROVE  Objects!Next
<1> DEFINE q == request[w]
           r == request'[w]
<1>1. /\ q.stage = "idle" /\ UNCHANGED row /\ r.stage = "txn" /\ r.made = {}
      /\ r.op \in Objects!Ops /\ r.id \in Ids \cup {None} /\ r.content \in Contents \cup {None}
      /\ r.op = "create" => r.id = None
      /\ \A v \in Workers \ {w} : request'[v] = request[v]
  BY ReceivedFacts, OthersStay DEF Sound, Objects!Ops, Requests
<1>2. UNCHANGED objects
  <2>1. \A i : Hidden(i)' <=> Hidden(i)
    BY <1>1, HidesTheSame DEF Creating, Busy
  <2> QED BY <1>1, <2>1 DEF objects
<1>3. AsCall(r) = [op |-> r.op, id |-> r.id, content |-> r.content, state |-> "pending"]
  BY <1>1 DEF AsCall
<1>4. AsCall(q).state \in {"ok", "error"}
  BY <1>1, SoundFacts DEF AsCall, Requests
<1>5. calls[w] = AsCall(q) /\ calls' = [calls EXCEPT ![w] = AsCall(r)]
  BY <1>1, OneCallChanges
<1>6. Objects!Call(w, r.op, r.id, r.content)
  BY <1>2, <1>3, <1>4, <1>5 DEF Objects!Call
<1> QED BY <1>1, <1>6 DEF Objects!Next

\* Nobody sees a row before its creation is answered.
LEMMA CreateImplements ==
  ASSUME Sound, NEW w \in Workers, CommitCreate(w)
  PROVE  UNCHANGED Objects!vars
<1> DEFINE q == request[w]
           r == request'[w]
<1>1. /\ q.stage = "txn" /\ q.op = "create" /\ born + 1 \in Ids
      /\ row' = [row EXCEPT ![born + 1] = q.content]
      /\ r.stage = "post" /\ r.op = "create" /\ r.content = q.content
      /\ r.made = q.made \cup {born + 1}
      /\ \A v \in Workers \ {w} : request'[v] = request[v]
  BY CommitCreateFacts, OthersStay DEF Sound
<1>2. UNCHANGED calls
  <2>1. AsCall(r) = AsCall(q)
    BY <1>1 DEF AsCall
  <2> QED BY <1>1, <2>1 DEF calls
<1>3. ASSUME NEW i \in Ids
      PROVE  objects'[i] = objects[i]
  <2>1. CASE i = born + 1
    <3>1. Hidden(i)'
      BY <1>1, <2>1 DEF Hidden, Creating, Busy
    <3>2. row[i] = None
      BY <2>1, SoundFacts DEF Sound, OnlyBorn
    <3> QED BY <3>1, <3>2 DEF objects
  <2>2. CASE i # born + 1
    <3>1. Hidden(i)' <=> Hidden(i)
      BY <1>1, <2>2, HidesTheSame DEF Creating, Busy
    <3>2. row'[i] = row[i]
      BY <1>1, <2>2, SoundFacts
    <3> QED BY <3>1, <3>2 DEF objects
  <2> QED BY <2>1, <2>2
<1> QED BY <1>2, <1>3 DEF Objects!vars, objects

LEMMA UpdateImplements ==
  ASSUME Sound, Apart, NEW w \in Workers, CommitUpdate(w)
  PROVE  Objects!Next
<1> DEFINE q == request[w]
           r == request'[w]
<1>1. /\ q.stage = "txn" /\ q.op = "update" /\ q.id \in Ids /\ row[q.id] # None
      /\ row' = [row EXCEPT ![q.id] = q.content]
      /\ r.stage = "post" /\ r.op = q.op /\ r.content = q.content /\ r.id = q.id
      /\ \A v \in Workers \ {w} : request'[v] = request[v]
  BY CommitUpdateFacts, OthersStay DEF Sound, Goes, Kept
<1>2. UNCHANGED calls
  <2>1. AsCall(r) = AsCall(q)
    BY <1>1 DEF AsCall
  <2> QED BY <1>1, <2>1 DEF calls
<1>3. calls[w].op = "update" /\ calls[w].state = "pending" /\ calls[w].id = q.id
      /\ calls[w].content = q.content
  BY <1>1 DEF calls, AsCall
<1>4. ~Hidden(q.id) /\ objects[q.id] = row[q.id]
  BY <1>1, RowIsSeen DEF Busy
<1>5. \A i \in Ids : Hidden(i)' <=> Hidden(i)
  BY <1>1, HidesTheSame DEF Creating
<1>6. objects' = [objects EXCEPT ![q.id] = q.content]
  BY <1>1, <1>4, <1>5, SoundFacts DEF objects
<1> QED BY <1>1, <1>2, <1>3, <1>4, <1>6 DEF Objects!Next, Objects!Update, Objects!Pending

\* A deletion takes the row away, the undoing of a creation what nobody has seen.
LEMMA DeleteImplements ==
  ASSUME Sound, Apart, NEW w \in Workers, CommitDelete(w)
  PROVE  Objects!Next \/ UNCHANGED Objects!vars
<1> DEFINE q == request[w]
           r == request'[w]
<1>1. /\ q.id \in Ids /\ row[q.id] # None
      /\ row' = [row EXCEPT ![q.id] = None]
      /\ r.op = q.op /\ r.content = q.content /\ r.id = q.id /\ r.made = q.made
      /\ \A v \in Workers \ {w} : request'[v] = request[v]
  BY CommitDeleteFacts, OthersStay DEF Sound, Goes, Kept
<1>2. CASE q.stage = "txn" /\ q.op = "delete"
  <2>1. r.stage = "post"
    BY <1>2, CommitDeleteFacts DEF Goes
  <2>2. AsCall(r) = [AsCall(q) EXCEPT !.state = "deleted"]
    BY <1>1, <1>2, <2>1 DEF AsCall
  <2>3. calls' = [calls EXCEPT ![w].state = "deleted"]
    BY <1>1, <2>2, OneCallChanges
  <2>4. calls[w].op = "delete" /\ calls[w].state = "pending" /\ calls[w].id = q.id
    BY <1>2 DEF calls, AsCall
  <2>5. ~Hidden(q.id) /\ objects[q.id] = row[q.id]
    BY <1>1, <1>2, RowIsSeen DEF Busy
  <2>6. \A i \in Ids : Hidden(i)' <=> Hidden(i)
    BY <1>1, <1>2, HidesTheSame DEF Creating
  <2>7. objects' = [objects EXCEPT ![q.id] = None]
    BY <1>1, <2>5, <2>6, SoundFacts DEF objects
  <2> QED BY <1>1, <2>3, <2>4, <2>5, <2>7 DEF Objects!Next, Objects!Delete, Objects!Pending
<1>3. CASE q.stage = "undo_txn" /\ q.op = "create"
  <2>1. r.stage = "undo_post"
    BY <1>3, CommitDeleteFacts DEF Goes
  <2>2. UNCHANGED calls
    <3>1. AsCall(r) = AsCall(q)
      BY <1>1, <1>3, <2>1 DEF AsCall
    <3> QED BY <1>1, <3>1 DEF calls
  <2>3. \A i \in Ids : Hidden(i)' <=> Hidden(i)
    BY <1>1, <1>3, <2>1, HidesTheSame DEF Creating, Busy
  <2>4. Hidden(q.id)
    <3>1. q.id \in q.made
      BY <1>1, <1>3, SoundFacts DEF Shape
    <3> QED BY <1>3, <3>1 DEF Hidden, Creating, Busy
  <2>5. UNCHANGED objects
    BY <1>1, <2>3, <2>4, SoundFacts DEF objects
  <2> QED BY <2>2, <2>5 DEF Objects!vars
<1> QED BY <1>2, <1>3, CommitDeleteFacts

\* While it runs, a request looks the same to its client whatever is retried.
LEMMA RunningImplements ==
  ASSUME Sound, NEW w \in Workers, Quiet(w), request'[w].stage # "idle"
  PROVE  UNCHANGED Objects!vars
<1> DEFINE q == request[w]
           r == request'[w]
<1>1. /\ UNCHANGED row /\ q.stage # "idle" /\ r.op = q.op /\ r.made = q.made
      /\ \A v \in Workers \ {w} : request'[v] = request[v]
  BY QuietKeeps
<1>2. q \in Requests /\ Shape(q) /\ Moves(w)
  BY SoundFacts, QuietSteps DEF Sound
<1>3. r.content = q.content
  BY <1>2 DEF Moves, Ended, Begun, Goes, Kept
<1>4. q.op # "create" => r.id = q.id
  BY <1>2 DEF Moves, Ended, Begun, Goes
<1>5. q.op = "delete" => (r.stage = "post" <=> q.stage = "post")
  BY <1>2 DEF Moves, Ended, Begun, Goes, Shape, CallAhead
<1>6. AsCall(r) = AsCall(q)
  BY <1>1, <1>3, <1>4, <1>5 DEF AsCall
<1>7. \A i \in Ids : Hidden(i)' <=> Hidden(i)
  BY <1>1, HidesTheSame DEF Creating, Busy
<1> QED BY <1>1, <1>6, <1>7 DEF Objects!vars, objects, calls

\* A request that fails fails for its client, and a creation has left nothing.
LEMMA ErrorImplements ==
  ASSUME Sound, OneRow, NEW w \in Workers, Quiet(w),
         Ended(request[w], request'[w], "error"),
         request[w].stage \in {"txn", "undo_post"}
           \/ (request[w].stage = "post" /\ request[w].op = "update")
  PROVE  Objects!Next
<1> DEFINE q == request[w]
           r == request'[w]
<1>1. /\ UNCHANGED row /\ q.stage # "idle" /\ r.op = q.op /\ r.made = q.made
      /\ r.stage = "idle" /\ r.id = q.id /\ r.content = q.content /\ r.answer = "error"
      /\ \A v \in Workers \ {w} : request'[v] = request[v]
  BY QuietKeeps DEF Ended, Kept
<1>2. q \in Requests /\ Shape(q) /\ None \notin Ids
  BY SoundFacts
<1>3. AsCall(r) = [AsCall(q) EXCEPT !.state = "error"]
  BY <1>1 DEF AsCall
<1>4. calls' = [calls EXCEPT ![w].state = "error"]
  BY <1>1, <1>3, OneCallChanges
<1>5. calls[w].state = "pending"
  BY <1>1, <1>2 DEF calls, AsCall, Shape
<1>6. ASSUME NEW i \in Ids
      PROVE  objects'[i] = objects[i]
  <2>1. CASE q.op = "create" /\ i \in q.made
    <3>1. row[i] = None
      BY <1>2, <2>1 DEF OneRow, Shape
    <3> QED BY <1>1, <3>1 DEF objects
  <2>2. CASE ~(q.op = "create" /\ i \in q.made)
    <3>1. Hidden(i)' <=> Hidden(i)
      BY <1>1, <2>2, HidesTheSame DEF Creating, Busy
    <3> QED BY <1>1, <3>1 DEF objects
  <2> QED BY <2>1, <2>2
<1>7. UNCHANGED objects
  BY <1>6 DEF objects
<1> QED BY <1>4, <1>5, <1>7 DEF Objects!Next, Objects!Fail

\* A creation that is answered shows the one row that it has made.
LEMMA CreationImplements ==
  ASSUME Sound, OneRow, Apart, RowsAreKept, NEW w \in Workers, Quiet(w),
         Ended(request[w], request'[w], "ok"),
         request[w].stage = "read", request[w].op = "create"
  PROVE  Objects!Next
<1> DEFINE q == request[w]
           r == request'[w]
<1>1. /\ UNCHANGED row /\ r.op = q.op /\ r.made = q.made
      /\ r.stage = "idle" /\ r.id = q.id /\ r.content = q.content /\ r.answer = "ok"
      /\ \A v \in Workers \ {w} : request'[v] = request[v]
  BY QuietKeeps DEF Ended, Kept
<1>2. q \in Requests /\ Shape(q) /\ None \notin Ids
  BY SoundFacts
<1>3. q.id \in Ids /\ q.id \in q.made /\ row[q.id] = q.content
  BY <1>2 DEF Shape, RowsAreKept, Writing
<1>4. calls' = [calls EXCEPT ![w].id = q.id, ![w].state = "ok"]
  <2>1. AsCall(r) = [op |-> q.op, content |-> q.content, id |-> q.id, state |-> "ok"]
    BY <1>1 DEF AsCall
  <2>2. AsCall(q) = [op |-> q.op, content |-> q.content, id |-> None, state |-> "pending"]
    BY DEF AsCall
  <2>3. calls[w] = AsCall(q) /\ calls' = [calls EXCEPT ![w] = AsCall(r)]
    BY <1>1, OneCallChanges
  <2>4. AsCall(r) = [calls[w] EXCEPT !.id = q.id, !.state = "ok"]
    <3> DEFINE c == [calls[w] EXCEPT !.id = q.id]
    <3>1. c = [op |-> q.op, content |-> q.content, id |-> q.id, state |-> "pending"]
      BY <2>2, <2>3
    <3> HIDE DEF c
    <3>2. [c EXCEPT !.state = "ok"]
            = [op |-> q.op, content |-> q.content, id |-> q.id, state |-> "ok"]
      BY <3>1
    <3> USE DEF c
    <3> QED BY <2>1, <3>2
  <2>5. DOMAIN calls = Workers
    BY DEF calls
  <2> HIDE DEF q, r
  <2> QED BY <2>3, <2>4, <2>5
<1>5. calls[w].op = "create" /\ calls[w].state = "pending" /\ calls[w].content = q.content
  BY DEF calls, AsCall
<1>6. Busy(w) /\ Creating(w) /\ ~Busy(w)' /\ ~Creating(w)'
  BY <1>1 DEF Busy, Creating
<1>7. Hidden(q.id) /\ \A i : i = q.id => ~Hidden(i)'
  <2>1. Hidden(q.id)
    BY <1>3, <1>6 DEF Hidden
  <2>2. ASSUME NEW v \in Workers, Creating(v)', q.id \in request'[v].made
        PROVE  FALSE
    <3>1. v # w /\ request'[v] = request[v]
      BY <1>1, <1>6, <2>2
    <3>2. Creating(v) /\ q.id \in request[v].made
      BY <2>2, <3>1 DEF Creating, Busy
    <3> QED BY <1>3, <1>6, <3>1, <3>2, NotHidden, WorksOnClaim
  <2> QED BY <2>1, <2>2 DEF Hidden
<1>8. ASSUME NEW i \in Ids, i # q.id
      PROVE  objects'[i] = objects[i]
  <2>1. CASE i \in q.made
    <3>1. row[i] = None
      BY <1>8, <2>1 DEF OneRow
    <3> QED BY <1>1, <3>1 DEF objects
  <2>2. CASE i \notin q.made
    <3>1. Hidden(i)' <=> Hidden(i)
      BY <1>1, <2>2, HidesTheSame
    <3> QED BY <1>1, <3>1 DEF objects
  <2> QED BY <2>1, <2>2
<1>9. objects[q.id] = None /\ objects' = [objects EXCEPT ![q.id] = q.content]
  BY <1>1, <1>3, <1>7, <1>8 DEF objects
<1>10. Objects!Create(w, q.id)
  BY <1>4, <1>5, <1>9 DEF Objects!Create, Objects!Pending
<1> QED BY <1>3, <1>10 DEF Objects!Next

\* An update that is answered is still in its row, a deletion has taken it away.
LEMMA SuccessImplements ==
  ASSUME Sound, Apart, RowsAreKept, NEW w \in Workers, Quiet(w),
         Ended(request[w], request'[w], "ok"),
         \/ request[w].stage = "read" /\ request[w].op # "create"
         \/ request[w].stage = "post" /\ request[w].op = "delete"
  PROVE  Objects!Next
<1> DEFINE q == request[w]
           r == request'[w]
<1>1. /\ UNCHANGED row /\ q.stage # "idle" /\ r.op = q.op /\ r.made = q.made
      /\ r.stage = "idle" /\ r.id = q.id /\ r.content = q.content /\ r.answer = "ok"
      /\ \A v \in Workers \ {w} : request'[v] = request[v]
  BY QuietKeeps DEF Ended, Kept
<1>2. q \in Requests /\ Shape(q)
  BY SoundFacts
<1>3. AsCall(r) = [AsCall(q) EXCEPT !.state = "ok"]
  BY <1>1 DEF AsCall
<1>4. calls' = [calls EXCEPT ![w].state = "ok"]
  BY <1>1, <1>3, OneCallChanges
<1>5. UNCHANGED objects
  <2>1. \A i \in Ids : Hidden(i)' <=> Hidden(i)
    BY <1>1, HidesTheSame DEF Creating
  <2> QED BY <1>1, <2>1 DEF objects
<1>6. \/ calls[w].state = "deleted"
      \/ Objects!Pending(w, "update") /\ objects[calls[w].id] = calls[w].content
  <2>1. CASE q.stage = "post" /\ q.op = "delete"
    BY <2>1 DEF calls, AsCall
  <2>2. CASE q.stage = "read" /\ q.op # "create"
    <3>1. q.op = "update" /\ q.id \in Ids /\ row[q.id] = q.content
      BY <1>2, <2>2 DEF Shape, Ops, RowsAreKept, Writing
    <3>2. objects[q.id] = row[q.id]
      BY <2>2, <3>1, RowIsSeen DEF Busy
    <3> QED BY <2>2, <3>1, <3>2 DEF calls, AsCall, Objects!Pending
  <2> QED BY <2>1, <2>2
<1> QED BY <1>4, <1>5, <1>6 DEF Objects!Next, Objects!Succeed

LEMMA StepImplements ==
  ASSUME Sound, OneRow, Apart, RowsAreKept, UndosBegin, [Next]_vars
  PROVE  [Objects!Next]_(Objects!vars)
<1>1. CASE UNCHANGED vars
  BY <1>1 DEF vars, Objects!vars, objects, calls, Hidden, Creating, Busy
<1>2. ASSUME NEW w \in Workers, Receives(w) \/ CommitCreate(w) \/ CommitUpdate(w) \/ CommitDelete(w)
      PROVE  Objects!Next \/ UNCHANGED Objects!vars
  BY <1>2, ReceiveImplements, CreateImplements, UpdateImplements, DeleteImplements
<1>3. ASSUME NEW w \in Workers, Quiet(w)
      PROVE  Objects!Next \/ UNCHANGED Objects!vars
  <2>1. CASE request'[w].stage # "idle"
    BY <1>3, <2>1, RunningImplements
  <2>2. CASE request'[w].stage = "idle"
    <3> DEFINE q == request[w]
               r == request'[w]
    <3>1. CASE /\ Ended(q, r, "error")
               /\ q.stage \in {"txn", "undo_post"} \/ (q.stage = "post" /\ q.op = "update")
      BY <1>3, <3>1, ErrorImplements
    <3>2. CASE /\ Ended(q, r, "ok")
               /\ q.stage = "read" \/ (q.stage = "post" /\ q.op = "delete")
      BY <1>3, <3>2, CreationImplements, SuccessImplements
    <3> QED BY <1>3, <2>2, <3>1, <3>2, AnswerKinds
  <2> QED BY <2>1, <2>2
<1> QED BY <1>1, <1>2, <1>3, StepKinds

\* For clients that leave an object alone while it is worked on, creations are atomic
\* and happen exactly once, updates and deletions that are answered took effect:
\* the retries, the undoing of creations and the calls of the drivers are not seen.
\* That no driver objects to the deletion which undoes a creation is needed: its row
\* would be left behind, though the creation is answered with an error
\* (create_*, plugin.py; _call_on_drivers, policy_driver_manager.py).
THEOREM ObjectsAreImplemented ==
  ASSUME Patient, UndosBegin
  PROVE  Spec => ImplementsObjects
<1> DEFINE Inv == Sound /\ OneRow /\ Apart /\ RowsAreKept
<1>1. Init => Inv /\ Objects!Init
  BY SoundInit, OneRowInit, ApartInit, RowsAreKeptInit, ImplementsInit
<1>2. Inv /\ [Next]_vars => Inv'
  BY SoundNext, OneRowNext, ApartNext, RowsAreKeptNext
<1>3. Inv /\ [Next]_vars => [Objects!Next]_(Objects!vars)
  BY StepImplements
<1> QED BY <1>1, <1>2, <1>3, PTL DEF Spec, ImplementsObjects, Objects!Spec

====================
