----------------------------- MODULE MCRequests -----------------------------
(* What requests go through while they run: the deletion of a group over
   several transactions, with requests of others in between (GroupPolicy),
   or the retries and the undoing of requests whose drivers fail
   (DriverManager).  Both go on while they can: the server runs a request
   to its end.  A behaviour has one of the two for its topic. *)
EXTENDS MCGroupPolicy

CONSTANTS DriverCount, RequestWorkers, MaxIds, Contents, MaxRetries, Patient

VARIABLES topic, row, born, realised, request

requestVars == <<row, born, realised, request>>

\* Every driver method may raise every error.
AnyFault ==
  [m \in {"create", "update", "delete"} \X {"precommit", "postcommit"} |->
     {"retriable", "invalid", "known", "other"}]

Manager == INSTANCE DriverManager WITH Workers <- RequestWorkers, Faults <- AnyFault

MCInit == Init /\ Manager!Init /\ topic \in {"deletions", "drivers"}

MCNext ==
  /\ UNCHANGED topic
  /\ \/ topic = "deletions" /\ Next /\ UNCHANGED requestVars
     \/ topic = "drivers" /\ Manager!Next /\ UNCHANGED vars

MCSpec ==
  /\ MCInit /\ [][MCNext]_<<topic, vars, requestVars>>
  /\ \A w \in Workers : WF_vars(DeletionStep(w))
  /\ \A w \in RequestWorkers : WF_requestVars(Manager!Serve(w))

--------------------
\* Requests keep their types and creations leave one row at most, also when the
\* deletion that undoes them fails (policy_driver_manager.py, plugin.py).
CreationsAreClean == Manager!TypeOK /\ Manager!OneRowPerCreation

\* The deletion of a group ends, whatever others create in the meantime, and a
\* request is answered, whatever its drivers raise (delete_policy_target_group,
\* retry_if_session_inactive).
RequestsAndDeletionsEnd == GroupDeletionEnds /\ Manager!RequestsEnd
====================
