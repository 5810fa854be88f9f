--------------------------- MODULE MCDriverManager ---------------------------
(* Small instances of DriverManager: which errors the drivers raise. *)
EXTENDS DriverManager, TLC

\* The errors of the precommit and postcommit methods of each operation.
Raise(creates, updates, deletePrecommit, deletePostcommit) ==
  [m \in Ops \X {"precommit", "postcommit"} |->
     CASE m[1] = "create" -> creates
       [] m[1] = "update" -> updates
       [] m = <<"delete", "precommit">> -> deletePrecommit
       [] OTHER -> deletePostcommit]

AnyFault == Raise(Kinds, Kinds, Kinds, Kinds)
\* Deletions do not fail.
CleanDeletes == Raise(Kinds, Kinds, {}, {})
\* A driver raises an error of GBP or Neutron in a deletion.
KnownDeletes == Raise({}, {}, {}, {"known"})

Symmetry == Permutations(Workers) \cup Permutations(Contents)
====================
