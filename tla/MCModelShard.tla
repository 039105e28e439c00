---------------------------- MODULE MCModelShard ----------------------------
(* ModelShard on small sets. *)
EXTENDS ModelShard, TLC

\* Jobs whose instances hold every id in one table, or one id in every table.
OneTableOrOneId == {{t} \X Id : t \in Table} \cup {Table \X {i} : i \in Id}

\* Jobs whose instances hold one id in every table.
OneId == {Table \X {i} : i \in Id}

Symmetry == Permutations(Worker) \cup Permutations(Table) \cup Permutations(Id)
=============================================================================
