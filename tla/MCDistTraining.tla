--------------------------- MODULE MCDistTraining ---------------------------
(* DistTraining on small sets of files, workers and param servers. *)
EXTENDS DistTraining, TLC

Symmetry == Permutations(Worker)
=============================================================================
