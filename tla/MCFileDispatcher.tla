-------------------------- MODULE MCFileDispatcher --------------------------
(* FileDispatcher on small sets of files and workers. *)
EXTENDS FileDispatcher, TLC

CONSTANT Hung   \* workers that may stop for ever with a file on their hands

MCFairSpec == Spec /\ Fairness(Hung)

Symmetry == Permutations(Worker)
=============================================================================
