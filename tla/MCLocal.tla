------------------------------- MODULE MCLocal ------------------------------
(***************************************************************************)
(* The sequential parts of the system, on small instances and in one run:  *)
(* those that this module extends.  A behaviour is one of one part, chosen *)
(* at the start; the variables of the others keep their initial values.    *)
(***************************************************************************)
EXTENDS ModelDir, HashMap, OLStore, InstanceReader, Graph, TLC

CONSTANT Parts  \* the parts that are run

VARIABLE part

\* Two keys that probe the same slots, and others that begin elsewhere.
Hash4 == [k \in Key |-> CASE k = 1 -> 3 [] k = 2 -> 3 [] k = 3 -> 6 [] k = 4 -> 1]

\* What one update adds to an embedding: within the distance threshold, within twice of it,
\* and beyond that.
StepValues == {-3, -2, 1}

ASSUME LocalConstants == OLConstants /\ DirConstants /\ HashMapConstants /\ ReaderConstants
                         /\ GraphConstants

localVars == <<part, dirVars, hashVars, olVars, readerVars, graphVars>>

LocalInit ==
  /\ part \in Parts
  /\ DirInit /\ HashInit /\ OLInit /\ ReaderInit /\ GraphInit
  /\ part # "ol" => W = NoRows

LocalNext ==
  \/ /\ part = "dir" /\ DirNext
     /\ UNCHANGED <<part, hashVars, olVars, readerVars, graphVars>>
  \/ /\ part = "map" /\ HashNext
     /\ UNCHANGED <<part, dirVars, olVars, readerVars, graphVars>>
  \/ /\ part = "ol" /\ OLNext
     /\ UNCHANGED <<part, dirVars, hashVars, readerVars, graphVars>>
  \/ /\ part = "reader" /\ ReaderNext
     /\ UNCHANGED <<part, dirVars, hashVars, olVars, graphVars>>
  \/ /\ part = "graph" /\ GraphNext
     /\ UNCHANGED <<part, dirVars, hashVars, olVars, readerVars>>

LocalSpec == LocalInit /\ [][LocalNext]_localVars

Symmetry == Permutations(Dir) \cup Permutations(Table) \cup Permutations(Val)

=============================================================================
