----------------------------- MODULE PartialMap -----------------------------
(***************************************************************************)
(* What HashMap promises to SparseRowMatrix: a map from some of the keys   *)
(* to values, every call answered from the map as it is.                   *)
(***************************************************************************)
EXTENDS Functions

CONSTANTS Key, Val, NoVal

VARIABLES map,    \* the entries
          reply   \* what the last call returned: a value, or NoVal

Init == map = [k \in {} |-> NoVal] /\ reply = NoVal

Lookup(k) == IF k \in DOMAIN map THEN map[k] ELSE NoVal

Find(k) == reply' = Lookup(k) /\ UNCHANGED map

\* An entry that is there is kept; the call says which.
Emplace(k, v) ==
  /\ reply' = Lookup(k)
  /\ map' = [x \in DOMAIN map \cup {k} |-> IF x \in DOMAIN map THEN map[x] ELSE v]

Assign(k, v) ==
  /\ reply' = Lookup(k)
  /\ map' = [x \in DOMAIN map \cup {k} |-> IF x = k THEN v ELSE map[x]]

\* Some entries go: erase, remove_if, clear.
Remove(S) == map' = Restrict(map, DOMAIN map \ S) /\ UNCHANGED reply

Next == \/ \E k \in Key : Find(k) \/ \E v \in Val : Emplace(k, v) \/ Assign(k, v)
        \/ \E S \in SUBSET Key : Remove(S)

Spec == Init /\ [][Next]_<<map, reply>>
=============================================================================
