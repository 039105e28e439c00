------------------------------- MODULE OLStore ------------------------------
(***************************************************************************)
(* The online-learning store of a shard: it counts the updates of each     *)
(* row and picks, at every SaveFeatureKVModel, the ids whose rows a        *)
(* serving system should get again.  What that system has got is `out`.    *)
(* Of an embedding one number is kept, so a distance is a difference.      *)
(***************************************************************************)
EXTENDS Integers, FiniteSets, FiniteSetsExt, Functions

CONSTANTS Table, Id,
          UpdateThreshold,    \* update_threshold_
          DistanceThreshold,  \* distance_threshold_
          MaxValue,           \* bound: embeddings are in 0..MaxValue
          Step                \* bound: what one update may change

\* What the constants may be.
OLConstants ==
  /\ UpdateThreshold \in Nat /\ DistanceThreshold \in Nat /\ MaxValue \in Nat
  /\ Step \subseteq Int

VARIABLES W,       \* the rows of the shard
          prev,    \* prev_param_: the rows as they were when last collected
          update,  \* srm_state_map_; 0: no entry
          out,     \* what the files that were written say of each row
          pushed,  \* history: updates of a row that `out` does not show
          torn,    \* history: rows that were removed since they were collected,
                   \* or collected by a save that failed
          fresh    \* history: the last step wrote a file

olVars == <<W, prev, update, out, pushed, torn, fresh>>

Pair == Table \X Id
Value == 0..MaxValue
NoRows == [p \in {} |-> 0]

\* Counts above the threshold are not told apart.
Up(n) == Min({n + 1, UpdateThreshold + 1})

With(m, S, v) == [p \in DOMAIN m \cup S |-> IF p \in S THEN v ELSE m[p]]

\* InitParam copies what the job has loaded; the serving system has it too.
OLInit ==
  /\ W \in {NoRows, [p \in Pair |-> 0]}
  /\ prev = W /\ out = W
  /\ update = [p \in Pair |-> 0] /\ pushed = [p \in Pair |-> 0]
  /\ torn = {} /\ fresh = FALSE

\* Model::Pull: get_row with the initializer.
Pull(S) ==
  /\ W' = With(W, S \ DOMAIN W, 0)
  /\ fresh' = FALSE /\ UNCHANGED <<prev, update, out, pushed, torn>>

\* OLStore::Update: a state for every row of the gradient.
Count(S) == [p \in Pair |-> IF p \in S THEN Up(update[p]) ELSE update[p]]

\* ModelShard::Push: the store counts what comes, then the frequency filter
\* drops the ids that are rare (they have no rows) and the rest is updated.
\* With Rare = {} it is also the update by overwritten_param.
Push(S, Rare, step) ==
  LET kept == {p \in S : p[2] \notin Rare}
      old(p) == IF p \in DOMAIN W THEN W[p] ELSE 0
  IN
  /\ \A p \in DOMAIN W : p[2] \notin Rare
  /\ \A p \in kept : old(p) + step \in Value
  /\ update' = Count(S)
  /\ W' = [p \in DOMAIN W \cup kept |-> IF p \in kept THEN old(p) + step ELSE W[p]]
  /\ pushed' = [p \in Pair |-> IF p \in kept THEN Up(pushed[p]) ELSE pushed[p]]
  /\ fresh' = FALSE /\ UNCHANGED <<prev, out, torn>>

\* ExpireTSStore takes the rows of an id, RemoveZerosSRM those that are zero;
\* the store is not told.
RemoveRows(S) ==
  /\ S # {}
  /\ W' = Restrict(W, DOMAIN W \ S)
  /\ pushed' = [p \in Pair |-> IF p \in S THEN 0 ELSE pushed[p]]
  /\ torn' = torn \cup (S \cap DOMAIN prev)
  /\ fresh' = FALSE /\ UNCHANGED <<prev, update, out>>

Distance(x, y) == IF x > y THEN x - y ELSE y - x

\* Mutant: a row that moves slowly is never reported.
ToCollectNoCount(p) ==
  /\ update[p] > 0 /\ p \in DOMAIN W
  /\ p \in DOMAIN prev => Distance(W[p], prev[p]) > DistanceThreshold

\* Mutant: a row that moves far at once waits until it was updated often enough.
ToCollectNoDistance(p) ==
  /\ update[p] > 0 /\ p \in DOMAIN W
  /\ p \in DOMAIN prev => update[p] > UpdateThreshold

\* OLStore::Collect of one state.
ToCollect(p) ==
  /\ update[p] > 0 /\ p \in DOMAIN W
  /\ \/ p \notin DOMAIN prev
     \/ update[p] > UpdateThreshold
     \/ Distance(W[p], prev[p]) > DistanceThreshold

\* SaveFeatureKVModel: Collect, then the file: an id is written with its rows
\* of all tables.  If the file cannot be written, what was collected is
\* forgotten all the same.
SaveFeatureKVModel(written) ==
  LET rows == {p \in Pair : ToCollect(p)}
      ids == {p[2] : p \in rows}
      sent == {p \in Pair : p[2] \in ids}
  IN
  /\ prev' = [p \in DOMAIN prev \cup rows |-> IF p \in rows THEN W[p] ELSE prev[p]]
  /\ update' = [p \in Pair |-> IF p \in rows THEN 0 ELSE update[p]]
  /\ IF written
       THEN /\ out' = [p \in (DOMAIN out \ sent) \cup (sent \cap DOMAIN W) |->
                         IF p \in sent THEN W[p] ELSE out[p]]
            /\ pushed' = [p \in Pair |-> IF p \in sent THEN 0 ELSE pushed[p]]
            /\ torn' = torn \ rows
       ELSE /\ torn' = torn \cup rows
            /\ UNCHANGED <<out, pushed>>
  /\ fresh' = written
  /\ UNCHANGED W

OLNext ==
  \/ \E S \in SUBSET Pair \ {{}} :
       Pull(S) \/ \E Rare \in SUBSET Id, step \in Step : Push(S, Rare, step)
  \/ \E i \in Id : RemoveRows({p \in DOMAIN W : p[2] = i})
  \/ RemoveRows({p \in DOMAIN W : W[p] = 0})
  \/ \E written \in BOOLEAN : SaveFeatureKVModel(written)

OLSpec == OLInit /\ [][OLNext]_olVars

-----------------------------------------------------------------------------
(* Properties. *)

\* A file that is written leaves the serving system close to the shard: of a
\* row with updates it has not got, it has all but update_threshold of them
\* (and none that a failed save has swallowed), and its copy is within twice
\* the distance threshold: once for the row since it was collected, once for
\* the copy, which may have come with a row of another table.
ConsumerFollows ==
  fresh => \A p \in DOMAIN W \ torn :
             pushed[p] > 0 =>
               /\ pushed[p] <= UpdateThreshold
               /\ p \in DOMAIN out /\ Distance(W[p], out[p]) <= 2 * DistanceThreshold
=============================================================================
