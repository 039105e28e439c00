-------------------------- MODULE ModelShardProofs --------------------------
(***************************************************************************)
(* Proofs about ModelShard for any finite tables, ids and workers.         *)
(***************************************************************************)
EXTENDS ModelShard, FiniteSetTheorems, TLAPS

\* What a save wrote is of the types the next run expects.
SavedTyped ==
  /\ saved.W \in [Pair -> Row] /\ saved.O \in SUBSET Pair
  /\ saved.freq \in [Id -> 0..FreqMax]
  /\ DOMAIN saved.ts \subseteq Id /\ \A i \in DOMAIN saved.ts : saved.ts[i] \in 1..now
  /\ saved.touched \in [Pair -> 0..MaxNow]

\* The rows of a request are of the instances of the job; a request that is
\* not running has none to do.
RequestShape ==
  \A w \in Worker :
    /\ req[w] \subseteq lookups /\ todo[w] \subseteq req[w] /\ kept[w] \subseteq req[w]
    /\ stage[w] \in {"idle", "pulled"} => todo[w] = {} /\ kept[w] = {}
    /\ stage[w] = "count" => kept[w] = {}

Typed == TypeOK /\ SavedTyped /\ RequestShape

-----------------------------------------------------------------------------
(* Helpers. *)

\* A batch has finitely many occurrences of an id.
LEMMA OccurrencesNat ==
  ASSUME Typed, NEW w \in Worker, NEW i
  PROVE  Occurrences(w, i) \in Nat
<1>1. IsFiniteSet(Pair)  BY ShardAssumption, FS_Product DEF Pair
<1>2. {p \in req[w] : p[2] = i} \subseteq Pair  BY DEF Typed, TypeOK
<1> QED  BY <1>1, <1>2, FS_Subset, FS_CardinalityType DEF Occurrences

\* A count only grows, up to the largest value of freq_t.
LEMMA CountGrows ==
  ASSUME NEW f \in 0..FreqMax, NEW n \in Nat
  PROVE  Counted(f, n) \in 0..FreqMax /\ Counted(f, n) >= f
BY ShardAssumption DEF Counted

\* What GoTo leaves.
LEMMA GoToTyped ==
  ASSUME Typed, NEW w \in Worker, NEW s \in Stages,
         NEW S \in SUBSET req[w], NEW K \in SUBSET req[w],
         s \in {"idle", "pulled"} => S = {} /\ K = {},
         s = "count" => K = {},
         GoTo(w, s, S, K), UNCHANGED setup
  PROVE  /\ stage' \in [Worker -> Stages] /\ req' \in [Worker -> SUBSET Pair]
         /\ todo' \in [Worker -> SUBSET Pair] /\ kept' \in [Worker -> SUBSET Pair]
         /\ RequestShape'
BY DEF Typed, TypeOK, RequestShape, GoTo, setup

\* The first run starts with empty stores.
LEMMA InitTyped == Init => Typed
BY ShardAssumption DEF Init, Blank, Typed, TypeOK, SavedTyped, RequestShape, Row, Stages, Pair

\* Expiry leaves the stores typed.
LEMMA ExpireTyped ==
  ASSUME Typed, NEW gone, ExpireTSStore(gone)
  PROVE  /\ W' \in [Pair -> Row] /\ O' \subseteq Pair
         /\ freq' \in [Id -> 0..FreqMax]
         /\ DOMAIN ts' = DOMAIN ts \ gone /\ \A i \in DOMAIN ts' : ts'[i] = ts[i]
BY ShardAssumption DEF Typed, TypeOK, ExpireTSStore, Restrict, Row

\* One row looked up in the frequency store.
LEMMA FilterTyped ==
  ASSUME Typed, NEW w \in Worker, NEW s \in Stages \ {"count", "idle", "pulled"},
         NEW e \in {"idle", "pulled"}, stage[w] \in Stages \ {"count", "idle", "pulled"},
         FilterRow(w, s, e), UNCHANGED setup
  PROVE  /\ stage' \in [Worker -> Stages] /\ req' \in [Worker -> SUBSET Pair]
         /\ todo' \in [Worker -> SUBSET Pair] /\ kept' \in [Worker -> SUBSET Pair]
         /\ RequestShape'
<1> PICK p \in todo[w] : FilterRow(w, s, e)!(p)
  BY DEF FilterRow
<1> DEFINE K == IF Frequent(p[2]) THEN kept[w] \cup {p} ELSE kept[w]
<1>1. K \in SUBSET req[w] /\ todo[w] \ {p} \in SUBSET req[w]
  BY DEF Typed, RequestShape
<1>2. CASE todo[w] # {p}
  BY <1>1, <1>2, GoToTyped
<1>3. CASE todo[w] = {p} /\ K = {}
  <2>1. GoTo(w, e, {}, {})  BY <1>3
  <2>2. e \in Stages /\ e # "count"  BY DEF Stages
  <2> HIDE DEF K
  <2> QED  BY <2>1, <2>2, GoToTyped
<1>4. CASE todo[w] = {p} /\ K # {}
  <2>1. GoTo(w, s, K, K)  BY <1>4
  <2> QED  BY <1>1, <2>1, GoToTyped
<1> QED  BY <1>2, <1>3, <1>4

\* Every step keeps the types.
LEMMA StepTyped == Typed /\ [Next]_vars => Typed'
<1> SUFFICES ASSUME Typed, [Next]_vars PROVE Typed'  OBVIOUS
<1> USE ShardAssumption
<1> DEFINE RequestTyped ==
      /\ stage' \in [Worker -> Stages] /\ req' \in [Worker -> SUBSET Pair]
      /\ todo' \in [Worker -> SUBSET Pair] /\ kept' \in [Worker -> SUBSET Pair]
      /\ RequestShape'
<1>0. CASE UNCHANGED vars
  BY <1>0 DEF vars, store, request, setup, Typed, TypeOK, SavedTyped, RequestShape
<1>1. ASSUME UNCHANGED setup, NEW w \in Worker, NEW S \in SUBSET lookups, Pull(w, S)
      PROVE  Typed'
  BY <1>1 DEF Pull, store, setup, Typed, TypeOK, SavedTyped, RequestShape, Stages, Pair
<1>2. ASSUME UNCHANGED setup, NEW w \in Worker, CountId(w) PROVE Typed'
  <2> PICK i \in Ids(todo[w]) : CountId(w)!2!(i)
    BY <1>2 DEF CountId
  <2>1. i \in Id  BY DEF Ids, Typed, TypeOK, Pair
  <2>2. freq' \in [Id -> 0..FreqMax]
    BY <2>1, OccurrencesNat, CountGrows DEF Typed, TypeOK
  <2>3. RequestTyped
    BY <1>2, GoToTyped DEF RequestShape, Stages, Typed
  <2> QED  BY <1>2, <2>2, <2>3 DEF CountId, Typed, TypeOK, SavedTyped, setup
<1>3. ASSUME UNCHANGED setup, NEW w \in Worker, FilterPull(w) PROVE Typed'
  <2>1. RequestTyped  BY <1>3, FilterTyped DEF FilterPull, Stages
  <2> QED  BY <1>3, <2>1 DEF FilterPull, store, Typed, TypeOK, SavedTyped, setup
<1>4. ASSUME UNCHANGED setup, NEW w \in Worker, FetchRow(w) PROVE Typed'
  <2> PICK p \in todo[w] : FetchRow(w)!2!(p)
    BY <1>4 DEF FetchRow
  <2>1. CASE Done(w, p, "pulled", {})
    <3>1. \/ GoTo(w, "pulled", {}, {})
          \/ GoTo(w, "fetch", todo[w] \ {p}, kept[w])
      BY <1>4, <2>1 DEF Done, FetchRow
    <3>2. todo[w] \ {p} \in SUBSET req[w] /\ kept[w] \in SUBSET req[w]
      BY DEF RequestShape, Typed
    <3>3. RequestTyped  BY <1>4, <3>1, <3>2, GoToTyped DEF Stages
    <3> QED  BY <1>4, <3>3 DEF FetchRow, store, Typed, TypeOK, SavedTyped, setup
  <2>2. CASE /\ stage' = [stage EXCEPT ![w] = "insert"]
             /\ kept' = [kept EXCEPT ![w] = {p}]
             /\ UNCHANGED <<req, todo>>
    BY <1>4, <2>2 DEF FetchRow, store, setup, Typed, TypeOK, SavedTyped, RequestShape, Stages
  <2> QED  BY <2>1, <2>2
<1>5. ASSUME UNCHANGED setup, NEW w \in Worker, InsertRow(w) PROVE Typed'
  <2> PICK p \in kept[w] : InsertRow(w)!2!(p)
    BY <1>5 DEF InsertRow
  <2>1. RequestTyped  BY GoToTyped, <1>5 DEF RequestShape, Typed, Stages
  <2> QED  BY <1>5, <2>1 DEF InsertRow, setup, Typed, TypeOK, SavedTyped, Row
<1>6. ASSUME UNCHANGED setup, NEW w \in Worker, Push(w) PROVE Typed'
  <2>1. RequestTyped
    BY GoToTyped, <1>6 DEF Push, FirstPushStage, RequestShape, Typed, Stages
  <2> QED  BY <1>6, <2>1 DEF Push, setup, store, Typed, TypeOK, SavedTyped
<1>7. ASSUME UNCHANGED setup, NEW w \in Worker, FilterGrad(w) PROVE Typed'
  <2>1. RequestTyped  BY <1>7, FilterTyped DEF FilterGrad, Stages
  <2> QED  BY <1>7, <2>1 DEF FilterGrad, store, Typed, TypeOK, SavedTyped, setup
<1>8. ASSUME UNCHANGED setup, NEW w \in Worker, Stamp(w) PROVE Typed'
  <2> PICK t \in Table : Stamp(w)!2!(t)
    BY <1>8 DEF Stamp
  <2> DEFINE rows == {p \in todo[w] : p[1] = t}
  <2>4. \/ GoTo(w, "update", kept[w], kept[w])
        \/ GoTo(w, "stamp", todo[w] \ rows, kept[w])
    OBVIOUS
  <2>5. todo[w] \ rows \in SUBSET req[w] /\ kept[w] \in SUBSET req[w]
    BY DEF RequestShape, Typed
  <2>1. RequestTyped  BY <1>8, <2>4, <2>5, GoToTyped DEF Stages
  <2>2. Ids(rows) \subseteq Id  BY DEF Ids, Typed, TypeOK, Pair
  <2>3. DOMAIN ts' \subseteq Id /\ \A i \in DOMAIN ts' : ts'[i] \in 1..now
    BY <2>2 DEF Typed, TypeOK
  <2> QED  BY <1>8, <2>1, <2>3 DEF Stamp, setup, Typed, TypeOK, SavedTyped
<1>9. ASSUME UNCHANGED setup, NEW w \in Worker, Update(w) PROVE Typed'
  <2> PICK p \in todo[w] : Update(w)!2!(p)
    BY <1>9 DEF Update
  <2>1. RequestTyped  BY GoToTyped, <1>9 DEF RequestShape, Typed, Stages
  <2>2. p \in Pair  BY DEF Typed, TypeOK
  <2> QED  BY <1>9, <2>1, <2>2 DEF Update, setup, Typed, TypeOK, SavedTyped, Row
<1>10. ASSUME UNCHANGED setup, NEW w \in Worker, Leave(w) PROVE Typed'
  <2>1. RequestTyped
    BY GoToTyped, <1>10 DEF Leave, RequestShape, Typed, Stages
  <2> QED  BY <1>10, <2>1 DEF Leave, setup, store, Typed, TypeOK, SavedTyped
<1>11. ASSUME UNCHANGED setup, Save PROVE Typed'
  <2>1. /\ W' \in [Pair -> Row] /\ O' \subseteq Pair /\ freq' \in [Id -> 0..FreqMax]
        /\ DOMAIN ts' \subseteq Id /\ \A i \in DOMAIN ts' : ts'[i] \in 1..now
    BY <1>11, ExpireTyped DEF Save, store, Typed, TypeOK
  <2> QED  BY <1>11, <2>1 DEF Save, request, setup, Typed, TypeOK, SavedTyped, RequestShape
<1>12. ASSUME UNCHANGED setup, NewRun PROVE Typed'
  BY <1>12 DEF NewRun, setup, Typed, TypeOK, SavedTyped, RequestShape, Stages
<1> QED  BY <1>0, <1>1, <1>2, <1>3, <1>4, <1>5, <1>6, <1>7, <1>8, <1>9, <1>10, <1>11, <1>12 DEF Next

\* The variables stay of their types, and a request is of rows of the job.
THEOREM TypeCorrect == Spec => []TypeOK
<1>1. Spec => []Typed  BY InitTyped, StepTyped, PTL DEF Spec
<1>2. Typed => TypeOK  BY DEF Typed
<1> QED  BY <1>1, <1>2, PTL

-----------------------------------------------------------------------------
(* The frequency filter. *)

\* What is past the filter stays past it: rows, rows saved, and the rows a
\* request has still to look up, to insert or to update.
FreqInv ==
  /\ OnlyFrequentRows
  /\ \A p \in Pair : saved.W[p] # "none" => saved.freq[p[2]] >= FreqThreshold
  /\ \A w \in Worker :
       /\ stage[w] \in {"filter", "insert", "filter_grad", "stamp", "update"} =>
            \A p \in kept[w] : Frequent(p[2])
       /\ stage[w] \in {"fetch", "insert", "stamp", "update"} =>
            \A p \in todo[w] : Frequent(p[2])

\* There is no row before the first request.
LEMMA InitFreq == Init => FreqInv
BY ShardAssumption DEF Init, Blank, FreqInv, OnlyFrequentRows, Rows, Pair

\* Filtering keeps frequent rows only.
LEMMA FilterFrequent ==
  ASSUME Typed, FreqInv, NEW w \in Worker,
         NEW s \in {"fetch", "stamp", "update"}, NEW e \in {"idle", "pulled"},
         stage[w] \in {"filter", "filter_grad"}, FilterRow(w, s, e), UNCHANGED <<store, saved>>
  PROVE  FreqInv'
<1> PICK p \in todo[w] : FilterRow(w, s, e)!(p)
  BY DEF FilterRow
<1> DEFINE K == IF Frequent(p[2]) THEN kept[w] \cup {p} ELSE kept[w]
<1>1. \A q \in K : Frequent(q[2])  BY DEF FreqInv
<1>2. \/ GoTo(w, stage[w], todo[w] \ {p}, K)
      \/ GoTo(w, e, {}, {})
      \/ GoTo(w, s, K, K)
  OBVIOUS
<1> HIDE DEF K
<1> QED  BY <1>1, <1>2 DEF GoTo, Typed, TypeOK, FreqInv, OnlyFrequentRows, Rows, Frequent, store

\* Every step keeps rows, pulls and filtered gradients to frequent ids.
LEMMA StepFreq == Typed /\ FreqInv /\ [Next]_vars => FreqInv'
<1> SUFFICES ASSUME Typed, FreqInv, [Next]_vars PROVE FreqInv'  OBVIOUS
<1> USE ShardAssumption
<1>0. CASE UNCHANGED vars
  BY <1>0 DEF vars, store, request, setup, FreqInv, OnlyFrequentRows, Rows, Frequent
<1>1. ASSUME NEW w \in Worker, NEW S \in SUBSET lookups, Pull(w, S)
      PROVE  FreqInv'
  <2>1. FreqThreshold = 0 => \A p \in Pair : Frequent(p[2])
    BY DEF Frequent, Typed, TypeOK, Pair
  <2>2. S \subseteq Pair  BY DEF Typed, TypeOK, Pair
  <2> QED  BY <1>1, <2>1, <2>2
           DEF Pull, store, Typed, TypeOK, RequestShape, FreqInv, OnlyFrequentRows, Rows, Frequent
<1>2. ASSUME NEW w \in Worker, CountId(w) PROVE FreqInv'
  <2> PICK i \in Ids(todo[w]) : CountId(w)!2!(i)
    BY <1>2 DEF CountId
  <2>0. i \in Id  BY DEF Ids, Typed, TypeOK, Pair
  <2>1. Counted(freq[i], Occurrences(w, i)) \in Nat /\ Counted(freq[i], Occurrences(w, i)) >= freq[i]
    <3>1. freq[i] \in 0..FreqMax  BY <2>0 DEF Typed, TypeOK
    <3>2. Occurrences(w, i) \in Nat  BY OccurrencesNat
    <3>3. /\ Counted(freq[i], Occurrences(w, i)) \in 0..FreqMax
          /\ Counted(freq[i], Occurrences(w, i)) >= freq[i]
      BY ONLY <3>1, <3>2, CountGrows, SMT
    <3> QED  BY ONLY <3>3, SMT
  <2>2. \A j \in Id : Frequent(j) => Frequent(j)'
    BY <2>0, <2>1 DEF Frequent, Typed, TypeOK
  <2>3. \A p \in Pair : p[2] \in Id  BY DEF Pair
  <2>4. \/ GoTo(w, "filter", req[w], {})
        \/ GoTo(w, "count", {p \in todo[w] : p[2] # i}, {})
    OBVIOUS
  <2> HIDE DEF Frequent
  <2> QED  BY <1>2, <2>2, <2>3, <2>4
           DEF CountId, GoTo, Typed, TypeOK, FreqInv, OnlyFrequentRows, Rows
<1>3. ASSUME NEW w \in Worker, FilterPull(w) PROVE FreqInv'
  BY <1>3, FilterFrequent DEF FilterPull
<1>4. ASSUME NEW w \in Worker, FetchRow(w) PROVE FreqInv'
  BY <1>4 DEF FetchRow, Done, GoTo, store, Typed, TypeOK, FreqInv, OnlyFrequentRows, Rows, Frequent
<1>5. ASSUME NEW w \in Worker, InsertRow(w) PROVE FreqInv'
  BY <1>5 DEF InsertRow, GoTo, Typed, TypeOK, FreqInv, OnlyFrequentRows, Rows, Frequent
<1>6. ASSUME NEW w \in Worker, Push(w) PROVE FreqInv'
  <2>1. FreqThreshold = 0 => \A p \in Pair : Frequent(p[2])
    BY DEF Frequent, Typed, TypeOK, Pair
  <2> QED  BY <1>6, <2>1 DEF Push, FirstPushStage, GoTo, store, Typed, TypeOK, FreqInv,
                             OnlyFrequentRows, Rows, Frequent
<1>7. ASSUME NEW w \in Worker, FilterGrad(w) PROVE FreqInv'
  BY <1>7, FilterFrequent DEF FilterGrad
<1>8. ASSUME NEW w \in Worker, Stamp(w) PROVE FreqInv'
  <2> PICK t \in Table : Stamp(w)!2!(t)
    BY <1>8 DEF Stamp
  <2>1. \/ GoTo(w, "update", kept[w], kept[w])
        \/ GoTo(w, "stamp", todo[w] \ {p \in todo[w] : p[1] = t}, kept[w])
    OBVIOUS
  <2> QED  BY <1>8, <2>1 DEF Stamp, GoTo, Typed, TypeOK, FreqInv, OnlyFrequentRows, Rows, Frequent
<1>9. ASSUME NEW w \in Worker, Update(w) PROVE FreqInv'
  BY <1>9 DEF Update, GoTo, Typed, TypeOK, FreqInv, OnlyFrequentRows, Rows, Frequent
<1>10. ASSUME NEW w \in Worker, Leave(w) PROVE FreqInv'
  BY <1>10 DEF Leave, GoTo, store, Typed, TypeOK, FreqInv, OnlyFrequentRows, Rows, Frequent
<1>11. ASSUME Save PROVE FreqInv'
  <2>1. \A w \in Worker : stage'[w] \in {"idle", "pulled"}
    BY <1>11 DEF Save, Running, request
  <2>2. CASE UNCHANGED store
    BY <1>11, <2>1, <2>2 DEF Save, store, FreqInv, OnlyFrequentRows, Rows, Frequent
  <2>3. ASSUME NEW gone, ExpireTSStore(gone) PROVE FreqInv'
    <3>1. ASSUME NEW p \in Pair, W'[p] # "none" PROVE freq'[p[2]] >= FreqThreshold
      <4>1. W[p] # "none" /\ p[2] \notin gone /\ p[2] \in Id
        BY <2>3, <3>1 DEF ExpireTSStore, Pair
      <4>2. freq'[p[2]] = freq[p[2]]  BY <2>3, <4>1 DEF ExpireTSStore
      <4> QED  BY <4>1, <4>2 DEF FreqInv, OnlyFrequentRows, Rows, Frequent
    <3> QED  BY <1>11, <2>1, <3>1 DEF Save, FreqInv, OnlyFrequentRows, Rows, Frequent
  <2> QED  BY <1>11, <2>2, <2>3 DEF Save
<1>12. ASSUME NewRun PROVE FreqInv'
  BY <1>12 DEF NewRun, FreqInv, OnlyFrequentRows, Rows, Frequent
<1> QED  BY <1>0, <1>1, <1>2, <1>3, <1>4, <1>5, <1>6, <1>7, <1>8, <1>9, <1>10, <1>11, <1>12 DEF Next

\* No row of the model, in this run or a later one, has an id that was seen
\* less often than freq_filter_threshold (FreqStore::Filter, ModelShard).
THEOREM FilterHolds == Spec => []OnlyFrequentRows
<1>1. Init => Typed /\ FreqInv  BY InitTyped, InitFreq
<1>2. Typed /\ FreqInv /\ [Next]_vars => (Typed /\ FreqInv)'  BY StepTyped, StepFreq
<1>3. Typed /\ FreqInv => OnlyFrequentRows  BY DEF FreqInv
<1> QED  BY <1>1, <1>2, <1>3, PTL DEF Spec

-----------------------------------------------------------------------------
(* The stores agree, and expiry spares what was updated lately. *)

\* What the stores keep for an id belongs to a row; with ts_enable a row with
\* a gradient in it has a timestamp as new as the gradient.
Agree(w, o, t, u) ==
  /\ \A p \in Pair : u[p] <= now
  /\ o \subseteq {p \in Pair : w[p] # "none"}
  /\ \A p \in Pair : w[p] \notin {"none", "init"} =>
       p \in o /\ (ExpireThreshold > 0 => p[2] \in DOMAIN t /\ t[p[2]] >= u[p])

\* Every timestamp is that of a row.
Stamped(w, t) == \A i \in DOMAIN t : \E p \in Pair : w[p] # "none" /\ p[2] = i

\* A push stamps the ids of all its rows before it updates the first one.
PushInv ==
  \A w \in Worker :
    /\ stage[w] \in {"stamp", "update"} => todo[w] \subseteq kept[w]
    /\ stage[w] = "stamp" =>
         \A p \in kept[w] \ todo[w] : p[2] \in DOMAIN ts /\ ts[p[2]] = now
    /\ stage[w] = "update" =>
         /\ \A p \in kept[w] \ todo[w] : W[p] # "none"
         /\ ExpireThreshold > 0 => \A p \in kept[w] : p[2] \in DOMAIN ts /\ ts[p[2]] = now

StoreInv ==
  /\ Agree(W, O, ts, touched)
  /\ \A i \in DOMAIN ts :
       \/ \E p \in Pair : W[p] # "none" /\ p[2] = i
       \/ \E w \in Worker : stage[w] \in {"stamp", "update"} /\ \E p \in kept[w] : p[2] = i
  /\ Agree(saved.W, saved.O, saved.ts, saved.touched) /\ Stamped(saved.W, saved.ts)
  /\ PushInv

\* Empty stores agree.
LEMMA InitStore == Init => StoreInv
BY ShardAssumption DEF Init, Blank, StoreInv, Agree, Stamped, PushInv, Pair

\* Filtering a gradient begins the push of what is left.
LEMMA FilterStore ==
  ASSUME Typed, StoreInv, NEW w \in Worker,
         NEW s \in {"fetch", "stamp", "update"}, NEW e \in {"idle", "pulled"},
         s = "update" => ExpireThreshold = 0,
         stage[w] \in {"filter", "filter_grad"}, FilterRow(w, s, e),
         UNCHANGED <<store, saved, now, touched>>
  PROVE  StoreInv'
<1> PICK p \in todo[w] : FilterRow(w, s, e)!(p)
  BY DEF FilterRow
<1> DEFINE K == IF Frequent(p[2]) THEN kept[w] \cup {p} ELSE kept[w]
<1>1. \/ GoTo(w, stage[w], todo[w] \ {p}, K)
      \/ GoTo(w, e, {}, {})
      \/ GoTo(w, s, K, K)
  OBVIOUS
<1> HIDE DEF K
<1>2. PushInv'
  BY <1>1, ShardAssumption DEF GoTo, Typed, TypeOK, StoreInv, PushInv, store
<1>3. \A v \in Worker : stage[v] \in {"stamp", "update"} => stage'[v] = stage[v] /\ kept'[v] = kept[v]
  BY <1>1 DEF GoTo, Typed, TypeOK
<1> QED  BY <1>2, <1>3 DEF StoreInv, Agree, Stamped, store

\* A request that neither pushes nor touches the stores.
LEMMA OtherStore ==
  ASSUME Typed, StoreInv, NEW w \in Worker, stage[w] \notin {"stamp", "update"},
         stage'[w] \notin {"stamp", "update"},
         \A v \in Worker \ {w} : stage'[v] = stage[v] /\ todo'[v] = todo[v] /\ kept'[v] = kept[v],
         UNCHANGED <<W, O, ts, saved, now, touched>>
  PROVE  StoreInv'
BY DEF StoreInv, Agree, Stamped, PushInv, Typed, TypeOK

\* Every step keeps the stores together, or within the push that is under way.
LEMMA StepStore == Typed /\ StoreInv /\ [Next]_vars => StoreInv'
<1> SUFFICES ASSUME Typed, StoreInv, [Next]_vars PROVE StoreInv'  OBVIOUS
<1> USE ShardAssumption
<1>0. CASE UNCHANGED vars
  BY <1>0 DEF vars, store, request, setup, StoreInv, Agree, Stamped, PushInv
<1>1. ASSUME NEW w \in Worker, NEW S \in SUBSET lookups, Pull(w, S)
      PROVE  StoreInv'
  BY <1>1, OtherStore DEF Pull, store, Typed, TypeOK
<1>2. ASSUME NEW w \in Worker, CountId(w) PROVE StoreInv'
  BY <1>2, OtherStore DEF CountId, GoTo, Typed, TypeOK
<1>3. ASSUME NEW w \in Worker, FilterPull(w) PROVE StoreInv'
  BY <1>3, FilterStore DEF FilterPull
<1>4. ASSUME NEW w \in Worker, FetchRow(w) PROVE StoreInv'
  BY <1>4, OtherStore DEF FetchRow, Done, GoTo, store, Typed, TypeOK
<1>5. ASSUME NEW w \in Worker, InsertRow(w) PROVE StoreInv'
  <2> PICK p \in kept[w] : InsertRow(w)!2!(p)
    BY <1>5 DEF InsertRow
  <2>1. /\ stage[w] = "insert" /\ stage'[w] \in {"pulled", "fetch"}
        /\ \A v \in Worker \ {w} : stage'[v] = stage[v] /\ todo'[v] = todo[v] /\ kept'[v] = kept[v]
    BY <1>5 DEF InsertRow, GoTo, Typed, TypeOK
  <2>2. /\ p \in Pair /\ W'[p] = "init" /\ \A q \in Pair \ {p} : W'[q] = W[q]
        /\ touched'[p] = now /\ \A q \in Pair \ {p} : touched'[q] = touched[q]
        /\ UNCHANGED <<O, ts, now, saved>>
    BY <1>5 DEF InsertRow, Typed, TypeOK
  <2>3. now \in Nat /\ \A q \in Pair : touched[q] \in Nat  BY DEF Typed, TypeOK
  <2>4. Agree(W, O, ts, touched)'  BY <2>2, <2>3 DEF StoreInv, Agree
  <2>5. PushInv'  BY <2>1, <2>2 DEF StoreInv, PushInv, Typed, TypeOK
  <2> QED  BY <2>1, <2>2, <2>4, <2>5 DEF StoreInv, Agree, Stamped
<1>6. ASSUME NEW w \in Worker, Push(w) PROVE StoreInv'
  <2>1. /\ stage[w] = "pulled" /\ stage'[w] \in {"filter_grad", "stamp", "update"}
        /\ stage'[w] = "update" => ExpireThreshold = 0
        /\ stage'[w] \in {"stamp", "update"} => todo'[w] = req[w] /\ kept'[w] = req[w]
        /\ \A v \in Worker \ {w} : stage'[v] = stage[v] /\ todo'[v] = todo[v] /\ kept'[v] = kept[v]
    BY <1>6 DEF Push, FirstPushStage, GoTo, Typed, TypeOK
  <2>2. UNCHANGED <<W, O, ts, saved, now, touched>>  BY <1>6 DEF Push, store
  <2>3. PushInv'  BY <2>1, <2>2 DEF StoreInv, PushInv
  <2> QED  BY <2>1, <2>2, <2>3 DEF StoreInv, Agree, Stamped
<1>7. ASSUME NEW w \in Worker, FilterGrad(w) PROVE StoreInv'
  BY <1>7, FilterStore DEF FilterGrad
<1>8. ASSUME NEW w \in Worker, Stamp(w) PROVE StoreInv'
  <2> PICK t \in Table : Stamp(w)!2!(t)
    BY <1>8 DEF Stamp
  <2> DEFINE rows == {p \in todo[w] : p[1] = t}
  <2>1. /\ stage[w] = "stamp" /\ kept'[w] = kept[w]
        /\ \/ stage'[w] = "update" /\ todo'[w] = kept[w] /\ todo[w] \ rows = {}
           \/ stage'[w] = "stamp" /\ todo'[w] = todo[w] \ rows
        /\ \A v \in Worker \ {w} : stage'[v] = stage[v] /\ todo'[v] = todo[v] /\ kept'[v] = kept[v]
    BY <1>8 DEF Stamp, GoTo, Typed, TypeOK
  <2>2. UNCHANGED <<W, O, saved, now, touched>>  BY <1>8 DEF Stamp
  <2>3. /\ DOMAIN ts' = DOMAIN ts \cup Ids(rows)
        /\ \A i \in Ids(rows) : ts'[i] = now
        /\ \A i \in DOMAIN ts \ Ids(rows) : ts'[i] = ts[i]
    OBVIOUS
  <2>4. \A p \in rows : p[2] \in Ids(rows)  BY DEF Ids
  <2>5. \A i \in Ids(rows) : \E p \in kept[w] : p[2] = i  BY <2>1 DEF Ids, StoreInv, PushInv
  <2>6. now \in Nat /\ \A q \in Pair : touched[q] \in Nat  BY DEF Typed, TypeOK
  <2> HIDE DEF rows
  <2>7. Agree(W, O, ts, touched)'  BY <2>2, <2>3, <2>6 DEF StoreInv, Agree
  <2>8. PushInv'
    <3>1. ASSUME NEW p, p[2] \in DOMAIN ts, ts[p[2]] = now
          PROVE  p[2] \in DOMAIN ts' /\ ts'[p[2]] = now
      BY <2>3, <3>1
    <3>2. \A p \in kept[w] \ (todo[w] \ rows) : p[2] \in DOMAIN ts' /\ ts'[p[2]] = now
      BY <2>1, <2>3, <2>4, <3>1 DEF StoreInv, PushInv
    <3>3. todo[w] \subseteq kept[w]  BY <2>1 DEF StoreInv, PushInv
    <3>4. PushInv!(w)'
      <4>1. CASE stage'[w] = "update" /\ todo'[w] = kept[w] /\ todo[w] \ rows = {}
        BY <2>1, <2>2, <3>2, <4>1
      <4>2. CASE stage'[w] = "stamp" /\ todo'[w] = todo[w] \ rows
        BY <2>1, <2>2, <3>2, <3>3, <4>2
      <4> QED  BY <2>1, <4>1, <4>2
    <3>5. ASSUME NEW v \in Worker \ {w} PROVE PushInv!(v)'
      BY <2>1, <2>2, <3>1 DEF StoreInv, PushInv
    <3> QED  BY <3>4, <3>5 DEF PushInv
  <2>9. \A i \in DOMAIN ts' :
          \/ \E p \in Pair : W'[p] # "none" /\ p[2] = i
          \/ \E v \in Worker : stage'[v] \in {"stamp", "update"} /\ \E p \in kept'[v] : p[2] = i
    BY <2>1, <2>2, <2>3, <2>5 DEF StoreInv
  <2> QED  BY <2>2, <2>7, <2>8, <2>9 DEF StoreInv, Agree, Stamped
<1>9. ASSUME NEW w \in Worker, Update(w) PROVE StoreInv'
  <2> PICK p \in todo[w] : Update(w)!2!(p)
    BY <1>9 DEF Update
  <2>1. /\ stage[w] = "update"
        /\ \/ stage'[w] = "idle" /\ todo[w] = {p}
           \/ stage'[w] = "update" /\ todo'[w] = todo[w] \ {p} /\ kept'[w] = kept[w]
        /\ \A v \in Worker \ {w} : stage'[v] = stage[v] /\ todo'[v] = todo[v] /\ kept'[v] = kept[v]
    BY <1>9 DEF Update, GoTo, Typed, TypeOK
  <2>2. /\ p \in Pair /\ p \in kept[w] /\ W'[p] # "none" /\ \A q \in Pair \ {p} : W'[q] = W[q]
        /\ touched'[p] = now /\ \A q \in Pair \ {p} : touched'[q] = touched[q]
        /\ O' = O \cup {p} /\ UNCHANGED <<ts, now, saved>>
    BY <1>9, <2>1 DEF Update, Typed, TypeOK, StoreInv, PushInv
  <2>3. now \in Nat /\ \A q \in Pair : touched[q] \in Nat  BY DEF Typed, TypeOK
  <2>4. Agree(W, O, ts, touched)'  BY <2>1, <2>2, <2>3 DEF StoreInv, Agree, PushInv
  <2>5. \A q \in Pair : W[q] # "none" => W'[q] # "none"  BY <2>2
  <2>6. \A v \in Worker : kept[v] \subseteq Pair  BY DEF Typed, TypeOK
  <2>7. PushInv'  BY <2>1, <2>2, <2>5, <2>6 DEF StoreInv, PushInv
  <2>8. ASSUME NEW i \in DOMAIN ts'
        PROVE  \/ \E q \in Pair : W'[q] # "none" /\ q[2] = i
               \/ \E v \in Worker : stage'[v] \in {"stamp", "update"} /\ \E q \in kept'[v] : q[2] = i
    <3>1. CASE \E q \in Pair : W[q] # "none" /\ q[2] = i
      BY <2>5, <3>1
    <3>2. CASE \E v \in Worker \ {w} : stage[v] \in {"stamp", "update"} /\ \E q \in kept[v] : q[2] = i
      BY <2>1, <3>2
    <3>3. CASE \E q \in kept[w] : q[2] = i
      BY <2>1, <2>2, <2>5, <2>6, <3>3 DEF StoreInv, PushInv
    <3> QED  BY <2>2, <3>1, <3>2, <3>3 DEF StoreInv
  <2> QED  BY <2>2, <2>4, <2>7, <2>8 DEF StoreInv, Agree, Stamped
<1>10. ASSUME NEW w \in Worker, Leave(w) PROVE StoreInv'
  BY <1>10, OtherStore DEF Leave, GoTo, store, Typed, TypeOK
<1>11. ASSUME Save PROVE StoreInv'
  <2>1. \A w \in Worker : stage'[w] \in {"idle", "pulled"} /\ stage[w] \in {"idle", "pulled"}
    BY <1>11 DEF Save, Running, request
  <2>2. Stamped(W, ts)  BY <2>1 DEF StoreInv, Stamped
  <2>3. Agree(W, O, ts, touched)' /\ Stamped(W, ts)'
    <3>1. CASE UNCHANGED store
      BY <1>11, <2>2, <3>1 DEF Save, store, StoreInv, Agree, Stamped
    <3>2. ASSUME NEW gone, ExpireTSStore(gone) PROVE Agree(W, O, ts, touched)' /\ Stamped(W, ts)'
      <4>1. /\ \A p \in Pair : W'[p] = IF p[2] \in gone THEN "none" ELSE W[p]
            /\ O' = {p \in O : p[2] \notin gone}
            /\ DOMAIN ts' = DOMAIN ts \ gone /\ \A i \in DOMAIN ts' : ts'[i] = ts[i]
            /\ UNCHANGED <<now, touched>>
        BY <1>11, <3>2, ExpireTyped DEF ExpireTSStore, Save
      <4>2. Agree(W, O, ts, touched)'  BY <4>1 DEF StoreInv, Agree
      <4>3. Stamped(W, ts)'  BY <2>2, <4>1 DEF Stamped
      <4> QED  BY <4>2, <4>3
    <3> QED  BY <1>11, <3>1, <3>2 DEF Save
  <2>4. /\ saved'.W = W' /\ saved'.O = O' /\ saved'.ts = ts' /\ saved'.touched = touched'
        /\ now' = now
    BY <1>11 DEF Save
  <2>5. Agree(saved.W, saved.O, saved.ts, saved.touched)' /\ Stamped(saved.W, saved.ts)'
    BY <2>3, <2>4 DEF Agree, Stamped
  <2> QED  BY <2>1, <2>3, <2>5 DEF StoreInv, Stamped, PushInv
<1>12. ASSUME NewRun PROVE StoreInv'
  <2>1. /\ W' = saved.W /\ O' = saved.O /\ ts' = saved.ts /\ touched' = saved.touched
        /\ UNCHANGED saved /\ now' \in Nat /\ now \in Nat /\ now' > now
        /\ \A w \in Worker : stage'[w] = "idle"
    BY <1>12 DEF NewRun, Typed, TypeOK
  <2>2. \A p \in Pair : saved.touched[p] <= now' /\ saved.touched[p] \in Nat
    BY <2>1 DEF StoreInv, Agree, Typed, SavedTyped
  <2> QED  BY <2>1, <2>2 DEF StoreInv, Agree, Stamped, PushInv
<1> QED  BY <1>0, <1>1, <1>2, <1>3, <1>4, <1>5, <1>6, <1>7, <1>8, <1>9, <1>10, <1>11, <1>12 DEF Next

\* Model, optimizer and timestamps agree on what exists, from run to run
\* (ModelShard::ExpireTSStore, Save, Load).
THEOREM StoresStayTogether == Spec => []StoresAgree
<1>1. Init => Typed /\ StoreInv  BY InitTyped, InitStore
<1>2. Typed /\ StoreInv /\ [Next]_vars => (Typed /\ StoreInv)'  BY StepTyped, StepStore
<1>3. Typed /\ StoreInv => StoresAgree
  <2> SUFFICES ASSUME Typed, StoreInv PROVE StoresAgree  OBVIOUS
  <2>1. \A w \in Worker : stage[w] \in {"stamp", "update"} => w \in Running
    BY DEF Running
  <2>2. \A w \in Worker : \A i : (\E p \in kept[w] : p[2] = i) => i \in Ids(kept[w])
    BY DEF Ids
  <2> QED  BY <2>1, <2>2 DEF StoreInv, Agree, StoresAgree, Rows
<1> QED  BY <1>1, <1>2, <1>3, PTL DEF Spec

\* A number within the range of a type is not wrapped round.
LEMMA NotWrapped ==
  ASSUME NEW x \in Nat, NEW n \in Nat, x <= n
  PROVE  x % (n + 1) = x
OBVIOUS

\* As long as now + expire_threshold fits into ts_t, expiry spares every row
\* that was updated within expire_threshold (TSStore::Expire).
THEOREM ExpirySparesFresh ==
  ASSUME ExpireThreshold + MaxNow <= TsMax
  PROVE  Spec => FreshRowsSurvive
<1>1. Init => Typed /\ StoreInv  BY InitTyped, InitStore
<1>2. Typed /\ StoreInv /\ [Next]_vars => (Typed /\ StoreInv)'  BY StepTyped, StepStore
<1>3. ASSUME Typed, StoreInv,
             NEW p \in Rows, W[p] # "init", Save, W'[p] = "none"
      PROVE  now > ExpireThreshold + touched[p]
  <2> USE ShardAssumption
  <2>1. p \in Pair /\ W[p] # "none"  BY DEF Rows
  <2>2. ExpireThreshold > 0 /\ p[2] \in Expired
    BY <1>3, <2>1 DEF Save, store, ExpireTSStore
  <2>3. p[2] \in DOMAIN ts /\ ts[p[2]] >= touched[p] /\ touched[p] \in Nat
    BY <1>3, <2>1, <2>2 DEF StoreInv, Agree, Typed, TypeOK
  <2>4. ts[p[2]] \in Nat /\ ts[p[2]] <= MaxNow /\ now \in Nat
    BY <1>3, <2>3 DEF Typed, TypeOK
  <2>5. (ExpireThreshold + ts[p[2]]) % (TsMax + 1) = ExpireThreshold + ts[p[2]]
    <3>1. ExpireThreshold + ts[p[2]] \in Nat /\ ExpireThreshold + ts[p[2]] <= TsMax
      BY <2>4
    <3> QED  BY <3>1, NotWrapped
  <2>6. now > (ExpireThreshold + ts[p[2]]) % (TsMax + 1)  BY <2>2 DEF Expired
  <2> QED  BY <2>3, <2>4, <2>5, <2>6
<1>4. Typed /\ StoreInv /\ [Next]_vars =>
        [\A p \in Rows : W[p] # "init" /\ Save /\ W'[p] = "none"
           => now > ExpireThreshold + touched[p]]_vars
  BY <1>3
<1> QED  BY <1>1, <1>2, <1>4, PTL DEF Spec, FreshRowsSurvive

-----------------------------------------------------------------------------
(* One thread serves the shard. *)

\* One request runs at a time; while it makes a row that was not there, nobody
\* else makes it.
AloneInv ==
  threads = 1 =>
    /\ \A v, w \in Running : v = w
    /\ \A w \in Worker : stage[w] = "insert" => \A p \in kept[w] : W[p] = "none"

\* None runs when a request is begun.
LEMMA NobodyRuns ==
  ASSUME threads = 1, Cardinality(Running) < threads
  PROVE  Running = {}
<1>1. IsFiniteSet(Running)  BY ShardAssumption, FS_Subset DEF Running
<1>2. Cardinality(Running) \in Nat  BY <1>1, FS_CardinalityType
<1>3. Cardinality(Running) = 0  BY <1>2
<1> QED  BY <1>1, <1>3, FS_EmptySet

\* A request goes on.
LEMMA AloneGoesOn ==
  ASSUME Typed, AloneInv, UNCHANGED setup, NEW w \in Worker, w \in Running,
         \A v \in Worker \ {w} : stage'[v] = stage[v]
  PROVE  threads' = 1 => Running' \subseteq {w}
BY DEF AloneInv, Running, Typed, TypeOK, setup

\* Where a request is after a lookup in the frequency store.
LEMMA FilterMoves ==
  ASSUME NEW w, NEW s, NEW e, FilterRow(w, s, e)
  PROVE  \E x \in {stage[w], s, e} : stage' = [stage EXCEPT ![w] = x]
<1> PICK p \in todo[w] : FilterRow(w, s, e)!(p)
  BY DEF FilterRow
<1> DEFINE K == IF Frequent(p[2]) THEN kept[w] \cup {p} ELSE kept[w]
<1>1. \/ GoTo(w, stage[w], todo[w] \ {p}, K)
      \/ GoTo(w, e, {}, {})
      \/ GoTo(w, s, K, K)
  OBVIOUS
<1> HIDE DEF K
<1> QED  BY <1>1 DEF GoTo

\* Every step keeps the requests of a run with one thread apart.
LEMMA StepAlone == Typed /\ AloneInv /\ [Next]_vars => AloneInv'
<1> SUFFICES ASSUME Typed, AloneInv, [Next]_vars PROVE AloneInv'  OBVIOUS
<1>0. CASE UNCHANGED vars
  BY <1>0 DEF vars, store, request, setup, AloneInv, Running
<1>1. ASSUME UNCHANGED setup, NEW w \in Worker, NEW S \in SUBSET lookups, Pull(w, S)
      PROVE  AloneInv'
  <2>1. /\ \A v \in Worker \ {w} : stage'[v] = stage[v]
        /\ stage'[w] # "insert"
    BY <1>1 DEF Pull, Typed, TypeOK
  <2> QED  BY <1>1, <2>1, NobodyRuns DEF AloneInv, Running, Pull, setup
<1>2. ASSUME UNCHANGED setup, NEW w \in Worker, Push(w) PROVE AloneInv'
  <2>1. /\ \A v \in Worker \ {w} : stage'[v] = stage[v]
        /\ stage'[w] # "insert"
    BY <1>2 DEF Push, GoTo, FirstPushStage, Typed, TypeOK
  <2> QED  BY <1>2, <2>1, NobodyRuns DEF AloneInv, Running, Push, setup
<1>3. ASSUME UNCHANGED setup, NEW w \in Worker, FetchRow(w) PROVE AloneInv'
  <2>1. /\ w \in Running /\ \A v \in Worker \ {w} : stage'[v] = stage[v]
        /\ stage'[w] = "insert" => \A p \in kept'[w] : W'[p] = "none"
    BY <1>3 DEF FetchRow, Done, GoTo, store, Typed, TypeOK, Running
  <2> QED  BY <1>3, <2>1, AloneGoesOn DEF AloneInv, Running
<1>4. ASSUME UNCHANGED setup, NEW w \in Worker,
             CountId(w) \/ FilterPull(w) \/ FilterGrad(w) \/ Stamp(w) \/ Update(w)
                 \/ InsertRow(w)
      PROVE  AloneInv'
  <2>2. w \in Running
    BY <1>4 DEF CountId, FilterPull, FilterGrad, Stamp, Update, InsertRow, Running
  <2>3. \E x \in Stages \ {"insert"} : stage' = [stage EXCEPT ![w] = x]
    <3>1. CASE FilterPull(w)
      BY <3>1, FilterMoves DEF FilterPull, Stages
    <3>2. CASE FilterGrad(w)
      BY <3>2, FilterMoves DEF FilterGrad, Stages
    <3>3. CASE CountId(w)
      BY <3>3 DEF CountId, GoTo, Stages
    <3>4. CASE Stamp(w)
      BY <3>4 DEF Stamp, GoTo, Stages
    <3>5. CASE Update(w) \/ InsertRow(w)
      BY <3>5 DEF Update, InsertRow, GoTo, Stages
    <3> QED  BY <1>4, <3>1, <3>2, <3>3, <3>4, <3>5
  <2>4. stage'[w] # "insert" /\ \A v \in Worker \ {w} : stage'[v] = stage[v]
    BY <2>3 DEF Typed, TypeOK
  <2> QED  BY <1>4, <2>2, <2>4, AloneGoesOn DEF AloneInv, Running
<1>5. ASSUME UNCHANGED setup, NEW w \in Worker, Leave(w) PROVE AloneInv'
  <2>1. w \notin Running' /\ stage'[w] # "insert"
        /\ \A v \in Worker \ {w} : stage'[v] = stage[v] /\ kept'[v] = kept[v]
    BY <1>5 DEF Leave, GoTo, Typed, TypeOK, Running
  <2> QED  BY <1>5, <2>1 DEF AloneInv, Running, Leave, store, setup
<1>6. ASSUME UNCHANGED setup, Save PROVE AloneInv'
  BY <1>6 DEF Save, AloneInv, Running, request, setup
<1>7. ASSUME UNCHANGED setup, NewRun PROVE AloneInv'
  BY <1>7 DEF NewRun, AloneInv, Running, setup
<1> QED  BY <1>0, <1>1, <1>2, <1>3, <1>4, <1>5, <1>6, <1>7 DEF Next

\* One thread: no pull starts a row afresh that holds gradients, though the
\* miss and the insertion are two critical sections (get_row).
THEOREM TrainedRowsStay == Spec => TrainedStays
<1>1. Init => Typed /\ AloneInv
  BY InitTyped DEF Init, AloneInv, Running
<1>2. Typed /\ AloneInv /\ [Next]_vars => (Typed /\ AloneInv)'  BY StepTyped, StepAlone
<1>3. Typed /\ AloneInv /\ [Next]_vars =>
        [threads = 1 => \A p \in Rows : W[p] # "init" /\ W'[p] # W[p] => Save \/ NewRun]_vars
  <2> SUFFICES ASSUME Typed, AloneInv, Next, threads = 1,
                      NEW p \in Rows, W[p] # "init", W'[p] # W[p]
               PROVE  Save \/ NewRun
    OBVIOUS
  <2>1. p \in Pair /\ W[p] # "none"  BY DEF Rows
  <2>2. ASSUME NEW w \in Worker, InsertRow(w) PROVE FALSE
    BY <2>1, <2>2 DEF InsertRow, AloneInv, Typed, TypeOK
  <2>3. ASSUME NEW w \in Worker, Update(w) PROVE FALSE
    BY <2>1, <2>3 DEF Update, Typed, TypeOK, Row
  <2> QED  BY <2>2, <2>3 DEF Next, Pull, CountId, FilterPull, FetchRow, Push, FilterGrad, Stamp, Leave,
                             store
<1> QED  BY <1>1, <1>2, <1>3, PTL DEF Spec, TrainedStays

-----------------------------------------------------------------------------
(* Rows start from their initializer. *)

\* What RowsFromInitializer supposes.
Single ==
  threads = 1 /\ FreqThreshold > 0 /\ \A p, q \in lookups : p[2] = q[2] => p = q

\* The pull of w has counted p's id and has still to make the row.
Pending(w, p) ==
  \/ stage[w] = "count" /\ p \in req[w]
  \/ stage[w] = "filter" /\ p \in todo[w] \cup kept[w]
  \/ stage[w] \in {"fetch", "insert"} /\ p \in todo[w]

\* A frequent id has its row or a pull under way that makes it, so that a push
\* past the filter finds every row.
RowInv ==
  Single =>
    /\ \A p \in Pair : W[p] # "raw" /\ saved.W[p] # "raw"
    /\ \A p \in lookups : Frequent(p[2]) => W[p] # "none" \/ \E w \in Worker : Pending(w, p)
    /\ \A p \in lookups : saved.freq[p[2]] >= FreqThreshold => saved.W[p] # "none"
    /\ \A w \in Worker : stage[w] \in {"filter_grad", "stamp", "update"} =>
         \A p \in kept[w] : W[p] # "none"

AllInv == Typed /\ StoreInv /\ AloneInv /\ RowInv

\* There is no row and no count before the first request.
LEMMA InitRow == Init => RowInv
BY ShardAssumption DEF Init, Blank, RowInv, Single, Frequent, Pair

\* A step of the request of w that leaves the rows and counts alone and does
\* not forget a row that its pull has still to make.
LEMMA RowsLeftAlone ==
  ASSUME RowInv, UNCHANGED <<setup, W, freq, saved>>, NEW w \in Worker,
         \A v \in Worker \ {w} : /\ stage'[v] = stage[v] /\ req'[v] = req[v]
                                 /\ todo'[v] = todo[v] /\ kept'[v] = kept[v],
         \A p \in lookups : Pending(w, p) /\ Frequent(p[2]) => W[p] # "none" \/ Pending(w, p)',
         Single /\ stage'[w] \in {"filter_grad", "stamp", "update"} =>
           \A p \in kept'[w] : W[p] # "none"
  PROVE  RowInv'
<1>1. \A p \in lookups, v \in Worker \ {w} : Pending(v, p) => Pending(v, p)'
  BY DEF Pending
<1>2. Single' => Single /\ lookups' = lookups  BY DEF Single, setup
<1>3. \A p \in lookups : Frequent(p[2])' <=> Frequent(p[2])  BY DEF Frequent
<1> HIDE DEF Pending, Frequent, Single
<1> QED  BY <1>1, <1>2, <1>3 DEF RowInv

\* Nobody else's pull is under way while w runs alone.
LEMMA AloneNoPending ==
  ASSUME AllInv, Single, NEW w \in Running
  PROVE  \A v \in Worker \ {w} : \A p : ~Pending(v, p)
BY DEF AllInv, AloneInv, Single, Pending, Running

\* Filtering ids keeps what is known of the origin of rows.
LEMMA FilterRowInv ==
  ASSUME AllInv, NEW w \in Worker, UNCHANGED <<setup, W, freq, saved>>,
         \/ stage[w] = "filter" /\ FilterRow(w, "fetch", "pulled")
         \/ /\ stage[w] = "filter_grad"
            /\ \E s \in {"stamp", "update"} : FilterRow(w, s, "idle")
  PROVE  RowInv'
<1> PICK s, e : /\ FilterRow(w, s, e)
                /\ \/ stage[w] = "filter" /\ s = "fetch" /\ e = "pulled"
                   \/ stage[w] = "filter_grad" /\ s \in {"stamp", "update"} /\ e = "idle"
  OBVIOUS
<1> PICK p \in todo[w] : FilterRow(w, s, e)!(p)
  BY DEF FilterRow
<1> DEFINE K == IF Frequent(p[2]) THEN kept[w] \cup {p} ELSE kept[w]
<1>1. /\ kept[w] \subseteq K /\ (Frequent(p[2]) => p \in K)
      /\ \A q \in K : q \in kept[w] \/ (q = p /\ Frequent(p[2]))
  OBVIOUS
<1>2. \/ GoTo(w, stage[w], todo[w] \ {p}, K)
      \/ GoTo(w, e, {}, {}) /\ K = {} /\ todo[w] = {p}
      \/ GoTo(w, s, K, K) /\ todo[w] = {p}
  <2>1. CASE todo[w] # {p}  BY <2>1
  <2>2. CASE todo[w] = {p} /\ K = {}  BY <2>2
  <2>3. CASE todo[w] = {p} /\ K # {}  BY <2>3
  <2> QED  BY <2>1, <2>2, <2>3
<1> HIDE DEF K
<1>3. \A v \in Worker \ {w} : /\ stage'[v] = stage[v] /\ req'[v] = req[v]
                              /\ todo'[v] = todo[v] /\ kept'[v] = kept[v]
  BY <1>2 DEF GoTo, AllInv, Typed, TypeOK
<1>4. ASSUME NEW q \in lookups, Pending(w, q), Frequent(q[2])
      PROVE  Pending(w, q)'
  <2>1. stage[w] = "filter" /\ q \in todo[w] \cup kept[w]  BY <1>4 DEF Pending
  <2>2. q \in todo[w] \ {p} \/ q \in K  BY <1>1, <1>4, <2>1
  <2> QED  BY <1>2, <2>1, <2>2 DEF GoTo, Pending, AllInv, Typed, TypeOK
<1>5. ASSUME Single, stage'[w] \in {"filter_grad", "stamp", "update"}, NEW q \in kept'[w]
      PROVE  W[q] # "none"
  <2>1. stage[w] = "filter_grad" /\ q \in K
    BY <1>2, <1>5 DEF GoTo, AllInv, Typed, TypeOK
  <2>2. CASE q \in kept[w]
    BY <1>5, <2>1, <2>2 DEF AllInv, RowInv
  <2>3. CASE q = p /\ Frequent(p[2])
    <3>1. w \in Running  BY <2>1 DEF Running
    <3>2. ~Pending(w, p)  BY <2>1 DEF Pending
    <3>3. p \in lookups  BY DEF AllInv, Typed, RequestShape
    <3> HIDE DEF Frequent, Pending
    <3> QED  BY <1>5, <2>3, <3>1, <3>2, <3>3, AloneNoPending DEF AllInv, RowInv
  <2> QED  BY <1>1, <2>1, <2>2, <2>3
<1> QED  BY <1>3, <1>4, <1>5, RowsLeftAlone DEF AllInv

\* Every step keeps what is known of the origin of rows.
LEMMA StepRow == AllInv /\ [Next]_vars => RowInv'
<1> SUFFICES ASSUME AllInv, [Next]_vars PROVE RowInv'  OBVIOUS
<1> USE ShardAssumption
<1>0. CASE UNCHANGED vars
  BY <1>0 DEF vars, store, request, setup, AllInv, RowInv, Single, Pending, Frequent
<1>1. ASSUME UNCHANGED setup, NEW w \in Worker, NEW S \in SUBSET lookups, Pull(w, S)
      PROVE  RowInv'
  <2>1. /\ stage'[w] \in {"count", "fetch"} /\ \A p : ~Pending(w, p)
        /\ \A v \in Worker \ {w} : /\ stage'[v] = stage[v] /\ req'[v] = req[v]
                                   /\ todo'[v] = todo[v] /\ kept'[v] = kept[v]
    BY <1>1 DEF Pull, Pending, AllInv, Typed, TypeOK
  <2> QED  BY <1>1, <2>1, RowsLeftAlone DEF Pull, store, AllInv
<1>2. ASSUME UNCHANGED setup, NEW w \in Worker, CountId(w) PROVE RowInv'
  <2> PICK i \in Ids(todo[w]) : CountId(w)!2!(i)
    BY <1>2 DEF CountId
  <2>1. \/ GoTo(w, "filter", req[w], {})
        \/ GoTo(w, "count", {p \in todo[w] : p[2] # i}, {})
    OBVIOUS
  <2>2. /\ stage[w] = "count" /\ stage'[w] \in {"count", "filter"}
        /\ stage'[w] = "filter" => todo'[w] = req[w]
        /\ req'[w] = req[w]
        /\ \A v \in Worker \ {w} : /\ stage'[v] = stage[v] /\ req'[v] = req[v]
                                   /\ todo'[v] = todo[v] /\ kept'[v] = kept[v]
    BY <1>2, <2>1 DEF CountId, GoTo, AllInv, Typed, TypeOK
  <2>3. UNCHANGED <<setup, W, saved>> /\ \A j \in Id \ {i} : freq'[j] = freq[j]
    BY <1>2 DEF CountId, AllInv, Typed, TypeOK
  <2>4. \A v \in Worker : \A p : Pending(v, p) => Pending(v, p)'
    BY <2>2 DEF Pending
  <2>5. ASSUME Single, NEW p \in lookups, Frequent(p[2])'
        PROVE  W'[p] # "none" \/ \E v \in Worker : Pending(v, p)'
    <3>1. CASE p[2] = i
      <4>1. PICK q \in todo[w] : q[2] = i  BY DEF Ids
      <4>2. q \in req[w] /\ q \in lookups  BY DEF AllInv, Typed, RequestShape
      <4>3. q = p  BY <2>5, <3>1, <4>1, <4>2 DEF Single
      <4> QED  BY <2>2, <4>2, <4>3 DEF Pending
    <3>2. CASE p[2] # i
      <4>1. p[2] \in Id  BY DEF AllInv, Typed, TypeOK, Pair
      <4>2. Frequent(p[2])  BY <2>3, <2>5, <3>2, <4>1 DEF Frequent
      <4> HIDE DEF Frequent, Pending
      <4> QED  BY <2>3, <2>4, <2>5, <4>2 DEF AllInv, RowInv
    <3> QED  BY <3>1, <3>2
  <2>6. Single' => Single  BY <2>3 DEF Single, setup
  <2> HIDE DEF Pending, Frequent, Single
  <2> QED  BY <2>2, <2>3, <2>5, <2>6 DEF AllInv, RowInv, setup
<1>3. ASSUME UNCHANGED setup, NEW w \in Worker, FilterPull(w) PROVE RowInv'
  BY <1>3, FilterRowInv DEF FilterPull, store
<1>4. ASSUME UNCHANGED setup, NEW w \in Worker, FetchRow(w) PROVE RowInv'
  <2> PICK p \in todo[w] : FetchRow(w)!2!(p)
    BY <1>4 DEF FetchRow
  <2>1. \/ W[p] # "none" /\ GoTo(w, "pulled", {}, {}) /\ todo[w] = {p}
        \/ W[p] # "none" /\ GoTo(w, "fetch", todo[w] \ {p}, kept[w])
        \/ /\ stage' = [stage EXCEPT ![w] = "insert"] /\ UNCHANGED <<req, todo>>
           /\ kept' = [kept EXCEPT ![w] = {p}]
    BY <1>4 DEF Done, FetchRow
  <2>2. /\ stage[w] = "fetch" /\ stage'[w] \in {"fetch", "pulled", "insert"}
        /\ \A q \in todo[w] : \/ W[q] # "none"
                              \/ stage'[w] \in {"fetch", "insert"} /\ q \in todo'[w]
        /\ \A v \in Worker \ {w} : /\ stage'[v] = stage[v] /\ req'[v] = req[v]
                                   /\ todo'[v] = todo[v] /\ kept'[v] = kept[v]
    <3>1. CASE W[p] # "none" /\ GoTo(w, "pulled", {}, {}) /\ todo[w] = {p}
      BY <1>4, <3>1 DEF FetchRow, GoTo, AllInv, Typed, TypeOK
    <3>2. CASE W[p] # "none" /\ GoTo(w, "fetch", todo[w] \ {p}, kept[w])
      BY <1>4, <3>2 DEF FetchRow, GoTo, AllInv, Typed, TypeOK
    <3>3. CASE /\ stage' = [stage EXCEPT ![w] = "insert"] /\ UNCHANGED <<req, todo>>
               /\ kept' = [kept EXCEPT ![w] = {p}]
      BY <1>4, <3>3 DEF FetchRow, AllInv, Typed, TypeOK
    <3> QED  BY <2>1, <3>1, <3>2, <3>3
  <2>3. \A q : Pending(w, q) => W[q] # "none" \/ Pending(w, q)'
    BY <2>2 DEF Pending
  <2> QED  BY <1>4, <2>2, <2>3, RowsLeftAlone DEF FetchRow, store, AllInv
<1>5. ASSUME UNCHANGED setup, NEW w \in Worker, InsertRow(w) PROVE RowInv'
  <2> PICK p \in kept[w] : InsertRow(w)!2!(p)
    BY <1>5 DEF InsertRow
  <2>1. /\ stage[w] = "insert" /\ stage'[w] \in {"fetch", "pulled"}
        /\ \A q \in todo[w] : q = p \/ (stage'[w] = "fetch" /\ q \in todo'[w])
        /\ \A v \in Worker \ {w} : /\ stage'[v] = stage[v] /\ req'[v] = req[v]
                                   /\ todo'[v] = todo[v] /\ kept'[v] = kept[v]
    <3>1. CASE todo[w] = {p} /\ GoTo(w, "pulled", {}, {})
      BY <1>5, <3>1 DEF InsertRow, GoTo, AllInv, Typed, TypeOK
    <3>2. CASE GoTo(w, "fetch", todo[w] \ {p}, {})
      BY <1>5, <3>2 DEF InsertRow, GoTo, AllInv, Typed, TypeOK
    <3> QED  BY <3>1, <3>2
  <2>2. UNCHANGED <<setup, freq, saved>> /\ p \in Pair /\ W'[p] = "init"
        /\ \A q \in Pair \ {p} : W'[q] = W[q]
    BY <1>5 DEF InsertRow, AllInv, Typed, TypeOK
  <2>3. \A v \in Worker : \A q : Pending(v, q) => q = p \/ Pending(v, q)'
    BY <2>1 DEF Pending
  <2>4. \A q \in Pair : W[q] # "none" => W'[q] # "none"  BY <2>2
  <2>5. \A v \in Worker : kept[v] \subseteq Pair  BY DEF AllInv, Typed, TypeOK
  <2>6. lookups \subseteq Pair  BY DEF AllInv, Typed, TypeOK, Pair
  <2>7. Single' => Single /\ lookups' = lookups  BY <2>2 DEF Single, setup
  <2>8. \A q : Frequent(q[2])' <=> Frequent(q[2])  BY <2>2 DEF Frequent
  <2> HIDE DEF Pending, Frequent, Single
  <2> QED  BY <2>1, <2>2, <2>3, <2>4, <2>5, <2>6, <2>7, <2>8 DEF AllInv, RowInv
<1>6. ASSUME UNCHANGED setup, NEW w \in Worker, Push(w) PROVE RowInv'
  <2>1. /\ stage[w] = "pulled" /\ (Single => stage'[w] = "filter_grad" /\ kept'[w] = {})
        /\ \A v \in Worker \ {w} : /\ stage'[v] = stage[v] /\ req'[v] = req[v]
                                   /\ todo'[v] = todo[v] /\ kept'[v] = kept[v]
    BY <1>6 DEF Push, FirstPushStage, GoTo, AllInv, Typed, TypeOK, Single
  <2>2. \A q : ~Pending(w, q)  BY <2>1 DEF Pending
  <2> QED  BY <1>6, <2>1, <2>2, RowsLeftAlone DEF Push, store, AllInv
<1>7. ASSUME UNCHANGED setup, NEW w \in Worker, FilterGrad(w) PROVE RowInv'
  BY <1>7, FilterRowInv DEF FilterGrad, store
<1>8. ASSUME UNCHANGED setup, NEW w \in Worker, Stamp(w) PROVE RowInv'
  <2> PICK t \in Table : Stamp(w)!2!(t)
    BY <1>8 DEF Stamp
  <2>1. /\ stage[w] = "stamp" /\ kept'[w] = kept[w]
        /\ \A v \in Worker \ {w} : /\ stage'[v] = stage[v] /\ req'[v] = req[v]
                                   /\ todo'[v] = todo[v] /\ kept'[v] = kept[v]
    BY <1>8 DEF Stamp, GoTo, AllInv, Typed, TypeOK
  <2>2. \A q : ~Pending(w, q)  BY <2>1 DEF Pending
  <2>3. Single => \A p \in kept'[w] : W[p] # "none"  BY <2>1 DEF AllInv, RowInv
  <2> QED  BY <1>8, <2>1, <2>2, <2>3, RowsLeftAlone DEF Stamp, AllInv
<1>9. ASSUME UNCHANGED setup, NEW w \in Worker, Update(w) PROVE RowInv'
  <2> PICK p \in todo[w] : Update(w)!2!(p)
    BY <1>9 DEF Update
  <2>1. /\ stage[w] = "update" /\ p \in kept[w]
        /\ \/ stage'[w] = "idle"
           \/ stage'[w] = "update" /\ kept'[w] = kept[w]
        /\ \A v \in Worker \ {w} : /\ stage'[v] = stage[v] /\ req'[v] = req[v]
                                   /\ todo'[v] = todo[v] /\ kept'[v] = kept[v]
    BY <1>9 DEF Update, GoTo, AllInv, Typed, TypeOK, StoreInv, PushInv
  <2>2. /\ UNCHANGED <<setup, freq, saved>> /\ p \in Pair
        /\ \A q \in Pair \ {p} : W'[q] = W[q]
        /\ W'[p] \in {"raw", "trained"} /\ (W[p] \notin {"none", "raw"} => W'[p] = "trained")
    BY <1>9 DEF Update, AllInv, Typed, TypeOK
  <2>3. \A v \in Worker : \A q : Pending(v, q) => Pending(v, q)'
    BY <2>1 DEF Pending
  <2>4. \A q \in Pair : W[q] # "none" => W'[q] # "none"  BY <2>2
  <2>5. \A v \in Worker : kept[v] \subseteq Pair  BY DEF AllInv, Typed, TypeOK
  <2>6. lookups \subseteq Pair  BY DEF AllInv, Typed, TypeOK, Pair
  <2>7. Single' => Single /\ lookups' = lookups  BY <2>2 DEF Single, setup
  <2>8. \A q : Frequent(q[2])' <=> Frequent(q[2])  BY <2>2 DEF Frequent
  <2>9. Single => W[p] \notin {"none", "raw"}  BY <2>1, <2>2 DEF AllInv, RowInv
  <2> HIDE DEF Pending, Frequent, Single
  <2> QED  BY <2>1, <2>2, <2>3, <2>4, <2>5, <2>6, <2>7, <2>8, <2>9 DEF AllInv, RowInv
<1>10. ASSUME UNCHANGED setup, NEW w \in Worker, Leave(w) PROVE RowInv'
  <2>1. /\ stage[w] = "pulled" /\ stage'[w] = "idle"
        /\ \A v \in Worker \ {w} : /\ stage'[v] = stage[v] /\ req'[v] = req[v]
                                   /\ todo'[v] = todo[v] /\ kept'[v] = kept[v]
    BY <1>10 DEF Leave, GoTo, AllInv, Typed, TypeOK
  <2>2. \A q : ~Pending(w, q)  BY <2>1 DEF Pending
  <2> QED  BY <1>10, <2>1, <2>2, RowsLeftAlone DEF Leave, store, AllInv
<1>11. ASSUME UNCHANGED setup, Save PROVE RowInv'
  <2>1. \A w \in Worker : stage'[w] \in {"idle", "pulled"} /\ stage[w] \in {"idle", "pulled"}
    BY <1>11 DEF Save, Running, request
  <2>2. Single => \A p \in lookups : Frequent(p[2]) => W[p] # "none"
    BY <2>1 DEF AllInv, RowInv, Pending
  <2>3. Single => /\ \A p \in Pair : W'[p] # "raw"
                  /\ \A p \in lookups : freq'[p[2]] >= FreqThreshold => W'[p] # "none"
    <3>1. CASE UNCHANGED store
      BY <2>2, <3>1 DEF store, AllInv, RowInv, Frequent
    <3>2. ASSUME NEW gone, ExpireTSStore(gone), Single
          PROVE  /\ \A p \in Pair : W'[p] # "raw"
                 /\ \A p \in lookups : freq'[p[2]] >= FreqThreshold => W'[p] # "none"
      <4>1. \A p \in Pair : W'[p] = IF p[2] \in gone THEN "none" ELSE W[p]
        BY <3>2 DEF ExpireTSStore
      <4>2. \A i \in Id : freq'[i] = IF i \in gone THEN 0 ELSE freq[i]
        BY <3>2 DEF ExpireTSStore
      <4>3. \A p \in lookups : p \in Pair /\ p[2] \in Id  BY DEF AllInv, Typed, TypeOK, Pair
      <4>4. FreqThreshold > 0  BY <3>2 DEF Single
      <4> HIDE DEF Single
      <4>5. \A p \in Pair : W'[p] # "raw"  BY <3>2, <4>1 DEF AllInv, RowInv
      <4>6. \A p \in lookups : freq'[p[2]] >= FreqThreshold => W'[p] # "none"
        BY <2>2, <3>2, <4>1, <4>2, <4>3, <4>4 DEF Frequent
      <4> QED  BY <4>5, <4>6
    <3> QED  BY <1>11, <3>1, <3>2 DEF Save
  <2>4. saved'.W = W' /\ saved'.freq = freq'  BY <1>11 DEF Save
  <2>5. Single' => Single /\ lookups' = lookups  BY <1>11 DEF Single, setup
  <2> HIDE DEF Single
  <2> QED  BY <2>1, <2>3, <2>4, <2>5 DEF RowInv, Frequent
<1>12. ASSUME UNCHANGED setup, NewRun PROVE RowInv'
  <2>1. /\ W' = saved.W /\ freq' = saved.freq /\ UNCHANGED saved
        /\ \A w \in Worker : stage'[w] = "idle"
    BY <1>12 DEF NewRun
  <2>2. Single' => Single /\ lookups' = lookups  BY <1>12 DEF Single, setup
  <2> HIDE DEF Single
  <2> QED  BY <2>1, <2>2 DEF AllInv, RowInv, Frequent
<1> QED  BY <1>0, <1>1, <1>2, <1>3, <1>4, <1>5, <1>6, <1>7, <1>8, <1>9, <1>10, <1>11, <1>12 DEF Next

\* One thread, a frequency filter and one table per id: every row starts from
\* its initializer, though a push makes rows too (get_row_no_init).
THEOREM RowsAreInitialized == Spec => []RowsFromInitializer
<1>1. Init => AllInv
  BY InitTyped, InitStore, InitRow DEF Init, AllInv, AloneInv, Running
<1>2. AllInv /\ [Next]_vars => AllInv'
  BY StepTyped, StepStore, StepAlone, StepRow DEF AllInv
<1>3. AllInv => RowsFromInitializer
  BY DEF AllInv, RowInv, Single, RowsFromInitializer, Rows
<1> QED  BY <1>1, <1>2, <1>3, PTL DEF Spec
=============================================================================
