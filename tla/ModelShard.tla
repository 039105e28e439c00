----------------------------- MODULE ModelShard -----------------------------
(***************************************************************************)
(* deepx_core::ModelShard as a parameter server or a trainer uses it: the  *)
(* sparse rows of the model with their optimizer rows, the frequency store *)
(* that keeps rare ids out and the timestamp store that expires old ones,  *)
(* over several training runs, each of which loads what the last one saved.*)
(*                                                                         *)
(* A pull or a push is a sequence of critical sections, one per id, row or *)
(* table: with InitLock (several server threads) those of different        *)
(* requests interleave; a single thread runs one request at a time.  The   *)
(* locks themselves are ReadWriteLock's.                                   *)
(*                                                                         *)
(* Abstractions: of a row only how it came about and whether a gradient is *)
(* in it; of the optimizer one slot.  Dense tensors, overwritten_param,    *)
(* OLStore, RemoveZerosSRM and warm-up are left out.                       *)
(* get_row_no_init followed by the update of the row is one action: the    *)
(* row is at the same address whoever else looks it up in between.         *)
(***************************************************************************)
EXTENDS Naturals, FiniteSets, Functions

CONSTANTS Table,            \* sparse parameters
          Id,               \* feature ids, shared by the tables
          Worker,           \* connections or trainer threads
          PsThread,         \* most requests served at the same time
          Lookups,          \* rows the instances of a job look up, job by job
          FreqThreshold,    \* freq_filter_threshold_; 0: no frequency store
          FreqMax,          \* numeric_limits<freq_t>::max()
          ExpireThreshold,  \* expire_threshold_; 0: ts_enable is off
          TsMax,            \* numeric_limits<ts_t>::max()
          MaxNow,           \* bound: ts_now of the last run
          MaxPull           \* bound: pulls per run

ASSUME ShardAssumption ==
  /\ IsFiniteSet(Table) /\ IsFiniteSet(Id) /\ IsFiniteSet(Worker)
  /\ PsThread \in Nat \ {0} /\ Lookups \subseteq SUBSET (Table \X Id)
  /\ FreqThreshold \in Nat /\ FreqMax \in Nat /\ FreqThreshold <= FreqMax
  /\ ExpireThreshold \in Nat /\ TsMax \in Nat
  /\ MaxNow \in Nat \ {0} /\ MaxNow <= TsMax
  /\ MaxPull \in Nat

VARIABLES threads,  \* requests the server of this job serves at the same time
          lookups,  \* the rows its instances look up
          W,        \* the rows of the model
          O,        \* the rows of the optimizer
          freq,     \* id_freq_map_; no entry is 0
          ts,       \* id_ts_map_
          now,      \* now_
          saved,    \* what the last save wrote
          stage,    \* where the request of a worker is
          req,      \* the rows its batch uses
          todo,     \* rows the current stage has left
          kept,     \* rows the frequency store let through
          pulls,    \* pulls in this run (bound)
          touched   \* history: when a row was last created or updated

store == <<W, O, freq, ts>>
request == <<stage, req, todo, kept>>
setup == <<threads, lookups>>
vars == <<setup, store, now, saved, request, pulls, touched>>

Pair == Table \X Id

\* "init": with its initial values; "trained": a push is in it; "raw": created
\* by a push, from zeros.
Row == {"none", "init", "trained", "raw"}

Stages == {"idle", "count", "filter", "fetch", "insert", "pulled",
           "filter_grad", "stamp", "update"}

Rows == {p \in Pair : W[p] # "none"}
Running == {w \in Worker : stage[w] \notin {"idle", "pulled"}}
Ids(S) == {p[2] : p \in S}

\* The model, the optimizer and the stores of a job that starts from nothing.
Blank == [W |-> [p \in Pair |-> "none"], O |-> {}, freq |-> [i \in Id |-> 0],
          ts |-> <<>>, touched |-> [p \in Pair |-> 0]]

Init ==
  /\ threads \in 1..PsThread
  /\ lookups \in Lookups
  /\ W = Blank.W /\ O = Blank.O /\ freq = Blank.freq /\ ts = Blank.ts
  /\ now = 1
  /\ saved = Blank
  /\ stage = [w \in Worker |-> "idle"]
  /\ req = [w \in Worker |-> {}]
  /\ todo = [w \in Worker |-> {}]
  /\ kept = [w \in Worker |-> {}]
  /\ pulls = 0
  /\ touched = Blank.touched

-----------------------------------------------------------------------------
(* The stages of a request. *)

\* The request of w goes to stage s with the rows S to do and K let through;
\* what the batch was is of no use after that.
GoTo(w, s, S, K) ==
  /\ stage' = [stage EXCEPT ![w] = s]
  /\ req' = [req EXCEPT ![w] = IF s = "idle" THEN {} ELSE @]
  /\ todo' = [todo EXCEPT ![w] = S]
  /\ kept' = [kept EXCEPT ![w] = K]

\* The row p of w is done; after the last one comes stage s on the rows S.
Done(w, p, s, S) ==
  IF todo[w] = {p} THEN GoTo(w, s, S, IF s = "pulled" THEN {} ELSE kept[w])
                   ELSE GoTo(w, stage[w], todo[w] \ {p}, kept[w])

(* Pull: FreqStore::Filter(PullRequest), then Model::Pull. *)

Pull(w, S) ==
  /\ stage[w] = "idle"
  /\ Cardinality(Running) < threads
  /\ pulls < MaxPull
  /\ pulls' = pulls + 1
  /\ stage' = [stage EXCEPT ![w] = IF FreqThreshold > 0 THEN "count" ELSE "fetch"]
  /\ req' = [req EXCEPT ![w] = S]
  /\ todo' = [todo EXCEPT ![w] = S]
  /\ UNCHANGED <<store, now, saved, kept, touched>>

\* Occurrences of i in the batch: one per table that looks it up.
Occurrences(w, i) == Cardinality({p \in req[w] : p[2] = i})

\* Mutant: the counter wraps round.
CountedWrapping(f, n) == (f + n) % (FreqMax + 1)

\* freq += n, saturating
Counted(f, n) == IF f > FreqMax - n THEN FreqMax ELSE f + n

CountId(w) ==
  /\ stage[w] = "count"
  /\ \E i \in Ids(todo[w]) :
       LET left == {p \in todo[w] : p[2] # i} IN
       /\ freq' = [freq EXCEPT ![i] = Counted(freq[i], Occurrences(w, i))]
       /\ IF left = {} THEN GoTo(w, "filter", req[w], {})
                       ELSE GoTo(w, "count", left, {})
  /\ UNCHANGED <<W, O, ts, now, saved, pulls, touched>>

Frequent(i) == freq[i] >= FreqThreshold

\* One row of the request, or of the gradient, is looked up in id_freq_map_;
\* with the last one the request goes to stage s, or stops at e.
FilterRow(w, s, e) ==
  \E p \in todo[w] :
    LET K == IF Frequent(p[2]) THEN kept[w] \cup {p} ELSE kept[w] IN
    IF todo[w] # {p} THEN GoTo(w, stage[w], todo[w] \ {p}, K)
    ELSE IF K = {} THEN GoTo(w, e, {}, {}) ELSE GoTo(w, s, K, K)

FilterPull(w) ==
  /\ stage[w] = "filter"
  /\ FilterRow(w, "fetch", "pulled")
  /\ UNCHANGED <<store, now, saved, pulls, touched>>

\* Mutant: the lookup is taken for a miss.
FetchAlwaysMisses(w) ==
  /\ stage[w] = "fetch"
  /\ \E p \in todo[w] : kept' = [kept EXCEPT ![w] = {p}]
  /\ stage' = [stage EXCEPT ![w] = "insert"]
  /\ UNCHANGED <<store, now, saved, req, todo, pulls, touched>>

\* get_row, the part under the read lock: the row is there, or it is not.
FetchRow(w) ==
  /\ stage[w] = "fetch"
  /\ \E p \in todo[w] :
       \/ W[p] # "none" /\ Done(w, p, "pulled", {})
       \/ /\ W[p] = "none"
          /\ stage' = [stage EXCEPT ![w] = "insert"]
          /\ kept' = [kept EXCEPT ![w] = {p}]
          /\ UNCHANGED <<req, todo>>
  /\ UNCHANGED <<store, now, saved, pulls, touched>>

\* get_row, the part under the write lock: row_map_[row] and its initializer.
InsertRow(w) ==
  /\ stage[w] = "insert"
  /\ \E p \in kept[w] :
       /\ W' = [W EXCEPT ![p] = "init"]
       /\ touched' = [touched EXCEPT ![p] = now]
       /\ IF todo[w] = {p} THEN GoTo(w, "pulled", {}, {})
                           ELSE GoTo(w, "fetch", todo[w] \ {p}, {})
  /\ UNCHANGED <<O, freq, ts, now, saved, pulls>>

-----------------------------------------------------------------------------
(* Push: FreqStore::Filter(grad), TSStore::Update, Optimizer::Update.  The *)
(* gradient has a row for everything the batch looked up, also for rows    *)
(* the pull did not return.                                                *)

FirstPushStage == IF FreqThreshold > 0 THEN "filter_grad"
                  ELSE IF ExpireThreshold > 0 THEN "stamp" ELSE "update"

Push(w) ==
  /\ stage[w] = "pulled"
  /\ Cardinality(Running) < threads
  /\ GoTo(w, FirstPushStage, req[w], IF FreqThreshold > 0 THEN {} ELSE req[w])
  /\ UNCHANGED <<store, now, saved, pulls, touched>>

FilterGrad(w) ==
  /\ stage[w] = "filter_grad"
  /\ FilterRow(w, IF ExpireThreshold > 0 THEN "stamp" ELSE "update", "idle")
  /\ UNCHANGED <<store, now, saved, pulls, touched>>

\* Mutant: an id that has a timestamp keeps it.
StampOnce(w) ==
  /\ stage[w] = "stamp"
  /\ \E t \in Table :
       LET rows == {p \in todo[w] : p[1] = t}
           left == todo[w] \ rows
       IN /\ rows # {}
          /\ ts' = [i \in DOMAIN ts \cup Ids(rows) |->
                      IF i \in DOMAIN ts THEN ts[i] ELSE now]
          /\ IF left = {} THEN GoTo(w, "update", kept[w], kept[w])
                          ELSE GoTo(w, "stamp", left, kept[w])
  /\ UNCHANGED <<W, O, freq, now, saved, pulls, touched>>

\* id_ts_map_[id] = now_ for the ids of one table
Stamp(w) ==
  /\ stage[w] = "stamp"
  /\ \E t \in Table :
       LET rows == {p \in todo[w] : p[1] = t}
           left == todo[w] \ rows
       IN /\ rows # {}
          /\ ts' = [i \in DOMAIN ts \cup Ids(rows) |->
                      IF i \in Ids(rows) THEN now ELSE ts[i]]
          /\ IF left = {} THEN GoTo(w, "update", kept[w], kept[w])
                          ELSE GoTo(w, "stamp", left, kept[w])
  /\ UNCHANGED <<W, O, freq, now, saved, pulls, touched>>

\* get_row_no_init on the model and the optimizer, and the arithmetic
Update(w) ==
  /\ stage[w] = "update"
  /\ \E p \in todo[w] :
       /\ W' = [W EXCEPT ![p] = IF @ \in {"none", "raw"} THEN "raw" ELSE "trained"]
       /\ O' = O \cup {p}
       /\ touched' = [touched EXCEPT ![p] = now]
       /\ IF todo[w] = {p} THEN GoTo(w, "idle", {}, {})
                           ELSE GoTo(w, "update", todo[w] \ {p}, kept[w])
  /\ UNCHANGED <<freq, ts, now, saved, pulls>>

\* The worker dies, or leaves, between a pull and its push.
Leave(w) ==
  /\ stage[w] = "pulled"
  /\ GoTo(w, "idle", {}, {})
  /\ UNCHANGED <<store, now, saved, pulls, touched>>

-----------------------------------------------------------------------------
(* The end of an epoch and the next run. *)

\* TSStore::Expire
Expired == {i \in DOMAIN ts : now > (ExpireThreshold + ts[i]) % (TsMax + 1)}

\* Mutant: the rows go from the model, not from the optimizer.
ExpireModelOnly(gone) ==
  /\ W' = [p \in Pair |-> IF p[2] \in gone THEN "none" ELSE W[p]]
  /\ freq' = [i \in Id |-> IF i \in gone THEN 0 ELSE freq[i]]
  /\ ts' = Restrict(ts, DOMAIN ts \ gone)
  /\ UNCHANGED O

\* Mutant: the frequency store is left alone.
ExpireForgetsFreq(gone) ==
  /\ W' = [p \in Pair |-> IF p[2] \in gone THEN "none" ELSE W[p]]
  /\ O' = {p \in O : p[2] \notin gone}
  /\ ts' = Restrict(ts, DOMAIN ts \ gone)
  /\ UNCHANGED freq

\* ModelShard::ExpireTSStore
ExpireTSStore(gone) ==
  /\ W' = [p \in Pair |-> IF p[2] \in gone THEN "none" ELSE W[p]]
  /\ O' = {p \in O : p[2] \notin gone}
  /\ freq' = [i \in Id |-> IF i \in gone THEN 0 ELSE freq[i]]
  /\ ts' = Restrict(ts, DOMAIN ts \ gone)

\* OnModelSaveRequest, TrainerShard::Save.  No request is being served: the
\* handler takes no lock, and a push beside it would be a data race.  A
\* worker may have its push still to send.
Save ==
  /\ Running = {}
  /\ IF ExpireThreshold > 0 THEN ExpireTSStore(Expired) ELSE UNCHANGED store
  /\ saved' = [W |-> W', O |-> O', freq |-> freq', ts |-> ts', touched |-> touched]
  /\ UNCHANGED <<now, request, pulls, touched>>

\* The job ends or dies; the next one starts later from the saved files
\* (LoadModel, LoadOptimizer, LoadTSStore, LoadFreqStore).
NewRun ==
  /\ now < MaxNow
  /\ now' \in (now + 1)..MaxNow
  /\ W' = saved.W /\ O' = saved.O /\ freq' = saved.freq /\ ts' = saved.ts
  /\ stage' = [w \in Worker |-> "idle"]
  /\ req' = [w \in Worker |-> {}]
  /\ todo' = [w \in Worker |-> {}]
  /\ kept' = [w \in Worker |-> {}]
  /\ pulls' = 0
  /\ touched' = saved.touched
  /\ UNCHANGED saved

Next ==
  /\ \/ \E w \in Worker :
          \/ \E S \in SUBSET lookups \ {{}} : Pull(w, S)
          \/ CountId(w) \/ FilterPull(w) \/ FetchRow(w) \/ InsertRow(w)
          \/ Push(w) \/ FilterGrad(w) \/ Stamp(w) \/ Update(w) \/ Leave(w)
     \/ Save \/ NewRun
  /\ UNCHANGED setup

Spec == Init /\ [][Next]_vars

-----------------------------------------------------------------------------
(* Properties. *)

TypeOK ==
  /\ threads \in 1..PsThread /\ lookups \in Lookups
  /\ W \in [Pair -> Row] /\ O \subseteq Pair
  /\ freq \in [Id -> 0..FreqMax]
  /\ DOMAIN ts \subseteq Id /\ \A i \in DOMAIN ts : ts[i] \in 1..now
  /\ now \in 1..MaxNow
  /\ stage \in [Worker -> Stages]
  /\ req \in [Worker -> SUBSET Pair] /\ todo \in [Worker -> SUBSET Pair]
  /\ kept \in [Worker -> SUBSET Pair]
  /\ pulls \in 0..MaxPull
  /\ touched \in [Pair -> 0..MaxNow]

\* The frequency filter holds for the model, not just for a request: nothing
\* gets a row, by pull or by push, in this run or an earlier one, while its id
\* has been seen less often than freq_filter_threshold, and a count never
\* falls back under it.
OnlyFrequentRows == \A p \in Rows : Frequent(p[2])

\* The stores agree on what exists, from run to run: an optimizer row or a
\* timestamp belongs to a row of the model (or to a push under way), a row
\* with a gradient in it has both.
StoresAgree ==
  /\ O \subseteq Rows
  /\ \A i \in DOMAIN ts :
       \/ \E p \in Rows : p[2] = i
       \/ \E w \in Running : stage[w] \in {"stamp", "update"} /\ i \in Ids(kept[w])
  /\ \A p \in Rows : W[p] # "init" =>
       p \in O /\ (ExpireThreshold > 0 => p[2] \in DOMAIN ts)

\* With one request at a time, a frequency filter and one table per id, a row
\* that training creates starts from its initializer, though a push creates
\* rows as well: the push of an id the pull left out, or whose row expired in
\* between, finds the row or is filtered itself.
RowsFromInitializer ==
  threads = 1 /\ FreqThreshold > 0 /\ (\A p, q \in lookups : p[2] = q[2] => p = q)
    => \A p \in Rows : W[p] # "raw"

\* What a push has put into a row stays there until a save expires the row or
\* the process ends: no pull starts the row afresh.
GradientsStay ==
  [][\A p \in Rows : W[p] # "init" /\ W'[p] # W[p] => Save \/ NewRun]_vars

\* With one request at a time that is so.
TrainedStays ==
  [][threads = 1 => \A p \in Rows : W[p] # "init" /\ W'[p] # W[p] => Save \/ NewRun]_vars

\* Expiry never takes a row that was updated within expire_threshold, whatever
\* happened to other rows of the same id.
FreshRowsSurvive ==
  [][\A p \in Rows : W[p] # "init" /\ Save /\ W'[p] = "none"
       => now > ExpireThreshold + touched[p]]_vars
=============================================================================
