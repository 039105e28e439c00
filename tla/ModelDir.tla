------------------------------ MODULE ModelDir ------------------------------
(***************************************************************************)
(* Model directories: what training jobs leave on disk and what the next   *)
(* job, with more or fewer shards, makes of it.  A job loads a model (or   *)
(* starts from nothing), may be warmed up with a second one, trains, and   *)
(* saves every shard file by file; it may die at any point of the save.    *)
(*                                                                         *)
(* One sparse table.  Of a row only the run that last trained it is kept;  *)
(* of a count, whether it has reached freq_filter_threshold.  A file that  *)
(* is missing and one that is cut off are the same to the code: Open or    *)
(* Read fails.  The shards of a job save in any order and nobody reads the *)
(* directory before they are done or dead, so a save is one step, which    *)
(* says of each shard how far it got.                                      *)
(* Left out: dense parameters, the legacy formats, text and feature_kv     *)
(* files, graph.bin (written and read right before shard.bin) and          *)
(* directories of models that are not sharded.                             *)
(***************************************************************************)
EXTENDS Naturals, FiniteSets, Functions, FiniteSetsExt

CONSTANTS Dir, NoDir,
          FeatureId,        \* feature ids, numbers
          ZeroId,           \* ids whose weights training makes 0
          MaxShard,         \* bound: shards of a job
          RemoveZeros,      \* FLAGS_out_model_remove_zeros
          ExpireThreshold,  \* FLAGS_ts_expire_threshold
          MaxRun,           \* bound: jobs; the last one is only started
          MaxCrash,         \* bound: jobs that die in a save
          MaxCut            \* bound: shards that such a save leaves incomplete

\* What the constants may be.
DirConstants ==
  /\ NoDir \notin Dir
  /\ FeatureId \subseteq Nat /\ ZeroId \subseteq FeatureId
  /\ MaxShard \in Nat \ {0} /\ RemoveZeros \in BOOLEAN
  /\ ExpireThreshold \in Nat /\ MaxRun \in Nat /\ MaxCrash \in Nat /\ MaxCut \in Nat

VARIABLES
  dir,      \* the files of each directory
  job,      \* the job that runs: its flags, or the record NoJob
  mem,      \* what each shard of the job holds
  run,      \* jobs that have got past their Init
  crashes,  \* saves that were cut off (bound)
  origin    \* history: what each directory holds, and the job that saved it

dirVars == <<dir, job, mem, run, crashes, origin>>

Shards == 0..(MaxShard - 1)

\* FLAGS_ts_now of a run: more than a unit after the one before.
TsNow(r) == 2 * r

NoMap == [x \in {} |-> 0]

\* A file: whether it can be read, and the map in it.
Unreadable == [ok |-> FALSE, data |-> NoMap]
Written(m) == [ok |-> TRUE, data |-> m]

\* size: shard_size in shard.bin, 0 if that cannot be read.
EmptyDir == [size |-> 0,
             model |-> [i \in Shards |-> Unreadable],
             optimizer |-> [i \in Shards |-> Unreadable],
             ts |-> [i \in Shards |-> Unreadable],
             freq |-> [i \in Shards |-> Unreadable]]

Blank == [model |-> NoMap, optimizer |-> NoMap, ts |-> NoMap, freq |-> NoMap]

NoJob == [size |-> 0, in |-> NoDir, warm |-> NoDir, out |-> NoDir, stores |-> FALSE,
          clean |-> FALSE, warmed |-> FALSE]

\* What has been written to a directory: nothing, one save (cut off or
\* complete) of the whole model, or files that do not belong together.
Nothing == [what |-> "nothing"]
Mixed == [what |-> "mixed"]

\* DefaultShardFunc::SRMShardFunc, HasSRM
Own(i, n) == {x \in FeatureId : x % n = i}

\* emplace: what is there stays.
Emplace(local, remote) ==
  [x \in DOMAIN local \cup DOMAIN remote |->
     IF x \in DOMAIN local THEN local[x] ELSE remote[x]]

Only(m, S) == Restrict(m, DOMAIN m \cap S)

-----------------------------------------------------------------------------
(* Loading. *)

\* Mutant: the shards are merged without HasSRM.
MergedAll(files, m, S) ==
  LET all == UNION {DOMAIN files[j].data : j \in 0..(m - 1)}
      first(x) == Min({j \in 0..(m - 1) : x \in DOMAIN files[j].data})
  IN [x \in all |-> files[first(x)].data[x]]

\* The files of m shards merged one after the other, ids outside S left out.
Merged(files, m, S) ==
  LET all == S \cap UNION {DOMAIN files[j].data : j \in 0..(m - 1)}
      first(x) == Min({j \in 0..(m - 1) : x \in DOMAIN files[j].data})
  IN [x \in all |-> files[first(x)].data[x]]

\* Mutant: shards of any number are read as they are.
ReadAsIs(d, kind, i, n) == dir[d][kind][i]

\* LoadModel, LoadOptimizer, LoadTSStore, LoadFreqStore for shard i of n:
\* GetShardStatus says whether the own file will do (1), or all the files
\* there are have to be merged (0).
Read(d, kind, i, n) ==
  LET m == dir[d].size IN
  IF m = n THEN dir[d][kind][i]
  ELSE IF \A j \in 0..(m - 1) : dir[d][kind][j].ok
    THEN Written(Merged(dir[d][kind], m, Own(i, n)))
    ELSE Unreadable

\* LoadModel and LoadOptimizer must succeed on every shard.
Loadable(d, n) ==
  /\ dir[d].size > 0
  /\ \A i \in 0..(n - 1) : Read(d, "model", i, n).ok /\ Read(d, "optimizer", i, n).ok

\* A store that cannot be loaded is made up from the rows (InitTSStore,
\* InitFreqStore): all of them are as of now, all of them are frequent.
StoreOr(f, m, v) == IF f.ok THEN f.data ELSE [x \in DOMAIN m |-> v]

\* Init of a param server or of a TrainerShard, one shard.
LoadShard(d, i, n, stores, now) ==
  LET m == Read(d, "model", i, n).data IN
  [model |-> m,
   optimizer |-> Read(d, "optimizer", i, n).data,
   ts |-> IF stores THEN StoreOr(Read(d, "ts", i, n), m, now) ELSE NoMap,
   freq |-> IF stores THEN StoreOr(Read(d, "freq", i, n), m, "many") ELSE NoMap]

\* Mutant: the warm-up replaces what is there.
WarmOver(s, d, i, n, stores) ==
  LET read(kind) == Read(d, kind, i, n).data IN
  [model |-> Emplace(read("model"), s.model),
   optimizer |-> Emplace(read("optimizer"), s.optimizer),
   ts |-> IF stores THEN Emplace(read("ts"), s.ts) ELSE s.ts,
   freq |-> IF stores THEN Emplace(read("freq"), s.freq) ELSE s.freq]

\* WarmupModel, WarmupOptimizer, WarmupTSStore, WarmupFreqStore of a shard
\* that holds s.
Warm(s, d, i, n, stores) ==
  LET read(kind) == Read(d, kind, i, n).data IN
  [model |-> Emplace(s.model, read("model")),
   optimizer |-> Emplace(s.optimizer, read("optimizer")),
   ts |-> IF stores THEN Emplace(s.ts, read("ts")) ELSE s.ts,
   freq |-> IF stores THEN Emplace(s.freq, read("freq")) ELSE s.freq]

\* All four must succeed: the warm-up makes nothing up.
Warmable(d, n, stores) ==
  /\ Loadable(d, n)
  /\ stores => \A i \in 0..(n - 1) : Read(d, "ts", i, n).ok /\ Read(d, "freq", i, n).ok

\* The shards of a job with flags j after Init, the directories being as they are.
Initialized(j) ==
  [i \in 0..(j.size - 1) |->
     LET s == IF j.in = NoDir THEN Blank
              ELSE LoadShard(j.in, i, j.size, j.stores, TsNow(run + 1))
     IN IF j.warm = NoDir THEN s ELSE Warm(s, j.warm, i, j.size, j.stores)]

-----------------------------------------------------------------------------
(* Jobs. *)

\* d holds one save, cut off or complete.
OneSave(d) == origin[d].what \in {"part", "complete"}

\* A job starts.  A stand-alone trainer first moves an old out_model out of
\* the way; a distributed job writes into it.  History: whether it is clean, as
\* all it loads is of one save, and warmed, by itself or before it was saved.
Start(j, trainer) ==
  /\ job = NoJob /\ run < MaxRun
  /\ ~(trainer /\ j.out \in {j.in, j.warm})      \* nothing left to load
  /\ j.in # NoDir => Loadable(j.in, j.size)
  /\ j.warm # NoDir => Warmable(j.warm, j.size, j.stores)
  /\ job' = [j EXCEPT
       !.clean = \A d \in {j.in, j.warm} \ {NoDir} : OneSave(d),
       !.warmed = j.warm # NoDir \/ \E d \in {j.in} \ {NoDir} : OneSave(d) /\ origin[d].warmed]
  /\ mem' = Initialized(j)
  /\ run' = run + 1
  /\ dir' = IF trainer THEN [dir EXCEPT ![j.out] = EmptyDir] ELSE dir
  /\ origin' = IF trainer THEN [origin EXCEPT ![j.out] = Nothing] ELSE origin
  /\ UNCHANGED crashes

\* Batches: the rows of Often are trained, the ids of Rarely are seen, and
\* counted, but not often enough for a row.
Train(Often, Rarely) ==
  /\ job # NoJob /\ run < MaxRun
  /\ mem' = [i \in DOMAIN mem |->
       LET now(S, v) == [x \in S \cap Own(i, job.size) |-> v] IN
       [model |-> Emplace(now(Often, run), mem[i].model),
        optimizer |-> Emplace(now(Often, run), mem[i].optimizer),
        ts |-> IF job.stores THEN Emplace(now(Often, TsNow(run)), mem[i].ts) ELSE NoMap,
        freq |-> IF job.stores
                   THEN Emplace(Emplace(now(Often, "many"), mem[i].freq), now(Rarely, "few"))
                   ELSE NoMap]]
  /\ UNCHANGED <<dir, job, run, crashes, origin>>

\* What shard i saves: RemoveZerosSRM (the rows of the model alone), then
\* ExpireTSStore (everything).
ToSave(i) ==
  LET s == mem[i]
      gone == {x \in DOMAIN s.ts : ExpireThreshold > 0 /\ TsNow(run) > ExpireThreshold + s.ts[x]}
      zeros == IF RemoveZeros THEN ZeroId ELSE {}
  IN [model |-> Only(s.model, FeatureId \ (zeros \cup gone)),
      optimizer |-> Only(s.optimizer, FeatureId \ gone),
      ts |-> Only(s.ts, FeatureId \ gone),
      freq |-> Only(s.freq, FeatureId \ gone)]

\* The files in the order they are written; shard.bin is written by shard 0.
Order == <<"size", "model", "optimizer", "ts", "freq">>
Place(kind) == CHOOSE k \in DOMAIN Order : Order[k] = kind
First(i) == IF i = 0 THEN 0 ELSE 1
LastFile == IF job.stores THEN 5 ELSE 3

\* The file of a kind after a save in which shard i has written the files up to
\* done[i] and, if it is in torn, been cut off in the next.
Saved(old, kind, i, done, torn) ==
  IF i \notin DOMAIN mem THEN old
  ELSE IF Place(kind) <= done[i] THEN Written(ToSave(i)[kind])
  ELSE IF i \in torn /\ Place(kind) = done[i] + 1 THEN Unreadable
  ELSE old

\* Trainer::Save and TrainerShard::Save, or OnModelSaveRequest on every
\* param server; complete or cut off.  Then the job is over.
Save(done, torn) ==
  LET out == dir[job.out]
      file(kind) == [i \in Shards |-> Saved(out[kind][i], kind, i, done, torn)]
      complete == \A i \in DOMAIN mem : done[i] = LastFile
      nothing == torn = {} /\ \A i \in DOMAIN mem : done[i] = First(i)
      stale == ~job.stores /\ \E i \in Shards : out.ts[i].ok \/ out.freq[i].ok
      whole(kind) == [x \in UNION {DOMAIN ToSave(i)[kind] : i \in DOMAIN mem} |->
                        ToSave(x % job.size)[kind][x]]
      this(what) == [what |-> what, stores |-> job.stores, warmed |-> job.warmed,
                     model |-> whole("model"), optimizer |-> whole("optimizer"),
                     ts |-> whole("ts"), freq |-> whole("freq")]
  IN
  /\ job # NoJob /\ run < MaxRun
  /\ \A i \in torn : done[i] < LastFile
  /\ IF complete THEN UNCHANGED crashes
     ELSE crashes < MaxCrash /\ crashes' = crashes + 1
  /\ dir' = [dir EXCEPT ![job.out] =
       [size |-> IF done[0] >= 1 THEN job.size ELSE IF 0 \in torn /\ done[0] = 0 THEN 0
                 ELSE out.size,
        model |-> file("model"), optimizer |-> file("optimizer"),
        ts |-> file("ts"), freq |-> file("freq")]]
  /\ origin' = [origin EXCEPT ![job.out] =
       IF nothing THEN @
       ELSE IF ~job.clean THEN Mixed
       ELSE IF complete THEN IF stale THEN Mixed ELSE this("complete")
       ELSE IF @ = Nothing THEN this("part") ELSE Mixed]
  /\ job' = NoJob /\ mem' = NoMap
  /\ UNCHANGED run

DirInit ==
  /\ dir = [d \in Dir |-> EmptyDir]
  /\ job = NoJob /\ mem = NoMap
  /\ run = 0 /\ crashes = 0
  /\ origin = [d \in Dir |-> Nothing]

Flags == [size : 1..MaxShard, in : Dir \cup {NoDir}, warm : Dir \cup {NoDir}, out : Dir,
          stores : BOOLEAN, clean : {TRUE}, warmed : {FALSE}]

\* Bound: the last job's out_model is not looked at.
InPlaceIfLast(j, trainer) ==
  run + 1 = MaxRun => ~trainer /\ (j.in # NoDir => j.out = j.in)

\* How far the shards of a save get.
Progress ==
  {done \in [DOMAIN mem -> 0..LastFile] :
     /\ \A i \in DOMAIN mem : done[i] >= First(i)
     /\ Cardinality({i \in DOMAIN mem : done[i] < LastFile}) <= MaxCut}

\* Bound: every id that a batch does not train it sees.
DirNext ==
  \/ \E j \in Flags, trainer \in BOOLEAN : InPlaceIfLast(j, trainer) /\ Start(j, trainer)
  \/ \E Often \in SUBSET FeatureId \ {{}} : Train(Often, FeatureId \ Often)
  \/ \E done \in Progress, torn \in SUBSET DOMAIN mem : Save(done, torn)

DirSpec == DirInit /\ [][DirNext]_dirVars

-----------------------------------------------------------------------------
(* Properties. *)

Whole(m, kind, n) == [x \in UNION {DOMAIN m[i][kind] : i \in 0..(n - 1)} |->
                        m[CHOOSE i \in 0..(n - 1) : x \in DOMAIN m[i][kind]][kind][x]]

\* What n shards would load from d.
Restart(d, n) == [i \in 0..(n - 1) |-> LoadShard(d, i, n, TRUE, TsNow(run + 1))]

\* Nothing is lost, invented or mixed up between two jobs, whatever their
\* numbers of shards: from a directory that one save has filled, the next job
\* gets every row and every optimizer row of that save, and its timestamps and
\* counts; if the save was cut off it gets all the rows, each with its timestamp
\* and its count or with made-up ones under which it is neither stale nor rare,
\* or it refuses.
RestartIsFaithful ==
  job = NoJob => \A d \in Dir, n \in 1..MaxShard :
    LET o == origin[d]
        m == Restart(d, n)
    IN /\ o.what = "complete" => Loadable(d, n)
       /\ OneSave(d) /\ Loadable(d, n) =>
            /\ Whole(m, "model", n) = o.model
            /\ Whole(m, "optimizer", n) = o.optimizer
            /\ o.what = "complete" /\ o.stores =>
                 Whole(m, "ts", n) = o.ts /\ Whole(m, "freq", n) = o.freq
            /\ \A x \in DOMAIN o.model :
                 /\ \/ Whole(m, "ts", n)[x] = TsNow(run + 1)
                    \/ o.stores /\ Whole(m, "ts", n)[x] = o.ts[x]
                 /\ \/ Whole(m, "freq", n)[x] = "many"
                    \/ o.stores /\ Whole(m, "freq", n)[x] = o.freq[x]

\* No id is in the hands of two shards, or of one that it is not sent to:
\* loading, merging and warming up leave each shard with ids of its own.  A row
\* and its optimizer row come from the same training, through restarts,
\* changes of the number of shards, cut-off saves and warm-ups, unless zeros
\* are removed from the model only; with the stores on, every row has a
\* timestamp and a count, which is not small if nothing was ever warmed up.
RowsAreWhole ==
  job # NoJob /\ job.clean =>
    \A i \in DOMAIN mem : LET s == mem[i] IN
      /\ \A kind \in {"model", "optimizer", "ts", "freq"} : DOMAIN s[kind] \subseteq Own(i, job.size)
      /\ \A x \in DOMAIN s.model :
           /\ ~(RemoveZeros /\ x \in ZeroId) =>
                x \in DOMAIN s.optimizer /\ s.optimizer[x] = s.model[x]
           /\ job.stores => x \in DOMAIN s.ts /\ x \in DOMAIN s.freq
           /\ job.stores /\ ~job.warmed => s.freq[x] = "many"

\* A warm-up adds what the job does not have and leaves alone what it has.
WarmupOnlyAdds ==
  [][job = NoJob /\ job' # NoJob /\ job'.clean /\ job'.in # NoDir =>
       LET o == origin[job'.in] IN
       \A x \in DOMAIN o.model :
         LET s == mem'[x % job'.size] IN
         x \in DOMAIN s.model /\ s.model[x] = o.model[x]]_dirVars
=============================================================================
