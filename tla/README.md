# deepx_core in TLA+

deepx_core is a C++ training library for sparse ranking models, with a
distributed trainer made of a coord server, workers and parameter servers. This
directory holds TLA+ models of the parts of it in which the order of events
decides whether the result is right, TLC configurations that check the models
on small instances, and proofs, checked by TLAPS, for all instances.

Paths below are relative to the repository.

1. [The system](#1-the-system) 2. [Modules](#2-modules) 3. [Runs](#3-runs)
4. [Fairness](#4-fairness) 5. [Proofs](#5-proofs) 6. [Where code and documentation disagree](#6-where-code-and-documentation-disagree)
7. [What is not modelled](#7-what-is-not-modelled) 8. [Plan](#8-plan) 9. [Running it](#9-running-it)

## 1. The system

| Component | State it keeps | Operations | Hard because |
|---|---|---|---|
| `FileDispatcher` (`src/ps/file_dispatcher.cc`) | files of the epoch: waiting, in flight with dispatch time, finished | PreTrain, PreEpoch, dispatch, finish, failure | timeouts race with late finishes and stale failures; the end of the epoch must be seen exactly once |
| `CoordServer` (`src/ps/coord_server.cc`) | epoch, connections and the file each holds | Run: epochs of an I/O loop, then save request and termination to all parameter servers | connections vanish with the loop of an epoch; a lost connection hands its file back |
| `ParamServer`, `RankParamServer` (`src/ps/param_server.cc`, `example/rank/dist_server.cc`) | a `ModelShard`, per-connection session data | pull, push, save, terminate, on one or several threads | requests interleave inside the shard; pushes have no answer |
| worker (`example/rank/dist_worker.cc`) | current file and epoch, connections | ask, train (pull and push per batch), notify, reconnect | three kinds of connections with no order among them; it must find out by itself that training is over |
| `TcpConnection`, `TcpServer` (`src/ps/tcp_*.cc`) | input buffer with offset and count, output stream | frame, read, write, connect | messages come in arbitrary pieces, or several at once; a connection object is used again |
| `ThreadPool`, `TrainerContextShard` (`src/common/thread_pool.cc`, `example/rank/trainer_context.cc`) | task list, wait token | post, stop, wait for completion | one counter is used again for every phase; wake-ups |
| `ReadWriteLock` (`include/deepx_core/common/read_write_lock.h`) | reader count or -1, waiting writers | lock_read, lock_write, unlock | lost wake-ups, starvation |
| `ModelShard`, `Model`, `FreqStore`, `TSStore`, `SparseRowMatrix` (`src/graph/`, `include/deepx_core/tensor/`) | rows, optimizer rows, id counts, id timestamps | pull, push, expire, save, load, merge, warm-up | a request is many critical sections; four tables must agree across saves, crashes in a save, other numbers of shards and warm-ups |
| `OLStore` (`src/graph/ol_store.cc`) | count of updates and last collected value per row | update, collect, save | it is not told of rows that go, and forgets what it collected even if the file fails |
| `HashMap` (`include/deepx_core/common/hash_map.h`) | slots with marks, size, threshold | find, emplace, erase, clear, rehash | erased slots are marked, not emptied, and a probe ends only at an empty one |
| `InstanceReader`s, `TrainFile` (`src/graph/instance_reader/`, `include/deepx_core/instance/`, `example/rank/trainer_context.cc`) | position in the file, tensors of the batch, operators set up for a batch | read a batch, train or predict it | a line may turn out malformed after half of it is stored; the last batch is short |
| `Graph`, `SimpItem`, `CSESimp`, `OpContext` (`src/graph/`) | nodes, targets, chains of operators | create, simplify, compile, InitOp | several walks over a graph with shared nodes; nodes are merged while the walk goes on |
| optimizer formulas, kernels, tensors, streams, strings | sequential data | | arithmetic, parsing, I/O |

How they interact: trainer threads (or, in a distributed job, workers through the
coord server) take files from a `FileDispatcher`. For each batch a worker sends
a pull to every parameter server concerned, waits for the responses, computes
the gradient and sends a push, which is not answered. The parameter server's
`TcpServer` calls back into `ModelShard` from its I/O threads. In the
single-process sharded trainer the same calls are tasks of a `ThreadPool` per
shard, and a wait token takes the place of the responses. When all epochs are
over, the coord server asks every parameter server to save, waits for all
responses, and tells all of them to stop.

What makes each part correct:

- dispatcher: no file lost, none queued twice, an epoch ends when and only when
  all is done, a file changes hands only when it is late;
- distributed job: the books of the coord server agree with what workers do, all
  shards are saved before any server stops, the job ends;
- lock: exclusion, honest counters, nobody sleeps through their turn;
- shard: rare ids get no rows, trained rows stay, expiry takes the stale rows
  and nothing else, and the tables agree;
- pools: a wait ends only when all tasks of its phase have run;
- channel: bytes reach their message in order, and the buffer always has room
  and stays small;
- model directories: the next job gets what the last one saved, whole, or refuses;
- online-learning store: who reads the files it asks for stays close to the shard;
- hash table: it answers as a map; reader: a row holds one line, and every good
  line is trained once; graph: inputs come before the nodes that need them, and
  simplification changes no result.

`PROJECT.json` lists all components (the ones not modelled too), and under
"hazards" what in this code a test hardly reaches, each with its line and the
properties that watch it.

## 2. Modules

```
WorkEpochs  <-- implements --  FileDispatcher  <-- implements --  DistTraining
(promise)                      (the table)       (coord server, workers, param servers)

ModelShard (what a param server or a trainer does to its shard)
   uses ReadWriteLock (its critical sections)
ModelDir   (what jobs leave on disk and load again)
OLStore    (which ids a serving system should get)
PartialMap <-- implements -- HashMap (the table under the rows)
ShardPools (how the sharded trainer calls the shard)   TcpChannel (how messages travel)
InstanceReader (lines, batches, operators)             Graph (nodes, chains)
```

`MCFileDispatcher`, `MCDistTraining` and `MCModelShard` extend the modules with
symmetry sets for TLC. `MCProcess` (`ShardPools`, `TcpChannel`) and `MCLocal` (`ModelDir`,
`HashMap`, `OLStore`, `InstanceReader`, `Graph`) put together several components that
share nothing, one per behaviour: `part` says which, and the variables of the others
keep their initial values, so the state space is the sum and not the product of theirs.
They extend the components,
which is why the initial predicates, next-state relations and specifications of these
components carry prefixes: `PoolsSpec`, `ChannelSpec`, `DirSpec`, `HashSpec`, `OLSpec`, `ReaderSpec`,
`GraphSpec`.

Proofs are in `FileDispatcherProofs`, `DistTrainingProofs`, `ThreadProofs` (`ReadWriteLock` and
`ShardPools`), `ModelShardProofs`, `TcpChannelProofs`, `ModelDirProofs`, `LocalProofs`
(`HashMap`, `OLStore` and `InstanceReader`) and `GraphProofs`. Definitions marked "Mutant" are plausible
mistakes in the code; putting one in place of the definition after it makes a
property fail, which shows that the property watches that code (`PROJECT.json`,
"mutants").

**WorkEpochs** is the promise to whoever starts a training: epochs come one after
the other, in each every file is processed at least once, and it is closed only
then.

**FileDispatcher**. Every method holds `mutex_` throughout, so a method is one
action. `files`, `to_dispatch`, `dispatch_time`, `finished` are the members of the
class (of `finished_` the code uses only the size, and against a bound).
`holding`, `phase` and `epoch` belong to the callers, the trainer or the coord
server. `dispatch_time_` is kept as an age, which `Tick` raises up to one tick over
the timeout; ages beyond that are not told apart by the code.
`WorkerDispatchFile` is `DispatchFront` or `DispatchTimedOut`; the latter has both turns of
the `for (;;)` loop, which happen under one lock.

**DistTraining** instantiates `FileDispatcher` and adds messages and processes. A
connection to the coord server is two FIFO queues (`toCS`, `toWK`) and a state
(`link`). The coord server's loop has one thread, so a handler is one action;
`phase = "over"` is `StopLoop`, after which the running `OnRead` still handles what it has
buffered (`inread`). `CsBeginEpoch` is the new `IoContext`, which drops the old
connections. A worker's step is a piece of `TrainerDist::Train` or `Predict` between two
messages. Its pulls and pushes are one step per file (`WkTrainFile`), and
`pushes` keeps which servers have not handled the last push. `is_train` is chosen at
the start: a prediction job has one epoch, pushes nothing and is not saved. Workers may
crash at any step, and so may the parameter servers in `Frail`; `CsAbort` is the
`DXCHECK_THROW` that ends the coord server when one is gone, after some of the others
may have been asked to save or to stop. `saved` is a history variable.

**ReadWriteLock** has one action per call, split where the call waits on a
condition variable. Threads call what they like when they like. Wake-ups may be
spurious.

**ModelShard** follows a request through `ModelShard::Pull` and `Push`, one action
per critical section: counting an id, filtering a row, looking a row up under
the read lock, inserting it under the write lock, stamping the ids of one table,
updating a row. `threads` is chosen at the start: with one, one request runs at a time,
which is a server with one thread or the task pool of a shard; with more, requests
interleave as they do after `InitLock`. `lookups` says which rows batches look up. `Save` is `OnModelSaveRequest`, `NewRun` a restart from the saved files
at a later `ts_now`. Of a row the model keeps how it came about and whether a
gradient is in it; `touched` is a history variable.

**ShardPools** has the shards' pools, the trainer threads and the main thread. A
step is a critical section of a mutex, or the work between two. `post` pushes
under the mutex and notifies after it, hence `Post` and `Notify`.

**TcpChannel** is one connection byte by byte. A byte is its message and its place
in it, so that a frame that starts at the wrong place is seen. `GetInBuf`,
`TryReadMessage` (`Incomplete`, `ReadMessage`, `Garbage`) and the `OnRead`/`OnWrite` loop are
translated; asio is what moves some of the bytes.

**ModelDir** has the directories, file by file, and one job at a time. `Start` is
the `Init` of a parameter server or of the stand-alone trainers, with `in_model` and
`warmup_model` or without: `Read` decides like `GetShardStatus` whether the own file
will do or all files are merged (`Merged`), `StoreOr` makes up a store that cannot be
loaded, `Warm` merges a second model into the first. `Save` writes each shard's files
in the code's order and may be cut off in any of them, each shard's at its own place (`Progress`); `MaxCut`
bounds how many shards one save leaves incomplete. Of a row only the job that
trained it last is kept, of a count whether it reached the threshold. `origin` is a
history variable: the contents one save put (or began to put) into a directory (`OneSave`), or
that it is a mixture of two. So are `clean` (all that a job loaded is of one save) and `warmed` (it was
warmed up, or what it loaded comes from a job that was).

**OLStore** has the rows of a shard, the store's counts and copies, and what the files
written so far say (`out`). Nothing in the repository creates such a store outside
the library; the model assumes that the serving system starts with what the job
loaded (`InitParam` copies the same), and that rows go by `ExpireTSStore` and
`RemoveZerosSRM`.

**HashMap** has the marks, the slots and the threshold; a call is an action, and one
whose probe finds neither its key nor an empty slot sets `stuck`, after which nothing
happens. A slot that is erased or cleared keeps its key and value behind its mark, as in the code. **PartialMap** is what it promises: `find`, `emplace` and assignment answered from a
partial function.

**InstanceReader** reads a file of lines of which each may be malformed at any tensor, with or
without a feature stored before the parser notices, through `GetBatch` into the
tensors, and runs `TrainFile`/`PredictFile` with `InitOp`, `InitForward` and the rest. A
feature is the number of its line, so that a value in a wrong row is seen.

**Graph** creates any graph of a few nodes, names one or two targets, may run the
common subexpression pass, compiles and makes the chains. A loop of the code is `Along` a sequence of
steps, a function of what the loop carries (`Listed` in the topological sort, `Turn` in the pass, `Once` in
`InitOp`); the recursive `CompileTarget` is a function of the depth (`Visit`).

## 3. Runs

| Run | Question | Bounds |
|---|---|---|
| `dispatcher` | `OnePlace`, `NoFileLost`, `EpochEnd`, `NoEarlyTakeover`, `WorkSpec` (refinement), and `EpochsFinish` although a worker may hang for ever | 2 files, 3 workers, 2 shuffled epochs, 2 failures, timeout of 1 tick |
| `dist_safe` | without a timeout, as `dist_trainer` configures it: `FileOnTheBooks`, `AllSavedBeforeStop`, `PredictionExits` | 2 files, 2 workers, 2 servers of several threads, 2 epochs, 1 crash of a worker or of one server; training or prediction |
| `dist_live` | with a timeout: `DispatcherSpec` (the composition implements `FileDispatcher`) and `JobEnds` | 2 files, 2 workers, 1 server, 2 epochs, 1 crash, timeout of 1 tick |
| `lock` | `Exclusion`, `CountsHonest`, `NoLostWakeup`, `WritersNotStarved`, `ReadersFollow`, no deadlock | 4 threads |
| `shard` | `OnlyFrequentRows`, `StoresAgree`, `RowsFromInitializer`, `TrainedStays` (one thread), `FreshRowsSurvive` | 1 or 2 server threads, 2 tables sharing an id or 1 table, 2 workers, 3 runs, threshold 2, counts up to 3, timestamps up to the largest that does not wrap round |
| `process` | pools: `TokenHonest`, `PhasesComplete`, `TrainingEnds`; channel: `InOrder`, `BufferFits`, `CallsReturn` | 2 shards, 2 trainer threads, 2 batches; 2 calls on each of 2 connections, the first broken anywhere, header of 2 bytes, messages of 2 or 5, buffer of 4, large from 7 on |
| `local` | directories: `RestartIsFaithful`, `RowsAreWhole`, `WarmupOnlyAdds`; table: `MapSpec`, `LookupsEnd`; store: `ConsumerFollows`; reader: `RowsAreLines`, `EachLineOnce`; graph: `TargetsKeepMeaning`, `OnePassIsEnough`, `ChainsInOrder` | 2 directories, 2 ids, 1 or 2 shards, 3 jobs (the last only started), 1 save cut off, in one shard or both; 3 keys, 2 of which probe the same slots, tables of 2, 4 and 8 slots; 2 tables, values 0 to 3, thresholds of 2 updates and a distance of 1; batches of 2, 2 files of up to 3 lines; 5 nodes |
| `dist_last_epoch`, `shard_reinit`, `channel_reuse`, `hash_full`, `cse_dropout` | counterexamples, section 6 | the smallest that show them |

`InOrder`, `BufferFits` and `CallsReturn` speak of a connection object used for the first
time; what happens to one used again is `channel_reuse`. Likewise `LookupsEnd` says when
alone a lookup can fail to end, and `hash_full` that it does.

Why these bounds are enough for the cases that matter: two files are the least
for which one waits while the other is in flight; a third worker makes two
take-overs of the same file possible; a second epoch shows what is left over from
the first; a timeout of one tick has all three kinds of age (new, within, over). Two
parameter servers are the least of which one may be ahead. Four threads give the
lock two readers and two writers. Three runs let a row be created, aged and
expired with a save between; a count limit one above the threshold reaches
saturation. Two batches use the token four times, twice for each phase. A message
of five bytes and a buffer of four force doubling, twice when a message lies
behind another, and cutting back above seven. Two directories are the least for a
warm-up beside a load, and two shards for merging (1 to 2 and 2 to 1); the third job shows
what a crash in the second left. Four slots with a threshold of two and three entries give every
mixture of used, erased and empty slots, rehashes in both directions, and two keys that share
their probe. Two embeddings per id are the least for which one is written because of
the other. Values up to 3 and a step of 3 are what leaves twice the distance threshold in one
update, so that nothing but the distance test of `Collect` reports the row, and a step of 2 reaches the bound itself.
Three lines fill a batch of two and leave a short one; two files show what is left
of the first. Five nodes are the least for two expressions over
two inputs each that are equal only after their inputs were merged. Deadlock is not checked
where the system ends (all but the lock).

Bounds that cut behaviour off are constants: `MaxEpoch` and `Batches` (given to the
program), `MaxFailure`, `MaxCrash`, `Frail`, `MaxPull`, `MaxNow`, `MaxMessages`, `MaxConnections`, `MaxRun`, `MaxCut`, `MaxSize`,
`MaxValue`, `MaxLine`, `MaxFile`, `MaxNode`.

## 4. Fairness

- `FileDispatcher`: the owner starts its epochs, the clock runs, and workers
  outside `Hung` ask and finish. `Hung` is a set of workers that may stop for ever; it is
  nonempty only with a timeout, because without one the code waits for ever too.
- `DistTraining`: weak fairness for each process that is not blocked, and for
  noticing a closed socket, which the kernel reports. Crashes are not fair. `JobEnds`
  allows a worker to end by an assertion (section 6).
- `ReadWriteLock`: whoever is awake gets the mutex, and a holder leaves. Nobody has to
  call, and a wake-up without a notification is never counted on.
- `ShardPools` (stated in `MCProcess`): the same. A spurious wake-up has no fairness, so a lost
  one would show.
- `TcpChannel` (stated in `MCProcess`): sockets bring bytes and threads run. A break is never promised.
- The parts of `MCLocal` are one thread each and are checked for safety only; a lookup that does not
  end is a state (`stuck`).

## 5. Proofs

From the assumptions on the constants only: finitely many files, at least one,
other than `NoFile`, and natural numbers for the bounds (`DispatcherAssumption`, `DistAssumption`, the latter
with finitely many workers and at least one epoch); finitely many threads (`ThreadAssumption`); finitely many
tables, ids and server threads, and natural numbers for thresholds and widths (`ShardAssumption`). The
modules that `MCProcess` and `MCLocal` put together say what they ask of their constants in an operator
that is a hypothesis of each of their theorems, and the module of the run assumes it, so that TLC evaluates it:
at least one shard and finitely many contexts (`PoolsConstants`); a header and a first buffer of at least
a byte, and messages no shorter than the header (`ChannelConstants`); `NoDir` is no directory, and natural
numbers for the bounds (`DirConstants`); a natural hash for every key, no key and no value that means "none", and
at least two slots in the smallest table (`HashMapConstants`); natural thresholds and integer gradients
(`OLConstants`); a batch of at least one line (`ReaderConstants`); kinds of node among the six that are told apart
(`GraphConstants`).

**FileDispatcherProofs**. `NoFileLost` and `OnePlace` are close to inductive but `EpochEnd`
is not: that nothing is queued and the size is reached implies that everything
is finished only together with `NoFileLost`, and conversely that an open epoch has something
queued needs that the size counted so far is at least the number of finished
files (`SizeCounts`: notifications are counted, not files, so it may be more). Before the
first epoch nothing is queued (`IdleEmpty`). The invariant is

    IInv == TypeOK /\ OnePlace /\ NoFileLost /\ EpochEnd /\ SizeCounts /\ IdleEmpty

with one lemma per action, and lemmas about orders, `Tail` and `Append` under them. From
it follow `TypeCorrect`, `FilesAreKept`, `FilesInOnePlace`, `EpochEndsComplete`, the action property `TakeoverIsLate`,
and `Implements`: under the mapping that forgets the tables every step is a step of `WorkEpochs`
or a stutter. `ExclusiveWithoutTimeout` is inductive relative to `IInv`; the
same formula is a part of `FileOnTheBooks`, which `dist_safe` checks and `DistTrainingProofs` proves for the
whole distributed job.

**DistTrainingProofs**. `FDP == INSTANCE FileDispatcherProofs` makes everything above available to the job as
soon as its steps are known to be steps of `FileDispatcher`. That needs what the handlers of the coord
server rely on: a file that a worker reports is the one its connection holds, and nothing is
asked once the epoch is over. The invariant

    IInv == Typed /\ (\A w \in Worker : Conn(w)) /\ OverInv /\ failures <= Cardinality(Lost)

lists in `Conn` the conversations that a worker and the coord server can be having, by the state of the link:
what may lie in each queue, what the session says and what the worker is doing. `OverInv`
says that once the epoch is over nothing is queued or in flight, and that only the `OnRead` that noticed
it goes on, with empty hands. A worker dies once, so the failures of the dispatcher are bounded by the number
of workers. From it follow `Implements` (`DispatcherSpec`), `JobKeepsFiles` by way of the refinement,
`FilesOnTheBooks` (for its part about `Timeout = 0`, `BookInv` relates the sessions to `holding`), `SavedBeforeStop` (`SaveInv` follows
the request, the answer and the termination of each server through the stages) and `PredictionEnds`.

**ThreadProofs, the lock**. The conjunction of the safety properties is inductive,

    LockInv == TypeOK /\ Exclusion /\ CountsHonest /\ NoLostWakeup

but none of its parts but the type is: that `unlock` knows which kind of holder calls it, from
`status_` alone, needs `CountsHonest`, and that in turn needs `Exclusion`. The cardinalities of the sets of
threads are followed with the library's facts about adding and removing
one element. The results are `TypeCorrect`, `WriterAlone`, `HonestCounts`, `NobodySleepsOn`, for every
number of threads.

**ModelShardProofs**. Five invariants, each relative to those before it.
`Typed` adds to the types that a request has a stage, that what it carries are rows of the job,
and that the saved stores are typed too. `FreqInv` extends `OnlyFrequentRows` to rows that are
about to be made: an id that passed the filter stays frequent while the request goes on, because
counts only grow between requests and saturate (`CountGrows`, `Frequent`); with it the filter holds for
any number of threads (`FilterHolds`). `StoreInv` says of every moment what `StoresAgree` says of
quiet ones: an optimizer row has its row (`Agree`), a timestamp belongs to a row, or to an id whose push is
about to make its row (`Stamped`, `PushInv`), and the saved stores agree; from it follow
`StoresStayTogether`, and `ExpirySparesFresh` under `ExpireThreshold + MaxNow <= TsMax`: beyond that the sum in
`TSStore::Expire` wraps round (section 6), so the hypothesis is the code's own limit.
`AloneInv` makes of "one thread" that two requests never meet (`TrainedRowsStay`). `RowInv` is why a push
with one thread and the filter on makes no row from zeros: only the counting of a pull makes an id frequent,
that pull makes the row before any push runs (`Pending`), and expiry takes the count along with the row, so a push
past the filter finds the row there. `FreqThreshold > 0` is needed: without the filter nothing stands
between an expiry and a push whose pull came before it. That no two tables share an id is needed too, since counts are
by id: the pull of one table's row would make the other's frequent.

**ThreadProofs, the pools**. `TokenHonest` is not inductive: what the token counts is spread over tasks
not posted yet, queued tasks, and the one a pool's thread has in its hands. `Place` says that a task is in one
of these places and in one only, `Distinct` that no queue holds it twice, and `Token` that `remain` is
the number of shards the context still waits for (`Due`), in each stage of it. Steps move a shard from
one place to the next, and `FS_AddElement` and `FS_RemoveElement` follow the number. `PhasesAreComplete`
then reads off that a context that leaves its wait has nothing due. The order of `Post` and `Notify` and any
number of spurious wake-ups are covered.

**TcpChannelProofs**. What is behind the offset of a buffer, on the wire and still with the writer is one
sequence of bytes (`Unread`). On a new connection what has been sent is what was handled and then the messages whose
bytes that sequence is (`Ordered`), where `Layout` says at which place of the sequence each of them ends, so that
no step has to flatten anything: moving bytes along does not
change the sequence, writing appends a message, and taking a packet out removes the first, because the first bytes
are always a length and that many bytes are its message. That is `NoGarbage`:
`TryReadMessage` never returns -2 there. At the end `LinedIsFlat` shows once, by induction over the number of
messages, that such a sequence is the `FlattenSeq` of which `InOrder` speaks (`MessagesInOrder`).
`RoomToRead` needs two things more: a buffer never has length 0, and is
never full when a read begins (`Fit`, `RoomInv`), which holds for reused connections too; and it grows only
for a message that does not fit, and then to less than twice that message (`Small`, `GrownSmall`). The
first half of the file is about sequences of bytes and what `GetInBuf` does to them.

**ModelDirProofs**. The invariant says what lies in a directory and what a job has in memory,

    IInv == DOMAIN dir = Dir /\ DOMAIN origin = Dir /\ run \in Nat /\ DirInv /\ MemInv

`DirInv`: in a directory of one save every file that can be read is its shard's part of that save, and a complete
save has them all (`Holds`). `MemInv`: each shard of a clean job holds ids of its own (`Share`), with rows,
optimizer rows, timestamps and counts that belong together (`Together`). The files of one shard are loaded as they are or
all files are merged, possibly for another number of shards; either way each shard gets its part of
the save, because the shard of an id depends on the id alone. From it follow `RowsStayWhole`, the action property
`WarmupKeepsRows`, and `RestartsAreFaithful`.
The proof changed a property: a row's count "is not small if nothing was ever warmed up" (`RowsAreWhole`) used to look at the
warm-up of the present job only, which is enough for three jobs but not for more, where a job loads what a warmed-up
job saved; `warmed` says what is meant, for any number of jobs.

**LocalProofs, the table**. A table is `Good` when no key has two slots and every entry is reached from
its hash without passing an empty slot; this survives erasing, since a marked slot is not an empty one.
`StopFinds` (a key that is there is where its probe stops) and `SlotFacts` (where a new one goes its probe gets) follow,
the latter although the first marked slot on the way is taken and the probe stopped further on. A rehash copies slot by slot
(`Copied`, `CopyStep`): the table under construction is `Good`, has no marks and holds the entries of the slots copied so far, and
has an empty slot left as long as there are fewer entries than slots. The invariant

    HashInv == TableSound /\ stuck \in BOOLEAN /\ LookupsEnd

adds the numbers: the size is at most the threshold, the threshold at most two thirds of the slots,
and the slots that are not empty at most as many as entries came since the last rehash. So a probe that does not end
finds the rest of the slots, a third, marked (`NoEnd`), which is `LookupsEndUnlessFull`; and
`TableIsMap` is the refinement of `PartialMap`: every call is a step of it, `reserve` and a call that never
returns are stutters. What `Rehashed` and `Pow2` compute is proved by induction (below).

**LocalProofs, the store**. `ConsumerFollows` says how far a serving system can be behind, but not why. `Counted` does: the updates that
it has not seen are at most those the store counts for the row, and a row without a count is the copy it was
given. `Near` adds that a collected copy is in the shard and in the files, within `DistanceThreshold`. The triangle inequality
then gives the bound. Both hold only of rows whose removal the store has not missed.

**LocalProofs, the reader**. A rejected line puts every tensor back as it was (`RejectedLine`), a taken one adds exactly one row
to each (`NextRow`, `AddedRow`); with the offsets within the values (`Within`) this makes `RowsAreLines`
inductive, for every number of tensors and every size of a batch. `FlowInv` follows the lines from the file
through the batch to the operators: the lines taken so far are the good lines of the file up to the reader's place, in order
(`TakenInv`), a batch is full unless the file has ended (`BatchInv`), and the operators have the shape of the batch
that runs (`ShapeInv`); from it follows `LinesAreTrainedOnce`.

**GraphProofs**. Nothing here depends on the number of nodes. `LoopRule` is the rule for a loop: what holds before the
first step and is kept by each holds after the last. After `f` steps of the topological sort the list has exactly
the nodes all of whose inputs are among its first `f` (`Listing`), so it cannot stop early: the first node of an order
that is missing would be ready. Hence every node is listed, once, after its inputs (`SortedFacts`).
What a node computes is named by the first node that computes the same (`MeaningFacts`), and equivalent nodes
have one name unless they are dropout nodes (`EquivalentMean`). The pass keeps (`Progress`, `Removed`)
that inputs have their names, that no replaced node is an input, that the order is still one, and that of the
nodes that had their turn none is equivalent to a later one. The last is why one pass is
enough, and it holds because what a turn replaces, and the node it puts there, are no inputs of the nodes that had their
turn before: no later node becomes equivalent to one of these (`StillDifferent`). The invariant of the graph's life is `GraphInv`: it is
`Acyclic`, before the pass because inputs are older than a node, afterwards because the order survives; simplified, it
has its meanings (`Kept`) and nothing left (`NoneLeft`). From it follow `NothingLeftToReplace` and
`SimplifiedMeansTheSame`, the latter for graphs without dropout nodes: with them it is false (section 6, `cse_dropout`).
For the chains, `Below` is closed although it goes down no further than the graph has nodes (`BelowClosed`), and `Visit` of
a node adds it and what it depends on, inputs first, by induction over the depth (`VisitsStep`,
`Walked`). A walk over lists in order marks for a gradient exactly the nodes with a variable below them
(`Graded`), and the loss comes first among the targets, so the backward chain is the forward chain of the
loss (`ChainOfFirst`). `ChainInv` adds to `GraphInv` what `Compile` leaves behind; `ChainsAreInOrder` follows.

Induction over data. The induction theorems of the library take an operator as a parameter, which the
provers cannot instantiate. They can use a set: `WFMin` gives the least element of a set of numbers, hence
`SetInduction`, and with it `FlattenSeq`, `Pow2`, the loop of `do_rehash` (`RunExists`,
`Iterates`: a recursive function exists and unfolds) and the walks of `Graph` (`LoopRule`, `WalkedExists`) are reasoned
about for any length.

Model-checked only: liveness (`EpochsFinish`, `JobEnds`, `ReadersFollow`, `WritersNotStarved`, `TrainingEnds`,
`CallsReturn`), since the provers do not handle fairness and ENABLED. Every safety property
that the passing runs check, and each of the refinements, is stated by a theorem.

## 6. Where code and documentation disagree

Each of these is a run that ends with a counterexample, and a finding in
`PROJECT.json`.

- `dist_last_epoch`: a worker that got no response during the last epoch reconnects to a
  coord server that is gone and dies on an assertion, although the README
  of `example/rank` lets workers come and go (`dist_worker.cc:313`).
- `shard_reinit`: `get_row` inserts without looking again, and initializes a row that was
  created and trained in between; `Pull` and `Push` are said to be thread safe
  (`model_shard.h:200`).
- `channel_reuse`: `Connect` leaves the bytes of the previous connection in the buffer,
  in front of what the new one brings (`tcp_connection.cc:206`).
- `hash_full`: entries that come and go leave marks in every slot while the size never
  reaches the rehash threshold; `find` of a key that is not there then never returns
  (`hash_map.h:297`).
- `cse_dropout`: two dropout nodes of one input are taken for a common subexpression,
  though each draws a mask of its own (`cse.cc:34`).

Worth knowing, and seen while modelling, but contradicted by no documentation and
therefore no run:

- a parameter server may save and stop with the push of a finished file still
  unread, since pushes have no answer and come on another connection;
- a row that was pulled and never pushed has no timestamp and never expires;
- the sum of a timestamp and an expiry threshold wraps round for very large
  thresholds, which the flag's check (`dist_flags.cc:167`) lets through;
- with a file timeout, a worker that is late with its file may find the next
  epoch begun and the connection of its notification gone, and ends by an assertion. If
  this happens to every worker, nobody is left to finish: the
  disjunct `NobodyLeft` of `JobEnds`.

## 7. What is not modelled

- Numbers in rows and gradients: the optimizer formulas, operators and kernels are
  floating-point code without control; so are the arithmetic rewriting and constant
  folding of the simplifier.
- Undefined behaviour of unlocked reads beside writes in a parameter server of several
  threads (saving, serializing a pull response from views): listed as
  hazards; `ModelShard` saves only when no request runs.
- `overwritten_param`, dense parameters, legacy file formats, text and feature_kv models,
  directories of models that are not sharded.
- Messages' encoding, endpoints, retries with sleeps; the rpc framework (used by an example,
  with the loop of `TcpServer`), `BlockingQueue` and the LRU cache (used by their tests).
- `SplitPullRequest`, `SplitGrad` and the merging of parameters between shards of a
  batch; `ThreadPool::run` and pools of several threads.
- Names, scopes and serialization of graphs, the modules of `graph_module_creator`, shapes;
  characters and numbers of the readers; streams, compression, strings, the model server, tools.

## 8. Plan

Done: the modules above, in the order dispatcher, distributed job, lock,
shard, pools, channel, directories, table, store, reader, graph, with the proofs of
section 5, which state every safety property of the runs.

Left, by importance:

1. `ThreadPool` with several threads and `run`, `BlockingQueue`, the rpc server, `TcpConnections`
   with several peers.
2. The split of a batch over shards (`SplitGrad`, `SplitParam`) against the whole batch; shape
   arithmetic as operators; the LRU cache.

## 9. Running it

In this directory: `tlc -config DistSafe.cfg MCDistTraining.tla` (module and
configuration of every run are in `PROJECT.json`), `tlapm FileDispatcherProofs.tla`.
The longest run takes under three minutes, the proofs of a module up to four.
