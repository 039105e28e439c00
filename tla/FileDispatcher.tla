--------------------------- MODULE FileDispatcher ---------------------------
(***************************************************************************)
(* deepx_core::FileDispatcher: the mutex-protected table that hands the    *)
(* training files of an epoch to workers (threads of trainer, connections  *)
(* of the coord server).  Every method holds mutex_ for its whole body, so *)
(* each is one action.                                                     *)
(*                                                                         *)
(* Abstractions: dispatch_time_[f] is the time since the dispatch, counted *)
(* in clock ticks up to the first value that is over the timeout; of       *)
(* finished_ the code reads only the size, and only against files_.size(), *)
(* so the model keeps the set of finished files and the size up to that    *)
(* bound.                                                                  *)
(***************************************************************************)
EXTENDS Naturals, Sequences, FiniteSets, Functions

CONSTANTS File,       \* file_dispatcher_files, distinct names
          Worker,     \* callers; each has at most one file on its hands
          NoFile,     \* the empty string
          Shuffle,    \* shuffle_
          Timeout,    \* timeout_; 0 disables it
          MaxEpoch,   \* number of epochs the owner runs
          MaxFailure  \* bound: calls of WorkerFailureFile per run

ASSUME DispatcherAssumption ==
  /\ IsFiniteSet(File) /\ File # {}
  /\ NoFile \notin File
  /\ Shuffle \in BOOLEAN
  /\ Timeout \in Nat
  /\ MaxEpoch \in Nat \ {0}
  /\ MaxFailure \in Nat

VARIABLES files,          \* files_
          to_dispatch,    \* to_dispatch_
          dispatch_time,  \* dispatch_time_, as age in ticks
          finished,       \* the members of finished_
          finished_size,  \* finished_.size(), up to files_.size()
          holding,        \* the file each worker is processing
          phase,          \* "idle", "epoch", "over": where the owner is
          epoch,          \* epochs begun
          failures        \* calls of WorkerFailureFile (bound)

fvars == <<files, to_dispatch, dispatch_time, finished, finished_size>>
vars == <<fvars, holding, phase, epoch, failures>>

N == Cardinality(File)
Orders == Bijection(1..N, File)       \* the orders files_ can be in
InFlight == DOMAIN dispatch_time

-----------------------------------------------------------------------------
(* The methods of FileDispatcher. *)

\* An age grows until the entry is over the timeout.
Aged(t) == IF t > Timeout THEN t ELSE t + 1

\* dispatch_time_[f] = time(nullptr)
Stamp(f) == [g \in InFlight \cup {f} |-> IF g = f THEN 0 ELSE dispatch_time[g]]

\* Mutant: the entry is kept and blanked.
BlankStamp(f) == [g \in InFlight |-> IF g = f THEN NoFile ELSE dispatch_time[g]]

\* dispatch_time_.erase(f)
Unstamp(f) == Restrict(dispatch_time, InFlight \ {f})

PreTrain(order) == files' = order     \* given or reversed: order is arbitrary

PreEpoch ==
  /\ IF Shuffle THEN files' \in Orders ELSE UNCHANGED files
  /\ to_dispatch' = files'
  /\ finished' = {}
  /\ finished_size' = 0
  /\ UNCHANGED dispatch_time

\* The front of to_dispatch_ is handed out.
DispatchFront(f) ==
  /\ to_dispatch # <<>>
  /\ f = Head(to_dispatch)
  /\ to_dispatch' = Tail(to_dispatch)
  /\ dispatch_time' = Stamp(f)
  /\ UNCHANGED <<files, finished, finished_size>>

\* Mutant: the age is not compared with the timeout.
DispatchAnyInFlight(f) ==
  /\ to_dispatch = <<>> /\ Timeout > 0 /\ f \in InFlight
  /\ dispatch_time' = Stamp(f)
  /\ UNCHANGED <<files, to_dispatch, finished, finished_size>>

\* Mutant: entries are never looked at.
DispatchNeverLate(f) == FALSE /\ UNCHANGED fvars

\* Nothing waits, but f is over the timeout: it goes to to_dispatch_ and the
\* next turn of the loop hands it out again.
DispatchTimedOut(f) ==
  /\ to_dispatch = <<>>
  /\ Timeout > 0
  /\ f \in InFlight
  /\ dispatch_time[f] > Timeout
  /\ dispatch_time' = Stamp(f)
  /\ UNCHANGED <<files, to_dispatch, finished, finished_size>>

WorkerDispatchFile(f) == DispatchFront(f) \/ DispatchTimedOut(f)

\* WorkerDispatchFile returns false.
NothingToDispatch ==
  /\ to_dispatch = <<>>
  /\ Timeout > 0 => \A f \in InFlight : dispatch_time[f] <= Timeout

WorkerFinishFile(f) ==
  /\ finished' = finished \cup {f}
  /\ finished_size' = IF finished_size < N THEN finished_size + 1 ELSE N
  /\ dispatch_time' = Unstamp(f)
  /\ UNCHANGED <<files, to_dispatch>>

\* Mutant: the size alone decides.
SizeIsEnough == finished_size' >= N

\* Mutant: files still in flight are forgotten.
QueueIsEmpty == finished_size' >= N \/ to_dispatch' = <<>>

\* What WorkerFinishFile returns, in the state it leaves.
EpochIsFinished ==
  /\ finished_size' >= N
  /\ to_dispatch' = <<>>
  /\ DOMAIN dispatch_time' = {}

\* Mutant: the file is queued whether or not it is still in flight.
FailureAlwaysQueues(f) ==
  /\ to_dispatch' = Append(to_dispatch, f) /\ dispatch_time' = Unstamp(f)
  /\ UNCHANGED <<files, finished, finished_size>>

\* Mutant: the file is taken out of flight and not queued.
FailureDrops(f) ==
  /\ dispatch_time' = Unstamp(f)
  /\ UNCHANGED <<files, to_dispatch, finished, finished_size>>

WorkerFailureFile(f) ==
  /\ IF f \in InFlight
       THEN to_dispatch' = Append(to_dispatch, f) /\ dispatch_time' = Unstamp(f)
       ELSE UNCHANGED <<to_dispatch, dispatch_time>>
  /\ UNCHANGED <<files, finished, finished_size>>

-----------------------------------------------------------------------------
(* The owner and the workers. *)

Init ==
  /\ files = <<>> /\ to_dispatch = <<>> /\ dispatch_time = <<>>
  /\ finished = {} /\ finished_size = 0
  /\ holding = [w \in Worker |-> NoFile]
  /\ phase = "idle" /\ epoch = 0 /\ failures = 0

Train ==
  /\ phase = "idle" /\ files = <<>>
  /\ \E order \in Orders : PreTrain(order)
  /\ UNCHANGED <<to_dispatch, dispatch_time, finished, finished_size,
                 holding, phase, epoch, failures>>

\* The previous loop and its connections (or threads) are gone.
BeginEpoch ==
  /\ phase # "epoch" /\ files # <<>> /\ epoch < MaxEpoch
  /\ PreEpoch
  /\ holding' = [w \in Worker |-> NoFile]
  /\ phase' = "epoch"
  /\ epoch' = epoch + 1
  /\ UNCHANGED failures

Dispatch(w) ==
  /\ phase = "epoch" /\ holding[w] = NoFile
  /\ \E f \in File :
       /\ WorkerDispatchFile(f)
       /\ holding' = [holding EXCEPT ![w] = f]
  /\ UNCHANGED <<phase, epoch, failures>>

Finish(w) ==
  /\ phase = "epoch" /\ holding[w] # NoFile
  /\ WorkerFinishFile(holding[w])
  /\ holding' = [holding EXCEPT ![w] = NoFile]
  /\ phase' = IF EpochIsFinished THEN "over" ELSE phase
  /\ UNCHANGED <<epoch, failures>>

Fail(w) ==
  /\ phase = "epoch" /\ holding[w] # NoFile
  /\ failures < MaxFailure
  /\ WorkerFailureFile(holding[w])
  /\ holding' = [holding EXCEPT ![w] = NoFile]
  /\ failures' = failures + 1
  /\ UNCHANGED <<phase, epoch>>

\* A second passes.
Tick ==
  /\ phase = "epoch" /\ Timeout > 0
  /\ dispatch_time' = [f \in InFlight |-> Aged(dispatch_time[f])]
  /\ UNCHANGED <<files, to_dispatch, finished, finished_size,
                 holding, phase, epoch, failures>>

Next ==
  \/ Train
  \/ BeginEpoch
  \/ \E w \in Worker : Dispatch(w) \/ Finish(w) \/ Fail(w)
  \/ Tick

Spec == Init /\ [][Next]_vars

-----------------------------------------------------------------------------
(* Properties. *)

\* The type of every variable.
TypeOK ==
  /\ files \in Orders \cup {<<>>}
  /\ to_dispatch \in Seq(File)
  /\ InFlight \subseteq File
  /\ \A f \in InFlight : dispatch_time[f] \in 0..(Timeout + 1)
  /\ finished \subseteq File
  /\ finished_size \in 0..N
  /\ holding \in [Worker -> File \cup {NoFile}]
  /\ phase \in {"idle", "epoch", "over"}
  /\ epoch \in 0..MaxEpoch
  /\ failures \in 0..MaxFailure

Waiting == Range(to_dispatch)

\* A file is in one place: it waits once, or it is in flight, never both, so
\* that WorkerFailureFile and the timeout never queue it a second time.
OnePlace ==
  /\ IsInjective(to_dispatch)
  /\ Waiting \cap InFlight = {}

\* No file is lost: during an epoch each file waits, is in flight or has
\* been finished, whatever failed or timed out in between.
NoFileLost ==
  phase # "idle" => File \subseteq Waiting \cup InFlight \cup finished

\* WorkerFinishFile reports the end of the epoch exactly when every file has
\* been finished and nothing is queued; in an epoch that is not reported
\* finished there is always something queued or in flight, or the workers
\* would wait for ever.
EpochEnd ==
  /\ phase = "over" => finished = File /\ Waiting = {} /\ InFlight = {}
  /\ phase = "epoch" => Waiting \cup InFlight # {}

\* Without a timeout (the configuration of trainer and of dist_trainer) a
\* file in flight is on the hands of exactly one worker, and a file is
\* finished once: no example is trained on twice in an epoch.
Exclusive ==
  Timeout = 0 /\ phase = "epoch" =>
    /\ \A f \in InFlight : \E w \in Worker : holding[w] = f
    /\ \A v, w \in Worker : holding[v] = holding[w] /\ v # w => holding[v] = NoFile
    /\ \A w \in Worker : holding[w] # NoFile => holding[w] \in InFlight \ finished
    /\ finished \cap (Waiting \cup InFlight) = {}
    /\ finished_size = Cardinality(finished)

\* A file in flight is handed to a second worker only after its entry is over
\* the timeout: a slow clock or a stale failure report never doubles the work
\* of a worker that is still within its time.
NoEarlyTakeover ==
  [][\A w \in Worker : LET f == holding'[w] IN
       f # holding[w] /\ f \in InFlight => Timeout > 0 /\ dispatch_time[f] > Timeout]_vars

\* The abstract promise, under the mapping that forgets the tables.
Work == INSTANCE WorkEpochs WITH
  round <- epoch,
  left <- IF phase = "idle" THEN {} ELSE File \ finished,
  open <- phase = "epoch"

WorkSpec == Work!Spec

-----------------------------------------------------------------------------
(* Liveness: the owner starts its epochs, the clock runs, and the workers   *)
(* outside Hung keep asking and finish what they were given.  A hung worker *)
(* keeps its file for ever: without a timeout that stops the epoch, so      *)
(* Hung is empty unless Timeout > 0.                                        *)

Fairness(Hung) ==
  /\ WF_vars(Train) /\ WF_vars(BeginEpoch) /\ WF_vars(Tick)
  /\ \A w \in Worker \ Hung : WF_vars(Dispatch(w)) /\ WF_vars(Finish(w))

\* Every epoch is begun and finished.
EpochsFinish == <>(epoch = MaxEpoch /\ phase = "over")
=============================================================================
