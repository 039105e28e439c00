---------------------------- MODULE DistTraining ----------------------------
(***************************************************************************)
(* Distributed training (or prediction): one coord server (CS) that runs   *)
(* an I/O loop per epoch and hands out files, workers (WK) that loop over  *)
(* "ask, train, notify", and param servers (PS) that apply pushes, save    *)
(* the model and stop.  CoordServer, ParamServer, TrainerDist and          *)
(* TrainerContextDist, on top of FileDispatcher.                           *)
(*                                                                         *)
(* A connection is a pair of FIFO channels.  When one side goes away the   *)
(* other may lose what was not read yet.  Workers and param servers may    *)
(* crash; the coord server only ends, by itself or by a DXCHECK_THROW.     *)
(***************************************************************************)
EXTENDS Naturals, Sequences, FiniteSets, Functions

CONSTANTS File, Worker, NoFile, Shuffle, Timeout, MaxEpoch,
          PS,         \* param servers, one per shard
          Modes,      \* the values of FLAGS_is_train: train, or predict
          PsThreads,  \* FLAGS_ps_thread
          Frail,      \* bound: param servers that may crash
          MaxCrash    \* bound: processes that crash

ASSUME DistAssumption ==
  /\ IsFiniteSet(File) /\ File # {} /\ NoFile \notin File /\ IsFiniteSet(Worker)
  /\ Shuffle \in BOOLEAN /\ Timeout \in Nat /\ MaxEpoch \in Nat \ {0}
  /\ Modes \subseteq BOOLEAN /\ Frail \subseteq PS
  /\ PsThreads \in Nat \ {0}
  /\ MaxCrash \in Nat

VARIABLES
  \* FileDispatcher of the CS; holding[w] is conn->file() of w's connection
  files, to_dispatch, dispatch_time, finished, finished_size,
  holding, phase, epoch, failures,
  stage,    \* the CS thread: "train", "dump", "terminate", "exit", "abort"
  inread,   \* {w}: w's OnRead is what stopped the loop, and still runs; else {}
  link,     \* the CS connection of each worker
  toCS,     \* messages on their way to the CS
  toWK,     \* file responses on their way to the worker
  wk,       \* where each worker is
  wfile,    \* 'file' of TrainerDist::Train
  wepoch,   \* 'epoch' of TrainerDist::Train
  pushes,   \* PS that have not processed the worker's last push
  ps,       \* where each PS is
  csq,      \* request of the CS on its way to each PS, or "none"
  crashes,  \* crashed processes (bound)
  is_train, \* FLAGS_is_train
  saved     \* history: PS whose shard is on disk

dispatcher == <<files, to_dispatch, dispatch_time, finished, finished_size>>
owner == <<holding, phase, epoch, failures>>
worker == <<wk, wfile, wepoch>>
net == <<link, toCS, toWK>>
server == <<stage, inread, ps, csq, is_train, saved>>
vars == <<dispatcher, owner, worker, net, server, pushes, crashes>>

\* A worker process dies once, and its connection with it.
FD == INSTANCE FileDispatcher WITH MaxFailure <- Cardinality(Worker)

\* epoch_ of CoordServer counts from 0.
CsEpoch == epoch - 1

\* CoordServerConfig::epoch
Epochs == IF is_train THEN MaxEpoch ELSE 1

FileRequest == [type |-> "request", file |-> NoFile]
FinishNotify(f) == [type |-> "finish", file |-> f]
FileResponse(f) == [epoch |-> CsEpoch, file |-> f]

-----------------------------------------------------------------------------
(* Coord server. *)

\* The server's ends of the connections are closed.
Closed == [w \in Worker |-> CASE link[w] = "open" -> "dead"
                             [] link[w] = "closing" -> "none"
                             [] OTHER -> link[w]]

CsPreTrain ==
  /\ FD!Train
  /\ UNCHANGED <<worker, net, server, pushes, crashes>>

\* PreEpoch and RunLoop: the new IoContext replaces the old one, which closes
\* the connections of the previous epoch without DeleteConnection.
CsBeginEpoch ==
  /\ epoch < Epochs /\ FD!BeginEpoch
  /\ link' = Closed
  /\ toCS' = [w \in Worker |-> <<>>]
  /\ inread' = {}
  /\ UNCHANGED <<worker, toWK, stage, ps, csq, is_train, saved, pushes, crashes>>

\* The loop handles w's next message; after StopLoop only the OnRead that
\* called it goes on, with what it has buffered.
Handles(w, type) ==
  /\ phase = "epoch" \/ w \in inread
  /\ link[w] \in {"open", "closing"}
  /\ toCS[w] # <<>> /\ Head(toCS[w]).type = type

Received(w) == toCS' = [toCS EXCEPT ![w] = Tail(@)]

\* Mutant: conn->set_file is forgotten.
OnFileRequestUnrecorded(w) ==
  /\ Handles(w, "request")
  /\ \E f \in File :
       FD!WorkerDispatchFile(f) /\ toWK' = [toWK EXCEPT ![w] = Append(@, FileResponse(f))]
  /\ Received(w)
  /\ inread' = {}
  /\ UNCHANGED <<owner, worker, link, stage, ps, csq, is_train, saved, pushes, crashes>>

OnFileRequest(w) ==
  /\ Handles(w, "request")
  /\ \/ \E f \in File :
          /\ FD!WorkerDispatchFile(f)
          /\ toWK' = [toWK EXCEPT ![w] = Append(@, FileResponse(f))]
          /\ holding' = [holding EXCEPT ![w] = f]
     \/ /\ FD!NothingToDispatch
        /\ toWK' = [toWK EXCEPT ![w] = Append(@, FileResponse(NoFile))]
        /\ UNCHANGED <<dispatcher, holding>>
  /\ Received(w)
  /\ inread' = {}        \* a response is pending: OnRead returns
  /\ UNCHANGED <<phase, epoch, failures, worker, link, stage, ps, csq, is_train, saved, pushes, crashes>>

\* Mutant: conn->clear_file is forgotten.
OnFileFinishKeepsFile(w) ==
  /\ Handles(w, "finish")
  /\ FD!WorkerFinishFile(Head(toCS[w]).file)
  /\ IF FD!EpochIsFinished
       THEN phase' = "over" /\ inread' = {w}
       ELSE UNCHANGED <<phase, inread>>
  /\ Received(w)
  /\ UNCHANGED <<holding, epoch, failures, worker, link, toWK, stage, ps, csq, is_train, saved, pushes, crashes>>

OnFileFinishNotify(w) ==
  /\ Handles(w, "finish")
  /\ holding' = [holding EXCEPT ![w] = NoFile]
  /\ FD!WorkerFinishFile(Head(toCS[w]).file)
  /\ IF FD!EpochIsFinished
       THEN phase' = "over" /\ inread' = {w}
       ELSE UNCHANGED <<phase, inread>>
  /\ Received(w)
  /\ UNCHANGED <<epoch, failures, worker, link, toWK, stage, ps, csq, is_train, saved, pushes, crashes>>

\* Reading from w's connection fails (w is gone); what is unread is lost.
DeleteConnection(w) ==
  /\ phase = "epoch" /\ link[w] = "closing"
  /\ IF holding[w] # NoFile
       THEN FD!WorkerFailureFile(holding[w]) /\ failures' = failures + 1
       ELSE UNCHANGED <<dispatcher, failures>>
  /\ holding' = [holding EXCEPT ![w] = NoFile]     \* the connection object is gone
  /\ link' = [link EXCEPT ![w] = "none"]
  /\ toCS' = [toCS EXCEPT ![w] = <<>>]
  /\ UNCHANGED <<phase, epoch, worker, toWK, server, pushes, crashes>>

TrainingOver == phase = "over" /\ epoch = Epochs
AllUp == \A p \in PS : ps[p] # "crashed"

\* DumpModel: connect to every PS and ask each to save; dump_model = is_train.
CsDumpModel ==
  /\ stage = "train" /\ TrainingOver /\ is_train /\ AllUp
  /\ stage' = "dump" /\ inread' = {}
  /\ csq' = [p \in PS |-> "save"]
  /\ UNCHANGED <<dispatcher, owner, worker, net, ps, is_train, saved, pushes, crashes>>

\* Mutant: a save that failed does not keep the PS from being stopped.
CsTerminateEarly ==
  /\ \/ stage = "dump" /\ \A p \in PS : csq[p] = "none" /\ ps[p] # "saving"
     \/ stage = "train" /\ TrainingOver /\ ~is_train
  /\ stage' = "terminate" /\ inread' = {}
  /\ csq' = [p \in PS |-> IF ps[p] = "crashed" THEN "none" ELSE "terminate"]
  /\ UNCHANGED <<dispatcher, owner, worker, net, ps, is_train, saved, pushes, crashes>>

\* TerminatePS, after the save responses of all PS: connect to every PS and
\* tell each to stop.
CsTerminatePS ==
  /\ \/ stage = "dump" /\ \A p \in PS : csq[p] = "none" /\ ps[p] # "saving"
     \/ stage = "train" /\ TrainingOver /\ ~is_train
  /\ AllUp
  /\ stage' = "terminate" /\ inread' = {}
  /\ csq' = [p \in PS |-> "terminate"]
  /\ UNCHANGED <<dispatcher, owner, worker, net, ps, is_train, saved, pushes, crashes>>

\* A PS that is gone: ConnectRetry, RpcModelSaveRequest (some may have been
\* asked) or RpcTerminationNotify (some are not told) fails, and a
\* DXCHECK_THROW ends the coord server.
CsAbort ==
  /\ \/ stage = "train" /\ TrainingOver
     \/ stage \in {"dump", "terminate"}
  /\ ~AllUp
  /\ \E told \in SUBSET PS :
       csq' = [p \in PS |-> IF ps[p] = "crashed" THEN "none"
                            ELSE IF csq[p] # "none" /\ p \notin told THEN "none" ELSE csq[p]]
  /\ stage' = "abort" /\ inread' = {}
  /\ link' = Closed
  /\ UNCHANGED <<dispatcher, owner, worker, toCS, toWK, ps, is_train, saved, pushes, crashes>>

\* RunCoordServer returns: the connections of the last epoch are closed.
CsExit ==
  /\ stage = "terminate"
  /\ stage' = "exit"
  /\ link' = Closed
  /\ UNCHANGED <<dispatcher, owner, worker, toCS, toWK, inread, ps, csq, is_train, saved,
                 pushes, crashes>>

\* A second passes.
CsTick ==
  /\ FD!Tick
  /\ UNCHANGED <<worker, net, server, pushes, crashes>>

-----------------------------------------------------------------------------
(* Param servers. *)

\* With one thread the save and a push exclude each other.
PsPush(p, w) ==
  /\ p \in pushes[w]
  /\ ps[p] = "run" \/ (ps[p] = "saving" /\ PsThreads > 1)
  /\ pushes' = [pushes EXCEPT ![w] = @ \ {p}]
  /\ UNCHANGED <<dispatcher, owner, worker, net, server, crashes>>

\* A push of a dead worker, or to a dead PS, that never arrives.
PsLosePush(p, w) ==
  /\ p \in pushes[w] /\ (wk[w] = "crashed" \/ ps[p] = "crashed")
  /\ pushes' = [pushes EXCEPT ![w] = @ \ {p}]
  /\ UNCHANGED <<dispatcher, owner, worker, net, server, crashes>>

PsSaveBegin(p) ==
  /\ ps[p] = "run" /\ csq[p] = "save"
  /\ ps' = [ps EXCEPT ![p] = "saving"]
  /\ csq' = [csq EXCEPT ![p] = "none"]
  /\ UNCHANGED <<dispatcher, owner, worker, net, stage, inread, is_train, saved, pushes,
                 crashes>>

PsSaveEnd(p) ==
  /\ ps[p] = "saving"
  /\ ps' = [ps EXCEPT ![p] = "run"]
  /\ saved' = saved \cup {p}
  /\ UNCHANGED <<dispatcher, owner, worker, net, stage, inread, csq, is_train, pushes, crashes>>

\* StopLoop: Run returns and the process (or its PS part) ends.
PsTerminate(p) ==
  /\ ps[p] = "run" /\ csq[p] = "terminate"
  /\ ps' = [ps EXCEPT ![p] = "stopped"]
  /\ csq' = [csq EXCEPT ![p] = "none"]
  /\ UNCHANGED <<dispatcher, owner, worker, net, stage, inread, is_train, saved, pushes,
                 crashes>>

\* The process dies; what it had in memory, and a save it was at, is lost.
PsCrash(p) ==
  /\ p \in Frail /\ ps[p] \in {"run", "saving"} /\ crashes < MaxCrash
  /\ crashes' = crashes + 1
  /\ ps' = [ps EXCEPT ![p] = "crashed"]
  /\ csq' = [csq EXCEPT ![p] = "none"]
  /\ UNCHANGED <<dispatcher, owner, worker, net, stage, inread, is_train, saved, pushes>>

-----------------------------------------------------------------------------
(* Workers. *)

Goto(w, there) == wk' = [wk EXCEPT ![w] = there]

\* The process ends, and its sockets are closed.
Die(w, how) ==
  /\ Goto(w, how)
  /\ link' = [link EXCEPT ![w] = IF @ = "open" THEN "closing" ELSE "none"]
  /\ toWK' = [toWK EXCEPT ![w] = <<>>]

\* TrainerDist::Init connects to every PS, with retries.
WkInit(w) ==
  /\ wk[w] = "init"
  /\ IF \E p \in PS : ps[p] \in {"stopped", "crashed"} THEN Goto(w, "refused") ELSE Goto(w, "connect")
  /\ UNCHANGED <<dispatcher, owner, wfile, wepoch, net, server, pushes, crashes>>

\* ConnectRetry succeeds while the CS is in a loop.
WkConnect(w) ==
  /\ wk[w] \in {"connect", "reconnect"} /\ phase = "epoch"
  /\ Goto(w, "ask")
  /\ link' = [link EXCEPT ![w] = "open"]
  /\ toWK' = [toWK EXCEPT ![w] = <<>>]
  /\ UNCHANGED <<dispatcher, owner, wfile, wepoch, toCS, server, pushes, crashes>>

\* The retries run out: the CS will not listen again.
WkGiveUp(w) ==
  /\ wk[w] \in {"connect", "reconnect"} /\ TrainingOver
  /\ IF wk[w] = "connect" THEN Goto(w, "refused") ELSE Goto(w, "abort")
  /\ UNCHANGED <<dispatcher, owner, wfile, wepoch, net, server, pushes, crashes>>

Send(w, m) ==
  toCS' = IF link[w] = "open" THEN [toCS EXCEPT ![w] = Append(@, m)] ELSE toCS

\* RpcFileRequest: write ...
WkFileRequest(w) ==
  /\ wk[w] = "ask"
  /\ Goto(w, "wait")
  /\ Send(w, FileRequest)
  /\ UNCHANGED <<dispatcher, owner, wfile, wepoch, link, toWK, server, pushes, crashes>>

\* ... and read.  No file: sleep and ask again.
WkFileResponse(w) ==
  /\ wk[w] = "wait" /\ toWK[w] # <<>>
  /\ LET r == Head(toWK[w]) IN
       /\ wepoch' = [wepoch EXCEPT ![w] = r.epoch]
       /\ wfile' = [wfile EXCEPT ![w] = r.file]
       /\ Goto(w, IF r.file = NoFile THEN "ask" ELSE "train")
  /\ toWK' = [toWK EXCEPT ![w] = Tail(@)]
  /\ UNCHANGED <<dispatcher, owner, link, toCS, server, pushes, crashes>>

\* Mutant: epoch == FLAGS_epoch.
EpochPastLast(w) == wepoch[w] = MaxEpoch

LastEpochSeen(w) == ~is_train \/ wepoch[w] = MaxEpoch - 1

\* RpcFileRequest fails: close, and exit after the last epoch.
WkRequestFailed(w) ==
  /\ wk[w] = "wait" /\ link[w] = "dead"
  /\ Goto(w, IF LastEpochSeen(w) THEN "exit" ELSE "reconnect")
  /\ link' = [link EXCEPT ![w] = "none"]
  /\ UNCHANGED <<dispatcher, owner, wfile, wepoch, toCS, toWK, server, pushes, crashes>>

\* TrainFile (or PredictFile), as one batch on the shards M: the pull is
\* answered behind the previous push on the same connection, the push is not
\* answered.
WkTrainFile(w) ==
  /\ wk[w] = "train"
  /\ \E M \in SUBSET PS :
       /\ M \cap pushes[w] = {}
       /\ \A p \in M : ps[p] = "run" \/ (ps[p] = "saving" /\ PsThreads > 1)
       /\ pushes' = [pushes EXCEPT ![w] = IF is_train THEN @ \cup M ELSE @]
  /\ Goto(w, "notify")
  /\ UNCHANGED <<dispatcher, owner, wfile, wepoch, net, server, crashes>>

\* The pull (or an earlier connect) finds a PS gone: DXCHECK_THROW.
WkPullFailed(w) ==
  /\ wk[w] = "train" /\ \E p \in PS : ps[p] \in {"stopped", "crashed"}
  /\ Die(w, "abort")
  /\ UNCHANGED <<dispatcher, owner, wfile, wepoch, toCS, server, pushes, crashes>>

\* RpcFileFinishNotify; on a dead connection the write may be lost or fail.
WkFileFinishNotify(w) ==
  /\ wk[w] = "notify"
  /\ Goto(w, "ask") \/ (link[w] = "dead" /\ Goto(w, "abort"))
  /\ Send(w, FinishNotify(wfile[w]))
  /\ UNCHANGED <<dispatcher, owner, wfile, wepoch, link, toWK, server, pushes, crashes>>

WkCrash(w) ==
  /\ wk[w] \notin {"exit", "abort", "refused", "crashed"}
  /\ crashes < MaxCrash
  /\ crashes' = crashes + 1
  /\ Die(w, "crashed")
  /\ UNCHANGED <<dispatcher, owner, wfile, wepoch, toCS, server, pushes>>

-----------------------------------------------------------------------------
Init ==
  /\ FD!Init
  /\ stage = "train" /\ inread = {}
  /\ link = [w \in Worker |-> "none"]
  /\ toCS = [w \in Worker |-> <<>>] /\ toWK = [w \in Worker |-> <<>>]
  /\ wk = [w \in Worker |-> "init"]
  /\ wfile = [w \in Worker |-> NoFile]
  /\ wepoch = [w \in Worker |-> 0]
  /\ pushes = [w \in Worker |-> {}]
  /\ ps = [p \in PS |-> "run"] /\ csq = [p \in PS |-> "none"]
  /\ crashes = 0 /\ is_train \in Modes /\ saved = {}

CsNext ==
  \/ CsPreTrain \/ CsBeginEpoch \/ CsDumpModel \/ CsTerminatePS \/ CsAbort
  \/ CsExit \/ CsTick
  \/ \E w \in Worker : OnFileRequest(w) \/ OnFileFinishNotify(w) \/ DeleteConnection(w)

PsNext ==
  \E p \in PS : \/ PsSaveBegin(p) \/ PsSaveEnd(p) \/ PsTerminate(p) \/ PsCrash(p)
                \/ \E w \in Worker : PsPush(p, w) \/ PsLosePush(p, w)

WkStep(w) ==
  \/ WkInit(w) \/ WkConnect(w) \/ WkGiveUp(w)
  \/ WkFileRequest(w) \/ WkFileResponse(w) \/ WkRequestFailed(w)
  \/ WkTrainFile(w) \/ WkPullFailed(w) \/ WkFileFinishNotify(w)

Next == CsNext \/ PsNext \/ \E w \in Worker : WkStep(w) \/ WkCrash(w)

Spec == Init /\ [][Next]_vars

-----------------------------------------------------------------------------
(* Properties. *)

TypeOK ==
  /\ FD!TypeOK
  /\ stage \in {"train", "dump", "terminate", "exit", "abort"}
  /\ inread \in {{}} \cup {{w} : w \in Worker}
  /\ link \in [Worker -> {"none", "open", "closing", "dead"}]
  /\ \A w \in Worker :
       /\ \A i \in DOMAIN toCS[w] :
            toCS[w][i] \in [type : {"request", "finish"}, file : File \cup {NoFile}]
       /\ \A i \in DOMAIN toWK[w] :
            toWK[w][i] \in [epoch : 0..(MaxEpoch - 1), file : File \cup {NoFile}]
  /\ wk \in [Worker -> {"init", "connect", "reconnect", "ask", "wait", "train", "notify",
                        "exit", "abort", "refused", "crashed"}]
  /\ wfile \in [Worker -> File \cup {NoFile}]
  /\ wepoch \in [Worker -> 0..(MaxEpoch - 1)]
  /\ pushes \in [Worker -> SUBSET PS]
  /\ ps \in [PS -> {"run", "saving", "stopped", "crashed"}]
  /\ csq \in [PS -> {"none", "save", "terminate"}]
  /\ crashes \in 0..MaxCrash /\ is_train \in Modes /\ saved \subseteq PS

\* The coord server and its workers drive the dispatcher only as its own
\* specification allows: a worker asks only with empty hands, reports the file
\* it was given and no other, and every connection that goes away in an epoch
\* hands its file back.
DispatcherSpec == FD!Spec

\* Without a timeout a file that is in flight is on the books of exactly one
\* connection and is finished once, though workers crash and connections are
\* dropped with their loop; and a live worker that has a file has it on the
\* books of the coord server, in the current epoch and on an open connection:
\* its notify cannot fail, and nobody else works on the file.
FileOnTheBooks ==
  FD!Exclusive /\
  (Timeout = 0 => \A w \in Worker : wk[w] \in {"train", "notify"} =>
    /\ phase = "epoch" /\ link[w] = "open"
    /\ holding[w] = wfile[w] /\ wfile[w] \in FD!InFlight
    /\ wepoch[w] = CsEpoch)

\* No param server is told to stop, or stops, before every shard of the model
\* that was trained is on disk: whatever crashes, a shard that is not saved
\* keeps the others in memory.  And without a timeout the saves begin only
\* when no live worker has a file.
AllSavedBeforeStop ==
  /\ is_train /\ (\E p \in PS : csq[p] = "terminate" \/ ps[p] = "stopped") => saved = PS
  /\ Timeout = 0 /\ (\E p \in PS : csq[p] # "none" \/ ps[p] \in {"saving", "stopped"}) =>
        \A w \in Worker : wk[w] \notin {"train", "notify"}

\* A worker that once reached the coord server ends by leaving its loop, never
\* by the DXCHECK_THROW on ConnectRetry, on the notify or on a pull, unless a
\* param server is gone.
NormalExit == AllUp => \A w \in Worker : wk[w] # "abort"

\* Prediction ends that way: whatever workers crash, and whenever.
PredictionExits == ~is_train => NormalExit

-----------------------------------------------------------------------------
(* Liveness.  Each thread that is neither blocked nor crashed goes on; a    *)
(* crash is noticed (the kernel closes the socket); crashes are not fair.   *)

Fairness ==
  /\ WF_vars(CsPreTrain) /\ WF_vars(CsBeginEpoch) /\ WF_vars(CsDumpModel)
  /\ WF_vars(CsTerminatePS) /\ WF_vars(CsAbort) /\ WF_vars(CsExit) /\ WF_vars(CsTick)
  /\ \A w \in Worker :
       /\ WF_vars(OnFileRequest(w)) /\ WF_vars(OnFileFinishNotify(w))
       /\ WF_vars(DeleteConnection(w)) /\ WF_vars(WkStep(w))
  /\ \A p \in PS :
       /\ WF_vars(PsSaveBegin(p)) /\ WF_vars(PsSaveEnd(p)) /\ WF_vars(PsTerminate(p))
       /\ \A w \in Worker : WF_vars(PsPush(p, w))

FairSpec == Spec /\ Fairness

\* Everybody has crashed, or ended by an assertion, in the middle of training.
NobodyLeft == ~TrainingOver /\ \A w \in Worker : wk[w] \in {"crashed", "abort"}

\* As long as one worker and all param servers survive, the job ends: every
\* epoch is finished, the model is saved, every param server stops and every
\* worker process ends.
JobEnds ==
  <>(\/ NobodyLeft \/ ~AllUp
     \/ /\ stage = "exit"
        /\ \A p \in PS : ps[p] = "stopped"
        /\ \A w \in Worker : wk[w] \in {"exit", "abort", "refused", "crashed"})
=============================================================================
