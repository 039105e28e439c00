------------------------ MODULE DistTrainingProofs ------------------------
(***************************************************************************)
(* Proofs about DistTraining, for every set of files, workers and param    *)
(* servers, every number of epochs and whatever crashes: the coord server  *)
(* and its workers drive the dispatcher as its specification allows, so    *)
(* that what FileDispatcherProofs shows holds of the whole job; files stay *)
(* on the books; and nothing is stopped before everything is saved.        *)
(***************************************************************************)
EXTENDS DistTraining, FiniteSetTheorems, SequenceTheorems, TLAPS

FDP == INSTANCE FileDispatcherProofs WITH MaxFailure <- Cardinality(Worker)

-----------------------------------------------------------------------------
(* What is said between a worker and the coord server. *)

\* What a connection whose worker is gone may still bring.
Queue(w) ==
  \/ toCS[w] = <<>>
  \/ holding[w] = NoFile /\ toCS[w] = <<FileRequest>>
  \/ holding[w] # NoFile /\ toCS[w] = <<FinishNotify(holding[w])>>
  \/ holding[w] # NoFile /\ toCS[w] = <<FinishNotify(holding[w]), FileRequest>>

\* A conversation, from asking for a file to having finished it.
Talk(w) ==
  \/ wk[w] = "ask" /\ toWK[w] = <<>> /\ holding[w] = NoFile /\ toCS[w] = <<>>
  \/ wk[w] = "ask" /\ toWK[w] = <<>> /\ holding[w] # NoFile
       /\ toCS[w] = <<FinishNotify(holding[w])>>
  \/ wk[w] = "wait" /\ toWK[w] = <<>> /\ holding[w] = NoFile /\ toCS[w] = <<FileRequest>>
  \/ wk[w] = "wait" /\ toWK[w] = <<>> /\ holding[w] # NoFile
       /\ toCS[w] = <<FinishNotify(holding[w]), FileRequest>>
  \/ wk[w] = "wait" /\ toCS[w] = <<>> /\ toWK[w] = <<FileResponse(holding[w])>>
  \/ wk[w] \in {"train", "notify"} /\ toWK[w] = <<>> /\ toCS[w] = <<>>
       /\ holding[w] = wfile[w] /\ holding[w] # NoFile /\ wepoch[w] = CsEpoch

Died == {"crashed", "abort"}
InLoop == {"ask", "wait", "train", "notify"}

Conn(w) ==
  /\ link[w] = "open" => Talk(w) /\ phase # "idle"
  /\ link[w] = "closing" => wk[w] \in Died /\ Queue(w)
  /\ link[w] = "dead" => wk[w] \in InLoop \cup {"abort"}
  /\ link[w] = "none" => wk[w] \notin InLoop
  /\ phase # "over" /\ link[w] \in {"none", "dead"} => toCS[w] = <<>> /\ holding[w] = NoFile

Typed ==
  /\ holding \in [Worker -> File \cup {NoFile}]
  /\ link \in [Worker -> {"none", "open", "closing", "dead"}]
  /\ toCS = [w \in Worker |-> toCS[w]] /\ toWK = [w \in Worker |-> toWK[w]]
  /\ wk = [w \in Worker |-> wk[w]]
  /\ wfile = [w \in Worker |-> wfile[w]] /\ wepoch = [w \in Worker |-> wepoch[w]]
  /\ inread \subseteq Worker
  /\ phase \in {"idle", "epoch", "over"}
  /\ failures \in Nat

\* The end of an epoch: nothing is left to hand out, and only the OnRead that
\* noticed goes on.
OverInv ==
  /\ phase = "over" => to_dispatch = <<>> /\ FD!InFlight = {}
  /\ \A w \in inread : phase = "over" /\ holding[w] = NoFile
  /\ stage # "train" => TrainingOver

\* Workers whose connection has been given up.
Lost == {w \in Worker : wk[w] \in Died /\ link[w] # "closing"}

IInv ==
  /\ Typed
  /\ \A w \in Worker : Conn(w)
  /\ OverInv
  /\ failures <= Cardinality(Lost)

-----------------------------------------------------------------------------
(* Facts about the data. *)

\* The queues are short.
LEMMA Queues ==
  ASSUME NEW a, NEW b
  PROVE  /\ Head(<<a>>) = a /\ Tail(<<a>>) = <<>> /\ <<a>> # <<>>
         /\ Head(<<a, b>>) = a /\ Tail(<<a, b>>) = <<b>> /\ <<a, b>> # <<>>
         /\ Append(<<>>, a) = <<a>> /\ Append(<<a>>, b) = <<a, b>>
<1>1. Append(<<a>>, b) = <<a, b>>
  <2> DEFINE S == {a, b}
  <2>1. /\ <<a>> \in Seq(S) /\ <<a, b>> \in Seq(S)
        /\ Len(<<a>>) = 1 /\ Len(<<a, b>>) = 2
    OBVIOUS
  <2>2. Append(<<a>>, b) \in Seq(S) /\ Len(Append(<<a>>, b)) = 2
    BY <2>1, AppendProperties
  <2>3. \A i \in 1..2 : Append(<<a>>, b)[i] = <<a, b>>[i]
    BY <2>1, AppendProperties
  <2> QED  BY <2>1, <2>2, <2>3, SeqEqual
<1> QED  BY <1>1

\* Messages are told apart by their type.
LEMMA Messages ==
  ASSUME NEW f
  PROVE  /\ FileRequest.type = "request"
         /\ FinishNotify(f).type = "finish" /\ FinishNotify(f).file = f
         /\ FileResponse(f).file = f /\ FileResponse(f).epoch = CsEpoch
BY DEF FileRequest, FinishNotify, FileResponse

\* A connection that a step leaves alone.
LEMMA ConnKept ==
  ASSUME NEW w, Conn(w), link'[w] = link[w], toCS'[w] = toCS[w], toWK'[w] = toWK[w],
         wk'[w] = wk[w], wfile'[w] = wfile[w], wepoch'[w] = wepoch[w],
         holding'[w] = holding[w], epoch' = epoch, phase' \in {phase, "over"}
  PROVE  Conn(w)'
BY DEF Conn, Talk, Queue, FileRequest, FinishNotify, FileResponse, CsEpoch

-----------------------------------------------------------------------------
(* The invariant. *)

\* Before the job nobody is connected.
LEMMA InitIInv == Init => IInv
<1> SUFFICES ASSUME Init PROVE IInv  OBVIOUS
<1>1. Typed  BY DEF Init, FD!Init, Typed
<1>2. \A w \in Worker : Conn(w)  BY DEF Init, FD!Init, Conn, InLoop
<1>3. OverInv  BY DEF Init, FD!Init, OverInv
<1>4. Cardinality(Lost) \in Nat
  BY DistAssumption, FS_Subset, FS_CardinalityType DEF Lost
<1> QED  BY <1>1, <1>2, <1>3, <1>4 DEF IInv, Init, FD!Init

\* Every step keeps the types.
LEMMA StepTyped == Typed /\ [Next]_vars => Typed'
<1> SUFFICES ASSUME Typed, [Next]_vars PROVE Typed'  OBVIOUS
<1> USE DEF Typed, owner, worker, net, server
<1>1. CASE UNCHANGED vars  BY <1>1 DEF vars
<1>2. CASE CsPreTrain  BY <1>2 DEF CsPreTrain, FD!Train
<1>3. CASE CsBeginEpoch  BY <1>3 DEF CsBeginEpoch, FD!BeginEpoch, Closed
<1>4. CASE CsDumpModel \/ CsTerminatePS  BY <1>4 DEF CsDumpModel, CsTerminatePS
<1>5. CASE CsAbort \/ CsExit  BY <1>5 DEF CsAbort, CsExit, Closed
<1>6. CASE CsTick  BY <1>6 DEF CsTick, FD!Tick
<1>7. ASSUME NEW w \in Worker, OnFileRequest(w) PROVE Typed'
  BY <1>7 DEF OnFileRequest, Received
<1>8. ASSUME NEW w \in Worker, OnFileFinishNotify(w) PROVE Typed'
  BY <1>8 DEF OnFileFinishNotify, Received
<1>9. ASSUME NEW w \in Worker, DeleteConnection(w) PROVE Typed'
  <2>1. failures' \in Nat  BY <1>9 DEF DeleteConnection
  <2>2. /\ holding' \in [Worker -> File \cup {NoFile}]
        /\ link' \in [Worker -> {"none", "open", "closing", "dead"}]
        /\ toCS' = [v \in Worker |-> toCS'[v]]
        /\ UNCHANGED <<toWK, worker, inread, phase>>
    BY <1>9 DEF DeleteConnection
  <2> QED  BY <2>1, <2>2
<1>10. CASE PsNext
  BY <1>10 DEF PsNext, PsPush, PsLosePush, PsSaveBegin, PsSaveEnd, PsTerminate, PsCrash
<1>11. ASSUME NEW w \in Worker, WkStep(w) PROVE Typed'
  BY <1>11 DEF WkStep, WkInit, WkConnect, WkGiveUp, WkFileRequest, WkFileResponse, WkRequestFailed,
               WkTrainFile, WkPullFailed, WkFileFinishNotify, Goto, Send, Die
<1>12. ASSUME NEW w \in Worker, WkCrash(w) PROVE Typed'
  BY <1>12 DEF WkCrash, Goto, Die
<1> QED  BY <1>1, <1>2, <1>3, <1>4, <1>5, <1>6, <1>7, <1>8, <1>9, <1>10, <1>11, <1>12 DEF Next, CsNext

\* A notify is handled in its epoch, and names the file on the books.
LEMMA FinishInEpoch ==
  ASSUME Typed, OverInv, NEW w \in Worker, Conn(w), OnFileFinishNotify(w)
  PROVE  /\ phase = "epoch" /\ holding[w] # NoFile /\ Head(toCS[w]).file = holding[w]
         /\ \/ toCS[w] = <<FinishNotify(holding[w])>>
            \/ toCS[w] = <<FinishNotify(holding[w]), FileRequest>>
         /\ link[w] = "open" => toWK[w] = <<>>
         /\ link[w] = "open" /\ toCS[w] = <<FinishNotify(holding[w])>> => wk[w] = "ask"
         /\ link[w] = "open" /\ toCS[w] = <<FinishNotify(holding[w]), FileRequest>> => wk[w] = "wait"
<1> DEFINE fin == FinishNotify(holding[w])
<1>0. /\ toCS[w] # <<>> /\ Head(toCS[w]).type = "finish" /\ link[w] \in {"open", "closing"}
      /\ phase = "epoch" \/ w \in inread
      /\ fin.type = "finish" /\ fin.file = holding[w] /\ FileRequest.type = "request"
  BY Messages DEF OnFileFinishNotify, Handles
<1>1. /\ Head(<<FileRequest>>) = FileRequest /\ <<fin>> # <<fin, FileRequest>>
      /\ Head(<<fin>>) = fin /\ Head(<<fin, FileRequest>>) = fin /\ "request" # "finish"
  OBVIOUS
<1>2. CASE link[w] = "open"
  <2>1. Talk(w)  BY <1>2 DEF Conn
  <2> HIDE DEF fin
  <2> QED  BY <1>0, <1>1, <1>2, <2>1 DEF Talk, fin, OverInv
<1>3. CASE link[w] = "closing"
  <2>1. Queue(w)  BY <1>3 DEF Conn
  <2> HIDE DEF fin
  <2> QED  BY <1>0, <1>1, <1>3, <2>1 DEF Queue, fin, OverInv
<1> QED  BY <1>0, <1>2, <1>3

\* What the coord server does keeps every conversation in order.
LEMMA CsKeepsConn ==
  ASSUME IInv, CsNext, NEW v \in Worker
  PROVE  Conn(v)'
<1> USE DEF owner, worker, net, server
<1>0. Typed /\ Conn(v) /\ OverInv  BY DEF IInv
<1>1. CASE CsPreTrain  BY <1>0, <1>1, ConnKept DEF CsPreTrain, FD!Train
<1>2. CASE CsBeginEpoch
  <2>1. /\ link'[v] = (CASE link[v] = "open" -> "dead" [] link[v] = "closing" -> "none"
                          [] OTHER -> link[v])
        /\ toCS'[v] = <<>> /\ holding'[v] = NoFile /\ wk'[v] = wk[v]
    BY <1>2 DEF CsBeginEpoch, FD!BeginEpoch, Closed
  <2>2. link'[v] \in {"none", "dead"}  BY <2>1, <1>0 DEF Typed
  <2> QED  BY <1>0, <2>1, <2>2 DEF Conn, Talk, InLoop, Died
<1>3. CASE CsDumpModel \/ CsTerminatePS \/ CsTick
  BY <1>0, <1>3, ConnKept DEF CsDumpModel, CsTerminatePS, CsTick, FD!Tick
<1>4. CASE CsAbort \/ CsExit
  <2>1. /\ link'[v] = (CASE link[v] = "open" -> "dead" [] link[v] = "closing" -> "none"
                          [] OTHER -> link[v])
        /\ wk'[v] = wk[v] /\ phase' = phase
    BY <1>4 DEF CsAbort, CsExit, Closed
  <2>2. link'[v] \in {"none", "dead"}  BY <2>1, <1>0 DEF Typed
  <2>3. phase = "over"  BY <1>0, <1>4 DEF CsAbort, CsExit, OverInv, TrainingOver
  <2> QED  BY <1>0, <2>1, <2>2, <2>3 DEF Conn, Talk, InLoop, Died
<1>5. ASSUME NEW w \in Worker, OnFileRequest(w) \/ OnFileFinishNotify(w) \/ DeleteConnection(w), v # w
      PROVE  Conn(v)'
  BY <1>0, <1>5, ConnKept DEF OnFileRequest, OnFileFinishNotify, DeleteConnection, Received, Typed
<1>6. CASE OnFileRequest(v)
  <2>1. /\ toCS[v] = <<FileRequest>> /\ holding[v] = NoFile
        /\ link[v] = "open" => wk[v] = "wait" /\ toWK[v] = <<>>
    BY <1>0, <1>6, Queues, Messages DEF OnFileRequest, Handles, Conn, Talk, Queue
  <2>2. toCS'[v] = <<>>  BY <1>0, <1>6, <2>1, Queues DEF OnFileRequest, Received, Typed
  <2>3. toWK'[v] = Append(toWK[v], FileResponse(holding'[v]))
    BY <1>0, <1>6, <2>1 DEF OnFileRequest, Typed
  <2>4. /\ link' = link /\ wk' = wk /\ phase' = phase /\ epoch' = epoch
        /\ link[v] \in {"open", "closing"}
    BY <1>6 DEF OnFileRequest, Handles
  <2> QED  BY <1>0, <2>1, <2>2, <2>3, <2>4, Queues DEF Conn, Talk, Queue, FileResponse, CsEpoch
<1>7. CASE OnFileFinishNotify(v)
  <2> DEFINE fin == FinishNotify(holding[v])
  <2>1. /\ \/ toCS[v] = <<fin>>
           \/ toCS[v] = <<fin, FileRequest>>
        /\ link[v] = "open" => toWK[v] = <<>>
        /\ link[v] = "open" /\ toCS[v] = <<fin>> => wk[v] = "ask"
        /\ link[v] = "open" /\ toCS[v] = <<fin, FileRequest>> => wk[v] = "wait"
    BY <1>0, <1>7, FinishInEpoch
  <2>2. /\ toCS[v] = <<fin>> => toCS'[v] = <<>>
        /\ toCS[v] = <<fin, FileRequest>> => toCS'[v] = <<FileRequest>>
    <3>1. toCS'[v] = Tail(toCS[v])  BY <1>0, <1>7 DEF OnFileFinishNotify, Received, Typed
    <3>2. Tail(<<fin>>) = <<>> /\ Tail(<<fin, FileRequest>>) = <<FileRequest>>  BY Queues
    <3> QED  BY <3>1, <3>2
  <2>3. holding'[v] = NoFile  BY <1>0, <1>7 DEF OnFileFinishNotify, Typed
  <2>4. /\ link' = link /\ wk' = wk /\ phase' \in {phase, "over"} /\ toWK' = toWK
        /\ link[v] \in {"open", "closing"}
    BY <1>7 DEF OnFileFinishNotify, Handles
  <2> QED  BY <1>0, <2>1, <2>2, <2>3, <2>4, Queues DEF Conn, Talk, Queue, FileRequest
<1>8. CASE DeleteConnection(v)
  BY <1>0, <1>8 DEF DeleteConnection, Typed, Conn, Died, InLoop
<1> QED  BY <1>1, <1>2, <1>3, <1>4, <1>5, <1>6, <1>7, <1>8 DEF CsNext

\* What a worker does keeps its conversation in order, and all others.
LEMMA WkKeepsConn ==
  ASSUME IInv, NEW w \in Worker, WkStep(w) \/ WkCrash(w), NEW v \in Worker
  PROVE  Conn(v)'
<1> USE DEF owner, worker, net, server
<1>0. Typed /\ Conn(v) /\ OverInv  BY DEF IInv
<1>1. CASE v # w
  BY <1>0, <1>1, ConnKept DEF WkStep, WkInit, WkConnect, WkGiveUp, WkFileRequest, WkFileResponse,
     WkRequestFailed, WkTrainFile, WkPullFailed, WkFileFinishNotify, WkCrash, Goto, Send, Die, Typed
<1>2. CASE WkInit(v) \/ WkGiveUp(v)
  BY <1>0, <1>2 DEF WkInit, WkGiveUp, Goto, Typed, Conn, Talk, Died, InLoop
<1>3. CASE WkConnect(v)
  <2>1. link[v] = "none"  BY <1>0, <1>3 DEF WkConnect, Conn, Talk, Died, InLoop, Typed
  <2> QED  BY <1>0, <1>3, <2>1 DEF WkConnect, Goto, Typed, Conn, Talk
<1>4. CASE WkFileRequest(v)
  <2>1. wk[v] = "ask" /\ wk'[v] = "wait" /\ UNCHANGED <<holding, link, toWK, phase, epoch>>
    BY <1>0, <1>4 DEF WkFileRequest, Goto, Typed
  <2>2. toCS'[v] = IF link[v] = "open" THEN Append(toCS[v], FileRequest) ELSE toCS[v]
    BY <1>0, <1>4 DEF WkFileRequest, Send, Typed
  <2>3. CASE link[v] = "open"
    <3>1. /\ toWK[v] = <<>> /\ phase # "idle"
          /\ \/ holding[v] = NoFile /\ toCS[v] = <<>>
             \/ holding[v] # NoFile /\ toCS[v] = <<FinishNotify(holding[v])>>
      BY <1>0, <2>1, <2>3 DEF Conn, Talk
    <3>2. CASE toCS[v] = <<>>
      <4>1. toCS'[v] = <<FileRequest>>  BY <2>2, <2>3, <3>2, Queues
      <4> QED  BY <2>1, <2>3, <3>1, <3>2, <4>1 DEF Conn, Talk, FileRequest
    <3>3. CASE toCS[v] = <<FinishNotify(holding[v])>>
      <4>1. toCS'[v] = <<FinishNotify(holding'[v]), FileRequest>>
        BY <2>1, <2>2, <2>3, <3>3, Queues
      <4>2. holding'[v] # NoFile  BY <2>1, <3>1, <3>3
      <4> QED  BY <2>1, <2>3, <3>1, <4>1, <4>2 DEF Conn, Talk, FileRequest, FinishNotify
    <3> QED  BY <3>1, <3>2, <3>3
  <2>4. CASE link[v] # "open"
    BY <1>0, <2>1, <2>2, <2>4 DEF Conn, Died, InLoop
  <2> QED  BY <2>3, <2>4
<1>5. CASE WkFileResponse(v)
  <2>1. /\ wk[v] = "wait" /\ toWK[v] # <<>> /\ UNCHANGED <<holding, link, toCS, phase, epoch>>
        /\ wk'[v] = IF Head(toWK[v]).file = NoFile THEN "ask" ELSE "train"
        /\ wfile'[v] = Head(toWK[v]).file /\ wepoch'[v] = Head(toWK[v]).epoch
        /\ toWK'[v] = Tail(toWK[v])
    BY <1>0, <1>5 DEF WkFileResponse, Goto, Typed
  <2>2. CASE link[v] = "open"
    <3>1. toCS[v] = <<>> /\ toWK[v] = <<FileResponse(holding[v])>> /\ phase # "idle"
      BY <1>0, <2>1, <2>2 DEF Conn, Talk
    <3>2. Head(toWK[v]) = FileResponse(holding[v]) /\ Tail(toWK[v]) = <<>>
      BY <3>1, Queues
    <3> QED  BY <2>1, <2>2, <3>1, <3>2, Messages DEF Conn, Talk, CsEpoch
  <2>3. CASE link[v] # "open"
    BY <1>0, <2>1, <2>3 DEF Conn, Died, InLoop
  <2> QED  BY <2>2, <2>3
<1>6. CASE WkRequestFailed(v)
  BY <1>0, <1>6 DEF WkRequestFailed, Goto, Typed, Conn, InLoop
<1>7. CASE WkTrainFile(v)
  BY <1>0, <1>7 DEF WkTrainFile, Goto, Typed, Conn, Talk, Died, InLoop, CsEpoch
<1>8. CASE WkPullFailed(v)
  <2>1. /\ wk[v] = "train" /\ wk'[v] = "abort" /\ UNCHANGED <<holding, toCS, phase, epoch>>
        /\ link'[v] = IF link[v] = "open" THEN "closing" ELSE "none"
    BY <1>0, <1>8 DEF WkPullFailed, Die, Goto, Typed
  <2> QED  BY <1>0, <2>1 DEF Conn, Talk, Queue, Died, InLoop, Typed
<1>9. CASE WkFileFinishNotify(v)
  <2>1. /\ wk[v] = "notify" /\ UNCHANGED <<holding, link, toWK, phase, epoch>>
        /\ wk'[v] = "ask" \/ (link[v] = "dead" /\ wk'[v] = "abort")
    BY <1>0, <1>9 DEF WkFileFinishNotify, Goto, Typed
  <2>2. toCS'[v] = IF link[v] = "open" THEN Append(toCS[v], FinishNotify(wfile[v])) ELSE toCS[v]
    BY <1>0, <1>9 DEF WkFileFinishNotify, Send, Typed
  <2>3. CASE link[v] = "open"
    <3>1. /\ toWK[v] = <<>> /\ toCS[v] = <<>> /\ phase # "idle"
          /\ holding[v] = wfile[v] /\ holding[v] # NoFile
      BY <1>0, <2>1, <2>3 DEF Conn, Talk
    <3> QED  BY <2>1, <2>2, <2>3, <3>1, Queues DEF Conn, Talk, FinishNotify
  <2>4. CASE link[v] # "open"
    BY <1>0, <2>1, <2>2, <2>4 DEF Conn, Died, InLoop
  <2> QED  BY <2>3, <2>4
<1>10. CASE WkCrash(v)
  <2>1. /\ wk'[v] = "crashed" /\ UNCHANGED <<holding, toCS, phase, epoch>>
        /\ link'[v] = IF link[v] = "open" THEN "closing" ELSE "none"
        /\ wk[v] \notin Died
    BY <1>0, <1>10 DEF WkCrash, Die, Goto, Typed, Died
  <2> QED  BY <1>0, <2>1 DEF Conn, Talk, Queue, Died, InLoop, Typed
<1> QED  BY <1>1, <1>2, <1>3, <1>4, <1>5, <1>6, <1>7, <1>8, <1>9, <1>10 DEF WkStep

\* Every step keeps the conversations in order.
LEMMA StepConn == IInv /\ [Next]_vars => \A v \in Worker : Conn(v)'
<1> SUFFICES ASSUME IInv, [Next]_vars, NEW v \in Worker PROVE Conn(v)'  OBVIOUS
<1>1. CASE UNCHANGED vars \/ PsNext
  BY <1>1, ConnKept DEF IInv, vars, PsNext, PsPush, PsLosePush, PsSaveBegin, PsSaveEnd, PsTerminate, PsCrash,
                        owner, worker, net
<1> QED  BY <1>1, CsKeepsConn, WkKeepsConn DEF Next

\* Every step keeps the end of an epoch empty, and the stages in their order.
LEMMA StepOver == IInv /\ [Next]_vars => OverInv'
<1> SUFFICES ASSUME IInv, [Next]_vars PROVE OverInv'  OBVIOUS
<1> USE DEF owner, worker, net, server, dispatcher
<1>0. OverInv /\ Typed  BY DEF IInv
<1>1. CASE UNCHANGED vars \/ PsNext
  BY <1>0, <1>1 DEF OverInv, vars, PsNext, PsPush, PsLosePush, PsSaveBegin, PsSaveEnd, PsTerminate, PsCrash,
                    TrainingOver, Epochs, FD!InFlight
<1>2. CASE CsPreTrain
  BY <1>0, <1>2 DEF OverInv, CsPreTrain, FD!Train, TrainingOver, Epochs, FD!InFlight
<1>3. CASE CsBeginEpoch
  <2>1. stage = "train"
    BY <1>0, <1>3, DistAssumption DEF CsBeginEpoch, FD!BeginEpoch, OverInv, TrainingOver, Epochs
  <2> QED  BY <1>3, <2>1 DEF OverInv, CsBeginEpoch, FD!BeginEpoch
<1>4. CASE CsDumpModel \/ CsTerminatePS \/ CsAbort \/ CsExit
  BY <1>0, <1>4 DEF CsDumpModel, CsTerminatePS, CsAbort, CsExit, OverInv, TrainingOver, Epochs, FD!InFlight
<1>5. CASE CsTick
  BY <1>0, <1>5 DEF OverInv, CsTick, FD!Tick, TrainingOver, Epochs
<1>6. ASSUME NEW w \in Worker, OnFileRequest(w) PROVE OverInv'
  <2>1. CASE phase = "over"
    <3>1. UNCHANGED <<dispatcher, holding>>
      BY <1>0, <1>6, <2>1 DEF OnFileRequest, OverInv, FD!WorkerDispatchFile, FD!DispatchFront,
                               FD!DispatchTimedOut
    <3> QED  BY <1>0, <1>6, <3>1 DEF OverInv, OnFileRequest, TrainingOver, Epochs, FD!InFlight
  <2>2. CASE phase # "over"
    BY <1>0, <1>6, <2>2 DEF OnFileRequest, OverInv, TrainingOver, Epochs
  <2> QED  BY <2>1, <2>2
<1>7. ASSUME NEW w \in Worker, OnFileFinishNotify(w) PROVE OverInv'
  <2>1. holding'[w] = NoFile /\ UNCHANGED <<epoch, stage, is_train>>
    BY <1>0, <1>7 DEF OnFileFinishNotify, Typed
  <2>2. phase = "epoch"  BY <1>0, <1>7, FinishInEpoch DEF IInv
  <2>3. stage = "train"  BY <1>0, <2>2 DEF OverInv, TrainingOver
  <2>4. inread = {}  BY <1>0, <2>2 DEF OverInv
  <2>5. CASE FD!EpochIsFinished
    <3>1. to_dispatch' = <<>> /\ FD!InFlight' = {} /\ inread' = {w} /\ phase' = "over"
      BY <1>7, <2>5 DEF OnFileFinishNotify, FD!EpochIsFinished, FD!InFlight
    <3> QED  BY <2>1, <2>3, <3>1 DEF OverInv
  <2>6. CASE ~FD!EpochIsFinished
    <3>1. inread' = {} /\ phase' = "epoch"  BY <1>7, <2>2, <2>4, <2>6 DEF OnFileFinishNotify
    <3> QED  BY <2>1, <2>3, <3>1 DEF OverInv
  <2> QED  BY <2>5, <2>6
<1>8. ASSUME NEW w \in Worker, DeleteConnection(w) PROVE OverInv'
  BY <1>0, <1>8 DEF DeleteConnection, OverInv, TrainingOver
<1>9. ASSUME NEW w \in Worker, WkStep(w) \/ WkCrash(w) PROVE OverInv'
  BY <1>0, <1>9 DEF WkStep, WkInit, WkConnect, WkGiveUp, WkFileRequest, WkFileResponse, WkRequestFailed,
     WkTrainFile, WkPullFailed, WkFileFinishNotify, WkCrash, OverInv, TrainingOver, Epochs, FD!InFlight
<1> QED  BY <1>1, <1>2, <1>3, <1>4, <1>5, <1>6, <1>7, <1>8, <1>9 DEF Next, CsNext

\* A request comes from empty hands.
LEMMA RequestIsFree ==
  ASSUME Typed, OverInv, NEW w \in Worker, Conn(w), OnFileRequest(w)
  PROVE  /\ holding[w] = NoFile
         /\ phase = "epoch" \/ UNCHANGED <<dispatcher, holding>>
<1>1. holding[w] = NoFile
  BY Queues, Messages DEF OnFileRequest, Handles, Conn, Talk, Queue
<1>2. phase = "over" => UNCHANGED <<dispatcher, holding>>
  BY DEF OnFileRequest, OverInv, FD!WorkerDispatchFile, FD!DispatchFront, FD!DispatchTimedOut, dispatcher
<1>3. phase \in {"epoch", "over"}  BY DEF OnFileRequest, Handles, OverInv
<1> QED  BY <1>1, <1>2, <1>3

\* A worker that is lost stays lost.
LEMMA LostGrows ==
  ASSUME IInv, [Next]_vars
  PROVE  /\ Lost \subseteq Lost' /\ IsFiniteSet(Lost')
         /\ Cardinality(Lost) \in Nat /\ Cardinality(Lost') \in Nat
         /\ Cardinality(Lost) <= Cardinality(Lost')
<1> USE DEF owner, worker, net, server
<1>0. Typed  BY DEF IInv
<1>1. ASSUME NEW v \in Lost PROVE v \in Lost'
  <2>1. v \in Worker /\ wk[v] \in Died /\ link[v] # "closing"  BY <1>1 DEF Lost
  <2>2. CASE UNCHANGED vars \/ PsNext
    BY <2>1, <2>2 DEF Lost, vars, PsNext, PsPush, PsLosePush, PsSaveBegin, PsSaveEnd, PsTerminate, PsCrash
  <2>3. CASE CsNext
    BY <1>0, <2>1, <2>3 DEF Lost, CsNext, CsPreTrain, CsBeginEpoch, CsDumpModel, CsTerminatePS, CsAbort, CsExit,
       CsTick, OnFileRequest, OnFileFinishNotify, DeleteConnection, Closed, Typed
  <2>4. ASSUME NEW w \in Worker, WkStep(w) \/ WkCrash(w) PROVE v \in Lost'
    <3>1. wk'[v] = wk[v] /\ link'[v] = link[v]
      BY <1>0, <2>1, <2>4 DEF WkStep, WkInit, WkConnect, WkGiveUp, WkFileRequest, WkFileResponse, WkRequestFailed,
         WkTrainFile, WkPullFailed, WkFileFinishNotify, WkCrash, Goto, Die, Typed, Died
    <3> QED  BY <2>1, <3>1 DEF Lost
  <2> QED  BY <2>2, <2>3, <2>4 DEF Next
<1>2. IsFiniteSet(Lost) /\ IsFiniteSet(Lost')  BY DistAssumption, FS_Subset DEF Lost
<1> QED  BY <1>1, <1>2, FS_Subset, FS_CardinalityType

\* A connection that is given up is one more.
LEMMA OneMoreLost ==
  ASSUME IInv, [Next]_vars, NEW w \in Worker, DeleteConnection(w)
  PROVE  /\ Cardinality(Lost) + 1 <= Cardinality(Lost')
         /\ Cardinality(Lost) < Cardinality(Worker)
<1>0. Typed /\ Conn(w)  BY DEF IInv
<1>1. link[w] = "closing" /\ wk[w] \in Died /\ link'[w] = "none" /\ wk'[w] = wk[w]
  BY <1>0 DEF DeleteConnection, Conn, Typed, worker
<1>2. w \notin Lost /\ w \in Lost'  BY <1>1 DEF Lost
<1>3. IsFiniteSet(Lost) /\ IsFiniteSet(Worker)  BY DistAssumption, FS_Subset DEF Lost
<1>4. Cardinality(Lost \cup {w}) = Cardinality(Lost) + 1 /\ IsFiniteSet(Lost \cup {w})
  BY <1>2, <1>3, FS_AddElement
<1>5. Lost \cup {w} \subseteq Lost' /\ Lost \cup {w} \subseteq Worker
  BY <1>2, LostGrows DEF Lost
<1>6. Cardinality(Lost \cup {w}) <= Cardinality(Lost')  BY <1>5, LostGrows, FS_Subset
<1>7. Cardinality(Lost \cup {w}) <= Cardinality(Worker)  BY <1>3, <1>5, FS_Subset
<1>8. Cardinality(Lost) \in Nat /\ Cardinality(Worker) \in Nat  BY <1>3, FS_CardinalityType
<1> QED  BY <1>4, <1>6, <1>7, <1>8

\* Every step keeps the invariant.
LEMMA StepIInv == IInv /\ [Next]_vars => IInv'
<1> SUFFICES ASSUME IInv, [Next]_vars PROVE IInv'  OBVIOUS
<1>1. Typed'  BY StepTyped DEF IInv
<1>2. \A v \in Worker : Conn(v)'  BY StepConn
<1>3. OverInv'  BY StepOver
<1>4. failures' <= Cardinality(Lost')
  <2>1. CASE failures' = failures  BY <2>1, LostGrows DEF IInv, Typed
  <2>2. ASSUME NEW w \in Worker, DeleteConnection(w) PROVE failures' <= Cardinality(Lost')
    <3>1. failures' \in {failures, failures + 1}  BY <2>2 DEF DeleteConnection
    <3> QED  BY <2>2, <3>1, OneMoreLost, LostGrows DEF IInv, Typed
  <2>3. failures' = failures \/ \E w \in Worker : DeleteConnection(w)
    BY DEF Next, CsNext, CsPreTrain, FD!Train, CsBeginEpoch, FD!BeginEpoch, CsDumpModel, CsTerminatePS, CsAbort,
       CsExit, CsTick, FD!Tick, OnFileRequest, OnFileFinishNotify, PsNext, PsPush, PsLosePush, PsSaveBegin, PsSaveEnd,
       PsTerminate, PsCrash, WkStep, WkInit, WkConnect, WkGiveUp, WkFileRequest, WkFileResponse, WkRequestFailed,
       WkTrainFile, WkPullFailed, WkFileFinishNotify, WkCrash, owner, vars
  <2> QED  BY <2>1, <2>2, <2>3
<1> QED  BY <1>1, <1>2, <1>3, <1>4 DEF IInv

-----------------------------------------------------------------------------
(* The job implements the dispatcher's specification. *)

\* What the job does to the dispatcher is a step of the dispatcher, or none.
LEMMA StepIsDispatcherStep == IInv /\ [Next]_vars => [FD!Next]_(FD!vars)
<1> SUFFICES ASSUME IInv, [Next]_vars PROVE FD!Next \/ UNCHANGED <<dispatcher, owner>>
  BY DEF FD!vars, FD!fvars, dispatcher, owner
<1>0. Typed /\ OverInv /\ \A w \in Worker : Conn(w)  BY DEF IInv
<1>1. CASE UNCHANGED vars \/ PsNext \/ \E w \in Worker : WkStep(w) \/ WkCrash(w)
  BY <1>1 DEF vars, PsNext, PsPush, PsLosePush, PsSaveBegin, PsSaveEnd, PsTerminate, PsCrash, WkStep, WkInit,
     WkConnect, WkGiveUp, WkFileRequest, WkFileResponse, WkRequestFailed, WkTrainFile, WkPullFailed,
     WkFileFinishNotify, WkCrash
<1>2. CASE CsPreTrain \/ CsBeginEpoch \/ CsTick
  BY <1>2 DEF CsPreTrain, CsBeginEpoch, CsTick, FD!Next
<1>3. CASE CsDumpModel \/ CsTerminatePS \/ CsAbort \/ CsExit
  BY <1>3 DEF CsDumpModel, CsTerminatePS, CsAbort, CsExit
<1>4. ASSUME NEW w \in Worker, OnFileRequest(w) PROVE FD!Next \/ UNCHANGED <<dispatcher, owner>>
  <2>1. UNCHANGED <<phase, epoch, failures>>  BY <1>4 DEF OnFileRequest
  <2>2. holding[w] = NoFile /\ (phase = "epoch" \/ UNCHANGED <<dispatcher, holding>>)
    BY <1>0, <1>4, RequestIsFree
  <2>3. CASE UNCHANGED <<dispatcher, holding>>  BY <2>1, <2>3 DEF owner
  <2>4. CASE phase = "epoch" /\ ~UNCHANGED <<dispatcher, holding>>
    BY <1>4, <2>1, <2>2, <2>4 DEF OnFileRequest, FD!Next, FD!Dispatch
  <2> QED  BY <2>2, <2>3, <2>4
<1>5. ASSUME NEW w \in Worker, OnFileFinishNotify(w) PROVE FD!Next \/ UNCHANGED <<dispatcher, owner>>
  <2>1. phase = "epoch" /\ holding[w] # NoFile /\ Head(toCS[w]).file = holding[w]
    BY <1>0, <1>5, FinishInEpoch
  <2>2. FD!Finish(w)  BY <1>5, <2>1 DEF OnFileFinishNotify, FD!Finish
  <2> QED  BY <2>2 DEF FD!Next
<1>6. ASSUME NEW w \in Worker, DeleteConnection(w) PROVE FD!Next \/ UNCHANGED <<dispatcher, owner>>
  <2>1. CASE holding[w] = NoFile
    BY <1>0, <1>6, <2>1 DEF DeleteConnection, Typed, owner
  <2>2. CASE holding[w] # NoFile
    <3>1. failures < Cardinality(Worker)
      <4>1. Cardinality(Worker) \in Nat  BY DistAssumption, FS_CardinalityType
      <4> QED  BY <1>6, <4>1, OneMoreLost, LostGrows DEF IInv, Typed
    <3>2. FD!Fail(w)  BY <1>6, <2>2, <3>1 DEF DeleteConnection, FD!Fail
    <3> QED  BY <3>2 DEF FD!Next
  <2> QED  BY <2>1, <2>2
<1> QED  BY <1>1, <1>2, <1>3, <1>4, <1>5, <1>6 DEF Next, CsNext

\* The coord server and its workers drive the dispatcher only as its own
\* specification allows (CoordServer::OnFileRequest, OnFileFinishNotify,
\* DeleteConnection), whatever crashes.
THEOREM Implements == Spec => DispatcherSpec
<1>1. Init => FD!Init  BY DEF Init
<1> QED  BY <1>1, InitIInv, StepIInv, StepIsDispatcherStep, PTL DEF Spec, DispatcherSpec, FD!Spec

-----------------------------------------------------------------------------
(* What FileDispatcherProofs shows of the dispatcher holds in the job.  The *)
(* operators of the two instances of FileDispatcher are the same.           *)

\* As many files.
LEMMA SameN == FD!N = FDP!N
BY DEF FD!N, FDP!N, FD!Cardinality, FDP!Cardinality

\* The same actions.
LEMMA SameNext == FD!Next <=> FDP!Next
<1>1. FD!Orders = FDP!Orders
  BY SameN DEF FD!Orders, FDP!Orders, FD!Bijection, FDP!Bijection, FD!Injection, FDP!Injection,
     FD!Surjection, FDP!Surjection, FD!IsInjective, FDP!IsInjective
<1>2. FD!Train <=> FDP!Train
  BY <1>1 DEF FD!Train, FDP!Train, FD!PreTrain, FDP!PreTrain
<1>3. FD!BeginEpoch <=> FDP!BeginEpoch
  BY <1>1 DEF FD!BeginEpoch, FDP!BeginEpoch, FD!PreEpoch, FDP!PreEpoch
<1>4. \A w : FD!Dispatch(w) <=> FDP!Dispatch(w)
  BY DEF FD!Dispatch, FDP!Dispatch, FD!WorkerDispatchFile, FDP!WorkerDispatchFile, FD!DispatchFront,
     FDP!DispatchFront, FD!DispatchTimedOut, FDP!DispatchTimedOut, FD!Stamp, FDP!Stamp, FD!InFlight,
     FDP!InFlight
<1>5. \A f : FD!WorkerFinishFile(f) <=> FDP!WorkerFinishFile(f)
  BY SameN DEF FD!WorkerFinishFile, FDP!WorkerFinishFile, FD!Unstamp, FDP!Unstamp, FD!Restrict,
     FDP!Restrict, FD!InFlight, FDP!InFlight
<1>6. FD!EpochIsFinished <=> FDP!EpochIsFinished
  BY SameN DEF FD!EpochIsFinished, FDP!EpochIsFinished
<1>7. \A w : FD!Finish(w) <=> FDP!Finish(w)
  BY <1>5, <1>6 DEF FD!Finish, FDP!Finish
<1>8. \A w : FD!Fail(w) <=> FDP!Fail(w)
  BY DEF FD!Fail, FDP!Fail, FD!WorkerFailureFile, FDP!WorkerFailureFile, FD!Unstamp, FDP!Unstamp,
     FD!Restrict, FDP!Restrict, FD!InFlight, FDP!InFlight
<1>9. FD!Tick <=> FDP!Tick
  BY DEF FD!Tick, FDP!Tick, FD!Aged, FDP!Aged, FD!InFlight, FDP!InFlight
<1> QED  BY <1>2, <1>3, <1>4, <1>7, <1>8, <1>9 DEF FD!Next, FDP!Next

\* The same specification.
LEMMA SameSpec == FD!Spec => FDP!Spec
<1>1. FD!Init => FDP!Init  BY DEF FD!Init, FDP!Init
<1>2. [FD!Next]_(FD!vars) => [FDP!Next]_(FDP!vars)
  BY SameNext DEF FD!vars, FD!fvars, FDP!vars, FDP!fvars
<1> QED  BY <1>1, <1>2, PTL DEF FD!Spec, FDP!Spec

\* The constants of the job are fit for the dispatcher.
LEMMA DispatcherConstants == FDP!DispatcherAssumption
BY DistAssumption, FS_CardinalityType DEF FDP!DispatcherAssumption, FDP!IsFiniteSet, IsFiniteSet

\* Through lost connections, late notifications and new loops, no file of an
\* epoch of the job is lost (FileDispatcher, CoordServer).
THEOREM JobKeepsFiles == Spec => []FD!NoFileLost
<1>1. FDP!Spec => []FDP!NoFileLost  BY DispatcherConstants, FDP!FilesAreKept
<1>2. FDP!NoFileLost => FD!NoFileLost
  BY DEF FDP!NoFileLost, FD!NoFileLost, FDP!Waiting, FD!Waiting, FDP!Range, FD!Range, FDP!InFlight, FD!InFlight
<1> QED  BY <1>1, <1>2, SameSpec, Implements, PTL DEF DispatcherSpec

\* A file in flight is on one connection.
LEMMA JobExclusive == Spec => []FD!Exclusive
<1>1. FDP!Spec => []FDP!Exclusive  BY DispatcherConstants, FDP!ExclusiveWithoutTimeout
<1>2. FDP!Exclusive => FD!Exclusive
  BY DEF FDP!Exclusive, FD!Exclusive, FDP!Waiting, FD!Waiting, FDP!Range, FD!Range, FDP!InFlight, FD!InFlight,
     FDP!Cardinality, FD!Cardinality
<1> QED  BY <1>1, <1>2, SameSpec, Implements, PTL DEF DispatcherSpec

-----------------------------------------------------------------------------
(* Without a timeout, workers and books agree. *)

\* When an epoch is over no connection has a file, so that none is dropped
\* with a file.
BookInv ==
  Timeout = 0 =>
    /\ phase = "over" => \A w \in Worker : holding[w] = NoFile
    /\ \A w \in Worker : link[w] = "dead" =>
         /\ wk[w] \notin {"train", "notify"}
         /\ toWK[w] = <<>> \/ \E e : toWK[w] = <<[epoch |-> e, file |-> NoFile]>>

\* Every step keeps the books.
LEMMA StepBook == IInv /\ FD!Exclusive /\ BookInv /\ [Next]_vars => BookInv'
<1> SUFFICES ASSUME IInv, FD!Exclusive, BookInv, [Next]_vars, Timeout = 0 PROVE BookInv'
  BY DEF BookInv
<1> USE DEF owner, worker, net, server
<1>0. Typed /\ OverInv /\ \A w \in Worker : Conn(w)  BY DEF IInv
<1>1. CASE UNCHANGED vars \/ PsNext
  BY <1>1 DEF BookInv, vars, PsNext, PsPush, PsLosePush, PsSaveBegin, PsSaveEnd, PsTerminate, PsCrash
<1>2. CASE CsPreTrain \/ CsDumpModel \/ CsTerminatePS \/ CsTick
  BY <1>2 DEF BookInv, CsPreTrain, FD!Train, CsDumpModel, CsTerminatePS, CsTick, FD!Tick
<1>3. CASE CsBeginEpoch \/ CsAbort \/ CsExit
  <2>1. phase # "epoch"
    BY <1>0, <1>3 DEF CsBeginEpoch, FD!BeginEpoch, CsAbort, CsExit, OverInv, TrainingOver
  <2>2. /\ phase' = "over" => UNCHANGED <<phase, holding>>
        /\ \A w \in Worker : link'[w] = "dead" => link[w] \in {"open", "dead"}
        /\ UNCHANGED <<wk, toWK>>
    BY <1>0, <1>3 DEF CsBeginEpoch, FD!BeginEpoch, CsAbort, CsExit, Closed, Typed
  <2>3. ASSUME NEW w \in Worker, link[w] = "open"
        PROVE  /\ wk[w] \notin {"train", "notify"}
               /\ toWK[w] = <<>> \/ \E e : toWK[w] = <<[epoch |-> e, file |-> NoFile]>>
    <3>1. holding[w] = NoFile  BY <1>0, <2>1, <2>3 DEF Conn, BookInv, Typed
    <3> QED  BY <1>0, <2>3, <3>1 DEF Conn, Talk, FileResponse
  <2> QED  BY <2>2, <2>3 DEF BookInv
<1>4. ASSUME NEW w \in Worker, OnFileRequest(w) PROVE BookInv'
  <2>1. holding[w] = NoFile /\ (phase = "epoch" \/ UNCHANGED <<dispatcher, holding>>)
    BY <1>0, <1>4, RequestIsFree
  <2>2. /\ UNCHANGED <<phase, link, wk>> /\ link[w] # "dead"
        /\ \A v \in Worker \ {w} : toWK'[v] = toWK[v]
    BY <1>0, <1>4 DEF OnFileRequest, Handles, Typed
  <2> QED  BY <2>1, <2>2 DEF BookInv
<1>5. ASSUME NEW w \in Worker, OnFileFinishNotify(w) PROVE BookInv'
  <2>1. phase = "epoch" /\ holding[w] # NoFile /\ Head(toCS[w]).file = holding[w]
    BY <1>0, <1>5, FinishInEpoch
  <2>2. UNCHANGED <<link, wk, toWK>> /\ holding' = [holding EXCEPT ![w] = NoFile]
    BY <1>5 DEF OnFileFinishNotify
  <2>3. ASSUME phase' = "over", NEW v \in Worker, holding'[v] # NoFile PROVE FALSE
    <3>1. FD!InFlight' = {}  BY <1>5, <2>1, <2>3 DEF OnFileFinishNotify, FD!EpochIsFinished, FD!InFlight
    <3>2. v # w /\ holding[v] # NoFile  BY <1>0, <2>2, <2>3 DEF Typed
    <3>3. holding[v] \in FD!InFlight /\ holding[v] # holding[w]  BY <2>1, <3>2 DEF FD!Exclusive
    <3>4. FD!InFlight' = FD!InFlight \ {holding[w]}
      BY <1>5, <2>1 DEF OnFileFinishNotify, FD!WorkerFinishFile, FD!Unstamp, FD!Restrict, FD!InFlight
    <3> QED  BY <3>1, <3>3, <3>4
  <2> QED  BY <2>2, <2>3 DEF BookInv
<1>6. ASSUME NEW w \in Worker, DeleteConnection(w) PROVE BookInv'
  BY <1>0, <1>6 DEF DeleteConnection, BookInv, Typed
<1>7. ASSUME NEW w \in Worker, WkStep(w) \/ WkCrash(w) PROVE BookInv'
  <2>1. UNCHANGED <<phase, holding>>
    BY <1>7 DEF WkStep, WkInit, WkConnect, WkGiveUp, WkFileRequest, WkFileResponse, WkRequestFailed, WkTrainFile,
       WkPullFailed, WkFileFinishNotify, WkCrash
  <2>2. ASSUME NEW v \in Worker, v # w
        PROVE  wk'[v] = wk[v] /\ link'[v] = link[v] /\ toWK'[v] = toWK[v]
    BY <1>0, <1>7, <2>2 DEF WkStep, WkInit, WkConnect, WkGiveUp, WkFileRequest, WkFileResponse, WkRequestFailed,
       WkTrainFile, WkPullFailed, WkFileFinishNotify, WkCrash, Goto, Die, Typed
  <2>3. ASSUME link'[w] = "dead"
        PROVE  /\ wk'[w] \notin {"train", "notify"}
               /\ toWK'[w] = <<>> \/ \E e : toWK'[w] = <<[epoch |-> e, file |-> NoFile]>>
    <3>1. link[w] = "dead" /\ wk[w] \in InLoop \cup {"abort"}
      BY <1>0, <1>7, <2>3 DEF WkStep, WkInit, WkConnect, WkGiveUp, WkFileRequest, WkFileResponse, WkRequestFailed,
         WkTrainFile, WkPullFailed, WkFileFinishNotify, WkCrash, Die, Conn, Typed
    <3>2. /\ wk[w] \in {"ask", "wait", "abort"}
          /\ toWK[w] = <<>> \/ \E e : toWK[w] = <<[epoch |-> e, file |-> NoFile]>>
      BY <3>1 DEF BookInv, InLoop
    <3>3. CASE WkFileResponse(w)
      <4>1. PICK e : toWK[w] = <<[epoch |-> e, file |-> NoFile]>>
        BY <3>2, <3>3 DEF WkFileResponse
      <4>2. Head(toWK[w]).file = NoFile /\ Tail(toWK[w]) = <<>>  BY <4>1, Queues
      <4>3. wk'[w] = "ask" /\ toWK'[w] = <<>>
        BY <1>0, <3>3, <4>2 DEF WkFileResponse, Goto, Typed
      <4> QED  BY <4>3
    <3>4. CASE WkFileRequest(w)
      BY <1>0, <3>2, <3>4 DEF WkFileRequest, Goto, Typed
    <3>5. CASE WkRequestFailed(w) \/ WkCrash(w)
      BY <1>0, <2>3, <3>1, <3>5 DEF WkRequestFailed, WkCrash, Die, Typed
    <3> QED  BY <1>7, <3>2, <3>3, <3>4, <3>5 DEF WkStep, WkInit, WkConnect, WkGiveUp, WkTrainFile, WkPullFailed,
                WkFileFinishNotify
  <2> QED  BY <2>1, <2>2, <2>3 DEF BookInv
<1> QED  BY <1>1, <1>2, <1>3, <1>4, <1>5, <1>6, <1>7 DEF Next, CsNext

\* What the invariants say of a worker that has a file.
LEMMA AtWork ==
  ASSUME IInv, BookInv, Timeout = 0, NEW w \in Worker, wk[w] \in {"train", "notify"}
  PROVE  /\ phase = "epoch" /\ link[w] = "open"
         /\ holding[w] = wfile[w] /\ holding[w] # NoFile /\ wepoch[w] = CsEpoch
<1>1. Typed /\ Conn(w)  BY DEF IInv
<1>2. link[w] = "open"  BY <1>1 DEF Typed, Conn, BookInv, InLoop, Died
<1> QED  BY <1>1, <1>2 DEF Typed, Conn, Talk, BookInv

\* Both invariants.
LEMMA Books == Spec => [](IInv /\ BookInv)
<1>1. Init => BookInv  BY DEF Init, FD!Init, BookInv
<1> QED  BY <1>1, InitIInv, StepIInv, StepBook, JobExclusive, PTL DEF Spec

\* Without a timeout, a file in flight is on one connection, and a worker that
\* has a file has it on the books of the coord server, in this epoch and on an
\* open connection (CoordServer, TrainerDist::Train).
THEOREM FilesOnTheBooks == Spec => []FileOnTheBooks
<1>1. IInv /\ BookInv /\ FD!Exclusive => FileOnTheBooks
  <2> SUFFICES ASSUME IInv, BookInv, FD!Exclusive, Timeout = 0,
                      NEW w \in Worker, wk[w] \in {"train", "notify"}
               PROVE  /\ phase = "epoch" /\ link[w] = "open"
                      /\ holding[w] = wfile[w] /\ wfile[w] \in FD!InFlight
                      /\ wepoch[w] = CsEpoch
    BY DEF FileOnTheBooks
  <2> QED  BY AtWork DEF FD!Exclusive
<1> QED  BY <1>1, Books, JobExclusive, PTL

-----------------------------------------------------------------------------
(* Saving and stopping. *)

\* What the param servers are told goes with the stage of the coord server.
SaveInv ==
  /\ csq \in [PS -> {"none", "save", "terminate"}]
  /\ ps \in [PS -> {"run", "saving", "stopped", "crashed"}] /\ saved \subseteq PS
  /\ stage \in {"train", "dump", "terminate", "exit", "abort"}
  /\ stage = "train" => \A p \in PS : csq[p] = "none" /\ ps[p] \in {"run", "crashed"}
  /\ stage = "dump" => \A p \in PS :
       /\ csq[p] \in {"none", "save"}
       /\ csq[p] = "save" \/ ps[p] \in {"saving", "crashed"} \/ p \in saved
  /\ is_train /\ (\E p \in PS : csq[p] = "terminate" \/ ps[p] = "stopped") => saved = PS

\* Every step keeps the order of saving and stopping.
LEMMA StepSave == OverInv /\ SaveInv /\ [Next]_vars => SaveInv'
<1> SUFFICES ASSUME OverInv, SaveInv, [Next]_vars PROVE SaveInv'  OBVIOUS
<1> USE DEF server, SaveInv
<1>1. CASE UNCHANGED <<stage, ps, csq, is_train, saved>>  BY <1>1
<1>2. CASE CsDumpModel  BY <1>2 DEF CsDumpModel
<1>3. CASE CsTerminatePS
  <2>1. is_train => saved = PS  BY <1>3 DEF CsTerminatePS, AllUp
  <2> QED  BY <1>3, <2>1 DEF CsTerminatePS
<1>4. CASE CsAbort
  <2>1. /\ csq' \in [PS -> {"none", "save", "terminate"}] /\ stage' = "abort"
        /\ \A p \in PS : csq'[p] \in {"none", csq[p]}
    BY <1>4 DEF CsAbort
  <2>2. UNCHANGED <<ps, is_train, saved>>  BY <1>4 DEF CsAbort
  <2> QED  BY <2>1, <2>2
<1>5. CASE CsExit  BY <1>5 DEF CsExit
<1>6. ASSUME NEW p \in PS, PsSaveBegin(p) PROVE SaveInv'
  BY <1>6 DEF PsSaveBegin
<1>7. ASSUME NEW p \in PS, PsSaveEnd(p) PROVE SaveInv'
  BY <1>7 DEF PsSaveEnd
<1>8. ASSUME NEW p \in PS, PsTerminate(p) PROVE SaveInv'
  BY <1>8 DEF PsTerminate
<1>9. ASSUME NEW p \in PS, PsCrash(p) PROVE SaveInv'
  BY <1>9 DEF PsCrash
<1>10. \/ UNCHANGED <<stage, ps, csq, is_train, saved>>
       \/ CsDumpModel \/ CsTerminatePS \/ CsAbort \/ CsExit
       \/ \E p \in PS : PsSaveBegin(p) \/ PsSaveEnd(p) \/ PsTerminate(p) \/ PsCrash(p)
  BY DEF Next, CsNext, CsPreTrain, CsBeginEpoch, CsTick, OnFileRequest, OnFileFinishNotify, DeleteConnection,
     PsNext, PsPush, PsLosePush, WkStep, WkInit, WkConnect, WkGiveUp, WkFileRequest, WkFileResponse,
     WkRequestFailed, WkTrainFile, WkPullFailed, WkFileFinishNotify, WkCrash, vars
<1> QED  BY <1>1, <1>2, <1>3, <1>4, <1>5, <1>6, <1>7, <1>8, <1>9, <1>10

\* The order of saving and stopping is kept.
LEMMA Saves == Spec => []SaveInv
<1>1. Init => SaveInv  BY DEF Init, SaveInv
<1>2. IInv => OverInv  BY DEF IInv
<1> QED  BY <1>1, <1>2, InitIInv, StepIInv, StepSave, PTL DEF Spec

\* No param server is told to stop before every shard that was trained is on
\* disk; and without a timeout no live worker has a file when the saves begin
\* (CoordServer::DumpModel, TerminatePS).
THEOREM SavedBeforeStop == Spec => []AllSavedBeforeStop
<1>1. IInv /\ BookInv /\ SaveInv => AllSavedBeforeStop
  <2> SUFFICES ASSUME IInv, BookInv, SaveInv PROVE AllSavedBeforeStop  OBVIOUS
  <2>1. ASSUME Timeout = 0, \E p \in PS : csq[p] # "none" \/ ps[p] \in {"saving", "stopped"},
               NEW w \in Worker, wk[w] \in {"train", "notify"}
        PROVE  FALSE
    <3>1. stage # "train"  BY <2>1 DEF SaveInv
    <3>2. phase = "over"  BY <3>1 DEF IInv, OverInv, TrainingOver
    <3> QED  BY <2>1, <3>2, AtWork
  <2> QED  BY <2>1 DEF SaveInv, AllSavedBeforeStop
<1> QED  BY <1>1, Books, Saves, PTL

\* Who predicts leaves its loop when the coord server is gone, and never
\* connects again.
PredictInv ==
  ~is_train => \A w \in Worker : wk[w] # "reconnect" /\ (AllUp => wk[w] # "abort")

\* Every step of a prediction keeps to that.
LEMMA StepPredict ==
  ASSUME Timeout = 0
  PROVE  IInv /\ BookInv /\ SaveInv /\ PredictInv /\ [Next]_vars => PredictInv'
<1> SUFFICES ASSUME IInv, BookInv, SaveInv, PredictInv, [Next]_vars, ~is_train', NEW v \in Worker
             PROVE  wk'[v] # "reconnect" /\ (AllUp' => wk'[v] # "abort")
  BY DEF PredictInv
<1>0. Typed /\ OverInv  BY DEF IInv
<1>1. is_train' = is_train
  BY DEF Next, CsNext, CsPreTrain, CsBeginEpoch, CsDumpModel, CsTerminatePS, CsAbort, CsExit, CsTick, OnFileRequest,
     OnFileFinishNotify, DeleteConnection, PsNext, PsPush, PsLosePush, PsSaveBegin, PsSaveEnd, PsTerminate, PsCrash,
     WkStep, WkInit, WkConnect, WkGiveUp, WkFileRequest, WkFileResponse, WkRequestFailed, WkTrainFile, WkPullFailed,
     WkFileFinishNotify, WkCrash, server, vars
<1>2. AllUp' => AllUp
  <2>1. \/ ps' = ps
        \/ \E p \in PS : PsSaveBegin(p) \/ PsSaveEnd(p) \/ PsTerminate(p) \/ PsCrash(p)
    BY DEF Next, CsNext, CsPreTrain, CsBeginEpoch, CsDumpModel, CsTerminatePS, CsAbort, CsExit, CsTick,
       OnFileRequest, OnFileFinishNotify, DeleteConnection, PsNext, PsPush, PsLosePush, WkStep, WkInit, WkConnect,
       WkGiveUp, WkFileRequest, WkFileResponse, WkRequestFailed, WkTrainFile, WkPullFailed, WkFileFinishNotify,
       WkCrash, server, vars
  <2>2. ASSUME NEW p \in PS, ps[p] = "crashed" PROVE ps'[p] = "crashed"
    BY <2>1, <2>2 DEF PsSaveBegin, PsSaveEnd, PsTerminate, PsCrash, SaveInv
  <2> QED  BY <2>2 DEF AllUp
<1>3. CASE wk' = wk  BY <1>1, <1>2, <1>3 DEF PredictInv
<1>4. ASSUME NEW w \in Worker, WkStep(w) \/ WkCrash(w)
      PROVE  wk'[v] # "reconnect" /\ (AllUp' => wk'[v] # "abort")
  <2>1. CASE v # w
    <3>1. wk'[v] = wk[v]
      BY <1>0, <1>4, <2>1 DEF WkStep, WkInit, WkConnect, WkGiveUp, WkFileRequest, WkFileResponse, WkRequestFailed,
         WkTrainFile, WkPullFailed, WkFileFinishNotify, WkCrash, Goto, Die, Typed
    <3> QED  BY <1>1, <1>2, <3>1 DEF PredictInv
  <2>2. CASE WkPullFailed(v)
    <3>1. phase = "epoch" /\ wk'[v] = "abort" /\ ps' = ps
          /\ \E p \in PS : ps[p] \in {"stopped", "crashed"}
      BY <1>0, <2>2, AtWork DEF WkPullFailed, Die, Goto, Typed, server
    <3>2. stage = "train"  BY <1>0, <3>1 DEF OverInv, TrainingOver
    <3>3. ~AllUp  BY <3>1, <3>2 DEF SaveInv, AllUp
    <3> QED  BY <1>2, <3>1, <3>3
  <2>3. CASE WkFileFinishNotify(v)
    <3>1. link[v] = "open"  BY <2>3, AtWork DEF WkFileFinishNotify
    <3> QED  BY <1>0, <2>3, <3>1 DEF WkFileFinishNotify, Goto, Typed
  <2>4. CASE WkGiveUp(v) \/ WkRequestFailed(v)
    BY <1>0, <1>1, <2>4 DEF WkGiveUp, WkRequestFailed, LastEpochSeen, PredictInv, Goto, Typed
  <2>5. CASE WkInit(v) \/ WkConnect(v) \/ WkFileRequest(v) \/ WkFileResponse(v) \/ WkTrainFile(v) \/ WkCrash(v)
    BY <1>0, <2>5 DEF WkInit, WkConnect, WkFileRequest, WkFileResponse, WkTrainFile, WkCrash, Goto, Die, Typed
  <2> QED  BY <1>4, <2>1, <2>2, <2>3, <2>4, <2>5 DEF WkStep
<1>5. wk' = wk \/ \E w \in Worker : WkStep(w) \/ WkCrash(w)
  BY DEF Next, CsNext, CsPreTrain, CsBeginEpoch, CsDumpModel, CsTerminatePS, CsAbort, CsExit, CsTick, OnFileRequest,
     OnFileFinishNotify, DeleteConnection, PsNext, PsPush, PsLosePush, PsSaveBegin, PsSaveEnd, PsTerminate, PsCrash,
     worker, vars
<1> QED  BY <1>3, <1>4, <1>5

\* Without a timeout a prediction worker that reached the coord server ends by
\* leaving its loop, unless a param server is gone (TrainerDist::Predict).
THEOREM PredictionEnds ==
  ASSUME Timeout = 0
  PROVE  Spec => []PredictionExits
<1>1. Init => PredictInv  BY DEF Init, PredictInv
<1>2. PredictInv => PredictionExits  BY DEF PredictInv, PredictionExits, NormalExit
<1> QED  BY <1>1, <1>2, Books, Saves, StepPredict, PTL DEF Spec
=============================================================================
