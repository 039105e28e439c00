------------------------ MODULE FileDispatcherProofs ------------------------
(***************************************************************************)
(* Proofs about FileDispatcher, for every set of files and workers, every  *)
(* timeout and every number of epochs and failures.                        *)
(***************************************************************************)
EXTENDS FileDispatcher, FiniteSetTheorems, SequenceTheorems, TLAPS

-----------------------------------------------------------------------------
(* Facts about the data. *)

\* files_ has a size, and it is not zero.
LEMMA NumberOfFiles == N \in Nat \ {0}
  BY DispatcherAssumption, FS_CardinalityType, FS_EmptySet DEF N

\* Every order of the files is a sequence that names each file once.
LEMMA OrderFacts ==
  ASSUME NEW s \in Orders
  PROVE  s \in Seq(File) /\ s # <<>> /\ IsInjective(s) /\ Range(s) = File
<1>1. s \in [1..N -> File] /\ IsInjective(s) /\ \A t \in File : \E i \in 1..N : s[i] = t
  BY DEF Orders, Bijection, Injection, Surjection
<1>2. s \in Seq(File)
  BY <1>1, NumberOfFiles, IsASeq
<1>3. Range(s) = File
  BY <1>1, <1>2 DEF Range
<1>4. s # <<>>
  BY <1>3, DispatcherAssumption DEF Range
<1> QED BY <1>1, <1>2, <1>3, <1>4

\* Popping the front of a list without duplicates.
LEMMA PopFacts ==
  ASSUME NEW S, NEW s \in Seq(S), s # <<>>, IsInjective(s)
  PROVE  /\ Head(s) \in S /\ Head(s) \in Range(s)
         /\ Tail(s) \in Seq(S) /\ IsInjective(Tail(s))
         /\ Range(Tail(s)) = Range(s) \ {Head(s)}
<1>1. /\ Len(s) \in Nat \ {0} /\ Head(s) = s[1] /\ DOMAIN s = 1..Len(s)
      /\ Tail(s) \in Seq(S) /\ Len(Tail(s)) = Len(s) - 1
      /\ DOMAIN Tail(s) = 1..(Len(s) - 1)
      /\ \A i \in 1..(Len(s) - 1) : Tail(s)[i] = s[i + 1]
  BY HeadTailProperties, LenProperties
<1>2. Head(s) \in S /\ Head(s) \in Range(s)
  BY <1>1 DEF Range
<1>3. IsInjective(Tail(s))
  BY <1>1 DEF IsInjective
<1>4. ASSUME NEW x \in Range(s) \ {Head(s)} PROVE x \in Range(Tail(s))
  <2>1. PICK i \in 1..Len(s) : x = s[i]
    BY <1>1 DEF Range
  <2>2. i - 1 \in 1..(Len(s) - 1) /\ Tail(s)[i - 1] = x
    BY <2>1, <1>1
  <2> QED BY <2>2, <1>1 DEF Range
<1>5. ASSUME NEW x \in Range(Tail(s)) PROVE x \in Range(s) \ {Head(s)}
  <2>1. PICK i \in 1..(Len(s) - 1) : x = s[i + 1]
    BY <1>1 DEF Range
  <2> QED BY <2>1, <1>1 DEF Range, IsInjective
<1> QED BY <1>1, <1>2, <1>3, <1>4, <1>5

\* Appending a name that is not in the list.
LEMMA AppendFacts ==
  ASSUME NEW S, NEW s \in Seq(S), NEW e \in S, e \notin Range(s), IsInjective(s)
  PROVE  /\ Append(s, e) \in Seq(S) /\ IsInjective(Append(s, e))
         /\ Range(Append(s, e)) = Range(s) \cup {e}
<1> DEFINE t == Append(s, e)
<1>1. /\ Len(s) \in Nat /\ DOMAIN s = 1..Len(s) /\ t \in Seq(S)
      /\ DOMAIN t = 1..(Len(s) + 1) /\ t[Len(s) + 1] = e
      /\ \A i \in 1..Len(s) : t[i] = s[i]
  BY AppendProperties, LenProperties
<1> HIDE DEF t
<1>2. IsInjective(t)
  BY <1>1 DEF IsInjective, Range
<1>3. Range(t) = Range(s) \cup {e}
  <2>1. ASSUME NEW x \in Range(t) PROVE x \in Range(s) \cup {e}
    <3>1. PICK i \in 1..(Len(s) + 1) : x = t[i]
      BY <1>1 DEF Range
    <3> QED BY <3>1, <1>1 DEF Range
  <2>2. ASSUME NEW x \in Range(s) PROVE x \in Range(t)
    <3>1. PICK i \in 1..Len(s) : x = t[i]
      BY <1>1 DEF Range
    <3> QED BY <3>1, <1>1 DEF Range
  <2>3. e \in Range(t)
    BY <1>1 DEF Range
  <2> QED BY <2>1, <2>2, <2>3
<1> QED BY <1>1, <1>2, <1>3 DEF t

-----------------------------------------------------------------------------
(* The inductive invariant.  EpochEnd needs NoFileLost (what is neither     *)
(* waiting nor in flight has been finished) and SizeCounts (so the size     *)
(* test of WorkerFinishFile cannot fail when the queues are empty);         *)
(* NoFileLost and EpochEnd need OnePlace only for its type part.            *)

\* The size of finished_ is at least the number of distinct files in it.
SizeCounts == Cardinality(finished) <= finished_size

\* Before the first epoch nothing is queued.
IdleEmpty == phase = "idle" => to_dispatch = <<>> /\ InFlight = {}

IInv == TypeOK /\ OnePlace /\ NoFileLost /\ EpochEnd /\ SizeCounts /\ IdleEmpty

LEMMA FinishedSize ==
  ASSUME NEW S \in SUBSET File, NEW f \in File
  PROVE  /\ Cardinality(S) \in 0..N /\ Cardinality({}) = 0
         /\ Cardinality(S \cup {f}) <= Cardinality(S) + 1
         /\ Cardinality(S \cup {f}) \in 0..N
         /\ Cardinality(File) = N
<1>1. /\ IsFiniteSet(File) /\ Cardinality(File) = N
      /\ \A T \in SUBSET File : IsFiniteSet(T) /\ Cardinality(T) <= N
                              /\ Cardinality(T) \in Nat
  BY DispatcherAssumption, FS_Subset, FS_CardinalityType DEF N
<1>2. Cardinality(S \cup {f}) <= Cardinality(S) + 1
  BY <1>1, FS_AddElement
<1>3. S \cup {f} \in SUBSET File
  OBVIOUS
<1> QED BY <1>1, <1>2, <1>3, NumberOfFiles, FS_EmptySet

LEMMA InitIInv == Init => IInv
<1> SUFFICES ASSUME Init PROVE IInv
  OBVIOUS
<1>1. DOMAIN dispatch_time = {} /\ DOMAIN to_dispatch = {} /\ to_dispatch \in Seq(File)
  BY DEF Init
<1>2. TypeOK
  BY <1>1, NumberOfFiles, DispatcherAssumption DEF Init, TypeOK, InFlight
<1>3. OnePlace /\ NoFileLost /\ EpochEnd /\ IdleEmpty
  BY <1>1 DEF Init, OnePlace, NoFileLost, EpochEnd, IdleEmpty, IsInjective, InFlight
<1>4. SizeCounts
  BY FS_EmptySet DEF Init, SizeCounts
<1> QED BY <1>2, <1>3, <1>4 DEF IInv

LEMMA BeginEpochStep == IInv /\ BeginEpoch => IInv'
<1> SUFFICES ASSUME IInv, BeginEpoch PROVE IInv'
  OBVIOUS
<1> USE DEF IInv
<1>1. files' \in Orders /\ to_dispatch' = files'
  BY DEF BeginEpoch, PreEpoch, TypeOK
<1>2. InFlight = {} /\ InFlight' = {}
  BY DEF BeginEpoch, PreEpoch, TypeOK, EpochEnd, IdleEmpty, InFlight
<1>3. Waiting' = File /\ IsInjective(to_dispatch') /\ to_dispatch' \in Seq(File)
  BY <1>1, OrderFacts DEF Waiting
<1>4. TypeOK'
  BY <1>1, <1>2, <1>3, NumberOfFiles, DispatcherAssumption DEF BeginEpoch, PreEpoch, TypeOK
<1>5. OnePlace' /\ NoFileLost' /\ EpochEnd' /\ IdleEmpty'
  BY <1>2, <1>3, DispatcherAssumption
     DEF BeginEpoch, OnePlace, NoFileLost, EpochEnd, IdleEmpty
<1>6. SizeCounts'
  BY FS_EmptySet DEF BeginEpoch, PreEpoch, SizeCounts
<1> QED BY <1>4, <1>5, <1>6

LEMMA DispatchStep ==
  ASSUME IInv, NEW w \in Worker, Dispatch(w) PROVE IInv'
<1> USE DEF IInv
<1>1. PICK f \in File : WorkerDispatchFile(f) /\ holding' = [holding EXCEPT ![w] = f]
  BY DEF Dispatch
<1>2. /\ phase = "epoch" /\ UNCHANGED <<phase, epoch, failures, files, finished, finished_size>>
      /\ dispatch_time' = Stamp(f)
  BY <1>1 DEF Dispatch, WorkerDispatchFile, DispatchFront, DispatchTimedOut
<1>3. InFlight' = InFlight \cup {f}
      /\ \A g \in InFlight' : dispatch_time'[g] \in 0..(Timeout + 1)
  BY <1>2, DispatcherAssumption DEF Stamp, InFlight, TypeOK
<1>4. /\ to_dispatch' \in Seq(File) /\ IsInjective(to_dispatch')
      /\ Waiting' = Waiting \ {f}
  <2>1. CASE DispatchFront(f)
    BY <2>1, PopFacts DEF DispatchFront, TypeOK, OnePlace, Waiting
  <2>2. CASE DispatchTimedOut(f)
    BY <2>2 DEF DispatchTimedOut, TypeOK, OnePlace, Waiting
  <2> QED BY <1>1, <2>1, <2>2 DEF WorkerDispatchFile
<1>5. TypeOK'
  BY <1>1, <1>2, <1>3, <1>4 DEF TypeOK, InFlight
<1>6. OnePlace' /\ NoFileLost' /\ EpochEnd' /\ IdleEmpty' /\ SizeCounts'
  BY <1>2, <1>3, <1>4 DEF OnePlace, NoFileLost, EpochEnd, IdleEmpty, SizeCounts
<1> QED BY <1>5, <1>6

LEMMA FinishStep ==
  ASSUME IInv, NEW w \in Worker, Finish(w) PROVE IInv'
<1> USE DEF IInv
<1> DEFINE f == holding[w]
<1>1. /\ f \in File /\ phase = "epoch"
      /\ finished' = finished \cup {f}
      /\ finished_size' = IF finished_size < N THEN finished_size + 1 ELSE N
      /\ dispatch_time' = Unstamp(f)
      /\ phase' = IF EpochIsFinished THEN "over" ELSE phase
      /\ holding' = [holding EXCEPT ![w] = NoFile]
      /\ UNCHANGED <<files, to_dispatch, epoch, failures>>
  BY DEF Finish, WorkerFinishFile, TypeOK
<1> HIDE DEF f
<1>2. /\ InFlight' = InFlight \ {f} /\ Waiting' = Waiting
      /\ \A g \in InFlight' : dispatch_time'[g] = dispatch_time[g]
  BY <1>1 DEF Unstamp, Restrict, InFlight, Waiting
<1>3. finished_size' \in 0..N
  BY <1>1, NumberOfFiles DEF TypeOK
<1>4. TypeOK'
  BY <1>1, <1>2, <1>3 DEF TypeOK, InFlight
<1>5. SizeCounts'
  BY <1>1, NumberOfFiles, FinishedSize DEF SizeCounts, TypeOK
<1>6. OnePlace' /\ NoFileLost' /\ IdleEmpty'
  BY <1>1, <1>2 DEF OnePlace, NoFileLost, IdleEmpty
<1>7. EpochEnd'
  <2>1. CASE EpochIsFinished
    <3>1. Waiting' = {} /\ InFlight' = {} /\ phase' = "over"
      BY <1>1, <2>1 DEF EpochIsFinished, InFlight, Waiting, Range
    <3> QED BY <3>1, <1>4, <1>6 DEF EpochEnd, NoFileLost, TypeOK
  <2>2. CASE ~EpochIsFinished
    <3>1. SUFFICES ASSUME Waiting' = {}, InFlight' = {} PROVE FALSE
      BY <1>1, <2>2 DEF EpochEnd
    <3>2. finished' = File
      BY <3>1, <1>1, <1>4, <1>6 DEF NoFileLost, TypeOK
    <3>3. finished_size' >= N
      BY <3>2, <1>3, <1>5, NumberOfFiles DEF SizeCounts, N
    <3>4. to_dispatch' = <<>>
      <4>1. to_dispatch' \in Seq(File) /\ (to_dispatch' # <<>> => Head(to_dispatch') \in Waiting')
        BY <1>4, <1>6, PopFacts DEF TypeOK, OnePlace, Waiting
      <4> QED BY <4>1, <3>1
    <3> QED BY <2>2, <3>1, <3>3, <3>4 DEF EpochIsFinished, InFlight
  <2> QED BY <2>1, <2>2
<1> QED BY <1>4, <1>5, <1>6, <1>7

LEMMA FailStep ==
  ASSUME IInv, NEW w \in Worker, Fail(w) PROVE IInv'
<1> USE DEF IInv
<1> DEFINE f == holding[w]
<1>1. /\ f \in File /\ phase = "epoch" /\ failures < MaxFailure /\ failures' = failures + 1
      /\ holding' = [holding EXCEPT ![w] = NoFile]
      /\ WorkerFailureFile(f)
      /\ UNCHANGED <<files, finished, finished_size, phase, epoch>>
  BY DEF Fail, WorkerFailureFile, TypeOK
<1> HIDE DEF f
<1>2. CASE f \in InFlight
  <2>1. to_dispatch' = Append(to_dispatch, f) /\ dispatch_time' = Unstamp(f)
    BY <1>1, <1>2 DEF WorkerFailureFile
  <2>2. /\ InFlight' = InFlight \ {f}
        /\ \A g \in InFlight' : dispatch_time'[g] = dispatch_time[g]
    BY <2>1 DEF Unstamp, Restrict, InFlight
  <2>3. /\ to_dispatch' \in Seq(File) /\ IsInjective(to_dispatch')
        /\ Waiting' = Waiting \cup {f}
    BY <2>1, <1>1, <1>2, AppendFacts DEF TypeOK, OnePlace, Waiting
  <2>4. TypeOK'
    BY <1>1, <2>2, <2>3, DispatcherAssumption DEF TypeOK, InFlight
  <2>5. OnePlace' /\ NoFileLost' /\ EpochEnd' /\ IdleEmpty' /\ SizeCounts'
    BY <1>1, <2>2, <2>3 DEF OnePlace, NoFileLost, EpochEnd, IdleEmpty, SizeCounts
  <2> QED BY <2>4, <2>5
<1>3. CASE f \notin InFlight
  <2>1. UNCHANGED <<to_dispatch, dispatch_time, InFlight, Waiting>>
    BY <1>1, <1>3 DEF WorkerFailureFile, InFlight, Waiting
  <2>2. TypeOK'
    BY <1>1, <2>1, DispatcherAssumption DEF TypeOK, InFlight
  <2>3. OnePlace' /\ NoFileLost' /\ EpochEnd' /\ IdleEmpty' /\ SizeCounts'
    BY <1>1, <2>1 DEF OnePlace, NoFileLost, EpochEnd, IdleEmpty, SizeCounts
  <2> QED BY <2>2, <2>3
<1> QED BY <1>2, <1>3

LEMMA TickStep == IInv /\ Tick => IInv'
<1> SUFFICES ASSUME IInv, Tick PROVE IInv'
  OBVIOUS
<1> USE DEF IInv
<1>1. /\ UNCHANGED <<files, to_dispatch, finished, finished_size, holding, phase, epoch,
                     failures, InFlight, Waiting>>
      /\ \A f \in InFlight : dispatch_time'[f] = Aged(dispatch_time[f])
  BY DEF Tick, InFlight, Waiting
<1>2. \A f \in InFlight : dispatch_time'[f] \in 0..(Timeout + 1)
  BY <1>1, DispatcherAssumption DEF Aged, TypeOK
<1>3. TypeOK'
  BY <1>1, <1>2 DEF TypeOK
<1>4. OnePlace' /\ NoFileLost' /\ EpochEnd' /\ IdleEmpty' /\ SizeCounts'
  BY <1>1 DEF OnePlace, NoFileLost, EpochEnd, IdleEmpty, SizeCounts
<1> QED BY <1>3, <1>4

\* IInv holds in every reachable state.
THEOREM Invariance == Spec => []IInv
<1>1. IInv /\ [Next]_vars => IInv'
  <2> SUFFICES ASSUME IInv, [Next]_vars PROVE IInv'
    OBVIOUS
  <2>1. CASE Train
    BY <2>1 DEF Train, PreTrain, IInv, TypeOK, OnePlace, NoFileLost, EpochEnd, SizeCounts,
                IdleEmpty, InFlight, Waiting
  <2>2. CASE UNCHANGED vars
    BY <2>2 DEF vars, fvars, IInv, TypeOK, OnePlace, NoFileLost, EpochEnd, SizeCounts,
                IdleEmpty, InFlight, Waiting
  <2> QED BY <2>1, <2>2, BeginEpochStep, DispatchStep, FinishStep, FailStep, TickStep DEF Next
<1> QED BY <1>1, InitIInv, PTL DEF Spec

\* The dispatcher is type correct.
THEOREM TypeCorrect == Spec => []TypeOK
  BY Invariance, PTL DEF IInv

\* No failure, timeout or late report loses a file.
THEOREM FilesAreKept == Spec => []NoFileLost
  BY Invariance, PTL DEF IInv

\* And none queues a file twice, or one that is in flight.
THEOREM FilesInOnePlace == Spec => []OnePlace
  BY Invariance, PTL DEF IInv

\* The end of an epoch is reported exactly when all its files are finished.
THEOREM EpochEndsComplete == Spec => []EpochEnd
  BY Invariance, PTL DEF IInv

-----------------------------------------------------------------------------
(* Without a timeout no file is on two workers' hands.  Exclusive is        *)
(* inductive together with IInv: the front of the queue is neither in       *)
(* flight nor finished, so no worker holds it.                              *)

LEMMA DispatchExclusive ==
  ASSUME IInv, Exclusive, NEW w \in Worker, Dispatch(w) PROVE Exclusive'
<1> SUFFICES ASSUME Timeout = 0 PROVE Exclusive'
  BY DEF Exclusive
<1>0. \A f \in File : ~DispatchTimedOut(f)
  BY DEF DispatchTimedOut
<1>1. PICK f \in File : DispatchFront(f) /\ holding' = [holding EXCEPT ![w] = f]
  BY <1>0, Zenon DEF Dispatch, WorkerDispatchFile
<1>2. phase = "epoch" /\ phase' = "epoch" /\ UNCHANGED <<finished, finished_size>>
  BY <1>1 DEF Dispatch, DispatchFront
<1>3. InFlight' = InFlight \cup {f}
  BY <1>1 DEF DispatchFront, Stamp, InFlight
<1>4. f \in Waiting /\ Waiting' = Waiting \ {f}
  BY <1>1, PopFacts DEF DispatchFront, IInv, TypeOK, OnePlace, Waiting
<1>5. f \notin InFlight /\ f \notin finished /\ \A v \in Worker : holding[v] # f
  BY <1>2, <1>4, DispatcherAssumption DEF Exclusive, IInv, OnePlace
<1>6. \A v \in Worker : holding'[v] = IF v = w THEN f ELSE holding[v]
  BY <1>1 DEF IInv, TypeOK
<1>7. holding[w] = NoFile
  BY DEF Dispatch
<1>8. \A g \in InFlight' : \E v \in Worker : holding'[v] = g
  BY <1>2, <1>3, <1>6, <1>7, DispatcherAssumption DEF Exclusive, IInv, TypeOK
<1> QED BY <1>2, <1>3, <1>4, <1>5, <1>6, <1>8 DEF Exclusive

LEMMA FinishExclusive ==
  ASSUME IInv, Exclusive, NEW w \in Worker, Finish(w) PROVE Exclusive'
<1> DEFINE f == holding[w]
<1> SUFFICES ASSUME Timeout = 0, phase' = "epoch" PROVE Exclusive'
  BY DEF Exclusive
<1>1. /\ phase = "epoch" /\ f \in InFlight \ finished /\ f \in File
      /\ finished' = finished \cup {f} /\ UNCHANGED to_dispatch
      /\ dispatch_time' = Unstamp(f)
      /\ finished_size' = IF finished_size < N THEN finished_size + 1 ELSE N
      /\ holding' = [holding EXCEPT ![w] = NoFile]
  BY DEF Finish, WorkerFinishFile, IInv, TypeOK, Exclusive
<1>2. InFlight' = InFlight \ {f} /\ Waiting' = Waiting
  BY <1>1 DEF Unstamp, Restrict, InFlight, Waiting
<1>3. \A v \in Worker : holding'[v] = IF v = w THEN NoFile ELSE holding[v]
  BY <1>1 DEF IInv, TypeOK
<1>4. finished_size' = Cardinality(finished')
  <2>1. finished_size = Cardinality(finished) /\ finished \in SUBSET File
    BY <1>1 DEF Exclusive, IInv, TypeOK
  <2>2. IsFiniteSet(finished) /\ Cardinality(finished \cup {f}) = Cardinality(finished) + 1
    BY <1>1, <2>1, DispatcherAssumption, FS_Subset, FS_AddElement
  <2>3. Cardinality(finished \cup {f}) <= N /\ Cardinality(finished) \in Nat
    BY <1>1, <2>1, FinishedSize, NumberOfFiles
  <2> QED BY <1>1, <2>1, <2>2, <2>3, NumberOfFiles
<1>5. \A v \in Worker : v # w => holding[v] # f
  BY <1>1, DispatcherAssumption DEF Exclusive, IInv, TypeOK
<1>6. f \notin Waiting
  BY <1>1 DEF IInv, OnePlace
<1> HIDE DEF f
<1>7. \A g \in InFlight' : \E v \in Worker : holding'[v] = g
  <2> SUFFICES ASSUME NEW g \in InFlight' PROVE \E v \in Worker : holding'[v] = g
    OBVIOUS
  <2>1. PICK v \in Worker : holding[v] = g
    BY <1>1, <1>2 DEF Exclusive
  <2>2. v # w
    BY <2>1, <1>2 DEF f
  <2> QED BY <2>1, <2>2, <1>3
<1>8. \A v \in Worker : holding'[v] # NoFile => holding'[v] \in InFlight' \ finished'
  BY <1>1, <1>2, <1>3, <1>5 DEF Exclusive
<1>9. finished' \cap (Waiting' \cup InFlight') = {}
  BY <1>1, <1>2, <1>6 DEF Exclusive
<1>10. \A v, u \in Worker : holding'[v] = holding'[u] /\ v # u => holding'[v] = NoFile
  BY <1>1, <1>3, <1>5 DEF Exclusive
<1> QED BY <1>4, <1>7, <1>8, <1>9, <1>10 DEF Exclusive

LEMMA FailExclusive ==
  ASSUME IInv, Exclusive, NEW w \in Worker, Fail(w) PROVE Exclusive'
<1> DEFINE f == holding[w]
<1> SUFFICES ASSUME Timeout = 0 PROVE Exclusive'
  BY DEF Exclusive
<1>1. /\ phase = "epoch" /\ f \in InFlight \ finished /\ f \in File
      /\ UNCHANGED <<finished, finished_size, phase>>
      /\ dispatch_time' = Unstamp(f) /\ to_dispatch' = Append(to_dispatch, f)
      /\ holding' = [holding EXCEPT ![w] = NoFile]
  BY DEF Fail, WorkerFailureFile, IInv, TypeOK, Exclusive
<1>2. f \notin Waiting
  BY <1>1 DEF IInv, OnePlace
<1>3. InFlight' = InFlight \ {f} /\ Waiting' = Waiting \cup {f}
  BY <1>1, <1>2, AppendFacts DEF Unstamp, Restrict, InFlight, Waiting, IInv, TypeOK, OnePlace
<1>4. \A v \in Worker : holding'[v] = IF v = w THEN NoFile ELSE holding[v]
  BY <1>1 DEF IInv, TypeOK
<1>5. \A v \in Worker : v # w => holding[v] # f
  BY <1>1, DispatcherAssumption DEF Exclusive, IInv, TypeOK
<1> HIDE DEF f
<1>6. \A g \in InFlight' : \E v \in Worker : holding'[v] = g
  <2> SUFFICES ASSUME NEW g \in InFlight' PROVE \E v \in Worker : holding'[v] = g
    OBVIOUS
  <2>1. PICK v \in Worker : holding[v] = g
    BY <1>1, <1>3 DEF Exclusive
  <2>2. v # w
    BY <2>1, <1>3 DEF f
  <2> QED BY <2>1, <2>2, <1>4
<1>7. \A v \in Worker : holding'[v] # NoFile => holding'[v] \in InFlight' \ finished'
  BY <1>1, <1>3, <1>4, <1>5 DEF Exclusive
<1>8. \A v, u \in Worker : holding'[v] = holding'[u] /\ v # u => holding'[v] = NoFile
  BY <1>1, <1>4, <1>5 DEF Exclusive
<1> QED BY <1>1, <1>3, <1>6, <1>7, <1>8 DEF Exclusive

\* Without a timeout no file is processed by two workers, or twice, in an
\* epoch.
THEOREM ExclusiveWithoutTimeout == Spec => []Exclusive
<1>1. Init => Exclusive
  BY DEF Init, Exclusive
<1>2. IInv /\ Exclusive /\ [Next]_vars => Exclusive'
  <2> SUFFICES ASSUME IInv, Exclusive, [Next]_vars PROVE Exclusive'
    OBVIOUS
  <2>1. CASE Train
    BY <2>1 DEF Train, Exclusive
  <2>2. CASE BeginEpoch
    <3>1. InFlight' = {} /\ finished' = {} /\ finished_size' = 0
          /\ \A v \in Worker : holding'[v] = NoFile
      BY <2>2 DEF BeginEpoch, PreEpoch, InFlight, IInv, TypeOK, EpochEnd, IdleEmpty
    <3> QED BY <3>1, FS_EmptySet DEF Exclusive
  <2>3. CASE Tick
    BY <2>3 DEF Tick, Exclusive
  <2>4. CASE UNCHANGED vars
    BY <2>4 DEF vars, fvars, Exclusive, InFlight, Waiting
  <2> QED BY <2>1, <2>2, <2>3, <2>4, DispatchExclusive, FinishExclusive, FailExclusive DEF Next
<1> QED BY <1>1, <1>2, Invariance, PTL DEF Spec

-----------------------------------------------------------------------------
(* FileDispatcher implements WorkEpochs.                                    *)

\* Every run of the dispatcher is a run of the abstract work list.
THEOREM Implements == Spec => WorkSpec
<1>1. Init => Work!Init
  BY DEF Init, Work!Init
<1>2. IInv /\ IInv' /\ [Next]_vars => [Work!Next]_Work!wvars
  <2> SUFFICES ASSUME IInv, IInv', [Next]_vars PROVE [Work!Next]_Work!wvars
    OBVIOUS
  <2> USE DEF Work!Next, Work!wvars, Work!Open, Work!Process
  <2>1. CASE Train
    BY <2>1 DEF Train
  <2>2. CASE BeginEpoch
    BY <2>2 DEF BeginEpoch, PreEpoch, IInv, TypeOK
  <2>3. ASSUME NEW w \in Worker, Dispatch(w) PROVE [Work!Next]_Work!wvars
    BY <2>3 DEF Dispatch, WorkerDispatchFile, DispatchFront, DispatchTimedOut
  <2>4. ASSUME NEW w \in Worker, Finish(w) PROVE [Work!Next]_Work!wvars
    BY <2>4 DEF Finish, WorkerFinishFile, IInv, TypeOK, EpochEnd
  <2>5. ASSUME NEW w \in Worker, Fail(w) PROVE [Work!Next]_Work!wvars
    BY <2>5 DEF Fail, WorkerFailureFile
  <2>6. CASE Tick
    BY <2>6 DEF Tick
  <2>7. CASE UNCHANGED vars
    BY <2>7 DEF vars, fvars
  <2> QED BY <2>1, <2>2, <2>3, <2>4, <2>5, <2>6, <2>7 DEF Next
<1> QED BY <1>1, <1>2, Invariance, PTL DEF Spec, WorkSpec, Work!Spec

\* A file in flight changes hands only after its entry is over the timeout.
THEOREM TakeoverIsLate == Spec => NoEarlyTakeover
<1>1. IInv /\ [Next]_vars =>
        [\A w \in Worker : LET f == holding'[w] IN
           f # holding[w] /\ f \in InFlight => Timeout > 0 /\ dispatch_time[f] > Timeout]_vars
  <2> SUFFICES ASSUME IInv, Next, NEW w \in Worker,
                      holding'[w] # holding[w], holding'[w] \in InFlight
               PROVE  Timeout > 0 /\ dispatch_time[holding'[w]] > Timeout
    OBVIOUS
  <2>1. NoFile \notin InFlight
    BY DispatcherAssumption DEF IInv, TypeOK
  <2>2. PICK v \in Worker : Dispatch(v)
    BY <2>1 DEF Next, Train, BeginEpoch, Finish, Fail, Tick, IInv, TypeOK
  <2>3. PICK f \in File : WorkerDispatchFile(f) /\ holding' = [holding EXCEPT ![v] = f]
    BY <2>2 DEF Dispatch
  <2>4. holding'[w] = f
    BY <2>3 DEF IInv, TypeOK
  <2>5. ~DispatchFront(f)
    BY <2>4, PopFacts DEF DispatchFront, IInv, TypeOK, OnePlace, Waiting
  <2> QED BY <2>3, <2>4, <2>5 DEF WorkerDispatchFile, DispatchTimedOut
<1> QED BY <1>1, Invariance, PTL DEF Spec, NoEarlyTakeover
=============================================================================
