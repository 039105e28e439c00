---------------------------- MODULE ThreadProofs ----------------------------
(***************************************************************************)
(* Proofs about the threads of one process: ReadWriteLock for any set of   *)
(* threads, and ShardPools for any number of shards, any finite set of     *)
(* trainer threads and any number of batches.                              *)
(***************************************************************************)
EXTENDS ReadWriteLock, ShardPools, FiniteSetTheorems, TLAPS

-----------------------------------------------------------------------------
(***************************************************************************)
(* The read-write lock.                                                    *)
(***************************************************************************)

\* The counters are the only thing the code looks at, so that a writer is
\* alone follows from what they count; what the sleepers wait for is what
\* makes the next notification reach them.
LockInv == TypeOK /\ Exclusion /\ CountsHonest /\ NoLostWakeup

-----------------------------------------------------------------------------

\* The threads at some places are a finite set, so that they can be counted.
LEMMA AtFinite ==
  ASSUME NEW S
  PROVE  /\ IsFiniteSet(At(S)) /\ Cardinality(At(S)) \in Nat
         /\ Cardinality(At(S)) = 0 <=> At(S) = {}
<1>1. At(S) \subseteq Thread  BY DEF At
<1>2. IsFiniteSet(At(S))  BY <1>1, ThreadAssumption, FS_Subset
<1> QED  BY <1>2, FS_CardinalityType, FS_EmptySet

\* Writers inside show in status_.
LEMMA WriterSeen ==
  ASSUME LockInv
  PROVE  /\ Writers # {} <=> status = -1
         /\ status = 0 => Readers = {} /\ Writers = {}
         /\ waiting_writers > 0 <=> WaitingWriters # {}
<1>1. Cardinality(Readers) \in Nat /\ (Cardinality(Readers) = 0 <=> Readers = {})
  BY AtFinite DEF Readers
<1>2. Cardinality(WaitingWriters) \in Nat
      /\ (Cardinality(WaitingWriters) = 0 <=> WaitingWriters = {})
  BY AtFinite DEF WaitingWriters
<1> QED  BY <1>1, <1>2 DEF LockInv, CountsHonest

\* Counting one thread in or out.
LEMMA CountIn ==
  ASSUME NEW S, NEW t, IsFiniteSet(S), t \notin S
  PROVE  Cardinality(S \cup {t}) = Cardinality(S) + 1
BY FS_AddElement

LEMMA CountOut ==
  ASSUME NEW S, NEW t, IsFiniteSet(S), t \in S
  PROVE  Cardinality(S \ {t}) = Cardinality(S) - 1
BY FS_RemoveElement

LEMMA LockInitInv == Init => LockInv
<1> SUFFICES ASSUME Init PROVE LockInv  OBVIOUS
<1>1. /\ Readers = {} /\ Writers = {} /\ WaitingWriters = {}
      /\ At({"blocked_read"}) = {}
  BY DEF Init, Readers, Writers, WaitingWriters, At
<1>2. Cardinality({}) = 0  BY FS_EmptySet
<1> QED  BY <1>1, <1>2 DEF Init, LockInv, TypeOK, Exclusion, CountsHonest, NoLostWakeup

-----------------------------------------------------------------------------
(* One lemma per place a call can leave the thread at. *)

\* A reader gets in.
LEMMA ReadStep ==
  ASSUME LockInv, NEW t \in Thread, pc[t] \in {"idle", "woken_read"}, MayRead, TryRead(t)
  PROVE  LockInv'
<1>1. /\ status' = status + 1
      /\ pc' = [pc EXCEPT ![t] = "reading"]
      /\ waiting_writers' = waiting_writers
  BY DEF TryRead
<1>2. TypeOK'  BY <1>1 DEF LockInv, TypeOK, MayRead
<1>3. /\ Readers' = Readers \cup {t} /\ t \notin Readers
      /\ Writers' = Writers
      /\ WaitingWriters' = WaitingWriters
      /\ At({"blocked_read"})' \subseteq At({"blocked_read"})
  BY <1>1 DEF LockInv, TypeOK, Readers, Writers, WaitingWriters, At
<1>4. Writers = {} /\ status = Cardinality(Readers) /\ At({"blocked_read"}) = {}
  BY WriterSeen DEF LockInv, TypeOK, CountsHonest, MayRead, NoLostWakeup
<1>5. Cardinality(Readers') = Cardinality(Readers) + 1
  BY <1>3, CountIn, AtFinite DEF Readers
<1>6. CountsHonest'
  BY <1>1, <1>3, <1>4, <1>5 DEF LockInv, CountsHonest
<1>7. Exclusion'  BY <1>3, <1>4 DEF Exclusion
<1>8. NoLostWakeup'
  BY <1>1, <1>3, <1>4 DEF LockInv, TypeOK, MayRead, NoLostWakeup
<1> QED  BY <1>2, <1>6, <1>7, <1>8 DEF LockInv

\* A reader stays out.
LEMMA ReadBlocks ==
  ASSUME LockInv, NEW t \in Thread, pc[t] \in {"idle", "woken_read"}, ~MayRead, TryRead(t)
  PROVE  LockInv'
<1>1. /\ pc' = [pc EXCEPT ![t] = "blocked_read"]
      /\ UNCHANGED <<status, waiting_writers>>
  BY DEF TryRead
<1>2. TypeOK'  BY <1>1 DEF LockInv, TypeOK
<1>3. /\ Readers' = Readers /\ Writers' = Writers /\ WaitingWriters' = WaitingWriters
      /\ At({"woken_write"})' = At({"woken_write"})
  BY <1>1 DEF LockInv, TypeOK, Readers, Writers, WaitingWriters, At
<1>4. CountsHonest'  BY <1>1, <1>3 DEF LockInv, CountsHonest
<1>5. Exclusion'
  BY <1>1, <1>3 DEF LockInv, TypeOK, Exclusion
<1>6. status = -1 \/ waiting_writers > 0  BY DEF MayRead, LockInv, TypeOK
<1>7. NoLostWakeup'  BY <1>1, <1>3, <1>6 DEF LockInv, NoLostWakeup
<1> QED  BY <1>2, <1>4, <1>5, <1>7 DEF LockInv

\* A writer gets in, from outside or from the wait.
LEMMA WriteStep ==
  ASSUME LockInv, NEW t \in Thread, Enter(t),
         \/ pc[t] = "idle" /\ waiting_writers' = waiting_writers
         \/ pc[t] = "woken_write" /\ waiting_writers' = waiting_writers - 1
  PROVE  LockInv'
<1>1. status = 0 /\ status' = -1 /\ pc' = [pc EXCEPT ![t] = "writing"]
  BY DEF Enter
<1>2. Readers = {} /\ Writers = {}  BY <1>1, WriterSeen
<1>3. /\ Readers' = {} /\ Writers' = {t}
      /\ WaitingWriters' = WaitingWriters \ {t}
      /\ t \in WaitingWriters <=> pc[t] = "woken_write"
  BY <1>1, <1>2 DEF LockInv, TypeOK, Readers, Writers, WaitingWriters, At
<1>4. /\ IsFiniteSet(WaitingWriters) /\ Cardinality(WaitingWriters) \in Nat
      /\ Cardinality(WaitingWriters) = 0 <=> WaitingWriters = {}
  BY AtFinite DEF WaitingWriters
<1>5. waiting_writers' = Cardinality(WaitingWriters') /\ waiting_writers' \in Nat
  <2>1. CASE pc[t] = "idle"
    <3>1. WaitingWriters' = WaitingWriters  BY <1>3, <2>1
    <3> QED  BY <2>1, <3>1 DEF LockInv, CountsHonest, TypeOK
  <2>2. CASE pc[t] = "woken_write"
    <3>1. Cardinality(WaitingWriters') = Cardinality(WaitingWriters) - 1
      BY <1>3, <1>4, <2>2, CountOut
    <3>2. Cardinality(WaitingWriters) # 0  BY <1>3, <1>4, <2>2
    <3> QED  BY <1>4, <2>2, <3>1, <3>2 DEF LockInv, CountsHonest, TypeOK
  <2> QED  BY <2>1, <2>2
<1>6. TypeOK'  BY <1>1, <1>5 DEF LockInv, TypeOK
<1>7. CountsHonest'  BY <1>1, <1>3, <1>5 DEF CountsHonest
<1>8. Exclusion'
  <2>1. ASSUME NEW u \in Thread, u # t PROVE pc'[u] \notin {"reading", "writing"}
    BY <1>1, <1>2, <2>1 DEF LockInv, TypeOK, Readers, Writers, At
  <2> QED  BY <1>3, <2>1 DEF Exclusion
<1>9. NoLostWakeup'  BY <1>1 DEF NoLostWakeup
<1> QED  BY <1>6, <1>7, <1>8, <1>9 DEF LockInv

\* A writer stays out, counted once.
LEMMA WriteBlocks ==
  ASSUME LockInv, NEW t \in Thread, StayOut(t),
         \/ pc[t] = "idle" /\ waiting_writers' = waiting_writers + 1
         \/ pc[t] = "woken_write" /\ waiting_writers' = waiting_writers
  PROVE  LockInv'
<1>1. status # 0 /\ status' = status /\ pc' = [pc EXCEPT ![t] = "blocked_write"]
  BY DEF StayOut
<1>2. TypeOK'  BY <1>1 DEF LockInv, TypeOK
<1>3. /\ Readers' = Readers /\ Writers' = Writers
      /\ WaitingWriters' = WaitingWriters \cup {t}
      /\ t \in WaitingWriters <=> pc[t] = "woken_write"
      /\ At({"blocked_read"})' = At({"blocked_read"})
  BY <1>1 DEF LockInv, TypeOK, Readers, Writers, WaitingWriters, At
<1>4. IsFiniteSet(WaitingWriters)  BY AtFinite DEF WaitingWriters
<1>5. waiting_writers' = Cardinality(WaitingWriters')
  <2>1. CASE pc[t] = "idle"
    BY <1>3, <1>4, <2>1, CountIn DEF LockInv, CountsHonest
  <2>2. CASE pc[t] = "woken_write"
    <3>1. WaitingWriters' = WaitingWriters  BY <1>3, <2>2
    <3> QED  BY <2>2, <3>1 DEF LockInv, CountsHonest
  <2> QED  BY <2>1, <2>2
<1>6. CountsHonest'  BY <1>1, <1>3, <1>5 DEF LockInv, CountsHonest
<1>7. Exclusion'  BY <1>1, <1>3 DEF LockInv, TypeOK, Exclusion
<1>8. NoLostWakeup'
  BY <1>1, <1>3 DEF LockInv, TypeOK, NoLostWakeup
<1> QED  BY <1>2, <1>6, <1>7, <1>8 DEF LockInv

\* A thread wakes up for no reason.
LEMMA WakeStep ==
  ASSUME LockInv, NEW t \in Thread, SpuriousWake(t)
  PROVE  LockInv'
<1>1. UNCHANGED <<status, waiting_writers>>  BY DEF SpuriousWake
<1>2. TypeOK'  BY DEF LockInv, TypeOK, SpuriousWake
<1>3. /\ Readers' = Readers /\ Writers' = Writers /\ WaitingWriters' = WaitingWriters
      /\ At({"woken_write"}) \subseteq At({"woken_write"})'
      /\ At({"blocked_read"})' \subseteq At({"blocked_read"})
  BY DEF LockInv, TypeOK, SpuriousWake, Readers, Writers, WaitingWriters, At
<1>4. CountsHonest'  BY <1>1, <1>3 DEF LockInv, CountsHonest
<1>5. Exclusion'  BY <1>1, <1>3 DEF LockInv, TypeOK, Exclusion, SpuriousWake
<1>6. NoLostWakeup'  BY <1>1, <1>3 DEF LockInv, NoLostWakeup
<1> QED  BY <1>2, <1>4, <1>5, <1>6 DEF LockInv

\* What an unlock leaves behind, whoever it wakes.
LEMMA UnlockCounts ==
  ASSUME LockInv, NEW t \in Thread, Unlock(t), TypeOK',
         Readers' = Readers \ {t}, Writers' = Writers \ {t},
         WaitingWriters' = WaitingWriters
  PROVE  CountsHonest' /\ Exclusion'
<1>1. status' = Left /\ waiting_writers' = waiting_writers  BY DEF Unlock
<1>2. IsFiniteSet(Readers)  BY AtFinite DEF Readers
<1>3. CASE pc[t] = "reading"
  <2>1. t \in Readers /\ t \notin Writers  BY <1>3 DEF Readers, Writers, At
  <2>2. Writers = {}
    BY <1>3 DEF LockInv, Exclusion, Writers, At
  <2>3. status = Cardinality(Readers) /\ status # -1
    BY <2>2, WriterSeen DEF LockInv, CountsHonest
  <2>4. Cardinality(Readers') = Cardinality(Readers) - 1  BY <1>2, <2>1, CountOut
  <2>5. CountsHonest'
    BY <1>1, <2>2, <2>3, <2>4 DEF LockInv, CountsHonest, Left
  <2>6. Exclusion'  BY <2>2 DEF Exclusion
  <2> QED  BY <2>5, <2>6
<1>4. CASE pc[t] = "writing"
  <2>1. t \in Writers  BY <1>4 DEF Writers, At
  <2>2. Writers = {t}
    BY <2>1 DEF LockInv, Exclusion, Writers, At
  <2>3. Readers = {}
    BY <1>4, <2>1 DEF LockInv, Exclusion, Readers, At
  <2>4. status = -1  BY <2>1, WriterSeen
  <2>5. Cardinality({}) = 0  BY FS_EmptySet
  <2>6. CountsHonest'
    BY <1>1, <2>2, <2>3, <2>4, <2>5 DEF LockInv, CountsHonest, Left
  <2>7. Exclusion'  BY <2>2 DEF Exclusion
  <2> QED  BY <2>6, <2>7
<1> QED  BY <1>3, <1>4 DEF Unlock

\* A holder leaves and wakes whoever comes next.
LEMMA UnlockStep ==
  ASSUME LockInv, NEW t \in Thread, Unlock(t)
  PROVE  LockInv'
<1>1. /\ pc[t] \in {"reading", "writing"}
      /\ status' = Left /\ waiting_writers' = waiting_writers
  BY DEF Unlock
<1>2. Left \in Nat \cup {-1}
  <2>1. Cardinality(Readers) \in Nat /\ (Cardinality(Readers) = 0 <=> Readers = {})
    BY AtFinite DEF Readers
  <2>2. CASE status = -1  BY <2>2 DEF Left
  <2>3. CASE status # -1
    <3>1. Writers = {}  BY <2>3, WriterSeen
    <3>2. Readers # {}  BY <1>1, <3>1 DEF Readers, Writers, At
    <3> QED  BY <2>1, <2>3, <3>1, <3>2 DEF LockInv, CountsHonest, Left
  <2> QED  BY <2>2, <2>3
<1>3. CASE waiting_writers > 0 /\ Left = 0 /\ NotifyWriter(t)
  <2>1. WaitingWriters # {}  BY <1>3, WriterSeen
  <2>2. /\ pc' \in [Thread -> {"idle", "blocked_read", "woken_read", "reading",
                               "blocked_write", "woken_write", "writing"}]
        /\ Readers' = Readers \ {t} /\ Writers' = Writers \ {t}
        /\ WaitingWriters' = WaitingWriters
        /\ At({"woken_write"})' # {}
    <3>1. CASE At({"blocked_write"}) = {}
      <4>1. pc' = [pc EXCEPT ![t] = "idle"]  BY <1>3, <3>1 DEF NotifyWriter
      <4> QED  BY <1>1, <2>1, <3>1, <4>1
               DEF LockInv, TypeOK, Readers, Writers, WaitingWriters, At
    <3>2. CASE At({"blocked_write"}) # {}
      <4>1. PICK w \in At({"blocked_write"}) :
              pc' = [pc EXCEPT ![t] = "idle", ![w] = "woken_write"]
        BY <1>3, <3>2 DEF NotifyWriter
      <4>2. w \in Thread /\ pc[w] = "blocked_write" /\ w # t
        BY <1>1, <4>1 DEF At
      <4>3. \A u \in Thread : pc'[u] = IF u = t THEN "idle"
                                       ELSE IF u = w THEN "woken_write" ELSE pc[u]
        BY <4>1, <4>2 DEF LockInv, TypeOK
      <4>4. pc' \in [Thread -> {"idle", "blocked_read", "woken_read", "reading",
                                "blocked_write", "woken_write", "writing"}]
        BY <4>1, <4>2 DEF LockInv, TypeOK
      <4>5. /\ Readers' = Readers \ {t} /\ Writers' = Writers \ {t}
            /\ WaitingWriters' = WaitingWriters
        BY <1>1, <4>2, <4>3 DEF Readers, Writers, WaitingWriters, At
      <4>6. w \in At({"woken_write"})'  BY <4>2, <4>3 DEF At
      <4> QED  BY <4>4, <4>5, <4>6
    <3> QED  BY <3>1, <3>2
  <2>3. TypeOK'  BY <1>1, <1>2, <2>2 DEF LockInv, TypeOK
  <2>4. CountsHonest' /\ Exclusion'  BY <2>2, <2>3, UnlockCounts
  <2>5. NoLostWakeup'  BY <1>1, <1>3, <2>2 DEF NoLostWakeup
  <2> QED  BY <2>3, <2>4, <2>5 DEF LockInv
<1>4. CASE waiting_writers > 0 /\ Left # 0 /\ pc' = [pc EXCEPT ![t] = "idle"]
  <2>1. TypeOK'  BY <1>1, <1>2, <1>4 DEF LockInv, TypeOK
  <2>2. /\ Readers' = Readers \ {t} /\ Writers' = Writers \ {t}
        /\ WaitingWriters' = WaitingWriters
    BY <1>1, <1>4 DEF LockInv, TypeOK, Readers, Writers, WaitingWriters, At
  <2>3. CountsHonest' /\ Exclusion'  BY <2>1, <2>2, UnlockCounts
  <2>4. NoLostWakeup'  BY <1>1, <1>4 DEF NoLostWakeup
  <2> QED  BY <2>1, <2>3, <2>4 DEF LockInv
<1>5. CASE waiting_writers = 0 /\ NotifyReaders(t)
  <2>1. \A u \in Thread : pc'[u] = IF u = t THEN "idle"
                                   ELSE IF pc[u] = "blocked_read" THEN "woken_read"
                                   ELSE pc[u]
    BY <1>5 DEF NotifyReaders
  <2>2. TypeOK'  BY <1>1, <1>2, <1>5 DEF LockInv, TypeOK, NotifyReaders
  <2>3. /\ Readers' = Readers \ {t} /\ Writers' = Writers \ {t}
        /\ WaitingWriters' = WaitingWriters
        /\ At({"blocked_read"})' = {}
    BY <1>1, <2>1 DEF Readers, Writers, WaitingWriters, At
  <2>4. WaitingWriters = {}
    <3>1. ~(waiting_writers > 0)  BY <1>5
    <3> QED  BY <3>1, WriterSeen
  <2>5. CountsHonest' /\ Exclusion'  BY <2>2, <2>3, UnlockCounts
  <2>6. NoLostWakeup'  BY <2>3, <2>4 DEF NoLostWakeup
  <2> QED  BY <2>2, <2>5, <2>6 DEF LockInv
<1> QED  BY <1>3, <1>4, <1>5 DEF Unlock

-----------------------------------------------------------------------------

\* LockInv holds in every reachable state.
THEOREM LockInvariance == Spec => []LockInv
<1>1. Init => LockInv  BY LockInitInv
<1>2. LockInv /\ [Next]_vars => LockInv'
  <2> SUFFICES ASSUME LockInv, [Next]_vars PROVE LockInv'  OBVIOUS
  <2>1. CASE UNCHANGED vars
    BY <2>1 DEF vars, LockInv, TypeOK, Exclusion, CountsHonest, NoLostWakeup,
                Readers, Writers, WaitingWriters, At
  <2>2. ASSUME NEW t \in Thread, LockRead(t) \/ RetryRead(t) PROVE LockInv'
    <3>1. pc[t] \in {"idle", "woken_read"} /\ TryRead(t)
      BY <2>2 DEF LockRead, RetryRead
    <3> QED  BY <3>1, ReadStep, ReadBlocks
  <2>3. ASSUME NEW t \in Thread, LockWrite(t) \/ RetryWrite(t) PROVE LockInv'
    BY <2>3, WriteStep, WriteBlocks DEF LockWrite, RetryWrite
  <2>4. ASSUME NEW t \in Thread, Unlock(t) PROVE LockInv'
    BY <2>4, UnlockStep
  <2>5. ASSUME NEW t \in Thread, SpuriousWake(t) PROVE LockInv'
    BY <2>5, WakeStep
  <2> QED  BY <2>1, <2>2, <2>3, <2>4, <2>5 DEF Next
<1> QED  BY <1>1, <1>2, PTL DEF Spec

\* The states are the ones the declarations allow.
THEOREM TypeCorrect == Spec => []TypeOK
<1>1. LockInv => TypeOK  BY DEF LockInv
<1> QED  BY <1>1, LockInvariance, PTL

\* For any number of threads: a writer inside is alone inside.
THEOREM WriterAlone == Spec => []Exclusion
<1>1. LockInv => Exclusion  BY DEF LockInv
<1> QED  BY <1>1, LockInvariance, PTL

\* For any number of threads: status_ and waiting_writers_ count what they
\* are named for.
THEOREM HonestCounts == Spec => []CountsHonest
<1>1. LockInv => CountsHonest  BY DEF LockInv
<1> QED  BY <1>1, LockInvariance, PTL

\* For any number of threads: no thread sleeps while the lock is its to take.
THEOREM NobodySleepsOn == Spec => []NoLostWakeup
<1>1. LockInv => NoLostWakeup  BY DEF LockInv
<1> QED  BY <1>1, LockInvariance, PTL

-----------------------------------------------------------------------------
(***************************************************************************)
(* The task pools.                                                         *)
(***************************************************************************)

PoolsTyped ==
  /\ started \in [Shard -> BOOLEAN]
  /\ tasks \in [Shard -> Seq(Context)]
  /\ thread \in [Shard -> {"ready", "asleep", "run", "complete", "ended"}]
  /\ hands \in [Shard -> SUBSET Context]
  /\ stage \in [Context -> {"idle", "post", "notify", "wait", "asleep"}]
  /\ phase \in [Context -> {"pull", "push"}]
  /\ mask \in [Context -> SUBSET Shard] /\ unposted \in [Context -> SUBSET Shard]
  /\ remain \in [Context -> Int]
  /\ served \in [Context -> SUBSET Shard]

\* The task of c waits in the queue of s.
Queued(c, s) == \E i \in 1..Len(tasks[s]) : tasks[s][i] = c

Distinct(q) == \A i, j \in 1..Len(q) : q[i] = q[j] => i = j

\* A task is in one place.
Place(s) ==
  /\ Distinct(tasks[s])
  /\ \A c, d \in hands[s] : c = d
  /\ \A c \in hands[s] : ~Queued(c, s)
  /\ hands[s] # {} => thread[s] \in {"run", "complete"}

PlaceInv == \A s \in Shard : Place(s)

\* The shard c posts to next, or has just posted to.
Least(c, s) == s \in unposted[c] /\ \A r \in unposted[c] : s <= r

\* The shards c has still to post to.
ToPost(c) ==
  {s \in unposted[c] : stage[c] = "post" \/ (stage[c] = "notify" /\ ~Least(c, s))}

Due(c) == {s \in Shard : s \in ToPost(c) \/ Outstanding(c, s)}

\* The token counts what is due, and what is not due any more has been served.
Token(c) ==
  /\ stage[c] \notin {"post", "notify"} => unposted[c] = {}
  /\ stage[c] = "idle" => Due(c) = {}
  /\ remain[c] = Cardinality(Due(c))
  /\ Due(c) \cup served[c] \cup unposted[c] \subseteq mask[c]
  /\ mask[c] \subseteq Due(c) \cup served[c]
  /\ \A s \in ToPost(c) : ~Outstanding(c, s) /\ s \notin served[c]
  /\ \A s \in Shard : Queued(c, s) => s \notin served[c]
  /\ \A s \in Shard : c \in hands[s] /\ thread[s] = "complete" => s \in served[c]

TokenInv == \A c \in Context : Token(c)

PoolsInv == PoolsTyped /\ PlaceInv /\ TokenInv

-----------------------------------------------------------------------------
(* Queues. *)

\* A new task is in front.
LEMMA Prepended ==
  ASSUME NEW S, NEW q \in Seq(S), NEW e \in S
  PROVE  /\ <<e>> \o q \in Seq(S)
         /\ Len(<<e>> \o q) = Len(q) + 1 /\ (<<e>> \o q)[1] = e
         /\ \A i \in 1..Len(q) : (<<e>> \o q)[i + 1] = q[i]
         /\ Distinct(q) /\ (\A i \in 1..Len(q) : q[i] # e) => Distinct(<<e>> \o q)
<1> DEFINE t == <<e>> \o q
<1>1. /\ t \in Seq(S) /\ Len(t) = Len(q) + 1 /\ Len(q) \in Nat
      /\ t[1] = e /\ \A i \in 1..Len(q) : t[i + 1] = q[i]
  OBVIOUS
<1>2. \A i \in 2..Len(t) : t[i] = q[i - 1] /\ i - 1 \in 1..Len(q)
  BY <1>1
<1> HIDE DEF t
<1>4. ASSUME Distinct(q), \A i \in 1..Len(q) : q[i] # e PROVE Distinct(t)
  <2> SUFFICES ASSUME NEW i \in 1..Len(t), NEW j \in 1..Len(t), t[i] = t[j] PROVE i = j
    BY DEF Distinct
  <2>e. \A p \in 2..Len(t) : t[p] # e
    <3> TAKE p \in 2..Len(t)
    <3>1. t[p] = q[p - 1] /\ p - 1 \in 1..Len(q)  BY <1>2
    <3> QED  BY <1>4, <3>1
  <2>1. CASE i = 1 \/ j = 1
    <3>1. t[i] = e /\ t[j] = e  BY <1>1, <2>1
    <3>2. i \notin 2..Len(t) /\ j \notin 2..Len(t)  BY <2>e, <3>1
    <3> QED  BY <1>1, <3>2
  <2>2. CASE i # 1 /\ j # 1
    <3>1. i \in 2..Len(t) /\ j \in 2..Len(t)  BY <1>1, <2>2
    <3> QED  BY <1>1, <1>2, <1>4, <3>1 DEF Distinct
  <2> QED  BY <2>1, <2>2
<1> QED  BY <1>1, <1>4 DEF t

\* The first task is taken.
LEMMA Taken ==
  ASSUME NEW S, NEW q \in Seq(S), q # <<>>, Distinct(q)
  PROVE  /\ Head(q) \in S /\ Tail(q) \in Seq(S) /\ Distinct(Tail(q))
         /\ \A x : (\E i \in 1..Len(q) : q[i] = x)
                     <=> x = Head(q) \/ \E i \in 1..Len(Tail(q)) : Tail(q)[i] = x
         /\ \A i \in 1..Len(Tail(q)) : Tail(q)[i] # Head(q)
<1> DEFINE t == Tail(q)
<1>1. /\ t \in Seq(S) /\ Len(t) = Len(q) - 1 /\ Len(q) \in Nat \ {0}
      /\ q[1] = Head(q) /\ Head(q) \in S /\ \A i \in 1..Len(t) : t[i] = q[i + 1]
  OBVIOUS
<1> HIDE DEF t
<1>2. \A i \in 1..Len(t) : i + 1 \in 1..Len(q) /\ i + 1 # 1  BY <1>1
<1>3. 1 \in 1..Len(q)  BY <1>1
<1>4. Distinct(t)  BY <1>1, <1>2 DEF Distinct
<1>5. \A i \in 1..Len(t) : t[i] # Head(q)  BY <1>1, <1>2, <1>3 DEF Distinct
<1>6. ASSUME NEW x
      PROVE  (\E i \in 1..Len(q) : q[i] = x) <=> x = Head(q) \/ \E i \in 1..Len(t) : t[i] = x
  <2>1. ASSUME NEW i \in 1..Len(q), q[i] = x PROVE x = Head(q) \/ \E j \in 1..Len(t) : t[j] = x
    <3>1. CASE i = 1  BY <1>1, <2>1, <3>1
    <3>2. CASE i # 1
      <4>1. i - 1 \in 1..Len(t) /\ t[i - 1] = q[(i - 1) + 1] /\ (i - 1) + 1 = i  BY <1>1, <3>2
      <4> QED  BY <2>1, <4>1
    <3> QED  BY <3>1, <3>2
  <2>2. x = Head(q) => \E i \in 1..Len(q) : q[i] = x  BY <1>1, <1>3
  <2>3. ASSUME NEW j \in 1..Len(t), t[j] = x PROVE \E i \in 1..Len(q) : q[i] = x
    BY <1>1, <1>2, <2>3
  <2> QED  BY <2>1, <2>2, <2>3
<1> QED  BY <1>1, <1>4, <1>5, <1>6 DEF t

-----------------------------------------------------------------------------
(* The steps. *)

\* Shards can be counted.
LEMMA DueFinite ==
  ASSUME PoolsConstants, NEW c
  PROVE  /\ IsFiniteSet(Shard) /\ IsFiniteSet(Due(c)) /\ Cardinality(Due(c)) \in Nat
         /\ Cardinality(Due(c)) = 0 <=> Due(c) = {}
<1>1. IsFiniteSet(Shard)
  BY FS_Interval DEF Shard, PoolsConstants
<1>2. Due(c) \subseteq Shard  BY DEF Due
<1> QED  BY <1>1, <1>2, FS_Subset, FS_CardinalityType, FS_EmptySet

\* Before the first batch every queue is empty.
LEMMA PoolsInitInv == ASSUME PoolsConstants PROVE PoolsInit => PoolsInv
<1> SUFFICES ASSUME PoolsInit PROVE PoolsInv  OBVIOUS
<1>1. PoolsTyped  BY DEF PoolsInit, PoolsTyped
<1>2. \A c, s : s \in Shard => ~Outstanding(c, s) /\ ~Queued(c, s)
  BY DEF PoolsInit, Outstanding, Queued
<1>3. \A c \in Context : Due(c) = {} /\ ToPost(c) = {}
  BY <1>2 DEF PoolsInit, Due, ToPost
<1>4. Cardinality({}) = 0  BY FS_EmptySet
<1>5. PlaceInv  BY DEF PoolsInit, PlaceInv, Place, Distinct
<1>6. TokenInv  BY <1>2, <1>3, <1>4 DEF PoolsInit, TokenInv, Token
<1> QED  BY <1>1, <1>5, <1>6 DEF PoolsInv

\* What a step leaves of the sets of a context it does not move.
LEMMA DueKept ==
  ASSUME NEW c \in Context, stage'[c] = stage[c], unposted'[c] = unposted[c],
         \A s \in Shard : Outstanding(c, s)' <=> Outstanding(c, s)
  PROVE  ToPost(c)' = ToPost(c) /\ Due(c)' = Due(c)
BY DEF ToPost, Due, Least

\* The token of a context counts on while its shards that are due and the tasks
\* it has still to post stay the same.
LEMMA TokenKept ==
  ASSUME PoolsInv, NEW c \in Context,
         stage'[c] = stage[c], unposted'[c] = unposted[c], remain'[c] = remain[c],
         mask'[c] = mask[c], served'[c] = served[c],
         \A s \in Shard :
           /\ Outstanding(c, s)' <=> Outstanding(c, s)
           /\ Queued(c, s)' => Queued(c, s)
           /\ c \in hands'[s] /\ thread'[s] = "complete" =>
                c \in hands[s] /\ thread[s] = "complete"
  PROVE  Token(c)'
<1>1. ToPost(c)' = ToPost(c) /\ Due(c)' = Due(c)  BY DueKept
<1>2. ToPost(c) \subseteq Shard  BY DEF ToPost, PoolsInv, PoolsTyped
<1>3. Token(c)  BY DEF PoolsInv, TokenInv
<1> HIDE DEF ToPost, Due, Outstanding, Queued
<1> QED  BY <1>1, <1>2, <1>3 DEF Token

\* A pool whose thread sleeps, wakes or ends holds no task.
LEMMA ThreadMoves ==
  ASSUME PoolsInv, NEW s \in Shard, NEW x, thread[s] \notin {"run", "complete"},
         x \in {"ready", "asleep", "ended"}, thread' = [thread EXCEPT ![s] = x],
         UNCHANGED <<tasks, hands, token>>, started' \in [Shard -> BOOLEAN]
  PROVE  PoolsInv'
<1>1. hands[s] = {}  BY DEF PoolsInv, PlaceInv, Place
<1>2. PoolsTyped'  BY DEF PoolsInv, PoolsTyped, token
<1>3. PlaceInv'  BY <1>1 DEF PoolsInv, PoolsTyped, PlaceInv, Place, Queued
<1>4. ASSUME NEW c \in Context PROVE Token(c)'
  <2>1. \A r \in Shard : c \in hands'[r] /\ thread'[r] = "complete" =>
                           c \in hands[r] /\ thread[r] = "complete"
    BY <1>1 DEF PoolsInv, PoolsTyped
  <2> QED  BY <2>1, TokenKept DEF Queued, Outstanding, token
<1> QED  BY <1>2, <1>3, <1>4 DEF PoolsInv, TokenInv

\* The thread takes the next task.
LEMMA TakeStep ==
  ASSUME PoolsInv, NEW s \in Shard, TakeTask(s)
  PROVE  PoolsInv'
<1>1. CASE tasks[s] = <<>>
  BY <1>1, ThreadMoves DEF TakeTask, PoolsInv, PoolsTyped
<1>2. CASE tasks[s] # <<>>
  <2> DEFINE q == tasks[s]
  <2>1. /\ thread[s] = "ready" /\ thread' = [thread EXCEPT ![s] = "run"]
        /\ hands' = [hands EXCEPT ![s] = {Head(q)}] /\ tasks' = [tasks EXCEPT ![s] = Tail(q)]
        /\ UNCHANGED <<started, token>>
    BY <1>2 DEF TakeTask
  <2>2. hands[s] = {} /\ Distinct(q) /\ q \in Seq(Context)
    BY <2>1 DEF PoolsInv, PlaceInv, Place, PoolsTyped
  <2>3. /\ Head(q) \in Context /\ Tail(q) \in Seq(Context) /\ Distinct(Tail(q))
        /\ \A x : (\E i \in 1..Len(q) : q[i] = x)
                    <=> x = Head(q) \/ \E i \in 1..Len(Tail(q)) : Tail(q)[i] = x
        /\ \A i \in 1..Len(Tail(q)) : Tail(q)[i] # Head(q)
    BY <1>2, <2>2, Taken
  <2>4. /\ tasks'[s] = Tail(q) /\ hands'[s] = {Head(q)} /\ thread'[s] = "run"
        /\ \A r \in Shard \ {s} : tasks'[r] = tasks[r] /\ hands'[r] = hands[r]
                                  /\ thread'[r] = thread[r]
    BY <2>1 DEF PoolsInv, PoolsTyped
  <2> HIDE DEF q
  <2>5. PoolsTyped'  BY <2>1, <2>3 DEF PoolsInv, PoolsTyped, token
  <2>6. \A c : Queued(c, s) <=> c = Head(q) \/ Queued(c, s)'
    BY <2>3, <2>4 DEF Queued, q
  <2>7. \A c : \A r \in Shard \ {s} : Queued(c, r)' <=> Queued(c, r)
    BY <2>4 DEF Queued
  <2> PICK h \in Context : h = Head(q)  BY <2>3
  <2>8. ~Queued(h, s)'  BY <2>3, <2>4 DEF Queued
  <2>9. \A c : \A r \in Shard : Outstanding(c, r) <=> c \in hands[r] \/ Queued(c, r)
    BY DEF Outstanding, Queued
  <2>10. \A c : \A r \in Shard : Outstanding(c, r)' <=> c \in hands'[r] \/ Queued(c, r)'
    BY DEF Outstanding, Queued
  <2> HIDE DEF Queued
  <2>11. PlaceInv'
    <3>1. Place(s)'  BY <2>3, <2>4, <2>8 DEF Place
    <3>2. ASSUME NEW r \in Shard \ {s} PROVE Place(r)'
      <4>1. Place(r)  BY DEF PoolsInv, PlaceInv
      <4> QED  BY <2>4, <2>7, <4>1 DEF Place
    <3> QED  BY <3>1, <3>2 DEF PlaceInv
  <2>12. \A c : \A r \in Shard : Outstanding(c, r)' <=> Outstanding(c, r)
    BY <2>2, <2>4, <2>6, <2>7, <2>9, <2>10
  <2>13. ASSUME NEW c \in Context PROVE Token(c)'
    <3>2. \A r \in Shard : Queued(c, r)' => Queued(c, r)  BY <2>6, <2>7
    <3>3. \A r \in Shard : c \in hands'[r] /\ thread'[r] = "complete" =>
                             c \in hands[r] /\ thread[r] = "complete"
      BY <2>4
    <3> QED  BY <2>1, <2>12, <3>2, <3>3, TokenKept DEF token
  <2> QED  BY <2>5, <2>11, <2>13 DEF PoolsInv, TokenInv
<1> QED  BY <1>1, <1>2

\* A shard has served the task it holds.
LEMMA RunStep ==
  ASSUME PoolsInv, NEW s \in Shard, RunTask(s)
  PROVE  PoolsInv'
<1> PICK c \in hands[s] : served' = [served EXCEPT ![c] = @ \cup {s}]
  BY DEF RunTask
<1>1. /\ thread' = [thread EXCEPT ![s] = "complete"]
      /\ UNCHANGED <<started, tasks, hands, stage, phase, mask, unposted, remain>>
  BY DEF RunTask
<1>2. c \in Context /\ Outstanding(c, s) /\ ~Queued(c, s)
  BY DEF PoolsInv, PlaceInv, Place, PoolsTyped, Outstanding
<1>3. PoolsTyped'  BY <1>1, <1>2 DEF PoolsInv, PoolsTyped
<1>4. PlaceInv'  BY <1>1 DEF PoolsInv, PoolsTyped, PlaceInv, Place, Queued
<1>5. \A d \in Context : /\ ToPost(d)' = ToPost(d) /\ Due(d)' = Due(d)
                         /\ \A r \in Shard : Outstanding(d, r)' <=> Outstanding(d, r)
                         /\ \A r \in Shard : Queued(d, r)' <=> Queued(d, r)
  BY <1>1, DueKept DEF Outstanding, Queued
<1>6. ASSUME NEW d \in Context \ {c} PROVE Token(d)'
  <2>1. served'[d] = served[d] /\ d \notin hands[s]
    BY <1>6 DEF PoolsInv, PoolsTyped, PlaceInv, Place
  <2>2. \A r \in Shard : d \in hands'[r] /\ thread'[r] = "complete" =>
                           d \in hands[r] /\ thread[r] = "complete"
    BY <1>1, <2>1 DEF PoolsInv, PoolsTyped
  <2> QED  BY <1>1, <1>5, <2>1, <2>2, TokenKept
<1>7. Token(c)'
  <2>1. Token(c)  BY <1>2 DEF PoolsInv, TokenInv
  <2>2. served'[c] = served[c] \cup {s}  BY <1>2 DEF PoolsInv, PoolsTyped
  <2>3. s \in Due(c) /\ s \notin ToPost(c)  BY <1>2, <2>1 DEF Due, Token
  <2>4. \A r \in Shard : c \in hands'[r] /\ thread'[r] = "complete" => r \in served'[c]
    BY <1>1, <2>1, <2>2 DEF PoolsInv, PoolsTyped, Token
  <2>5. ToPost(c) \subseteq Shard  BY <1>2 DEF ToPost, PoolsInv, PoolsTyped
  <2> HIDE DEF ToPost, Due, Outstanding, Queued
  <2> QED  BY <1>1, <1>2, <1>5, <2>1, <2>2, <2>3, <2>4, <2>5 DEF Token
<1> QED  BY <1>3, <1>4, <1>6, <1>7 DEF PoolsInv, TokenInv

\* The task is done: one less is due.
LEMMA CompleteStep ==
  ASSUME PoolsConstants, PoolsInv, NEW s \in Shard, Complete(s)
  PROVE  PoolsInv'
<1> PICK c \in hands[s] :
       /\ remain' = [remain EXCEPT ![c] = @ - 1]
       /\ stage' = [stage EXCEPT ![c] = IF remain[c] = 1 /\ @ = "asleep" THEN "wait" ELSE @]
  BY DEF Complete
<1>1. /\ thread[s] = "complete" /\ hands' = [hands EXCEPT ![s] = {}]
      /\ thread' = [thread EXCEPT ![s] = "ready"]
      /\ UNCHANGED <<started, tasks, phase, mask, unposted, served>>
  BY DEF Complete
<1>2. c \in Context /\ Outstanding(c, s) /\ ~Queued(c, s)
  BY DEF PoolsInv, PlaceInv, Place, PoolsTyped, Outstanding
<1>3. PoolsTyped'  BY <1>1, <1>2 DEF PoolsInv, PoolsTyped
<1>4. PlaceInv'  BY <1>1 DEF PoolsInv, PoolsTyped, PlaceInv, Place, Queued
<1>5. \A d, r : Queued(d, r)' <=> Queued(d, r)
  BY <1>1 DEF Queued
<1>6. /\ \A d \in Context \ {c} : \A r \in Shard : Outstanding(d, r)' <=> Outstanding(d, r)
      /\ \A r \in Shard \ {s} : Outstanding(c, r)' <=> Outstanding(c, r)
      /\ ~Outstanding(c, s)'
  <2>1. \A d, r : r \in Shard => (Outstanding(d, r) <=> d \in hands[r] \/ Queued(d, r))
    BY DEF Outstanding, Queued
  <2>2. \A d, r : r \in Shard => (Outstanding(d, r)' <=> d \in hands'[r] \/ Queued(d, r)')
    BY DEF Outstanding, Queued
  <2>3. \A d \in hands[s] : d = c  BY DEF PoolsInv, PlaceInv, Place
  <2>4. hands'[s] = {} /\ \A r \in Shard \ {s} : hands'[r] = hands[r]
    BY <1>1 DEF PoolsInv, PoolsTyped
  <2> HIDE DEF Queued
  <2> QED  BY <1>2, <1>5, <2>1, <2>2, <2>3, <2>4
<1>7. ASSUME NEW d \in Context \ {c} PROVE Token(d)'
  <2>1. stage'[d] = stage[d] /\ remain'[d] = remain[d]
    BY <1>7 DEF PoolsInv, PoolsTyped
  <2>2. \A r \in Shard : d \in hands'[r] /\ thread'[r] = "complete" =>
                           d \in hands[r] /\ thread[r] = "complete"
    BY <1>1 DEF PoolsInv, PoolsTyped
  <2> QED  BY <1>1, <1>5, <1>6, <2>1, <2>2, TokenKept
<1>8. Token(c)'
  <2>1. Token(c)  BY <1>2 DEF PoolsInv, TokenInv
  <2>2. /\ remain'[c] = remain[c] - 1
        /\ stage'[c] = stage[c] \/ (stage[c] = "asleep" /\ stage'[c] = "wait")
    BY <1>2 DEF PoolsInv, PoolsTyped
  <2>3. s \in Due(c) /\ s \notin ToPost(c) /\ s \in served[c]
    BY <1>1, <1>2, <2>1 DEF Due, Token
  <2>4. ToPost(c)' = ToPost(c)
    BY <1>1, <2>2 DEF ToPost, Least
  <2>5. ToPost(c) \subseteq Shard  BY <1>2 DEF ToPost, PoolsInv, PoolsTyped
  <2>6. Due(c)' = Due(c) \ {s}
    BY <1>6, <2>3, <2>4 DEF Due
  <2>7. Cardinality(Due(c) \ {s}) = Cardinality(Due(c)) - 1
    BY <2>3, DueFinite, FS_RemoveElement
  <2>8. \A r \in Shard : c \in hands'[r] /\ thread'[r] = "complete" => r \in served'[c]
    BY <1>1, <2>1 DEF PoolsInv, PoolsTyped, Token
  <2>9. \A r \in ToPost(c) : ~Outstanding(c, r)'
    BY <1>6, <2>1, <2>5 DEF Token
  <2>10. stage[c] # "idle"  BY <2>1, <2>3 DEF Token
  <2> HIDE DEF ToPost, Due, Outstanding, Queued
  <2> QED  BY <1>1, <1>5, <2>1, <2>2, <2>3, <2>4, <2>6, <2>7, <2>8, <2>9, <2>10 DEF Token
<1> QED  BY <1>3, <1>4, <1>7, <1>8 DEF PoolsInv, TokenInv

\* A trainer thread goes from one place to another where it has nothing to
\* post: it falls asleep or wakes, or a push is over.
LEMMA StageMoves ==
  ASSUME PoolsInv, NEW c \in Context, NEW x \in {"idle", "wait", "asleep"},
         stage[c] \in {"post", "wait", "asleep"}, unposted[c] = {},
         x = "idle" => Due(c) = {},
         stage' = [stage EXCEPT ![c] = x],
         UNCHANGED <<pool, phase, mask, unposted, remain, served>>
  PROVE  PoolsInv'
<1>1. PoolsTyped'  BY DEF PoolsInv, PoolsTyped, pool
<1>2. PlaceInv'  BY DEF PoolsInv, PlaceInv, Place, pool, Queued
<1>3. \A d, s : (Outstanding(d, s)' <=> Outstanding(d, s)) /\ (Queued(d, s)' <=> Queued(d, s))
  BY DEF Outstanding, Queued, pool
<1>4. ASSUME NEW d \in Context \ {c} PROVE Token(d)'
  <2>1. stage'[d] = stage[d]  BY <1>4 DEF PoolsInv, PoolsTyped
  <2> QED  BY <1>3, <2>1, TokenKept DEF pool
<1>5. Token(c)'
  <2>1. stage'[c] = x  BY DEF PoolsInv, PoolsTyped
  <2>2. ToPost(c) = {} /\ ToPost(c)' = {}  BY DEF ToPost
  <2>3. Due(c)' = Due(c)  BY <1>3, <2>2 DEF Due
  <2>4. Token(c)  BY DEF PoolsInv, TokenInv
  <2> HIDE DEF ToPost, Due, Outstanding, Queued
  <2> QED  BY <1>3, <2>1, <2>2, <2>3, <2>4 DEF Token, pool
<1> QED  BY <1>1, <1>2, <1>4, <1>5 DEF PoolsInv, TokenInv

\* The token is set when nothing is due from the phase before.
LEMMA ArmStep ==
  ASSUME PoolsInv, NEW c \in Context, NEW ph \in {"pull", "push"}, NEW S \in SUBSET Shard,
         Due(c) = {}, Arm(c, ph, S), mask' = [mask EXCEPT ![c] = S], UNCHANGED pool,
         PoolsConstants
  PROVE  PoolsInv'
<1>1. IsFiniteSet(S) /\ Cardinality(S) \in Nat
  BY DueFinite, FS_Subset, FS_CardinalityType
<1>2. PoolsTyped'  BY <1>1 DEF Arm, PoolsInv, PoolsTyped, pool
<1>3. PlaceInv'  BY DEF PoolsInv, PlaceInv, Place, pool, Queued
<1>4. \A d, s : (Outstanding(d, s)' <=> Outstanding(d, s)) /\ (Queued(d, s)' <=> Queued(d, s))
  BY DEF Outstanding, Queued, pool
<1>5. ASSUME NEW d \in Context \ {c} PROVE Token(d)'
  <2>1. /\ stage'[d] = stage[d] /\ unposted'[d] = unposted[d] /\ remain'[d] = remain[d]
        /\ mask'[d] = mask[d] /\ served'[d] = served[d]
    BY <1>5 DEF Arm, PoolsInv, PoolsTyped
  <2> QED  BY <1>4, <2>1, TokenKept DEF pool
<1>6. Token(c)'
  <2>1. /\ stage'[c] = "post" /\ unposted'[c] = S /\ remain'[c] = Cardinality(S)
        /\ mask'[c] = S /\ served'[c] = {}
    BY DEF Arm, PoolsInv, PoolsTyped
  <2>2. ToPost(c)' = S  BY <2>1 DEF ToPost
  <2>3. \A s \in Shard : ~Outstanding(c, s)  BY DEF Due
  <2>4. \A s \in Shard : ~Outstanding(c, s)'  BY <1>4, <2>3
  <2>5. Due(c)' = S  BY <2>2, <2>4 DEF Due, Shard
  <2>6. \A s \in Shard : c \notin hands'[s]  BY <2>4 DEF Outstanding
  <2> HIDE DEF ToPost, Due, Outstanding, Queued
  <2> QED  BY <2>1, <2>2, <2>4, <2>5, <2>6 DEF Token
<1> QED  BY <1>2, <1>3, <1>5, <1>6 DEF PoolsInv, TokenInv

\* The task goes from the hands of c into the queue.
LEMMA PostStep ==
  ASSUME PoolsInv, NEW c \in Context, Post(c)
  PROVE  PoolsInv'
<1> PICK s \in unposted[c] : /\ \A r \in unposted[c] : s <= r
                             /\ tasks' = [tasks EXCEPT ![s] = <<c>> \o @]
  BY DEF Post
<1>1. /\ stage[c] = "post" /\ stage' = [stage EXCEPT ![c] = "notify"]
      /\ UNCHANGED <<started, thread, hands, phase, mask, unposted, remain, served>>
  BY DEF Post
<1>2. /\ s \in Shard /\ tasks[s] \in Seq(Context) /\ tasks'[s] = <<c>> \o tasks[s]
      /\ \A r \in Shard \ {s} : tasks'[r] = tasks[r]
  BY DEF PoolsInv, PoolsTyped
<1>3. Token(c) /\ s \in ToPost(c)  BY <1>1 DEF PoolsInv, TokenInv, ToPost
<1>4. ~Outstanding(c, s) /\ s \notin served[c]  BY <1>3 DEF Token
<1>5. ~Queued(c, s) /\ c \notin hands[s]  BY <1>4 DEF Outstanding, Queued
<1>6. /\ tasks'[s] \in Seq(Context)
      /\ \A d : Queued(d, s)' <=> d = c \/ Queued(d, s)
      /\ Distinct(tasks'[s])
  <2>1. Distinct(tasks[s]) /\ \A i \in 1..Len(tasks[s]) : tasks[s][i] # c
    BY <1>2, <1>5 DEF PoolsInv, PlaceInv, Place, Queued
  <2> DEFINE q == tasks[s]
             t == <<c>> \o q
  <2>3. tasks'[s] = t  BY <1>2
  <2>4. q \in Seq(Context) /\ Distinct(q) /\ \A i \in 1..Len(q) : q[i] # c
    BY <1>2, <2>1
  <2> HIDE DEF q
  <2>2. /\ t \in Seq(Context) /\ Distinct(t)
        /\ \A d : (\E i \in 1..Len(t) : t[i] = d) <=> d = c \/ \E i \in 1..Len(q) : q[i] = d
    <3>1. /\ t \in Seq(Context) /\ Distinct(t) /\ Len(t) = Len(q) + 1 /\ t[1] = c
          /\ \A i \in 1..Len(q) : t[i + 1] = q[i]
      BY <2>4, Prepended
    <3>2. Len(q) \in Nat  BY <2>4
    <3> HIDE DEF t
    <3>3. ASSUME NEW d, NEW i \in 1..Len(t), t[i] = d
          PROVE  d = c \/ \E j \in 1..Len(q) : q[j] = d
      <4>1. CASE i = 1  BY <3>1, <3>3, <4>1
      <4>2. CASE i # 1
        <5>1. i - 1 \in 1..Len(q) /\ (i - 1) + 1 = i  BY <3>1, <3>2, <4>2
        <5> QED  BY <3>1, <3>3, <5>1
      <4> QED  BY <4>1, <4>2
    <3>4. 1 \in 1..Len(t)  BY <3>1, <3>2
    <3>5. ASSUME NEW d, NEW j \in 1..Len(q), q[j] = d
          PROVE  \E i \in 1..Len(t) : t[i] = d
      <4>1. j + 1 \in 1..Len(t) /\ t[j + 1] = d  BY <3>1, <3>2, <3>5
      <4> QED  BY <4>1
    <3> QED  BY <3>1, <3>3, <3>4, <3>5
  <2> USE DEF q
  <2> HIDE DEF t
  <2> QED  BY <2>2, <2>3 DEF Queued
<1>7. \A d : \A r \in Shard \ {s} : Queued(d, r)' <=> Queued(d, r)
  BY <1>2 DEF Queued
<1>8. \A d : \A r \in Shard : /\ Outstanding(d, r) <=> d \in hands[r] \/ Queued(d, r)
                              /\ Outstanding(d, r)' <=> d \in hands'[r] \/ Queued(d, r)'
  BY DEF Outstanding, Queued
<1> HIDE DEF Queued
<1>9. PoolsTyped'  BY <1>1, <1>2, <1>6 DEF PoolsInv, PoolsTyped
<1>10. PlaceInv'
  <2>1. Place(s)'  BY <1>1, <1>2, <1>5, <1>6 DEF PoolsInv, PlaceInv, Place
  <2>2. ASSUME NEW r \in Shard \ {s} PROVE Place(r)'
    BY <1>1, <1>2, <1>7 DEF PoolsInv, PlaceInv, Place
  <2> QED  BY <2>1, <2>2 DEF PlaceInv
<1>11. ASSUME NEW d \in Context \ {c} PROVE Token(d)'
  <2>1. stage'[d] = stage[d]  BY <1>1 DEF PoolsInv, PoolsTyped
  <2>2. \A r \in Shard : (Queued(d, r)' <=> Queued(d, r)) /\ (Outstanding(d, r)' <=> Outstanding(d, r))
    BY <1>1, <1>6, <1>7, <1>8
  <2> QED  BY <1>1, <2>1, <2>2, TokenKept
<1>12. Token(c)'
  <2>1. stage'[c] = "notify"  BY <1>1 DEF PoolsInv, PoolsTyped
  <2>2. \A r \in unposted[c] : Least(c, r) <=> r = s
    <3>1. unposted[c] \subseteq Int  BY DEF PoolsInv, PoolsTyped, Shard
    <3> QED  BY <3>1 DEF Least
  <2>3. ToPost(c) = unposted[c] /\ ToPost(c)' = unposted[c] \ {s}
    <3>1. \A r : Least(c, r)' <=> Least(c, r)  BY <1>1 DEF Least
    <3> QED  BY <1>1, <2>1, <2>2, <3>1 DEF ToPost
  <2>4. \A r \in Shard : Outstanding(c, r)' <=> r = s \/ Outstanding(c, r)
    BY <1>1, <1>2, <1>6, <1>7, <1>8
  <2>5. Due(c)' = Due(c)
    <3>1. \A r \in Shard : r \in ToPost(c) \/ Outstanding(c, r)
                             <=> r \in ToPost(c)' \/ Outstanding(c, r)'
      BY <1>3, <2>3, <2>4
    <3> QED  BY <3>1 DEF Due, Shard
  <2>6. ToPost(c) \subseteq Shard  BY DEF ToPost, PoolsInv, PoolsTyped
  <2>7. \A r \in ToPost(c)' : ~Outstanding(c, r)' /\ r \notin served[c]
    BY <1>3, <2>3, <2>4, <2>6 DEF Token
  <2>8. \A r \in Shard : Queued(c, r)' => r \notin served[c]
    BY <1>3, <1>4, <1>6, <1>7 DEF Token
  <2> HIDE DEF ToPost, Due, Outstanding
  <2> QED  BY <1>1, <1>3, <2>1, <2>5, <2>7, <2>8 DEF Token
<1> QED  BY <1>9, <1>10, <1>11, <1>12 DEF PoolsInv, TokenInv

\* The notification of the pool comes after the mutex is released.
LEMMA NotifyStep ==
  ASSUME PoolsInv, NEW c \in Context, Notify(c)
  PROVE  PoolsInv'
<1> PICK s \in unposted[c] :
      /\ \A r \in unposted[c] : s <= r
      /\ thread' = [thread EXCEPT ![s] = IF @ = "asleep" THEN "ready" ELSE @]
      /\ unposted' = [unposted EXCEPT ![c] = @ \ {s}]
  BY DEF Notify
<1>1. /\ stage[c] = "notify" /\ stage' = [stage EXCEPT ![c] = "post"]
      /\ UNCHANGED <<started, tasks, hands, phase, mask, remain, served>>
  BY DEF Notify
<1>2. s \in Shard  BY DEF PoolsInv, PoolsTyped
<1>3. PoolsTyped'  BY <1>1, <1>2 DEF PoolsInv, PoolsTyped
<1>4. /\ \A r \in Shard : thread'[r] = thread[r] \/ (thread[r] = "asleep" /\ thread'[r] = "ready")
      /\ \A d, r : (Outstanding(d, r)' <=> Outstanding(d, r)) /\ (Queued(d, r)' <=> Queued(d, r))
  BY <1>1, <1>2 DEF PoolsInv, PoolsTyped, Outstanding, Queued
<1>5. PlaceInv'
  BY <1>1, <1>4 DEF PoolsInv, PlaceInv, Place
<1>6. ASSUME NEW d \in Context \ {c} PROVE Token(d)'
  <2>1. stage'[d] = stage[d] /\ unposted'[d] = unposted[d]  BY <1>1 DEF PoolsInv, PoolsTyped
  <2>2. \A r \in Shard : d \in hands'[r] /\ thread'[r] = "complete" =>
                           d \in hands[r] /\ thread[r] = "complete"
    BY <1>1, <1>4
  <2> QED  BY <1>1, <1>4, <2>1, <2>2, TokenKept
<1>7. Token(c)'
  <2>1. stage'[c] = "post" /\ unposted'[c] = unposted[c] \ {s}  BY <1>1 DEF PoolsInv, PoolsTyped
  <2>2. \A r \in unposted[c] : Least(c, r) <=> r = s
    <3>1. unposted[c] \subseteq Int  BY DEF PoolsInv, PoolsTyped, Shard
    <3> QED  BY <3>1 DEF Least
  <2>3. ToPost(c) = unposted[c] \ {s} /\ ToPost(c)' = unposted[c] \ {s}
    BY <1>1, <2>1, <2>2 DEF ToPost
  <2>4. Due(c)' = Due(c)  BY <1>4, <2>3 DEF Due
  <2>5. \A r \in Shard : c \in hands'[r] /\ thread'[r] = "complete" =>
                           c \in hands[r] /\ thread[r] = "complete"
    BY <1>1, <1>4
  <2>6. Token(c)  BY DEF PoolsInv, TokenInv
  <2> HIDE DEF ToPost, Due, Outstanding, Queued
  <2> QED  BY <1>1, <1>4, <2>1, <2>3, <2>4, <2>5, <2>6 DEF Token
<1> QED  BY <1>3, <1>5, <1>6, <1>7 DEF PoolsInv, TokenInv

\* When the token is down, nothing is due and everything was served.
LEMMA NothingDue ==
  ASSUME PoolsConstants, PoolsInv, NEW c \in Context, remain[c] = 0
  PROVE  /\ Due(c) = {} /\ served[c] = mask[c]
         /\ \A s \in Shard : ~Outstanding(c, s)
<1>1. Token(c)  BY DEF PoolsInv, TokenInv
<1>2. Due(c) = {}  BY <1>1, DueFinite DEF Token
<1> QED  BY <1>1, <1>2 DEF Token, Due

\* A step that only concerns the main thread, or nobody.
LEMMA NothingMoves ==
  ASSUME PoolsInv, UNCHANGED <<tasks, thread, hands, token>>, started' \in [Shard -> BOOLEAN]
  PROVE  PoolsInv'
<1>1. PoolsTyped'  BY DEF PoolsInv, PoolsTyped, token
<1>2. PlaceInv'  BY DEF PoolsInv, PlaceInv, Place, Queued
<1>3. ASSUME NEW c \in Context PROVE Token(c)'
  BY TokenKept DEF token, Outstanding, Queued
<1> QED  BY <1>1, <1>2, <1>3 DEF PoolsInv, TokenInv

\* Every step keeps the invariant.
LEMMA PoolsStepInv == ASSUME PoolsConstants PROVE PoolsInv /\ [PoolsNext]_poolsVars => PoolsInv'
<1> SUFFICES ASSUME PoolsInv, [PoolsNext]_poolsVars PROVE PoolsInv'  OBVIOUS
<1>0. CASE UNCHANGED poolsVars
  BY <1>0, NothingMoves DEF poolsVars, pool, PoolsInv, PoolsTyped
<1>1. ASSUME NEW s \in Shard, PoolStep(s) PROVE PoolsInv'
  BY <1>1, TakeStep, RunStep, CompleteStep DEF PoolStep
<1>2. ASSUME NEW c \in Context, ContextStep(c) PROVE PoolsInv'
  <2>1. CASE BeginBatch(c)
    <3> PICK S \in SUBSET Shard : mask' = [mask EXCEPT ![c] = S] /\ Arm(c, "pull", S)
      BY <2>1 DEF BeginBatch
    <3>1. Due(c) = {} /\ UNCHANGED pool  BY <2>1 DEF BeginBatch, PoolsInv, TokenInv, Token
    <3> QED  BY <3>1, ArmStep
  <2>2. CASE Post(c)  BY <2>2, PostStep
  <2>3. CASE Notify(c)  BY <2>3, NotifyStep
  <2>4. CASE AllPosted(c)  BY <2>4, StageMoves DEF AllPosted
  <2>5. CASE Sleep(c)
    BY <2>5, StageMoves DEF Sleep, PoolsInv, TokenInv, Token
  <2>6. CASE GoOn(c)
    <3>1. Due(c) = {} /\ unposted[c] = {}
      BY <2>6, NothingDue DEF GoOn, PoolsInv, TokenInv, Token
    <3>2. CASE phase[c] = "pull" /\ Arm(c, "push", mask[c])
      <4>1. mask' = [mask EXCEPT ![c] = mask[c]] /\ mask[c] \in SUBSET Shard /\ UNCHANGED pool
        BY <2>6 DEF GoOn, PoolsInv, PoolsTyped
      <4> QED  BY <3>1, <3>2, <4>1, ArmStep
    <3>3. CASE phase[c] # "pull" \/ ~Arm(c, "push", mask[c])
      <4>1. /\ stage' = [stage EXCEPT ![c] = "idle"]
            /\ UNCHANGED <<pool, phase, mask, unposted, remain, served>>
            /\ stage[c] = "wait"
        BY <2>6, <3>3 DEF GoOn
      <4> QED  BY <3>1, <4>1, StageMoves
    <3> QED  BY <3>2, <3>3
  <2> QED  BY <1>2, <2>1, <2>2, <2>3, <2>4, <2>5, <2>6 DEF ContextStep
<1>3. CASE WakeSpuriously
  <2>1. ASSUME NEW s \in Shard, thread[s] = "asleep", thread' = [thread EXCEPT ![s] = "ready"],
               UNCHANGED <<started, tasks, hands, token>>
        PROVE  PoolsInv'
    BY <2>1, ThreadMoves DEF PoolsInv, PoolsTyped
  <2>2. ASSUME NEW c \in Context, stage[c] = "asleep", stage' = [stage EXCEPT ![c] = "wait"],
               UNCHANGED <<pool, phase, mask, unposted, remain, served>>
        PROVE  PoolsInv'
    BY <2>2, StageMoves DEF PoolsInv, TokenInv, Token
  <2> QED  BY <1>3, <2>1, <2>2 DEF WakeSpuriously
<1>4. CASE Stop
  <2>1. /\ main \in Shard /\ started' \in [Shard -> BOOLEAN] /\ UNCHANGED <<tasks, hands, token>>
        /\ thread' = [thread EXCEPT ![main] = IF @ = "asleep" THEN "ready" ELSE @]
    BY <1>4 DEF Stop, PoolsInv, PoolsTyped
  <2>2. CASE thread[main] = "asleep"
    BY <2>1, <2>2, ThreadMoves
  <2>3. CASE thread[main] # "asleep"
    <3>1. thread' = thread  BY <2>1, <2>3 DEF PoolsInv, PoolsTyped
    <3> QED  BY <2>1, <3>1, NothingMoves
  <2> QED  BY <2>2, <2>3
<1>5. CASE Join
  BY <1>5, NothingMoves DEF Join, pool, PoolsInv, PoolsTyped
<1> QED  BY <1>0, <1>1, <1>2, <1>3, <1>4, <1>5 DEF PoolsNext

-----------------------------------------------------------------------------
(* The theorems. *)

\* The wait token of a trainer thread counts the tasks that have not
\* completed, those still to post included (TrainerContextShard).
THEOREM TokenCounts ==
  ASSUME PoolsConstants PROVE PoolsSpec => []TokenHonest
<1>1. PoolsInv => TokenHonest
  <2> SUFFICES ASSUME PoolsInv, NEW c \in Context
               PROVE  TokenHonest!(c)
    BY DEF TokenHonest
  <2> DEFINE A == {s \in unposted[c] : stage[c] = "post"}
             B == {s \in unposted[c] : /\ stage[c] = "notify" /\ ~Outstanding(c, s)
                                       /\ s \notin served[c]}
             C == {s \in Shard : Outstanding(c, s)}
  <2>1. Token(c)  BY DEF PoolsInv, TokenInv
  <2>2. unposted[c] \subseteq Shard /\ ToPost(c) \subseteq Shard  BY DEF PoolsInv, PoolsTyped, ToPost
  <2>3. \A s \in unposted[c] : Least(c, s) /\ stage[c] = "notify" =>
                                 Outstanding(c, s) \/ s \in served[c]
    <3>1. ASSUME NEW s \in unposted[c], Least(c, s), stage[c] = "notify"
          PROVE  Outstanding(c, s) \/ s \in served[c]
      <4>1. s \notin ToPost(c) /\ s \in mask[c]  BY <2>1, <3>1 DEF ToPost, Token
      <4> QED  BY <2>1, <4>1 DEF Due, Token
    <3> QED  BY <3>1
  <2>4. A \cup B = ToPost(c) /\ A \cap B = {}
    BY <2>1, <2>3 DEF ToPost, Token
  <2>5. ToPost(c) \cup C = Due(c) /\ ToPost(c) \cap C = {}
    BY <2>1, <2>2 DEF Due, Token
  <2>6. A \subseteq Shard /\ B \subseteq Shard /\ C \subseteq Shard  BY <2>2
  <2> HIDE DEF A, B, C
  <2>7. IsFiniteSet(A) /\ IsFiniteSet(B) /\ IsFiniteSet(C) /\ IsFiniteSet(ToPost(c))
    BY <2>2, <2>6, DueFinite, FS_Subset
  <2>8. /\ Cardinality(A) \in Nat /\ Cardinality(B) \in Nat /\ Cardinality(C) \in Nat
        /\ Cardinality(ToPost(c)) \in Nat /\ Cardinality({}) = 0
    BY <2>7, FS_CardinalityType, FS_EmptySet
  <2>9. Cardinality(ToPost(c)) = Cardinality(A) + Cardinality(B)
    <3>1. Cardinality(A \cup B) = Cardinality(A) + Cardinality(B) - Cardinality(A \cap B)
      BY <2>7, FS_Union
    <3>2. Cardinality(A \cap B) = 0 /\ Cardinality(A \cup B) = Cardinality(ToPost(c))
      BY <2>4, <2>8
    <3> QED  BY <2>8, <3>1, <3>2
  <2>10. Cardinality(Due(c)) = Cardinality(ToPost(c)) + Cardinality(C)
    <3>1. Cardinality(ToPost(c) \cup C)
            = Cardinality(ToPost(c)) + Cardinality(C) - Cardinality(ToPost(c) \cap C)
      BY <2>7, FS_Union
    <3>2. /\ Cardinality(ToPost(c) \cap C) = 0
          /\ Cardinality(ToPost(c) \cup C) = Cardinality(Due(c))
      BY <2>5, <2>8
    <3> QED  BY <2>8, <3>1, <3>2
  <2>11. remain[c] = Cardinality(Due(c))  BY <2>1 DEF Token
  <2>12. remain[c] = Cardinality(A) + Cardinality(B) + Cardinality(C)
    BY <2>8, <2>9, <2>10, <2>11
  <2>13. B = {s \in unposted[c] : stage[c] = "notify" /\ ~Outstanding(c, s) /\ s \notin served[c]}
    BY DEF B
  <2> QED  BY <2>12, <2>13 DEF A, C
<1> QED  BY <1>1, PoolsInitInv, PoolsStepInv, PTL DEF PoolsSpec

\* A trainer thread goes on after a pull or a push when every shard of its
\* batch has run its task (WaitForCompletion).
THEOREM PhasesAreComplete ==
  ASSUME PoolsConstants PROVE PoolsSpec => PhasesComplete
<1>1. PoolsInv /\ [PoolsNext]_poolsVars =>
        [\A c \in Context : stage[c] = "wait" /\ stage'[c] \in {"post", "idle"}
           => served[c] = mask[c] /\ \A s \in Shard : ~Outstanding(c, s)]_poolsVars
  <2> SUFFICES ASSUME PoolsInv, PoolsNext, NEW c \in Context,
                      stage[c] = "wait", stage'[c] \in {"post", "idle"}
               PROVE  served[c] = mask[c] /\ \A s \in Shard : ~Outstanding(c, s)
    OBVIOUS
  <2>1. GoOn(c)
    <3> USE DEF PoolsInv, PoolsTyped
    <3>1. ASSUME NEW s \in Shard, PoolStep(s) PROVE FALSE
      BY <3>1 DEF PoolStep, TakeTask, RunTask, Complete, token
    <3>2. ASSUME NEW d \in Context \ {c}, ContextStep(d) PROVE FALSE
      BY <3>2 DEF ContextStep, BeginBatch, Post, Notify, AllPosted, Sleep, GoOn, Arm
    <3>3. ASSUME WakeSpuriously \/ Stop \/ Join PROVE FALSE
      BY <3>3 DEF WakeSpuriously, Stop, Join, token
    <3>4. ContextStep(c)  BY <3>1, <3>2, <3>3 DEF PoolsNext
    <3> QED  BY <3>4 DEF ContextStep, BeginBatch, Post, Notify, AllPosted, Sleep
  <2> QED  BY <2>1, NothingDue DEF GoOn
<1> QED  BY <1>1, PoolsInitInv, PoolsStepInv, PTL DEF PoolsSpec, PhasesComplete
=============================================================================
