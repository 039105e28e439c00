--------------------------- MODULE ReadWriteLock ---------------------------
(***************************************************************************)
(* deepx_core::ReadWriteLock: the writer-preferring lock of every sparse   *)
(* parameter and of the frequency store.  A method runs under mutex_ from  *)
(* its first line to its last one except inside a condition wait, so a     *)
(* call is one action, or two when it has to wait: the one that blocks and *)
(* the one that takes mutex_ back after a notification.                    *)
(***************************************************************************)
EXTENDS Integers, FiniteSets

CONSTANT Thread

ASSUME ThreadAssumption == IsFiniteSet(Thread)

VARIABLES status,           \* status_: readers inside, -1 with a writer inside
          waiting_writers,  \* waiting_writers_
          pc                \* where each thread is

vars == <<status, waiting_writers, pc>>

At(where) == {t \in Thread : pc[t] \in where}
Readers == At({"reading"})
Writers == At({"writing"})
WaitingWriters == At({"blocked_write", "woken_write"})

Init ==
  /\ status = 0
  /\ waiting_writers = 0
  /\ pc = [t \in Thread |-> "idle"]

-----------------------------------------------------------------------------
(* lock_read: the predicate of read_cond_.wait, and what follows it. *)

\* Mutant: a reader looks at status_ only.
MayReadPastWriters == status >= 0

MayRead == waiting_writers = 0 /\ status >= 0

TryRead(t) ==
  \/ /\ MayRead
     /\ status' = status + 1
     /\ pc' = [pc EXCEPT ![t] = "reading"]
     /\ UNCHANGED waiting_writers
  \/ /\ ~MayRead
     /\ pc' = [pc EXCEPT ![t] = "blocked_read"]
     /\ UNCHANGED <<status, waiting_writers>>

LockRead(t) == pc[t] = "idle" /\ TryRead(t)

RetryRead(t) == pc[t] = "woken_read" /\ TryRead(t)

(* lock_write: a caller counts itself in before it waits, and out again    *)
(* once it has the lock.                                                   *)

Enter(t) ==
  /\ status = 0
  /\ status' = -1
  /\ pc' = [pc EXCEPT ![t] = "writing"]

StayOut(t) ==
  /\ status # 0
  /\ pc' = [pc EXCEPT ![t] = "blocked_write"]
  /\ UNCHANGED status

LockWrite(t) ==
  /\ pc[t] = "idle"
  /\ \/ Enter(t) /\ UNCHANGED waiting_writers
     \/ StayOut(t) /\ waiting_writers' = waiting_writers + 1

\* Mutant: the wait is an if, the predicate is not looked at again.
RetryWriteUnchecked(t) ==
  /\ pc[t] = "woken_write"
  /\ status' = -1
  /\ pc' = [pc EXCEPT ![t] = "writing"]
  /\ waiting_writers' = waiting_writers - 1

\* Mutant: a caller counts itself in once more after every wake-up.
RetryWriteCountsAgain(t) ==
  /\ pc[t] = "woken_write"
  /\ \/ Enter(t) /\ waiting_writers' = waiting_writers - 1
     \/ StayOut(t) /\ waiting_writers' = waiting_writers + 1

RetryWrite(t) ==
  /\ pc[t] = "woken_write"
  /\ \/ Enter(t) /\ waiting_writers' = waiting_writers - 1
     \/ StayOut(t) /\ UNCHANGED waiting_writers

-----------------------------------------------------------------------------
(* unlock: the same method for both kinds of holder, told apart by status_. *)

\* Mutant: every unlock is taken for a reader's.
LeftAsReader == status - 1

Left == IF status = -1 THEN 0 ELSE status - 1

\* write_cond_.notify_one()
NotifyWriter(t) ==
  IF At({"blocked_write"}) = {}
    THEN pc' = [pc EXCEPT ![t] = "idle"]
    ELSE \E w \in At({"blocked_write"}) :
           pc' = [pc EXCEPT ![t] = "idle", ![w] = "woken_write"]

\* Mutant: notify_one on read_cond_.
NotifyOneReader(t) ==
  IF At({"blocked_read"}) = {}
    THEN pc' = [pc EXCEPT ![t] = "idle"]
    ELSE \E r \in At({"blocked_read"}) :
           pc' = [pc EXCEPT ![t] = "idle", ![r] = "woken_read"]

\* read_cond_.notify_all()
NotifyReaders(t) ==
  pc' = [u \in Thread |-> IF u = t THEN "idle"
                          ELSE IF pc[u] = "blocked_read" THEN "woken_read"
                          ELSE pc[u]]

\* Mutant: an unlock hands over to writers only, while there are any.
UnlockForgetsReaders(t) ==
  /\ pc[t] \in {"reading", "writing"}
  /\ status' = Left
  /\ UNCHANGED waiting_writers
  /\ \/ Left = 0 /\ NotifyWriter(t)
     \/ Left # 0 /\ pc' = [pc EXCEPT ![t] = "idle"]

Unlock(t) ==
  /\ pc[t] \in {"reading", "writing"}
  /\ status' = Left
  /\ UNCHANGED waiting_writers
  /\ \/ waiting_writers > 0 /\ Left = 0 /\ NotifyWriter(t)
     \/ waiting_writers > 0 /\ Left # 0 /\ pc' = [pc EXCEPT ![t] = "idle"]
     \/ waiting_writers = 0 /\ NotifyReaders(t)

\* A condition variable may wake a thread nobody notified.
SpuriousWake(t) ==
  /\ \/ pc[t] = "blocked_read" /\ pc' = [pc EXCEPT ![t] = "woken_read"]
     \/ pc[t] = "blocked_write" /\ pc' = [pc EXCEPT ![t] = "woken_write"]
  /\ UNCHANGED <<status, waiting_writers>>

Next == \E t \in Thread :
          \/ LockRead(t) \/ RetryRead(t)
          \/ LockWrite(t) \/ RetryWrite(t)
          \/ Unlock(t) \/ SpuriousWake(t)

Spec == Init /\ [][Next]_vars

\* A runnable thread gets mutex_ and the processor in the end, and a holder
\* leaves: the guards live for one lookup or one row copy.  Nothing obliges
\* a thread to call in, and no wake-up comes for nothing.
Fairness == \A t \in Thread :
              WF_vars(RetryRead(t)) /\ WF_vars(RetryWrite(t)) /\ WF_vars(Unlock(t))

FairSpec == Spec /\ Fairness

-----------------------------------------------------------------------------
(* Properties. *)

TypeOK ==
  /\ status \in Nat \cup {-1}
  /\ waiting_writers \in Nat
  /\ pc \in [Thread -> {"idle", "blocked_read", "woken_read", "reading",
                        "blocked_write", "woken_write", "writing"}]

\* A writer is alone inside: the row a WriteLockGuard inserts or overwrites is
\* not looked at by a ReadLockGuard meanwhile.
Exclusion ==
  \A w \in Writers : \A t \in Thread : t # w => pc[t] \notin {"reading", "writing"}

\* status_ and waiting_writers_ count the threads they are named for: a
\* wake-up that finds the lock taken neither leaks nor drops a waiting writer.
CountsHonest ==
  /\ Writers # {} => status = -1
  /\ Writers = {} => status = Cardinality(Readers)
  /\ waiting_writers = Cardinality(WaitingWriters)

\* Nobody sleeps through their turn: with the lock free and a writer waiting
\* some writer is already awake, and a reader sleeps only while a writer is
\* inside or waiting.
NoLostWakeup ==
  /\ status = 0 /\ WaitingWriters # {} => At({"woken_write"}) # {}
  /\ At({"blocked_read"}) # {} => status = -1 \/ waiting_writers > 0

\* However many readers keep coming, a waiting writer is followed by a writer
\* inside (not always the same one: a newcomer may take the free lock first).
WritersNotStarved == (WaitingWriters # {}) ~> (Writers # {})

\* A reader that waits gets in once writers stop coming.
ReadersFollow ==
  \A t \in Thread :
    (pc[t] \in {"blocked_read", "woken_read"} /\ [](Writers \cup WaitingWriters = {}))
      ~> (pc[t] = "reading")
=============================================================================
