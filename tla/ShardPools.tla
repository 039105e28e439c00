----------------------------- MODULE ShardPools -----------------------------
(***************************************************************************)
(* trainer with a sharded model: every ModelShard runs its pulls and pushes*)
(* in a ThreadPool of one thread; a TrainerContextShard per trainer thread *)
(* splits a batch over the shards, posts one task to each shard concerned  *)
(* and sleeps on its wait token until the last of them has completed.      *)
(*                                                                         *)
(* A step is a critical section of the pool's mutex_ or of the token's     *)
(* mutex, or the work between two of them.                                 *)
(***************************************************************************)
EXTENDS Naturals, Sequences, FiniteSets

CONSTANTS ShardSize,  \* shards 0 .. ShardSize - 1
          Context,    \* trainer threads
          Batches     \* batches each of them trains

\* What the constants may be.
PoolsConstants ==
  /\ ShardSize \in Nat \ {0} /\ Batches \in Nat
  /\ IsFiniteSet(Context)

VARIABLES started,   \* started_ of each pool
          tasks,     \* tasks_: the contexts whose task waits, the next one first
          thread,    \* where the thread of the pool is
          hands,     \* the contexts whose task the thread is running: one or none
          stage,     \* where each context is
          phase,     \* what it is waiting for, "pull" or "push"
          mask,      \* pull_request_masks_: the shards its batch uses
          unposted,  \* shards it has not posted to yet
          remain,    \* wait_token_.remain
          served,    \* history: shards that have run the task of this phase
          batches,   \* batches left
          main       \* the shard the main thread stops next; ShardSize: all

pool == <<started, tasks, thread, hands>>
token == <<stage, phase, mask, unposted, remain, served, batches>>
poolsVars == <<pool, token, main>>

Shard == 0..(ShardSize - 1)

PoolsInit ==
  /\ started = [s \in Shard |-> TRUE]
  /\ tasks = [s \in Shard |-> <<>>]
  /\ thread = [s \in Shard |-> "ready"]
  /\ hands = [s \in Shard |-> {}]
  /\ stage = [c \in Context |-> "idle"]
  /\ phase = [c \in Context |-> "push"]
  /\ mask = [c \in Context |-> {}]
  /\ unposted = [c \in Context |-> {}]
  /\ remain = [c \in Context |-> 0]
  /\ served = [c \in Context |-> {}]
  /\ batches = [c \in Context |-> Batches]
  /\ main = 0

-----------------------------------------------------------------------------
(* The thread of a pool: ThreadPool::worker_thread. *)

\* The thread takes a task, sleeps, or, once stopped, runs what is left and ends.
TakeTask(s) ==
  /\ thread[s] = "ready"
  /\ IF tasks[s] # <<>>
       THEN /\ hands' = [hands EXCEPT ![s] = {Head(tasks[s])}]
            /\ tasks' = [tasks EXCEPT ![s] = Tail(@)]
            /\ thread' = [thread EXCEPT ![s] = "run"]
       ELSE /\ thread' = [thread EXCEPT ![s] = IF started[s] THEN "asleep" ELSE "ended"]
            /\ UNCHANGED <<tasks, hands>>
  /\ UNCHANGED <<started, token, main>>

\* ModelShard::Pull or Push, the first half of the task
RunTask(s) ==
  /\ thread[s] = "run"
  /\ \E c \in hands[s] : served' = [served EXCEPT ![c] = @ \cup {s}]
  /\ thread' = [thread EXCEPT ![s] = "complete"]
  /\ UNCHANGED <<started, tasks, hands, stage, phase, mask, unposted, remain,
                 batches, main>>

\* Mutant: the count is lowered, nobody is told.
CompleteSilently(s) ==
  /\ thread[s] = "complete"
  /\ \E c \in hands[s] : remain' = [remain EXCEPT ![c] = @ - 1]
  /\ hands' = [hands EXCEPT ![s] = {}]
  /\ thread' = [thread EXCEPT ![s] = "ready"]
  /\ UNCHANGED <<started, tasks, stage, phase, mask, unposted, served, batches, main>>

\* TrainerContextShard::CompletionHandler, the second half of the task
Complete(s) ==
  /\ thread[s] = "complete"
  /\ \E c \in hands[s] :
       /\ remain' = [remain EXCEPT ![c] = @ - 1]
       /\ stage' = [stage EXCEPT ![c] = IF remain[c] = 1 /\ @ = "asleep" THEN "wait" ELSE @]
  /\ hands' = [hands EXCEPT ![s] = {}]
  /\ thread' = [thread EXCEPT ![s] = "ready"]
  /\ UNCHANGED <<started, tasks, phase, mask, unposted, served, batches, main>>

\* A condition variable may wake a thread nobody notified.
WakeSpuriously ==
  \/ /\ \E s \in Shard : /\ thread[s] = "asleep"
                         /\ thread' = [thread EXCEPT ![s] = "ready"]
     /\ UNCHANGED <<started, tasks, hands, token, main>>
  \/ /\ \E c \in Context : /\ stage[c] = "asleep"
                           /\ stage' = [stage EXCEPT ![c] = "wait"]
     /\ UNCHANGED <<pool, phase, mask, unposted, remain, served, batches, main>>

-----------------------------------------------------------------------------
(* A trainer thread: TrainerContextShard::TrainBatch. *)

\* The token is set for the tasks of phase ph on the shards S.
Arm(c, ph, S) ==
  /\ phase' = [phase EXCEPT ![c] = ph]
  /\ remain' = [remain EXCEPT ![c] = Cardinality(S)]
  /\ unposted' = [unposted EXCEPT ![c] = S]
  /\ served' = [served EXCEPT ![c] = {}]
  /\ stage' = [stage EXCEPT ![c] = "post"]

\* Pull(1): SplitPullRequest finds the shards the batch uses.
BeginBatch(c) ==
  /\ stage[c] = "idle"
  /\ batches[c] > 0
  /\ batches' = [batches EXCEPT ![c] = @ - 1]
  /\ \E S \in SUBSET Shard :
       /\ mask' = [mask EXCEPT ![c] = S]
       /\ Arm(c, "pull", S)
  /\ UNCHANGED <<pool, main>>

\* ThreadPool::post, as far as the mutex is held: the newest task is in front.
Post(c) ==
  /\ stage[c] = "post"
  /\ unposted[c] # {}
  /\ \E s \in unposted[c] :
       /\ \A r \in unposted[c] : s <= r
       /\ tasks' = [tasks EXCEPT ![s] = <<c>> \o @]
  /\ stage' = [stage EXCEPT ![c] = "notify"]
  /\ UNCHANGED <<started, thread, hands, phase, mask, unposted, remain, served,
                 batches, main>>

\* cond_.notify_one(), after the mutex
Notify(c) ==
  /\ stage[c] = "notify"
  /\ \E s \in unposted[c] :
       /\ \A r \in unposted[c] : s <= r
       /\ thread' = [thread EXCEPT ![s] = IF @ = "asleep" THEN "ready" ELSE @]
       /\ unposted' = [unposted EXCEPT ![c] = @ \ {s}]
  /\ stage' = [stage EXCEPT ![c] = "post"]
  /\ UNCHANGED <<started, tasks, hands, phase, mask, remain, served, batches, main>>

AllPosted(c) ==
  /\ stage[c] = "post"
  /\ unposted[c] = {}
  /\ stage' = [stage EXCEPT ![c] = "wait"]
  /\ UNCHANGED <<pool, phase, mask, unposted, remain, served, batches, main>>

\* WaitForCompletion: tasks are outstanding.
Sleep(c) ==
  /\ stage[c] = "wait"
  /\ remain[c] > 0
  /\ stage' = [stage EXCEPT ![c] = "asleep"]
  /\ UNCHANGED <<pool, phase, mask, unposted, remain, served, batches, main>>

\* Mutant: whoever is woken goes on.
GoOnUnchecked(c) ==
  /\ stage[c] = "wait"
  /\ \/ phase[c] = "pull" /\ Arm(c, "push", mask[c])
     \/ /\ phase[c] = "push"
        /\ stage' = [stage EXCEPT ![c] = "idle"]
        /\ UNCHANGED <<phase, unposted, remain, served>>
  /\ UNCHANGED <<pool, mask, batches, main>>

\* WaitForCompletion returns.  After a pull: SetParam, Forward, Backward,
\* SplitGrad, and the pushes, to the shards of the pull.
GoOn(c) ==
  /\ stage[c] = "wait"
  /\ remain[c] = 0
  /\ \/ phase[c] = "pull" /\ Arm(c, "push", mask[c])
     \/ /\ phase[c] = "push"
        /\ stage' = [stage EXCEPT ![c] = "idle"]
        /\ UNCHANGED <<phase, unposted, remain, served>>
  /\ UNCHANGED <<pool, mask, batches, main>>

-----------------------------------------------------------------------------
(* TrainerShard::Train: the trainer threads are joined, then every pool is *)
(* stopped and its thread joined.                                          *)

\* ThreadPool::stop, the part under the mutex
Stop ==
  /\ main \in Shard /\ started[main]
  /\ \A c \in Context : stage[c] = "idle" /\ batches[c] = 0
  /\ started' = [started EXCEPT ![main] = FALSE]
  /\ thread' = [thread EXCEPT ![main] = IF @ = "asleep" THEN "ready" ELSE @]
  /\ UNCHANGED <<tasks, hands, token, main>>

\* thread.join()
Join ==
  /\ main \in Shard /\ ~started[main] /\ thread[main] = "ended"
  /\ main' = main + 1
  /\ UNCHANGED <<pool, token>>

\* The thread of pool s, or the trainer thread of c, does something.
PoolStep(s) == TakeTask(s) \/ RunTask(s) \/ Complete(s)
ContextStep(c) ==
  BeginBatch(c) \/ Post(c) \/ Notify(c) \/ AllPosted(c) \/ Sleep(c) \/ GoOn(c)

PoolsNext ==
  \/ \E s \in Shard : PoolStep(s)
  \/ \E c \in Context : ContextStep(c)
  \/ WakeSpuriously \/ Stop \/ Join

PoolsSpec == PoolsInit /\ [][PoolsNext]_poolsVars

-----------------------------------------------------------------------------
(* Properties. *)

\* The task of c at shard s: in the queue or in the hands of the thread.
Outstanding(c, s) ==
  \/ c \in hands[s]
  \/ \E i \in 1..Len(tasks[s]) : tasks[s][i] = c

PoolsTypeOK ==
  /\ started \in [Shard -> BOOLEAN]
  /\ \A s \in Shard : tasks[s] \in Seq(Context) /\ Len(tasks[s]) <= Cardinality(Context)
  /\ thread \in [Shard -> {"ready", "asleep", "run", "complete", "ended"}]
  /\ \A s \in Shard : hands[s] \subseteq Context /\ Cardinality(hands[s]) <= 1
  /\ stage \in [Context -> {"idle", "post", "notify", "wait", "asleep"}]
  /\ phase \in [Context -> {"pull", "push"}]
  /\ mask \in [Context -> SUBSET Shard] /\ unposted \in [Context -> SUBSET Shard]
  /\ remain \in [Context -> 0..ShardSize]
  /\ served \in [Context -> SUBSET Shard]
  /\ batches \in [Context -> 0..Batches]
  /\ main \in 0..ShardSize

\* The token counts the tasks of the context that have not completed, those
\* it has still to post included, so that a late completion of one phase
\* never releases the wait of the next.
TokenHonest ==
  \A c \in Context :
    remain[c] = Cardinality({s \in unposted[c] : stage[c] = "post"})
                  + Cardinality({s \in unposted[c] : stage[c] = "notify" /\ ~Outstanding(c, s)
                                                       /\ s \notin served[c]})
                  + Cardinality({s \in Shard : Outstanding(c, s)})

\* No gradient is computed from half a pull, and no batch follows half a push:
\* a context goes on when every shard it asked has run its task.
PhasesComplete ==
  [][\A c \in Context : stage[c] = "wait" /\ stage'[c] \in {"post", "idle"}
       => served[c] = mask[c] /\ \A s \in Shard : ~Outstanding(c, s)]_poolsVars
=============================================================================
