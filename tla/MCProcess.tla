------------------------------ MODULE MCProcess -----------------------------
(***************************************************************************)
(* The two places where a process waits for somebody else's thread, on     *)
(* small instances: the task pools of a sharded trainer (ShardPools) and   *)
(* the two ends of a connection (TcpChannel).  A behaviour is one of one   *)
(* part, chosen at the start; the variables of the other keep their        *)
(* initial values.                                                         *)
(***************************************************************************)
EXTENDS ShardPools, TcpChannel

CONSTANTS Parts   \* the parts that are run

VARIABLES part

ASSUME ProcessConstants == PoolsConstants /\ ChannelConstants

ProcessInit == part \in Parts /\ PoolsInit /\ ChannelInit

ProcessNext ==
  \/ part = "pools" /\ PoolsNext /\ UNCHANGED <<part, channelVars>>
  \/ part = "channel" /\ ChannelNext /\ UNCHANGED <<part, poolsVars>>

\* A thread that can run runs in the end: the mutexes are held for a few
\* instructions, a task and a batch take finite time.  No wake-up comes for
\* nothing.
PoolFairness ==
  /\ \A s \in Shard : WF_poolsVars(part = "pools" /\ PoolStep(s))
  /\ \A c \in Context : WF_poolsVars(part = "pools" /\ ContextStep(c))
  /\ WF_poolsVars(part = "pools" /\ Stop) /\ WF_poolsVars(part = "pools" /\ Join)

\* The sockets take and bring bytes as long as the connection stands, and the
\* threads run.
ChannelFairness ==
  \A e \in End : WF_channelVars(part = "channel" /\ Step(e))

ProcessSpec ==
  /\ ProcessInit /\ [][ProcessNext]_<<part, poolsVars, channelVars>>
  /\ PoolFairness
  /\ ChannelFairness

-----------------------------------------------------------------------------

\* Training comes to its end, the pool threads too (trainer.cc, thread_pool.cc).
\* The other properties are those of the two parts.
TrainingEnds == <>(part = "pools" => main = ShardSize)
=============================================================================
