\* Two shards, two trainer threads, two batches each; two connections of one
\* TcpConnection, the first broken anywhere, with buffers that must be doubled,
\* trimmed and cut.
SPECIFICATION ProcessSpec
CONSTANTS
  Parts = {"pools", "channel"}
  ShardSize = 2
  Context = {c1, c2}
  Batches = 2
  Header = 2
  Packet = {2, 5}
  Initial = 4
  Big = 7
  MaxMessages = 2
  MaxConnections = 2
INVARIANTS TokenHonest InOrder BufferFits
PROPERTIES PhasesComplete TrainingEnds CallsReturn
CHECK_DEADLOCK FALSE
