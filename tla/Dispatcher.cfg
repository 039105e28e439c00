\* Three workers, one of which may hang, and a timeout: late finishes and
\* stale failures.
SPECIFICATION MCFairSpec
CONSTANTS
  File = {f1, f2}
  Worker = {w1, w2, w3}
  NoFile = NoFile
  Shuffle = TRUE
  Timeout = 1
  MaxEpoch = 2
  MaxFailure = 2
  Hung = {w1}
INVARIANTS TypeOK OnePlace NoFileLost EpochEnd
PROPERTIES NoEarlyTakeover WorkSpec EpochsFinish
CHECK_DEADLOCK FALSE
