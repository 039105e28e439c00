\* A worker that gets no answer during the last epoch.
SPECIFICATION Spec
CONSTANTS
  File = {f1}
  Worker = {w1, w2}
  PS = {p1}
  NoFile = NoFile
  Shuffle = FALSE
  Timeout = 0
  MaxEpoch = 2
  Modes = {TRUE}
  PsThreads = 1
  Frail = {}
  MaxCrash = 0
INVARIANTS NormalExit
CHECK_DEADLOCK FALSE
