\* The file timeout of CoordServerConfig, late workers and a crash.
SPECIFICATION FairSpec
CONSTANTS
  File = {f1, f2}
  Worker = {w1, w2}
  PS = {p1}
  NoFile = NoFile
  Shuffle = FALSE
  Timeout = 1
  MaxEpoch = 2
  Modes = {TRUE}
  PsThreads = 1
  Frail = {}
  MaxCrash = 1
PROPERTIES DispatcherSpec JobEnds
CHECK_DEADLOCK FALSE
