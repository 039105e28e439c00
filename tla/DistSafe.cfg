\* Training (two epochs) and prediction, a crash of a worker or of a param
\* server, two param servers with several threads.
SPECIFICATION Spec
CONSTANTS
  File = {f1, f2}
  Worker = {w1, w2}
  PS = {p1, p2}
  NoFile = NoFile
  Shuffle = FALSE
  Timeout = 0
  MaxEpoch = 2
  Modes = {TRUE, FALSE}
  PsThreads = 2
  Frail = {p1}
  MaxCrash = 1
SYMMETRY Symmetry
INVARIANTS FileOnTheBooks AllSavedBeforeStop PredictionExits
CHECK_DEADLOCK FALSE
