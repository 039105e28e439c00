\* Two server threads and no filter: a pull starts a trained row afresh.
SPECIFICATION Spec
CONSTANTS
  Table = {t1, t2}
  Id = {a}
  Worker = {w1, w2}
  PsThread = 2
  Lookups <- OneId
  FreqThreshold = 0
  FreqMax = 3
  ExpireThreshold = 1
  TsMax = 7
  MaxNow = 3
  MaxPull = 3
PROPERTIES GradientsStay
SYMMETRY Symmetry
CHECK_DEADLOCK FALSE
