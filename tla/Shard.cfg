\* One or two requests at a time, one table with two ids or two tables that
\* share an id: filter, rows and expiry over three runs.
SPECIFICATION Spec
CONSTANTS
  Table = {t1, t2}
  Id = {a, b}
  Worker = {w1, w2}
  PsThread = 2
  Lookups <- OneTableOrOneId
  FreqThreshold = 2
  FreqMax = 3
  ExpireThreshold = 1
  TsMax = 4
  MaxNow = 3
  MaxPull = 3
INVARIANTS OnlyFrequentRows StoresAgree RowsFromInitializer
PROPERTIES TrainedStays FreshRowsSurvive
SYMMETRY Symmetry
CHECK_DEADLOCK FALSE
