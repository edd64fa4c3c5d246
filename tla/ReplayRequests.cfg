SPECIFICATION ReplaySpec
CONSTANTS
  a1 = a1
  c1 = c1
  c2 = c2
  r1 = r1
  w1 = w1
  Runs = {r1, c1, c2}
  Roots = {r1}
  Workers = {w1}
  Callers = {a1}
  NoRun = NoRun
  NoWorker = NoWorker
  MaxDepth = 1
  Batch = 4
  MaxRequestCrashes = 0
  Faults = FALSE
  Drops = TRUE
  Prompt = TRUE
  Length = 3
  MaxChainCrashes = 1
  MaxBatch = 2
  MaxBatches = 2
  MaxCrashes = 2
  RelayCap = 2
  Mixed = FALSE
  RelayKeepsUp = TRUE
SYMMETRY NewIds
INVARIANTS  EffectOnce LogsAgreeWithRows
PROPERTY NothingLost
CHECK_DEADLOCK FALSE
