SPECIFICATION SettlingSpec
CONSTANTS
  w1 = w1  r1 = r1  c1 = c1  c2 = c2  c3 = c3
  NoRun = NoRun
  NoWorker = NoWorker
  Runs = {r1, c1, c2, c3}
  Roots = {r1}
  Workers = {w1}
  Callers = {}
  MaxDepth = 2
  Batch = 4
  MaxCrashes = 3
  Faults = TRUE
  Drops = FALSE
  Prompt = TRUE
INVARIANTS OneInBudget DecisionsLead
PROPERTIES NoRiskyReplay CallsSettle SafeRunsReplayed SyncConverges
CHECK_DEADLOCK FALSE
