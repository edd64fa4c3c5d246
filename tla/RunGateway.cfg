SPECIFICATION Spec
CONSTANTS
  NoWorker = NoWorker
  Workers = {w1, w2}
  Runs = {r1, r2}
  Responders = {p1}
  ApiCalls = {}
  MaxUp = 1
  MaxCrashes = 1
  MaxFaults = 0
  MaxDrops = 1
  Prompt = TRUE
  Panics = TRUE
  Preemptive = TRUE
INVARIANT TypeOK
INVARIANT OneEnding
INVARIANT NoOrphanExecution
INVARIANT EndsCompletely
PROPERTY ImplementsLifecycle
CHECK_DEADLOCK FALSE
