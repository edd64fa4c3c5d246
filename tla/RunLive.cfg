SPECIFICATION FairSpec
CONSTANTS
  NoWorker = NoWorker
  Workers = {w1, w2}
  Runs = {r1}
  Responders = {p1}
  ApiCalls = {a1}
  MaxUp = 1
  MaxCrashes = 1
  MaxFaults = 1
  MaxDrops = 1
  Prompt = FALSE
  Panics = FALSE
  Preemptive = FALSE
INVARIANT OwnerIsHome
PROPERTIES FencedWriter HintHonoured EveryRunEnds
CHECK_DEADLOCK FALSE
