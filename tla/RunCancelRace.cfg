SPECIFICATION Spec
CONSTANTS
  NoWorker = NoWorker
  Workers = {w1}
  Runs = {r1}
  Responders = {}
  ApiCalls = {a1}
  MaxUp = 1
  MaxCrashes = 0
  MaxFaults = 0
  MaxDrops = 0
  Prompt = TRUE
  Panics = FALSE
  Preemptive = FALSE
PROPERTY StoredTerminalIsFinal
CHECK_DEADLOCK FALSE
