SPECIFICATION TalkSpec
CONSTANTS
  Observed = TRUE
  MaxIterations = 3
  Protected = 2
  HistoryCap = 5
  Pressure = TRUE
  Panics = TRUE
  MaxBatch = 2
  MaxCalls = 3
  MaxFaults = 1
  MaxTurns = 2
  MaxCrashes = 1
  ReplProtected = 1
  ReplCap = 20
  ReplPressure = FALSE
  ReplPanics = FALSE
  ReplBatch = 1
  ReplCalls = 2
  ReplTurns = 3
  MaxCommands = 2
  MaxKills = 1
  Apis = {"chat", "messages", "responses"}
  MaxRetries = 3
  Frags = 2
  MaxText = 1
  MaxToolCalls = 2
\* The request of /api/chat and the stream are of one user, the plain one of another.
  Chat = {"c"}
  Plain = {"o"}
  Stream = {"s"}
  Named = {"o"}
  TurnCalls = 2
  Room = 1
  MaxApiFaults = 1
INVARIANTS RequestsSound TurnsStoredOnce
INVARIANTS TurnsAreStored AnswerIsWhatWasSaid
PROPERTIES RunsWhatIsStored
CHECK_DEADLOCK FALSE
