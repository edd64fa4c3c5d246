SPECIFICATION McpSpec
CONSTANTS
  mortal = mortal
  steady = steady
  local = local
  remote = remote
  NoLease = NoLease
  Workers = {mortal, steady}
  Steady = {steady}
  Stdio = {local}
  Http = {remote}
  Configured <- MCConfigured
  Listing = {}
  LeaseTime = 3
  Batch = 2
  Punctual = TRUE
  MaxFaults = 2
  Calls = {"a", "b"}
  Repeats = TRUE
  MaxRestarts = 1
  MaxHttpFaults = 1
  Beta = {"read_file", "vision_analyze"}
  OtherBuiltIn = {"terminal"}
  Offered = {"search_docs", "read_file", "vision_analyze"}
  NotHere = {"vision_analyze"}
  HttpServers = {"docs", "web", "old"}
  StdioServers = {"local"}
  Off = {"old"}
  MaxAsked = 2
  MaxRefreshes = 1
  Subscribed = {"a", "b"}
  MaxBuffered = 3
  Channel = 2
  Limits = {1}
  MaxUpdates = 4
  MaxUpdateFaults = 1
  MaxUpdateRestarts = 1
INVARIANTS AdmissionSound HttpSound 
PROPERTIES SweepsAreSafe OrphansReclaimed
CHECK_DEADLOCK FALSE
