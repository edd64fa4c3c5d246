SPECIFICATION AroundSpec
CONSTANTS
  command = command
  background = background
  browser = browser
  firstCall = firstCall
  secondCall = secondCall
  Entries = {command, background, browser, firstCall, secondCall}
  Of <- MCOf
  Foreground = {"group"}
  Background = {"process"}
  Browsers = {"browser"}
  McpSessions = {"session"}
  MaxEntries = 2
  MaxFaults = 1
INVARIANT ReadersSeeTruth
PROPERTY RunLeavesNothing
CHECK_DEADLOCK FALSE
