SPECIFICATION ApiSpec
CONSTANTS
  Chat = {}
  Plain = {}
  Stream = {"s"}
  Named = {}
  MaxCalls = 2
  Room = 1
  MaxFaults = 0
INVARIANT StreamIsWhole
CHECK_DEADLOCK FALSE
