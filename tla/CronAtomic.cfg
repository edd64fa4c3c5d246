SPECIFICATION FilesSpec
CONSTANTS
  Clients = {c1}
  Tickers = {t1, t2}
  Jobs = {once, every}
  Once = {once}
  Interval = {every}
  Preloaded = {}
  RunAt = 1
  Period = 2
  MaxTime = 3
  MaxOps = 2
  MaxRuns = 3
  Atomic = TRUE
  MaxFaults = 1
  c1 = c1
  t1 = t1
  t2 = t2
  once = once
  every = every
  NoJob = NoJob
  Empty = Empty
  Torn = Torn
  Absent = Absent
  Never = Never
  Nobody = Nobody
INVARIANTS TypeOK HomeHolds OnSchedule RunsAlone
PROPERTIES LiveReadable WhoWaitsIsServed
