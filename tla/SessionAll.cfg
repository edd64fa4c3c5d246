SPECIFICATION SessionsSpec
CONSTANTS
  KeyOf <- MostlyOne
  Msgs = {m1, m2, m3}
  Keys = {a, b}
  Tasks = {t1, t2, t3}
  MaxSessions = 2
  Timeout = 1
  Capacity = 1
  Word = 100
  MaxTime = 1
  Panics = TRUE
  m1 = m1
  m2 = m2
  m3 = m3
  a = a
  b = b
  t1 = t1
  t2 = t2
  t3 = t3
  None = None
INVARIANTS OneAtATime OnlyPanicsLose
PROPERTY SettlesAndChats
CHECK_DEADLOCK FALSE
