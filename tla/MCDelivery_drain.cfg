SPECIFICATION Spec
CONSTANTS
  a = a
  b = b
  c = c
  Docs = {a}
  Envelope <- MCGood
  FifoCap = 1
  EventCap = 1
  NoticeCap = 1
  MaxNotices = 1
  MaxWrites = 0
  MaxFlaps = 0
  MaxFaults = 0
  MaxCrashes = 0
CHECK_DEADLOCK FALSE
INVARIANT ShutdownDrains
