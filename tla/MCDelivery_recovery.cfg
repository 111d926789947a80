SPECIFICATION FairSpec
CONSTANTS
  a = a
  b = b
  c = c
  Docs = {a, b, c}
  Envelope <- MCMixed
  FifoCap = 1
  EventCap = 1
  NoticeCap = 2
  MaxNotices = 2
  MaxWrites = 0
  MaxFlaps = 1
  MaxFaults = 0
  MaxCrashes = 0
CHECK_DEADLOCK FALSE
INVARIANT PublishedEligible
PROPERTY EventuallyReserved
