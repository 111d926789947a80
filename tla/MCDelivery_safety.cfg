SPECIFICATION Spec
CONSTANTS
  a = a
  b = b
  c = c
  Docs = {a}
  Envelope <- MCGood
  FifoCap = 1
  EventCap = 1
  NoticeCap = 2
  MaxNotices = 2
  MaxWrites = 2
  MaxFlaps = 1
  MaxFaults = 1
  MaxCrashes = 1
CHECK_DEADLOCK FALSE
INVARIANTS
  PublishedOnce
  PublishedIsReserved
  LocalIsExcluded
  ScanOffersRemote
PROPERTY DeliveryRefines
