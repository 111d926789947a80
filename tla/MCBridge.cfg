SPECIFICATION BridgeSpec
CONSTANTS
  Digests = {d1, d2, d3}
  Callers = {c1, c2}
  Kind = "Delivery"
  QueueCap = 1
  MaxUnique = 2
  MaxFaults = 1
  MaxCrashes = 2
  DirentSafe = TRUE
  s1 = s1  s2 = s2  m1 = m1  m2 = m2  m3 = m3
  Subjects = {s1, s2}
  Msgs = {m1, m2, m3}
  Route <- MCRoute
  FifoCap = 1
  MaxAttempts = 2
  MaxStoreFails = 1
INVARIANTS
  GrantedOnce
  GrantDurable
  HealthyAgrees
  CompactionUnreachable
  ShutdownIsSound
  CleanDrainsIngress
PROPERTIES Answered StopEndsWorker ShutdownEnds
