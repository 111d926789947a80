CONSTANTS
  Digests = {d1, d2}
  Callers = {c1, c2}
  Kind = "Delivery"
  QueueCap = 2
  MaxUnique = 2
  MaxFaults = 2
  MaxCrashes = 2
  DirentSafe = TRUE
SPECIFICATION Spec
INVARIANT AlwaysReopens
