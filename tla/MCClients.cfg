SPECIFICATION ClientsSpec
CONSTANTS
  r1 = r1  r2 = r2  r3 = r3   i1 = i1  i2 = i2  i3 = i3   x = x  y = y
  k1 = k1  k2 = k2  NoOne = NoOne
  Requests = {r1, r2, r3}
  Ids = {i1, i2, i3}
  Contents = {x, y}
  Namings <- MCNamings
  Files <- MCFiles
  Client <- MCClient
  Unwanted <- MCUnwanted
  MaxConcurrent = 1
  QueueWhenFull = FALSE
  MaxKnown = 2
  Retention = TRUE
  Cmds = {c1, c2}
  Seed = seed
  Disk = disk
  NoteCap = 1
  MaxCuts = 1
  s1 = s1  s2 = s2  l1 = l1  l2 = l2
  MaxFiles = 2
  MaxBundle = 6
  MaxFile = 4
  MaxNodes = 1
  Width = 3
  Mantissa = 2
  MaxDepth = 3
INVARIANTS SendingIsSound 
 
SYMMETRY Symmetry
CHECK_DEADLOCK FALSE
