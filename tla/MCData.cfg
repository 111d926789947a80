SPECIFICATION DataSpec
CONSTANTS
  Digests = {d1, d2, d3}
  Kind = "Delivery"
  MaxUnique = 2
  MaxCells = 3
  Docs = {a, n}
  Subs = {s, w}
  Named = {s}
  ObserverCap = 1
  ChangeCap = 1
  MaxWrites = 3
  Ids = {a, n}
  Agent = a
  Packages = {p}
  Agents = {{"status", "deployments", "packages"}, {"deployments"}, {"packages"}}
  Keys = {"k1", "k2"}
  Colls = {c1, c2}
  MaxEvents = 2
INVARIANTS LoopMeetsFormat CompactionKeepsState FeedIsSound ServiceIsSound
PROPERTIES WatchersCatchUp
CHECK_DEADLOCK FALSE
