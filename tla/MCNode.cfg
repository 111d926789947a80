SPECIFICATION NodeSpec
CONSTANTS
  EventCap = 6
  SignalCap = 1
  MaxDrops = 2
  MaxErrors = 1
  MaxEnds = 2
  MaxRpcs = 2
  MaxPeers = 2
  MaxSignals = 2
  Self = me
  Peers = {p, q}
  Announced = {me, q}
  MaxAddrs = 2
  BackoffMin = 1
  BackoffMax = 2
  MaxFlaps = 2
  MaxCalls = 2
  k1 = k1  k2 = k2  k3 = k3
  Keys = {k1, k2, k3}
  Rank <- MCRank
  Recipients = {p, q}
  Steady = {p}
  Local = Local
  MaxPending = 2
  MaxBurst = 1
  Paths = {a}
  Sizes = {1, 2}
  MaxWrites = 2
  MaxMishaps = 1
INVARIANTS
  SupervisorIsSound
  ReadyIsConfirmed
  ProcessIsSound
  LinksAccountedFor
  QueueIsSound
  InboxIsSound
PROPERTIES EventuallyReady StopsInTime Reconnects QueueServes FilesArrive
CHECK_DEADLOCK FALSE
