SPECIFICATION FairSpec
CONSTANTS
  a = a
  b = b
  c1 = c1
  s1 = s1
  Dists <- MCDists
  Targets <- MCTargets
  Listed <- MCListed
  Missing <- MCMissing
  Cancels <- MCCancels
  Asks <- MCAsks
  Subscribers <- MCSubscribers
  Backlog = 2
  EventCap = 2
  Faulty <- MCFaulty
INVARIANTS ProgressIsSound FinalIsTrue CloseIsComplete
CHECK_DEADLOCK FALSE
PROPERTY BundleEnds
