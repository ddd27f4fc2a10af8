\* Two processes, a lease shorter than a cycle that is read and then written, and a marker that may expire.
SPECIFICATION Spec
CONSTANTS
  e1 = e1  e2 = e2  e3 = e3  p1 = p1  p2 = p2  f1 = f1  f2 = f2
  Event = {e1}
  Page = {p1, p2}
  Framework = {f1}
  Runner = {r1, r2}
  NoOwner = NoOwner
  NoEvent = NoEvent
  PageOf <- MCPageOf
  Requested <- MCOneFramework
  Poison = {}
  CreatedAt <- MCCreatedAt
  EditedAt <- MCNoEdits
  Rank <- MCRank
  MinuteLen = 2
  BatchLimit = 3
  IndexLag = FALSE
  Openings = {0}
  MaxVersion = 1
  Parts = 1
  LeaseTTL = 2
  MaxAttempts = 2
  AtomicLease = FALSE
  SwallowReads = FALSE
  MarkersExpire = TRUE
  MaxFaults = 1
  DryRun = FALSE
INVARIANT OverlapNeedsRace
SYMMETRY RunnerSymmetry
