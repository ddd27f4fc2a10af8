\* VIOLATION: two processes read a free lock document and both write it.
SPECIFICATION Spec
CONSTANTS
  e1 = e1  e2 = e2  e3 = e3  p1 = p1  p2 = p2  f1 = f1  f2 = f2
  Event = {e1}
  Page = {p1, p2}
  Framework = {f1, f2}
  Runner = {r1, r2}
  NoOwner = NoOwner
  NoEvent = NoEvent
  PageOf <- MCPageOf
  Requested <- MCRequested
  Poison = {}
  CreatedAt <- MCCreatedAt
  EditedAt <- MCEditedAt
  Rank <- MCRank
  MinuteLen = 2
  BatchLimit = 3
  IndexLag = FALSE
  Openings = {0}
  MaxVersion = 1
  Parts = 2
  LeaseTTL = 1
  MaxAttempts = 2
  AtomicLease = FALSE
  SwallowReads = FALSE
  MarkersExpire = FALSE
  MaxFaults = 0
  DryRun = FALSE
INVARIANTS SingleFlight
