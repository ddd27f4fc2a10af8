\* Every mention is settled: one process, two faults, one mention that always fails.
SPECIFICATION FairSpec
CONSTANTS
  e1 = e1  e2 = e2  e3 = e3  p1 = p1  p2 = p2  f1 = f1  f2 = f2
  Event = {e1, e2, e3}
  Page = {p1, p2}
  Framework = {f1}
  Runner = {r1}
  NoOwner = NoOwner
  NoEvent = NoEvent
  PageOf <- MCPageOf
  Requested <- MCOneFramework
  Poison = {e2}
  CreatedAt <- MCCreatedAt
  EditedAt <- MCNoEdits
  Rank <- MCRank
  MinuteLen = 2
  BatchLimit = 3
  IndexLag = FALSE
  Openings = {0, 4}
  MaxVersion = 1
  Parts = 1
  LeaseTTL = 2
  MaxAttempts = 2
  AtomicLease = FALSE
  SwallowReads = FALSE
  MarkersExpire = FALSE
  MaxFaults = 2
  DryRun = FALSE
INVARIANTS NothingSkipped
PROPERTY EveryMentionSettled
