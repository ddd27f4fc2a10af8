CONSTANTS
  Builders = {b1, b2}
  Readers = {r1}
  MaxBuilds = 2
  MaxOps = 2
  MaxFaults = 1
  NoBuilder = NoBuilder
  GraphInputs <- MCGraphInputs
  Requests <- MCRequests
  MinCommunity = 2
  SmallEdges = 4
  LargeEdges = 5
  GuidanceThreshold <- MCThreshold
  FullOverlap = 2
  NoAnswer = NoAnswer
  Clients = {c1, c2}
  MaxMessages = 3
  MaxOutages = 1
  NoSession = NoSession
  Documents <- MCDocuments
  Frameworks <- MCFrameworks
  Asked <- MCAsked
  SearchTopK <- MCTopK
  DefaultK = 1
  MaxK = 2
  Costs = {0, 2, 4, 8}
  MaxCommunities = 1
  SmallK = 3
  Threshold = 2
  NoFilter = NoFilter
  NoText = NoText
  Rankings <- MCRankings
  Inquiries <- MCInquiries
  Authority <- MCAuthority
  Compared <- MCCompared
  AnyFramework = AnyFramework
SYMMETRY WebSymmetry
SPECIFICATION MCWebSpec
INVARIANT ChunksAreSeeds
CHECK_DEADLOCK FALSE
