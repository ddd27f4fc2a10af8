CONSTANTS
  ReportControls <- MCReportControls
  NoReport = NoReport
  Uploads <- MCUploads
  Legacy <- MCLegacy
  MaxUploads = 2
  MaxUpsets = 1
  MaxAttempts = 2
  Jobs = {1, 2}
  NoUpload = NoUpload
  S3Files <- MCS3Files
  BulkBatch = 2
  MaxTasks = 2
  MaxTaskFaults = 1
  LocalFiles <- MCLocalFiles
  MaxLocalUploads = 3
  MaxLocalUpsets = 2
  NoLocal = NoLocal
  Requests <- MCRequests
  AllControls <- MCAllControls
  NotYet = NotYet
  Estate <- MCEstate
  PageSize = 1
  MaxResources = 2
  NoPolicy = "none"
  Renderings <- MCRenderings
  CommentLimit = 5
  CutMargin = 1
  PartHeader = 1
  MaxAnswers = 2
  SourceRequests <- MCSourceRequests
  Targets <- MCTargets
  RowsOf <- MCRows
  Published = {"ism"}
  QueryTop = 2
  BulkSize = 2
  Loads = {1, 2}
  MaxSourceUploads = 2
  MaxLoadFaults = 1
  NoFiling = NoFiling
  LocalFrameworks = {"ism", "cis"}
  Editions = {1, 2}
  Threads = {1, 2}
  MaxIngests = 2
  MaxChanges = 1
  NoEdition = NoEdition
  Runs = {1, 2}
  StoreEvents = {1, 2}
  StorePages = {1, 2, 3}
  LeaseTime = 2
  MarkerTime = 2
  AttemptCap = 2
  ShownRows = 1
  OverFetched = 2
  MaxStamp = 3
  MaxReadFaults = 1
  NoDoc = NoDoc
SPECIFICATION MCWorkSpec
INVARIANTS FailureIsNoCompliance EveryControlIsAssessed
  RestartChangesNothing TrailAccountsForContent NoReportHidesFailure
  PartsAreTheReport MemoryIsAsReported
PROPERTIES BrowserIsAnswered SuccessIsIndexed ZeroIsWhole ZeroIsThatUpload
  BackendIsStore
CHECK_DEADLOCK FALSE
