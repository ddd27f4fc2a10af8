\* VIOLATION: an execution dies between two batches; its retry finds the manifest hash and skips.
SPECIFICATION Spec
CONSTANTS
  a = a  b = b  c = c  m1 = m1  m2 = m2  m3 = m3
  Req = {a, b, c}
  Manifest = {m1, m2, m3}
  Records <- MCRecords
  VersionOf <- MCVersionOf
  NoDoc = NoDoc
  Job = {j1}
  Top = 3
  BatchSize = 1
  DeleteSize = 1
  PageSize = 2
  RetryLimit = 1
  MaxFaults = 1
PROPERTY DuplicateIsLoaded
