\* Two executions, items and executions that fail, retries, clearing, and a source that changes.
SPECIFICATION Spec
CONSTANTS
  a = a  b = b  c = c  m1 = m1  m2 = m2  m3 = m3
  Req = {a, b, c}
  Manifest = {m1, m2, m3}
  Records <- MCRecords
  VersionOf <- MCVersionOf
  NoDoc = NoDoc
  Job = {j1, j2}
  Top = 3
  BatchSize = 1
  DeleteSize = 1
  PageSize = 2
  RetryLimit = 1
  MaxFaults = 2
INVARIANTS TypeOK OneManifest ConcurrentEndsWhole
PROPERTY UploadedIsWhole
SYMMETRY JobSymmetry
