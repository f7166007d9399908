CONSTANTS
  k1 = k1  k2 = k2  c1 = c1  c2 = c2  s1 = s1  s2 = s2  v1 = v1  v2 = v2  fl = fl
  Keys = {k1, k2}
  Vals = {v1}
  NoVal = NoVal
  None = None
  NB = 2
  Home <- MCHome
  Snapshots = {s1, s2}
  Cmds = {c1}
  MaxOps = 2
  StartWaitsLatch = TRUE
  Flushes = {fl}
  FlushKeys = {k2}
SPECIFICATION Spec
INVARIANT TypeOK RdbPointInTime RdbExactlyOnce SnapshotComplete JournalAfterRdb
PROPERTY SnapshotTerminates PointInTimeRefined
