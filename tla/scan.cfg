\* Two scanners on a data source with one connection, one on another; results
\* of no rows, a broken and a full last chunk; every failure, and for one
\* scanner a hasNext that throws.
SPECIFICATION FairSpec
CONSTANTS
  s1 = s1
  s2 = s2
  s3 = s3
  k1 = k1
  k2 = k2
  Scanners = {s1, s2, s3}
  Keys = {k1, k2}
  KeyOf <- MCKeyOf
  Pools = {p1, p2, p3}
  PoolSize = 1
  ChunkSize = 2
  Rows <- MixedRows
  Faults = {"source", "connect", "execute", "columns", "getObject", "close"}
  Breaking = {s3}
  CallsClose = TRUE
  None = None
INVARIANTS TypeOK PoolLimit ConnectionsAccounted
PROPERTIES RowStreamSpec ScanShortens ScanEnds
CHECK_DEADLOCK FALSE
