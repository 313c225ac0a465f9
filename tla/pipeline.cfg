\* Three drivers, two of them with an empty result, two connections, every failure.
SPECIFICATION FairPipelineSpec
CONSTANTS
  s1 = s1
  s2 = s2
  s3 = s3
  k1 = k1
  Scanners = {s1, s2, s3}
  Keys = {k1}
  KeyOf <- MCKeyOf
  Pools = {p1, p2, p3}
  PoolSize = 2
  ChunkSize = 2
  Rows <- MCRows
  Faults = {"source", "connect", "execute", "columns", "getObject"}
  Breaking = {s3}
  CallsClose = FALSE
  None = None
  DescTbls = {"null", "empty", "filled"}
INVARIANTS PipelineTypeOK ConnectionHasReader
PROPERTIES QuietDriversSurvive QuietDriversEnd
CHECK_DEADLOCK FALSE
