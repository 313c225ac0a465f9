\* One driver, an empty result, nothing fails.
SPECIFICATION FairPipelineSpec
CONSTANTS
  s1 = s1
  s2 = s2
  s3 = s3
  k1 = k1
  Scanners = {s1}
  Keys = {k1}
  KeyOf <- OneKeyOf
  Pools = {p1}
  PoolSize = 1
  ChunkSize = 2
  Rows <- NoRows
  Faults = {}
  Breaking = {}
  CallsClose = FALSE
  None = None
  DescTbls = {"filled"}
PROPERTY EndIsSeen
CHECK_DEADLOCK FALSE
