\* One scanner on a thread of its own, two on another.
SPECIFICATION Spec
CONSTANTS
  s1 = s1
  s2 = s2
  s3 = s3
  k1 = k1
  k2 = k2
  t1 = t1
  t2 = t2
  Scanners = {s1, s2, s3}
  Keys = {k1, k2}
  KeyOf <- MCKeyOf
  Pools = {p1, p2, p3}
  PoolSize = 1
  ChunkSize = 2
  Rows <- MixedRows
  Faults = {"getObject"}
  Breaking = {}
  CallsClose = FALSE
  None = None
  Threads = {t1, t2}
  ThreadOf <- TwoThreads
  JNIFaults = {}
INVARIANTS ExceptionSeen
CHECK_DEADLOCK FALSE
