\* Two scanners on a data source with one connection, one on another, all on
\* one thread; every failure of Java, the database and the virtual machine.
SPECIFICATION FairSpec
CONSTANTS
  s1 = s1
  s2 = s2
  s3 = s3
  k1 = k1
  k2 = k2
  t1 = t1
  t2 = t2
  Scanners = {s1, s2, s3}
  Keys = {k1, k2}
  KeyOf <- MCKeyOf
  Pools = {p1, p2, p3}
  PoolSize = 1
  ChunkSize = 2
  Rows <- MixedRows
  Faults = {"source", "connect", "execute", "columns", "getObject", "close"}
  Breaking = {s3}
  CallsClose = TRUE
  None = None
  Threads = {t1}
  ThreadOf <- OneThread
  JNIFaults = {"jvm", "bridge", "url"}
INVARIANTS JNITypeOK ExceptionContained
PROPERTIES ImplementsScanner JNICallShortens CallEnds
CHECK_DEADLOCK FALSE
