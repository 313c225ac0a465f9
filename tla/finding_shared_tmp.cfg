\* Two threads ask for two versions of one driver; nothing fails.
SPECIFICATION Spec
CONSTANTS
  Tokens <- MCTokens
  Clock <- TwoTicks
  ToStr <- TwoTicksToStr
  Stol <- MCStol
  Threads = {t1, t2}
  EntryIds = {e1, e2, e3}
  Requests <- TwoVersions
  NBlocks = 2
  InitialFiles <- NoFiles
  DeleteOutcomes = {"returns"}
  Faults = {}
  Null = Null
SYMMETRY Symmetric
INVARIANTS JarIntegrity
