\* A driver is downloaded and the server is restarted.
SPECIFICATION Spec
CONSTANTS
  Tokens <- MCTokens
  Clock <- TwoTicks
  ToStr <- TwoTicksToStr
  Stol <- MCStol
  Threads = {t1}
  EntryIds = {e1}
  Requests <- OneDriver
  NBlocks = 1
  InitialFiles <- NoFiles
  DeleteOutcomes = {"returns"}
  Faults = {}
  Null = Null
PROPERTIES LatestJarKept
