\* A driver with an underscore in its name is downloaded and the server is restarted.
SPECIFICATION FairSpec
CONSTANTS
  Tokens <- MCTokens
  Clock <- TwoTicks
  ToStr <- TwoTicksToStr
  Stol <- MCStol
  Threads = {t1}
  EntryIds = {e1}
  Requests <- UnderscoreDriver
  NBlocks = 1
  InitialFiles <- NoFiles
  DeleteOutcomes = {"returns"}
  Faults = {}
  Null = Null
PROPERTIES StartupCompletes
