\* Two drivers in one version each, leftovers; every failure of the server,
\* of the file system and of the scan of the directory but a failing fclose; crashes.
SPECIFICATION FairSpec
CONSTANTS
  Tokens <- MCTokens
  Clock <- TwoTicks
  ToStr <- TwoTicksToStr
  Stol <- MCStol
  Threads = {t1, t2}
  EntryIds = {e1, e2}
  Requests <- TwoDrivers
  NBlocks = 2
  InitialFiles <- Leftovers
  DeleteOutcomes = {"returns", "dies"}
  Faults = {"open", "write", "server", "rename", "crash",
            "list", "remove"}
  Null = Null
INVARIANTS JarIntegrity
PROPERTIES ServedJarStable StartupCompletes
