\* Two versions of one driver with an underscore in its name, a download that
\* may fail, a directory that cannot be made, a failing fclose, restarts.
SPECIFICATION FairSpec
CONSTANTS
  Tokens <- MCTokens
  Clock <- OneTick
  ToStr <- OneTickToStr
  Stol <- MCStol
  Threads = {t1, t2}
  EntryIds = {e1, e2, e3}
  Requests <- UnderscoreVersions
  NBlocks = 1
  InitialFiles <- NoFiles
  DeleteOutcomes = {"returns", "dies"}
  Faults = {"mkdir", "open", "flush", "crash"}
  Null = Null
INVARIANTS TypeOK RegistryConsistent ServedMatchesRequest DownloadExclusive LockHasDownloader
PROPERTIES ImplementsLookup CallShortens CallReturns
