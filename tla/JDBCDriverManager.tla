-------------------------- MODULE JDBCDriverManager --------------------------
(***************************************************************************)
(* JDBCDriverManager (be/runtime/jdbc_driver_manager.cpp) with the         *)
(* download it performs (be/util/download_util.cpp) and the driver         *)
(* directory both work on.                                                 *)
(*                                                                         *)
(* A process starts, init() scans the driver directory, and then threads   *)
(* call get_driver_location(name, url, checksum).  The first part of a     *)
(* call runs under _lock and is one atomic step; the download runs under   *)
(* the entry's download_lock only, one step per call it makes on the file  *)
(* system or the network.  The process may crash and start again: memory   *)
(* is lost, the directory stays.                                           *)
(*                                                                         *)
(* Data that is abstracted: a file's bytes are NBlocks blocks, each absent *)
(* ("hole"), as the driver's publisher made it ("good") or anything else   *)
(* ("bad"); the MD5 digest matches exactly when every block received is    *)
(* good.  The url plays no part except that its server may misbehave.      *)
(***************************************************************************)
EXTENDS DriverFileName

CONSTANTS
  Threads,         \* callers of get_driver_location
  EntryIds,        \* addresses of JDBCDriverEntry objects
  Requests,        \* the [name, checksum] pairs queries ask for
  NBlocks,         \* blocks in a driver file
  InitialFiles,    \* file names in the directory at the first start
  DeleteOutcomes,  \* what falling off the end of fs::deleteFile does
  Faults,          \* which failures of the environment may happen
  Null             \* nullptr, no file, no location

ASSUME RequestsAssumption ==
  Requests \subseteq [name : Name, checksum : Tokens]

ASSUME BlocksAssumption == NBlocks \in Nat \ {0}

ASSUME FilesAssumption == InitialFiles \subseteq FileName

\* fs::deleteFile is declared bool and returns nothing.  Depending on the
\* build the call returns to init() or ends the process.
ASSUME DeleteAssumption == DeleteOutcomes \subseteq {"returns", "dies"}

ASSUME FaultsAssumption ==
  Faults \subseteq {"mkdir", "list", "remove", "open", "write", "server", "rename",
                    "flush", "crash"}

Names == { r.name : r \in Requests }

\* Every file the directory can hold.
Locations ==
  { GenerateDriverLocation(r.name, r.checksum, ts) : r \in Requests, ts \in Clock }
Paths ==
  Locations \cup { TmpFile(r.name, r.checksum) : r \in Requests } \cup InitialFiles

Content == [1..NBlocks -> {"hole", "good", "bad"}]
Empty == [i \in 1..NBlocks |-> "hole"]
Complete == [i \in 1..NBlocks |-> "good"]

\* struct JDBCDriverEntry; location is a function of the first three fields.
Entry == [name : Names, checksum : Tokens, first_access_ts : Clock,
          is_available : BOOLEAN, should_delete : BOOLEAN,
          is_downloaded : BOOLEAN, download_lock : Threads \cup {Null}]

\* What DownloadUtil::download keeps on its stack: the stream (the file it
\* writes to, Null once that file has been unlinked), the bytes received
\* (buf, recv) and how many of them have left the stdio buffer.
Transfer == [fp : Paths \cup {Null}, buf : Content,
             recv : 0..NBlocks, flushed : 0..NBlocks]

NoTransfer == [fp |-> Null, buf |-> Empty, recv |-> 0, flushed |-> 0]

ASSUME NullAssumption ==
  Null \notin EntryIds \cup Threads \cup FileName \cup Content \cup Entry \cup Requests

VARIABLES
  proc,       \* "starting", "scanning" (inside init), "running" or "dead"
  todo,       \* scanning: the listed files init() has not looked at yet
  files,      \* the driver directory: [Paths -> Content \cup {Null}]
  entry,      \* the heap: [EntryIds -> Entry \cup {Null}]
  entryMap,   \* _entry_map: [Names -> EntryIds \cup {Null}]
  pc,         \* where each thread is in get_driver_location
  req,        \* its arguments
  cur,        \* its local shared_ptr `entry'
  loc,        \* its result *location
  xfer        \* its frame of DownloadUtil::download

vars == <<proc, todo, files, entry, entryMap, pc, req, cur, loc, xfer>>
procVars == <<proc, todo>>

\* Between taking and releasing an entry's download_lock.
DownloadPCs == {"open", "transfer", "rename", "close", "mark"}
CallPCs == {"wait"} \cup DownloadPCs
PCs == {"idle", "returned"} \cup CallPCs

Downloading(t) == pc[t] \in DownloadPCs
InCall(t) == pc[t] \in CallPCs

Location(e) ==
  GenerateDriverLocation(entry[e].name, entry[e].checksum, entry[e].first_access_ts)

-----------------------------------------------------------------------------
(***************************************************************************)
(* Process start, init() and process end.                                  *)
(***************************************************************************)

\* A JDBCDriverManager without entries, and no thread in a call.
NoEntries == [e \in EntryIds |-> Null]
EmptyMap == [n \in Names |-> Null]
AllIdle == [t \in Threads |-> "idle"]
AllNull == [t \in Threads |-> Null]
NoTransfers == [t \in Threads |-> NoTransfer]

\* main creates the manager with getInstance before any thread runs.
Init ==
  /\ proc = "starting" /\ todo = {}
  /\ files = [p \in Paths |-> IF p \in InitialFiles THEN Complete ELSE Null]
  /\ entry = NoEntries /\ entryMap = EmptyMap
  /\ pc = AllIdle /\ req = AllNull /\ cur = AllNull /\ loc = AllNull
  /\ xfer = NoTransfers

\* The process ends: memory and unflushed stdio buffers are lost.
Die ==
  /\ proc' = "dead" /\ todo' = {}
  /\ entry' = NoEntries /\ entryMap' = EmptyMap
  /\ pc' = AllIdle /\ req' = AllNull /\ cur' = AllNull /\ loc' = AllNull
  /\ xfer' = NoTransfers

\* fs::createDirectory throws, init() and main do not catch.
CreateDirectoryFails ==
  /\ proc = "starting" /\ "mkdir" \in Faults
  /\ \A p \in Paths : files[p] = Null
  /\ Die
  /\ UNCHANGED files

\* fs::listDirectory; the files are then taken in any order.
ListDirectory ==
  /\ proc = "starting"
  /\ proc' = "scanning"
  /\ todo' = { p \in Paths : files[p] # Null }
  /\ UNCHANGED <<files, entry, entryMap, pc, req, cur, loc, xfer>>

\* fs::listDirectory throws: the path is no directory, or cannot be read.
ListDirectoryFails ==
  /\ proc = "starting" /\ "list" \in Faults
  /\ Die
  /\ UNCHANGED files

\* fs::deleteFile(target_file) inside the scan.  It throws when the file
\* cannot be removed, and init() and main do not catch.
DeleteFile(p) ==
  \/ /\ files' = [files EXCEPT ![p] = Null]
     /\ \/ /\ "returns" \in DeleteOutcomes
           /\ todo' = todo \ {p}
           /\ UNCHANGED <<proc, entry, entryMap, pc, req, cur, loc, xfer>>
        \/ /\ "dies" \in DeleteOutcomes
           /\ Die
  \/ /\ "remove" \in Faults
     /\ Die
     /\ UNCHANGED files

\* A leftover temporary file.
RemoveTmp(p) ==
  /\ proc = "scanning" /\ p \in todo
  /\ p.kind = "tmp"
  /\ DeleteFile(p)

\* A jar whose name _parse_from_file_name does not accept.
RemoveUnparsed(p) ==
  /\ proc = "scanning" /\ p \in todo
  /\ p.kind = "jar" /\ ~ParseFromFileName(p).ok
  /\ DeleteFile(p)

(***************************************************************************)
(* A jar whose name is accepted.  The map has no entry for it, and the     *)
(* statement that should create one compares instead of assigning: the     *)
(* next statement writes through a null pointer.  No jar is ever entered   *)
(* in the map by init(), so the branch for a name found in the map (keep   *)
(* the newest, delete the others) never runs and has no action here.       *)
(***************************************************************************)
LoadJar(p) ==
  /\ proc = "scanning" /\ p \in todo
  /\ p.kind = "jar" /\ ParseFromFileName(p).ok
  /\ Die
  /\ UNCHANGED files

\* Any other file is passed over.
SkipFile(p) ==
  /\ proc = "scanning" /\ p \in todo
  /\ p.kind = "other"
  /\ todo' = todo \ {p}
  /\ UNCHANGED <<proc, files, entry, entryMap, pc, req, cur, loc, xfer>>

ScanFile(p) == RemoveTmp(p) \/ RemoveUnparsed(p) \/ LoadJar(p) \/ SkipFile(p)

InitDone ==
  /\ proc = "scanning" /\ todo = {}
  /\ proc' = "running"
  /\ UNCHANGED <<todo, files, entry, entryMap, pc, req, cur, loc, xfer>>

Crash ==
  /\ proc # "dead" /\ "crash" \in Faults
  /\ Die
  /\ UNCHANGED files

\* Orderly exit: ~JDBCDriverManager clears the map; the entries' destructors
\* delete no file.
Shutdown ==
  /\ proc = "running" /\ \A t \in Threads : ~InCall(t)
  /\ Die
  /\ UNCHANGED files

Restart ==
  /\ proc = "dead"
  /\ proc' = "starting"
  /\ UNCHANGED <<todo, files, entry, entryMap, pc, req, cur, loc, xfer>>

-----------------------------------------------------------------------------
(***************************************************************************)
(* get_driver_location, the block under _lock.                             *)
(***************************************************************************)

\* Mutant: first_access_ts keeps its initial value, no time of the clock.
NewEntryUnstamped(r, ts) ==
  [name |-> r.name, checksum |-> r.checksum, first_access_ts |-> -1,
   is_available |-> FALSE, should_delete |-> FALSE,
   is_downloaded |-> FALSE, download_lock |-> Null]

\* make_shared<JDBCDriverEntry>(name, checksum) with its timestamp.
NewEntry(r, ts) ==
  [name |-> r.name, checksum |-> r.checksum, first_access_ts |-> ts,
   is_available |-> FALSE, should_delete |-> FALSE,
   is_downloaded |-> FALSE, download_lock |-> Null]

\* An entry no shared_ptr refers to any more is destroyed.
Referenced(map, locals) ==
  { map[n] : n \in Names } \cup { locals[t] : t \in Threads }
DropUnreferenced(heap, map, locals) ==
  [e \in EntryIds |-> IF e \in Referenced(map, locals) THEN heap[e] ELSE Null]

\* Mutant: the old entry is replaced without being marked.
LeaveUnmarked(heap, e) == heap

\* entry->should_delete.store(true)
MarkForDeletion(heap, e) == [heap EXCEPT ![e].should_delete = TRUE]

\* Mutant: only the name is compared.
IsSameName(e, r) == entry[e].name = r.name

\* JDBCDriverEntry::is_expected
IsExpected(e, r) == entry[e].name = r.name /\ entry[e].checksum = r.checksum

\* The entry is there, expected and available: return its location.
ServeAvailable(t, r) ==
  LET e == entryMap[r.name]
  IN  /\ proc = "running" /\ pc[t] = "idle"
      /\ e # Null /\ IsExpected(e, r) /\ entry[e].is_available
      /\ pc' = [pc EXCEPT ![t] = "returned"]
      /\ req' = [req EXCEPT ![t] = r]
      /\ loc' = [loc EXCEPT ![t] = Location(e)]
      /\ UNCHANGED <<procVars, files, entry, entryMap, cur, xfer>>

\* The entry is there and expected, its download not finished: wait for it.
JoinDownload(t, r) ==
  LET e == entryMap[r.name]
  IN  /\ proc = "running" /\ pc[t] = "idle"
      /\ e # Null /\ IsExpected(e, r) /\ ~entry[e].is_available
      /\ pc' = [pc EXCEPT ![t] = "wait"]
      /\ req' = [req EXCEPT ![t] = r]
      /\ cur' = [cur EXCEPT ![t] = e]
      /\ UNCHANGED <<procVars, files, entry, entryMap, loc, xfer>>

\* No entry: create one.  A new entry is as expected and not available, so
\* the call goes on to the download.
CreateEntry(t, r) ==
  /\ proc = "running" /\ pc[t] = "idle"
  /\ entryMap[r.name] = Null
  /\ \E e \in EntryIds, ts \in Clock :
       /\ entry[e] = Null
       /\ entry' = [entry EXCEPT ![e] = NewEntry(r, ts)]
       /\ entryMap' = [entryMap EXCEPT ![r.name] = e]
       /\ cur' = [cur EXCEPT ![t] = e]
  /\ pc' = [pc EXCEPT ![t] = "wait"]
  /\ req' = [req EXCEPT ![t] = r]
  /\ UNCHANGED <<procVars, files, loc, xfer>>

\* The entry has another checksum: mark it for deletion, put a new one in
\* its place.
ReplaceEntry(t, r) ==
  LET old == entryMap[r.name]
  IN  /\ proc = "running" /\ pc[t] = "idle"
      /\ old # Null /\ ~IsExpected(old, r)
      /\ \E e \in EntryIds, ts \in Clock :
           /\ entry[e] = Null
           /\ entryMap' = [entryMap EXCEPT ![r.name] = e]
           /\ cur' = [cur EXCEPT ![t] = e]
           /\ entry' = DropUnreferenced(
                         [MarkForDeletion(entry, old) EXCEPT ![e] = NewEntry(r, ts)],
                         entryMap', cur')
      /\ pc' = [pc EXCEPT ![t] = "wait"]
      /\ req' = [req EXCEPT ![t] = r]
      /\ UNCHANGED <<procVars, files, loc, xfer>>

\* Mutant: the map is asked again after the download.
ReturnCurrent(t, heap) ==
  /\ pc' = [pc EXCEPT ![t] = "returned"]
  /\ loc' = [loc EXCEPT ![t] = Location(entryMap[req[t].name])]
  /\ cur' = [cur EXCEPT ![t] = Null]
  /\ entry' = DropUnreferenced(heap, entryMap, cur')

\* The rest of the call: what get_driver_location does once _download_driver
\* is back, whatever status it brings: *location = entry->location.
Return(t, heap) ==
  /\ pc' = [pc EXCEPT ![t] = "returned"]
  /\ loc' = [loc EXCEPT ![t] = Location(cur[t])]
  /\ cur' = [cur EXCEPT ![t] = Null]
  /\ entry' = DropUnreferenced(heap, entryMap, cur')

\* The caller is done with the location.
Forget(t) ==
  /\ pc[t] = "returned"
  /\ pc' = [pc EXCEPT ![t] = "idle"]
  /\ req' = [req EXCEPT ![t] = Null]
  /\ loc' = [loc EXCEPT ![t] = Null]
  /\ UNCHANGED <<procVars, files, entry, entryMap, cur, xfer>>

-----------------------------------------------------------------------------
(***************************************************************************)
(* _download_driver and DownloadUtil::download.                            *)
(***************************************************************************)

\* The download_lock is obtained and another thread has done the download.
FindDownloaded(t) ==
  /\ pc[t] = "wait"
  /\ entry[cur[t]].download_lock = Null
  /\ entry[cur[t]].is_downloaded
  /\ Return(t, entry)
  /\ UNCHANGED <<procVars, files, entryMap, req, xfer>>

\* Mutant: is_downloaded is not looked at again under the lock.
BeginDownloadUnchecked(t) ==
  /\ pc[t] = "wait"
  /\ entry[cur[t]].download_lock = Null
  /\ entry' = [entry EXCEPT ![cur[t]].download_lock = t]
  /\ pc' = [pc EXCEPT ![t] = "open"]
  /\ UNCHANGED <<procVars, files, entryMap, req, cur, loc, xfer>>

\* The download_lock is obtained and the download is still to be done.
BeginDownload(t) ==
  /\ pc[t] = "wait"
  /\ entry[cur[t]].download_lock = Null
  /\ ~entry[cur[t]].is_downloaded
  /\ entry' = [entry EXCEPT ![cur[t]].download_lock = t]
  /\ pc' = [pc EXCEPT ![t] = "open"]
  /\ UNCHANGED <<procVars, files, entryMap, req, cur, loc, xfer>>

TmpOf(t) == TmpFile(entry[cur[t]].name, entry[cur[t]].checksum)

\* fopen(tmp_file, "w") creates the file or truncates the one that is there,
\* also under a stream another download has open on it.
OpenTmp(t) ==
  /\ pc[t] = "open"
  /\ files' = [files EXCEPT ![TmpOf(t)] = Empty]
  /\ xfer' = [xfer EXCEPT ![t].fp = TmpOf(t)]
  /\ pc' = [pc EXCEPT ![t] = "transfer"]
  /\ UNCHANGED <<procVars, entry, entryMap, req, cur, loc>>

\* fopen fails: download returns an error, there is no stream to close.
OpenFails(t) ==
  /\ pc[t] = "open" /\ "open" \in Faults
  /\ pc' = [pc EXCEPT ![t] = "mark"]
  /\ UNCHANGED <<procVars, files, entry, entryMap, req, cur, loc, xfer>>

\* The directory when t's stream writes its bytes up to block n.
FlushedTo(t, buf, n) ==
  IF xfer[t].fp = Null THEN files
  ELSE [files EXCEPT ![xfer[t].fp] =
          [i \in 1..NBlocks |-> IF i \in (xfer[t].flushed + 1)..n
                                THEN buf[i] ELSE files[xfer[t].fp][i]]]

\* download_cb: the next block arrives, is digested and written with fwrite,
\* which flushes as much of the stdio buffer as it likes.
ReceiveBlock(t, quality) ==
  /\ pc[t] = "transfer"
  /\ xfer[t].recv < NBlocks
  /\ quality = "bad" => "server" \in Faults
  /\ LET n == xfer[t].recv + 1
         buf == [xfer[t].buf EXCEPT ![n] = quality]
     IN  \E f \in xfer[t].flushed..n :
           /\ files' = FlushedTo(t, buf, f)
           /\ xfer' = [xfer EXCEPT ![t].buf = buf, ![t].recv = n, ![t].flushed = f]
  /\ UNCHANGED <<procVars, entry, entryMap, pc, req, cur, loc>>

\* fwrite fails: the callback sets the status and ends the transfer.
WriteFails(t) ==
  /\ pc[t] = "transfer" /\ "write" \in Faults
  /\ pc' = [pc EXCEPT ![t] = "close"]
  /\ UNCHANGED <<procVars, files, entry, entryMap, req, cur, loc, xfer>>

\* Mutant: the length is compared in place of the digest.
LengthMatches(t) == xfer[t].recv = NBlocks

\* iequals(digest.hex(), expected_checksum)
DigestMatches(t) == xfer[t].buf = Complete

\* client.execute returns, its status unused: after the last block, or
\* earlier if the server or the connection fails.  The digest decides.
EndTransfer(t) ==
  /\ pc[t] = "transfer"
  /\ xfer[t].recv = NBlocks \/ "server" \in Faults
  /\ pc' = [pc EXCEPT ![t] = IF DigestMatches(t) THEN "rename" ELSE "close"]
  /\ UNCHANGED <<procVars, files, entry, entryMap, req, cur, loc, xfer>>

\* rename(tmp_file, target_file): streams open on the file follow it, streams
\* open on a file it replaces lose theirs.
RenameTmp(t) ==
  LET src == TmpOf(t)
      dst == Location(cur[t])
  IN  /\ pc[t] = "rename"
      /\ files[src] # Null
      /\ files' = [files EXCEPT ![dst] = files[src], ![src] = Null]
      /\ xfer' = [u \in Threads |->
                    [xfer[u] EXCEPT !.fp = CASE @ = src -> dst
                                             [] @ = dst -> Null
                                             [] OTHER -> @]]
      /\ pc' = [pc EXCEPT ![t] = "close"]
      /\ UNCHANGED <<procVars, entry, entryMap, req, cur, loc>>

\* rename fails, because the file is gone or for another reason.
RenameFails(t) ==
  /\ pc[t] = "rename"
  /\ files[TmpOf(t)] = Null \/ "rename" \in Faults
  /\ pc' = [pc EXCEPT ![t] = "close"]
  /\ UNCHANGED <<procVars, files, entry, entryMap, req, cur, loc, xfer>>

\* Mutant: when closing fails the download starts again.
CloseStreamRetries(t) ==
  /\ pc[t] = "close"
  /\ \/ /\ files' = FlushedTo(t, xfer[t].buf, xfer[t].recv)
        /\ pc' = [pc EXCEPT ![t] = "mark"]
     \/ /\ "flush" \in Faults /\ files' = files
        /\ pc' = [pc EXCEPT ![t] = "open"]
  /\ xfer' = [xfer EXCEPT ![t] = NoTransfer]
  /\ UNCHANGED <<procVars, entry, entryMap, req, cur, loc>>

\* The DeferOp closes the stream when download returns, on every path: what
\* is still in the stdio buffer is written then, or lost if that fails.
CloseStream(t) ==
  /\ pc[t] = "close"
  /\ \/ files' = FlushedTo(t, xfer[t].buf, xfer[t].recv)
     \/ "flush" \in Faults /\ files' = files
  /\ xfer' = [xfer EXCEPT ![t] = NoTransfer]
  /\ pc' = [pc EXCEPT ![t] = "mark"]
  /\ UNCHANGED <<procVars, entry, entryMap, req, cur, loc>>

\* Mutant: the download_lock is not released.
MarkDownloadedLocked(t) ==
  /\ pc[t] = "mark"
  /\ Return(t, [entry EXCEPT ![cur[t]].is_downloaded = TRUE,
                             ![cur[t]].is_available = TRUE])
  /\ UNCHANGED <<procVars, files, entryMap, req, xfer>>

\* download's status is unused: the entry is downloaded and available, the
\* download_lock is released and the call returns.
MarkDownloaded(t) ==
  /\ pc[t] = "mark"
  /\ Return(t, [entry EXCEPT ![cur[t]].is_downloaded = TRUE,
                             ![cur[t]].is_available = TRUE,
                             ![cur[t]].download_lock = Null])
  /\ UNCHANGED <<procVars, files, entryMap, req, xfer>>

-----------------------------------------------------------------------------
Startup ==
  \/ ListDirectory
  \/ \E p \in Paths : ScanFile(p)
  \/ InitDone
  \/ Restart

Call(t) ==
  \E r \in Requests :
    ServeAvailable(t, r) \/ JoinDownload(t, r) \/ CreateEntry(t, r) \/ ReplaceEntry(t, r)

Step(t) ==
  \/ FindDownloaded(t) \/ BeginDownload(t)
  \/ OpenTmp(t) \/ OpenFails(t)
  \/ \E quality \in {"good", "bad"} : ReceiveBlock(t, quality)
  \/ WriteFails(t) \/ EndTransfer(t)
  \/ RenameTmp(t) \/ RenameFails(t)
  \/ CloseStream(t) \/ MarkDownloaded(t)

Next ==
  \/ Startup \/ CreateDirectoryFails \/ ListDirectoryFails \/ Crash \/ Shutdown
  \/ \E t \in Threads : Call(t) \/ Step(t) \/ Forget(t)

Spec == Init /\ [][Next]_vars

\* A started process goes on with init(), a supervisor starts a dead process
\* again, and a thread inside a call is scheduled and served by the network.
\* Nothing obliges a caller to call.
Fairness ==
  /\ WF_vars(Startup)
  /\ \A t \in Threads : WF_vars(Step(t))

FairSpec == Spec /\ Fairness

-----------------------------------------------------------------------------
TypeOK ==
  /\ proc \in {"starting", "scanning", "running", "dead"}
  /\ todo \subseteq Paths
  /\ files \in [Paths -> Content \cup {Null}]
  /\ entry \in [EntryIds -> Entry \cup {Null}]
  /\ entryMap \in [Names -> EntryIds \cup {Null}]
  /\ pc \in [Threads -> PCs]
  /\ req \in [Threads -> Requests \cup {Null}]
  /\ cur \in [Threads -> EntryIds \cup {Null}]
  /\ loc \in [Threads -> Locations \cup {Null}]
  /\ xfer \in [Threads -> Transfer]

(***************************************************************************)
(* _entry_map and the entries agree: a name leads to an entry of that      *)
(* name, and of the entries in memory exactly the ones marked              *)
(* should_delete are not reached through the map.  An entry superseded     *)
(* during its download must stay marked until its last user is gone.       *)
(***************************************************************************)
RegistryConsistent ==
  /\ \A n \in Names : entryMap[n] # Null =>
       entry[entryMap[n]] # Null /\ entry[entryMap[n]].name = n
  /\ \A e \in EntryIds : entry[e] # Null =>
       (entry[e].should_delete <=> entryMap[entry[e].name] # e)

(***************************************************************************)
(* get_driver_location answers with a jar of the driver and the checksum   *)
(* that were asked for, whatever other calls did to the map meanwhile.     *)
(***************************************************************************)
ServedMatchesRequest ==
  \A t \in Threads : pc[t] = "returned" =>
    \E ts \in Clock : loc[t] = GenerateDriverLocation(req[t].name, req[t].checksum, ts)

(***************************************************************************)
(* An entry is downloaded by one thread at a time and never again once it  *)
(* is available.                                                           *)
(***************************************************************************)
DownloadExclusive ==
  \A t \in Threads : Downloading(t) =>
    /\ ~entry[cur[t]].is_available
    /\ \A u \in Threads : Downloading(u) /\ cur[u] = cur[t] => u = t

(***************************************************************************)
(* get_driver_location takes effect at one moment, under _lock: its answer *)
(* is the location that was current for the driver then, and download,     *)
(* waiting and the replacement of the entry meanwhile do not change it.    *)
(***************************************************************************)
currentBar ==
  [n \in Names |-> IF entryMap[n] = Null THEN Null ELSE Location(entryMap[n])]
chosenBar == [t \in Threads |-> IF InCall(t) THEN Location(cur[t]) ELSE Null]
answerBar == [t \in Threads |-> IF pc[t] = "returned" THEN loc[t] ELSE Null]

LocationsOf ==
  [r \in Requests |-> { GenerateDriverLocation(r.name, r.checksum, ts) : ts \in Clock }]

Lookup == INSTANCE DriverLookup WITH
            current <- currentBar, chosen <- chosenBar, answer <- answerBar, None <- Null
ImplementsLookup == Lookup!Spec

(***************************************************************************)
(* A download_lock that is taken belongs to a thread that is downloading   *)
(* this very entry, on every path through the download: whoever waits for  *)
(* it waits for a thread that does not wait itself.                        *)
(***************************************************************************)
LockHasDownloader ==
  \A e \in EntryIds : entry[e] # Null /\ entry[e].download_lock # Null =>
    LET t == entry[e].download_lock IN Downloading(t) /\ cur[t] = e

(***************************************************************************)
(* The part of CallReturns that needs no fairness: a call has a bounded    *)
(* number of steps left, each of its own steps lowers it, and no step of   *)
(* another thread raises it.                                               *)
(***************************************************************************)
Remaining(t) ==
  CASE pc[t] = "wait" -> NBlocks + 6
    [] pc[t] = "open" -> NBlocks + 5
    [] pc[t] = "transfer" -> NBlocks + 4 - xfer[t].recv
    [] pc[t] = "rename" -> 3
    [] pc[t] = "close" -> 2
    [] pc[t] = "mark" -> 1
    [] OTHER -> 0
CallShortens ==
  [][\A t \in Threads : InCall(t) =>
       /\ Remaining(t)' <= Remaining(t)
       /\ Step(t) => Remaining(t)' < Remaining(t)]_vars

(***************************************************************************)
(* If there is a file at a location that was handed out, it is the driver, *)
(* whole and unchanged: a partial, corrupt or unflushed download is never  *)
(* served.                                                                 *)
(***************************************************************************)
JarIntegrity ==
  \A t \in Threads : pc[t] = "returned" /\ files[loc[t]] # Null =>
    files[loc[t]] = Complete

(***************************************************************************)
(* The jar is at the location that was handed out.                         *)
(***************************************************************************)
ServedJarPresent ==
  \A t \in Threads : pc[t] = "returned" => files[loc[t]] = Complete

(***************************************************************************)
(* A jar does not change while a caller that was given its location may be *)
(* loading classes from it.                                                *)
(***************************************************************************)
ServedJarStable ==
  [][\A t \in Threads : pc[t] = "returned" /\ pc'[t] = "returned" =>
       files'[loc[t]] = files[loc[t]]]_vars

(***************************************************************************)
(* "the one with the latest access time will be used, and the others will  *)
(* be deleted": init() deletes a jar only when a later one of the same     *)
(* driver is there.                                                        *)
(***************************************************************************)
LatestJarKept ==
  [][\A r \in Requests, ts \in Clock :
       LET p == GenerateDriverLocation(r.name, r.checksum, ts)
       IN  files[p] # Null /\ files'[p] = Null =>
             \E s \in Requests, later \in Clock :
               /\ s.name = r.name /\ later > ts
               /\ files[GenerateDriverLocation(s.name, s.checksum, later)] # Null
    ]_vars

(***************************************************************************)
(* A dead process is eventually up again and serving, whatever it left in  *)
(* the directory when it died, unless its starts are cut short for ever:   *)
(* by crashes during init(), by a directory that cannot be made or listed  *)
(* or by a file in it that cannot be removed.  These end the process and   *)
(* leave the directory as it is.  So does the load of a jar, but that is a *)
(* death which init() brings on itself, and no excuse.                     *)
(***************************************************************************)
StartCutShort ==
  /\ proc # "running" /\ Die /\ UNCHANGED files
  /\ ~ \E p \in todo : LoadJar(p)
StartupCompletes ==
  <>[][~StartCutShort]_vars => ((proc # "running") ~> (proc = "running"))

(***************************************************************************)
(* Every call of get_driver_location returns (or ends with its process),   *)
(* however many threads wait for the same download.                        *)
(***************************************************************************)
CallReturns == \A t \in Threads : InCall(t) ~> ~InCall(t)
=============================================================================
