------------------------- MODULE JDBCDriverJarProofs -------------------------
(***************************************************************************)
(* The jar behind a location that get_driver_location returned, when every *)
(* driver is asked for in one version only and closing a file never fails: *)
(* it is whole (JarIntegrity) and does not change (ServedJarStable),       *)
(* whatever else fails, however many threads call and wherever the process *)
(* crashes.  Both assumptions are needed: TLC refutes JarIntegrity without *)
(* either.                                                                 *)
(*                                                                         *)
(* The argument.  With one version per driver no entry is ever replaced,   *)
(* so a driver has one entry (OneEntry), its downloads share neither the   *)
(* temporary file nor the jar with anybody (OwnStream), a file renamed     *)
(* carries the digest just verified up to what is still in the stdio       *)
(* buffer (TransferInv), and only streams that have not been closed make a *)
(* jar differ from the verified bytes (JarInv).  A restart begins with     *)
(* init() emptying the directory of jars (ScanInv).                        *)
(***************************************************************************)
EXTENDS JDBCDriverManagerProofs, DriverFileNameProofs

\* Queries agree on the checksum of a driver.
OneVersion ==
  \A r, s \in Requests : r.name = s.name => r.checksum = s.checksum

\* fclose writes what is left in the buffer.
CloseWrites == "flush" \notin Faults

StreamPCs == {"transfer", "rename", "close"}

OneEntry ==
  \A e \in EntryIds : entry[e] # Null => entryMap[entry[e].name] = e

ScanInv ==
  proc = "scanning" => \A p \in Locations : files[p] # Null => p \in todo

OwnStream ==
  \A t \in Threads :
    /\ pc[t] \in {"transfer", "rename"} => xfer[t].fp = TmpOf(t)
    /\ pc[t] = "close" => xfer[t].fp \in {TmpOf(t), Location(cur[t])}

TransferOK(t) ==
  /\ pc[t] \notin StreamPCs => xfer[t] = NoTransfer
  /\ xfer[t].flushed <= xfer[t].recv
  /\ \A i \in 1..NBlocks : i > xfer[t].recv => xfer[t].buf[i] = "hole"
  /\ pc[t] \in StreamPCs => \A i \in 1..NBlocks : i <= xfer[t].flushed =>
       files[xfer[t].fp][i] = xfer[t].buf[i]
  /\ pc[t] = "rename" => xfer[t].buf = Complete
  /\ pc[t] = "close" /\ xfer[t].fp = Location(cur[t]) => xfer[t].buf = Complete

TransferInv == \A t \in Threads : TransferOK(t)

ServedInv ==
  \A t \in Threads : pc[t] = "returned" =>
    \E e \in EntryIds :
      entry[e] # Null /\ entry[e].is_downloaded /\ loc[t] = Location(e)

JarInv ==
  proc = "running" =>
    \A p \in Locations :
      files[p] # Null /\ (\A t \in Threads : xfer[t].fp # p) => files[p] = Complete

JInv ==
  IInv /\ OneEntry /\ ScanInv /\ OwnStream /\ TransferInv /\ ServedInv /\ JarInv

-----------------------------------------------------------------------------
\* Locations are jar files.
LEMMA LocationKind == \A p \in Locations : p.kind = "jar"
PROOF
  <1> TAKE p \in Locations
  <1>1. PICK r \in Requests, ts \in Clock :
          p = GenerateDriverLocation(r.name, r.checksum, ts)
    BY DEF Locations
  <1> QED BY <1>1 DEF GenerateDriverLocation

\* Temporary files of two drivers differ, and none is a jar.
LEMMA TmpFileFacts ==
  ASSUME NEW n1 \in Name, NEW c1 \in Tokens, NEW n2 \in Name, NEW c2 \in Tokens
  PROVE  /\ TmpFile(n1, c1) = TmpFile(n2, c2) => n1 = n2
         /\ TmpFile(n1, c1) \notin Locations
PROOF
  <1>1. ASSUME TmpFile(n1, c1) = TmpFile(n2, c2) PROVE n1 = n2
    <2>1. Append(n1, c1) = Append(n2, c2)
      BY <1>1 DEF TmpFile
    <2>2. RemoveLast(Append(n1, c1)) = n1 /\ RemoveLast(Append(n2, c2)) = n2
      BY RemoveLastAppend DEF Name
    <2> QED BY <2>1, <2>2
  <1>2. TmpFile(n1, c1) \notin Locations
    <2>1. TmpFile(n1, c1).kind = "tmp"
      BY DEF TmpFile
    <2> QED BY <2>1, LocationKind
  <1> QED BY <1>1, <1>2

\* Two entries in memory share neither a jar nor a temporary file.
LEMMA SeparateFiles ==
  ASSUME TypeOK, HeapInv, OneEntry,
         NEW e \in EntryIds, entry[e] # Null, NEW f \in EntryIds, entry[f] # Null
  PROVE  /\ Location(e) = Location(f) => e = f
         /\ TmpFile(entry[e].name, entry[e].checksum)
              = TmpFile(entry[f].name, entry[f].checksum) => e = f
         /\ TmpFile(entry[e].name, entry[e].checksum) \notin Locations
         /\ Location(e) \in Locations
PROOF
  <1>1. ASSUME NEW x \in EntryIds, entry[x] # Null
        PROVE  /\ entry[x].name \in Name /\ entry[x].checksum \in Tokens
               /\ entry[x].first_access_ts \in Clock
               /\ entryMap[entry[x].name] = x
    BY <1>1, RequestsAssumption DEF TypeOK, Entry, Names, OneEntry
  <1>2. Location(e) = Location(f) => entry[e].name = entry[f].name
    BY <1>1, LocationInjective DEF Location
  <1>3. TmpFile(entry[e].name, entry[e].checksum)
          = TmpFile(entry[f].name, entry[f].checksum) => entry[e].name = entry[f].name
    BY <1>1, TmpFileFacts
  <1>4. TmpFile(entry[e].name, entry[e].checksum) \notin Locations
    BY <1>1, TmpFileFacts
  <1> QED BY <1>1, <1>2, <1>3, <1>4, EntryPaths

LEMMA InitJInv == Init => JInv
PROOF
  <1> SUFFICES ASSUME Init PROVE JInv OBVIOUS
  <1>1. IInv
    BY InitIInv
  <1>2. OneEntry /\ ScanInv /\ ServedInv /\ JarInv /\ OwnStream
    BY DEF Init, NoEntries, AllIdle, OneEntry, ScanInv, ServedInv, JarInv, OwnStream
  <1>3. TransferInv
    BY BlocksAssumption DEF Init, AllIdle, NoTransfers, NoTransfer, Empty, TransferInv, TransferOK, StreamPCs
  <1> QED BY <1>1, <1>2, <1>3 DEF JInv

LEMMA DieJInv ==
  ASSUME Die, IInv'
  PROVE  JInv'
PROOF
  <1>1. OneEntry' /\ ScanInv' /\ ServedInv' /\ JarInv' /\ OwnStream'
    BY DEF Die, NoEntries, AllIdle, OneEntry, ScanInv, ServedInv, JarInv, OwnStream
  <1>2. TransferInv'
    BY BlocksAssumption DEF Die, AllIdle, NoTransfers, NoTransfer, Empty, TransferInv, TransferOK, StreamPCs
  <1> QED BY <1>1, <1>2 DEF JInv

\* Process start, init() and process end.
LEMMA ProcessJInv ==
  ASSUME JInv, IInv', Startup \/ CreateDirectoryFails \/ ListDirectoryFails \/ Crash \/ Shutdown
  PROVE  JInv'
PROOF
  <1> USE DEF JInv
  <1>1. CASE CreateDirectoryFails \/ ListDirectoryFails \/ Crash \/ Shutdown
    BY <1>1, DieJInv DEF CreateDirectoryFails, ListDirectoryFails, Crash, Shutdown
  <1>2. CASE ~Die /\ Startup
    <2>1. /\ UNCHANGED <<entry, entryMap, pc, req, cur, loc, xfer>>
          /\ proc # "running"
      <3>1. CASE ListDirectory \/ InitDone \/ Restart
        BY <3>1 DEF ListDirectory, InitDone, Restart
      <3>2. ASSUME NEW p \in Paths, ScanFile(p)
            PROVE  <2>1!:
        BY <1>2, <3>2 DEF ScanFile, RemoveTmp, RemoveUnparsed, LoadJar, SkipFile, DeleteFile
      <3> QED BY <1>2, <3>1, <3>2 DEF Startup
    <2>2. \A t \in Threads : pc[t] = "idle"
      BY <2>1 DEF IInv, ProcInv
    <2>3. OneEntry' /\ ServedInv' /\ OwnStream' /\ TransferInv'
      BY <2>1, <2>2 DEF OneEntry, ServedInv, OwnStream, TransferInv, TransferOK, StreamPCs
    <2>4. ScanInv' /\ JarInv'
      <3>1. CASE ListDirectory
        BY <3>1, PathFacts DEF ListDirectory, ScanInv, JarInv
      <3>2. CASE InitDone
        BY <3>2 DEF InitDone, ScanInv, JarInv
      <3>3. CASE Restart
        BY <3>3 DEF Restart, ScanInv, JarInv
      <3>4. ASSUME NEW p \in Paths, ScanFile(p)
            PROVE  ScanInv' /\ JarInv'
        <4>1. proc = "scanning" /\ proc' = "scanning" /\ todo' = todo \ {p}
          BY <1>2, <3>4 DEF ScanFile, RemoveTmp, RemoveUnparsed, LoadJar, SkipFile, DeleteFile
        <4>2. \/ files' = [files EXCEPT ![p] = Null]
              \/ files' = files /\ p.kind = "other"
          BY <1>2, <3>4 DEF ScanFile, RemoveTmp, RemoveUnparsed, LoadJar, SkipFile, DeleteFile
        <4>3. p.kind = "other" => p \notin Locations
          BY LocationKind
        <4>4. ScanInv'
          BY <4>1, <4>2, <4>3, PathFacts DEF ScanInv, IInv, TypeOK
        <4>5. JarInv'
          BY <4>1 DEF JarInv
        <4> QED BY <4>4, <4>5
      <3> QED BY <1>2, <3>1, <3>2, <3>3, <3>4 DEF Startup
    <2> QED BY <2>3, <2>4
  <1>3. CASE Die
    BY <1>3, DieJInv
  <1> QED BY <1>1, <1>2, <1>3

-----------------------------------------------------------------------------
\* The steps of get_driver_location and _download_driver outside
\* DownloadUtil::download leave files and streams alone, and the entries of
\* the downloads under way keep their names.
LEMMA HeapStep ==
  ASSUME JInv, UNCHANGED <<procVars, files, xfer>>,
         \A u \in Threads : pc'[u] \in StreamPCs \/ pc[u] \in StreamPCs =>
           /\ pc'[u] = pc[u] /\ cur'[u] = cur[u]
           /\ entry'[cur[u]].name = entry[cur[u]].name
           /\ entry'[cur[u]].checksum = entry[cur[u]].checksum
           /\ entry'[cur[u]].first_access_ts = entry[cur[u]].first_access_ts
  PROVE  ScanInv' /\ OwnStream' /\ TransferInv' /\ JarInv'
PROOF
  <1> USE DEF JInv
  <1>1. ScanInv' /\ JarInv'
    BY DEF ScanInv, JarInv, procVars
  <1>2. OwnStream'
    BY DEF OwnStream, StreamPCs, TmpOf, Location
  <1>3. TransferInv'
    BY DEF TransferInv, TransferOK, StreamPCs, Location
  <1> QED BY <1>1, <1>2, <1>3

\* With one version per driver no entry is ever replaced.
LEMMA NeverReplaced ==
  ASSUME OneVersion, JInv, NEW t \in Threads, NEW r \in Requests, ReplaceEntry(t, r)
  PROVE  FALSE
PROOF
  <1> USE DEF JInv
  <1> DEFINE old == entryMap[r.name]
  <1>1. old # Null /\ ~IsExpected(old, r)
    BY DEF ReplaceEntry
  <1>2. old \in EntryIds /\ entry[old] # Null /\ entry[old].name = r.name
    BY <1>1 DEF IInv, TypeOK, RegistryConsistent, Names
  <1>3. PICK q \in Requests : q.name = entry[old].name /\ q.checksum = entry[old].checksum
    BY <1>2 DEF IInv, HeapInv
  <1>4. IsExpected(old, r)
    BY <1>2, <1>3 DEF IsExpected, OneVersion
  <1> QED BY <1>1, <1>4

\* The block under _lock.  With one version per driver the mismatch branch is
\* never taken.
LEMMA CallJInv ==
  ASSUME OneVersion, JInv, IInv', NEW t \in Threads, Call(t)
  PROVE  JInv'
PROOF
  <1> USE DEF JInv
  <1>1. PICK r \in Requests :
          ServeAvailable(t, r) \/ JoinDownload(t, r) \/ CreateEntry(t, r) \/ ReplaceEntry(t, r)
    BY DEF Call
  <1>2. /\ UNCHANGED <<procVars, files, xfer>> /\ pc[t] = "idle" /\ r.name \in Names
        /\ \E q \in {"wait", "returned"} : pc' = [pc EXCEPT ![t] = q]
        /\ \A u \in Threads \ {t} : pc'[u] = pc[u]
        /\ pc'[t] \in {"wait", "returned"}
    BY <1>1 DEF ServeAvailable, JoinDownload, CreateEntry, ReplaceEntry, Names, IInv, TypeOK
  <1>3. \A u \in Threads : pc[u] \in StreamPCs => cur[u] \in EntryIds /\ entry[cur[u]] # Null
    BY DEF IInv, CallInv, InCall, CallPCs, DownloadPCs, StreamPCs
  <1>4. CASE ServeAvailable(t, r) \/ JoinDownload(t, r)
    <2>1. /\ UNCHANGED <<entry, entryMap>>
          /\ \A u \in Threads \ {t} : cur'[u] = cur[u] /\ loc'[u] = loc[u]
      BY <1>4 DEF ServeAvailable, JoinDownload, IInv, TypeOK
    <2>2. ScanInv' /\ OwnStream' /\ TransferInv' /\ JarInv'
      BY <1>2, <2>1, HeapStep DEF StreamPCs
    <2>3. OneEntry'
      BY <2>1 DEF OneEntry
    <2>4. pc'[t] = "returned" =>
            \E e \in EntryIds :
              entry[e] # Null /\ entry[e].is_downloaded /\ loc'[t] = Location(e)
      <3>1. ASSUME pc'[t] = "returned" PROVE ServeAvailable(t, r)
        BY <1>4, <3>1 DEF JoinDownload, IInv, TypeOK
      <3>2. ASSUME ServeAvailable(t, r)
            PROVE  /\ entryMap[r.name] \in EntryIds /\ entry[entryMap[r.name]] # Null
                   /\ entry[entryMap[r.name]].is_available
                   /\ loc'[t] = Location(entryMap[r.name])
        BY <1>2, <3>2 DEF ServeAvailable, IInv, TypeOK, RegistryConsistent
      <3> QED BY <3>1, <3>2 DEF IInv, HeapInv
    <2>5. ServedInv'
      BY <1>2, <2>1, <2>4 DEF ServedInv, Location
    <2> QED BY <2>2, <2>3, <2>5
  <1>5. CASE CreateEntry(t, r)
    <2>1. PICK e \in EntryIds, ts \in Clock :
            /\ entry[e] = Null
            /\ entry' = [entry EXCEPT ![e] = NewEntry(r, ts)]
            /\ entryMap' = [entryMap EXCEPT ![r.name] = e]
            /\ cur' = [cur EXCEPT ![t] = e]
      BY <1>5 DEF CreateEntry
    <2>2. entryMap[r.name] = Null /\ loc' = loc /\ pc' = [pc EXCEPT ![t] = "wait"]
      BY <1>5 DEF CreateEntry
    <2>3. /\ entry'[e] = NewEntry(r, ts)
          /\ \A x \in EntryIds \ {e} : entry'[x] = entry[x]
          /\ \A u \in Threads \ {t} : cur'[u] = cur[u]
          /\ \A n \in Names : entryMap'[n] = IF n = r.name THEN e ELSE entryMap[n]
      BY <2>1 DEF IInv, TypeOK
    <2>4. ScanInv' /\ OwnStream' /\ TransferInv' /\ JarInv'
      <3>1. \A u \in Threads : pc'[u] \in StreamPCs \/ pc[u] \in StreamPCs =>
              pc'[u] = pc[u] /\ cur'[u] = cur[u] /\ entry'[cur[u]] = entry[cur[u]]
        BY <1>2, <1>3, <2>1, <2>3 DEF StreamPCs
      <3> QED BY <1>2, <3>1, HeapStep
    <2>5. OneEntry'
      <3> SUFFICES ASSUME NEW x \in EntryIds, entry'[x] # Null
                   PROVE  entryMap'[entry'[x].name] = x
        BY DEF OneEntry
      <3>1. CASE x = e
        BY <1>2, <2>3, <3>1, NewEntryType
      <3>2. CASE x # e
        BY <2>2, <2>3, <3>2, NullFacts DEF OneEntry, IInv, TypeOK, Entry
      <3> QED BY <3>1, <3>2
    <2>6. ServedInv'
      <3>1. \A u \in Threads : pc'[u] = "returned" => pc[u] = "returned" /\ loc'[u] = loc[u]
        BY <2>2 DEF IInv, TypeOK
      <3>2. \A x \in EntryIds : entry[x] # Null => entry'[x] = entry[x]
        BY <2>1, <2>3
      <3> QED BY <3>1, <3>2 DEF ServedInv, Location
    <2> QED BY <2>4, <2>5, <2>6
  <1>6. CASE ReplaceEntry(t, r)
    BY <1>6, NeverReplaced
  <1> QED BY <1>1, <1>4, <1>5, <1>6

LEMMA BeginDownloadJInv ==
  ASSUME JInv, IInv', NEW t \in Threads, BeginDownload(t)
  PROVE  JInv'
PROOF
  <1> USE DEF JInv
  <1> DEFINE locked == [entry[cur[t]] EXCEPT !.download_lock = t]
  <1>1. /\ cur[t] \in EntryIds /\ entry[cur[t]] \in Entry /\ pc[t] = "wait"
        /\ entry' = [entry EXCEPT ![cur[t]] = locked]
        /\ pc' = [pc EXCEPT ![t] = "open"]
        /\ UNCHANGED <<procVars, files, entryMap, req, cur, loc, xfer>>
    BY DEF IInv, CallInv, TypeOK, BeginDownload, InCall, CallPCs
  <1>2. /\ locked.name = entry[cur[t]].name /\ locked.checksum = entry[cur[t]].checksum
        /\ locked.first_access_ts = entry[cur[t]].first_access_ts
        /\ locked.is_downloaded = entry[cur[t]].is_downloaded
        /\ locked # Null /\ entry[cur[t]] # Null
    BY <1>1, NullFacts DEF Entry
  <1> HIDE DEF locked
  <1>3. \A x \in EntryIds :
          /\ entry'[x] = Null <=> entry[x] = Null
          /\ entry'[x].name = entry[x].name /\ entry'[x].checksum = entry[x].checksum
          /\ entry'[x].first_access_ts = entry[x].first_access_ts
          /\ entry'[x].is_downloaded = entry[x].is_downloaded
    BY <1>1, <1>2 DEF IInv, TypeOK
  <1>4. \A u \in Threads : pc[u] \in StreamPCs => cur[u] \in EntryIds
    BY DEF IInv, CallInv, InCall, CallPCs, DownloadPCs, StreamPCs
  <1>5. \A u \in Threads : pc'[u] = IF u = t THEN "open" ELSE pc[u]
    BY <1>1 DEF IInv, TypeOK
  <1>6. ScanInv' /\ OwnStream' /\ TransferInv' /\ JarInv'
    BY <1>1, <1>3, <1>4, <1>5, HeapStep DEF StreamPCs
  <1>7. OneEntry'
    BY <1>1, <1>3 DEF OneEntry
  <1>8. ServedInv'
    BY <1>1, <1>3, <1>5 DEF ServedInv, Location
  <1> QED BY <1>6, <1>7, <1>8

\* The end of a call: the entry stays in the map, downloaded.
LEMMA ReturnJInv ==
  ASSUME JInv, IInv', NEW t \in Threads, FindDownloaded(t) \/ MarkDownloaded(t)
  PROVE  JInv'
PROOF
  <1> USE DEF JInv
  <1> DEFINE c == cur[t]
             done == [entry[c] EXCEPT !.is_downloaded = TRUE, !.is_available = TRUE,
                                      !.download_lock = Null]
  <1>1. /\ c \in EntryIds /\ entry[c] # Null /\ entry[c] \in Entry
        /\ pc[t] \in {"wait", "mark"}
    BY DEF IInv, CallInv, TypeOK, FindDownloaded, MarkDownloaded, InCall, CallPCs, DownloadPCs
  <1>2. PICK heap : /\ Return(t, heap) /\ UNCHANGED <<procVars, files, entryMap, req, xfer>>
                    /\ heap \in [EntryIds -> Entry \cup {Null}]
                    /\ \A x \in EntryIds \ {c} : heap[x] = entry[x]
                    /\ heap[c] # Null /\ heap[c].is_downloaded
                    /\ heap[c].name = entry[c].name /\ heap[c].checksum = entry[c].checksum
                    /\ heap[c].first_access_ts = entry[c].first_access_ts
    <2>1. CASE FindDownloaded(t)
      BY <1>1, <2>1 DEF FindDownloaded, IInv, TypeOK
    <2>2. CASE MarkDownloaded(t)
      <3>1. /\ done \in Entry /\ done.name = entry[c].name
            /\ done.checksum = entry[c].checksum
            /\ done.first_access_ts = entry[c].first_access_ts /\ done.is_downloaded
            /\ done # Null
        BY <1>1, NullFacts DEF Entry
      <3>2. /\ Return(t, [entry EXCEPT ![c] = done])
            /\ UNCHANGED <<procVars, files, entryMap, req, xfer>>
        BY <1>1, <2>2 DEF MarkDownloaded, IInv, TypeOK
      <3>3. entry \in [EntryIds -> Entry \cup {Null}]
        BY DEF IInv, TypeOK
      <3> HIDE DEF done
      <3>4. /\ [entry EXCEPT ![c] = done] \in [EntryIds -> Entry \cup {Null}]
            /\ [entry EXCEPT ![c] = done][c] = done
            /\ \A x \in EntryIds \ {c} : [entry EXCEPT ![c] = done][x] = entry[x]
        BY <1>1, <3>1, <3>3
      <3> QED BY <3>1, <3>2, <3>4
    <2> QED BY <2>1, <2>2
  <1>3. /\ pc' = [pc EXCEPT ![t] = "returned"]
        /\ loc' = [loc EXCEPT ![t] = Location(c)]
        /\ cur' = [cur EXCEPT ![t] = Null]
        /\ entry' = DropUnreferenced(heap, entryMap, cur')
    BY <1>2 DEF Return
  <1>4. \A x \in EntryIds : heap[x] # Null => entryMap[entry[x].name] = x /\ entry[x].name \in Names
    BY <1>1, <1>2 DEF OneEntry, IInv, TypeOK, Entry
  <1>5. \A x \in EntryIds : heap[x] # Null => x \in Referenced(entryMap, cur')
    BY <1>4 DEF Referenced
  <1>6. \A x \in EntryIds : entry'[x] = heap[x]
    BY <1>3, <1>5 DEF DropUnreferenced
  <1>7. \A x \in EntryIds :
          /\ entry'[x] = Null <=> entry[x] = Null
          /\ entry'[x].name = entry[x].name /\ entry'[x].checksum = entry[x].checksum
          /\ entry'[x].first_access_ts = entry[x].first_access_ts
          /\ entry[x].is_downloaded => entry'[x].is_downloaded
    BY <1>1, <1>2, <1>6
  <1>8. \A u \in Threads : pc[u] \in StreamPCs => cur[u] \in EntryIds
    BY DEF IInv, CallInv, InCall, CallPCs, DownloadPCs, StreamPCs
  <1>9. /\ pc'[t] = "returned" /\ loc'[t] = Location(c)
        /\ \A u \in Threads \ {t} : pc'[u] = pc[u] /\ loc'[u] = loc[u] /\ cur'[u] = cur[u]
    <2>1. pc'[t] = "returned" /\ \A u \in Threads \ {t} : pc'[u] = pc[u]
      BY <1>3 DEF IInv, TypeOK
    <2>2. loc'[t] = Location(c) /\ \A u \in Threads \ {t} : loc'[u] = loc[u]
      BY <1>3 DEF IInv, TypeOK
    <2>3. \A u \in Threads \ {t} : cur'[u] = cur[u]
      BY <1>3 DEF IInv, TypeOK
    <2> QED BY <2>1, <2>2, <2>3
  <1>10. ScanInv' /\ OwnStream' /\ TransferInv' /\ JarInv'
    <2>1. \A u \in Threads : pc'[u] \in StreamPCs \/ pc[u] \in StreamPCs =>
            pc'[u] = pc[u] /\ cur'[u] = cur[u] /\ cur[u] \in EntryIds
      BY <1>1, <1>8, <1>9 DEF StreamPCs
    <2> QED BY <1>2, <1>7, <2>1, HeapStep
  <1>11. OneEntry'
    BY <1>2, <1>7 DEF OneEntry
  <1>12. ServedInv'
    <2> SUFFICES ASSUME NEW u \in Threads, pc'[u] = "returned"
                 PROVE  \E e \in EntryIds : entry'[e] # Null /\ entry'[e].is_downloaded
                                             /\ loc'[u] = Location(e)'
      BY DEF ServedInv
    <2>1. \A x \in EntryIds : Location(x)' = Location(x)
      BY <1>7 DEF Location
    <2>2. CASE u = t
      BY <1>1, <1>2, <1>6, <1>9, <2>1, <2>2
    <2>3. CASE u # t
      BY <1>7, <1>9, <2>1, <2>3 DEF ServedInv
    <2> QED BY <2>2, <2>3
  <1> QED BY <1>10, <1>11, <1>12

-----------------------------------------------------------------------------
\* The files a download works on belong to nobody else.
LEMMA OwnFiles ==
  ASSUME JInv, NEW t \in Threads, Downloading(t)
  PROVE  /\ proc = "running"
         /\ TmpOf(t) \in Paths /\ TmpOf(t) \notin Locations /\ TmpOf(t) # Null
         /\ Location(cur[t]) \in Locations /\ Location(cur[t]) \in Paths
         /\ Location(cur[t]) # Null
         /\ \A u \in Threads \ {t} : pc[u] \in StreamPCs =>
              /\ xfer[u].fp # TmpOf(t) /\ xfer[u].fp # Location(cur[t])
              /\ xfer[u].fp \in Paths
PROOF
  <1> USE DEF JInv
  <1>1. ASSUME NEW u \in Threads, Downloading(u)
        PROVE  /\ cur[u] \in EntryIds /\ entry[cur[u]] # Null
               /\ entry[cur[u]].download_lock = u
               /\ TmpOf(u) \in Paths /\ TmpOf(u) \notin Locations
               /\ Location(cur[u]) \in Locations
    <2>1. cur[u] \in EntryIds /\ entry[cur[u]] # Null /\ entry[cur[u]].download_lock = u
      BY <1>1 DEF IInv, CallInv, InCall, Downloading, CallPCs
    <2> QED BY <2>1, SeparateFiles, EntryPaths DEF TmpOf, IInv
  <1>2. proc = "running"
    BY DEF IInv, ProcInv, Downloading, DownloadPCs
  <1>3. ASSUME NEW u \in Threads, u # t, pc[u] \in StreamPCs
        PROVE  /\ xfer[u].fp # TmpOf(t) /\ xfer[u].fp # Location(cur[t])
               /\ xfer[u].fp \in Paths
    <2>1. Downloading(u)
      BY <1>3 DEF Downloading, DownloadPCs, StreamPCs
    <2>2. cur[u] # cur[t]
      BY <1>1, <1>3, <2>1
    <2>3. xfer[u].fp \in {TmpOf(u), Location(cur[u])}
      BY <1>3 DEF OwnStream, StreamPCs
    <2>4. TmpOf(u) # TmpOf(t) /\ Location(cur[u]) # Location(cur[t])
      BY <1>1, <2>1, <2>2, SeparateFiles DEF TmpOf, IInv
    <2> QED BY <1>1, <2>1, <2>3, <2>4, PathFacts
  <1> QED BY <1>1, <1>2, <1>3, PathFacts

\* A step of DownloadUtil::download leaves the entries alone.
LEMMA DownloadJFrame ==
  ASSUME JInv, IInv', NEW t \in Threads, Downloading(t),
         NEW q \in DownloadPCs, pc' = [pc EXCEPT ![t] = q],
         UNCHANGED <<procVars, entry, entryMap, req, cur, loc>>,
         OwnStream', TransferInv', JarInv'
  PROVE  JInv'
PROOF
  <1> USE DEF JInv
  <1>1. OneEntry'
    BY DEF OneEntry
  <1>2. ServedInv'
    BY DEF ServedInv, Location, DownloadPCs, IInv, TypeOK
  <1>3. ScanInv'
    BY OwnFiles DEF ScanInv, procVars
  <1> QED BY <1>1, <1>2, <1>3

\* A step on t's own files does not disturb another download.
LEMMA OthersTransfer ==
  ASSUME JInv, NEW t \in Threads, Downloading(t), NEW u \in Threads, u # t,
         pc'[u] = pc[u], xfer'[u] = xfer[u], UNCHANGED <<entry, cur>>,
         \A p \in Paths \ {TmpOf(t), Location(cur[t])} : files'[p] = files[p]
  PROVE  TransferOK(u)'
PROOF
  <1>1. TransferOK(u)
    BY DEF JInv, TransferInv
  <1>2. Location(cur[u])' = Location(cur[u])
    BY DEF Location
  <1>3. pc[u] \in StreamPCs => files'[xfer[u].fp] = files[xfer[u].fp]
    BY OwnFiles
  <1> QED BY <1>1, <1>2, <1>3 DEF TransferOK

LEMMA ControlStepJInv ==
  ASSUME JInv, IInv', NEW t \in Threads,
         OpenFails(t) \/ WriteFails(t) \/ EndTransfer(t) \/ RenameFails(t)
  PROVE  JInv'
PROOF
  <1> USE DEF JInv
  <1>1. /\ Downloading(t)
        /\ UNCHANGED <<procVars, files, entry, entryMap, req, cur, loc, xfer>>
    BY DEF OpenFails, WriteFails, EndTransfer, RenameFails, Downloading, DownloadPCs
  <1>2. PICK q \in DownloadPCs :
          /\ pc' = [pc EXCEPT ![t] = q]
          /\ \/ pc[t] = "open" /\ q = "mark"
             \/ pc[t] = "transfer" /\ q = "close"
             \/ pc[t] = "transfer" /\ q = "rename" /\ xfer[t].buf = Complete
             \/ pc[t] = "rename" /\ q = "close"
    BY DEF OpenFails, WriteFails, EndTransfer, RenameFails, DigestMatches, DownloadPCs
  <1>3. pc'[t] = q /\ \A u \in Threads \ {t} : pc'[u] = pc[u]
    BY <1>2 DEF IInv, TypeOK
  <1>4. \A u \in Threads : TmpOf(u)' = TmpOf(u) /\ Location(cur[u])' = Location(cur[u])
    BY <1>1 DEF TmpOf, Location
  <1>5. TmpOf(t) # Location(cur[t])
    BY <1>1, OwnFiles
  <1>6. OwnStream'
    BY <1>1, <1>2, <1>3, <1>4 DEF OwnStream
  <1>7. TransferInv'
    <2>1. pc[t] = "transfer" => xfer[t].fp = TmpOf(t)
      BY DEF OwnStream
    <2> QED BY <1>1, <1>2, <1>3, <1>4, <1>5, <2>1 DEF TransferInv, TransferOK, StreamPCs
  <1>8. JarInv'
    BY <1>1 DEF JarInv, procVars
  <1> QED BY <1>1, <1>2, <1>6, <1>7, <1>8, DownloadJFrame

LEMMA OpenTmpJInv ==
  ASSUME JInv, IInv', NEW t \in Threads, OpenTmp(t)
  PROVE  JInv'
PROOF
  <1> USE DEF JInv
  <1>1. /\ Downloading(t) /\ pc[t] = "open"
        /\ pc' = [pc EXCEPT ![t] = "transfer"]
        /\ files' = [files EXCEPT ![TmpOf(t)] = Empty]
        /\ xfer' = [xfer EXCEPT ![t].fp = TmpOf(t)]
        /\ UNCHANGED <<procVars, entry, entryMap, req, cur, loc>>
    BY DEF OpenTmp, Downloading, DownloadPCs
  <1>2. xfer[t] = NoTransfer
    BY <1>1 DEF TransferInv, TransferOK, StreamPCs
  <1>3. /\ xfer'[t].fp = TmpOf(t) /\ xfer'[t].buf = Empty
        /\ xfer'[t].recv = 0 /\ xfer'[t].flushed = 0
        /\ \A u \in Threads \ {t} : xfer'[u] = xfer[u]
    BY <1>1, <1>2 DEF IInv, TypeOK, NoTransfer
  <1>4. pc'[t] = "transfer" /\ \A u \in Threads \ {t} : pc'[u] = pc[u]
    BY <1>1 DEF IInv, TypeOK
  <1>5. \A p \in Paths \ {TmpOf(t)} : files'[p] = files[p]
    BY <1>1 DEF IInv, TypeOK
  <1>6. \A u \in Threads : TmpOf(u)' = TmpOf(u) /\ Location(cur[u])' = Location(cur[u])
    BY <1>1 DEF TmpOf, Location
  <1>7. OwnStream'
    BY <1>1, <1>3, <1>4, <1>6 DEF OwnStream
  <1>8. TransferInv'
    <2>1. TransferOK(t)'
      BY <1>3, <1>4, BlocksAssumption DEF Empty, StreamPCs, TransferOK
    <2>2. ASSUME NEW u \in Threads, u # t PROVE TransferOK(u)'
      BY <1>1, <1>3, <1>4, <1>5, <2>2, OthersTransfer
    <2> QED BY <2>1, <2>2 DEF TransferInv
  <1>9. JarInv'
    <2>1. TmpOf(t) \notin Locations /\ xfer[t].fp = Null
      BY <1>1, <1>2, OwnFiles DEF NoTransfer
    <2> QED BY <1>1, <1>3, <1>5, <2>1, PathFacts DEF JarInv, procVars
  <1> QED BY <1>1, <1>7, <1>8, <1>9, DownloadJFrame DEF DownloadPCs

LEMMA ReceiveBlockJInv ==
  ASSUME JInv, IInv', NEW t \in Threads, NEW quality \in {"good", "bad"},
         ReceiveBlock(t, quality)
  PROVE  JInv'
PROOF
  <1> USE DEF JInv
  <1> DEFINE x == xfer[t]
             n == x.recv + 1
             buf == [x.buf EXCEPT ![n] = quality]
  <1>1. PICK f \in x.flushed..n :
          /\ files' = FlushedTo(t, buf, f)
          /\ xfer' = [xfer EXCEPT ![t].buf = buf, ![t].recv = n, ![t].flushed = f]
    BY DEF ReceiveBlock
  <1>2. /\ pc[t] = "transfer" /\ x.recv < NBlocks /\ Downloading(t)
        /\ UNCHANGED <<procVars, entry, entryMap, pc, req, cur, loc>>
    BY DEF ReceiveBlock, Downloading, DownloadPCs
  <1>3. /\ x \in Transfer /\ x.fp = TmpOf(t) /\ TransferOK(t)
        /\ files \in [Paths -> Content \cup {Null}]
    BY <1>2 DEF IInv, TypeOK, OwnStream, TransferInv
  <1>4. /\ TmpOf(t) \in Paths /\ TmpOf(t) \notin Locations /\ TmpOf(t) # Null
        /\ TmpOf(t) # Location(cur[t])
    BY <1>2, OwnFiles
  <1>5. /\ xfer'[t].fp = x.fp /\ xfer'[t].buf = buf
        /\ xfer'[t].recv = n /\ xfer'[t].flushed = f
        /\ \A u \in Threads \ {t} : xfer'[u] = xfer[u]
    BY <1>1, <1>3 DEF IInv, TypeOK, Transfer
  <1>6. /\ \A i \in 1..NBlocks :
             files'[TmpOf(t)][i] = IF i \in (x.flushed + 1)..f THEN buf[i] ELSE files[TmpOf(t)][i]
        /\ \A p \in Paths \ {TmpOf(t)} : files'[p] = files[p]
    BY <1>1, <1>3, <1>4 DEF FlushedTo
  <1>7. OwnStream'
    BY <1>2, <1>3, <1>5 DEF OwnStream, TmpOf, Location
  <1>8. TransferOK(t)'
    <2>1. /\ x.recv \in Nat /\ x.flushed \in Nat /\ NBlocks \in Nat /\ f \in Nat
          /\ x.flushed <= x.recv /\ n = x.recv + 1 /\ f <= n /\ n \in 1..NBlocks
          /\ x.buf \in [1..NBlocks -> {"hole", "good", "bad"}]
      BY <1>2, <1>3, BlocksAssumption DEF Transfer, Content, TransferOK
    <2>2. \A i \in 1..NBlocks : buf[i] = IF i = n THEN quality ELSE x.buf[i]
      BY <2>1
    <2>3. \A i \in 1..NBlocks : i > x.recv => x.buf[i] = "hole"
      BY <1>3 DEF TransferOK
    <2>4. \A i \in 1..NBlocks : i <= x.flushed => files[TmpOf(t)][i] = x.buf[i]
      BY <1>2, <1>3 DEF TransferOK, StreamPCs
    <2> HIDE DEF buf, n, x
    <2>5. \A i \in 1..NBlocks : i > n => buf[i] = "hole"
      BY <2>1, <2>2, <2>3
    <2>6. \A i \in 1..NBlocks : i <= f => files'[TmpOf(t)][i] = buf[i]
      BY <1>6, <2>1, <2>2, <2>4
    <2>7. pc'[t] = "transfer" /\ xfer'[t].fp = TmpOf(t)
      BY <1>2, <1>3, <1>5
    <2> QED BY <1>5, <2>1, <2>5, <2>6, <2>7 DEF TransferOK, StreamPCs
  <1>9. TransferInv'
    BY <1>2, <1>5, <1>6, <1>8, OthersTransfer DEF TransferInv
  <1>10. JarInv'
    BY <1>2, <1>4, <1>5, <1>6, PathFacts DEF JarInv, procVars
  <1>11. pc' = [pc EXCEPT ![t] = "transfer"]
    BY <1>2 DEF IInv, TypeOK
  <1> QED BY <1>2, <1>7, <1>9, <1>10, <1>11, DownloadJFrame DEF DownloadPCs

\* The verified file takes the jar's name while the stream is still open on it.
LEMMA RenameTmpJInv ==
  ASSUME JInv, IInv', NEW t \in Threads, RenameTmp(t)
  PROVE  JInv'
PROOF
  <1> USE DEF JInv
  <1> DEFINE src == TmpOf(t)
             dst == Location(cur[t])
             moved(p) == CASE p = src -> dst [] p = dst -> Null [] OTHER -> p
  <1>1. /\ Downloading(t) /\ pc' = [pc EXCEPT ![t] = "close"] /\ pc[t] = "rename"
        /\ files' = [files EXCEPT ![dst] = files[src], ![src] = Null]
        /\ xfer' = [u \in Threads |-> [xfer[u] EXCEPT !.fp = moved(xfer[u].fp)]]
        /\ UNCHANGED <<procVars, entry, entryMap, req, cur, loc>>
    BY DEF RenameTmp, Downloading, DownloadPCs
  <1>2. /\ src \in Paths /\ src \notin Locations /\ src # Null
        /\ dst \in Paths /\ dst \in Locations /\ dst # Null /\ src # dst
        /\ proc = "running"
        /\ \A u \in Threads \ {t} : pc[u] \in StreamPCs => xfer[u].fp # src /\ xfer[u].fp # dst
    BY <1>1, OwnFiles
  <1>3. /\ xfer[t].fp = src /\ TransferOK(t)
        /\ files \in [Paths -> Content \cup {Null}] /\ xfer \in [Threads -> Transfer]
    BY <1>1 DEF IInv, TypeOK, OwnStream, TransferInv
  <1>4. \A u \in Threads : TmpOf(u)' = TmpOf(u) /\ Location(cur[u])' = Location(cur[u])
    BY <1>1 DEF TmpOf, Location
  <1>5. pc'[t] = "close" /\ \A u \in Threads \ {t} : pc'[u] = pc[u]
    BY <1>1 DEF IInv, TypeOK
  <1>6. dst = Location(cur[t])' /\ src = TmpOf(t)'
    BY <1>4
  <1> HIDE DEF src, dst
  <1>7. files'[dst] = files[src] /\ \A p \in Paths \ {src, dst} : files'[p] = files[p]
    BY <1>1, <1>2, <1>3
  <1>8. ASSUME NEW u \in Threads, u # t PROVE xfer'[u] = xfer[u]
    <2>1. xfer[u].fp # src /\ xfer[u].fp # dst
      BY <1>2, <1>8 DEF TransferInv, TransferOK, NoTransfer
    <2>2. moved(xfer[u].fp) = xfer[u].fp
      BY <2>1
    <2>3. xfer'[u] = [xfer[u] EXCEPT !.fp = xfer[u].fp]
      BY <1>1, <2>2
    <2>4. xfer[u] \in Transfer
      BY <1>3
    <2> QED BY <2>3, <2>4 DEF Transfer
  <1>9. /\ xfer'[t].fp = dst /\ xfer'[t].buf = xfer[t].buf
        /\ xfer'[t].recv = xfer[t].recv /\ xfer'[t].flushed = xfer[t].flushed
    <2>1. moved(xfer[t].fp) = dst
      BY <1>2, <1>3
    <2>2. xfer'[t] = [xfer[t] EXCEPT !.fp = dst]
      BY <1>1, <2>1
    <2>3. xfer[t] \in Transfer
      BY <1>3
    <2> QED BY <2>2, <2>3 DEF Transfer
  <1>10. OwnStream'
    BY <1>1, <1>4, <1>5, <1>6, <1>8, <1>9 DEF OwnStream
  <1>11. TransferOK(t)'
    BY <1>1, <1>3, <1>5, <1>7, <1>9 DEF TransferOK, StreamPCs
  <1>12. TransferInv'
    <2> USE DEF src, dst
    <2> QED BY <1>1, <1>5, <1>7, <1>8, <1>11, OthersTransfer DEF TransferInv
  <1>13. JarInv'
    <2> SUFFICES ASSUME NEW p \in Locations, files'[p] # Null,
                        \A u \in Threads : xfer'[u].fp # p
                 PROVE  files'[p] = Complete
      BY DEF JarInv
    <2>1. p # dst /\ p # src /\ p \in Paths
      BY <1>2, <1>9, PathFacts
    <2>2. \A u \in Threads : xfer[u].fp # p
      BY <1>3, <1>8, <2>1
    <2> QED BY <1>2, <1>7, <2>1, <2>2 DEF JarInv
  <1> QED BY <1>1, <1>10, <1>12, <1>13, DownloadJFrame DEF DownloadPCs

\* Closing the stream makes a renamed file equal to the verified bytes.
LEMMA CloseStreamJInv ==
  ASSUME CloseWrites, JInv, IInv', NEW t \in Threads, CloseStream(t)
  PROVE  JInv'
PROOF
  <1> USE DEF JInv
  <1> DEFINE x == xfer[t]
             c == [i \in 1..NBlocks |-> IF i \in (x.flushed + 1)..x.recv
                                        THEN x.buf[i] ELSE files[x.fp][i]]
  <1>1. /\ Downloading(t) /\ pc[t] = "close" /\ pc' = [pc EXCEPT ![t] = "mark"]
        /\ files' = FlushedTo(t, x.buf, x.recv)
        /\ xfer' = [xfer EXCEPT ![t] = NoTransfer]
        /\ UNCHANGED <<procVars, entry, entryMap, req, cur, loc>>
    BY DEF CloseStream, CloseWrites, Downloading, DownloadPCs
  <1>2. /\ TmpOf(t) \in Paths /\ TmpOf(t) \notin Locations /\ TmpOf(t) # Null
        /\ Location(cur[t]) \in Paths /\ Location(cur[t]) # Null
        /\ proc = "running"
    BY <1>1, OwnFiles
  <1>3. /\ x.fp \in {TmpOf(t), Location(cur[t])} /\ TransferOK(t) /\ x \in Transfer
        /\ files \in [Paths -> Content \cup {Null}]
    BY <1>1 DEF OwnStream, TransferInv, IInv, TypeOK
  <1>4. files' = [files EXCEPT ![x.fp] = c]
    BY <1>1, <1>2, <1>3 DEF FlushedTo
  <1>5. files'[x.fp] = c /\ \A p \in Paths \ {x.fp} : files'[p] = files[p]
    BY <1>2, <1>3, <1>4
  <1>6. ASSUME x.fp = Location(cur[t]) PROVE c = Complete
    <2>1. x.buf = Complete
      BY <1>1, <1>3, <1>6 DEF TransferOK
    <2>2. /\ x.recv \in 0..NBlocks /\ x.flushed \in 0..NBlocks /\ NBlocks \in Nat \ {0}
      BY <1>3, BlocksAssumption DEF Transfer
    <2>3. x.recv = NBlocks
      <3>1. x.buf[NBlocks] = "good"
        BY <2>1, <2>2 DEF Complete
      <3>2. NBlocks > x.recv => x.buf[NBlocks] = "hole"
        BY <1>3, <2>2 DEF TransferOK
      <3> QED BY <2>2, <3>1, <3>2
    <2>4. \A i \in 1..NBlocks : i <= x.flushed => files[x.fp][i] = x.buf[i]
      BY <1>1, <1>3 DEF TransferOK, StreamPCs
    <2>5. \A i \in 1..NBlocks : c[i] = "good"
      BY <2>1, <2>2, <2>3, <2>4 DEF Complete
    <2> QED BY <2>5 DEF Complete
  <1>7. /\ xfer'[t] = NoTransfer /\ pc'[t] = "mark"
        /\ \A u \in Threads \ {t} : xfer'[u] = xfer[u] /\ pc'[u] = pc[u]
    BY <1>1 DEF IInv, TypeOK
  <1>8. OwnStream'
    BY <1>1, <1>7 DEF OwnStream, TmpOf, Location
  <1>9. TransferOK(t)'
    BY <1>7, BlocksAssumption DEF TransferOK, StreamPCs, NoTransfer, Empty
  <1>10. TransferInv'
    BY <1>1, <1>3, <1>5, <1>7, <1>9, OthersTransfer DEF TransferInv
  <1>11. JarInv'
    <2> SUFFICES ASSUME NEW p \in Locations, files'[p] # Null,
                        \A u \in Threads : xfer'[u].fp # p
                 PROVE  files'[p] = Complete
      BY DEF JarInv
    <2>1. CASE p = x.fp
      <3>1. x.fp = Location(cur[t])
        BY <1>2, <1>3, <2>1
      <3> QED BY <1>5, <1>6, <2>1, <3>1
    <2>2. CASE p # x.fp
      <3>1. \A u \in Threads : xfer[u].fp # p
        BY <1>7, <2>2
      <3> QED BY <1>2, <1>5, <2>2, <3>1, PathFacts DEF JarInv
    <2> QED BY <2>1, <2>2
  <1> QED BY <1>1, <1>8, <1>10, <1>11, DownloadJFrame DEF DownloadPCs

LEMMA ForgetJInv ==
  ASSUME JInv, IInv', NEW t \in Threads, Forget(t)
  PROVE  JInv'
PROOF
  <1> USE DEF JInv
  <1>1. /\ UNCHANGED <<procVars, files, entry, entryMap, cur, xfer>>
        /\ pc[t] = "returned" /\ pc'[t] = "idle"
        /\ \A u \in Threads \ {t} : pc'[u] = pc[u] /\ loc'[u] = loc[u]
    BY DEF Forget, IInv, TypeOK
  <1>2. ScanInv' /\ OwnStream' /\ TransferInv' /\ JarInv'
    BY <1>1, HeapStep DEF StreamPCs
  <1>3. OneEntry' /\ ServedInv'
    BY <1>1 DEF OneEntry, ServedInv, Location
  <1> QED BY <1>2, <1>3

-----------------------------------------------------------------------------
LEMMA NextJInv ==
  ASSUME OneVersion, CloseWrites
  PROVE  JInv /\ [Next]_vars => JInv'
PROOF
  <1> SUFFICES ASSUME JInv, [Next]_vars PROVE JInv'
    OBVIOUS
  <1>0. IInv'
    BY NextIInv DEF JInv
  <1>1. CASE UNCHANGED vars
    BY <1>0, <1>1 DEF JInv, OneEntry, ScanInv, OwnStream, TransferInv, TransferOK, ServedInv,
                JarInv, TmpOf, Location, vars
  <1>2. CASE Startup \/ CreateDirectoryFails \/ ListDirectoryFails \/ Crash \/ Shutdown
    BY <1>0, <1>2, ProcessJInv
  <1>3. ASSUME NEW t \in Threads, Call(t) PROVE JInv'
    BY <1>0, <1>3, CallJInv
  <1>4. ASSUME NEW t \in Threads, Step(t) PROVE JInv'
    BY <1>0, <1>4, ReturnJInv, BeginDownloadJInv, OpenTmpJInv, ControlStepJInv,
       ReceiveBlockJInv, RenameTmpJInv, CloseStreamJInv DEF Step
  <1>5. ASSUME NEW t \in Threads, Forget(t) PROVE JInv'
    BY <1>0, <1>5, ForgetJInv
  <1> QED BY <1>1, <1>2, <1>3, <1>4, <1>5 DEF Next

\* A served jar has no open stream, so JarInv speaks about it.
LEMMA ServedIsClosed ==
  ASSUME JInv, NEW t \in Threads, pc[t] = "returned"
  PROVE  /\ proc = "running" /\ loc[t] \in Locations
         /\ \A u \in Threads : xfer[u].fp # loc[t]
         /\ \A u \in Threads : Downloading(u) => Location(cur[u]) # loc[t] /\ TmpOf(u) # loc[t]
PROOF
  <1> USE DEF JInv
  <1>1. PICK e \in EntryIds :
          entry[e] # Null /\ entry[e].is_downloaded /\ loc[t] = Location(e)
    BY DEF ServedInv
  <1>2. proc = "running"
    BY DEF IInv, ProcInv
  <1>3. loc[t] \in Locations
    BY <1>1, EntryPaths DEF IInv
  <1>4. ASSUME NEW u \in Threads, Downloading(u)
        PROVE  Location(cur[u]) # loc[t] /\ TmpOf(u) # loc[t]
    <2>1. /\ cur[u] \in EntryIds /\ entry[cur[u]] # Null /\ ~entry[cur[u]].is_downloaded
      BY <1>4 DEF IInv, CallInv, InCall, Downloading, CallPCs
    <2>2. Location(cur[u]) # loc[t]
      BY <1>1, <2>1, SeparateFiles DEF IInv
    <2>3. TmpOf(u) # loc[t]
      BY <1>3, <1>4, OwnFiles
    <2> QED BY <2>2, <2>3
  <1>5. ASSUME NEW u \in Threads PROVE xfer[u].fp # loc[t]
    <2>1. CASE pc[u] \in StreamPCs
      <3>1. Downloading(u) /\ xfer[u].fp \in {TmpOf(u), Location(cur[u])}
        BY <2>1 DEF OwnStream, StreamPCs, Downloading, DownloadPCs
      <3> QED BY <1>4, <3>1
    <2>2. CASE pc[u] \notin StreamPCs
      <3>1. xfer[u].fp = Null
        BY <2>2 DEF TransferInv, TransferOK, NoTransfer
      <3> QED BY <1>3, <3>1, PathFacts
    <2> QED BY <2>1, <2>2
  <1> QED BY <1>2, <1>3, <1>4, <1>5

\* Whatever a file get_driver_location points to holds, it is the driver whose
\* digest was verified: for any number of threads, drivers and blocks, any
\* failures of server, disk and rename, and crashes at any point.
THEOREM JarCorrect ==
  ASSUME OneVersion, CloseWrites
  PROVE  Spec => []JarIntegrity
PROOF
  <1>1. JInv => JarIntegrity
    BY ServedIsClosed DEF JarIntegrity, JInv, JarInv
  <1>2. JInv /\ [Next]_vars => JInv'
    BY NextJInv
  <1> QED BY <1>1, <1>2, InitJInv, PTL DEF Spec

\* While a caller holds a location, the file behind it does not change.
THEOREM JarStable ==
  ASSUME OneVersion, CloseWrites
  PROVE  Spec => ServedJarStable
PROOF
  <1> DEFINE Stable == \A t \in Threads : pc[t] = "returned" /\ pc'[t] = "returned" =>
                         files'[loc[t]] = files[loc[t]]
  <1>1. JInv /\ [Next]_vars => [Stable]_vars
    <2> SUFFICES ASSUME JInv, Next, NEW t \in Threads,
                        pc[t] = "returned", pc'[t] = "returned"
                 PROVE  files'[loc[t]] = files[loc[t]]
      OBVIOUS
    <2>1. /\ proc = "running" /\ loc[t] \in Locations /\ loc[t] \in Paths
          /\ \A u \in Threads : xfer[u].fp # loc[t]
          /\ \A u \in Threads : Downloading(u) => Location(cur[u]) # loc[t] /\ TmpOf(u) # loc[t]
          /\ files \in [Paths -> Content \cup {Null}]
      BY ServedIsClosed, PathFacts DEF JInv, IInv, TypeOK
    <2>2. CASE Startup \/ CreateDirectoryFails \/ ListDirectoryFails \/ Crash \/ Shutdown
      BY <2>1, <2>2 DEF Startup, CreateDirectoryFails, ListDirectoryFails, Crash, Shutdown, ListDirectory, InitDone,
                   Restart, ScanFile, RemoveTmp, RemoveUnparsed, LoadJar, SkipFile
    <2>3. ASSUME NEW u \in Threads, Call(u) \/ Forget(u) PROVE files' = files
      BY <2>3 DEF Call, ServeAvailable, JoinDownload, CreateEntry, ReplaceEntry, Forget
    <2>4. ASSUME NEW u \in Threads, Step(u) PROVE files'[loc[t]] = files[loc[t]]
      <3>1. ASSUME NEW b, NEW n PROVE FlushedTo(u, b, n)[loc[t]] = files[loc[t]]
        BY <2>1 DEF FlushedTo
      <3>2. CASE OpenTmp(u)
        BY <2>1, <3>2 DEF OpenTmp, Downloading, DownloadPCs
      <3>3. CASE RenameTmp(u)
        BY <2>1, <3>3 DEF RenameTmp, Downloading, DownloadPCs
      <3>4. ASSUME NEW quality \in {"good", "bad"}, ReceiveBlock(u, quality)
            PROVE  files'[loc[t]] = files[loc[t]]
        BY <3>1, <3>4 DEF ReceiveBlock
      <3>5. CASE CloseStream(u)
        BY <3>1, <3>5 DEF CloseStream
      <3>6. CASE \/ FindDownloaded(u) \/ BeginDownload(u) \/ OpenFails(u) \/ WriteFails(u)
                 \/ EndTransfer(u) \/ RenameFails(u) \/ MarkDownloaded(u)
        BY <3>6 DEF FindDownloaded, BeginDownload, OpenFails, WriteFails, EndTransfer,
                    RenameFails, MarkDownloaded
      <3> QED BY <2>4, <3>2, <3>3, <3>4, <3>5, <3>6 DEF Step
    <2> QED BY <2>2, <2>3, <2>4 DEF Next
  <1>2. JInv /\ [Next]_vars => JInv'
    BY NextJInv
  <1> QED BY <1>1, <1>2, InitJInv, PTL DEF Spec, ServedJarStable
-----------------------------------------------------------------------------
(***************************************************************************)
(* A jar that is served is not only right if it is there, it is there,     *)
(* when nothing goes wrong in the downloads themselves: then every         *)
(* download gets as far as its rename (PresentOK), and a jar that an entry *)
(* counts as downloaded stays in the directory.                            *)
(***************************************************************************)

\* Server, disk and rename do what they are asked to; the process may still
\* crash and the directory be missing.
DownloadsSucceed == Faults \cap {"open", "write", "server", "rename", "flush"} = {}

PresentOK(t) ==
  /\ pc[t] \in {"close", "mark"} => files[Location(cur[t])] # Null
  /\ pc[t] = "transfer" => \A i \in 1..xfer[t].recv : xfer[t].buf[i] = "good"

PresentInv ==
  /\ \A t \in Threads : PresentOK(t)
  /\ \A e \in EntryIds : entry[e] # Null =>
       proc = "running" /\ (entry[e].is_downloaded => files[Location(e)] # Null)

\* What a step of thread t has to leave alone.
LEMMA PresentFrame ==
  ASSUME JInv, JInv', PresentInv, NEW t \in Threads, proc' = "running",
         \A p \in Locations : files[p] # Null => files'[p] # Null,
         \A u \in Threads \ {t} : /\ pc'[u] = pc[u] /\ cur'[u] = cur[u]
                                  /\ xfer'[u].buf = xfer[u].buf /\ xfer'[u].recv = xfer[u].recv,
         \A x \in EntryIds : entry'[x] # Null /\ entry[x] # Null => Location(x)' = Location(x),
         \A x \in EntryIds : entry'[x] # Null /\ entry'[x].is_downloaded =>
           entry[x] # Null /\ (entry[x].is_downloaded \/ files[Location(x)] # Null),
         PresentOK(t)'
  PROVE  PresentInv'
PROOF
  <1>1. ASSUME NEW u \in Threads \ {t} PROVE PresentOK(u)'
    <2>1. CASE pc'[u] \in {"close", "mark"}
      <3>1. cur[u] \in EntryIds /\ entry[cur[u]] # Null /\ entry'[cur[u]] # Null
        BY <1>1, <2>1 DEF JInv, IInv, CallInv, InCall, CallPCs, DownloadPCs
      <3>2. Location(cur[u]) \in Locations /\ files[Location(cur[u])] # Null
        BY <1>1, <2>1, <3>1, EntryPaths DEF PresentInv, PresentOK, JInv, IInv
      <3>3. Location(cur[u])' = Location(cur[u])
        BY <1>1, <3>1 DEF Location
      <3> QED BY <1>1, <2>1, <3>2, <3>3 DEF PresentOK
    <2>2. CASE pc'[u] \notin {"close", "mark"}
      BY <1>1, <2>2 DEF PresentInv, PresentOK
    <2> QED BY <2>1, <2>2
  <1>2. ASSUME NEW x \in EntryIds, entry'[x] # Null, entry'[x].is_downloaded
        PROVE  files'[Location(x)'] # Null
    <2>1. entry[x] # Null /\ files[Location(x)] # Null /\ Location(x)' = Location(x)
      BY <1>2 DEF PresentInv
    <2> QED BY <2>1, EntryPaths DEF JInv, IInv
  <1> QED BY <1>1, <1>2 DEF PresentInv

LEMMA ProcessPresent ==
  ASSUME JInv, PresentInv, Startup \/ CreateDirectoryFails \/ ListDirectoryFails \/ Crash \/ Shutdown
  PROVE  PresentInv'
PROOF
  <1>1. CASE Die
    BY <1>1 DEF Die, NoEntries, AllIdle, PresentInv, PresentOK
  <1>2. CASE InitDone \/ ListDirectory \/ Restart \/ \E p \in Paths : ScanFile(p) /\ ~Die
    <2>1. proc # "running" /\ UNCHANGED <<entry, pc>>
      BY <1>2 DEF InitDone, ListDirectory, Restart, ScanFile, RemoveTmp, RemoveUnparsed,
                  LoadJar, SkipFile, DeleteFile
    <2>2. \A t \in Threads : pc[t] = "idle"
      BY <2>1 DEF JInv, IInv, ProcInv
    <2> QED BY <2>1, <2>2 DEF PresentInv, PresentOK
  <1> QED BY <1>1, <1>2 DEF Startup, CreateDirectoryFails, ListDirectoryFails, Crash, Shutdown

LEMMA CallPresent ==
  ASSUME OneVersion, JInv, JInv', PresentInv, NEW t \in Threads, Call(t) \/ Forget(t)
  PROVE  PresentInv'
PROOF
  <1>1. /\ proc = "running" /\ pc[t] \in {"idle", "returned"}
        /\ UNCHANGED <<procVars, files, xfer>>
    BY DEF Call, ServeAvailable, JoinDownload, CreateEntry, ReplaceEntry, Forget, JInv, IInv, ProcInv
  <1>2. /\ \A u \in Threads \ {t} : pc'[u] = pc[u] /\ cur'[u] = cur[u]
        /\ pc'[t] \in {"idle", "wait", "returned"}
    BY DEF Call, ServeAvailable, JoinDownload, CreateEntry, ReplaceEntry, Forget, JInv, IInv, TypeOK
  <1>3. \A x \in EntryIds : \/ entry'[x] = entry[x]
                            \/ entry[x] = Null /\ ~entry'[x].is_downloaded
    <2>1. ASSUME NEW r \in Requests, CreateEntry(t, r)
          PROVE  \A x \in EntryIds : \/ entry'[x] = entry[x]
                                     \/ entry[x] = Null /\ ~entry'[x].is_downloaded
      BY <2>1 DEF CreateEntry, NewEntry, JInv, IInv, TypeOK
    <2>2. ASSUME NEW r \in Requests, ReplaceEntry(t, r) PROVE FALSE
      BY <2>2, NeverReplaced
    <2> QED BY <2>1, <2>2 DEF Call, ServeAvailable, JoinDownload, Forget
  <1>4. PresentOK(t)'
    BY <1>2 DEF PresentOK
  <1> QED BY <1>1, <1>2, <1>3, <1>4, PresentFrame DEF procVars, Location

\* The end of a call, and its beginning of the download.
LEMMA EntryPresent ==
  ASSUME JInv, JInv', PresentInv, NEW t \in Threads,
         BeginDownload(t) \/ FindDownloaded(t) \/ MarkDownloaded(t)
  PROVE  PresentInv'
PROOF
  <1> DEFINE c == cur[t]
  <1>1. /\ proc = "running" /\ UNCHANGED <<procVars, files, xfer>>
        /\ c \in EntryIds /\ entry[c] \in Entry /\ entry[c] # Null
    BY DEF BeginDownload, FindDownloaded, MarkDownloaded, JInv, IInv, TypeOK, ProcInv, CallInv,
           InCall, CallPCs, DownloadPCs
  <1>2. /\ \A u \in Threads \ {t} : pc'[u] = pc[u] /\ cur'[u] = cur[u]
        /\ pc'[t] \in {"open", "returned"}
    BY DEF BeginDownload, FindDownloaded, MarkDownloaded, Return, JInv, IInv, TypeOK
  <1>3. PICK heap : /\ \A x \in EntryIds : entry'[x] \in {heap[x], Null}
                    /\ \A x \in EntryIds \ {c} : heap[x] = entry[x]
                    /\ heap[c].name = entry[c].name /\ heap[c].checksum = entry[c].checksum
                    /\ heap[c].first_access_ts = entry[c].first_access_ts
                    /\ heap[c].is_downloaded = entry[c].is_downloaded \/ pc[t] = "mark"
    <2>1. CASE BeginDownload(t)
      <3>1. entry' = [entry EXCEPT ![c] = [entry[c] EXCEPT !.download_lock = t]]
        BY <1>1, <2>1 DEF BeginDownload, JInv, IInv, TypeOK
      <3>2. [entry EXCEPT ![c] = [entry[c] EXCEPT !.download_lock = t]][c]
              = [entry[c] EXCEPT !.download_lock = t]
        BY <1>1 DEF JInv, IInv, TypeOK
      <3> WITNESS entry'
      <3> QED BY <1>1, <3>1, <3>2 DEF Entry, JInv, IInv, TypeOK
    <2>2. CASE FindDownloaded(t)
      BY <2>2 DEF FindDownloaded, Return, DropUnreferenced
    <2>3. CASE MarkDownloaded(t)
      <3> DEFINE done == [entry[c] EXCEPT !.is_downloaded = TRUE, !.is_available = TRUE,
                                          !.download_lock = Null]
      <3>1. Return(t, [entry EXCEPT ![c] = done]) /\ pc[t] = "mark"
        BY <1>1, <2>3 DEF MarkDownloaded, JInv, IInv, TypeOK
      <3>2. /\ done.name = entry[c].name /\ done.checksum = entry[c].checksum
            /\ done.first_access_ts = entry[c].first_access_ts
        BY <1>1 DEF Entry
      <3> HIDE DEF done
      <3>3. /\ [entry EXCEPT ![c] = done][c] = done
            /\ \A x \in EntryIds \ {c} : [entry EXCEPT ![c] = done][x] = entry[x]
        BY <1>1 DEF JInv, IInv, TypeOK
      <3>4. \A x \in EntryIds : entry'[x] \in {[entry EXCEPT ![c] = done][x], Null}
        BY <3>1 DEF Return, DropUnreferenced
      <3> WITNESS [entry EXCEPT ![c] = done]
      <3> QED BY <3>1, <3>2, <3>3, <3>4
    <2> QED BY <2>1, <2>2, <2>3
  <1>4. \A x \in EntryIds : entry'[x] # Null => Location(x)' = Location(x)
    BY <1>3 DEF Location
  <1>5. pc[t] = "mark" => files[Location(c)] # Null
    BY DEF PresentInv, PresentOK
  <1>6. ASSUME NEW x \in EntryIds, entry'[x] # Null, entry'[x].is_downloaded
        PROVE  entry[x] # Null /\ (entry[x].is_downloaded \/ files[Location(x)] # Null)
    BY <1>1, <1>3, <1>5, <1>6
  <1>7. PresentOK(t)'
    BY <1>2 DEF PresentOK
  <1> QED BY <1>1, <1>2, <1>4, <1>6, <1>7, PresentFrame DEF procVars

\* The steps of DownloadUtil::download.
LEMMA DownloadPresent ==
  ASSUME JInv, JInv', PresentInv, NEW t \in Threads, Downloading(t),
         NEW q \in DownloadPCs, pc' = [pc EXCEPT ![t] = q],
         UNCHANGED <<procVars, entry, cur>>,
         \A p \in Locations : files[p] # Null => files'[p] # Null,
         \A u \in Threads \ {t} : xfer'[u].buf = xfer[u].buf /\ xfer'[u].recv = xfer[u].recv,
         PresentOK(t)'
  PROVE  PresentInv'
PROOF
  <1>1. proc = "running"
    BY OwnFiles
  <1>2. \A u \in Threads \ {t} : pc'[u] = pc[u]
    BY DEF JInv, IInv, TypeOK
  <1> QED BY <1>1, <1>2, PresentFrame DEF procVars, Location

LEMMA OpenTmpPresent ==
  ASSUME JInv, JInv', PresentInv, NEW t \in Threads, OpenTmp(t)
  PROVE  PresentInv'
PROOF
  <1>1. /\ Downloading(t) /\ pc[t] = "open" /\ pc' = [pc EXCEPT ![t] = "transfer"]
        /\ files' = [files EXCEPT ![TmpOf(t)] = Empty] /\ xfer' = [xfer EXCEPT ![t].fp = TmpOf(t)]
        /\ UNCHANGED <<procVars, entry, cur>>
    BY DEF OpenTmp, Downloading, DownloadPCs
  <1>2. \A p \in Locations : files'[p] = files[p]
    BY <1>1, OwnFiles, PathFacts DEF JInv, IInv, TypeOK
  <1>3. xfer[t] = NoTransfer
    BY <1>1 DEF JInv, TransferInv, TransferOK, StreamPCs
  <1>4. xfer'[t].recv = 0 /\ \A u \in Threads \ {t} : xfer'[u] = xfer[u]
    BY <1>1, <1>3 DEF JInv, IInv, TypeOK, NoTransfer
  <1>5. pc'[t] = "transfer"
    BY <1>1 DEF JInv, IInv, TypeOK
  <1>6. PresentOK(t)'
    BY <1>4, <1>5 DEF PresentOK
  <1> QED BY <1>1, <1>2, <1>4, <1>6, DownloadPresent DEF DownloadPCs

\* Every block that arrives is good.
LEMMA ReceiveBlockPresent ==
  ASSUME DownloadsSucceed, JInv, JInv', PresentInv, NEW t \in Threads,
         NEW quality \in {"good", "bad"}, ReceiveBlock(t, quality)
  PROVE  PresentInv'
PROOF
  <1> DEFINE n == xfer[t].recv + 1
             buf == [xfer[t].buf EXCEPT ![n] = quality]
  <1>1. PICK f \in xfer[t].flushed..n :
          /\ files' = FlushedTo(t, buf, f)
          /\ xfer' = [xfer EXCEPT ![t].buf = buf, ![t].recv = n, ![t].flushed = f]
    BY DEF ReceiveBlock
  <1>2. /\ pc[t] = "transfer" /\ Downloading(t) /\ xfer[t].recv < NBlocks /\ quality = "good"
        /\ UNCHANGED <<procVars, entry, cur, pc>> /\ pc' = [pc EXCEPT ![t] = "transfer"]
    BY DEF ReceiveBlock, Downloading, DownloadPCs, DownloadsSucceed, JInv, IInv, TypeOK
  <1>3. xfer[t] \in Transfer /\ xfer[t].recv \in 0..NBlocks /\ xfer[t].flushed \in 0..NBlocks
    BY DEF JInv, IInv, TypeOK, Transfer
  <1>4. n \in 1..NBlocks /\ f \in 0..NBlocks /\ buf \in Content
    BY <1>2, <1>3, BlocksAssumption DEF Transfer, Content
  <1>5. \A p \in Locations : files[p] # Null => files'[p] # Null
    BY <1>1, <1>4, FlushedToType, PathFacts DEF JInv
  <1>6. \A i \in 1..n : buf[i] = "good"
    BY <1>2, <1>3, <1>4, BlocksAssumption DEF PresentInv, PresentOK, Transfer, Content
  <1> HIDE DEF n, buf
  <1>7. /\ xfer'[t].buf = buf /\ xfer'[t].recv = n
        /\ \A u \in Threads \ {t} : xfer'[u] = xfer[u]
    BY <1>1, <1>3 DEF JInv, IInv, TypeOK, Transfer
  <1>8. PresentOK(t)'
    BY <1>2, <1>6, <1>7 DEF PresentOK
  <1> QED BY <1>2, <1>5, <1>7, <1>8, DownloadPresent DEF DownloadPCs

\* The digest matches, for all blocks are there and good.
LEMMA EndTransferPresent ==
  ASSUME DownloadsSucceed, JInv, JInv', PresentInv, NEW t \in Threads, EndTransfer(t)
  PROVE  PresentInv'
PROOF
  <1>1. /\ pc[t] = "transfer" /\ Downloading(t) /\ xfer[t].recv = NBlocks
        /\ UNCHANGED <<procVars, files, entry, cur, xfer>>
    BY DEF EndTransfer, Downloading, DownloadPCs, DownloadsSucceed
  <1>2. xfer[t].buf \in Content /\ \A i \in 1..NBlocks : xfer[t].buf[i] = "good"
    BY <1>1 DEF PresentInv, PresentOK, JInv, IInv, TypeOK, Transfer
  <1>3. xfer[t].buf = Complete
    BY <1>2 DEF Content, Complete
  <1>4. pc' = [pc EXCEPT ![t] = "rename"] /\ pc'[t] = "rename"
    BY <1>3 DEF EndTransfer, DigestMatches, JInv, IInv, TypeOK
  <1>5. PresentOK(t)'
    BY <1>4 DEF PresentOK
  <1> QED BY <1>1, <1>4, <1>5, DownloadPresent DEF DownloadPCs

\* The temporary file is there, and the rename leaves a jar.
LEMMA RenameTmpPresent ==
  ASSUME JInv, JInv', PresentInv, NEW t \in Threads, RenameTmp(t)
  PROVE  PresentInv'
PROOF
  <1> DEFINE src == TmpOf(t)
             dst == Location(cur[t])
  <1>1. /\ Downloading(t) /\ files[src] # Null
        /\ files' = [files EXCEPT ![dst] = files[src], ![src] = Null]
        /\ xfer' = [u \in Threads |->
                      [xfer[u] EXCEPT !.fp = CASE @ = src -> dst
                                               [] @ = dst -> Null
                                               [] OTHER -> @]]
        /\ pc' = [pc EXCEPT ![t] = "close"] /\ UNCHANGED <<procVars, entry, cur>>
    BY DEF RenameTmp, Downloading, DownloadPCs
  <1>2. src \in Paths /\ dst \in Paths /\ src \notin Locations /\ dst \in Locations
    BY <1>1, OwnFiles
  <1>3. pc'[t] = "close" /\ dst' = dst
    BY <1>1 DEF JInv, IInv, TypeOK, Location
  <1> HIDE DEF src, dst
  <1>4. files'[dst] # Null /\ \A p \in Locations : files[p] # Null => files'[p] # Null
    BY <1>1, <1>2, PathFacts DEF JInv, IInv, TypeOK
  <1>5. \A u \in Threads : xfer'[u].buf = xfer[u].buf /\ xfer'[u].recv = xfer[u].recv
    BY <1>1 DEF JInv, IInv, TypeOK, Transfer
  <1>6. PresentOK(t)'
    BY <1>3, <1>4 DEF PresentOK, dst
  <1> QED BY <1>1, <1>4, <1>5, <1>6, DownloadPresent DEF DownloadPCs

LEMMA CloseStreamPresent ==
  ASSUME JInv, JInv', PresentInv, NEW t \in Threads, CloseStream(t)
  PROVE  PresentInv'
PROOF
  <1>1. /\ pc[t] = "close" /\ Downloading(t) /\ pc' = [pc EXCEPT ![t] = "mark"]
        /\ files' \in {files, FlushedTo(t, xfer[t].buf, xfer[t].recv)}
        /\ xfer' = [xfer EXCEPT ![t] = NoTransfer] /\ UNCHANGED <<procVars, entry, cur>>
    BY DEF CloseStream, Downloading, DownloadPCs
  <1>2. \A p \in Locations : files[p] # Null => files'[p] # Null
    BY <1>1, FlushedToType, PathFacts DEF JInv, IInv, TypeOK, Transfer
  <1>3. pc'[t] = "mark" /\ Location(cur[t])' = Location(cur[t])
    BY <1>1 DEF JInv, IInv, TypeOK, Location
  <1>4. files[Location(cur[t])] # Null /\ Location(cur[t]) \in Locations
    BY <1>1, OwnFiles DEF PresentInv, PresentOK
  <1>5. PresentOK(t)'
    BY <1>2, <1>3, <1>4 DEF PresentOK
  <1>6. \A u \in Threads \ {t} : xfer'[u] = xfer[u]
    BY <1>1 DEF JInv, IInv, TypeOK
  <1> QED BY <1>1, <1>2, <1>5, <1>6, DownloadPresent DEF DownloadPCs

\* The failures that are left have no place.
LEMMA NoFailure ==
  ASSUME DownloadsSucceed, JInv, NEW t \in Threads,
         OpenFails(t) \/ WriteFails(t) \/ RenameFails(t)
  PROVE  FALSE
PROOF
  <1>1. pc[t] = "rename" /\ files[TmpOf(t)] = Null
    BY DEF DownloadsSucceed, OpenFails, WriteFails, RenameFails
  <1>2. xfer[t].fp = TmpOf(t) /\ TmpOf(t) # Null
    BY <1>1, OwnFiles DEF JInv, OwnStream, Downloading, DownloadPCs
  <1> QED BY <1>1, <1>2 DEF JInv, IInv, StreamInv

\* The answer of get_driver_location is a jar in the directory, whole, when
\* the queries agree on the driver's checksum and the downloads themselves do
\* not fail: a failed download, whose status get_driver_location ignores, and
\* the shared temporary file that finding_shared_tmp shows are the only ways
\* to serve a missing jar, for any number of threads, drivers and blocks, and
\* crashes at any point.
THEOREM JarPresent ==
  ASSUME OneVersion, DownloadsSucceed
  PROVE  Spec => []ServedJarPresent
PROOF
  <1>1. JInv /\ [Next]_vars => JInv'
    BY NextJInv DEF CloseWrites, DownloadsSucceed
  <1>2. Init => PresentInv
    BY DEF Init, NoEntries, AllIdle, PresentInv, PresentOK
  <1>3. JInv /\ JInv' /\ PresentInv /\ [Next]_vars => PresentInv'
    <2> SUFFICES ASSUME JInv, JInv', PresentInv, [Next]_vars PROVE PresentInv'
      OBVIOUS
    <2>1. CASE UNCHANGED vars
      BY <2>1 DEF vars, PresentInv, PresentOK, Location
    <2>2. CASE Startup \/ CreateDirectoryFails \/ ListDirectoryFails \/ Crash \/ Shutdown
      BY <2>2, ProcessPresent
    <2>3. ASSUME NEW t \in Threads, Call(t) \/ Forget(t) PROVE PresentInv'
      BY <2>3, CallPresent
    <2>4. ASSUME NEW t \in Threads, Step(t) PROVE PresentInv'
      BY <2>4, EntryPresent, OpenTmpPresent, ReceiveBlockPresent, EndTransferPresent,
         RenameTmpPresent, CloseStreamPresent, NoFailure DEF Step
    <2> QED BY <2>1, <2>2, <2>3, <2>4 DEF Next
  <1>4. JInv /\ PresentInv => ServedJarPresent
    <2> SUFFICES ASSUME JInv, PresentInv, NEW t \in Threads, pc[t] = "returned"
                 PROVE  files[loc[t]] = Complete
      BY DEF ServedJarPresent
    <2>1. files[loc[t]] # Null
      BY DEF JInv, ServedInv, PresentInv
    <2> QED BY <2>1, ServedIsClosed DEF JInv, JarInv
  <1> QED BY <1>1, <1>2, <1>3, <1>4, InitJInv, PTL DEF Spec
=============================================================================
