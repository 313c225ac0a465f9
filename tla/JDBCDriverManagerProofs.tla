----------------------- MODULE JDBCDriverManagerProofs -----------------------
(***************************************************************************)
(* Proofs about JDBCDriverManager for every set of threads, requests and   *)
(* faults and every file size.                                             *)
(*                                                                         *)
(* TypeOK, RegistryConsistent, ServedMatchesRequest and DownloadExclusive  *)
(* are not inductive one by one.  IInv joins them with what ties a thread  *)
(* in a call to its entry (CallInv), an entry to the request it was made   *)
(* for (HeapInv) and a stream to the file it writes (StreamInv).           *)
(***************************************************************************)
EXTENDS JDBCDriverManager, TLAPS

\* Outside "running" no thread is in get_driver_location.
ProcInv == proc # "running" => \A t \in Threads : pc[t] = "idle"

\* Every entry was made for some request, and is available only when
\* downloaded.
HeapInv ==
  \A e \in EntryIds : entry[e] # Null =>
    /\ \E r \in Requests : r.name = entry[e].name /\ r.checksum = entry[e].checksum
    /\ entry[e].is_available => entry[e].is_downloaded

\* A thread in a call holds a reference to an entry made for its request, and
\* the entry's lock while it downloads.
CallInv ==
  \A t \in Threads :
    /\ InCall(t) => /\ cur[t] \in EntryIds /\ entry[cur[t]] # Null
                    /\ req[t] \in Requests
                    /\ entry[cur[t]].name = req[t].name
                    /\ entry[cur[t]].checksum = req[t].checksum
    /\ ~InCall(t) => cur[t] = Null
    /\ Downloading(t) => /\ entry[cur[t]].download_lock = t
                         /\ ~entry[cur[t]].is_downloaded
    /\ pc[t] = "returned" =>
         \E ts \in Clock :
           loc[t] = GenerateDriverLocation(req[t].name, req[t].checksum, ts)

\* A stream exists only during a transfer, and its file exists.
StreamInv ==
  \A t \in Threads :
    /\ pc[t] \notin {"transfer", "rename", "close"} => xfer[t].fp = Null
    /\ xfer[t].fp # Null => files[xfer[t].fp] # Null

IInv ==
  TypeOK /\ ProcInv /\ RegistryConsistent /\ HeapInv /\ CallInv /\ StreamInv

-----------------------------------------------------------------------------
\* Null is none of the values it stands in for.
LEMMA NullFacts ==
  /\ Null \notin EntryIds /\ Null \notin Threads /\ Null \notin Requests
  /\ Null \notin Content /\ Null \notin Entry /\ Null \notin FileName
PROOF BY NullAssumption

\* Paths are file names, so Null is not a path.
LEMMA PathFacts ==
  /\ Paths \subseteq FileName
  /\ Locations \subseteq Paths
  /\ Null \notin Paths
PROOF
  <1>1. ASSUME NEW r \in Requests, NEW ts \in Clock
        PROVE  GenerateDriverLocation(r.name, r.checksum, ts) \in FileName
    <2>1. r.name \in Seq(Tokens) /\ r.checksum \in Tokens /\ ToStr[ts] \in Tokens
      BY RequestsAssumption, ConversionAssumption DEF Name
    <2>2. r.name \o <<r.checksum, ToStr[ts]>> \in Seq(Tokens)
      BY <2>1
    <2> QED BY <2>2 DEF GenerateDriverLocation, FileName
  <1>2. ASSUME NEW r \in Requests
        PROVE  TmpFile(r.name, r.checksum) \in FileName
    <2>1. r.name \in Seq(Tokens) /\ r.checksum \in Tokens
      BY RequestsAssumption DEF Name
    <2>2. Append(r.name, r.checksum) \in Seq(Tokens)
      BY <2>1
    <2> QED BY <2>2 DEF TmpFile, FileName
  <1>3. Paths \subseteq FileName
    BY <1>1, <1>2, FilesAssumption DEF Paths, Locations
  <1> QED BY <1>3, NullFacts DEF Paths

\* The files of an entry are in the directory's universe.
LEMMA EntryPaths ==
  ASSUME TypeOK, HeapInv, NEW e \in EntryIds, entry[e] # Null
  PROVE  /\ entry[e] \in Entry
         /\ Location(e) \in Locations
         /\ Location(e) \in Paths
         /\ TmpFile(entry[e].name, entry[e].checksum) \in Paths
PROOF
  <1>1. entry[e] \in Entry
    BY DEF TypeOK
  <1>2. PICK r \in Requests : r.name = entry[e].name /\ r.checksum = entry[e].checksum
    BY DEF HeapInv
  <1>3. entry[e].first_access_ts \in Clock
    BY <1>1 DEF Entry
  <1>4. Location(e) \in Locations
    BY <1>2, <1>3 DEF Location, Locations
  <1>5. TmpFile(entry[e].name, entry[e].checksum) \in Paths
    BY <1>2 DEF Paths
  <1> QED BY <1>1, <1>4, <1>5 DEF Paths

\* make_shared gives a well-formed entry.
LEMMA NewEntryType ==
  ASSUME NEW r \in Requests, NEW ts \in Clock
  PROVE  /\ NewEntry(r, ts) \in Entry /\ NewEntry(r, ts) # Null
         /\ NewEntry(r, ts).name = r.name /\ NewEntry(r, ts).checksum = r.checksum
         /\ ~NewEntry(r, ts).is_available /\ ~NewEntry(r, ts).should_delete
         /\ ~NewEntry(r, ts).is_downloaded
PROOF
  <1>1. r.name \in Names /\ r.checksum \in Tokens
    BY RequestsAssumption DEF Names
  <1>2. NewEntry(r, ts) \in Entry
    BY <1>1 DEF NewEntry, Entry
  <1> QED BY <1>2, NullFacts DEF NewEntry

LEMMA InitIInv == Init => IInv
PROOF
  <1> SUFFICES ASSUME Init PROVE IInv OBVIOUS
  <1>1. Empty \in Content /\ Complete \in Content /\ NoTransfer \in Transfer
    BY BlocksAssumption DEF Empty, Complete, Content, NoTransfer, Transfer
  <1>2. TypeOK
    BY <1>1 DEF TypeOK, Init, NoEntries, EmptyMap, AllIdle, AllNull, NoTransfers, PCs
  <1>3. ProcInv /\ HeapInv /\ CallInv /\ RegistryConsistent
    BY DEF Init, NoEntries, EmptyMap, AllIdle, AllNull, ProcInv, HeapInv, CallInv,
           RegistryConsistent, InCall, Downloading, CallPCs, DownloadPCs
  <1>4. StreamInv
    BY DEF Init, NoTransfers, NoTransfer, StreamInv
  <1> QED BY <1>2, <1>3, <1>4 DEF IInv

\* The end of the process, whatever it leaves in the directory.
LEMMA DieIInv ==
  ASSUME Die, files' \in [Paths -> Content \cup {Null}]
  PROVE  IInv'
PROOF
  <1>1. Empty \in Content /\ NoTransfer \in Transfer
    BY BlocksAssumption DEF Empty, Content, NoTransfer, Transfer
  <1>2. TypeOK'
    BY <1>1 DEF TypeOK, Die, NoEntries, EmptyMap, AllIdle, AllNull, NoTransfers, PCs
  <1>3. ProcInv' /\ HeapInv' /\ CallInv' /\ RegistryConsistent'
    BY DEF Die, NoEntries, EmptyMap, AllIdle, AllNull, ProcInv, HeapInv, CallInv,
           RegistryConsistent, InCall, Downloading, CallPCs, DownloadPCs
  <1>4. StreamInv'
    BY DEF Die, NoTransfers, NoTransfer, StreamInv
  <1> QED BY <1>2, <1>3, <1>4 DEF IInv

\* Process start, init() and process end.
LEMMA ProcessIInv ==
  ASSUME IInv, Startup \/ CreateDirectoryFails \/ ListDirectoryFails \/ Crash \/ Shutdown
  PROVE  IInv'
PROOF
  <1> USE DEF IInv
  <1>1. CASE CreateDirectoryFails \/ ListDirectoryFails \/ Crash \/ Shutdown
    <2>1. files' = files /\ Die
      BY <1>1 DEF CreateDirectoryFails, ListDirectoryFails, Crash, Shutdown
    <2> QED BY <2>1, DieIInv DEF TypeOK
  <1>2. CASE ListDirectory \/ InitDone \/ Restart
    <2>1. /\ UNCHANGED <<files, entry, entryMap, pc, req, cur, loc, xfer>>
          /\ proc' \in {"starting", "scanning", "running", "dead"}
          /\ todo' \subseteq Paths
          /\ proc # "running"
      BY <1>2 DEF ListDirectory, InitDone, Restart, TypeOK
    <2>2. TypeOK'
      BY <2>1 DEF TypeOK
    <2>3. ProcInv' /\ RegistryConsistent' /\ HeapInv' /\ CallInv' /\ StreamInv'
      BY <2>1 DEF ProcInv, RegistryConsistent, HeapInv, CallInv, StreamInv,
                  InCall, Downloading
    <2> QED BY <2>2, <2>3
  <1>3. ASSUME NEW p \in Paths, ScanFile(p)
        PROVE  IInv'
    <2>1. proc = "scanning" /\ (files' = files \/ files' = [files EXCEPT ![p] = Null])
      BY <1>3 DEF ScanFile, RemoveTmp, RemoveUnparsed, LoadJar, SkipFile, DeleteFile
    <2>2. files' \in [Paths -> Content \cup {Null}]
      BY <2>1 DEF TypeOK
    <2>3. CASE Die
      BY <2>2, <2>3, DieIInv
    <2>4. CASE ~Die
      <3>1. /\ UNCHANGED <<proc, entry, entryMap, pc, req, cur, loc, xfer>>
            /\ todo' = todo \ {p}
        BY <1>3, <2>4 DEF ScanFile, RemoveTmp, RemoveUnparsed, LoadJar, SkipFile, DeleteFile
      <3>2. TypeOK'
        BY <2>2, <3>1 DEF TypeOK
      <3>3. ProcInv' /\ RegistryConsistent' /\ HeapInv' /\ CallInv'
        BY <3>1 DEF ProcInv, RegistryConsistent, HeapInv, CallInv, InCall, Downloading
      <3>4. \A t \in Threads : xfer[t].fp = Null
        BY <2>1 DEF ProcInv, StreamInv
      <3>5. StreamInv'
        BY <3>1, <3>4 DEF StreamInv
      <3> QED BY <3>2, <3>3, <3>5
    <2> QED BY <2>3, <2>4
  <1> QED BY <1>1, <1>2, <1>3 DEF Startup

-----------------------------------------------------------------------------
\* The block under _lock: the two branches that leave the map alone.
LEMMA LookupIInv ==
  ASSUME IInv, NEW t \in Threads, NEW r \in Requests,
         ServeAvailable(t, r) \/ JoinDownload(t, r)
  PROVE  IInv'
PROOF
  <1> USE DEF IInv
  <1> DEFINE e == entryMap[r.name]
  <1>1. /\ e \in EntryIds /\ entry[e] # Null
        /\ entry[e].name = r.name /\ entry[e].checksum = r.checksum
        /\ pc[t] = "idle" /\ proc = "running" /\ req' = [req EXCEPT ![t] = r]
        /\ UNCHANGED <<procVars, files, entry, entryMap, xfer>>
    BY DEF ServeAvailable, JoinDownload, IsExpected, TypeOK, RegistryConsistent, Names
  <1>2. Location(e) \in Locations /\ entry[e].first_access_ts \in Clock
    BY <1>1, EntryPaths DEF Entry
  <1>3. ProcInv' /\ RegistryConsistent' /\ HeapInv'
    BY <1>1 DEF ProcInv, RegistryConsistent, HeapInv, procVars
  <1>4. CASE ServeAvailable(t, r)
    <2>1. /\ pc' = [pc EXCEPT ![t] = "returned"]
          /\ loc' = [loc EXCEPT ![t] = Location(e)] /\ cur' = cur
      BY <1>4 DEF ServeAvailable
    <2>2. TypeOK'
      BY <1>1, <1>2, <2>1 DEF TypeOK, procVars, PCs
    <2>3. StreamInv'
      BY <1>1, <2>1 DEF StreamInv, TypeOK
    <2>4. CallInv'
      BY <1>1, <1>2, <2>1 DEF CallInv, InCall, Downloading, CallPCs, DownloadPCs,
                              TypeOK, Location
    <2> QED BY <1>3, <2>2, <2>3, <2>4
  <1>5. CASE JoinDownload(t, r)
    <2>1. /\ pc' = [pc EXCEPT ![t] = "wait"]
          /\ cur' = [cur EXCEPT ![t] = e] /\ loc' = loc
      BY <1>5 DEF JoinDownload
    <2>2. TypeOK'
      BY <1>1, <2>1 DEF TypeOK, procVars, PCs, CallPCs
    <2>3. StreamInv'
      BY <1>1, <2>1 DEF StreamInv, TypeOK
    <2>4. CallInv'
      BY <1>1, <2>1 DEF CallInv, InCall, Downloading, CallPCs, DownloadPCs, TypeOK
    <2> QED BY <1>3, <2>2, <2>3, <2>4
  <1> QED BY <1>4, <1>5

\* The block under _lock: the two branches that put a new entry in the map.
LEMMA NewEntryIInv ==
  ASSUME IInv, NEW t \in Threads, NEW r \in Requests,
         CreateEntry(t, r) \/ ReplaceEntry(t, r)
  PROVE  IInv'
PROOF
  <1> USE DEF IInv
  <1>1. /\ pc[t] = "idle" /\ proc = "running" /\ r.name \in Names
        /\ req' = [req EXCEPT ![t] = r] /\ pc' = [pc EXCEPT ![t] = "wait"]
        /\ UNCHANGED <<procVars, files, loc, xfer>>
    BY DEF CreateEntry, ReplaceEntry, Names
  <1>2. CASE CreateEntry(t, r)
    <2>1. PICK e \in EntryIds, ts \in Clock :
            /\ entry[e] = Null
            /\ entry' = [entry EXCEPT ![e] = NewEntry(r, ts)]
            /\ entryMap' = [entryMap EXCEPT ![r.name] = e]
            /\ cur' = [cur EXCEPT ![t] = e]
      BY <1>2 DEF CreateEntry
    <2>2. entryMap[r.name] = Null
      BY <1>2 DEF CreateEntry
    <2>3. TypeOK'
      BY <1>1, <2>1, NewEntryType DEF TypeOK, procVars, PCs, CallPCs
    <2>4. RegistryConsistent'
      BY <1>1, <2>1, <2>2, NewEntryType, NullFacts DEF RegistryConsistent, TypeOK
    <2>5. HeapInv'
      BY <2>1, NewEntryType DEF HeapInv, TypeOK
    <2>6. CallInv'
      BY <1>1, <2>1, NewEntryType DEF CallInv, InCall, Downloading, CallPCs,
                                      DownloadPCs, TypeOK
    <2>7. ProcInv' /\ StreamInv'
      BY <1>1 DEF ProcInv, StreamInv, TypeOK, procVars
    <2> QED BY <2>3, <2>4, <2>5, <2>6, <2>7
  <1>3. CASE ReplaceEntry(t, r)
    <2> DEFINE old == entryMap[r.name]
    <2>1. PICK e \in EntryIds, ts \in Clock :
            /\ entry[e] = Null
            /\ entryMap' = [entryMap EXCEPT ![r.name] = e]
            /\ cur' = [cur EXCEPT ![t] = e]
            /\ entry' = DropUnreferenced(
                          [MarkForDeletion(entry, old) EXCEPT ![e] = NewEntry(r, ts)],
                          entryMap', cur')
      BY <1>3 DEF ReplaceEntry
    <2>2. old \in EntryIds /\ entry[old] # Null /\ entry[old] \in Entry /\ old # e
          /\ entry[old].name = r.name
      BY <1>1, <1>3, <2>1 DEF ReplaceEntry, TypeOK, RegistryConsistent
    <2> DEFINE marked == [entry[old] EXCEPT !.should_delete = TRUE]
    <2>3. /\ marked \in Entry /\ marked # Null /\ marked.should_delete
          /\ marked.name = entry[old].name /\ marked.checksum = entry[old].checksum
          /\ marked.is_available = entry[old].is_available
          /\ marked.is_downloaded = entry[old].is_downloaded
          /\ marked.download_lock = entry[old].download_lock
      BY <2>2, NullFacts DEF Entry
    <2> HIDE DEF marked
    <2>4. /\ entry' \in [EntryIds -> Entry \cup {Null}]
          /\ entry'[e] = NewEntry(r, ts)
          /\ entry'[old] \in {marked, Null}
          /\ \A x \in EntryIds \ {e, old} : entry'[x] \in {entry[x], Null}
          /\ \A n \in Names \ {r.name} : entryMap[n] # Null =>
               entry'[entryMap[n]] = IF entryMap[n] = old THEN marked ELSE entry[entryMap[n]]
          /\ \A u \in Threads \ {t} : cur[u] # Null /\ cur[u] # e =>
               entry'[cur[u]] = IF cur[u] = old THEN marked ELSE entry[cur[u]]
      <3> DEFINE heap == [MarkForDeletion(entry, old) EXCEPT ![e] = NewEntry(r, ts)]
      <3>1. /\ heap \in [EntryIds -> Entry \cup {Null}]
            /\ heap[e] = NewEntry(r, ts) /\ heap[old] = marked
            /\ \A x \in EntryIds \ {e, old} : heap[x] = entry[x]
        BY <2>1, <2>2, <2>3, NewEntryType DEF MarkForDeletion, TypeOK, marked
      <3>2. \A x \in EntryIds :
              entry'[x] = IF x \in Referenced(entryMap', cur') THEN heap[x] ELSE Null
        BY <2>1 DEF DropUnreferenced
      <3>3. entry' = [x \in EntryIds |-> IF x \in Referenced(entryMap', cur') THEN heap[x] ELSE Null]
        BY <2>1 DEF DropUnreferenced
      <3> HIDE DEF heap
      <3>4. entry' \in [EntryIds -> Entry \cup {Null}]
        BY <3>1, <3>3
      <3>5. /\ e \in Referenced(entryMap', cur')
            /\ \A n \in Names \ {r.name} : entryMap[n] \in Referenced(entryMap', cur')
            /\ \A u \in Threads \ {t} : cur[u] \in Referenced(entryMap', cur')
        <4>1. \A n \in Names : entryMap'[n] \in Referenced(entryMap', cur')
          BY DEF Referenced
        <4>2. \A u \in Threads : cur'[u] \in Referenced(entryMap', cur')
          BY DEF Referenced
        <4> QED BY <4>1, <4>2, <1>1, <2>1 DEF TypeOK
      <3>6. /\ \A n \in Names : entryMap[n] \in EntryIds \cup {Null}
            /\ \A u \in Threads : cur[u] \in EntryIds \cup {Null}
        BY DEF TypeOK
      <3>7. \A n \in Names : entryMap[n] # e
        BY <2>1, NullFacts DEF RegistryConsistent
      <3> QED BY <2>2, <3>1, <3>2, <3>4, <3>5, <3>6, <3>7
    <2>5. TypeOK'
      BY <1>1, <2>1, <2>4 DEF TypeOK, procVars, PCs, CallPCs
    <2>6. RegistryConsistent'
      <3>1. \A n \in Names : entryMap'[n] = IF n = r.name THEN e ELSE entryMap[n]
        BY <1>1, <2>1 DEF TypeOK
      <3>2. \A n \in Names \ {r.name} : entryMap[n] # old /\ entryMap[n] # e
        BY <1>1, <2>1, <2>2, NullFacts DEF RegistryConsistent
      <3>3. ASSUME NEW n \in Names, entryMap'[n] # Null
            PROVE  entry'[entryMap'[n]] # Null /\ entry'[entryMap'[n]].name = n
        BY <3>1, <3>2, <3>3, <2>4, NewEntryType DEF RegistryConsistent
      <3>4. ASSUME NEW x \in EntryIds, entry'[x] # Null
            PROVE  entry'[x].should_delete <=> entryMap'[entry'[x].name] # x
        <4>1. CASE x = e
          BY <1>1, <3>1, <2>4, <4>1, NewEntryType
        <4>2. CASE x = old
          BY <1>1, <2>2, <2>3, <2>4, <3>1, <3>4, <4>2
        <4>3. CASE x # e /\ x # old
          <5>1. entry'[x] = entry[x] /\ entry[x] # Null /\ entry[x].name \in Names
            BY <2>4, <3>4, <4>3 DEF TypeOK, Entry
          <5>2. entry[x].should_delete <=> entryMap[entry[x].name] # x
            BY <5>1 DEF RegistryConsistent
          <5>3. CASE entry[x].name = r.name
            BY <3>1, <4>3, <5>1, <5>2, <5>3
          <5>4. CASE entry[x].name # r.name
            BY <3>1, <5>1, <5>2, <5>4
          <5> QED BY <5>3, <5>4
        <4> QED BY <4>1, <4>2, <4>3
      <3> QED BY <3>3, <3>4 DEF RegistryConsistent
    <2>7. HeapInv'
      <3> SUFFICES ASSUME NEW x \in EntryIds, entry'[x] # Null
                   PROVE  /\ \E q \in Requests : q.name = entry'[x].name /\ q.checksum = entry'[x].checksum
                          /\ entry'[x].is_available => entry'[x].is_downloaded
        BY DEF HeapInv
      <3>1. CASE x = e
        BY <2>4, <3>1, NewEntryType
      <3>2. CASE x = old
        BY <2>2, <2>3, <2>4, <3>2 DEF HeapInv
      <3>3. CASE x # e /\ x # old
        BY <2>4, <3>3 DEF HeapInv
      <3> QED BY <3>1, <3>2, <3>3
    <2>8. CallInv'
      <3>1. ASSUME NEW u \in Threads, u # t
            PROVE  pc'[u] = pc[u] /\ cur'[u] = cur[u] /\ req'[u] = req[u] /\ loc'[u] = loc[u]
        BY <1>1, <2>1, <3>1 DEF TypeOK
      <3>2. ASSUME NEW u \in Threads, u # t, InCall(u)
            PROVE  /\ cur[u] \in EntryIds /\ entry[cur[u]] # Null
                   /\ entry'[cur[u]] = IF cur[u] = old THEN marked ELSE entry[cur[u]]
        BY <2>1, <2>4, <3>2, NullFacts DEF CallInv
      <3>3. ASSUME NEW u \in Threads, u # t, InCall(u)
            PROVE  /\ cur[u] \in EntryIds /\ entry'[cur[u]] # Null
                   /\ entry'[cur[u]].name = entry[cur[u]].name
                   /\ entry'[cur[u]].checksum = entry[cur[u]].checksum
                   /\ entry'[cur[u]].is_downloaded = entry[cur[u]].is_downloaded
                   /\ entry'[cur[u]].download_lock = entry[cur[u]].download_lock
        BY <2>3, <3>2, <3>3
      <3>4. /\ pc'[t] = "wait" /\ cur'[t] = e /\ req'[t] = r
        BY <1>1, <2>1 DEF TypeOK
      <3>5. \A u \in Threads : Downloading(u) => InCall(u)
        BY DEF Downloading, InCall, CallPCs
      <3> QED BY <2>4, <3>1, <3>3, <3>4, <3>5, NewEntryType DEF CallInv, InCall,
              Downloading, CallPCs, DownloadPCs
    <2>9. ProcInv' /\ StreamInv'
      BY <1>1 DEF ProcInv, StreamInv, TypeOK, procVars
    <2> QED BY <2>5, <2>6, <2>7, <2>8, <2>9
  <1> QED BY <1>2, <1>3

-----------------------------------------------------------------------------
\* The end of a call, with or without a download of its own.
LEMMA ReturnIInv ==
  ASSUME IInv, NEW t \in Threads, pc[t] \in {"wait", "mark"}, NEW heap,
         heap \in [EntryIds -> Entry \cup {Null}],
         \A x \in EntryIds \ {cur[t]} : heap[x] = entry[x],
         /\ heap[cur[t]] # Null
         /\ heap[cur[t]].name = entry[cur[t]].name
         /\ heap[cur[t]].checksum = entry[cur[t]].checksum
         /\ heap[cur[t]].should_delete = entry[cur[t]].should_delete
         /\ heap[cur[t]].is_available => heap[cur[t]].is_downloaded,
         \A u \in Threads \ {t} : Downloading(u) => cur[u] # cur[t],
         Return(t, heap), UNCHANGED <<procVars, files, entryMap, req, xfer>>
  PROVE  IInv'
PROOF
  <1> USE DEF IInv
  <1> DEFINE c == cur[t]
  <1>1. /\ c \in EntryIds /\ entry[c] # Null /\ req[t] \in Requests
        /\ entry[c].name = req[t].name /\ entry[c].checksum = req[t].checksum
    BY DEF CallInv, InCall, CallPCs, DownloadPCs
  <1>2. /\ pc' = [pc EXCEPT ![t] = "returned"]
        /\ loc' = [loc EXCEPT ![t] = Location(c)]
        /\ cur' = [cur EXCEPT ![t] = Null]
        /\ entry' = DropUnreferenced(heap, entryMap, cur')
    BY DEF Return
  <1>3. Location(c) \in Locations /\ entry[c].first_access_ts \in Clock
    BY <1>1, EntryPaths DEF Entry
  <1>4. /\ entry' \in [EntryIds -> Entry \cup {Null}]
        /\ \A x \in EntryIds : entry'[x] \in {heap[x], Null}
        /\ \A n \in Names : entryMap[n] # Null => entry'[entryMap[n]] = heap[entryMap[n]]
        /\ \A u \in Threads \ {t} : cur[u] # Null => entry'[cur[u]] = heap[cur[u]]
    <2>1. entry' = [x \in EntryIds |-> IF x \in Referenced(entryMap, cur') THEN heap[x] ELSE Null]
      BY <1>2 DEF DropUnreferenced
    <2>2. \A n \in Names : entryMap[n] \in Referenced(entryMap, cur')
      BY DEF Referenced
    <2>3. \A u \in Threads : cur'[u] \in Referenced(entryMap, cur')
      BY DEF Referenced
    <2>4. \A u \in Threads \ {t} : cur[u] = cur'[u]
      BY <1>2 DEF TypeOK
    <2>5. entry' \in [EntryIds -> Entry \cup {Null}]
      BY <2>1
    <2> QED BY <2>1, <2>2, <2>3, <2>4, <2>5 DEF TypeOK
  <1>5. TypeOK'
    BY <1>2, <1>3, <1>4 DEF TypeOK, procVars, PCs
  <1>6. RegistryConsistent'
    BY <1>1, <1>4 DEF RegistryConsistent, TypeOK
  <1>7. HeapInv'
    <2> SUFFICES ASSUME NEW x \in EntryIds, entry'[x] # Null
                 PROVE  /\ \E q \in Requests : q.name = entry'[x].name /\ q.checksum = entry'[x].checksum
                        /\ entry'[x].is_available => entry'[x].is_downloaded
      BY DEF HeapInv
    <2>1. CASE x = c
      BY <1>1, <1>4, <2>1
    <2>2. CASE x # c
      BY <1>4, <2>2 DEF HeapInv
    <2> QED BY <2>1, <2>2
  <1>8. CallInv'
    <2>1. ASSUME NEW u \in Threads, u # t
          PROVE  pc'[u] = pc[u] /\ cur'[u] = cur[u] /\ req'[u] = req[u] /\ loc'[u] = loc[u]
      BY <1>2, <2>1 DEF TypeOK
    <2>2. ASSUME NEW u \in Threads, u # t, InCall(u)
          PROVE  /\ cur[u] \in EntryIds /\ entry'[cur[u]] # Null
                 /\ entry'[cur[u]].name = entry[cur[u]].name
                 /\ entry'[cur[u]].checksum = entry[cur[u]].checksum
                 /\ Downloading(u) => entry'[cur[u]] = entry[cur[u]]
      <3>1. cur[u] \in EntryIds /\ entry[cur[u]] # Null /\ entry'[cur[u]] = heap[cur[u]]
        BY <1>4, <2>2, NullFacts DEF CallInv
      <3> QED BY <2>2, <3>1
    <2>3. pc'[t] = "returned" /\ cur'[t] = Null /\ req'[t] = req[t] /\ loc'[t] = Location(c)
      BY <1>2 DEF TypeOK
    <2>4. \A u \in Threads : Downloading(u) => InCall(u)
      BY DEF Downloading, InCall, CallPCs
    <2>5. \E ts \in Clock :
            loc'[t] = GenerateDriverLocation(req[t].name, req[t].checksum, ts)
      BY <1>1, <1>3, <2>3 DEF Location
    <2> QED BY <2>1, <2>2, <2>3, <2>4, <2>5 DEF CallInv, InCall, Downloading, CallPCs, DownloadPCs
  <1>9. ProcInv' /\ StreamInv'
    BY <1>2 DEF ProcInv, StreamInv, TypeOK, procVars
  <1> QED BY <1>5, <1>6, <1>7, <1>8, <1>9

LEMMA FindDownloadedIInv ==
  ASSUME IInv, NEW t \in Threads, FindDownloaded(t)
  PROVE  IInv'
PROOF
  <1>1. /\ cur[t] \in EntryIds /\ entry[cur[t]] # Null
        /\ entry[cur[t]].is_available => entry[cur[t]].is_downloaded
        /\ entry \in [EntryIds -> Entry \cup {Null}]
    BY DEF IInv, CallInv, HeapInv, TypeOK, FindDownloaded, InCall, CallPCs
  <1>2. \A u \in Threads \ {t} : Downloading(u) => cur[u] # cur[t]
    BY NullFacts DEF IInv, CallInv, FindDownloaded
  <1> QED BY <1>1, <1>2, ReturnIInv DEF FindDownloaded

LEMMA MarkDownloadedIInv ==
  ASSUME IInv, NEW t \in Threads, MarkDownloaded(t)
  PROVE  IInv'
PROOF
  <1> DEFINE c == cur[t]
             done == [entry[c] EXCEPT !.is_downloaded = TRUE, !.is_available = TRUE,
                                      !.download_lock = Null]
             heap == [entry EXCEPT ![c].is_downloaded = TRUE, ![c].is_available = TRUE,
                                   ![c].download_lock = Null]
  <1>1. /\ c \in EntryIds /\ entry[c] \in Entry /\ Downloading(t)
        /\ entry \in [EntryIds -> Entry \cup {Null}]
    BY DEF IInv, CallInv, TypeOK, MarkDownloaded, InCall, Downloading, CallPCs, DownloadPCs
  <1>2. /\ done \in Entry /\ done.name = entry[c].name /\ done.checksum = entry[c].checksum
        /\ done.should_delete = entry[c].should_delete /\ done.is_downloaded
    BY <1>1 DEF Entry
  <1>3. heap = [entry EXCEPT ![c] = done]
    BY <1>1
  <1>4. /\ heap \in [EntryIds -> Entry \cup {Null}] /\ heap[c] = done
        /\ \A x \in EntryIds \ {c} : heap[x] = entry[x]
    BY <1>1, <1>2, <1>3
  <1>5. \A u \in Threads \ {t} : Downloading(u) => cur[u] # cur[t]
    BY <1>1 DEF IInv, CallInv
  <1>6. Return(t, heap) /\ pc[t] = "mark" /\ UNCHANGED <<procVars, files, entryMap, req, xfer>>
    BY DEF MarkDownloaded
  <1> HIDE DEF heap, done
  <1> QED BY <1>2, <1>4, <1>5, <1>6, NullFacts, ReturnIInv

LEMMA BeginDownloadIInv ==
  ASSUME IInv, NEW t \in Threads, BeginDownload(t)
  PROVE  IInv'
PROOF
  <1> USE DEF IInv
  <1> DEFINE c == cur[t]
             locked == [entry[c] EXCEPT !.download_lock = t]
  <1>1. /\ c \in EntryIds /\ entry[c] \in Entry /\ entry[c] # Null
        /\ pc[t] = "wait" /\ ~entry[c].is_downloaded /\ entry[c].download_lock = Null
        /\ entry' = [entry EXCEPT ![c] = locked]
        /\ pc' = [pc EXCEPT ![t] = "open"]
        /\ UNCHANGED <<procVars, files, entryMap, req, cur, loc, xfer>>
    BY DEF CallInv, TypeOK, BeginDownload, InCall, CallPCs
  <1>2. /\ locked \in Entry /\ locked # Null /\ locked.download_lock = t
        /\ locked.name = entry[c].name /\ locked.checksum = entry[c].checksum
        /\ locked.should_delete = entry[c].should_delete
        /\ locked.is_available = entry[c].is_available
        /\ locked.is_downloaded = entry[c].is_downloaded
    BY <1>1, NullFacts DEF Entry
  <1> HIDE DEF locked
  <1>3. /\ entry'[c] = locked /\ \A x \in EntryIds \ {c} : entry'[x] = entry[x]
    BY <1>1 DEF TypeOK
  <1>4. TypeOK'
    BY <1>1, <1>2 DEF TypeOK, procVars, PCs, CallPCs, DownloadPCs
  <1>5. RegistryConsistent' /\ HeapInv'
    BY <1>1, <1>2, <1>3 DEF RegistryConsistent, HeapInv, TypeOK
  <1>6. CallInv'
    <2>1. \A u \in Threads \ {t} : pc'[u] = pc[u] /\ (Downloading(u) => cur[u] # c)
      BY <1>1, NullFacts DEF TypeOK, CallInv
    <2>2. pc'[t] = "open"
      BY <1>1 DEF TypeOK
    <2> QED BY <1>1, <1>2, <1>3, <2>1, <2>2 DEF CallInv, InCall, Downloading, CallPCs, DownloadPCs
  <1>7. ProcInv' /\ StreamInv'
    BY <1>1 DEF ProcInv, StreamInv, TypeOK, procVars
  <1> QED BY <1>4, <1>5, <1>6, <1>7

\* A step of DownloadUtil::download touches no entry: what is left to show of
\* it concerns the directory and the streams.
LEMMA DownloadFrame ==
  ASSUME IInv, NEW t \in Threads, Downloading(t), NEW q \in DownloadPCs,
         pc' = [pc EXCEPT ![t] = q],
         UNCHANGED <<procVars, entry, entryMap, req, cur, loc>>,
         files' \in [Paths -> Content \cup {Null}],
         xfer' \in [Threads -> Transfer],
         StreamInv'
  PROVE  IInv'
PROOF
  <1> USE DEF IInv
  <1>1. TypeOK'
    BY DEF TypeOK, procVars, PCs, CallPCs
  <1>2. RegistryConsistent' /\ HeapInv'
    BY DEF RegistryConsistent, HeapInv
  <1>3. ProcInv'
    BY DEF ProcInv, Downloading, DownloadPCs, TypeOK, procVars
  <1>4. CallInv'
    <2>1. \A u \in Threads : pc'[u] = IF u = t THEN q ELSE pc[u]
      BY DEF TypeOK
    <2>2. InCall(t) /\ q \in CallPCs /\ q # "returned"
      BY DEF InCall, Downloading, CallPCs, DownloadPCs
    <2> QED BY <2>1, <2>2 DEF CallInv, InCall, Downloading
  <1> QED BY <1>1, <1>2, <1>3, <1>4

\* The steps that change neither the directory nor a stream.
LEMMA ControlStepIInv ==
  ASSUME IInv, NEW t \in Threads,
         OpenFails(t) \/ WriteFails(t) \/ EndTransfer(t) \/ RenameFails(t)
  PROVE  IInv'
PROOF
  <1>1. /\ Downloading(t)
        /\ UNCHANGED <<procVars, files, entry, entryMap, req, cur, loc, xfer>>
    BY DEF OpenFails, WriteFails, EndTransfer, RenameFails, Downloading, DownloadPCs
  <1>2. files' \in [Paths -> Content \cup {Null}] /\ xfer' \in [Threads -> Transfer]
    BY <1>1 DEF IInv, TypeOK
  <1>3. CASE OpenFails(t)
    <2>1. pc[t] = "open" /\ pc' = [pc EXCEPT ![t] = "mark"]
      BY <1>3 DEF OpenFails
    <2>2. StreamInv'
      BY <1>1, <2>1 DEF IInv, StreamInv, TypeOK
    <2> QED BY <1>1, <1>2, <2>1, <2>2, DownloadFrame DEF DownloadPCs
  <1>4. CASE WriteFails(t) \/ EndTransfer(t) \/ RenameFails(t)
    <2>1. PICK q \in {"rename", "close"} : pc' = [pc EXCEPT ![t] = q]
      BY <1>4 DEF WriteFails, EndTransfer, RenameFails
    <2>2. StreamInv'
      BY <1>1, <2>1 DEF IInv, StreamInv, TypeOK
    <2> QED BY <1>1, <1>2, <2>1, <2>2, DownloadFrame DEF DownloadPCs
  <1> QED BY <1>3, <1>4

LEMMA OpenTmpIInv ==
  ASSUME IInv, NEW t \in Threads, OpenTmp(t)
  PROVE  IInv'
PROOF
  <1>1. /\ Downloading(t) /\ InCall(t)
        /\ pc' = [pc EXCEPT ![t] = "transfer"]
        /\ files' = [files EXCEPT ![TmpOf(t)] = Empty]
        /\ xfer' = [xfer EXCEPT ![t].fp = TmpOf(t)]
        /\ UNCHANGED <<procVars, entry, entryMap, req, cur, loc>>
    BY DEF OpenTmp, Downloading, InCall, CallPCs, DownloadPCs
  <1>2. TmpOf(t) \in Paths
    BY <1>1, EntryPaths DEF TmpOf, IInv, CallInv
  <1>3. Empty \in Content /\ Empty # Null
    BY NullFacts DEF Empty, Content
  <1>4. files' \in [Paths -> Content \cup {Null}]
    BY <1>1, <1>2, <1>3 DEF IInv, TypeOK
  <1>5. xfer' \in [Threads -> Transfer]
    BY <1>1, <1>2 DEF IInv, TypeOK, Transfer
  <1>6. StreamInv'
    <2>1. /\ xfer'[t].fp = TmpOf(t)
          /\ \A u \in Threads \ {t} : xfer'[u] = xfer[u] /\ pc'[u] = pc[u]
          /\ pc'[t] = "transfer"
      BY <1>1 DEF IInv, TypeOK, Transfer
    <2>2. \A p \in Paths : files[p] # Null => files'[p] # Null
      BY <1>1, <1>3 DEF IInv, TypeOK
    <2>3. files'[TmpOf(t)] # Null
      BY <1>1, <1>2, <1>3 DEF IInv, TypeOK
    <2>4. \A u \in Threads : xfer[u].fp \in Paths \cup {Null}
      BY DEF IInv, TypeOK, Transfer
    <2> QED BY <2>1, <2>2, <2>3, <2>4 DEF IInv, StreamInv
  <1> QED BY <1>1, <1>4, <1>5, <1>6, DownloadFrame DEF DownloadPCs

\* Flushing a stdio buffer changes the bytes of files, never which files
\* there are.
LEMMA FlushedToType ==
  ASSUME IInv, NEW t \in Threads, NEW buf \in Content, NEW n \in 0..NBlocks
  PROVE  /\ FlushedTo(t, buf, n) \in [Paths -> Content \cup {Null}]
         /\ \A p \in Paths : files[p] # Null => FlushedTo(t, buf, n)[p] # Null
PROOF
  <1>1. files \in [Paths -> Content \cup {Null}]
    BY DEF IInv, TypeOK
  <1>2. CASE xfer[t].fp = Null
    BY <1>1, <1>2 DEF FlushedTo
  <1>3. CASE xfer[t].fp # Null
    <2> DEFINE p == xfer[t].fp
               c == [i \in 1..NBlocks |-> IF i \in (xfer[t].flushed + 1)..n
                                          THEN buf[i] ELSE files[p][i]]
    <2>1. p \in Paths /\ files[p] \in Content
      BY <1>1, <1>3 DEF IInv, TypeOK, StreamInv, Transfer
    <2>2. c \in Content
      BY <2>1 DEF Content
    <2>3. c # Null
      BY <2>2, NullFacts
    <2>4. FlushedTo(t, buf, n) = [files EXCEPT ![p] = c]
      BY <1>3 DEF FlushedTo
    <2> HIDE DEF c
    <2> QED BY <1>1, <2>1, <2>2, <2>3, <2>4
  <1> QED BY <1>2, <1>3

LEMMA ReceiveBlockIInv ==
  ASSUME IInv, NEW t \in Threads, NEW quality \in {"good", "bad"},
         ReceiveBlock(t, quality)
  PROVE  IInv'
PROOF
  <1> DEFINE n == xfer[t].recv + 1
             buf == [xfer[t].buf EXCEPT ![n] = quality]
  <1>1. PICK f \in xfer[t].flushed..n :
          /\ files' = FlushedTo(t, buf, f)
          /\ xfer' = [xfer EXCEPT ![t].buf = buf, ![t].recv = n, ![t].flushed = f]
    BY DEF ReceiveBlock
  <1>2. /\ pc[t] = "transfer" /\ xfer[t].recv < NBlocks
        /\ UNCHANGED <<procVars, entry, entryMap, pc, req, cur, loc>>
    BY DEF ReceiveBlock
  <1>3. xfer[t] \in Transfer
    BY DEF IInv, TypeOK
  <1>4. /\ n \in 0..NBlocks /\ f \in 0..NBlocks /\ buf \in Content
    BY <1>2, <1>3, BlocksAssumption DEF Transfer, Content
  <1> DEFINE x == [xfer[t] EXCEPT !.buf = buf, !.recv = n, !.flushed = f]
  <1>5. x \in Transfer /\ x.fp = xfer[t].fp
    BY <1>3, <1>4 DEF Transfer
  <1>6. xfer' = [xfer EXCEPT ![t] = x]
    BY <1>1
  <1> HIDE DEF x, buf, n
  <1>7. /\ xfer' \in [Threads -> Transfer]
        /\ \A u \in Threads : xfer'[u].fp = xfer[u].fp
    BY <1>5, <1>6 DEF IInv, TypeOK
  <1>8. /\ files' \in [Paths -> Content \cup {Null}]
        /\ \A p \in Paths : files[p] # Null => files'[p] # Null
    BY <1>1, <1>4, FlushedToType
  <1>9. StreamInv'
    BY <1>2, <1>7, <1>8 DEF IInv, StreamInv, TypeOK, Transfer
  <1>10. pc' = [pc EXCEPT ![t] = "transfer"] /\ Downloading(t)
    BY <1>2 DEF IInv, TypeOK, Downloading, DownloadPCs
  <1> QED BY <1>2, <1>7, <1>8, <1>9, <1>10, DownloadFrame DEF DownloadPCs

LEMMA CloseStreamIInv ==
  ASSUME IInv, NEW t \in Threads, CloseStream(t)
  PROVE  IInv'
PROOF
  <1>1. /\ Downloading(t) /\ pc' = [pc EXCEPT ![t] = "mark"]
        /\ files' = FlushedTo(t, xfer[t].buf, xfer[t].recv) \/ files' = files
        /\ xfer' = [xfer EXCEPT ![t] = NoTransfer]
        /\ UNCHANGED <<procVars, entry, entryMap, req, cur, loc>>
    BY DEF CloseStream, Downloading, DownloadPCs
  <1>2. xfer[t].buf \in Content /\ xfer[t].recv \in 0..NBlocks
    BY DEF IInv, TypeOK, Transfer
  <1>3. /\ files' \in [Paths -> Content \cup {Null}]
        /\ \A p \in Paths : files[p] # Null => files'[p] # Null
    BY <1>1, <1>2, FlushedToType DEF IInv, TypeOK
  <1>4. NoTransfer \in Transfer /\ NoTransfer.fp = Null
    BY BlocksAssumption DEF NoTransfer, Transfer, Empty, Content
  <1>5. xfer' \in [Threads -> Transfer]
    BY <1>1, <1>4 DEF IInv, TypeOK
  <1>6. StreamInv'
    BY <1>1, <1>3, <1>4 DEF IInv, StreamInv, TypeOK, Transfer
  <1> QED BY <1>1, <1>3, <1>5, <1>6, DownloadFrame DEF DownloadPCs

\* rename: the streams open on the temporary file follow it to the jar.
LEMMA RenameTmpIInv ==
  ASSUME IInv, NEW t \in Threads, RenameTmp(t)
  PROVE  IInv'
PROOF
  <1> DEFINE src == TmpOf(t)
             dst == Location(cur[t])
             moved(p) == CASE p = src -> dst [] p = dst -> Null [] OTHER -> p
  <1>1. /\ Downloading(t) /\ InCall(t) /\ pc' = [pc EXCEPT ![t] = "close"]
        /\ pc[t] = "rename"
        /\ files[src] # Null
        /\ files' = [files EXCEPT ![dst] = files[src], ![src] = Null]
        /\ xfer' = [u \in Threads |-> [xfer[u] EXCEPT !.fp = moved(xfer[u].fp)]]
        /\ UNCHANGED <<procVars, entry, entryMap, req, cur, loc>>
    BY DEF RenameTmp, Downloading, InCall, CallPCs, DownloadPCs
  <1>2. src \in Paths /\ dst \in Paths
    BY <1>1, EntryPaths DEF TmpOf, IInv, CallInv
  <1>3. src # dst
    BY DEF TmpOf, TmpFile, Location, GenerateDriverLocation
  <1>4. files \in [Paths -> Content \cup {Null}] /\ xfer \in [Threads -> Transfer]
    BY DEF IInv, TypeOK
  <1>5. /\ files' \in [Paths -> Content \cup {Null}]
        /\ files'[src] = Null /\ files'[dst] # Null
        /\ \A p \in Paths \ {src, dst} : files'[p] = files[p]
    <2> HIDE DEF src, dst
    <2> QED BY <1>1, <1>2, <1>3, <1>4
  <1>6. src # Null /\ dst # Null
    BY <1>2, PathFacts
  <1> HIDE DEF src, dst
  <1>7. ASSUME NEW u \in Threads
        PROVE  /\ xfer'[u] \in Transfer
               /\ xfer'[u].fp = moved(xfer[u].fp)
    <2>1. xfer'[u] = [xfer[u] EXCEPT !.fp = moved(xfer[u].fp)]
      BY <1>1
    <2>2. xfer[u] \in Transfer
      BY <1>4
    <2>3. moved(xfer[u].fp) \in Paths \cup {Null}
      BY <1>2, <2>2 DEF Transfer
    <2> HIDE DEF moved
    <2> QED BY <2>1, <2>2, <2>3 DEF Transfer
  <1>8. xfer' \in [Threads -> Transfer]
    BY <1>1, <1>7
  <1>9. StreamInv'
    <2>1. \A u \in Threads : xfer[u].fp \in Paths \cup {Null}
      BY <1>4 DEF Transfer
    <2>2. ASSUME NEW u \in Threads, xfer'[u].fp # Null
          PROVE  files'[xfer'[u].fp] # Null
      BY <1>5, <1>7, <1>2, <1>3, <1>6, <2>1, <2>2 DEF IInv, StreamInv
    <2>3. ASSUME NEW u \in Threads, pc'[u] \notin {"transfer", "rename", "close"}
          PROVE  xfer'[u].fp = Null
      <3>1. pc[u] \notin {"transfer", "rename", "close"}
        BY <1>1, <2>3 DEF IInv, TypeOK
      <3>2. xfer[u].fp = Null
        BY <3>1 DEF IInv, StreamInv
      <3> QED BY <1>6, <1>7, <3>2
    <2> QED BY <2>2, <2>3 DEF StreamInv
  <1> QED BY <1>1, <1>5, <1>8, <1>9, DownloadFrame DEF DownloadPCs

LEMMA ForgetIInv ==
  ASSUME IInv, NEW t \in Threads, Forget(t)
  PROVE  IInv'
PROOF
  <1> USE DEF IInv
  <1>1. TypeOK'
    BY DEF Forget, TypeOK, procVars, PCs
  <1>2. RegistryConsistent' /\ HeapInv'
    BY DEF Forget, RegistryConsistent, HeapInv
  <1>3. CallInv'
    BY DEF Forget, CallInv, InCall, Downloading, CallPCs, DownloadPCs, TypeOK
  <1>4. ProcInv' /\ StreamInv'
    BY DEF Forget, ProcInv, StreamInv, TypeOK, procVars
  <1> QED BY <1>1, <1>2, <1>3, <1>4

-----------------------------------------------------------------------------
LEMMA NextIInv == IInv /\ [Next]_vars => IInv'
PROOF
  <1> SUFFICES ASSUME IInv, [Next]_vars PROVE IInv'
    OBVIOUS
  <1>1. CASE UNCHANGED vars
    BY <1>1 DEF IInv, TypeOK, ProcInv, RegistryConsistent, HeapInv, CallInv, StreamInv,
                InCall, Downloading, vars
  <1>2. CASE Startup \/ CreateDirectoryFails \/ ListDirectoryFails \/ Crash \/ Shutdown
    BY <1>2, ProcessIInv
  <1>3. ASSUME NEW t \in Threads, Call(t) PROVE IInv'
    BY <1>3, LookupIInv, NewEntryIInv DEF Call
  <1>4. ASSUME NEW t \in Threads, Step(t) PROVE IInv'
    BY <1>4, FindDownloadedIInv, BeginDownloadIInv, OpenTmpIInv, ControlStepIInv,
       ReceiveBlockIInv, RenameTmpIInv, CloseStreamIInv, MarkDownloadedIInv DEF Step
  <1>5. ASSUME NEW t \in Threads, Forget(t) PROVE IInv'
    BY <1>5, ForgetIInv
  <1> QED BY <1>1, <1>2, <1>3, <1>4, <1>5 DEF Next

\* The inductive invariant holds in every reachable state.
THEOREM Invariance == Spec => []IInv
PROOF BY InitIInv, NextIInv, PTL DEF Spec

\* Every variable keeps its type; in particular a stream is only written while
\* its file exists and every location handed out is one of the directory's.
THEOREM TypeCorrect == Spec => []TypeOK
PROOF
  <1>1. IInv => TypeOK
    BY DEF IInv
  <1> QED BY <1>1, Invariance, PTL

\* _entry_map and should_delete agree for any number of threads, versions and
\* restarts.
THEOREM RegistryCorrect == Spec => []RegistryConsistent
PROOF
  <1>1. IInv => RegistryConsistent
    BY DEF IInv
  <1> QED BY <1>1, Invariance, PTL

\* get_driver_location answers with the driver and checksum it was asked for,
\* also when the map entry was replaced while the caller waited.
THEOREM ServedCorrect == Spec => []ServedMatchesRequest
PROOF
  <1>1. IInv => ServedMatchesRequest
    BY DEF IInv, CallInv, ServedMatchesRequest
  <1> QED BY <1>1, Invariance, PTL

\* download_lock and is_downloaded give one download per entry.
THEOREM DownloadExclusion == Spec => []DownloadExclusive
PROOF
  <1>1. IInv => DownloadExclusive
    <2> SUFFICES ASSUME IInv, NEW t \in Threads, Downloading(t)
                 PROVE  /\ ~entry[cur[t]].is_available
                        /\ \A u \in Threads : Downloading(u) /\ cur[u] = cur[t] => u = t
      BY DEF DownloadExclusive
    <2>1. cur[t] \in EntryIds /\ entry[cur[t]] # Null
      BY DEF IInv, CallInv, InCall, Downloading, CallPCs
    <2>2. ~entry[cur[t]].is_available
      BY <2>1 DEF IInv, CallInv, HeapInv
    <2>3. \A u \in Threads : Downloading(u) /\ cur[u] = cur[t] => u = t
      BY DEF IInv, CallInv
    <2> QED BY <2>2, <2>3
  <1> QED BY <1>1, Invariance, PTL
=============================================================================
