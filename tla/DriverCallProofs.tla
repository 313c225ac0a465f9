--------------------------- MODULE DriverCallProofs ---------------------------
(***************************************************************************)
(* A call of get_driver_location as its caller sees it, for every set of   *)
(* threads, requests and faults: it takes effect in the block under _lock  *)
(* (ImplementsLookup), whoever waits for a download_lock waits for a       *)
(* thread that is downloading (LockHasDownloader), and every step of a     *)
(* call brings it nearer to its end (CallShortens).                        *)
(*                                                                         *)
(* The refinement rests on IInv, which ties a thread in a call to an entry *)
(* in memory, and on LocationInjective: that a map entry has a location of *)
(* the version asked for means that is_expected holds of it.               *)
(***************************************************************************)
EXTENDS JDBCDriverManagerProofs, DriverFileNameProofs

\* A step leaves the three fields alone that make up e's location.
SameFile(e) ==
  /\ entry'[e].name = entry[e].name /\ entry'[e].checksum = entry[e].checksum
  /\ entry'[e].first_access_ts = entry[e].first_access_ts

\* A name of _entry_map or a call in progress refers to e before and after a
\* step.
Kept(e) ==
  \/ \E n \in Names : entryMap[n] = e /\ entryMap'[n] = e
  \/ \E t \in Threads : InCall(t) /\ InCall(t)' /\ cur[t] = e /\ cur'[t] = e

\* A location is one of request r's exactly when name and checksum are r's,
\* and Null is none.
LEMMA LocationsOfFacts ==
  ASSUME NEW r \in Requests
  PROVE  /\ Null \notin LocationsOf[r]
         /\ \A ts \in Clock : GenerateDriverLocation(r.name, r.checksum, ts) \in LocationsOf[r]
         /\ \A q \in Requests, ts \in Clock :
              GenerateDriverLocation(q.name, q.checksum, ts) \in LocationsOf[r]
                => q.name = r.name /\ q.checksum = r.checksum
PROOF
  <1>1. LocationsOf[r] = { GenerateDriverLocation(r.name, r.checksum, ts) : ts \in Clock }
    BY DEF LocationsOf
  <1>2. LocationsOf[r] \subseteq Locations
    BY <1>1 DEF Locations
  <1>3. ASSUME NEW q \in Requests, NEW ts \in Clock,
               GenerateDriverLocation(q.name, q.checksum, ts) \in LocationsOf[r]
        PROVE  q.name = r.name /\ q.checksum = r.checksum
    <2>1. PICK s \in Clock : GenerateDriverLocation(q.name, q.checksum, ts)
                               = GenerateDriverLocation(r.name, r.checksum, s)
      BY <1>1, <1>3
    <2>2. /\ q.name \in Name /\ q.checksum \in Tokens
          /\ r.name \in Name /\ r.checksum \in Tokens
      BY RequestsAssumption
    <2> QED BY <2>1, <2>2, LocationInjective
  <1> QED BY <1>1, <1>2, <1>3, PathFacts

\* The location of an entry in memory belongs to the requests is_expected
\* accepts it for, and to no other.
LEMMA ExpectedLocation ==
  ASSUME IInv, NEW r \in Requests, NEW e \in EntryIds, entry[e] # Null
  PROVE  /\ Location(e) \in LocationsOf[r] <=> IsExpected(e, r)
         /\ Location(e) # Null
PROOF
  <1>1. PICK q \in Requests : q.name = entry[e].name /\ q.checksum = entry[e].checksum
    BY DEF IInv, HeapInv
  <1>2. entry[e].first_access_ts \in Clock
    BY DEF IInv, TypeOK, Entry
  <1>3. Location(e) = GenerateDriverLocation(q.name, q.checksum, entry[e].first_access_ts)
    BY <1>1 DEF Location
  <1>4. Location(e) \in LocationsOf[q] /\ Null \notin LocationsOf[q]
    BY <1>2, <1>3, LocationsOfFacts
  <1>5. Location(e) \in LocationsOf[r] => IsExpected(e, r)
    BY <1>1, <1>2, <1>3, LocationsOfFacts DEF IsExpected
  <1>6. IsExpected(e, r) => Location(e) \in LocationsOf[r]
    BY <1>2, LocationsOfFacts DEF IsExpected, Location
  <1> QED BY <1>4, <1>5, <1>6

\* A call that has returned has given a location.
AnswerInv == \A t \in Threads : pc[t] = "returned" => loc[t] # Null

LEMMA NextAnswer == IInv /\ AnswerInv /\ [Next]_vars => AnswerInv'
PROOF
  <1> SUFFICES ASSUME IInv, AnswerInv, [Next]_vars PROVE AnswerInv'
    OBVIOUS
  <1>1. CASE Die \/ UNCHANGED <<pc, loc>>
    BY <1>1 DEF Die, AllIdle, AnswerInv
  <1>2. ASSUME NEW t \in Threads, NEW q \in PCs, pc' = [pc EXCEPT ![t] = q],
               \/ q # "returned" /\ (loc' = loc \/ loc' = [loc EXCEPT ![t] = Null])
               \/ \E l : l # Null /\ loc' = [loc EXCEPT ![t] = l]
        PROVE  AnswerInv'
    BY <1>2 DEF AnswerInv, IInv, TypeOK
  <1>3. Startup \/ CreateDirectoryFails \/ ListDirectoryFails \/ Crash \/ Shutdown => Die \/ UNCHANGED <<pc, loc>>
    BY DEF Startup, ListDirectory, ScanFile, RemoveTmp, RemoveUnparsed, LoadJar, SkipFile,
           DeleteFile, InitDone, Restart, CreateDirectoryFails, ListDirectoryFails, Crash, Shutdown
  <1>4. ASSUME NEW t \in Threads, NEW r \in Requests, ServeAvailable(t, r)
        PROVE  AnswerInv'
    <2>1. entryMap[r.name] \in EntryIds /\ entry[entryMap[r.name]] # Null
      BY <1>4 DEF ServeAvailable, IInv, TypeOK, RegistryConsistent, Names
    <2>2. Location(entryMap[r.name]) # Null
      BY <2>1, ExpectedLocation
    <2> QED BY <1>2, <1>4, <2>2 DEF ServeAvailable, PCs
  <1>5. ASSUME NEW t \in Threads, NEW r \in Requests,
               JoinDownload(t, r) \/ CreateEntry(t, r) \/ ReplaceEntry(t, r)
        PROVE  AnswerInv'
    BY <1>2, <1>5 DEF JoinDownload, CreateEntry, ReplaceEntry, PCs, CallPCs
  <1>6. ASSUME NEW t \in Threads, FindDownloaded(t) \/ MarkDownloaded(t) PROVE AnswerInv'
    <2>1. cur[t] \in EntryIds /\ entry[cur[t]] # Null /\ req[t] \in Requests
      BY <1>6 DEF FindDownloaded, MarkDownloaded, IInv, CallInv, InCall, CallPCs, DownloadPCs
    <2>2. Location(cur[t]) # Null
      BY <2>1, ExpectedLocation
    <2> QED BY <1>2, <1>6, <2>2 DEF FindDownloaded, MarkDownloaded, Return, PCs
  <1>7. ASSUME NEW t \in Threads, Step(t), ~FindDownloaded(t), ~MarkDownloaded(t)
        PROVE  AnswerInv'
    <2>1. CASE \E quality \in {"good", "bad"} : ReceiveBlock(t, quality)
      BY <1>1, <2>1 DEF ReceiveBlock
    <2>2. CASE ~ \E quality \in {"good", "bad"} : ReceiveBlock(t, quality)
      <3>1. loc' = loc /\ \E q \in DownloadPCs : pc' = [pc EXCEPT ![t] = q]
        BY <1>7, <2>2 DEF Step, BeginDownload, OpenTmp, OpenFails, WriteFails, EndTransfer,
             RenameTmp, RenameFails, CloseStream, DownloadPCs
      <3> QED BY <1>2, <3>1 DEF PCs, CallPCs, DownloadPCs
    <2> QED BY <2>1, <2>2
  <1>8. ASSUME NEW t \in Threads, Forget(t) PROVE AnswerInv'
    BY <1>2, <1>8 DEF Forget, PCs
  <1>9. CASE UNCHANGED vars
    BY <1>1, <1>9 DEF vars
  <1> QED BY <1>1, <1>3, <1>4, <1>5, <1>6, <1>7, <1>8, <1>9 DEF Next, Call

LEMMA AnswersThere == Spec => []AnswerInv
PROOF
  <1>1. Init => AnswerInv
    BY DEF Init, AllIdle, AnswerInv
  <1> QED BY <1>1, NextAnswer, Invariance, PTL DEF Spec

-----------------------------------------------------------------------------
\* The entries that are referred to keep their files: current locations only
\* change where the map does, answers in the making only where a thread does.
LEMMA BarFrame ==
  ASSUME \A e \in EntryIds : Kept(e) => SameFile(e), IInv
  PROVE  /\ \A n \in Names : entryMap'[n] = entryMap[n] => currentBar'[n] = currentBar[n]
         /\ \A t \in Threads : cur'[t] = cur[t] /\ (InCall(t)' <=> InCall(t))
              => chosenBar'[t] = chosenBar[t]
         /\ \A t \in Threads : pc'[t] = pc[t] /\ loc'[t] = loc[t] => answerBar'[t] = answerBar[t]
PROOF
  <1>1. ASSUME NEW n \in Names, entryMap'[n] = entryMap[n]
        PROVE  currentBar'[n] = currentBar[n]
    BY <1>1 DEF currentBar, Kept, SameFile, Location, IInv, TypeOK
  <1>2. ASSUME NEW t \in Threads, cur'[t] = cur[t], InCall(t)' <=> InCall(t)
        PROVE  chosenBar'[t] = chosenBar[t]
    BY <1>2 DEF chosenBar, Kept, SameFile, Location, IInv, CallInv
  <1>3. ASSUME NEW t \in Threads, pc'[t] = pc[t], loc'[t] = loc[t]
        PROVE  answerBar'[t] = answerBar[t]
    BY <1>3 DEF answerBar
  <1> QED BY <1>1, <1>2, <1>3

-----------------------------------------------------------------------------
\* The end of the process is the end of every call and every location.
LEMMA DieLookup == Die => Lookup!Restart
PROOF BY DEF Die, Lookup!Restart, Lookup!Nowhere, Lookup!Nothing, currentBar, chosenBar,
             answerBar, InCall, CallPCs, DownloadPCs, AllIdle, EmptyMap, Names

\* Process start and init() are not seen by callers.
LEMMA ProcessLookup ==
  ASSUME Startup \/ CreateDirectoryFails \/ ListDirectoryFails \/ Crash \/ Shutdown
  PROVE  Lookup!Restart \/ UNCHANGED Lookup!vars
PROOF
  <1>1. CASE Die
    BY <1>1, DieLookup
  <1>2. CASE UNCHANGED <<entry, entryMap, pc, cur, loc>>
    BY <1>2 DEF Lookup!vars, currentBar, chosenBar, answerBar, InCall, Location
  <1>3. Die \/ UNCHANGED <<entry, entryMap, pc, cur, loc>>
    BY DEF Startup, ListDirectory, ScanFile, RemoveTmp, RemoveUnparsed, LoadJar, SkipFile,
           DeleteFile, InitDone, Restart, CreateDirectoryFails, ListDirectoryFails, Crash, Shutdown
  <1> QED BY <1>1, <1>2, <1>3

\* A thread outside a call is outside a call of the abstract specification.
LEMMA IdleBar ==
  ASSUME NEW t \in Threads, pc[t] = "idle"
  PROVE  chosenBar[t] = Null /\ answerBar[t] = Null
PROOF BY DEF chosenBar, answerBar, InCall, CallPCs, DownloadPCs

LEMMA ServeAvailableLookup ==
  ASSUME IInv, NEW t \in Threads, NEW r \in Requests, ServeAvailable(t, r)
  PROVE  Lookup!AnswerAtOnce(t, r)
PROOF
  <1> DEFINE e == entryMap[r.name]
  <1>1. /\ r.name \in Names /\ e \in EntryIds /\ entry[e] # Null /\ IsExpected(e, r)
        /\ pc[t] = "idle" /\ pc' = [pc EXCEPT ![t] = "returned"]
        /\ loc' = [loc EXCEPT ![t] = Location(e)]
        /\ UNCHANGED <<entry, entryMap, cur>>
    BY DEF ServeAvailable, IInv, TypeOK, RegistryConsistent, Names
  <1>2. currentBar[r.name] = Location(e) /\ Location(e) \in LocationsOf[r]
    BY <1>1, ExpectedLocation, NullFacts DEF currentBar
  <1>3. currentBar' = currentBar
    BY <1>1 DEF currentBar, Location
  <1>4. \A u \in Threads : pc'[u] = IF u = t THEN "returned" ELSE pc[u]
    BY <1>1 DEF IInv, TypeOK
  <1>5. chosenBar' = chosenBar
    BY <1>1, <1>4 DEF chosenBar, Location, InCall, CallPCs, DownloadPCs
  <1>6. answerBar' = [answerBar EXCEPT ![t] = Location(e)]
    BY <1>1, <1>4 DEF answerBar, IInv, TypeOK
  <1> QED BY <1>1, <1>2, <1>3, <1>5, <1>6, IdleBar DEF Lookup!AnswerAtOnce

\* The three branches that go on to the download agree on this much: the map
\* leads to the entry the thread will use, which is as expected.
LEMMA EnterLookup ==
  ASSUME IInv, IInv', NEW t \in Threads, NEW r \in Requests, pc[t] = "idle",
         NEW e \in EntryIds,
         entryMap' = [entryMap EXCEPT ![r.name] = e],
         cur' = [cur EXCEPT ![t] = e], pc' = [pc EXCEPT ![t] = "wait"], loc' = loc,
         IsExpected(e, r)',
         \A x \in EntryIds : Kept(x) => SameFile(x),
         entryMap[r.name] # Null /\ IsExpected(entryMap[r.name], r) => entryMap[r.name] = e
  PROVE  Lookup!LookUp(t, r)
PROOF
  <1> DEFINE l == Location(e)'
  <1>1. r.name \in Names /\ entry'[e] # Null
    <2>1. r.name \in Names
      BY DEF Names
    <2>2. entryMap'[r.name] = e
      BY <2>1 DEF IInv, TypeOK
    <2> QED BY <2>1, <2>2, NullFacts DEF IInv, RegistryConsistent
  <1>2. entryMap'[r.name] = e /\ cur'[t] = e /\ InCall(t)'
    BY <1>1 DEF IInv, TypeOK, InCall, CallPCs
  <1>3. l \in LocationsOf[r] /\ l # Null
    <2>1. entry'[e].first_access_ts \in Clock
      BY <1>1 DEF IInv, TypeOK, Entry
    <2>2. l = GenerateDriverLocation(r.name, r.checksum, entry'[e].first_access_ts)
      BY DEF Location, IsExpected
    <2> QED BY <2>1, <2>2, LocationsOfFacts
  <1>4. currentBar' = [currentBar EXCEPT ![r.name] = l]
    <2>1. \A n \in Names \ {r.name} : currentBar'[n] = currentBar[n]
      BY <1>1, BarFrame DEF IInv, TypeOK
    <2>2. currentBar'[r.name] = l
      BY <1>1, <1>2, NullFacts DEF currentBar, Location
    <2> QED BY <1>1, <2>1, <2>2 DEF currentBar
  <1>5. chosenBar' = [chosenBar EXCEPT ![t] = l]
    <2>1. \A u \in Threads \ {t} : chosenBar'[u] = chosenBar[u]
      BY BarFrame DEF IInv, TypeOK, InCall
    <2>2. chosenBar'[t] = l
      BY <1>2 DEF chosenBar, Location
    <2> QED BY <2>1, <2>2 DEF chosenBar
  <1>6. answerBar' = answerBar
    BY DEF answerBar, IInv, TypeOK
  <1>7. Lookup!Resolves(r, l)
    <2> SUFFICES ASSUME currentBar[r.name] \in LocationsOf[r]
                 PROVE  l = currentBar[r.name]
      BY <1>3 DEF Lookup!Resolves
    <2> DEFINE old == entryMap[r.name]
    <2>1. old # Null
      BY <1>1, LocationsOfFacts DEF currentBar
    <2>2. old \in EntryIds /\ entry[old] # Null /\ currentBar[r.name] = Location(old)
      BY <1>1, <2>1 DEF currentBar, IInv, TypeOK, RegistryConsistent
    <2>3. old = e
      BY <2>1, <2>2, ExpectedLocation
    <2>4. Kept(e)
      BY <1>1, <1>2, <2>3 DEF Kept
    <2>5. SameFile(e)
      BY <2>4
    <2> QED BY <2>2, <2>3, <2>5 DEF Location, SameFile
  <1> HIDE DEF l
  <1> QED BY <1>3, <1>4, <1>5, <1>6, <1>7, IdleBar DEF Lookup!LookUp

LEMMA JoinDownloadLookup ==
  ASSUME IInv, IInv', NEW t \in Threads, NEW r \in Requests, JoinDownload(t, r)
  PROVE  Lookup!LookUp(t, r)
PROOF
  <1>1. /\ r.name \in Names /\ entryMap[r.name] \in EntryIds
        /\ IsExpected(entryMap[r.name], r) /\ pc[t] = "idle"
        /\ pc' = [pc EXCEPT ![t] = "wait"] /\ cur' = [cur EXCEPT ![t] = entryMap[r.name]]
        /\ UNCHANGED <<entry, entryMap, loc>>
    BY DEF JoinDownload, IInv, TypeOK, Names
  <1>2. PICK e \in EntryIds : e = entryMap[r.name]
    BY <1>1
  <1>3. entryMap' = [entryMap EXCEPT ![r.name] = e]
    BY <1>1, <1>2 DEF IInv, TypeOK
  <1>4. IsExpected(e, r)'
    BY <1>1, <1>2 DEF IsExpected
  <1>5. \A x \in EntryIds : SameFile(x)
    BY <1>1 DEF SameFile
  <1> QED BY <1>1, <1>2, <1>3, <1>4, <1>5, EnterLookup

LEMMA CreateEntryLookup ==
  ASSUME IInv, IInv', NEW t \in Threads, NEW r \in Requests, CreateEntry(t, r)
  PROVE  Lookup!LookUp(t, r)
PROOF
  <1>1. PICK e \in EntryIds, ts \in Clock :
          /\ entry[e] = Null
          /\ entry' = [entry EXCEPT ![e] = NewEntry(r, ts)]
          /\ entryMap' = [entryMap EXCEPT ![r.name] = e]
          /\ cur' = [cur EXCEPT ![t] = e]
    BY DEF CreateEntry
  <1>2. /\ pc[t] = "idle" /\ pc' = [pc EXCEPT ![t] = "wait"] /\ loc' = loc
        /\ entryMap[r.name] = Null
    BY DEF CreateEntry
  <1>3. entry'[e] = NewEntry(r, ts) /\ \A x \in EntryIds \ {e} : entry'[x] = entry[x]
    BY <1>1 DEF IInv, TypeOK
  <1>4. IsExpected(e, r)'
    BY <1>3, NewEntryType DEF IsExpected
  <1>5. ~Kept(e)
    BY <1>1, NullFacts DEF Kept, IInv, RegistryConsistent, CallInv
  <1>6. \A x \in EntryIds : Kept(x) => SameFile(x)
    BY <1>3, <1>5 DEF SameFile
  <1> QED BY <1>1, <1>2, <1>4, <1>6, EnterLookup

\* The old entry may have users left: what they will answer stays.
LEMMA ReplaceEntryLookup ==
  ASSUME IInv, IInv', NEW t \in Threads, NEW r \in Requests, ReplaceEntry(t, r)
  PROVE  Lookup!LookUp(t, r)
PROOF
  <1>1. PICK e \in EntryIds, ts \in Clock :
          /\ entry[e] = Null
          /\ entryMap' = [entryMap EXCEPT ![r.name] = e]
          /\ cur' = [cur EXCEPT ![t] = e]
          /\ entry' = DropUnreferenced(
                        [MarkForDeletion(entry, entryMap[r.name]) EXCEPT ![e] = NewEntry(r, ts)],
                        entryMap', cur')
    BY DEF ReplaceEntry
  <1>2. /\ pc[t] = "idle" /\ pc' = [pc EXCEPT ![t] = "wait"] /\ loc' = loc
        /\ r.name \in Names /\ ~IsExpected(entryMap[r.name], r)
        /\ entryMap[r.name] \in EntryIds
    BY DEF ReplaceEntry, Names, IInv, TypeOK
  <1> DEFINE heap == [MarkForDeletion(entry, entryMap[r.name]) EXCEPT ![e] = NewEntry(r, ts)]
  <1>3. \A x \in EntryIds : x \in Referenced(entryMap', cur') => entry'[x] = heap[x]
    BY <1>1 DEF DropUnreferenced
  <1>4. /\ heap[e] = NewEntry(r, ts)
        /\ \A x \in EntryIds \ {e} : entry[x] # Null =>
             /\ heap[x].name = entry[x].name /\ heap[x].checksum = entry[x].checksum
             /\ heap[x].first_access_ts = entry[x].first_access_ts
    BY <1>2 DEF MarkForDeletion, IInv, TypeOK, Entry
  <1> HIDE DEF heap
  <1>5. e \in Referenced(entryMap', cur')
        /\ \A x \in EntryIds : Kept(x) => x \in Referenced(entryMap', cur')
    <2>1. entryMap'[r.name] = e
      BY <1>1, <1>2 DEF IInv, TypeOK
    <2> QED BY <1>2, <2>1 DEF Kept, Referenced
  <1>6. IsExpected(e, r)'
    BY <1>3, <1>4, <1>5, NewEntryType DEF IsExpected
  <1>7. \A x \in EntryIds : Kept(x) => entry[x] # Null
    BY NullFacts DEF Kept, IInv, RegistryConsistent, CallInv
  <1>8. \A x \in EntryIds : Kept(x) => SameFile(x)
    BY <1>1, <1>3, <1>4, <1>5, <1>7 DEF SameFile
  <1> QED BY <1>1, <1>2, <1>6, <1>8, EnterLookup

-----------------------------------------------------------------------------
\* The end of a call, with or without a download of its own.
LEMMA ReturnLookup ==
  ASSUME IInv, NEW t \in Threads, InCall(t), NEW heap,
         \A x \in EntryIds : entry[x] # Null =>
           /\ heap[x].name = entry[x].name /\ heap[x].checksum = entry[x].checksum
           /\ heap[x].first_access_ts = entry[x].first_access_ts,
         Return(t, heap), entryMap' = entryMap
  PROVE  Lookup!Answer(t)
PROOF
  <1>1. /\ pc' = [pc EXCEPT ![t] = "returned"]
        /\ loc' = [loc EXCEPT ![t] = Location(cur[t])]
        /\ cur' = [cur EXCEPT ![t] = Null]
        /\ entry' = DropUnreferenced(heap, entryMap, cur')
    BY DEF Return
  <1>2. cur[t] \in EntryIds /\ entry[cur[t]] # Null /\ req[t] \in Requests
    BY DEF IInv, CallInv
  <1>3. chosenBar[t] = Location(cur[t]) /\ Location(cur[t]) # Null
    BY <1>2, ExpectedLocation DEF chosenBar
  <1>4. /\ \A u \in Threads : pc'[u] = IF u = t THEN "returned" ELSE pc[u]
        /\ \A u \in Threads : loc'[u] = IF u = t THEN Location(cur[t]) ELSE loc[u]
        /\ \A u \in Threads \ {t} : cur'[u] = cur[u] /\ (InCall(u)' <=> InCall(u))
        /\ ~InCall(t)'
    BY <1>1 DEF IInv, TypeOK, InCall, CallPCs, DownloadPCs
  <1>5. \A x \in EntryIds : Kept(x) => x \in Referenced(entryMap, cur') /\ entry[x] # Null
    BY NullFacts DEF Kept, Referenced, IInv, RegistryConsistent, CallInv
  <1>6. \A x \in EntryIds : Kept(x) => SameFile(x)
    BY <1>1, <1>5 DEF SameFile, DropUnreferenced
  <1>7. currentBar' = currentBar
    <2>1. \A n \in Names : currentBar'[n] = currentBar[n]
      BY <1>6, BarFrame
    <2> QED BY <2>1 DEF currentBar
  <1>8. chosenBar' = [chosenBar EXCEPT ![t] = Null]
    <2>1. \A u \in Threads \ {t} : chosenBar'[u] = chosenBar[u]
      BY <1>4, <1>6, BarFrame
    <2>2. chosenBar'[t] = Null
      BY <1>4 DEF chosenBar
    <2> QED BY <2>1, <2>2 DEF chosenBar
  <1>9. answerBar' = [answerBar EXCEPT ![t] = Location(cur[t])]
    BY <1>4 DEF answerBar
  <1> QED BY <1>3, <1>7, <1>8, <1>9 DEF Lookup!Answer

\* Waiting, downloading and returning: nothing but the return is seen.
LEMMA StepLookup ==
  ASSUME IInv, NEW t \in Threads, Step(t)
  PROVE  Lookup!Answer(t) \/ UNCHANGED Lookup!vars
PROOF
  <1>1. ASSUME FindDownloaded(t) PROVE Lookup!Answer(t)
    <2>1. InCall(t) /\ Return(t, entry) /\ entryMap' = entryMap
      BY <1>1 DEF FindDownloaded, InCall, CallPCs
    <2> QED BY <2>1, ReturnLookup
  <1>2. ASSUME MarkDownloaded(t) PROVE Lookup!Answer(t)
    <2> DEFINE heap == [entry EXCEPT ![cur[t]].is_downloaded = TRUE,
                                     ![cur[t]].is_available = TRUE,
                                     ![cur[t]].download_lock = Null]
    <2>1. InCall(t) /\ Return(t, heap) /\ entryMap' = entryMap
      BY <1>2 DEF MarkDownloaded, InCall, CallPCs, DownloadPCs
    <2>2. \A x \in EntryIds : entry[x] # Null =>
            /\ heap[x].name = entry[x].name /\ heap[x].checksum = entry[x].checksum
            /\ heap[x].first_access_ts = entry[x].first_access_ts
      BY DEF IInv, TypeOK, Entry
    <2> HIDE DEF heap
    <2> QED BY <2>1, <2>2, ReturnLookup
  <1>3. ASSUME BeginDownload(t) PROVE UNCHANGED Lookup!vars
    <2>1. /\ entry' = [entry EXCEPT ![cur[t]].download_lock = t]
          /\ pc' = [pc EXCEPT ![t] = "open"] /\ pc[t] = "wait"
          /\ UNCHANGED <<entryMap, cur, loc>>
      BY <1>3 DEF BeginDownload
    <2>2. \A x \in EntryIds : Kept(x) => entry[x] # Null
      BY NullFacts DEF Kept, IInv, RegistryConsistent, CallInv
    <2>3. \A x \in EntryIds : Kept(x) => SameFile(x)
      BY <2>1, <2>2 DEF SameFile, IInv, TypeOK, Entry
    <2>4. \A u \in Threads : /\ InCall(u)' <=> InCall(u)
                             /\ pc'[u] = "returned" <=> pc[u] = "returned"
      BY <2>1 DEF IInv, TypeOK, InCall, CallPCs, DownloadPCs
    <2>5. /\ \A n \in Names : currentBar'[n] = currentBar[n]
          /\ \A u \in Threads : chosenBar'[u] = chosenBar[u]
      BY <2>1, <2>3, <2>4, BarFrame
    <2>6. answerBar' = answerBar
      BY <2>1, <2>4 DEF answerBar
    <2> QED BY <2>5, <2>6 DEF Lookup!vars, currentBar, chosenBar
  <1>4. ASSUME NEW q \in DownloadPCs, pc' = [pc EXCEPT ![t] = q], Downloading(t),
               UNCHANGED <<entry, entryMap, cur, loc>>
        PROVE  UNCHANGED Lookup!vars
    <2>1. \A u \in Threads : /\ InCall(u)' <=> InCall(u)
                             /\ pc'[u] = "returned" <=> pc[u] = "returned"
      BY <1>4 DEF IInv, TypeOK, InCall, Downloading, CallPCs, DownloadPCs
    <2> QED BY <1>4, <2>1 DEF Lookup!vars, currentBar, chosenBar, answerBar, Location
  <1>5. ASSUME NEW quality \in {"good", "bad"}, ReceiveBlock(t, quality)
        PROVE  UNCHANGED Lookup!vars
    BY <1>5 DEF ReceiveBlock, Lookup!vars, currentBar, chosenBar, answerBar, Location, InCall
  <1>6. CASE OpenTmp(t) \/ OpenFails(t) \/ WriteFails(t) \/ EndTransfer(t)
               \/ RenameTmp(t) \/ RenameFails(t) \/ CloseStream(t)
    <2>1. Downloading(t) /\ UNCHANGED <<entry, entryMap, cur, loc>>
      BY <1>6 DEF OpenTmp, OpenFails, WriteFails, EndTransfer, RenameTmp, RenameFails,
                  CloseStream, Downloading, DownloadPCs
    <2>2. \E q \in {"transfer", "mark", "close", "rename"} : pc' = [pc EXCEPT ![t] = q]
      BY <1>6 DEF OpenTmp, OpenFails, WriteFails, EndTransfer, RenameTmp, RenameFails,
                  CloseStream
    <2> QED BY <1>4, <2>1, <2>2 DEF DownloadPCs
  <1> QED BY <1>1, <1>2, <1>3, <1>5, <1>6 DEF Step

LEMMA ForgetLookup ==
  ASSUME IInv, AnswerInv, NEW t \in Threads, Forget(t)
  PROVE  Lookup!Forget(t)
PROOF
  <1>1. /\ pc[t] = "returned" /\ pc' = [pc EXCEPT ![t] = "idle"]
        /\ loc' = [loc EXCEPT ![t] = Null] /\ UNCHANGED <<entry, entryMap, cur>>
    BY DEF Forget
  <1>2. \A u \in Threads : /\ InCall(u)' <=> InCall(u)
                           /\ pc'[u] = IF u = t THEN "idle" ELSE pc[u]
                           /\ u # t => loc'[u] = loc[u]
    BY <1>1 DEF IInv, TypeOK, InCall, CallPCs, DownloadPCs
  <1>3. currentBar' = currentBar /\ chosenBar' = chosenBar
    BY <1>1, <1>2 DEF currentBar, chosenBar, Location
  <1>4. answerBar' = [answerBar EXCEPT ![t] = Null]
    BY <1>2 DEF answerBar
  <1>5. answerBar[t] # Null
    BY <1>1 DEF answerBar, AnswerInv
  <1> QED BY <1>3, <1>4, <1>5 DEF Lookup!Forget

LEMMA InitLookup == Init => Lookup!Init
PROOF BY DEF Init, Lookup!Init, Lookup!Nowhere, Lookup!Nothing, currentBar, chosenBar,
             answerBar, InCall, CallPCs, DownloadPCs, AllIdle, EmptyMap, Names

LEMMA NextLookup == IInv /\ IInv' /\ AnswerInv /\ [Next]_vars => [Lookup!Next]_(Lookup!vars)
PROOF
  <1> SUFFICES ASSUME IInv, IInv', AnswerInv, [Next]_vars
               PROVE  Lookup!Next \/ UNCHANGED Lookup!vars
    OBVIOUS
  <1>1. CASE UNCHANGED vars
    BY <1>1 DEF vars, Lookup!vars, currentBar, chosenBar, answerBar, InCall, Location
  <1>2. CASE Startup \/ CreateDirectoryFails \/ ListDirectoryFails \/ Crash \/ Shutdown
    BY <1>2, ProcessLookup DEF Lookup!Next
  <1>3. ASSUME NEW t \in Threads, NEW r \in Requests,
               ServeAvailable(t, r) \/ JoinDownload(t, r) \/ CreateEntry(t, r) \/ ReplaceEntry(t, r)
        PROVE  Lookup!Next
    <2>1. Lookup!AnswerAtOnce(t, r) \/ Lookup!LookUp(t, r)
      BY <1>3, ServeAvailableLookup, JoinDownloadLookup, CreateEntryLookup, ReplaceEntryLookup
    <2> QED BY <2>1 DEF Lookup!Next
  <1>4. ASSUME NEW t \in Threads, Step(t) PROVE Lookup!Next \/ UNCHANGED Lookup!vars
    BY <1>4, StepLookup DEF Lookup!Next
  <1>5. ASSUME NEW t \in Threads, Forget(t) PROVE Lookup!Next
    BY <1>5, ForgetLookup DEF Lookup!Next
  <1> QED BY <1>1, <1>2, <1>3, <1>4, <1>5 DEF Next, Call

\* get_driver_location is atomic for its callers: any interleaving of calls,
\* downloads, crashes and restarts gives the answers of a manager that looks
\* the location up in one step.
THEOREM LookupImplemented == Spec => ImplementsLookup
PROOF
  <1>1. Spec => []AnswerInv
    BY AnswersThere
  <1> QED BY <1>1, InitLookup, NextLookup, Invariance, PTL DEF Spec, ImplementsLookup, Lookup!Spec

-----------------------------------------------------------------------------
\* Locks survive a step that gives no new lock and leaves their holders alone.
LEMMA LockFrame ==
  ASSUME IInv, LockHasDownloader,
         \A e \in EntryIds : entry'[e] # Null /\ entry'[e].download_lock # Null =>
           /\ entry[e] # Null /\ entry[e].download_lock = entry'[e].download_lock
           /\ \A u \in Threads : u = entry[e].download_lock /\ Downloading(u) /\ cur[u] = e
                => Downloading(u)' /\ cur'[u] = e
  PROVE  LockHasDownloader'
PROOF
  <1>1. \A e \in EntryIds : entry[e] # Null => entry[e].download_lock \in Threads \cup {Null}
    BY DEF IInv, TypeOK, Entry
  <1> QED BY <1>1 DEF LockHasDownloader, Downloading

\* A thread that enters a call, or returns from one it only waited in, holds
\* no lock; the others keep theirs.
LEMMA CallLock ==
  ASSUME IInv, LockHasDownloader, NEW t \in Threads, ~Downloading(t),
         \A u \in Threads \ {t} : pc'[u] = pc[u] /\ cur'[u] = cur[u],
         \A e \in EntryIds : entry'[e] # Null /\ entry'[e].download_lock # Null =>
           entry[e] # Null /\ entry[e].download_lock = entry'[e].download_lock
  PROVE  LockHasDownloader'
PROOF
  <1>1. \A u \in Threads : Downloading(u) => Downloading(u)' /\ cur'[u] = cur[u]
    BY DEF Downloading
  <1> QED BY <1>1, LockFrame

LEMMA EnterLock ==
  ASSUME IInv, LockHasDownloader, NEW t \in Threads, NEW r \in Requests,
         ServeAvailable(t, r) \/ JoinDownload(t, r) \/ CreateEntry(t, r) \/ ReplaceEntry(t, r)
  PROVE  LockHasDownloader'
PROOF
  <1>1. ~Downloading(t) /\ \A u \in Threads \ {t} : pc'[u] = pc[u] /\ cur'[u] = cur[u]
    BY DEF ServeAvailable, JoinDownload, CreateEntry, ReplaceEntry, IInv, TypeOK,
           Downloading, DownloadPCs
  <1>2. ASSUME NEW e \in EntryIds, entry'[e] # Null, entry'[e].download_lock # Null
        PROVE  entry[e] # Null /\ entry[e].download_lock = entry'[e].download_lock
    <2>1. CASE ServeAvailable(t, r) \/ JoinDownload(t, r)
      BY <1>2, <2>1 DEF ServeAvailable, JoinDownload
    <2>2. CASE CreateEntry(t, r)
      <3>1. PICK x \in EntryIds, ts \in Clock : entry' = [entry EXCEPT ![x] = NewEntry(r, ts)]
        BY <2>2 DEF CreateEntry
      <3> QED BY <1>2, <3>1 DEF NewEntry, IInv, TypeOK
    <2>3. CASE ReplaceEntry(t, r)
      <3> DEFINE old == entryMap[r.name]
      <3>1. PICK x \in EntryIds, ts \in Clock :
              /\ entry[x] = Null
              /\ entry' = DropUnreferenced(
                            [MarkForDeletion(entry, old) EXCEPT ![x] = NewEntry(r, ts)],
                            entryMap', cur')
        BY <2>3 DEF ReplaceEntry
      <3> DEFINE heap == [MarkForDeletion(entry, old) EXCEPT ![x] = NewEntry(r, ts)]
      <3>2. old \in EntryIds /\ entry[old] # Null
        BY <2>3 DEF ReplaceEntry, IInv, TypeOK, RegistryConsistent, Names
      <3>3. entry'[e] = heap[e]
        BY <1>2, <3>1 DEF DropUnreferenced
      <3>4. heap[x].download_lock = Null
        BY DEF MarkForDeletion, NewEntry, IInv, TypeOK
      <3>5. e # x
        BY <1>2, <3>3, <3>4
      <3>6. /\ e = old => heap[e].download_lock = entry[e].download_lock
            /\ e # old => heap[e] = entry[e]
        BY <3>2, <3>5 DEF MarkForDeletion, IInv, TypeOK, Entry
      <3> HIDE DEF heap
      <3> QED BY <1>2, <3>2, <3>3, <3>6
    <2> QED BY <2>1, <2>2, <2>3
  <1> QED BY <1>1, <1>2, CallLock

LEMMA StepLock ==
  ASSUME IInv, LockHasDownloader, NEW t \in Threads, Step(t)
  PROVE  LockHasDownloader'
PROOF
  <1>1. CASE FindDownloaded(t)
    <2>1. ~Downloading(t) /\ \A u \in Threads \ {t} : pc'[u] = pc[u] /\ cur'[u] = cur[u]
      BY <1>1 DEF FindDownloaded, Return, IInv, TypeOK, Downloading, DownloadPCs
    <2>2. \A e \in EntryIds : entry'[e] # Null => entry'[e] = entry[e]
      BY <1>1 DEF FindDownloaded, Return, DropUnreferenced
    <2> QED BY <2>1, <2>2, CallLock
  <1>2. CASE MarkDownloaded(t)
    <2> DEFINE c == cur[t]
               heap == [entry EXCEPT ![c].is_downloaded = TRUE, ![c].is_available = TRUE,
                                     ![c].download_lock = Null]
    <2>1. \A u \in Threads \ {t} : pc'[u] = pc[u] /\ cur'[u] = cur[u]
      BY <1>2 DEF MarkDownloaded, Return, IInv, TypeOK
    <2>2. \A e \in EntryIds : entry'[e] # Null => entry'[e] = heap[e]
      BY <1>2 DEF MarkDownloaded, Return, DropUnreferenced
    <2>3. c \in EntryIds /\ entry[c] # Null
      BY <1>2 DEF MarkDownloaded, IInv, CallInv, InCall, CallPCs, DownloadPCs
    <2>4. heap[c].download_lock = Null /\ \A e \in EntryIds \ {c} : heap[e] = entry[e]
      BY <2>3 DEF IInv, TypeOK, Entry
    <2> HIDE DEF heap
    <2>5. \A e \in EntryIds : entry'[e] # Null /\ entry'[e].download_lock # Null =>
            e # c /\ entry'[e] = entry[e]
      BY <2>2, <2>4
    <2> QED BY <2>1, <2>5, LockFrame DEF Downloading
  <1>3. CASE BeginDownload(t)
    <2>1. /\ pc[t] = "wait" /\ pc' = [pc EXCEPT ![t] = "open"] /\ cur' = cur
          /\ entry' = [entry EXCEPT ![cur[t]].download_lock = t]
      BY <1>3 DEF BeginDownload
    <2>2. \A u \in Threads : Downloading(u) => Downloading(u)'
      BY <2>1 DEF IInv, TypeOK, Downloading, DownloadPCs
    <2>3. Downloading(t)' /\ \A e \in EntryIds \ {cur[t]} : entry'[e] = entry[e]
      BY <2>1 DEF IInv, TypeOK, Downloading, DownloadPCs
    <2>4. entry'[cur[t]].download_lock = t
      BY <2>1 DEF IInv, TypeOK, Entry, CallInv, InCall, CallPCs
    <2>5. \A e \in EntryIds : entry[e] # Null => entry[e].download_lock \in Threads \cup {Null}
      BY DEF IInv, TypeOK, Entry
    <2>6. ASSUME NEW e \in EntryIds, entry'[e] # Null, entry'[e].download_lock # Null,
                 NEW u, u = entry'[e].download_lock
          PROVE  Downloading(u)' /\ cur'[u] = e
      <3>1. CASE e = cur[t]
        BY <2>1, <2>3, <2>4, <2>6, <3>1
      <3>2. CASE e # cur[t]
        BY <2>1, <2>2, <2>3, <2>5, <2>6, <3>2 DEF LockHasDownloader
      <3> QED BY <3>1, <3>2
    <2> QED BY <2>6 DEF LockHasDownloader, Downloading
  <1>4. CASE ~FindDownloaded(t) /\ ~MarkDownloaded(t) /\ ~BeginDownload(t)
    <2>1. /\ UNCHANGED <<entry, cur>>
          /\ pc' = pc \/ \E q \in DownloadPCs : pc' = [pc EXCEPT ![t] = q]
      BY <1>4 DEF Step, OpenTmp, OpenFails, ReceiveBlock, WriteFails, EndTransfer,
           RenameTmp, RenameFails, CloseStream, DownloadPCs
    <2>2. \A u \in Threads : Downloading(u) => Downloading(u)'
      BY <2>1 DEF IInv, TypeOK, Downloading
    <2> QED BY <2>1, <2>2, LockFrame
  <1> QED BY <1>1, <1>2, <1>3, <1>4

LEMMA NextLock == IInv /\ LockHasDownloader /\ [Next]_vars => LockHasDownloader'
PROOF
  <1> SUFFICES ASSUME IInv, LockHasDownloader, [Next]_vars PROVE LockHasDownloader'
    OBVIOUS
  <1>1. CASE Die
    BY <1>1 DEF Die, NoEntries, LockHasDownloader
  <1>2. CASE UNCHANGED <<entry, pc, cur>>
    BY <1>2 DEF LockHasDownloader, Downloading
  <1>3. Startup \/ CreateDirectoryFails \/ ListDirectoryFails \/ Crash \/ Shutdown => Die \/ UNCHANGED <<entry, pc, cur>>
    BY DEF Startup, ListDirectory, ScanFile, RemoveTmp, RemoveUnparsed, LoadJar, SkipFile,
           DeleteFile, InitDone, Restart, CreateDirectoryFails, ListDirectoryFails, Crash, Shutdown
  <1>4. ASSUME NEW t \in Threads, Forget(t) PROVE LockHasDownloader'
    <2>1. ~Downloading(t) /\ (\A u \in Threads \ {t} : pc'[u] = pc[u]) /\ UNCHANGED <<entry, cur>>
      BY <1>4 DEF Forget, IInv, TypeOK, Downloading, DownloadPCs
    <2> QED BY <2>1, CallLock
  <1>5. UNCHANGED vars => UNCHANGED <<entry, pc, cur>>
    BY DEF vars
  <1> QED BY <1>1, <1>2, <1>3, <1>4, <1>5, EnterLock, StepLock DEF Next, Call

\* No download_lock is ever left behind: with faults, replaced entries and
\* any number of waiting threads, a lock that is taken is being worked under.
THEOREM LocksHeld == Spec => []LockHasDownloader
PROOF
  <1>1. Init => LockHasDownloader
    BY DEF Init, NoEntries, LockHasDownloader
  <1> QED BY <1>1, NextLock, Invariance, PTL DEF Spec

-----------------------------------------------------------------------------
\* What a call has left depends on where it is, and is positive until the end.
LEMMA RemainingFacts ==
  ASSUME TypeOK, NEW t \in Threads
  PROVE  /\ pc[t] = "wait" => Remaining(t) = NBlocks + 6
         /\ pc[t] = "open" => Remaining(t) = NBlocks + 5
         /\ pc[t] = "transfer" => Remaining(t) = NBlocks + 4 - xfer[t].recv
         /\ pc[t] = "rename" => Remaining(t) = 3
         /\ pc[t] = "close" => Remaining(t) = 2
         /\ pc[t] = "mark" => Remaining(t) = 1
         /\ ~InCall(t) => Remaining(t) = 0
         /\ xfer[t].recv \in 0..NBlocks /\ NBlocks \in Nat
         /\ Remaining(t) \in Nat
PROOF
  <1>1. xfer[t].recv \in 0..NBlocks /\ NBlocks \in Nat
    BY BlocksAssumption DEF TypeOK, Transfer
  <1>2. pc[t] \in PCs
    BY DEF TypeOK
  <1> QED BY <1>1, <1>2 DEF Remaining, InCall, PCs, CallPCs, DownloadPCs

\* A call's own step lowers what it has left.
LEMMA OwnStepShortens ==
  ASSUME TypeOK, TypeOK', NEW t \in Threads, Step(t)
  PROVE  Remaining(t)' < Remaining(t)
PROOF
  <1>1. /\ pc'[t] = "wait" => Remaining(t)' = NBlocks + 6
        /\ pc'[t] = "open" => Remaining(t)' = NBlocks + 5
        /\ pc'[t] = "transfer" => Remaining(t)' = NBlocks + 4 - xfer'[t].recv
        /\ pc'[t] = "rename" => Remaining(t)' = 3
        /\ pc'[t] = "close" => Remaining(t)' = 2
        /\ pc'[t] = "mark" => Remaining(t)' = 1
        /\ pc'[t] = "returned" => Remaining(t)' = 0
        /\ xfer'[t].recv \in 0..NBlocks
    <2>1. xfer'[t].recv \in 0..NBlocks /\ NBlocks \in Nat
      BY BlocksAssumption DEF TypeOK, Transfer
    <2> QED BY <2>1 DEF Remaining
  <1>2. \A q : pc' = [pc EXCEPT ![t] = q] => pc'[t] = q
    BY DEF TypeOK
  <1>3. CASE FindDownloaded(t) \/ MarkDownloaded(t)
    <2>1. pc[t] \in {"wait", "mark"} /\ pc' = [pc EXCEPT ![t] = "returned"]
      BY <1>3 DEF FindDownloaded, MarkDownloaded, Return
    <2>2. pc'[t] = "returned"
      BY <2>1 DEF TypeOK
    <2>3. Remaining(t) \in Nat /\ Remaining(t) >= 1
      BY <2>1, RemainingFacts
    <2> QED BY <1>1, <2>2, <2>3
  <1>4. CASE BeginDownload(t) \/ OpenTmp(t) \/ OpenFails(t)
    BY <1>1, <1>2, <1>4, RemainingFacts DEF BeginDownload, OpenTmp, OpenFails
  <1>5. ASSUME NEW quality \in {"good", "bad"}, ReceiveBlock(t, quality)
        PROVE  Remaining(t)' < Remaining(t)
    <2>1. pc[t] = "transfer" /\ pc' = pc
      BY <1>5 DEF ReceiveBlock
    <2>2. xfer'[t].recv = xfer[t].recv + 1
      BY <1>5 DEF ReceiveBlock, TypeOK, Transfer
    <2> QED BY <1>1, <2>1, <2>2, RemainingFacts
  <1>6. CASE WriteFails(t) \/ EndTransfer(t)
    <2>1. pc[t] = "transfer" /\ pc'[t] \in {"rename", "close"}
      BY <1>2, <1>6 DEF WriteFails, EndTransfer
    <2> QED BY <1>1, <2>1, RemainingFacts
  <1>7. CASE RenameTmp(t) \/ RenameFails(t) \/ CloseStream(t)
    BY <1>1, <1>2, <1>7, RemainingFacts DEF RenameTmp, RenameFails, CloseStream
  <1> QED BY <1>3, <1>4, <1>5, <1>6, <1>7 DEF Step

\* Nobody else's step raises it.
LEMMA OtherStepKeeps ==
  ASSUME TypeOK, TypeOK', [Next]_vars, NEW t \in Threads, InCall(t)
  PROVE  Remaining(t)' <= Remaining(t)
PROOF
  <1>1. ASSUME pc'[t] = pc[t], xfer'[t].recv = xfer[t].recv
        PROVE  Remaining(t)' <= Remaining(t)
    <2>1. Remaining(t)' = Remaining(t)
      BY <1>1 DEF Remaining
    <2> QED BY <2>1, RemainingFacts
  <1>2. CASE Die
    <2>1. Remaining(t)' = 0
      BY <1>2 DEF Die, AllIdle, Remaining
    <2> QED BY <2>1, RemainingFacts
  <1>3. CASE UNCHANGED <<pc, xfer>>
    BY <1>1, <1>3
  <1>4. Startup \/ CreateDirectoryFails \/ ListDirectoryFails \/ Crash \/ Shutdown => Die \/ UNCHANGED <<pc, xfer>>
    BY DEF Startup, ListDirectory, ScanFile, RemoveTmp, RemoveUnparsed, LoadJar, SkipFile,
           DeleteFile, InitDone, Restart, CreateDirectoryFails, ListDirectoryFails, Crash, Shutdown
  <1>5. ASSUME NEW u \in Threads, Call(u) \/ Forget(u) PROVE Remaining(t)' <= Remaining(t)
    <2>1. u # t
      BY <1>5 DEF Call, ServeAvailable, JoinDownload, CreateEntry, ReplaceEntry, Forget,
                  InCall, CallPCs, DownloadPCs
    <2>2. xfer' = xfer /\ \E q : pc' = [pc EXCEPT ![u] = q]
      BY <1>5 DEF Call, ServeAvailable, JoinDownload, CreateEntry, ReplaceEntry, Forget
    <2> QED BY <1>1, <2>1, <2>2 DEF TypeOK
  <1>6. ASSUME NEW u \in Threads, u # t, Step(u) PROVE Remaining(t)' <= Remaining(t)
    <2>1. pc'[t] = pc[t]
      BY <1>6 DEF Step, FindDownloaded, MarkDownloaded, Return, BeginDownload, OpenTmp,
           OpenFails, ReceiveBlock, WriteFails, EndTransfer, RenameTmp, RenameFails,
           CloseStream, TypeOK
    <2>2. CASE RenameTmp(u)
      BY <1>1, <2>1, <2>2 DEF RenameTmp, TypeOK, Transfer
    <2>3. CASE ~RenameTmp(u)
      <3>1. xfer'[t] = xfer[t]
        BY <1>6, <2>3 DEF Step, FindDownloaded, MarkDownloaded, BeginDownload, OpenTmp,
             OpenFails, ReceiveBlock, WriteFails, EndTransfer, RenameFails, CloseStream,
             TypeOK
      <3> QED BY <1>1, <2>1, <3>1
    <2> QED BY <2>2, <2>3
  <1>7. CASE Step(t)
    <2>1. Remaining(t)' < Remaining(t) /\ Remaining(t) \in Nat
      BY <1>7, OwnStepShortens, RemainingFacts
    <2>2. Remaining(t)' \in Nat
      <3>1. xfer'[t].recv \in 0..NBlocks /\ NBlocks \in Nat
        BY BlocksAssumption DEF TypeOK, Transfer
      <3> QED BY <3>1 DEF Remaining
    <2> QED BY <2>1, <2>2
  <1>8. UNCHANGED vars => UNCHANGED <<pc, xfer>>
    BY DEF vars
  <1> QED BY <1>2, <1>3, <1>4, <1>5, <1>6, <1>7, <1>8 DEF Next

\* A call of get_driver_location makes at most NBlocks + 6 steps of its own
\* and nothing another thread does adds to them: what remains of CallReturns
\* is that the thread is scheduled and that the lock it waits for is released.
THEOREM CallsShorten == Spec => CallShortens
PROOF
  <1>1. IInv /\ IInv' /\ [Next]_vars =>
          [\A t \in Threads : InCall(t) =>
             /\ Remaining(t)' <= Remaining(t)
             /\ Step(t) => Remaining(t)' < Remaining(t)]_vars
    BY OwnStepShortens, OtherStepKeeps DEF IInv
  <1> QED BY <1>1, Invariance, PTL DEF Spec, CallShortens
=============================================================================
