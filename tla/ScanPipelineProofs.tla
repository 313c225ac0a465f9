------------------------- MODULE ScanPipelineProofs -------------------------
(***************************************************************************)
(* Proofs about ScanPipeline: every connection has a reader, drivers that  *)
(* share a pool with room for all of them do not end the process, and the  *)
(* theorems of JDBCScannerProofs carry over.                               *)
(***************************************************************************)
EXTENDS ScanPipeline, JDBCScannerProofs

(***************************************************************************)
(* How far the driver is tells how far its scanner is, and whether its     *)
(* chunk source counts as opened.                                          *)
(***************************************************************************)
HasSource(d, opened) == chunkSource[d] \in ChunkSource /\ chunkSource[d].opened = opened

StageOK(d) ==
  \/ stage[d] = "ready" /\ pc[d] = "new" /\ chunkSource[d] = None
  \/ stage[d] \in {"open", "locate"} /\ pc[d] = "new" /\ HasSource(d, FALSE)
  \/ stage[d] = "scanner" /\ pc[d] \in {"new", "connect", "execute"} /\ HasSource(d, FALSE)
  \/ stage[d] = "loop" /\ pc[d] \in {"open", "read", "fill"} /\ HasSource(d, TRUE)
  \/ stage[d] = "chunk" /\ pc[d] = "open" /\ HasSource(d, TRUE)
  \/ stage[d] = "dead" /\ pc[d] = "dead"

PipelineTypes ==
  /\ stage \in [Scanners -> Stages]
  /\ descTbl \in [Scanners -> DescTbls]
  /\ chunkSource \in [Scanners -> ChunkSource \cup {None}]

PInv == IInv /\ PipelineTypes /\ \A d \in Scanners : StageOK(d)

-----------------------------------------------------------------------------
\* A driver's step is a step of its scanner, a crash, or none of the
\* scanner's business.
LEMMA StepUsesScanner ==
  ASSUME PInv, [PipelineNext]_pipelineVars
  PROVE  [Next]_vars
<1>1. CASE UNCHANGED pipelineVars
  BY <1>1 DEF pipelineVars
<1>2. ASSUME NEW d \in Scanners, DriverStep(d) PROVE [Next]_vars
  <2>1. CASE Process(d) \/ OpenDataSource(d) \/ CreateScanner(d)
    BY <2>1 DEF Process, OpenDataSource, CreateScanner
  <2>2. CASE NullDescTbl(d) \/ NullTuple(d) \/ NullChunk(d)
    <3>1. stage[d] \in {"open", "locate", "chunk"} /\ Die
      BY <2>2 DEF NullDescTbl, NullTuple, NullChunk
    <3>2. pc[d] # "dead"
      BY <3>1 DEF PInv, StageOK
    <3>3. QED
      BY <3>1, <3>2 DEF Next, Crash
  <2>3. CASE OpenScanner(d)
    BY <2>3 DEF OpenScanner, Next
  <2>4. CASE ReadChunk(d)
    BY <2>4 DEF ReadChunk, Next, GetNext
  <2>5. QED
    BY <1>2, <2>1, <2>2, <2>3, <2>4 DEF DriverStep, RunStep
<1>3. QED
  BY <1>1, <1>2 DEF PipelineNext

\* What a driver's step leaves alone keeps its relation of stage and scanner.
LEMMA StageFrame ==
  ASSUME NEW d \in Scanners, StageOK(d), stage'[d] = stage[d], pc'[d] = pc[d],
         chunkSource'[d] = chunkSource[d]
  PROVE  StageOK(d)'
BY DEF StageOK, HasSource

\* The death of the process is the death of every driver.
LEMMA KilledStages ==
  ASSUME PipelineTypes, Die, Killed
  PROVE  PipelineTypes' /\ \A d \in Scanners : StageOK(d)'
<1>1. stage' \in [Scanners -> Stages]
  BY DEF Killed, Stages
<1>2. \A d \in Scanners : stage'[d] = "dead" /\ pc'[d] = "dead"
  BY DEF Killed, Die
<1>3. QED
  BY <1>1, <1>2 DEF Killed, PipelineTypes, StageOK

\* The record of a source changes in one member.
LEMMA SourceUpdate ==
  ASSUME PipelineTypes, NEW d \in Scanners, NEW c \in ChunkSource,
         chunkSource' = [chunkSource EXCEPT ![d] = c]
  PROVE  /\ chunkSource' \in [Scanners -> ChunkSource \cup {None}]
         /\ chunkSource'[d] = c
         /\ \A u \in Scanners \ {d} : chunkSource'[u] = chunkSource[u]
BY DEF PipelineTypes

\* A member set to a value of its type leaves a chunk source.
LEMMA SetOpened ==
  ASSUME NEW c \in ChunkSource
  PROVE  /\ [c EXCEPT !.opened = TRUE] \in ChunkSource
         /\ [c EXCEPT !.opened = TRUE].opened = TRUE
BY DEF ChunkSource

LEMMA SetReadStatus ==
  ASSUME NEW c \in ChunkSource, NEW v \in {"OK", "Error"}
  PROVE  /\ [c EXCEPT !.readStatus = v] \in ChunkSource
         /\ [c EXCEPT !.readStatus = v].opened = c.opened
BY DEF ChunkSource

\* A step that leaves the scanners alone, moves driver d and may change its
\* chunk source.
LEMMA DriverMoves ==
  ASSUME PInv, NEW d \in Scanners, NEW to \in Stages, Goto(d, to), UNCHANGED descTbl,
         chunkSource' \in [Scanners -> ChunkSource \cup {None}],
         \A u \in Scanners \ {d} : chunkSource'[u] = chunkSource[u] /\ pc'[u] = pc[u],
         StageOK(d)'
  PROVE  PipelineTypes' /\ \A u \in Scanners : StageOK(u)'
<1>1. stage' = [stage EXCEPT ![d] = to] /\ stage \in [Scanners -> Stages]
  BY DEF Goto, PInv, PipelineTypes
<1>2. PipelineTypes'
  BY <1>1 DEF PInv, PipelineTypes
<1>3. \A u \in Scanners \ {d} : StageOK(u)'
  BY <1>1, StageFrame DEF PInv
<1>4. QED
  BY <1>2, <1>3

\* Where the steps of open() and get_next() leave the scanner, unless they
\* end the process; other scanners do not move.
LEMMA ScannerMoves ==
  ASSUME IInv, NEW d \in Scanners
  PROVE  /\ GetSource(d) => pc[d] = "new" /\ pc' = [pc EXCEPT ![d] = "connect"]
         /\ GetConnection(d) => pc[d] = "connect" /\ pc' = [pc EXCEPT ![d] = "execute"]
         /\ Execute(d) => pc[d] = "execute" /\ pc' = [pc EXCEPT ![d] = "open"]
         /\ HasNext(d) => pc[d] = "open" /\ pc' \in {pc, [pc EXCEPT ![d] = "read"]}
         /\ HasNextThrows(d) => pc[d] = "open" /\ pc' = pc
         /\ ReadRow(d) => /\ pc[d] = "read"
                          /\ pc' \in {[pc EXCEPT ![d] = "read"], [pc EXCEPT ![d] = "fill"]}
         /\ FillChunk(d) => pc[d] = "fill" /\ pc' = [pc EXCEPT ![d] = "open"]
         /\ Die => pc'[d] = "dead"
         /\ pc \in [Scanners -> PCs]
BY DEF GetSource, GetConnection, Execute, HasNext, HasNextThrows, ReadRow, FillChunk,
       Die, IInv, TypeOK

-----------------------------------------------------------------------------
\* The steps before there is a scanner, one case for each.
LEMMA OpenStages ==
  ASSUME PInv, NEW d \in Scanners,
         \/ Process(d) \/ OpenDataSource(d) \/ CreateScanner(d)
  PROVE  PipelineTypes' /\ \A u \in Scanners : StageOK(u)'
<1> USE DEF PInv
<1>0. pc' = pc /\ UNCHANGED descTbl
  BY DEF Process, OpenDataSource, CreateScanner, vars
<1>1. CASE Process(d)
  <2>1. /\ Goto(d, "open") /\ stage[d] = "ready"
        /\ chunkSource' = [chunkSource EXCEPT ![d] = NewChunkSource]
    BY <1>1 DEF Process, PickupMorsel, BeginBatch
  <2>2. NewChunkSource \in ChunkSource /\ NewChunkSource.opened = FALSE
    BY DEF NewChunkSource, ChunkSource
  <2>3. stage'[d] = "open" /\ pc[d] = "new"
    BY <2>1 DEF Goto, PipelineTypes, StageOK
  <2>4. chunkSource'[d] = NewChunkSource
    BY <2>1, <2>2, SourceUpdate
  <2>5. StageOK(d)'
    BY <1>0, <2>2, <2>3, <2>4 DEF StageOK, HasSource
  <2>6. QED
    BY <1>0, <2>1, <2>2, <2>5, SourceUpdate, DriverMoves DEF Stages
<1>2. CASE OpenDataSource(d)
  <2>1. Goto(d, "locate") /\ stage[d] = "open" /\ chunkSource' = chunkSource
    BY <1>2 DEF OpenDataSource
  <2>2. stage'[d] = "locate" /\ pc[d] = "new" /\ HasSource(d, FALSE)
    BY <2>1 DEF Goto, PipelineTypes, StageOK
  <2>3. StageOK(d)'
    BY <1>0, <2>1, <2>2 DEF StageOK, HasSource
  <2>4. QED
    BY <1>0, <2>1, <2>3, DriverMoves DEF Stages, PipelineTypes
<1>3. CASE CreateScanner(d)
  <2>1. Goto(d, "scanner") /\ stage[d] = "locate" /\ chunkSource' = chunkSource
    BY <1>3 DEF CreateScanner
  <2>2. stage'[d] = "scanner" /\ pc[d] = "new" /\ HasSource(d, FALSE)
    BY <2>1 DEF Goto, PipelineTypes, StageOK
  <2>3. StageOK(d)'
    BY <1>0, <2>1, <2>2 DEF StageOK, HasSource
  <2>4. QED
    BY <1>0, <2>1, <2>3, DriverMoves DEF Stages, PipelineTypes
<1>4. QED
  BY <1>1, <1>2, <1>3

\* A step of the scanner's open().
LEMMA OpenScannerStages ==
  ASSUME PInv, NEW d \in Scanners, OpenScanner(d)
  PROVE  PipelineTypes' /\ \A u \in Scanners : StageOK(u)'
<1> USE DEF PInv
<1>1. stage[d] = "scanner" /\ Open(d) /\ chunkSource[d] \in ChunkSource
      /\ chunkSource[d].opened = FALSE
  BY DEF OpenScanner, StageOK, HasSource
<1>2. CASE Die
  <2>1. pc'[d] = "dead"
    BY <1>2, ScannerMoves
  <2>2. Killed
    BY <2>1 DEF OpenScanner
  <2>3. QED
    BY <1>2, <2>2, KilledStages
<1>3. CASE GetSource(d) \/ GetConnection(d)
  <2>1. /\ pc'[d] \in {"connect", "execute"}
        /\ \A u \in Scanners \ {d} : pc'[u] = pc[u]
    BY <1>3, ScannerMoves
  <2>2. UNCHANGED pipeline
    BY <2>1 DEF OpenScanner
  <2>3. stage' = stage /\ chunkSource' = chunkSource /\ descTbl' = descTbl
    BY <2>2 DEF pipeline
  <2>4. StageOK(d)'
    BY <1>1, <2>1, <2>3 DEF StageOK, HasSource
  <2>5. \A u \in Scanners \ {d} : StageOK(u)'
    BY <2>1, <2>3, StageFrame
  <2>6. QED
    BY <2>3, <2>4, <2>5 DEF PipelineTypes
<1>4. CASE Execute(d)
  <2> DEFINE c == [chunkSource[d] EXCEPT !.opened = TRUE]
  <2>1. pc'[d] = "open" /\ \A u \in Scanners \ {d} : pc'[u] = pc[u]
    BY <1>4, ScannerMoves
  <2>2. /\ Goto(d, "loop") /\ UNCHANGED descTbl
        /\ chunkSource' = [chunkSource EXCEPT ![d] = c]
    BY <2>1 DEF OpenScanner
  <2>3. c \in ChunkSource /\ c.opened = TRUE
    BY <1>1, SetOpened
  <2> HIDE DEF c
  <2>4. chunkSource'[d] = c /\ stage'[d] = "loop"
    BY <2>2, <2>3, SourceUpdate DEF Goto, PipelineTypes
  <2>5. StageOK(d)'
    BY <2>1, <2>3, <2>4 DEF StageOK, HasSource
  <2>6. QED
    BY <2>1, <2>2, <2>3, <2>5, SourceUpdate, DriverMoves DEF Stages
<1>5. QED
  BY <1>1, <1>2, <1>3, <1>4 DEF Open, SourceFails, ConnectTimesOut, ExecuteFails

\* A step of the scanner's get_next().
LEMMA ReadChunkStages ==
  ASSUME PInv, NEW d \in Scanners, ReadChunk(d)
  PROVE  PipelineTypes' /\ \A u \in Scanners : StageOK(u)'
<1> USE DEF PInv
<1>1. stage[d] = "loop" /\ chunkSource[d] \in ChunkSource /\ chunkSource[d].opened = TRUE
  BY DEF ReadChunk, StageOK, HasSource
<1>2. CASE /\ HasNext(d) \/ HasNextThrows(d)
           /\ chunkSource' = [chunkSource EXCEPT ![d].readStatus =
                IF eos'[d] THEN GetNextStatus ELSE @]
           /\ UNCHANGED <<stage, descTbl>>
  <2> DEFINE v == IF eos'[d] THEN GetNextStatus ELSE chunkSource[d].readStatus
             c == [chunkSource[d] EXCEPT !.readStatus = v]
  <2>1. pc'[d] \in {"open", "read"} /\ \A u \in Scanners \ {d} : pc'[u] = pc[u]
    BY <1>2, ScannerMoves
  <2>2. v \in {"OK", "Error"}
    BY <1>1 DEF GetNextStatus, ChunkSource
  <2>3. chunkSource' = [chunkSource EXCEPT ![d] = c]
    BY <1>2
  <2> HIDE DEF v
  <2>4. c \in ChunkSource /\ c.opened = TRUE
    BY <1>1, <2>2, SetReadStatus
  <2> HIDE DEF c
  <2>5. /\ chunkSource' \in [Scanners -> ChunkSource \cup {None}]
        /\ chunkSource'[d] = c
        /\ \A u \in Scanners \ {d} : chunkSource'[u] = chunkSource[u]
    BY <2>3, <2>4, SourceUpdate
  <2>6. StageOK(d)'
    BY <1>1, <1>2, <2>1, <2>4, <2>5 DEF StageOK, HasSource
  <2>7. \A u \in Scanners \ {d} : StageOK(u)'
    BY <1>2, <2>1, <2>5, StageFrame
  <2>8. QED
    BY <1>2, <2>5, <2>6, <2>7 DEF PipelineTypes
<1>3. CASE ReadRow(d) /\ UNCHANGED pipeline
  <2>1. pc'[d] \in {"read", "fill"} /\ \A u \in Scanners \ {d} : pc'[u] = pc[u]
    BY <1>3, ScannerMoves
  <2>2. stage' = stage /\ chunkSource' = chunkSource /\ descTbl' = descTbl
    BY <1>3 DEF pipeline
  <2>3. StageOK(d)'
    BY <1>1, <2>1, <2>2 DEF StageOK, HasSource
  <2>4. \A u \in Scanners \ {d} : StageOK(u)'
    BY <2>1, <2>2, StageFrame
  <2>5. QED
    BY <2>2, <2>3, <2>4 DEF PipelineTypes
<1>4. CASE ReadThrows(d) /\ Killed
  BY <1>4, KilledStages DEF ReadThrows
<1>5. CASE FillChunk(d) /\ Goto(d, "chunk") /\ UNCHANGED <<descTbl, chunkSource>>
  <2>1. pc'[d] = "open" /\ \A u \in Scanners \ {d} : pc'[u] = pc[u]
    BY <1>5, ScannerMoves
  <2>2. stage'[d] = "chunk"
    BY <1>5 DEF Goto, PipelineTypes
  <2>3. StageOK(d)'
    BY <1>1, <1>5, <2>1, <2>2 DEF StageOK, HasSource
  <2>4. QED
    BY <1>5, <2>1, <2>3, DriverMoves DEF Stages, PipelineTypes
<1>6. QED
  BY <1>2, <1>3, <1>4, <1>5 DEF ReadChunk

\* Every step of a driver keeps the invariant; what it does to the scanners
\* is a step of theirs, and StepInv has been through those.
LEMMA StepPInv ==
  ASSUME PInv, [PipelineNext]_pipelineVars
  PROVE  PInv'
<1>1. IInv'
  BY StepUsesScanner, StepInv DEF PInv
<1>2. CASE UNCHANGED pipelineVars
  <2>1. stage' = stage /\ chunkSource' = chunkSource /\ descTbl' = descTbl /\ pc' = pc
    BY <1>2 DEF pipelineVars, pipeline, vars
  <2>2. \A u \in Scanners : StageOK(u)'
    BY <2>1, StageFrame DEF PInv
  <2>3. QED
    BY <1>1, <2>1, <2>2 DEF PInv, PipelineTypes
<1>3. ASSUME NEW d \in Scanners, DriverStep(d)
      PROVE  PipelineTypes' /\ \A u \in Scanners : StageOK(u)'
  <2>1. CASE Process(d) \/ OpenDataSource(d) \/ CreateScanner(d)
    BY <2>1, OpenStages
  <2>2. CASE NullDescTbl(d) \/ NullTuple(d) \/ NullChunk(d)
    <3>1. Die /\ Killed
      BY <2>2 DEF NullDescTbl, NullTuple, NullChunk
    <3>2. QED
      BY <3>1, KilledStages DEF PInv
  <2>3. CASE OpenScanner(d)
    BY <2>3, OpenScannerStages
  <2>4. CASE ReadChunk(d)
    BY <2>4, ReadChunkStages
  <2>5. QED
    BY <1>3, <2>1, <2>2, <2>3, <2>4 DEF DriverStep, RunStep
<1>4. QED
  BY <1>1, <1>2, <1>3 DEF PipelineNext, PInv

LEMMA InitPInv ==
  ASSUME PipelineInit
  PROVE  PInv
<1>1. IInv /\ pc = [s \in Scanners |-> "new"]
  BY InitInv DEF PipelineInit, Init
<1>2. PipelineTypes /\ \A d \in Scanners : stage[d] = "ready" /\ chunkSource[d] = None
  BY DEF PipelineInit, PipelineTypes, Stages
<1>3. QED
  BY <1>1, <1>2 DEF PInv, StageOK

-----------------------------------------------------------------------------
\* The inductive invariant of the pipeline.
THEOREM PipelineInvariance == PipelineSpec => []PInv
<1>1. PipelineInit => PInv
  BY InitPInv
<1>2. PInv /\ [PipelineNext]_pipelineVars => PInv'
  BY StepPInv
<1>3. QED
  BY <1>1, <1>2, PTL DEF PipelineSpec

\* By its definition the pipeline moves its scanners with the actions of
\* JDBCScanner only, and a death of the process is a crash to them.
LEMMA PipelineUsesScanner == PipelineSpec => Spec
<1>1. PipelineInit => Init
  BY DEF PipelineInit
<1>2. PInv /\ [PipelineNext]_pipelineVars => [Next]_vars
  BY StepUsesScanner
<1>3. QED
  BY <1>1, <1>2, PipelineInvariance, PTL DEF PipelineSpec, Spec

\* Every variable of the pipeline and of its scanners keeps its type.
THEOREM PipelineTypeCorrect == PipelineSpec => []PipelineTypeOK
<1>1. PInv => PipelineTypeOK
  BY DEF PInv, IInv, PipelineTypes, PipelineTypeOK
<1>2. QED
  BY <1>1, PipelineInvariance, PTL

\* Every connection that is out belongs to a driver that is opening its
\* scanner or has an open source to read with.
THEOREM ConnectionsHaveReaders == PipelineSpec => []ConnectionHasReader
<1>1. PInv => ConnectionHasReader
  <2>1. SUFFICES ASSUME PInv, NEW p \in Pools, NEW d \in used[p]
                 PROVE  /\ chunkSource[d] # None
                        /\ chunkSource[d].opened <=> pc[d] # "execute"
                        /\ stage[d] \in {"scanner", "loop", "chunk"}
    BY DEF ConnectionHasReader
  <2>2. d \in Scanners
    BY <2>1 DEF PInv, IInv, TypeOK
  <2>3. pc[d] \in ConnectedPCs
    BY <2>1, <2>2 DEF PInv, IInv, ConnectionsAccounted
  <2>4. StageOK(d)
    BY <2>1, <2>2 DEF PInv
  <2>5. \/ stage[d] = "scanner" /\ pc[d] = "execute" /\ HasSource(d, FALSE)
        \/ stage[d] \in {"loop", "chunk"} /\ pc[d] # "execute" /\ HasSource(d, TRUE)
    BY <2>3, <2>4 DEF StageOK, ConnectedPCs
  <2>6. QED
    BY <2>5, NoneSourceAssumption DEF HasSource
<1>2. QED
  BY <1>1, PipelineInvariance, PTL

\* With PipelineUsesScanner the scanner's limit on connections is the
\* pipeline's: however many drivers run, no more than connection_pool_size
\* connections are out for one user and url.
COROLLARY PipelinePoolLimit == PipelineSpec => []PoolLimit
<1>1. QED
  BY PipelineUsesScanner, PoolLimitHolds, PTL

\* A driver's scan comes closer to its end with every step of get_next,
\* whatever the drivers around it do.
COROLLARY PipelineScansShorten == PipelineSpec => ScanShortens
<1>1. QED
  BY PipelineUsesScanner, ScansShorten, PTL

-----------------------------------------------------------------------------
(***************************************************************************)
(* Quiet drivers survive.  A chunk is only ever fetched from a result that *)
(* has rows, and a scanner that still waits for a connection is one of the *)
(* drivers that were started and has none.                                 *)
(***************************************************************************)
ChunkInv == \A d \in Scanners : stage[d] = "chunk" => Rows[d] > 0

\* The rows' invariant of JDBCScannerProofs holds in the pipeline.
LEMMA PipelineRowsInv == PipelineSpec => []RInv
<1>1. Init => RInv
  BY InitInv DEF RInv, Init, RowsOK, StartOK
<1>2. RInv /\ [Next]_vars => RInv'
  BY RowsStep
<1>3. QED
  BY <1>1, <1>2, PipelineUsesScanner, PTL DEF Spec

\* A scanner inside getNextChunk() has rows to fetch.
LEMMA ReadingHasRows ==
  ASSUME RInv, NEW d \in Scanners, pc[d] \in {"read", "fill"}
  PROVE  Rows[d] > 0
<1>1. /\ Rows[d] \in Nat /\ cursor[d] \in Nat /\ num[d] \in 0..ChunkSize
      /\ Len(fetched[d]) \in Nat
  BY ScannerTypes DEF RInv, IInv
<1>2. ReadOK(d) \/ FillOK(d)
  BY DEF RInv, RowsOK
<1>3. QED
  BY <1>1, <1>2, ChunkSizeAssumption DEF ReadOK, FillOK

LEMMA ChunkStep ==
  ASSUME PInv, RInv, ChunkInv, [PipelineNext]_pipelineVars
  PROVE  ChunkInv'
<1>1. SUFFICES ASSUME NEW u \in Scanners, stage'[u] = "chunk", stage[u] # "chunk"
               PROVE  Rows[u] > 0
  BY DEF ChunkInv
<1>2. stage \in [Scanners -> Stages] /\ PipelineNext
  BY <1>1 DEF PInv, PipelineTypes, pipelineVars, pipeline
<1>3. PICK d \in Scanners : DriverStep(d)
  BY <1>2 DEF PipelineNext
<1>4. ReadChunk(d) /\ FillChunk(d) /\ Goto(d, "chunk")
  BY <1>1, <1>2, <1>3 DEF DriverStep, RunStep, Process, PickupMorsel, BeginBatch, OpenDataSource,
     NullDescTbl, CreateScanner, NullTuple, OpenScanner, ReadChunk, NullChunk, Killed, Goto, pipeline
<1>5. u = d /\ pc[d] = "fill"
  BY <1>1, <1>2, <1>4 DEF Goto, FillChunk
<1>6. QED
  BY <1>5, ReadingHasRows

\* Of the drivers that were started, the one that waits has no connection:
\* with no more of them than connections the pool has one left.
LEMMA QuietPoolHasRoom ==
  ASSUME PInv, Quiet, NEW d \in Scanners, pc[d] = "connect"
  PROVE  Cardinality(used[dataSource[d]]) < PoolSize
<1> DEFINE U == used[dataSource[d]]
<1>1. dataSource[d] \in Pools /\ U \subseteq Scanners /\ d \notin U
  BY DEF PInv, IInv, SourceInv, TypeOK, ConnectionsAccounted, ConnectedPCs
<1>2. \A u \in Scanners : u \in U => pc[u] \in ConnectedPCs
  BY <1>1 DEF PInv, IInv, ConnectionsAccounted
<1>3. \A u \in Scanners : pc[u] \in {"connect"} \cup ConnectedPCs => u \in Started
  BY NoneSourceAssumption DEF PInv, StageOK, HasSource, Started, ConnectedPCs
<1>4. U \cup {d} \subseteq Started
  BY <1>1, <1>2, <1>3
<1>5. IsFiniteSet(Started) /\ IsFiniteSet(U)
  BY <1>1, FiniteAssumption, FS_Subset DEF Started
<1>6. Cardinality(U \cup {d}) = Cardinality(U) + 1
  BY <1>1, <1>5, FS_AddElement
<1>7. Cardinality(U \cup {d}) <= Cardinality(Started)
  BY <1>4, <1>5, FS_Subset
<1>8. Cardinality(U) \in Nat /\ Cardinality(Started) \in Nat
  BY <1>5, FS_CardinalityType
<1>9. QED
  BY <1>6, <1>7, <1>8, PoolSizeAssumption DEF Quiet

(***************************************************************************)
(* The only step that ends a process with quiet drivers is a failure from  *)
(* outside, for every number of drivers and connections.                   *)
(***************************************************************************)
THEOREM QuietSurvive == PipelineSpec => QuietDriversSurvive
<1>1. PInv /\ RInv /\ ChunkInv /\ [PipelineNext]_pipelineVars
        => [Quiet /\ ~Disturbed =>
              \A d \in Scanners : stage[d] # "dead" => stage'[d] # "dead"]_pipelineVars
  <2>1. SUFFICES ASSUME PInv, RInv, ChunkInv, PipelineNext, Quiet, ~Disturbed,
                        NEW u \in Scanners, stage[u] # "dead", stage'[u] = "dead"
                 PROVE  FALSE
    OBVIOUS
  <2>2. PICK d \in Scanners : DriverStep(d)
    BY <2>1 DEF PipelineNext
  <2>3. stage \in [Scanners -> Stages]
    BY <2>1 DEF PInv, PipelineTypes
  <2>4. stage[d] \in {"open", "locate"} => d \in Started
    BY <2>1, NoneSourceAssumption DEF PInv, StageOK, HasSource, Started
  <2>5. CASE NullDescTbl(d) \/ NullTuple(d)
    BY <2>1, <2>4, <2>5 DEF NullDescTbl, NullTuple, Quiet
  <2>6. CASE NullChunk(d)
    <3>1. stage[d] = "chunk" /\ Rows[d] > 0
      BY <2>1, <2>6 DEF NullChunk, ChunkInv
    <3>2. d \in Started
      BY <2>1, <3>1, NoneSourceAssumption DEF PInv, StageOK, HasSource, Started
    <3>3. QED
      BY <2>1, <3>1, <3>2 DEF Quiet
  <2>7. CASE OpenScanner(d)
    <3>1. pc'[d] = "dead" /\ Open(d)
      BY <2>1, <2>3, <2>7 DEF OpenScanner, Goto, pipeline
    <3>2. pc \in [Scanners -> PCs]
      BY <2>1 DEF PInv, IInv, TypeOK
    <3>3. ConnectTimesOut(d)
      BY <2>1, <3>1, <3>2 DEF Open, GetSource, GetConnection, Execute, Disturbed
    <3>4. Cardinality(used[dataSource[d]]) < PoolSize
      BY <2>1, <3>3, QuietPoolHasRoom DEF ConnectTimesOut
    <3>5. QED
      BY <2>1, <3>3, <3>4 DEF Disturbed
  <2>8. CASE ReadChunk(d)
    <3>1. ReadThrows(d) /\ stage[d] = "loop"
      BY <2>1, <2>3, <2>8 DEF ReadChunk, Goto, pipeline
    <3>2. Rows[d] > 0
      BY <2>1, <3>1, ReadingHasRows DEF ReadThrows
    <3>3. d \in Started
      BY <2>1, <3>1, NoneSourceAssumption DEF PInv, StageOK, HasSource, Started
    <3>4. QED
      BY <2>1, <3>2, <3>3 DEF Quiet
  <2>9. CASE Process(d) \/ OpenDataSource(d) \/ CreateScanner(d)
    BY <2>1, <2>3, <2>9 DEF Process, PickupMorsel, BeginBatch, OpenDataSource, CreateScanner, Goto
  <2>10. QED
    BY <2>2, <2>5, <2>6, <2>7, <2>8, <2>9 DEF DriverStep, RunStep
<1>2. PipelineInit => ChunkInv
  BY DEF PipelineInit, ChunkInv
<1>3. PInv /\ RInv /\ ChunkInv /\ [PipelineNext]_pipelineVars => ChunkInv'
  BY ChunkStep
<1>4. QED
  BY <1>1, <1>2, <1>3, PipelineInvariance, PipelineRowsInv, PTL
     DEF PipelineSpec, QuietDriversSurvive
=============================================================================
