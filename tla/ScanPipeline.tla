---------------------------- MODULE ScanPipeline ----------------------------
(***************************************************************************)
(* Pipeline drivers on top of the JDBC scanner: what runs when main()      *)
(* calls MockPipelineDriver::process.                                      *)
(*                                                                         *)
(*   process -> ScanOperator::pull_chunk -> _pickup_morsel                 *)
(*     -> ChunkSource::buffer_next_batch_chunks_blocking                   *)
(*     -> ConnectorChunkSource::_read_chunk                                *)
(*     -> JDBCDataSource::open, then get_next again and again              *)
(*     -> JDBCScanner::open, get_next                                      *)
(*                                                                         *)
(* A driver has one scan operator, that one chunk source, that one data    *)
(* source, and that one scanner: a driver is named by its scanner.  The    *)
(* drivers share the data source cache and the connections of JDBCScanner. *)
(*                                                                         *)
(* open() and get_next() of the data source return OK whatever happens, so *)
(* the loop of _read_chunk is never left except by the death of the        *)
(* process.  What would follow it (the other turns of the batch, the       *)
(* return through pull_chunk and process) is code no run gets to.  So is   *)
(* the error path of _create_scanner: get_driver_location returns OK on    *)
(* every path, a failed download included.                                 *)
(***************************************************************************)
EXTENDS JDBCScanner

CONSTANT
  DescTbls         \* what RuntimeState::_desc_tbl may be, see PipelineInit

ASSUME DescTblsAssumption == DescTbls \subseteq {"null", "empty", "filled"}

VARIABLES
  stage,           \* where each driver is
  descTbl,         \* its RuntimeState's descriptor table
  chunkSource      \* its ScanOperator::_chunk_source

pipeline == <<stage, descTbl, chunkSource>>
pipelineVars == <<vars, pipeline>>

\* ChunkSource::_status and ConnectorChunkSource::_status are two members:
\* the second hides the first inside _read_chunk.
ChunkSource == [status : {"OK", "Error"}, readStatus : {"OK", "Error"}, opened : BOOLEAN]

ASSUME NoneSourceAssumption == None \notin ChunkSource

Stages == {"ready", "open", "locate", "scanner", "loop", "chunk", "dead"}

\* main() gives process() a RuntimeState without a descriptor table ("null").
\* One set with set_desc_tbl has the tuple the data source asks for or not.
PipelineInit ==
  /\ Init
  /\ stage = [d \in Scanners |-> "ready"]
  /\ descTbl \in [Scanners -> DescTbls]
  /\ chunkSource = [d \in Scanners |-> None]

\* The process ends with all its drivers.
Killed == stage' = [d \in Scanners |-> "dead"] /\ UNCHANGED <<descTbl, chunkSource>>

Goto(d, to) == stage' = [stage EXCEPT ![d] = to]

-----------------------------------------------------------------------------
\* ConnectorScanOperator::create_chunk_source.
NewChunkSource == [status |-> "OK", readStatus |-> "OK", opened |-> FALSE]

\* buffer_next_batch_chunks_blocking finds the source OK and calls _read_chunk
\* for its first turn, which has to open the data source.
BeginBatch(d) == Goto(d, "open")

\* pull_chunk: there is no chunk source yet, so _pickup_morsel makes one,
\* prepare() returns OK, and _trigger_next_scan begins a batch.
PickupMorsel(d) ==
  /\ chunkSource[d] = None
  /\ chunkSource' = [chunkSource EXCEPT ![d] = NewChunkSource]
  /\ BeginBatch(d)

\* MockPipelineDriver::process, called once, pulls a chunk.
Process(d) ==
  /\ stage[d] = "ready"
  /\ PickupMorsel(d)
  /\ UNCHANGED <<vars, descTbl>>

\* JDBCDataSource::open looks its tuple up in *_desc_tbl.
OpenDataSource(d) ==
  /\ stage[d] = "open" /\ descTbl[d] # "null"
  /\ Goto(d, "locate")
  /\ UNCHANGED <<vars, descTbl, chunkSource>>

NullDescTbl(d) ==
  /\ stage[d] = "open" /\ descTbl[d] = "null"
  /\ Die /\ Killed

\* _create_scanner is given a location, makes a scanner for the tuple's
\* slots ...
CreateScanner(d) ==
  /\ stage[d] = "locate" /\ descTbl[d] = "filled"
  /\ Goto(d, "scanner")
  /\ UNCHANGED <<vars, descTbl, chunkSource>>

\* ... and the constructor reads them through a null pointer if
\* get_tuple_descriptor did not find the tuple.
NullTuple(d) ==
  /\ stage[d] = "locate" /\ descTbl[d] = "empty"
  /\ Die /\ Killed

\* Mutant: the source counts as opened as soon as there is a connection.
OpenScannerEarly(d) ==
  /\ stage[d] = "scanner"
  /\ Open(d)
  /\ \/ pc'[d] = "dead" /\ Killed
     \/ /\ pc'[d] \in {"execute", "open"}
        /\ stage' = [stage EXCEPT ![d] = IF pc'[d] = "open" THEN "loop" ELSE @]
        /\ chunkSource' = [chunkSource EXCEPT ![d].opened = TRUE]
        /\ UNCHANGED descTbl
     \/ pc'[d] \notin {"dead", "execute", "open"} /\ UNCHANGED pipeline

\* A step of the scanner's open(); after the last one the source is opened.
OpenScanner(d) ==
  /\ stage[d] = "scanner"
  /\ Open(d)
  /\ \/ pc'[d] = "dead" /\ Killed
     \/ /\ pc'[d] = "open"
        /\ Goto(d, "loop")
        /\ chunkSource' = [chunkSource EXCEPT ![d].opened = TRUE]
        /\ UNCHANGED descTbl
     \/ pc'[d] \notin {"dead", "open"} /\ UNCHANGED pipeline

-----------------------------------------------------------------------------
\* What JDBCDataSource::get_next returns, at the end of the result too ("todo
\* return end of file").
GetNextStatus == "OK"

\* A step of _scanner->get_next inside the loop of _read_chunk.  If it ends
\* with *eos the data source's get_next returns, and the loop goes on as long
\* as readStatus is OK.
ReadChunk(d) ==
  /\ stage[d] = "loop" /\ chunkSource[d].readStatus = "OK"
  /\ \/ /\ HasNext(d) \/ HasNextThrows(d)
        /\ chunkSource' = [chunkSource EXCEPT ![d].readStatus =
             IF eos'[d] THEN GetNextStatus ELSE @]
        /\ UNCHANGED <<stage, descTbl>>
     \/ ReadRow(d) /\ UNCHANGED pipeline
     \/ ReadThrows(d) /\ Killed
     \/ FillChunk(d) /\ Goto(d, "chunk") /\ UNCHANGED <<descTbl, chunkSource>>

\* get_next without *eos: (*chunk)->num_rows() on the chunk that _file_chunk
\* has just reset.
NullChunk(d) ==
  /\ stage[d] = "chunk"
  /\ Die /\ Killed

-----------------------------------------------------------------------------
\* The thread of a driver that runs.
RunStep(d) ==
  \/ OpenDataSource(d) \/ NullDescTbl(d)
  \/ CreateScanner(d) \/ NullTuple(d) \/ OpenScanner(d)
  \/ ReadChunk(d) \/ NullChunk(d)

DriverStep(d) == Process(d) \/ RunStep(d)

PipelineNext == \E d \in Scanners : DriverStep(d)

PipelineSpec == PipelineInit /\ [][PipelineNext]_pipelineVars

\* The operating system schedules the thread of every driver that runs;
\* nothing obliges a driver to be started.
FairPipelineSpec == PipelineSpec /\ \A d \in Scanners : WF_pipelineVars(RunStep(d))

-----------------------------------------------------------------------------
PipelineTypeOK ==
  /\ TypeOK
  /\ stage \in [Scanners -> Stages]
  /\ descTbl \in [Scanners -> DescTbls]
  /\ chunkSource \in [Scanners -> ChunkSource \cup {None}]

(***************************************************************************)
(* Every connection belongs to a driver that can still use it: the one     *)
(* whose scanner is being opened, or whose chunk source is open and has    *)
(* that scanner.  A driver that has not begun to open holds none.          *)
(***************************************************************************)
ConnectionHasReader ==
  \A p \in Pools : \A d \in used[p] :
    /\ chunkSource[d] # None
    /\ chunkSource[d].opened <=> pc[d] # "execute"
    /\ stage[d] \in {"scanner", "loop", "chunk"}

\* A failure outside the process; a full pool is none.
Disturbed ==
  \E d \in Scanners :
    \/ SourceFails(d) \/ ExecuteFails(d)
    \/ ConnectTimesOut(d) /\ Cardinality(used[dataSource[d]]) < PoolSize

\* The drivers whose process() has been called, in the life of the process.
Started == { d \in Scanners : chunkSource[d] # None }

\* They are no more than a pool has connections, and each has its tuple and
\* an empty result: all that the pipeline can cope with, since no row
\* survives get_next and no connection is given back.
Quiet ==
  /\ \A d \in Started : descTbl[d] = "filled" /\ Rows[d] = 0
  /\ Cardinality(Started) <= PoolSize

(***************************************************************************)
(* Quiet drivers do not end the process: each of them finds a connection   *)
(* in the pool although nobody gives one back, and whatever the others do  *)
(* it never comes to a null pointer.  Only a failure outside can kill it.  *)
(***************************************************************************)
QuietDriversSurvive ==
  [][Quiet /\ ~Disturbed =>
       \A d \in Scanners : stage[d] # "dead" => stage'[d] # "dead"]_pipelineVars

(***************************************************************************)
(* And they come to the end: as long as the drivers are quiet and the      *)
(* process lives, every driver that was started is told the end of its     *)
(* result, for good.  None waits for ever for a connection.                *)
(***************************************************************************)
QuietDriversEnd ==
  [](Quiet /\ \A d \in Scanners : stage[d] # "dead") =>
    \A d \in Scanners : d \in Started ~> []eos[d]

\* ChunkSource::has_next_chunk, asked as _try_to_trigger_next_scan does.
HasNextChunk(d) == chunkSource[d] # None /\ chunkSource[d].status = "OK"

(***************************************************************************)
(* What the comment on has_next_chunk says: "Return false if eos is        *)
(* reached or error occurred".  Once the scanner has reported the end,     *)
(* has_next_chunk() becomes false.                                         *)
(***************************************************************************)
EndIsSeen ==
  \A d \in Scanners : eos[d] ~> (stage[d] = "dead" \/ ~HasNextChunk(d))
=============================================================================
