-------------------------- MODULE JDBCScannerProofs --------------------------
(***************************************************************************)
(* Proofs about JDBCScanner, for every set of scanners and keys and every  *)
(* pool size, chunk size and result length: the types, the limit on        *)
(* connections, and that a scan implements RowStream.                      *)
(***************************************************************************)
EXTENDS JDBCScanner, FiniteSetTheorems, SequenceTheorems, TLAPS

(***************************************************************************)
(* Where a scanner holds or waits for a connection its data source is the  *)
(* one its key leads to; no two keys lead to the same one; and no pool has *)
(* more connections out than it may.                                       *)
(***************************************************************************)
SourceInv ==
  /\ \A s \in Scanners : pc[s] \in {"connect"} \cup ConnectedPCs =>
       dataSource[s] \in Pools /\ dataSource[s] = sources[KeyOf[s]]
  /\ \A k, l \in Keys : sources[k] = sources[l] /\ sources[k] # None => k = l

UsedInv == \A p \in Pools : Cardinality(used[p]) <= PoolSize

\* There is room in the arrays for the row that is about to be read.
RoomInv == \A s \in Scanners : pc[s] = "read" => num[s] < ChunkSize

IInv == TypeOK /\ SourceInv /\ ConnectionsAccounted /\ UsedInv /\ RoomInv

-----------------------------------------------------------------------------
\* resultSet.next() leaves the cursor on a row or one past the last.
LEMMA AdvancedBound ==
  ASSUME NEW s \in Scanners, TypeOK
  PROVE  Advanced(s) \in Nat /\ Advanced(s) <= Rows[s] + 1
<1>1. Rows[s] \in Nat /\ cursor[s] \in Nat
  BY RowsAssumption DEF TypeOK
<1>2. QED
  BY <1>1 DEF Advanced, HasRowAfter

\* The steps that move the scanner's own state keep the types.
LEMMA TypeStep ==
  ASSUME TypeOK, RoomInv, [Next]_vars
  PROVE  TypeOK'
<1>0. CASE UNCHANGED vars
  BY <1>0 DEF vars, TypeOK
<1>1. CASE Die
  <2>1. pc' \in [Scanners -> PCs]
    BY <1>1 DEF Die, PCs
  <2>2. QED
    BY <1>1, <2>1 DEF Die, TypeOK, reading
<1>2. ASSUME NEW s \in Scanners, GetSource(s) PROVE TypeOK'
  <2>1. pc' \in [Scanners -> PCs]
    BY <1>2 DEF GetSource, TypeOK, PCs
  <2>2. QED
    BY <1>2, <2>1, KeyAssumption DEF GetSource, TypeOK, reading
<1>3. ASSUME NEW s \in Scanners, GetConnection(s) PROVE TypeOK'
  <2>1. pc' \in [Scanners -> PCs]
    BY <1>3 DEF GetConnection, TypeOK, PCs, ConnectedPCs
  <2>2. used' \in [Pools -> SUBSET Scanners]
    BY <1>3 DEF GetConnection, TypeOK
  <2>3. QED
    BY <1>3, <2>1, <2>2 DEF GetConnection, TypeOK, reading
<1>4. ASSUME NEW s \in Scanners, Execute(s) PROVE TypeOK'
  <2>1. pc' \in [Scanners -> PCs]
    BY <1>4 DEF Execute, TypeOK, PCs, ConnectedPCs
  <2>2. columns' \in [Scanners -> BOOLEAN]
    BY <1>4 DEF Execute, TypeOK
  <2>3. QED
    BY <1>4, <2>1, <2>2 DEF Execute, TypeOK, shared
<1>5. ASSUME NEW s \in Scanners, HasNext(s) PROVE TypeOK'
  <2>1. pc' \in [Scanners -> PCs]
    BY <1>5 DEF HasNext, TypeOK, PCs, ConnectedPCs
  <2>2. eos' \in [Scanners -> BOOLEAN]
    BY <1>5 DEF HasNext, TypeOK
  <2>3. cursor' \in [Scanners -> Nat] /\ \A u \in Scanners : cursor'[u] <= Rows[u] + 1
    BY <1>5, AdvancedBound DEF HasNext, TypeOK
  <2>4. num' \in [Scanners -> 0..ChunkSize]
    BY <1>5, ChunkSizeAssumption DEF HasNext, TypeOK
  <2>5. QED
    BY <1>5, <2>1, <2>2, <2>3, <2>4 DEF HasNext, TypeOK, shared
<1>6. ASSUME NEW s \in Scanners, HasNextThrows(s) PROVE TypeOK'
  <2>1. eos' \in [Scanners -> BOOLEAN]
    BY <1>6 DEF HasNextThrows, TypeOK
  <2>2. QED
    BY <1>6, <2>1 DEF HasNextThrows, TypeOK, shared
<1>7. ASSUME NEW s \in Scanners, ReadRow(s) PROVE TypeOK'
  <2>0. num[s] \in 0..ChunkSize-1
    BY <1>7, ChunkSizeAssumption DEF ReadRow, TypeOK, RoomInv
  <2>1. pc' \in [Scanners -> PCs]
    BY <1>7 DEF ReadRow, TypeOK, PCs, ConnectedPCs
  <2>2. num' \in [Scanners -> 0..ChunkSize]
    BY <1>7, <2>0, ChunkSizeAssumption DEF ReadRow, TypeOK
  <2>3. chunk' \in [Scanners -> [0..ChunkSize-1 -> Nat]]
    BY <1>7, <2>0 DEF ReadRow, TypeOK
  <2>4. cursor' \in [Scanners -> Nat] /\ \A u \in Scanners : cursor'[u] <= Rows[u] + 1
    BY <1>7, AdvancedBound DEF ReadRow, TypeOK
  <2>5. QED
    BY <1>7, <2>1, <2>2, <2>3, <2>4 DEF ReadRow, TypeOK, shared
<1>8. ASSUME NEW s \in Scanners, FillChunk(s) PROVE TypeOK'
  <2>1. pc' \in [Scanners -> PCs]
    BY <1>8 DEF FillChunk, TypeOK, PCs, ConnectedPCs
  <2>2. num[s] \in 0..ChunkSize /\ chunk[s] \in [0..ChunkSize-1 -> Nat]
    BY DEF TypeOK
  <2>3. [i \in 1..num[s] |-> chunk[s][i-1]] \in Seq(Nat)
    <3>1. \A i \in 1..num[s] : i-1 \in 0..ChunkSize-1
      BY <2>2, ChunkSizeAssumption
    <3>2. [i \in 1..num[s] |-> chunk[s][i-1]] \in [1..num[s] -> Nat]
      BY <3>1, <2>2
    <3>3. num[s] \in Nat
      BY <2>2, ChunkSizeAssumption
    <3>4. QED
      BY <3>2, <3>3, SeqDef
  <2>4. fetched' \in [Scanners -> Seq(Nat)]
    BY <1>8, <2>3 DEF FillChunk, TypeOK
  <2>5. QED
    BY <1>8, <2>1, <2>4 DEF FillChunk, TypeOK, shared
<1>9. ASSUME NEW s \in Scanners, Close(s) PROVE TypeOK'
  <2>1. pc' \in [Scanners -> PCs]
    BY <1>9 DEF Close, TypeOK, PCs
  <2>2. used' \in [Pools -> SUBSET Scanners]
    BY <1>9 DEF Close, TypeOK
  <2>3. QED
    BY <1>9, <2>1, <2>2 DEF Close, TypeOK, reading
<1>10. ASSUME NEW s \in Scanners, CloseThrows(s) PROVE TypeOK'
  <2>1. pc' \in [Scanners -> PCs]
    BY <1>10 DEF CloseThrows, TypeOK, PCs, ConnectedPCs
  <2>2. QED
    BY <1>10, <2>1 DEF CloseThrows, TypeOK, reading, shared
<1> QED
  BY <1>0, <1>1, <1>2, <1>3, <1>4, <1>5, <1>6, <1>7, <1>8, <1>9, <1>10
  DEF Next, Crash, Open, GetNext, SourceFails, ConnectTimesOut, ExecuteFails, ReadThrows

-----------------------------------------------------------------------------
\* Nothing that the pool invariants speak of changes.
LEMMA PoolFrame ==
  ASSUME SourceInv, ConnectionsAccounted, UsedInv,
         UNCHANGED <<sources, used, dataSource>>,
         \A u \in Scanners : /\ pc'[u] \in ConnectedPCs <=> pc[u] \in ConnectedPCs
                             /\ pc'[u] = "connect" => pc[u] = "connect"
  PROVE  SourceInv' /\ ConnectionsAccounted' /\ UsedInv'
BY DEF SourceInv, ConnectionsAccounted, UsedInv

\* A new data source belongs to its key alone and has no connection out.
LEMMA GetSourcePools ==
  ASSUME TypeOK, SourceInv, ConnectionsAccounted, UsedInv,
         NEW s \in Scanners, GetSource(s)
  PROVE  SourceInv' /\ ConnectionsAccounted' /\ UsedInv'
<1> DEFINE k == KeyOf[s]
<1>0. k \in Keys
  BY KeyAssumption
<1>1. PICK p \in Pools :
        /\ p = sources[k] \/ (sources[k] = None /\ p \in FreshPools)
        /\ dataSource' = [dataSource EXCEPT ![s] = p]
        /\ sources' = [sources EXCEPT ![k] = p]
  BY DEF GetSource
<1>2. pc' = [pc EXCEPT ![s] = "connect"] /\ used' = used /\ pc[s] = "new"
  BY DEF GetSource
<1>3. \A u \in Scanners : pc'[u] \in ConnectedPCs <=> pc[u] \in ConnectedPCs
  BY <1>2 DEF TypeOK, ConnectedPCs
<1>4. UsedInv'
  BY <1>2 DEF UsedInv
<1>5. CASE p = sources[k]
  <2>1. sources' = sources
    BY <1>0, <1>1, <1>5 DEF TypeOK
  <2>2. SourceInv'
    BY <1>1, <1>2, <1>3, <1>5, <2>1 DEF SourceInv, TypeOK
  <2>3. QED
    BY <1>2, <1>3, <1>4, <2>1, <2>2 DEF ConnectionsAccounted
<1>6. CASE sources[k] = None /\ p \in FreshPools
  <2>1. /\ \A l \in Keys : sources[l] # p
        /\ \A u \in Scanners : dataSource[u] # p
    BY <1>6 DEF FreshPools
  <2>2. \A l \in Keys : sources'[l] = IF l = k THEN p ELSE sources[l]
    BY <1>0, <1>1 DEF TypeOK
  <2>3. \A u \in Scanners : pc[u] \in {"connect"} \cup ConnectedPCs => KeyOf[u] # k
    BY <1>6, NoneAssumption DEF SourceInv
  <2>4. \A u \in Scanners : KeyOf[u] \in Keys
    BY KeyAssumption
  <2>5. SourceInv'
    <3>1. \A l, m \in Keys : sources'[l] = sources'[m] /\ sources'[l] # None => l = m
      BY <2>1, <2>2 DEF SourceInv
    <3>2. ASSUME NEW u \in Scanners, pc'[u] \in {"connect"} \cup ConnectedPCs
          PROVE  dataSource'[u] \in Pools /\ dataSource'[u] = sources'[KeyOf[u]]
      <4>1. CASE u = s
        BY <4>1, <1>0, <1>1, <2>2 DEF TypeOK
      <4>2. CASE u # s
        <5>1. pc[u] \in {"connect"} \cup ConnectedPCs /\ dataSource'[u] = dataSource[u]
          BY <3>2, <4>2, <1>1, <1>2 DEF TypeOK
        <5>2. KeyOf[u] # k
          BY <5>1, <2>3
        <5>3. QED
          BY <5>1, <5>2, <2>2, <2>4 DEF SourceInv
      <4>3. QED
        BY <4>1, <4>2
    <3>3. QED
      BY <3>1, <3>2 DEF SourceInv
  <2>6. ConnectionsAccounted'
    <3>1. ASSUME NEW q \in Pools, NEW u \in Scanners
          PROVE  u \in used[q] <=> pc'[u] \in ConnectedPCs /\ sources'[KeyOf[u]] = q
      <4>1. CASE pc[u] \in ConnectedPCs
        BY <4>1, <1>3, <2>2, <2>3, <2>4 DEF ConnectionsAccounted
      <4>2. CASE pc[u] \notin ConnectedPCs
        BY <4>2, <1>3 DEF ConnectionsAccounted
      <4>3. QED
        BY <4>1, <4>2
    <3>2. QED
      BY <3>1, <1>2 DEF ConnectionsAccounted
  <2>7. QED
    BY <1>4, <2>5, <2>6
<1>7. QED
  BY <1>1, <1>5, <1>6

\* The pool hands out a connection only below its limit.
LEMMA GetConnectionPools ==
  ASSUME TypeOK, SourceInv, ConnectionsAccounted, UsedInv,
         NEW s \in Scanners, GetConnection(s)
  PROVE  SourceInv' /\ ConnectionsAccounted' /\ UsedInv'
<1> DEFINE d == dataSource[s]
<1>1. /\ pc[s] = "connect" /\ Cardinality(used[d]) < PoolSize
      /\ used' = [used EXCEPT ![d] = @ \cup {s}]
      /\ pc' = [pc EXCEPT ![s] = "execute"]
      /\ sources' = sources /\ dataSource' = dataSource
  BY DEF GetConnection
<1>2. d \in Pools /\ d = sources[KeyOf[s]]
  BY <1>1 DEF SourceInv
<1>3. \A u \in Scanners : pc'[u] \in ConnectedPCs <=> u = s \/ pc[u] \in ConnectedPCs
  BY <1>1 DEF TypeOK, ConnectedPCs
<1>4. \A u \in Scanners :
        pc'[u] \in {"connect"} \cup ConnectedPCs => pc[u] \in {"connect"} \cup ConnectedPCs
  BY <1>1 DEF TypeOK, ConnectedPCs
<1>5. SourceInv'
  BY <1>1, <1>4 DEF SourceInv
<1>6. \A q \in Pools : used'[q] = IF q = d THEN used[q] \cup {s} ELSE used[q]
  BY <1>1, <1>2 DEF TypeOK
<1>7. ConnectionsAccounted'
  BY <1>1, <1>2, <1>3, <1>6 DEF ConnectionsAccounted
<1>8. ASSUME NEW q \in Pools PROVE Cardinality(used'[q]) <= PoolSize
  <2>1. CASE q = d
    <3>1. IsFiniteSet(used[d])
      BY <1>2, FiniteAssumption, FS_Subset DEF TypeOK
    <3>2. Cardinality(used[d]) \in Nat
      BY <3>1, FS_CardinalityType
    <3>3. \/ Cardinality(used[d] \cup {s}) = Cardinality(used[d])
          \/ Cardinality(used[d] \cup {s}) = Cardinality(used[d]) + 1
      BY <3>1, FS_AddElement
    <3>4. QED
      BY <1>1, <1>6, <2>1, <3>2, <3>3, PoolSizeAssumption
  <2>2. CASE q # d
    BY <1>6, <2>2 DEF UsedInv
  <2>3. QED
    BY <2>1, <2>2
<1>9. QED
  BY <1>5, <1>7, <1>8 DEF UsedInv

\* close() gives the scanner's own connection back.
LEMMA ClosePools ==
  ASSUME TypeOK, SourceInv, ConnectionsAccounted, UsedInv,
         NEW s \in Scanners, Close(s)
  PROVE  SourceInv' /\ ConnectionsAccounted' /\ UsedInv'
<1> DEFINE d == dataSource[s]
<1>1. /\ pc[s] = "open"
      /\ used' = [used EXCEPT ![d] = @ \ {s}]
      /\ pc' = [pc EXCEPT ![s] = "closed"]
      /\ sources' = sources /\ dataSource' = dataSource
  BY DEF Close
<1>2. d \in Pools /\ d = sources[KeyOf[s]]
  BY <1>1 DEF SourceInv, ConnectedPCs
<1>3. \A u \in Scanners : pc'[u] \in ConnectedPCs <=> u # s /\ pc[u] \in ConnectedPCs
  BY <1>1 DEF TypeOK, ConnectedPCs
<1>4. \A u \in Scanners :
        pc'[u] \in {"connect"} \cup ConnectedPCs => pc[u] \in {"connect"} \cup ConnectedPCs
  BY <1>1 DEF TypeOK, ConnectedPCs
<1>5. SourceInv'
  BY <1>1, <1>4 DEF SourceInv
<1>6. \A q \in Pools : used'[q] = IF q = d THEN used[q] \ {s} ELSE used[q]
  BY <1>1, <1>2 DEF TypeOK
<1>7. ConnectionsAccounted'
  BY <1>1, <1>2, <1>3, <1>6 DEF ConnectionsAccounted
<1>8. ASSUME NEW q \in Pools PROVE Cardinality(used'[q]) <= PoolSize
  <2>1. IsFiniteSet(used[q])
    BY FiniteAssumption, FS_Subset DEF TypeOK
  <2>2. used'[q] \subseteq used[q]
    BY <1>6
  <2>3. /\ Cardinality(used'[q]) <= Cardinality(used[q])
        /\ IsFiniteSet(used'[q])
    BY <2>1, <2>2, FS_Subset
  <2>4. Cardinality(used[q]) \in Nat /\ Cardinality(used'[q]) \in Nat
    BY <2>1, <2>3, FS_CardinalityType
  <2>5. QED
    BY <2>3, <2>4, PoolSizeAssumption DEF UsedInv
<1>9. QED
  BY <1>5, <1>7, <1>8 DEF UsedInv

\* After the process has died nothing is connected.
LEMMA DiePools ==
  ASSUME Die
  PROVE  SourceInv' /\ ConnectionsAccounted' /\ UsedInv' /\ RoomInv'
<1>1. \A u \in Scanners : pc'[u] = "dead"
  BY DEF Die
<1>2. \A q \in Pools : used'[q] = {}
  BY DEF Die
<1>3. \A k \in Keys : sources'[k] = None
  BY DEF Die
<1>4. SourceInv'
  BY <1>1, <1>3 DEF SourceInv, ConnectedPCs
<1>5. ConnectionsAccounted'
  BY <1>1, <1>2 DEF ConnectionsAccounted, ConnectedPCs
<1>6. UsedInv'
  BY <1>2, FS_EmptySet, PoolSizeAssumption DEF UsedInv
<1>7. QED
  BY <1>1, <1>4, <1>5, <1>6 DEF RoomInv

-----------------------------------------------------------------------------
LEMMA InitInv ==
  ASSUME Init
  PROVE  IInv
<1>1. TypeOK
  <2>1. [i \in 0..ChunkSize-1 |-> 0] \in [0..ChunkSize-1 -> Nat]
    OBVIOUS
  <2>2. \A s \in Scanners : cursor[s] <= Rows[s] + 1
    BY RowsAssumption DEF Init
  <2>3. << >> \in Seq(Nat)
    OBVIOUS
  <2>4. QED
    BY <2>1, <2>2, <2>3, ChunkSizeAssumption DEF Init, TypeOK, PCs
<1>2. SourceInv /\ ConnectionsAccounted /\ RoomInv
  BY DEF Init, SourceInv, ConnectionsAccounted, RoomInv, ConnectedPCs
<1>3. UsedInv
  BY FS_EmptySet, PoolSizeAssumption DEF Init, UsedInv
<1>4. QED
  BY <1>1, <1>2, <1>3 DEF IInv

LEMMA StepInv ==
  ASSUME IInv, [Next]_vars
  PROVE  IInv'
<1> USE DEF IInv
<1>1. TypeOK'
  BY TypeStep
<1> DEFINE Rest == SourceInv' /\ ConnectionsAccounted' /\ UsedInv' /\ RoomInv'
<1>2. CASE UNCHANGED vars
  BY <1>1, <1>2 DEF vars, SourceInv, ConnectionsAccounted, UsedInv, RoomInv
<1>3. ASSUME NEW s \in Scanners, GetSource(s) PROVE Rest
  BY <1>3, GetSourcePools DEF GetSource, reading, RoomInv, TypeOK
<1>4. ASSUME NEW s \in Scanners, GetConnection(s) PROVE Rest
  BY <1>4, GetConnectionPools DEF GetConnection, reading, RoomInv, TypeOK
<1>5. ASSUME NEW s \in Scanners, Close(s) PROVE Rest
  BY <1>5, ClosePools DEF Close, reading, RoomInv, TypeOK
<1>6. ASSUME Die PROVE Rest
  BY <1>6, DiePools
<1>7. ASSUME NEW s \in Scanners, Execute(s) PROVE Rest
  <2>1. pc' = [pc EXCEPT ![s] = "open"] /\ pc[s] = "execute"
    BY <1>7 DEF Execute
  <2>2. RoomInv'
    BY <1>7, <2>1 DEF Execute, RoomInv, TypeOK
  <2>3. \A u \in Scanners : /\ pc'[u] \in ConnectedPCs <=> pc[u] \in ConnectedPCs
                            /\ pc'[u] = "connect" => pc[u] = "connect"
    BY <2>1 DEF TypeOK, ConnectedPCs
  <2>4. QED
    BY <1>7, <2>2, <2>3, PoolFrame DEF Execute, shared
<1>8. ASSUME NEW s \in Scanners, HasNext(s) PROVE Rest
  <2>1. /\ pc[s] = "open"
        /\ \/ pc' = [pc EXCEPT ![s] = "read"] /\ num' = [num EXCEPT ![s] = 0]
           \/ pc' = pc /\ num' = num
    BY <1>8 DEF HasNext
  <2>2. RoomInv'
    BY <2>1, ChunkSizeAssumption DEF RoomInv, TypeOK
  <2>3. \A u \in Scanners : /\ pc'[u] \in ConnectedPCs <=> pc[u] \in ConnectedPCs
                            /\ pc'[u] = "connect" => pc[u] = "connect"
    BY <2>1 DEF TypeOK, ConnectedPCs
  <2>4. QED
    BY <1>8, <2>2, <2>3, PoolFrame DEF HasNext, shared
<1>9. ASSUME NEW s \in Scanners, HasNextThrows(s) PROVE Rest
  BY <1>9, PoolFrame DEF HasNextThrows, shared, RoomInv
<1>10. ASSUME NEW s \in Scanners, ReadRow(s) PROVE Rest
  <2>1. /\ pc[s] = "read" /\ num' = [num EXCEPT ![s] = @ + 1]
        /\ pc' = [pc EXCEPT ![s] = IF RoomAfter(s) /\ HasRowAfter(s) THEN "read" ELSE "fill"]
    BY <1>10 DEF ReadRow
  <2>2. RoomInv'
    BY <2>1 DEF RoomInv, RoomAfter, TypeOK
  <2>3. \A u \in Scanners : /\ pc'[u] \in ConnectedPCs <=> pc[u] \in ConnectedPCs
                            /\ pc'[u] = "connect" => pc[u] = "connect"
    BY <2>1 DEF TypeOK, ConnectedPCs
  <2>4. QED
    BY <1>10, <2>2, <2>3, PoolFrame DEF ReadRow, shared
<1>11. ASSUME NEW s \in Scanners, FillChunk(s) PROVE Rest
  <2>1. pc[s] = "fill" /\ pc' = [pc EXCEPT ![s] = "open"] /\ num' = num
    BY <1>11 DEF FillChunk
  <2>2. RoomInv'
    BY <2>1 DEF RoomInv, TypeOK
  <2>3. \A u \in Scanners : /\ pc'[u] \in ConnectedPCs <=> pc[u] \in ConnectedPCs
                            /\ pc'[u] = "connect" => pc[u] = "connect"
    BY <2>1 DEF TypeOK, ConnectedPCs
  <2>4. QED
    BY <1>11, <2>2, <2>3, PoolFrame DEF FillChunk, shared
<1>12. ASSUME NEW s \in Scanners, CloseThrows(s) PROVE Rest
  <2>1. pc[s] = "open" /\ pc' = [pc EXCEPT ![s] = "leaked"] /\ num' = num
    BY <1>12 DEF CloseThrows, reading
  <2>2. RoomInv'
    BY <2>1 DEF RoomInv, TypeOK
  <2>3. \A u \in Scanners : /\ pc'[u] \in ConnectedPCs <=> pc[u] \in ConnectedPCs
                            /\ pc'[u] = "connect" => pc[u] = "connect"
    BY <2>1 DEF TypeOK, ConnectedPCs
  <2>4. QED
    BY <1>12, <2>2, <2>3, PoolFrame DEF CloseThrows, shared
<1>13. QED
  BY <1>1, <1>2, <1>3, <1>4, <1>5, <1>6, <1>7, <1>8, <1>9, <1>10, <1>11, <1>12
  DEF Next, Crash, Open, GetNext, SourceFails, ConnectTimesOut, ExecuteFails, ReadThrows

\* The inductive invariant of the scan.
THEOREM Invariance == Spec => []IInv
<1>1. QED
  BY InitInv, StepInv, PTL DEF Spec

\* Every variable keeps its type; in particular getNextChunk() never writes
\* past the end of its arrays.
THEOREM TypeCorrect == Spec => []TypeOK
<1>1. IInv => TypeOK
  BY DEF IInv
<1>2. QED
  BY <1>1, Invariance, PTL

\* A connection is out exactly for the scanners that have one.
THEOREM ConnectionsCorrect == Spec => []ConnectionsAccounted
<1>1. IInv => ConnectionsAccounted
  BY DEF IInv
<1>2. QED
  BY <1>1, Invariance, PTL

\* No more than connection_pool_size connections are out for one user and
\* url.
THEOREM PoolLimitHolds == Spec => []PoolLimit
<1>1. IInv => PoolLimit
  <2>1. SUFFICES ASSUME IInv, NEW k \in Keys
                 PROVE  Cardinality(Connected(k)) <= PoolSize
    BY DEF PoolLimit
  <2>2. CASE sources[k] \in Pools
    <3>1. \A s \in Scanners : KeyOf[s] = k /\ pc[s] \in ConnectedPCs => s \in used[sources[k]]
      BY <2>1, <2>2 DEF IInv, ConnectionsAccounted
    <3>2. \A s \in Scanners : s \in used[sources[k]] => KeyOf[s] = k /\ pc[s] \in ConnectedPCs
      BY <2>1, <2>2, KeyAssumption, NoneAssumption DEF IInv, ConnectionsAccounted, SourceInv
    <3>3. used[sources[k]] \subseteq Scanners
      BY <2>1, <2>2 DEF IInv, TypeOK
    <3>4. Connected(k) = used[sources[k]]
      BY <3>1, <3>2, <3>3 DEF Connected
    <3>5. QED
      BY <2>1, <2>2, <3>4 DEF IInv, UsedInv
  <2>3. CASE sources[k] \notin Pools
    <3>1. Connected(k) = {}
      BY <2>1, <2>3 DEF IInv, SourceInv, Connected
    <3>2. QED
      BY <3>1, FS_EmptySet, PoolSizeAssumption
  <2>4. QED
    BY <2>2, <2>3
<1>2. QED
  BY <1>1, Invariance, PTL

-----------------------------------------------------------------------------
(***************************************************************************)
(* The rows.  Between two calls the cursor is on the last row fetched,     *)
(* or past the end with everything fetched; inside getNextChunk() it is    *)
(* on the row that goes to the next free place; and what is in the arrays  *)
(* follows what was fetched.                                               *)
(***************************************************************************)
Stored(s) == \A i \in 1..num[s] : chunk[s][i-1] = Len(fetched[s]) + i

StartOK(s) == cursor[s] = 0 /\ fetched[s] = << >> /\ ~eos[s]
OpenOK(s) ==
  \/ cursor[s] <= Rows[s] /\ Len(fetched[s]) = cursor[s] /\ (eos[s] => s \in Breaking)
  \/ cursor[s] = Rows[s] + 1 /\ Len(fetched[s]) = Rows[s]
ReadOK(s) ==
  /\ ~eos[s] /\ cursor[s] <= Rows[s]
  /\ cursor[s] = Len(fetched[s]) + num[s] + 1
  /\ Stored(s)
FillOK(s) ==
  /\ ~eos[s] /\ num[s] > 0 /\ Stored(s)
  /\ \/ /\ num[s] = ChunkSize
        /\ cursor[s] = Len(fetched[s]) + num[s] /\ cursor[s] <= Rows[s]
     \/ cursor[s] = Rows[s] + 1 /\ Len(fetched[s]) + num[s] = Rows[s]

RowsOK(s) ==
  /\ pc[s] \in {"new", "connect", "execute"} => StartOK(s)
  /\ pc[s] = "open" => OpenOK(s)
  /\ pc[s] = "read" => ReadOK(s)
  /\ pc[s] = "fill" => FillOK(s)

RInv == IInv /\ \A s \in Scanners : RowsOK(s)

\* Another scanner's rows are not touched.
LEMMA RowsFrame ==
  ASSUME NEW s \in Scanners, RowsOK(s), pc'[s] = pc[s], cursor'[s] = cursor[s],
         num'[s] = num[s], chunk'[s] = chunk[s],
         fetched'[s] = fetched[s], eos'[s] = eos[s]
  PROVE  RowsOK(s)'
BY DEF RowsOK, StartOK, OpenOK, ReadOK, FillOK, Stored

\* The types of one scanner's variables.
LEMMA ScannerTypes ==
  ASSUME TypeOK, NEW s \in Scanners
  PROVE  /\ Rows[s] \in Nat /\ cursor[s] \in Nat /\ cursor[s] <= Rows[s] + 1
         /\ num[s] \in 0..ChunkSize /\ chunk[s] \in [0..ChunkSize-1 -> Nat]
         /\ fetched[s] \in Seq(Nat) /\ Len(fetched[s]) \in Nat
         /\ eos[s] \in BOOLEAN
<1>1. fetched[s] \in Seq(Nat) /\ eos[s] \in BOOLEAN
  BY DEF TypeOK
<1>2. Len(fetched[s]) \in Nat
  BY <1>1, LenProperties
<1>3. QED
  BY <1>1, <1>2, RowsAssumption DEF TypeOK

\* hasNext(): the first row of the next chunk, or the end.
LEMMA HasNextRows ==
  ASSUME IInv, NEW s \in Scanners, RowsOK(s), HasNext(s)
  PROVE  RowsOK(s)' /\ (Stream!End(s) \/ Stream!Resume(s) \/ UNCHANGED <<fetched, eos>>)
<1>1. /\ pc[s] = "open" /\ OpenOK(s) /\ TypeOK /\ pc \in [Scanners -> PCs]
      /\ cursor \in [Scanners -> Nat] /\ num \in [Scanners -> 0..ChunkSize]
      /\ eos \in [Scanners -> BOOLEAN]
  BY DEF HasNext, RowsOK, IInv, TypeOK
<1>2. /\ Rows[s] \in Nat /\ cursor[s] \in Nat /\ Len(fetched[s]) \in Nat
      /\ eos[s] \in BOOLEAN
  BY <1>1, ScannerTypes
<1>3. CASE HasRowAfter(s)
  <2>1. /\ cursor'[s] = cursor[s] + 1 /\ num'[s] = 0 /\ pc'[s] = "read"
        /\ eos' = [eos EXCEPT ![s] = FALSE] /\ fetched' = fetched
    BY <1>1, <1>3 DEF HasNext, Advanced
  <2>2. cursor[s] < Rows[s] /\ Len(fetched[s]) = cursor[s] /\ (eos[s] => s \in Breaking)
    BY <1>1, <1>2, <1>3 DEF HasRowAfter, OpenOK
  <2>3. eos'[s] = FALSE
    BY <1>1, <2>1
  <2>4. ReadOK(s)'
    BY <1>2, <2>1, <2>2, <2>3 DEF ReadOK, Stored
  <2>5. CASE eos[s]
    <3>1. Stream!NextChunkRows(s) > 0
      BY <1>2, <2>2, ChunkSizeAssumption DEF Stream!NextChunkRows
    <3>2. Stream!Resume(s)
      BY <2>1, <2>2, <2>5, <3>1 DEF Stream!Resume
    <3>3. QED
      BY <2>1, <2>4, <3>2 DEF RowsOK
  <2>6. CASE ~eos[s]
    <3>1. eos' = eos
      BY <1>1, <1>2, <2>1, <2>6
    <3>2. QED
      BY <2>1, <2>4, <3>1 DEF RowsOK
  <2>7. QED
    BY <2>5, <2>6
<1>4. CASE ~HasRowAfter(s)
  <2>1. /\ cursor'[s] = Rows[s] + 1 /\ pc' = pc
        /\ eos' = [eos EXCEPT ![s] = TRUE] /\ fetched' = fetched
    BY <1>1, <1>4 DEF HasNext, Advanced
  <2>2. Len(fetched[s]) = Rows[s]
    BY <1>1, <1>2, <1>4 DEF HasRowAfter, OpenOK
  <2>3. OpenOK(s)'
    BY <2>1, <2>2 DEF OpenOK
  <2>4. Stream!End(s)
    BY <2>1, <2>2 DEF Stream!End
  <2>5. QED
    BY <1>1, <2>1, <2>3, <2>4 DEF RowsOK
<1>5. QED
  BY <1>3, <1>4

\* hasNext() throws: an end that is not the end, and the cursor stays.
LEMMA HasNextThrowsRows ==
  ASSUME IInv, NEW s \in Scanners, RowsOK(s), HasNextThrows(s)
  PROVE  RowsOK(s)' /\ Stream!End(s)
<1>1. /\ pc[s] = "open" /\ OpenOK(s) /\ s \in Breaking /\ pc' = pc /\ cursor' = cursor
      /\ fetched' = fetched /\ eos' = [eos EXCEPT ![s] = TRUE]
  BY DEF HasNextThrows, RowsOK
<1>2. OpenOK(s)'
  BY <1>1 DEF OpenOK
<1>3. Stream!End(s)
  BY <1>1 DEF Stream!End
<1>4. QED
  BY <1>1, <1>2, <1>3 DEF RowsOK

\* A turn of the loop stores the row behind the ones already there.
LEMMA ReadRowRows ==
  ASSUME IInv, NEW s \in Scanners, RowsOK(s), ReadRow(s)
  PROVE  RowsOK(s)'
<1>1. /\ pc[s] = "read" /\ ReadOK(s) /\ TypeOK /\ pc \in [Scanners -> PCs]
      /\ cursor \in [Scanners -> Nat] /\ num \in [Scanners -> 0..ChunkSize]
      /\ chunk \in [Scanners -> [0..ChunkSize-1 -> Nat]] /\ num[s] < ChunkSize
  BY DEF ReadRow, RowsOK, IInv, TypeOK, RoomInv
<1>2. /\ Rows[s] \in Nat /\ cursor[s] \in Nat /\ Len(fetched[s]) \in Nat
      /\ num[s] \in Nat /\ ChunkSize \in Nat
  BY <1>1, ScannerTypes, ChunkSizeAssumption
<1>3. /\ num'[s] = num[s] + 1 /\ fetched' = fetched /\ eos' = eos
      /\ chunk'[s] = [chunk[s] EXCEPT ![num[s]] = cursor[s]]
      /\ cursor'[s] = IF RoomAfter(s) THEN Advanced(s) ELSE cursor[s]
      /\ pc'[s] = IF RoomAfter(s) /\ HasRowAfter(s) THEN "read" ELSE "fill"
  BY <1>1 DEF ReadRow
<1>4. /\ cursor[s] = Len(fetched[s]) + num[s] + 1
      /\ cursor[s] <= Rows[s] /\ ~eos[s]
  BY <1>1 DEF ReadOK
<1>5. Stored(s)'
  <2>1. SUFFICES ASSUME NEW i \in 1..num[s]+1
                 PROVE  chunk'[s][i-1] = Len(fetched[s]) + i
    BY <1>3 DEF Stored
  <2>2. i-1 \in 0..ChunkSize-1
    BY <1>1, <1>2
  <2>3. chunk[s] \in [0..ChunkSize-1 -> Nat]
    BY <1>1
  <2>4. CASE i = num[s] + 1
    BY <1>2, <1>3, <1>4, <2>2, <2>3, <2>4
  <2>5. CASE i \in 1..num[s]
    <3>1. i-1 # num[s]
      BY <1>2, <2>5
    <3>2. chunk'[s][i-1] = chunk[s][i-1]
      BY <1>3, <2>2, <2>3, <3>1
    <3>3. QED
      BY <1>1, <2>5, <3>2 DEF ReadOK, Stored
  <2>6. QED
    BY <1>2, <2>4, <2>5
<1>6. CASE RoomAfter(s) /\ HasRowAfter(s)
  <2>1. cursor'[s] = cursor[s] + 1 /\ cursor[s] < Rows[s] /\ pc'[s] = "read"
    BY <1>3, <1>6 DEF Advanced, HasRowAfter
  <2>2. ReadOK(s)'
    BY <1>2, <1>3, <1>5, <1>4, <2>1 DEF ReadOK
  <2>3. QED
    BY <2>1, <2>2 DEF RowsOK
<1>7. CASE RoomAfter(s) /\ ~HasRowAfter(s)
  <2>1. cursor'[s] = Rows[s] + 1 /\ cursor[s] = Rows[s] /\ pc'[s] = "fill"
    BY <1>2, <1>3, <1>7, <1>4 DEF Advanced, HasRowAfter
  <2>2. FillOK(s)'
    BY <1>2, <1>3, <1>5, <1>4, <2>1 DEF FillOK
  <2>3. QED
    BY <2>1, <2>2 DEF RowsOK
<1>8. CASE ~RoomAfter(s)
  <2>1. cursor'[s] = cursor[s] /\ num[s] + 1 = ChunkSize /\ pc'[s] = "fill"
    BY <1>1, <1>2, <1>3, <1>8 DEF RoomAfter
  <2>2. FillOK(s)'
    BY <1>2, <1>3, <1>5, <1>4, <2>1 DEF FillOK
  <2>3. QED
    BY <2>1, <2>2 DEF RowsOK
<1>9. QED
  BY <1>6, <1>7, <1>8

\* What is handed over is the next chunk of the stream.
LEMMA FillChunkRows ==
  ASSUME IInv, NEW s \in Scanners, RowsOK(s), FillChunk(s)
  PROVE  RowsOK(s)' /\ Stream!Fetch(s)
<1>1. /\ pc[s] = "fill" /\ FillOK(s) /\ TypeOK /\ pc \in [Scanners -> PCs]
      /\ fetched \in [Scanners -> Seq(Nat)]
  BY DEF FillChunk, RowsOK, IInv, TypeOK
<1>2. /\ Rows[s] \in Nat /\ cursor[s] \in Nat /\ Len(fetched[s]) \in Nat
      /\ num[s] \in Nat /\ num[s] <= ChunkSize /\ ChunkSize \in Nat
      /\ fetched[s] \in Seq(Nat)
  BY <1>1, ScannerTypes, ChunkSizeAssumption
<1> DEFINE more == [i \in 1..num[s] |-> Len(fetched[s]) + i]
<1>3. [i \in 1..num[s] |-> chunk[s][i-1]] = more
  BY <1>1 DEF FillOK, Stored
<1>4. fetched' = [fetched EXCEPT ![s] = @ \o more]
  BY <1>3 DEF FillChunk
<1>5. more \in Seq(Nat) /\ Len(more) = num[s]
  <2>1. more \in [1..num[s] -> Nat]
    BY <1>2
  <2>2. more \in Seq(Nat)
    BY <1>2, <2>1, SeqDef
  <2>3. DOMAIN more = 1..num[s]
    OBVIOUS
  <2>4. Len(more) = num[s]
    BY <1>2, <2>2, <2>3, LenProperties
  <2>5. QED
    BY <2>2, <2>4
<1>6. fetched'[s] = fetched[s] \o more
  BY <1>1, <1>4
<1>7. Len(fetched'[s]) = Len(fetched[s]) + num[s]
  BY <1>2, <1>5, <1>6, ConcatProperties
<1>8. pc'[s] = "open" /\ cursor' = cursor /\ eos' = eos
  BY <1>1 DEF FillChunk
<1>9. RowsOK(s)'
  <2>1. OpenOK(s)'
    BY <1>1, <1>2, <1>7, <1>8 DEF FillOK, OpenOK
  <2>2. QED
    BY <1>8, <2>1 DEF RowsOK
<1>10. Stream!NextChunkRows(s) = num[s]
  BY <1>1, <1>2 DEF Stream!NextChunkRows, FillOK
<1>11. Stream!Fetch(s)
  BY <1>1, <1>2, <1>4, <1>8, <1>10 DEF Stream!Fetch, FillOK
<1>12. QED
  BY <1>9, <1>11

\* Every step keeps the rows in order, and is a step of the stream or none.
LEMMA RowsStep ==
  ASSUME RInv, [Next]_vars
  PROVE  RInv' /\ [Stream!Next]_(Stream!vars)
<1> USE DEF RInv
<1>1. IInv'
  BY StepInv
<1> DEFINE Done == (\A u \in Scanners : RowsOK(u)') /\ [Stream!Next]_(Stream!vars)
<1>2. CASE UNCHANGED vars
  <2>1. \A u \in Scanners : RowsOK(u)'
    BY <1>2, RowsFrame DEF vars
  <2>2. UNCHANGED Stream!vars
    BY <1>2 DEF vars, Stream!vars
  <2>3. QED
    BY <1>1, <2>1, <2>2
<1>3. ASSUME Die PROVE Done
  BY <1>3 DEF Die, reading, RowsOK, Stream!vars
<1>4. ASSUME NEW s \in Scanners, GetSource(s) \/ GetConnection(s) \/ Execute(s)
                                 \/ Close(s) \/ CloseThrows(s)
      PROVE  Done
  <2>1. UNCHANGED <<cursor, num, chunk, fetched, eos>>
    BY <1>4 DEF GetSource, GetConnection, Execute, Close, CloseThrows, reading
  <2>2. \A u \in Scanners \ {s} : pc'[u] = pc[u]
    BY <1>4 DEF GetSource, GetConnection, Execute, Close, CloseThrows, IInv, TypeOK
  <2>3. \A u \in Scanners \ {s} : RowsOK(u)'
    BY <2>1, <2>2, RowsFrame
  <2>4. \/ pc[s] = "new" /\ pc'[s] = "connect"
        \/ pc[s] = "connect" /\ pc'[s] = "execute"
        \/ pc[s] = "execute" /\ pc'[s] = "open"
        \/ pc[s] = "open" /\ pc'[s] \in {"closed", "leaked"}
    BY <1>4 DEF GetSource, GetConnection, Execute, Close, CloseThrows, IInv, TypeOK
  <2>5. RowsOK(s)'
    <3>1. CASE pc[s] = "execute" /\ pc'[s] = "open"
      <4>1. StartOK(s) /\ Rows[s] \in Nat
        BY <3>1, RowsAssumption DEF RowsOK
      <4>2. Len(fetched[s]) = 0
        BY <4>1 DEF StartOK
      <4>3. QED
        BY <2>1, <3>1, <4>1, <4>2 DEF RowsOK, StartOK, OpenOK
    <3>2. CASE ~(pc[s] = "execute" /\ pc'[s] = "open")
      BY <2>1, <2>4, <3>2 DEF RowsOK, StartOK
    <3>3. QED
      BY <3>1, <3>2
  <2>6. QED
    BY <2>1, <2>3, <2>5 DEF Stream!vars
<1>5. ASSUME NEW s \in Scanners, HasNext(s) \/ HasNextThrows(s) \/ ReadRow(s) \/ FillChunk(s)
      PROVE  Done
  <2>1. \A u \in Scanners \ {s} :
          /\ pc'[u] = pc[u] /\ cursor'[u] = cursor[u] /\ num'[u] = num[u]
          /\ chunk'[u] = chunk[u] /\ fetched'[u] = fetched[u] /\ eos'[u] = eos[u]
    BY <1>5 DEF HasNext, HasNextThrows, ReadRow, FillChunk, IInv, TypeOK
  <2>2. \A u \in Scanners \ {s} : RowsOK(u)'
    BY <2>1, RowsFrame
  <2>3. CASE HasNext(s)
    BY <2>2, <2>3, HasNextRows DEF Stream!Next, Stream!vars
  <2>4. CASE ReadRow(s)
    BY <2>2, <2>4, ReadRowRows DEF ReadRow, Stream!vars
  <2>5. CASE FillChunk(s)
    BY <2>2, <2>5, FillChunkRows DEF Stream!Next
  <2>6. CASE HasNextThrows(s)
    BY <2>2, <2>6, HasNextThrowsRows DEF Stream!Next
  <2>7. QED
    BY <1>5, <2>3, <2>4, <2>5, <2>6
<1>6. QED
  BY <1>1, <1>2, <1>3, <1>4, <1>5
  DEF Next, Crash, Open, GetNext, SourceFails, ConnectTimesOut, ExecuteFails, ReadThrows

(***************************************************************************)
(* A scan implements RowStream for every result length and chunk size: no  *)
(* row is lost or repeated at a chunk boundary, and *eos is early only     *)
(* when hasNext() throws.                                                  *)
(***************************************************************************)
THEOREM ScanImplementsRowStream == Spec => RowStreamSpec
<1>1. Init => RInv /\ Stream!Init
  <2>1. SUFFICES ASSUME Init PROVE RInv /\ Stream!Init
    OBVIOUS
  <2>2. \A s \in Scanners : RowsOK(s)
    BY <2>1 DEF Init, RowsOK, StartOK
  <2>3. QED
    BY <2>1, <2>2, InitInv DEF RInv, Init, Stream!Init
<1>2. RInv /\ [Next]_vars => RInv' /\ [Stream!Next]_(Stream!vars)
  BY RowsStep
<1>3. QED
  BY <1>1, <1>2, PTL DEF Spec, RowStreamSpec, Stream!Spec

-----------------------------------------------------------------------------
(***************************************************************************)
(* What RowStream amounts to at any moment: the rows that have crossed JNI *)
(* are the first of the result, in order, and all of them once *eos has    *)
(* been reported, unless the result set may break.                         *)
(***************************************************************************)
RowsInOrder ==
  \A s \in Scanners :
    /\ fetched[s] = [i \in 1..Len(fetched[s]) |-> i]
    /\ Len(fetched[s]) <= Rows[s]
    /\ eos[s] /\ s \notin Breaking => Len(fetched[s]) = Rows[s]

OrderInv ==
  /\ fetched \in [Scanners -> Seq(Nat)] /\ eos \in [Scanners -> BOOLEAN]
  /\ RowsInOrder

LEMMA FetchInOrder ==
  ASSUME OrderInv, NEW s \in Scanners, Stream!Fetch(s)
  PROVE  OrderInv'
<1> DEFINE d == fetched[s]
           n == Stream!NextChunkRows(s)
           more == [i \in 1..n |-> Len(d) + i]
<1>1. /\ d \in Seq(Nat) /\ Len(d) \in Nat /\ Rows[s] \in Nat /\ ChunkSize \in Nat
      /\ d = [i \in 1..Len(d) |-> i] /\ Len(d) <= Rows[s]
  BY LenProperties, RowsAssumption, ChunkSizeAssumption DEF OrderInv, RowsInOrder
<1>2. n \in Nat /\ n > 0 /\ Len(d) + n <= Rows[s]
  BY <1>1 DEF Stream!Fetch, Stream!NextChunkRows
<1>3. fetched' = [fetched EXCEPT ![s] = d \o more] /\ eos' = eos /\ ~eos[s]
  BY DEF Stream!Fetch
<1> HIDE DEF n
<1>4. more \in Seq(Nat) /\ Len(more) = n /\ \A i \in 1..n : more[i] = Len(d) + i
  <2>1. more \in [1..n -> Nat] /\ DOMAIN more = 1..n
    BY <1>1, <1>2
  <2>2. more \in Seq(Nat)
    BY <1>2, <2>1, SeqDef
  <2>3. QED
    BY <1>2, <2>1, <2>2, LenProperties
<1> HIDE DEF more
<1>5. /\ d \o more \in Seq(Nat) /\ Len(d \o more) = Len(d) + n
      /\ \A i \in 1..Len(d) + n : (d \o more)[i] = IF i <= Len(d) THEN d[i] ELSE more[i - Len(d)]
  <2>1. d \in Seq(Nat) /\ more \in Seq(Nat) /\ Len(more) = n
    BY <1>1, <1>4
  <2>2. QED
    BY <2>1, ConcatProperties
<1>6. \A i \in 1..Len(d) + n : (d \o more)[i] = i
  <2>1. SUFFICES ASSUME NEW i \in 1..Len(d) + n PROVE (d \o more)[i] = i
    OBVIOUS
  <2>2. CASE i <= Len(d)
    BY <1>1, <1>2, <1>5, <2>2
  <2>3. CASE ~(i <= Len(d))
    <3>1. i - Len(d) \in 1..n
      BY <1>1, <1>2, <2>3
    <3>2. more[i - Len(d)] = i
      BY <1>1, <1>4, <3>1
    <3>3. QED
      BY <1>1, <1>5, <2>3, <3>2
  <2>4. QED
    BY <2>2, <2>3, Zenon
<1>7. d \o more = [i \in 1..Len(d \o more) |-> i]
  <2>1. d \o more = [i \in 1..Len(d \o more) |-> (d \o more)[i]]
    BY <1>5, LenProperties
  <2>2. QED
    BY <1>5, <1>6, <2>1
<1>8. fetched'[s] = d \o more /\ \A u \in Scanners \ {s} : fetched'[u] = fetched[u]
  BY <1>3 DEF OrderInv
<1>9. fetched' \in [Scanners -> Seq(Nat)] /\ eos' \in [Scanners -> BOOLEAN]
  BY <1>3, <1>5 DEF OrderInv
<1>10. RowsInOrder'
  <2>1. SUFFICES ASSUME NEW u \in Scanners
                 PROVE  /\ fetched'[u] = [i \in 1..Len(fetched'[u]) |-> i]
                        /\ Len(fetched'[u]) <= Rows[u]
                        /\ eos'[u] /\ u \notin Breaking => Len(fetched'[u]) = Rows[u]
    BY DEF RowsInOrder
  <2>2. CASE u = s
    BY <1>2, <1>3, <1>5, <1>7, <1>8, <2>2
  <2>3. CASE u # s
    BY <1>3, <1>8, <2>3 DEF OrderInv, RowsInOrder
  <2>4. QED
    BY <2>2, <2>3
<1>11. QED
  BY <1>9, <1>10 DEF OrderInv

\* The rows of a stream are in order.
LEMMA StreamInOrder == RowStreamSpec => []OrderInv
<1>1. Stream!Init => OrderInv
  <2>1. SUFFICES ASSUME Stream!Init PROVE OrderInv
    OBVIOUS
  <2>2. \A s \in Scanners : fetched[s] = << >> /\ Len(fetched[s]) = 0 /\ ~eos[s]
    BY <2>1 DEF Stream!Init
  <2>3. << >> = [i \in 1..0 |-> i]
    OBVIOUS
  <2>4. RowsInOrder
    BY <2>2, <2>3, RowsAssumption DEF RowsInOrder
  <2>5. QED
    BY <2>1, <2>4 DEF OrderInv, Stream!Init
<1>2. OrderInv /\ [Stream!Next]_(Stream!vars) => OrderInv'
  <2>1. SUFFICES ASSUME OrderInv, [Stream!Next]_(Stream!vars) PROVE OrderInv'
    OBVIOUS
  <2>2. CASE UNCHANGED Stream!vars
    BY <2>1, <2>2 DEF OrderInv, RowsInOrder, Stream!vars
  <2>3. ASSUME NEW s \in Scanners, Stream!Fetch(s) PROVE OrderInv'
    BY <2>1, <2>3, FetchInOrder
  <2>4. ASSUME NEW s \in Scanners, Stream!End(s) \/ Stream!Resume(s) PROVE OrderInv'
    BY <2>1, <2>4 DEF Stream!End, Stream!Resume, OrderInv, RowsInOrder
  <2>5. QED
    BY <2>1, <2>2, <2>3, <2>4 DEF Stream!Next
<1>3. QED
  BY <1>1, <1>2, PTL DEF RowStreamSpec, Stream!Spec

\* In every scan the C++ side has the first rows of the result, none missing
\* and none twice, and all of them after *eos.
THEOREM RowsFetched == Spec => []RowsInOrder
<1>1. OrderInv => RowsInOrder
  BY DEF OrderInv
<1>2. QED
  BY <1>1, StreamInOrder, ScanImplementsRowStream, PTL

-----------------------------------------------------------------------------
\* get_next, in every branch, uses up some of what is left or reports *eos.
LEMMA GetNextShortens ==
  ASSUME TypeOK, NEW s \in Scanners, GetNext(s)
  PROVE  StepsToEos(s)' < StepsToEos(s) \/ (StepsToEos(s)' <= StepsToEos(s) /\ eos'[s])
<1>1. Rows[s] \in Nat /\ cursor[s] \in Nat /\ cursor[s] <= Rows[s] + 1
  BY RowsAssumption DEF TypeOK
<1>2. CASE HasNext(s) /\ HasRowAfter(s)
  <2>1. pc[s] = "open" /\ pc'[s] = "read" /\ cursor'[s] = cursor[s] + 1
    BY <1>2 DEF HasNext, Advanced, TypeOK
  <2>2. QED
    BY <1>1, <2>1 DEF StepsToEos
<1>3. CASE HasNext(s) /\ ~HasRowAfter(s)
  <2>1. pc[s] = "open" /\ pc'[s] = "open" /\ cursor'[s] = Rows[s] + 1 /\ eos'[s]
    BY <1>3 DEF HasNext, Advanced, TypeOK
  <2>2. QED
    BY <1>1, <2>1 DEF StepsToEos
<1>4. CASE HasNextThrows(s)
  <2>1. pc' = pc /\ cursor' = cursor /\ eos'[s]
    BY <1>4 DEF HasNextThrows, TypeOK
  <2>2. StepsToEos(s)' = StepsToEos(s) /\ StepsToEos(s) \in Int
    BY <1>1, <2>1 DEF StepsToEos
  <2>3. QED
    BY <2>1, <2>2
<1>5. CASE ReadRow(s)
  <2>1. /\ pc[s] = "read"
        /\ \/ pc'[s] = "read" /\ cursor'[s] = cursor[s] + 1
           \/ pc'[s] = "fill" /\ cursor'[s] \in {cursor[s], Rows[s] + 1}
    BY <1>5 DEF ReadRow, Advanced, TypeOK
  <2>2. QED
    BY <1>1, <2>1 DEF StepsToEos
<1>6. CASE FillChunk(s)
  <2>1. pc[s] = "fill" /\ pc'[s] = "open" /\ cursor' = cursor
    BY <1>6 DEF FillChunk, TypeOK
  <2>2. QED
    BY <1>1, <2>1 DEF StepsToEos
<1>7. CASE ReadThrows(s)
  <2>1. pc[s] = "read" /\ pc'[s] = "dead" /\ cursor' = cursor
    BY <1>7 DEF ReadThrows, Die, reading
  <2>2. QED
    BY <1>1, <2>1 DEF StepsToEos
<1>8. QED
  BY <1>2, <1>3, <1>4, <1>5, <1>6, <1>7 DEF GetNext

\* Nothing else adds to it: a scanner that is open is not opened again, and
\* other scanners have their own result set.
LEMMA OthersKeepScan ==
  ASSUME TypeOK, [Next]_vars, NEW s \in Scanners, pc[s] \in {"open", "read", "fill"}
  PROVE  StepsToEos(s)' <= StepsToEos(s)
<1>1. /\ Rows[s] \in Nat /\ cursor[s] \in Nat /\ cursor[s] <= Rows[s] + 1
      /\ StepsToEos(s) \in Int
  <2>1. Rows[s] \in Nat /\ cursor[s] \in Nat /\ cursor[s] <= Rows[s] + 1
    BY RowsAssumption DEF TypeOK
  <2>2. QED
    BY <2>1 DEF StepsToEos
<1>2. ASSUME cursor'[s] = cursor[s], pc'[s] \in {pc[s], "closed", "leaked", "dead"}
      PROVE  StepsToEos(s)' <= StepsToEos(s)
  BY <1>1, <1>2 DEF StepsToEos
<1>3. CASE Die
  <2>1. cursor' = cursor /\ pc'[s] = "dead"
    BY <1>3 DEF Die, reading
  <2>2. QED
    BY <1>2, <2>1
<1>4. CASE UNCHANGED vars
  BY <1>2, <1>4 DEF vars
<1>5. CASE GetNext(s)
  <2>1. StepsToEos(s)' \in Int
    <3>1. cursor'[s] \in Int
      BY <1>1, <1>5 DEF GetNext, HasNext, HasNextThrows, ReadRow, FillChunk, ReadThrows,
                        Die, reading, Advanced, TypeOK
    <3>2. QED
      BY <1>1, <3>1 DEF StepsToEos
  <2>2. QED
    BY <1>1, <1>5, <2>1, GetNextShortens
<1>6. ASSUME NEW u \in Scanners, GetNext(u), u # s, ~Die
      PROVE  StepsToEos(s)' <= StepsToEos(s)
  <2>1. cursor'[s] = cursor[s] /\ pc'[s] = pc[s]
    BY <1>6 DEF GetNext, HasNext, HasNextThrows, ReadRow, FillChunk, ReadThrows, TypeOK
  <2>2. QED
    BY <1>2, <2>1
<1>7. ASSUME NEW u \in Scanners, Open(u) \/ Close(u) \/ CloseThrows(u), ~Die
      PROVE  StepsToEos(s)' <= StepsToEos(s)
  <2>1. cursor' = cursor /\ pc'[s] \in {pc[s], "closed", "leaked"}
    BY <1>7 DEF Open, GetSource, SourceFails, GetConnection, ConnectTimesOut, Execute,
                ExecuteFails, Close, CloseThrows, reading, TypeOK
  <2>2. QED
    BY <1>2, <2>1
<1>8. QED
  BY <1>3, <1>4, <1>5, <1>6, <1>7 DEF Next, Crash

\* A scan of any length comes closer to *eos with every step of get_next,
\* whatever the chunk size and however many scanners run beside it: ScanEnds
\* is left with the owner's calling get_next again.
THEOREM ScansShorten == Spec => ScanShortens
<1>1. TypeOK /\ TypeOK' /\ [Next]_vars =>
        [\A s \in Scanners : pc[s] \in {"open", "read", "fill"} =>
           /\ StepsToEos(s)' <= StepsToEos(s)
           /\ GetNext(s) => StepsToEos(s)' < StepsToEos(s) \/ eos'[s]]_vars
  BY GetNextShortens, OthersKeepScan
<1>2. QED
  BY <1>1, TypeCorrect, PTL DEF Spec, ScanShortens
=============================================================================
