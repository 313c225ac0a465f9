----------------------------- MODULE JDBCScanner -----------------------------
(***************************************************************************)
(* A JDBC scan: the Java JDBCScanner (fe/.../jdbcbridge/JDBCScanner.java), *)
(* the DataSourceCache all scanners share, and the calls the C++           *)
(* JDBCScanner (be/scanner/jdbc_scanner.cpp) makes on it through JNI.      *)
(*                                                                         *)
(* open() is one step per call it makes on something shared: the cache of  *)
(* data sources, the connection pool, the database.  get_next() asks       *)
(* hasNext(), then has getNextChunk() fill the scanner's row arrays, one   *)
(* step per turn of its loop, and hands them over with getResultNumRows(). *)
(*                                                                         *)
(* A row is its number in the query's result.  HikariCP and the JDBC       *)
(* driver are external: a pool hands out at most PoolSize connections, a   *)
(* result set is read forward and next() stays false after the last row.   *)
(*                                                                         *)
(* The C++ side ignores the status of every step.  After a failed open()   *)
(* or a failed getNextChunk() it goes on with a null java.util.List, and   *)
(* the virtual machine does not survive the next call on it.               *)
(***************************************************************************)
EXTENDS Integers, Sequences, FiniteSets

CONSTANTS
  Scanners,     \* scanner objects, C++ and Java
  Keys,         \* user + "/" + jdbcURL
  KeyOf,        \* [Scanners -> Keys]
  Pools,        \* HikariDataSource objects
  PoolSize,     \* connection_pool_size
  ChunkSize,    \* statement_fetch_size
  Rows,         \* [Scanners -> Nat], rows in the result of the query
  Faults,       \* which failures of database and driver may happen
  Breaking,     \* scanners whose ResultSet.next() may throw
  CallsClose,   \* whether the owner of a scanner calls _close_jdbc_scanner
  None          \* null

ASSUME KeyAssumption == KeyOf \in [Scanners -> Keys]
ASSUME PoolSizeAssumption == PoolSize \in Nat \ {0}
ASSUME ChunkSizeAssumption == ChunkSize \in Nat \ {0}
ASSUME RowsAssumption == Rows \in [Scanners -> Nat]
ASSUME FiniteAssumption == IsFiniteSet(Scanners)
ASSUME FaultsAssumption ==
  Faults \subseteq {"source", "connect", "execute", "columns", "getObject", "close"}
ASSUME BreakingAssumption == Breaking \subseteq Scanners
ASSUME CallsCloseAssumption == CallsClose \in BOOLEAN
ASSUME NoneAssumption == None \notin Pools

VARIABLES
  sources,      \* DataSourceCache.sources: [Keys -> Pools \cup {None}]
  used,         \* the connections out: [Pools -> SUBSET Scanners]
  pc,           \* where each scanner is
  dataSource,   \* its data source: [Scanners -> Pools \cup {None}]
  columns,      \* resultChunk has an array for every column
  cursor,       \* row its ResultSet is on, 0 before the first
  num,          \* resultNumRows
  chunk,        \* resultChunk: [Scanners -> [0..ChunkSize-1 -> row number]]
  fetched,      \* the rows that have crossed JNI to the C++ side so far
  eos           \* what get_next last said in *eos

shared == <<sources, used, dataSource>>
reading == <<columns, cursor, num, chunk, fetched, eos>>
vars == <<sources, used, pc, dataSource, columns, cursor, num, chunk, fetched, eos>>

\* With a connection and not yet closed.
ConnectedPCs == {"execute", "open", "read", "fill", "leaked"}
PCs == {"new", "connect", "closed", "dead"} \cup ConnectedPCs

Init ==
  /\ sources = [k \in Keys |-> None]
  /\ used = [p \in Pools |-> {}]
  /\ pc = [s \in Scanners |-> "new"]
  /\ dataSource = [s \in Scanners |-> None]
  /\ columns = [s \in Scanners |-> FALSE]
  /\ cursor = [s \in Scanners |-> 0]
  /\ num = [s \in Scanners |-> 0]
  /\ chunk = [s \in Scanners |-> [i \in 0..ChunkSize-1 |-> 0]]
  /\ fetched = [s \in Scanners |-> << >>]
  /\ eos = [s \in Scanners |-> FALSE]

\* A JNI call on a null object ends the process with all its scanners; the
\* database drops their connections.
Die ==
  /\ pc' = [s \in Scanners |-> "dead"]
  /\ sources' = [k \in Keys |-> None]
  /\ used' = [p \in Pools |-> {}]
  /\ dataSource' = [s \in Scanners |-> None]
  /\ UNCHANGED reading

-----------------------------------------------------------------------------
(***************************************************************************)
(* open()                                                                  *)
(***************************************************************************)

FreshPools == Pools \ ({ sources[k] : k \in Keys } \cup { dataSource[s] : s \in Scanners })

\* Mutant: the cache is filled but not consulted.
GetSourceUncached(s) ==
  /\ pc[s] = "new"
  /\ \E p \in FreshPools :
       /\ dataSource' = [dataSource EXCEPT ![s] = p]
       /\ sources' = [sources EXCEPT ![KeyOf[s]] = p]
  /\ pc' = [pc EXCEPT ![s] = "connect"]
  /\ UNCHANGED <<used, reading>>

\* DataSourceCache.getSource: computeIfAbsent creates the data source of a
\* key once, however many scanners ask for it at the same time.
GetSource(s) ==
  /\ pc[s] = "new"
  /\ \E p \in Pools :
       /\ \/ p = sources[KeyOf[s]]
          \/ sources[KeyOf[s]] = None /\ p \in FreshPools
       /\ dataSource' = [dataSource EXCEPT ![s] = p]
       /\ sources' = [sources EXCEPT ![KeyOf[s]] = p]
  /\ pc' = [pc EXCEPT ![s] = "connect"]
  /\ UNCHANGED <<used, reading>>

\* new HikariDataSource(config) throws, computeIfAbsent keeps nothing.
SourceFails(s) ==
  /\ pc[s] = "new" /\ "source" \in Faults
  /\ sources[KeyOf[s]] = None
  /\ Die

\* dataSource.getConnection() waits for a connection of the pool.
GetConnection(s) ==
  /\ pc[s] = "connect"
  /\ Cardinality(used[dataSource[s]]) < PoolSize
  /\ used' = [used EXCEPT ![dataSource[s]] = @ \cup {s}]
  /\ pc' = [pc EXCEPT ![s] = "execute"]
  /\ UNCHANGED <<sources, dataSource, reading>>

\* getConnection() gives up: no connection came back, or the database does
\* not answer.
ConnectTimesOut(s) ==
  /\ pc[s] = "connect"
  /\ Cardinality(used[dataSource[s]]) >= PoolSize \/ "connect" \in Faults
  /\ Die

\* The statement is executed and the arrays are made.  If the class of a
\* column cannot be loaded the arrays are incomplete; open() throws, and the
\* C++ side, which finds a list of column names, goes on.
Execute(s) ==
  /\ pc[s] = "execute"
  /\ \E all \in BOOLEAN :
       /\ all \/ "columns" \in Faults
       /\ columns' = [columns EXCEPT ![s] = all]
  /\ pc' = [pc EXCEPT ![s] = "open"]
  /\ UNCHANGED <<shared, cursor, num, chunk, fetched, eos>>

\* statement.execute() throws before there is a list of column names.
ExecuteFails(s) ==
  /\ pc[s] = "execute" /\ "execute" \in Faults
  /\ Die

-----------------------------------------------------------------------------
(***************************************************************************)
(* get_next()                                                              *)
(***************************************************************************)

\* resultSet.next(): on to the next row, or past the last one for good.
HasRowAfter(s) == cursor[s] < Rows[s]
Advanced(s) == IF HasRowAfter(s) THEN cursor[s] + 1 ELSE Rows[s] + 1

\* Mutant: *eos is not set.
HasNextNoEos(s) ==
  /\ pc[s] = "open"
  /\ cursor' = [cursor EXCEPT ![s] = Advanced(s)]
  /\ num' = IF HasRowAfter(s) THEN [num EXCEPT ![s] = 0] ELSE num
  /\ pc' = IF HasRowAfter(s) THEN [pc EXCEPT ![s] = "read"] ELSE pc
  /\ UNCHANGED <<shared, columns, chunk, fetched, eos>>

\* Mutant: hasNext looks at the next row and does not move to it.
HasNextPeeks(s) ==
  /\ pc[s] = "open"
  /\ num' = IF HasRowAfter(s) THEN [num EXCEPT ![s] = 0] ELSE num
  /\ pc' = IF HasRowAfter(s) THEN [pc EXCEPT ![s] = "read"] ELSE pc
  /\ eos' = [eos EXCEPT ![s] = ~HasRowAfter(s)]
  /\ UNCHANGED <<shared, columns, cursor, chunk, fetched>>

\* Mutant: a chunk is fetched whatever hasNext() has answered.
HasNextUnchecked(s) ==
  /\ pc[s] = "open"
  /\ cursor' = [cursor EXCEPT ![s] = Advanced(s)]
  /\ num' = [num EXCEPT ![s] = 0]
  /\ pc' = [pc EXCEPT ![s] = "read"]
  /\ UNCHANGED <<shared, columns, chunk, fetched, eos>>

\* hasNext() moves to the first row of the next chunk and getNextChunk() is
\* called, or there is none and get_next ends with *eos.
HasNext(s) ==
  /\ pc[s] = "open"
  /\ cursor' = [cursor EXCEPT ![s] = Advanced(s)]
  /\ num' = IF HasRowAfter(s) THEN [num EXCEPT ![s] = 0] ELSE num
  /\ pc' = IF HasRowAfter(s) THEN [pc EXCEPT ![s] = "read"] ELSE pc
  /\ eos' = [eos EXCEPT ![s] = ~HasRowAfter(s)]
  /\ UNCHANGED <<shared, columns, chunk, fetched>>

\* hasNext() throws: has_next keeps its initial value, false.  The result set
\* stays on its row.
HasNextThrows(s) ==
  /\ pc[s] = "open" /\ s \in Breaking
  /\ eos' = [eos EXCEPT ![s] = TRUE]
  /\ UNCHANGED <<shared, pc, columns, cursor, num, chunk, fetched>>

\* Mutant: one row too many.
RoomAfterOffByOne(s) == num[s] + 1 <= ChunkSize

\* resultNumRows < chunkSize, once the row is counted.
RoomAfter(s) == num[s] + 1 < ChunkSize

\* Mutant: the loop condition the other way round.
ReadRowNextFirst(s) ==
  /\ pc[s] = "read" /\ columns[s]
  /\ chunk' = [chunk EXCEPT ![s][num[s]] = cursor[s]]
  /\ num' = [num EXCEPT ![s] = @ + 1]
  /\ cursor' = [cursor EXCEPT ![s] = Advanced(s)]
  /\ pc' = [pc EXCEPT ![s] = IF RoomAfter(s) /\ HasRowAfter(s) THEN "read" ELSE "fill"]
  /\ UNCHANGED <<shared, columns, fetched, eos>>

\* One turn of getNextChunk's loop: the current row is stored, and unless
\* the arrays are full the result set moves on.
ReadRow(s) ==
  /\ pc[s] = "read" /\ columns[s]
  /\ chunk' = [chunk EXCEPT ![s][num[s]] = cursor[s]]
  /\ num' = [num EXCEPT ![s] = @ + 1]
  /\ cursor' = [cursor EXCEPT ![s] = IF RoomAfter(s) THEN Advanced(s) ELSE @]
  /\ pc' = [pc EXCEPT ![s] = IF RoomAfter(s) /\ HasRowAfter(s) THEN "read" ELSE "fill"]
  /\ UNCHANGED <<shared, columns, fetched, eos>>

\* getNextChunk() throws; _file_chunk then calls list_get on null.
ReadThrows(s) ==
  /\ pc[s] = "read"
  /\ ~columns[s] \/ "getObject" \in Faults \/ s \in Breaking
  /\ Die

\* _get_next_chunk returns the arrays and getResultNumRows(): that many rows
\* are now on the C++ side, and get_next is done.  _file_chunk resets *chunk
\* and walks over the columns; copying them is a todo there, so the caller of
\* get_next is given none of the rows.
FillChunk(s) ==
  /\ pc[s] = "fill"
  /\ fetched' = [fetched EXCEPT ![s] = @ \o [i \in 1..num[s] |-> chunk[s][i-1]]]
  /\ pc' = [pc EXCEPT ![s] = "open"]
  /\ UNCHANGED <<shared, columns, cursor, num, chunk, eos>>

-----------------------------------------------------------------------------
(***************************************************************************)
(* close()                                                                 *)
(***************************************************************************)

\* Mutant: the connection is not given back.
CloseKeepsConnection(s) ==
  /\ pc[s] = "open" /\ CallsClose
  /\ pc' = [pc EXCEPT ![s] = "closed"]
  /\ UNCHANGED <<shared, reading>>

\* _close_jdbc_scanner.  The C++ code has the function and no call of it;
\* CallsClose tells the two situations apart.
Close(s) ==
  /\ pc[s] = "open" /\ CallsClose
  /\ used' = [used EXCEPT ![dataSource[s]] = @ \ {s}]
  /\ pc' = [pc EXCEPT ![s] = "closed"]
  /\ UNCHANGED <<sources, dataSource, reading>>

\* resultSet.close() or statement.close() throws, and connection.close() is
\* not reached.
CloseThrows(s) ==
  /\ pc[s] = "open" /\ CallsClose /\ "close" \in Faults
  /\ pc' = [pc EXCEPT ![s] = "leaked"]
  /\ UNCHANGED <<shared, reading>>

-----------------------------------------------------------------------------
Open(s) ==
  \/ GetSource(s) \/ SourceFails(s)
  \/ GetConnection(s) \/ ConnectTimesOut(s)
  \/ Execute(s) \/ ExecuteFails(s)

GetNext(s) ==
  \/ HasNext(s) \/ HasNextThrows(s)
  \/ ReadRow(s) \/ ReadThrows(s)
  \/ FillChunk(s)

\* The process ends for a reason outside the scanners.
Crash ==
  /\ \E s \in Scanners : pc[s] # "dead"
  /\ Die

Next ==
  \/ Crash
  \/ \E s \in Scanners : Open(s) \/ GetNext(s) \/ Close(s) \/ CloseThrows(s)

Spec == Init /\ [][Next]_vars

\* A scanner's owner calls get_next again until it is told the end.
FairSpec == Spec /\ \A s \in Scanners : WF_vars(Open(s)) /\ WF_vars(GetNext(s))

-----------------------------------------------------------------------------
TypeOK ==
  /\ sources \in [Keys -> Pools \cup {None}]
  /\ used \in [Pools -> SUBSET Scanners]
  /\ pc \in [Scanners -> PCs]
  /\ dataSource \in [Scanners -> Pools \cup {None}]
  /\ columns \in [Scanners -> BOOLEAN]
  /\ cursor \in [Scanners -> Nat]
  /\ \A s \in Scanners : cursor[s] <= Rows[s] + 1
  /\ num \in [Scanners -> 0..ChunkSize]
  /\ chunk \in [Scanners -> [0..ChunkSize-1 -> Nat]]
  /\ fetched \in [Scanners -> Seq(Nat)]
  /\ eos \in [Scanners -> BOOLEAN]

(***************************************************************************)
(* No more than connection_pool_size connections are out for one user and  *)
(* url, however many scanners open at the same time: they must all have    *)
(* found the same data source in the cache.                                *)
(***************************************************************************)
Connected(k) == { s \in Scanners : KeyOf[s] = k /\ pc[s] \in ConnectedPCs }
PoolLimit == \A k \in Keys : Cardinality(Connected(k)) <= PoolSize

(***************************************************************************)
(* The pools' books are right: a connection is out exactly for the         *)
(* scanners between getConnection() and a close() that succeeded, on the   *)
(* data source their key leads to.  A connection lost here is lost to all  *)
(* later scans.                                                            *)
(***************************************************************************)
ConnectionsAccounted ==
  \A p \in Pools, s \in Scanners :
    s \in used[p] <=> pc[s] \in ConnectedPCs /\ sources[KeyOf[s]] = p

(***************************************************************************)
(* Every row crosses JNI once, in order and in full chunks, and *eos comes *)
(* only after the last one, although hasNext() moves the cursor and        *)
(* getNextChunk() reuses its arrays.  A scan whose result set breaks may   *)
(* report *eos early, and still no row comes twice, late or out of order.  *)
(***************************************************************************)
Stream == INSTANCE RowStream WITH fetched <- fetched, eos <- eos
RowStreamSpec == Stream!Spec

(***************************************************************************)
(* The part of ScanEnds that needs no fairness: what a scan can still do   *)
(* before *eos is bounded by the rows left, every step of get_next uses up *)
(* some of it or reports *eos, and no other scanner gives it more.         *)
(***************************************************************************)
StepsToEos(s) ==
  3 * (Rows[s] + 1 - cursor[s])
    + (CASE pc[s] = "read" -> 2 [] pc[s] = "fill" -> 1 [] OTHER -> 0)
ScanShortens ==
  [][\A s \in Scanners : pc[s] \in {"open", "read", "fill"} =>
       /\ StepsToEos(s)' <= StepsToEos(s)
       /\ GetNext(s) => StepsToEos(s)' < StepsToEos(s) \/ eos'[s]]_vars

(***************************************************************************)
(* A scan ends: reading reaches *eos unless the scanner is closed or the   *)
(* process dies.                                                           *)
(***************************************************************************)
ScanEnds == \A s \in Scanners : pc[s] = "open" ~> eos[s] \/ pc[s] \in {"closed", "leaked", "dead"}
=============================================================================
