--------------------------- MODULE JNIScannerProofs ---------------------------
(***************************************************************************)
(* Theorems about JNIScanner.  For any number of threads: its types, that  *)
(* exceptions do not outlive their calls, the size of the pools and the    *)
(* length of the calls.  For a process whose scanners all run on one       *)
(* thread, as in main: that it implements JDBCScanner.                     *)
(***************************************************************************)
EXTENDS JNIScanner, SequenceTheorems, FiniteSetTheorems, TLAPS

(***************************************************************************)
(* What the places of a scanner say about its other state.                 *)
(***************************************************************************)
BeforeSource == {"new", "bridge", "bridgeThrew", "context", "source"}
BeforeConnection == BeforeSource \cup {"connect"}
PlaceOK(s) ==
  /\ at[s] \in BeforeSource => dataSource[s] = None
  /\ at[s] \in {"connect", "execute"} => dataSource[s] \in Pools
  /\ at[s] \in BeforeConnection => \A p \in Pools : s \notin used[p]
  /\ at[s] = "execute" => s \in used[dataSource[s]]
  /\ at[s] = "checkNext" => hasNext[s] # "none"
  /\ hasNext[s] # "none" => at[s] \in {"checkNext", "dead"}
  /\ at[s] = "loop" => num[s] < ChunkSize

SInv == JNITypeOK /\ \A s \in Scanners : PlaceOK(s)

\* A scanner in use has an environment to call through.
EnvInv == \A s \in Scanners : at[s] \notin {"new", "dead"} => Env(s) \in Threads

\* The rows taken from an array are a sequence.
LEMMA StoredRows ==
  ASSUME NEW n \in 0..ChunkSize, NEW f \in [0..ChunkSize-1 -> Nat]
  PROVE  [i \in 1..n |-> f[i-1]] \in Seq(Nat)
<1>1. n \in Nat /\ \A i \in 1..n : i-1 \in 0..ChunkSize-1
  BY ChunkSizeAssumption
<1>2. [i \in 1..n |-> f[i-1]] \in [1..n -> Nat]
  BY <1>1
<1> QED  BY <1>1, <1>2, SeqDef

USE KeyAssumption, PoolSizeAssumption, ChunkSizeAssumption, RowsAssumption,
    ThreadAssumption, NullAssumption

LEMMA InitSInv == Init => SInv
BY DEF Init, SInv, JNITypeOK, PlaceOK, Places, Idle, BeforeSource, BeforeConnection

\* The end of the process.
LEMMA DieSInv == SInv /\ Die => SInv'
BY DEF Die, SInv, JNITypeOK, PlaceOK, Places, Idle, BeforeSource, BeforeConnection

\* A step that only moves a scanner and touches the JNIEnv.
LEMMA MoveSInv ==
  ASSUME NEW s \in Scanners, NEW place \in Places, SInv, Goto(s, place),
         UNCHANGED <<java, num, eos, hasNext, jniInit>>,
         place \in BeforeConnection => at[s] \in BeforeConnection,
         place \in BeforeSource => dataSource[s] = None,
         place \notin {"connect", "execute", "checkNext", "loop"},
         hasNext[s] = "none",
         env' \in [Threads -> Threads \cup {None}],
         pending' \in [Threads -> Scanners \cup {None}]
  PROVE  SInv'
BY DEF Goto, java, SInv, JNITypeOK, PlaceOK, Places, Idle, BeforeSource, BeforeConnection

LEMMA CallSInv ==
  ASSUME NEW s \in Scanners, SInv, Call(s)
  PROVE  SInv'
<1> USE DEF SInv, JNITypeOK, PlaceOK, Places, Idle, BeforeSource, BeforeConnection
<1>1. CASE GetInstance(s)
  BY <1>1 DEF GetInstance, Creator, Goto, java
<1>2. CASE CreateVMFails(s)
  BY <1>2, DieSInv DEF CreateVMFails
<1>3. CASE CallHasNext(s)
  <2>1. cursor' \in [Scanners -> Nat]
    BY <1>3 DEF CallHasNext, J!Advanced, J!HasRowAfter
  <2> QED  BY <1>3, <2>1 DEF CallHasNext, Goto, machine
<1>4. CASE HasNextThrows(s)
  BY <1>4 DEF HasNextThrows, Goto, Throws, Env, java
<1>5. CASE CallClose(s)
  BY <1>5 DEF CallClose, Goto, machine
<1>6. CASE CloseThrows(s)
  BY <1>6 DEF CloseThrows, Goto, Throws, Env, java
<1> QED  BY <1>1, <1>2, <1>3, <1>4, <1>5, <1>6 DEF Call

LEMMA StepSInv ==
  ASSUME NEW s \in Scanners, SInv, EnvInv, Step(s)
  PROVE  SInv'
<1> USE DEF SInv, JNITypeOK, PlaceOK, Places, Idle, BeforeSource, BeforeConnection
<1>1. CASE InitBridge(s) \/ BridgeThrows(s) \/ CheckBridge(s) \/ InitScanContext(s)
  <2> USE DEF InitBridge, BridgeThrows, CheckBridge, InitScanContext
  <2>1. pending' \in [Threads -> Scanners \cup {None}]
    <3>1. pending \in [Threads -> Scanners \cup {None}]
      OBVIOUS
    <3>2. PICK x \in Scanners \cup {None} : pending' = [pending EXCEPT ![Env(s)] = x]
      BY <1>1 DEF Check, ClearException, Throws
    <3> HIDE DEF SInv, JNITypeOK, PlaceOK
    <3> QED  BY <3>1, <3>2
  <2>2. hasNext[s] = "none" /\ dataSource[s] = None /\ at[s] \in BeforeConnection
    BY <1>1
  <2>3. env' \in [Threads -> Threads \cup {None}]
    BY <1>1
  <2>4. PICK place \in {"bridgeThrew", "context", "source"} : Goto(s, place)
    BY <1>1
  <2>5. UNCHANGED <<java, num, eos, hasNext, jniInit>>
    BY <1>1
  <2> HIDE DEF SInv, JNITypeOK, PlaceOK
  <2> QED  BY <2>1, <2>2, <2>3, <2>4, <2>5, MoveSInv
<1>2. CASE BridgeMissing(s) \/ NoColumnNames(s) \/ NoChunk(s)
  BY <1>2, DieSInv DEF BridgeMissing, NoColumnNames, NoChunk
<1>3. CASE GetSource(s)
  <2>1. PICK p \in Pools :
          /\ dataSource' = [dataSource EXCEPT ![s] = p]
          /\ sources' = [sources EXCEPT ![KeyOf[s]] = p]
    BY <1>3 DEF GetSource, J!GetSource
  <2>2. UNCHANGED <<used, columns, cursor, chunk, fetched>>
    BY <1>3 DEF GetSource, J!GetSource, J!reading
  <2> QED  BY <1>3, <2>1, <2>2 DEF GetSource, Goto, machine
<1>4. CASE GetConnection(s)
  <2>1. used' = [used EXCEPT ![dataSource[s]] = @ \cup {s}]
    BY <1>4 DEF GetConnection, J!GetConnection
  <2>2. at[s] = "connect" /\ at' = [at EXCEPT ![s] = "execute"]
    BY <1>4 DEF GetConnection, Goto
  <2>3. UNCHANGED <<num, eos, hasNext, machine, sources, dataSource, columns, cursor, chunk, fetched>>
    BY <1>4 DEF GetConnection, J!GetConnection, J!reading
  <2>4. JNITypeOK'
    <3>1. used' \in [Pools -> SUBSET Scanners]
      <4>1. used \in [Pools -> SUBSET Scanners]
        OBVIOUS
      <4> HIDE DEF SInv, JNITypeOK, PlaceOK
      <4> QED  BY <2>1, <4>1
    <3>2. at' \in [Scanners -> Places]
      BY <2>2
    <3> QED  BY <3>1, <3>2, <2>3 DEF machine
  <2>5. \A r \in Scanners : PlaceOK(r)'
    BY <2>1, <2>2, <2>3
  <2> QED  BY <2>4, <2>5
<1>5. CASE Execute(s)
  <2>1. columns' \in [Scanners -> BOOLEAN]
    BY <1>5 DEF Execute, J!Execute
  <2>2. pending' \in [Threads -> Scanners \cup {None}]
    <3>1. pending' = pending \/ Throws(s)
      <4> HIDE DEF SInv, JNITypeOK, PlaceOK
      <4> QED  BY <1>5, Zenon DEF Execute
    <3>2. pending \in [Threads -> Scanners \cup {None}]
      OBVIOUS
    <3> HIDE DEF SInv, JNITypeOK, PlaceOK
    <3> QED  BY <3>1, <3>2 DEF Throws
  <2>3. UNCHANGED <<sources, used, dataSource, cursor, chunk, fetched>>
    BY <1>5 DEF Execute, J!Execute, J!shared
  <2> QED  BY <1>5, <2>1, <2>2, <2>3 DEF Execute, Goto
<1>6. CASE OpenThrows(s)
  <2>1. pending' \in [Threads -> Scanners \cup {None}]
    BY <1>6 DEF OpenThrows, Throws
  <2>2. hasNext[s] = "none" /\ UNCHANGED <<java, num, eos, hasNext, jniInit, env>>
    BY <1>6 DEF OpenThrows, OpenFault
  <2>3. Goto(s, "openThrew")
    BY <1>6 DEF OpenThrows
  <2>4. env' \in [Threads -> Threads \cup {None}]
    BY <2>2
  <2> HIDE DEF SInv, JNITypeOK, PlaceOK
  <2> QED  BY <2>1, <2>2, <2>3, <2>4, MoveSInv
<1>7. CASE CheckOpen(s) \/ InitColumns(s)
  <2>1. pending' \in [Threads -> Scanners \cup {None}]
    BY <1>7 DEF CheckOpen, InitColumns, Check, ClearException
  <2>2. hasNext[s] = "none" /\ UNCHANGED <<java, num, eos, hasNext, jniInit, env>>
    BY <1>7 DEF CheckOpen, InitColumns
  <2>3. PICK place \in {"names", "noNames", "ready"} : Goto(s, place)
    BY <1>7 DEF CheckOpen, InitColumns
  <2>4. env' \in [Threads -> Threads \cup {None}]
    BY <2>2
  <2> HIDE DEF SInv, JNITypeOK, PlaceOK
  <2> QED  BY <2>1, <2>2, <2>3, <2>4, MoveSInv
<1>8. CASE CheckHasNext(s)
  <2>1. at[s] = "checkNext" /\ UNCHANGED <<java, jniInit, env>>
    BY <1>8 DEF CheckHasNext
  <2>2. hasNext' = [hasNext EXCEPT ![s] = "none"]
    BY <1>8 DEF CheckHasNext
  <2>3. eos' \in [Scanners -> BOOLEAN] /\ pending' \in [Threads -> Scanners \cup {None}]
    BY <1>8 DEF CheckHasNext, Check, ClearException
  <2>4. PICK place \in {"loop", "ready"} :
          /\ at' = [at EXCEPT ![s] = place]
          /\ num' \in {num, [num EXCEPT ![s] = 0]}
          /\ place = "loop" => num' = [num EXCEPT ![s] = 0]
    <3> HIDE DEF SInv, JNITypeOK, PlaceOK
    <3> QED  BY <1>8, Zenon DEF CheckHasNext, Goto
  <2>5. JNITypeOK'
    <3>1. num' \in [Scanners -> 0..ChunkSize]
      <4>1. num \in [Scanners -> 0..ChunkSize] /\ 0 \in 0..ChunkSize
        OBVIOUS
      <4>2. num' = num \/ num' = [num EXCEPT ![s] = 0]
        BY <2>4
      <4> HIDE DEF SInv, JNITypeOK, PlaceOK
      <4> QED  BY <4>1, <4>2
    <3>2. at' \in [Scanners -> Places] /\ hasNext' \in [Scanners -> {"none", "more", "end"}]
      BY <2>2, <2>4
    <3> QED  BY <2>1, <2>3, <3>1, <3>2 DEF java
  <2>6. \A r \in Scanners : PlaceOK(r)'
    BY <2>1, <2>2, <2>4 DEF java
  <2> QED  BY <2>5, <2>6
<1>9. CASE ReadRow(s)
  <2>1. at[s] = "loop" /\ UNCHANGED <<eos, hasNext, machine>>
    BY <1>9 DEF ReadRow
  <2>2. hasNext[s] = "none" /\ num[s] \in 0..ChunkSize-1
    <3>1. hasNext[s] = "none"
      BY <2>1
    <3>2. num[s] \in 0..ChunkSize /\ num[s] < ChunkSize
      BY <2>1
    <3> QED  BY <3>1, <3>2
  <2>3. numBar[s] = num[s]
    BY <2>2 DEF numBar
  <2>4. cursor' \in [Scanners -> Nat]
    <3>1. cursor' = [cursor EXCEPT ![s] = IF J!RoomAfter(s) THEN J!Advanced(s) ELSE @]
      BY <1>9 DEF ReadRow, J!ReadRow
    <3>2. J!Advanced(s) \in Nat
      BY DEF J!Advanced, J!HasRowAfter
    <3> HIDE DEF PlaceOK
    <3> QED  BY <3>1, <3>2
  <2>5. chunk' \in [Scanners -> [0..ChunkSize-1 -> Nat]]
    BY <1>9, <2>2, <2>3 DEF ReadRow, J!ReadRow
  <2>6. UNCHANGED <<sources, used, dataSource, columns, fetched>>
    BY <1>9 DEF ReadRow, J!ReadRow, J!shared
  <2>7. num' = [num EXCEPT ![s] = @ + 1]
    BY <1>9 DEF ReadRow
  <2>8. PICK place \in {"loop", "gotChunk"} :
          /\ at' = [at EXCEPT ![s] = place]
          /\ place = "loop" => num[s] + 1 < ChunkSize
    BY <1>9, <2>3 DEF ReadRow, Goto, J!RoomAfter
  <2>9. JNITypeOK'
    <3>1. num' \in [Scanners -> 0..ChunkSize]
      BY <2>2, <2>7
    <3>2. at' \in [Scanners -> Places]
      BY <2>8
    <3> QED  BY <3>1, <3>2, <2>1, <2>4, <2>5, <2>6 DEF machine
  <2>10. \A r \in Scanners : PlaceOK(r)'
    BY <2>1, <2>2, <2>6, <2>7, <2>8
  <2> QED  BY <2>9, <2>10
<1>10. CASE ReadThrows(s)
  BY <1>10 DEF ReadThrows, Goto, Throws, Env, java
<1>11. CASE CheckChunk(s)
  <2>1. pending' \in [Threads -> Scanners \cup {None}]
    BY <1>11 DEF CheckChunk, Check, ClearException
  <2>2. hasNext[s] = "none" /\ UNCHANGED <<java, num, eos, hasNext, jniInit, env>>
    BY <1>11 DEF CheckChunk
  <2>3. PICK place \in {"file", "noRows", "noChunk"} : Goto(s, place)
    BY <1>11 DEF CheckChunk
  <2>4. env' \in [Threads -> Threads \cup {None}]
    BY <2>2
  <2> HIDE DEF SInv, JNITypeOK, PlaceOK
  <2> QED  BY <2>1, <2>2, <2>3, <2>4, MoveSInv
<1>12. CASE FileChunk(s)
  <2>1. at[s] \in {"file", "noRows"} /\ at' = [at EXCEPT ![s] = "ready"]
    BY <1>12 DEF FileChunk, Goto
  <2>2. UNCHANGED <<sources, used, dataSource, columns, cursor, chunk, num, eos, hasNext, machine>>
    BY <1>12 DEF FileChunk
  <2>3. fetched' \in [Scanners -> Seq(Nat)]
    <3>1. num[s] \in 0..ChunkSize /\ chunk[s] \in [0..ChunkSize-1 -> Nat]
      OBVIOUS
    <3>2. fetched \in [Scanners -> Seq(Nat)]
      OBVIOUS
    <3> HIDE DEF SInv, JNITypeOK, PlaceOK
    <3>3. PICK n \in 0..ChunkSize : fetched' = [fetched EXCEPT ![s] = @ \o [i \in 1..n |-> chunk[s][i-1]]]
      <4>1. 0 \in 0..ChunkSize
        OBVIOUS
      <4>2. CASE at[s] = "file"
        BY <1>12, <3>1, <4>2 DEF FileChunk
      <4>3. CASE at[s] # "file"
        BY <1>12, <4>1, <4>3 DEF FileChunk
      <4> QED  BY <4>2, <4>3
    <3>4. [i \in 1..n |-> chunk[s][i-1]] \in Seq(Nat)
      BY <3>1, StoredRows
    <3>5. fetched[s] \o [i \in 1..n |-> chunk[s][i-1]] \in Seq(Nat)
      BY <3>2, <3>4
    <3> QED  BY <3>2, <3>3, <3>5
  <2>4. JNITypeOK'
    BY <2>1, <2>2, <2>3 DEF machine
  <2>5. \A r \in Scanners : PlaceOK(r)'
    BY <2>1, <2>2
  <2> QED  BY <2>4, <2>5
<1>13. CASE CheckClose(s)
  <2>1. pending' \in [Threads -> Scanners \cup {None}]
    BY <1>13 DEF CheckClose, Check, ClearException
  <2>2. hasNext[s] = "none" /\ UNCHANGED <<java, num, eos, hasNext, jniInit, env>>
    BY <1>13 DEF CheckClose
  <2>3. PICK place \in {"closed", "leaked"} : Goto(s, place)
    BY <1>13 DEF CheckClose
  <2>4. env' \in [Threads -> Threads \cup {None}]
    BY <2>2
  <2> HIDE DEF SInv, JNITypeOK, PlaceOK
  <2> QED  BY <2>1, <2>2, <2>3, <2>4, MoveSInv
<1> QED
  BY <1>1, <1>2, <1>3, <1>4, <1>5, <1>6, <1>7, <1>8, <1>9, <1>10, <1>11, <1>12, <1>13 DEF Step

LEMMA EnvStep == SInv /\ EnvInv /\ [Next]_vars => EnvInv'
<1> SUFFICES ASSUME SInv, EnvInv, [Next]_vars PROVE EnvInv'
  OBVIOUS
<1>1. CASE UNCHANGED vars
  BY <1>1 DEF EnvInv, Env, vars, machine
<1>2. ASSUME Die PROVE EnvInv'
  BY <1>2 DEF Die, EnvInv
<1>3. ASSUME NEW s \in Scanners, GetInstance(s) PROVE EnvInv'
  <2>1. /\ at' = [at EXCEPT ![s] = "bridge"]
        /\ jniInit' \in Threads
        /\ env' = [env EXCEPT ![ThreadOf[s]] = IF @ = None THEN jniInit' ELSE @]
    BY <1>3 DEF GetInstance, Creator, Goto, SInv, JNITypeOK
  <2>2. env'[ThreadOf[s]] \in Threads /\ \A t \in Threads : env'[t] \in {env[t], env'[ThreadOf[s]]}
    BY <2>1 DEF SInv, JNITypeOK
  <2>3. ASSUME NEW r \in Scanners, at'[r] \notin {"new", "dead"} PROVE env'[ThreadOf[r]] \in Threads
    <3>1. CASE r = s
      BY <3>1, <2>2
    <3>2. CASE r # s
      <4>1. at[r] \notin {"new", "dead"}
        BY <2>1, <2>3, <3>2 DEF SInv, JNITypeOK
      <4> QED  BY <4>1, <2>2 DEF EnvInv, Env
    <3> QED  BY <3>1, <3>2
  <2> QED  BY <2>3 DEF EnvInv, Env
<1>4. ASSUME NEW s \in Scanners, NEW place, at[s] \notin {"new", "dead"},
             at' = [at EXCEPT ![s] = place], UNCHANGED env
      PROVE  EnvInv'
  BY <1>4 DEF EnvInv, Env, SInv, JNITypeOK
<1>5. ASSUME NEW s \in Scanners, Call(s) \/ Step(s) PROVE EnvInv'
  <2>1. CASE GetInstance(s) \/ CreateVMFails(s)
    BY <2>1, <1>2, <1>3 DEF CreateVMFails
  <2>2. CASE CallHasNext(s) \/ HasNextThrows(s) \/ CallClose(s) \/ CloseThrows(s)
    BY <2>2, <1>4 DEF CallHasNext, HasNextThrows, CallClose, CloseThrows, Goto, machine
  <2>3. CASE InitBridge(s) \/ BridgeThrows(s) \/ CheckBridge(s) \/ InitScanContext(s) \/ GetSource(s) \/ GetConnection(s) \/ Execute(s) \/ OpenThrows(s)
    BY <2>3, <1>4 DEF InitBridge, BridgeThrows, CheckBridge, InitScanContext, GetSource, GetConnection, Execute, OpenThrows, OpenFault, Goto, machine
  <2>4. CASE BridgeMissing(s) \/ NoColumnNames(s) \/ NoChunk(s)
    BY <2>4, <1>2 DEF BridgeMissing, NoColumnNames, NoChunk
  <2>5. CASE CheckOpen(s) \/ InitColumns(s) \/ CheckHasNext(s) \/ ReadRow(s)
    BY <2>5, <1>4 DEF CheckOpen, InitColumns, CheckHasNext, ReadRow, Goto, machine
  <2>6. CASE ReadThrows(s) \/ CheckChunk(s) \/ FileChunk(s) \/ CheckClose(s)
    BY <2>6, <1>4 DEF ReadThrows, CheckChunk, FileChunk, CheckClose, Goto, machine
  <2> QED  BY <1>5, <2>1, <2>2, <2>3, <2>4, <2>5, <2>6 DEF Call, Step
<1> QED  BY <1>1, <1>2, <1>5 DEF Next, Crash

LEMMA SInvStep == SInv /\ EnvInv /\ [Next]_vars => SInv'
<1> SUFFICES ASSUME SInv, EnvInv, [Next]_vars PROVE SInv'
  OBVIOUS
<1>1. CASE UNCHANGED vars
  BY <1>1 DEF SInv, JNITypeOK, PlaceOK, vars, java, machine
<1> QED  BY <1>1, DieSInv, CallSInv, StepSInv DEF Next, Crash

LEMMA SInvInvariant == Spec => [](SInv /\ EnvInv)
<1>1. Init => EnvInv
  BY DEF Init, EnvInv
<1> QED  BY <1>1, InitSInv, SInvStep, EnvStep, PTL DEF Spec

(***************************************************************************)
(* Types, with them that resultNumRows never runs past the row arrays.     *)
(***************************************************************************)
THEOREM TypeCorrect == Spec => []JNITypeOK
<1>1. SInv => JNITypeOK
  BY DEF SInv
<1> QED  BY <1>1, SInvInvariant, PTL

-----------------------------------------------------------------------------
(***************************************************************************)
(* Calls and exceptions                                                    *)
(***************************************************************************)

\* A thread is in one call at a time.
OneCall ==
  \A r, s \in Scanners :
    ThreadOf[r] = ThreadOf[s] /\ at[r] \notin Idle /\ at[s] \notin Idle => r = s

\* What the steps of s do to the places of the scanners.
LEMMA Moves ==
  ASSUME NEW s \in Scanners, SInv, Call(s) \/ Step(s), ~Die
  PROVE  /\ \E place \in Places : at' = [at EXCEPT ![s] = place]
         /\ at[s] \notin Idle \/ Free(s)
<1> USE DEF Goto, Places, Idle
<1>1. CASE GetInstance(s) \/ CreateVMFails(s)
  BY <1>1 DEF GetInstance, CreateVMFails
<1>2. CASE CallHasNext(s) \/ HasNextThrows(s) \/ CallClose(s) \/ CloseThrows(s)
  BY <1>2 DEF CallHasNext, HasNextThrows, CallClose, CloseThrows
<1>3. CASE InitBridge(s) \/ BridgeThrows(s) \/ CheckBridge(s) \/ InitScanContext(s) \/ GetSource(s) \/ GetConnection(s) \/ Execute(s) \/ OpenThrows(s)
  BY <1>3 DEF InitBridge, BridgeThrows, CheckBridge, InitScanContext, GetSource, GetConnection, Execute, OpenThrows, OpenFault
<1>4. CASE BridgeMissing(s) \/ NoColumnNames(s) \/ NoChunk(s)
  BY <1>4 DEF BridgeMissing, NoColumnNames, NoChunk
<1>5. CASE CheckOpen(s) \/ InitColumns(s) \/ CheckHasNext(s) \/ ReadRow(s)
  BY <1>5 DEF CheckOpen, InitColumns, CheckHasNext, ReadRow
<1>6. CASE ReadThrows(s) \/ CheckChunk(s) \/ FileChunk(s) \/ CheckClose(s)
  BY <1>6 DEF ReadThrows, CheckChunk, FileChunk, CheckClose
<1> QED  BY <1>1, <1>2, <1>3, <1>4, <1>5, <1>6 DEF Call, Step

LEMMA OneCallStep == SInv /\ OneCall /\ [Next]_vars => OneCall'
<1> SUFFICES ASSUME SInv, OneCall, [Next]_vars PROVE OneCall'
  OBVIOUS
<1>1. CASE UNCHANGED vars
  BY <1>1 DEF OneCall, vars
<1>2. CASE Die
  BY <1>2 DEF Die, OneCall, Idle
<1>3. ASSUME NEW s \in Scanners, Call(s) \/ Step(s), ~Die PROVE OneCall'
  <2>1. PICK place : at' = [at EXCEPT ![s] = place]
    BY <1>3, Moves
  <2>2. at[s] \notin Idle \/ Free(s)
    BY <1>3, Moves
  <2>3. \A r \in Scanners : r # s => at'[r] = at[r]
    BY <2>1 DEF SInv, JNITypeOK
  <2>4. ASSUME NEW r \in Scanners, r # s, ThreadOf[r] = ThreadOf[s] PROVE at'[r] \in Idle
    BY <2>2, <2>3, <2>4 DEF OneCall, Free
  <2> QED  BY <2>3, <2>4 DEF OneCall
<1> QED  BY <1>1, <1>2, <1>3 DEF Next, Crash

LEMMA EnvKept ==
  ASSUME SInv, EnvInv, NEW s \in Scanners, Call(s) \/ Step(s), ~Die
  PROVE  \A r \in Scanners : Env(r) \in Threads => Env(r)' = Env(r)
<1>1. CASE GetInstance(s) \/ CreateVMFails(s)
  BY <1>1 DEF GetInstance, CreateVMFails, Env, SInv, JNITypeOK
<1>2. CASE CallHasNext(s) \/ HasNextThrows(s) \/ CallClose(s) \/ CloseThrows(s)
  BY <1>2 DEF CallHasNext, HasNextThrows, CallClose, CloseThrows, machine, Env
<1>3. CASE InitBridge(s) \/ BridgeThrows(s) \/ CheckBridge(s) \/ InitScanContext(s) \/ GetSource(s) \/ GetConnection(s) \/ Execute(s) \/ OpenThrows(s)
  BY <1>3 DEF InitBridge, BridgeThrows, CheckBridge, InitScanContext, GetSource, GetConnection, Execute, OpenThrows, machine, Env
<1>4. CASE BridgeMissing(s) \/ NoColumnNames(s) \/ NoChunk(s)
  BY <1>4 DEF BridgeMissing, NoColumnNames, NoChunk
<1>5. CASE CheckOpen(s) \/ InitColumns(s) \/ CheckHasNext(s) \/ ReadRow(s)
  BY <1>5 DEF CheckOpen, InitColumns, CheckHasNext, ReadRow, machine, Env
<1>6. CASE ReadThrows(s) \/ CheckChunk(s) \/ FileChunk(s) \/ CheckClose(s)
  BY <1>6 DEF ReadThrows, CheckChunk, FileChunk, CheckClose, machine, Env
<1> QED  BY <1>1, <1>2, <1>3, <1>4, <1>5, <1>6 DEF Call, Step

\* The three things a step does with exceptions.
MayThrow == Threw \cup {"opened", "checkNext"}
ExcQuiet(s) == at[s] \notin MayThrow /\ UNCHANGED pending
ExcThrows(s) == at[s] \notin {"new", "dead"} /\ at'[s] \in MayThrow /\ Throws(s)
ExcChecks(s) == at[s] \notin {"new", "dead"} /\ Check(s)

LEMMA ExcCases ==
  ASSUME SInv, NEW s \in Scanners, Call(s) \/ Step(s), ~Die
  PROVE  ExcQuiet(s) \/ ExcThrows(s) \/ ExcChecks(s)
<1>0. at \in [Scanners -> Places]
  BY DEF SInv, JNITypeOK
<1> USE DEF ExcQuiet, ExcThrows, ExcChecks, Goto, MayThrow, Threw
<1>1. CASE GetInstance(s) \/ CreateVMFails(s)
  BY <1>1, <1>0 DEF GetInstance, CreateVMFails
<1>2. CASE CallHasNext(s) \/ CallClose(s)
  BY <1>2, <1>0 DEF CallHasNext, CallClose, machine
<1>3. CASE HasNextThrows(s) \/ CloseThrows(s) \/ BridgeThrows(s) \/ OpenThrows(s) \/ ReadThrows(s)
  BY <1>3, <1>0 DEF BridgeThrows, HasNextThrows, CloseThrows, OpenThrows, OpenFault, ReadThrows
<1>4. CASE GetSource(s) \/ GetConnection(s) \/ ReadRow(s) \/ FileChunk(s)
  BY <1>4, <1>0 DEF GetSource, GetConnection, ReadRow, FileChunk, machine
<1>5. CASE Execute(s)
  <2>1. at[s] = "execute" /\ at' = [at EXCEPT ![s] = "opened"]
    BY <1>5 DEF Execute
  <2>2. UNCHANGED pending \/ Throws(s)
    BY <1>5, Zenon DEF Execute
  <2> QED  BY <2>1, <2>2, <1>0
<1>6. CASE BridgeMissing(s) \/ NoColumnNames(s) \/ NoChunk(s)
  BY <1>6 DEF BridgeMissing, NoColumnNames, NoChunk
<1>7. CASE InitBridge(s) \/ CheckBridge(s) \/ InitScanContext(s) \/ CheckOpen(s) \/ InitColumns(s) \/ CheckHasNext(s) \/ CheckChunk(s) \/ CheckClose(s)
  BY <1>7, <1>0 DEF InitBridge, CheckBridge, InitScanContext, CheckOpen, InitColumns, CheckHasNext, CheckChunk, CheckClose
<1> QED  BY <1>1, <1>2, <1>3, <1>4, <1>5, <1>6, <1>7 DEF Call, Step

LEMMA ExcStep ==
  ASSUME SInv, EnvInv, ExceptionContained, [Next]_vars
  PROVE  ExceptionContained'
<1>1. CASE UNCHANGED vars
  BY <1>1 DEF ExceptionContained, Env, vars, machine
<1>2. CASE Die
  BY <1>2 DEF Die, ExceptionContained
<1>3. ASSUME NEW s \in Scanners, Call(s) \/ Step(s), ~Die PROVE ExceptionContained'
  <2>1. \A r \in Scanners : r # s => at'[r] = at[r]
    BY <1>3, Moves DEF SInv, JNITypeOK
  <2>2. \A r \in Scanners : at[r] \notin {"new", "dead"} => Env(r) \in Threads /\ env'[ThreadOf[r]] = Env(r)
    BY <1>3, EnvKept DEF EnvInv, Env
  <2>3. pending \in [Threads -> Scanners \cup {None}]
    BY DEF SInv, JNITypeOK
  <2>4. ASSUME NEW t \in Threads, pending[t] # None
        PROVE  /\ pending[t] \in Scanners /\ at[pending[t]] \in MayThrow
               /\ Env(pending[t]) = t /\ env'[ThreadOf[pending[t]]] = t
    <3>1. pending[t] \in Scanners /\ at[pending[t]] \in MayThrow /\ Env(pending[t]) = t
      BY <2>3, <2>4 DEF ExceptionContained, MayThrow
    <3> QED  BY <2>2, <3>1 DEF MayThrow, Threw, Env
  <2>5. SUFFICES ASSUME NEW t \in Threads, pending'[t] # None
                 PROVE  at'[pending'[t]] \in MayThrow /\ env'[ThreadOf[pending'[t]]] = t
    BY DEF ExceptionContained, MayThrow, Env
  <2>6. CASE ExcQuiet(s)
    <3>1. pending'[t] = pending[t]
      BY <2>6 DEF ExcQuiet
    <3>2. pending[t] # s
      BY <2>4, <2>5, <2>6, <3>1 DEF ExcQuiet
    <3> QED  BY <2>1, <2>4, <2>5, <3>1, <3>2
  <2>7. CASE ExcThrows(s)
    <3>1. pending' = [pending EXCEPT ![Env(s)] = s] /\ at'[s] \in MayThrow /\ Env(s) \in Threads
      BY <2>2, <2>7 DEF ExcThrows, Throws
    <3>2. CASE t = Env(s)
      BY <2>2, <2>3, <2>7, <3>1, <3>2 DEF ExcThrows
    <3>3. CASE t # Env(s)
      <4>1. pending'[t] = pending[t]
        BY <2>3, <3>1, <3>3
      <4>2. pending[t] # s
        BY <2>4, <2>5, <3>3, <4>1
      <4> QED  BY <2>1, <2>4, <2>5, <4>1, <4>2
    <3> QED  BY <3>2, <3>3
  <2>8. CASE ExcChecks(s)
    <3>1. pending' = [pending EXCEPT ![Env(s)] = None] /\ Env(s) \in Threads
      BY <2>2, <2>8 DEF ExcChecks, Check, ClearException
    <3>2. t # Env(s) /\ pending'[t] = pending[t]
      BY <2>3, <2>5, <3>1
    <3>3. pending[t] # s
      BY <2>4, <2>5, <3>2
    <3> QED  BY <2>1, <2>4, <2>5, <3>2, <3>3
  <2> QED  BY <1>3, <2>6, <2>7, <2>8, ExcCases
<1> QED  BY <1>1, <1>2, <1>3 DEF Next, Crash

(***************************************************************************)
(* No exception outlives the call that threw it, for any number of threads *)
(* and although they share one JNIEnv: CHECK_JAVA_EXCEPTION stands behind  *)
(* every call that may throw.                                              *)
(***************************************************************************)
THEOREM ExceptionsContained == Spec => []ExceptionContained
<1>1. Init => ExceptionContained
  BY DEF Init, ExceptionContained
<1>2. SInv /\ EnvInv /\ ExceptionContained /\ [Next]_vars => ExceptionContained'
  BY ExcStep
<1> QED  BY <1>1, <1>2, SInvInvariant, PTL DEF Spec

-----------------------------------------------------------------------------
(***************************************************************************)
(* Connections, for any number of threads                                  *)
(***************************************************************************)

\* What a step does to the connections that are out.
LEMMA UsedCases ==
  ASSUME SInv, [Next]_vars
  PROVE  \/ UNCHANGED used
         \/ used' = [p \in Pools |-> {}]
         \/ \E s \in Scanners, q \in Pools \cup {None} : used' = [used EXCEPT ![q] = @ \ {s}]
         \/ \E s \in Scanners, q \in Pools :
              /\ used' = [used EXCEPT ![q] = @ \cup {s}]
              /\ Cardinality(used[q]) < PoolSize
<1>1. CASE UNCHANGED vars
  BY <1>1 DEF vars, java
<1>2. CASE Die
  BY <1>2 DEF Die
<1>3. ASSUME NEW s \in Scanners, Call(s), ~Die
      PROVE  UNCHANGED used \/ used' = [used EXCEPT ![dataSource[s]] = @ \ {s}]
  BY <1>3 DEF Call, GetInstance, CreateVMFails, CallHasNext, HasNextThrows, CallClose, CloseThrows, java
<1>4. ASSUME NEW s \in Scanners, Step(s), ~Die
      PROVE  \/ UNCHANGED used
             \/ /\ used' = [used EXCEPT ![dataSource[s]] = @ \cup {s}]
                /\ dataSource[s] \in Pools
                /\ Cardinality(used[dataSource[s]]) < PoolSize
  <2>1. CASE GetConnection(s)
    <3>1. dataSource[s] \in Pools
      BY <2>1 DEF GetConnection, SInv, PlaceOK
    <3> QED  BY <2>1, <3>1 DEF GetConnection, J!GetConnection, J!Cardinality, Cardinality
  <2>2. CASE GetSource(s) \/ Execute(s) \/ ReadRow(s)
    BY <2>2 DEF GetSource, Execute, ReadRow, J!GetSource, J!Execute, J!ReadRow, J!shared
  <2>3. CASE ~(GetConnection(s) \/ GetSource(s) \/ Execute(s) \/ ReadRow(s))
    BY <1>4, <2>3 DEF Step, InitBridge, BridgeThrows, CheckBridge, BridgeMissing, InitScanContext,
       OpenThrows, CheckOpen, InitColumns, NoColumnNames, CheckHasNext, ReadThrows, CheckChunk,
       FileChunk, NoChunk, CheckClose, java
  <2> QED  BY <2>1, <2>2, <2>3
<1>5. \A s \in Scanners : dataSource[s] \in Pools \cup {None}
  BY DEF SInv, JNITypeOK
<1> QED  BY <1>1, <1>2, <1>3, <1>4, <1>5 DEF Next, Crash

WithinSize == \A p \in Pools : Cardinality(used[p]) <= PoolSize

LEMMA WithinSizeStep == SInv /\ WithinSize /\ [Next]_vars => WithinSize'
<1> SUFFICES ASSUME SInv, WithinSize, [Next]_vars, NEW p \in Pools
             PROVE  Cardinality(used'[p]) <= PoolSize
  BY DEF WithinSize
<1>1. used \in [Pools -> SUBSET Scanners] /\ IsFiniteSet(used[p])
  BY FiniteAssumption, FS_Subset DEF SInv, JNITypeOK
<1>2. Cardinality(used[p]) \in Nat /\ Cardinality(used[p]) <= PoolSize
  BY <1>1, FS_CardinalityType DEF WithinSize
<1>3. CASE used'[p] = used[p]
  BY <1>2, <1>3
<1>4. CASE used' = [q \in Pools |-> {}]
  BY <1>4, FS_EmptySet
<1>5. ASSUME NEW s \in Scanners, used'[p] = used[p] \ {s} PROVE Cardinality(used'[p]) <= PoolSize
  <2>1. used'[p] \subseteq used[p]
    BY <1>5
  <2>2. Cardinality(used'[p]) <= Cardinality(used[p]) /\ IsFiniteSet(used'[p])
    BY <2>1, <1>1, FS_Subset
  <2> QED  BY <1>2, <2>2, FS_CardinalityType
<1>6. ASSUME NEW s \in Scanners, used'[p] = used[p] \cup {s}, Cardinality(used[p]) < PoolSize
      PROVE  Cardinality(used'[p]) <= PoolSize
  <2>1. Cardinality(used[p] \cup {s}) <= Cardinality(used[p]) + 1
    <3>1. Cardinality(used[p] \cup {s}) \in {Cardinality(used[p]), Cardinality(used[p]) + 1}
      BY <1>1, FS_AddElement
    <3> QED  BY <1>2, <3>1
  <2>2. Cardinality(used[p] \cup {s}) \in Nat
    BY <1>1, FS_AddElement, FS_CardinalityType
  <2> QED  BY <1>2, <1>6, <2>1, <2>2
<1>7. ASSUME NEW s \in Scanners, NEW q \in Pools \cup {None},
             used' = [used EXCEPT ![q] = @ \ {s}]
      PROVE  used'[p] = used[p] \/ used'[p] = used[p] \ {s}
  BY <1>1, <1>7
<1>8. ASSUME NEW s \in Scanners, NEW q \in Pools,
             used' = [used EXCEPT ![q] = @ \cup {s}], Cardinality(used[q]) < PoolSize
      PROVE  \/ used'[p] = used[p]
             \/ used'[p] = used[p] \cup {s} /\ Cardinality(used[p]) < PoolSize
  BY <1>1, <1>8
<1> QED  BY <1>3, <1>4, <1>5, <1>6, <1>7, <1>8, UsedCases

\* No pool ever has more connections out than connection_pool_size, for any
\* number of threads and whatever the virtual machine does.
THEOREM PoolsWithinSize == Spec => []\A p \in Pools : Cardinality(used[p]) <= PoolSize
<1>1. Init => WithinSize
  BY FS_EmptySet DEF Init, WithinSize
<1>2. WithinSize => \A p \in Pools : Cardinality(used[p]) <= PoolSize
  BY DEF WithinSize
<1> QED  BY <1>1, <1>2, WithinSizeStep, SInvInvariant, PTL DEF Spec

-----------------------------------------------------------------------------
(***************************************************************************)
(* One thread                                                              *)
(***************************************************************************)

\* All scanners are used by one thread, as in main.
SingleThreaded == \A r, s \in Scanners : ThreadOf[r] = ThreadOf[s]

\* Then every check finds what its own call threw, or nothing.
LEMMA NotForeign ==
  ASSUME SingleThreaded, SInv, EnvInv, OneCall, ExceptionContained,
         NEW s \in Scanners, at[s] \notin Idle
  PROVE  ~Foreign(s)
<1>1. Env(s) \in Threads
  BY DEF EnvInv, Idle
<1>2. ASSUME pending[Env(s)] # None PROVE pending[Env(s)] = s
  <2>1. pending[Env(s)] \in Scanners
    BY <1>1, <1>2 DEF SInv, JNITypeOK
  <2>2. at[pending[Env(s)]] \notin Idle
    BY <1>1, <1>2 DEF ExceptionContained, Threw, Idle
  <2> QED  BY <2>1, <2>2 DEF OneCall, SingleThreaded
<1> QED  BY <1>2 DEF Foreign

\* No chunk is given up for an exception of another thread.
NoneGivenUp == \A s \in Scanners : at[s] # "noRows"

Alone == SInv /\ EnvInv /\ OneCall /\ ExceptionContained /\ NoneGivenUp

LEMMA NoneGivenUpStep ==
  ASSUME SingleThreaded, Alone, [Next]_vars
  PROVE  NoneGivenUp'
<1> USE DEF NoneGivenUp
<1>0. SInv /\ EnvInv /\ OneCall /\ ExceptionContained /\ NoneGivenUp /\ at \in [Scanners -> Places]
  BY DEF Alone, SInv, JNITypeOK
<1>1. CASE UNCHANGED vars
  BY <1>0, <1>1 DEF vars
<1>2. CASE Die
  BY <1>2 DEF Die
<1>3. ASSUME NEW s \in Scanners, Call(s) \/ Step(s), ~Die PROVE NoneGivenUp'
  <2>1. at' = [at EXCEPT ![s] = at'[s]]
    BY <1>0, <1>3, Moves
  <2>2. at'[s] # "noRows"
    <3>1. CASE CheckChunk(s)
      <4>1. ~Foreign(s)
        BY <1>0, <3>1, NotForeign DEF CheckChunk, Idle
      <4> QED  BY <1>0, <3>1, <4>1 DEF CheckChunk, Goto
    <3>2. CASE ~CheckChunk(s)
      <4> USE DEF Goto
      <4>1. CASE Call(s)
        BY <1>0, <1>3, <4>1 DEF Call, GetInstance, CreateVMFails, CallHasNext, HasNextThrows, CallClose, CloseThrows
      <4>2. CASE Step(s)
        BY <1>0, <1>3, <3>2, <4>2 DEF Step, InitBridge, BridgeThrows, CheckBridge, BridgeMissing,
           InitScanContext, GetSource, GetConnection, Execute, OpenThrows, CheckOpen, InitColumns,
           NoColumnNames, CheckHasNext, ReadRow, ReadThrows, FileChunk, NoChunk, CheckClose
      <4> QED  BY <1>3, <4>1, <4>2
    <3> QED  BY <3>1, <3>2
  <2> QED  BY <1>0, <2>1, <2>2
<1> QED  BY <1>1, <1>2, <1>3 DEF Next, Crash

LEMMA AloneInvariant == ASSUME SingleThreaded PROVE Spec => []Alone
<1>1. Init => OneCall /\ NoneGivenUp
  BY DEF Init, OneCall, Idle, NoneGivenUp
<1>2. SInv /\ EnvInv /\ OneCall /\ ExceptionContained /\ NoneGivenUp /\ [Next]_vars => NoneGivenUp'
  BY NoneGivenUpStep DEF Alone
<1> QED  BY <1>1, <1>2, OneCallStep, SInvInvariant, ExceptionsContained, PTL DEF Spec, Alone

-----------------------------------------------------------------------------
(***************************************************************************)
(* Simulation: every step is one of JDBCScanner or leaves its state alone. *)
(***************************************************************************)

\* A step of s changes the mapped place of s only.
LEMMA PlaceStep ==
  ASSUME SInv, NEW s \in Scanners, NEW place,
         at' = [at EXCEPT ![s] = place],
         \A r \in Scanners : r # s =>
           /\ dataSource'[r] = dataSource[r]
           /\ hasNext'[r] = hasNext[r]
           /\ \A p \in Pools : r \in used'[p] <=> r \in used[p]
  PROVE  pcBar' = [pcBar EXCEPT ![s] = PlaceOf(s)']
<1>1. ASSUME NEW r \in Scanners, r # s PROVE PlaceOf(r)' = PlaceOf(r)
  <2>1. at'[r] = at[r] /\ hasNext'[r] = hasNext[r]
    BY <1>1 DEF SInv, JNITypeOK
  <2>2. OpenReached(r)' = OpenReached(r)
    BY <1>1 DEF OpenReached, SInv, JNITypeOK
  <2> QED  BY <2>1, <2>2 DEF PlaceOf
<1> QED  BY <1>1 DEF pcBar

LEMMA NotDead ==
  ASSUME SInv, NEW s \in Scanners, at[s] # "dead"
  PROVE  pcBar[s] # "dead"
BY DEF SInv, JNITypeOK, Places, Idle, pcBar, PlaceOf, OpenReached

LEMMA DieSimulates ==
  ASSUME SInv, NEW s \in Scanners, at[s] # "dead", Die
  PROVE  J!Crash
<1>1. pcBar[s] # "dead"
  BY NotDead
<1>2. pcBar' = [r \in Scanners |-> "dead"]
  BY DEF Die, pcBar, PlaceOf
<1>3. numBar' = numBar /\ eosBar' = eosBar
  BY DEF Die, numBar, eosBar
<1> QED  BY <1>1, <1>2, <1>3 DEF Die, J!Crash, J!Die, J!reading

\* A step that moves s to a place that maps to the same one.
LEMMA MoveStutters ==
  ASSUME SInv, NEW s \in Scanners, NEW place,
         at' = [at EXCEPT ![s] = place],
         UNCHANGED <<java, num, eos, hasNext>>,
         PlaceOf(s)' = PlaceOf(s)
  PROVE  UNCHANGED J!vars
<1>1. pcBar' = [pcBar EXCEPT ![s] = PlaceOf(s)']
  BY PlaceStep DEF java
<1>2. pcBar' = pcBar
  BY <1>1 DEF pcBar
<1>3. numBar' = numBar /\ eosBar' = eosBar
  BY DEF numBar, eosBar
<1> QED  BY <1>2, <1>3 DEF J!vars, java

LEMMA CallSimulates ==
  ASSUME NEW s \in Scanners, SInv, Call(s)
  PROVE  [J!Next]_(J!vars)
<1>0. at \in [Scanners -> Places] /\ at[s] \in Places
  BY DEF SInv, JNITypeOK
<1>1. CASE GetInstance(s)
  BY <1>1, <1>0, MoveStutters DEF GetInstance, Goto, PlaceOf
<1>2. CASE CreateVMFails(s)
  BY <1>2, DieSimulates DEF CreateVMFails, J!Next
<1>3. CASE CallHasNext(s)
  <2>1. /\ at[s] = "ready" /\ hasNext[s] = "none" /\ s \in DOMAIN hasNext
        /\ at' = [at EXCEPT ![s] = "checkNext"]
        /\ UNCHANGED <<sources, used, dataSource, columns, chunk, fetched, num, eos>>
    BY <1>3 DEF CallHasNext, Goto, SInv, JNITypeOK, PlaceOK
  <2>2. /\ cursor' = [cursor EXCEPT ![s] = J!Advanced(s)]
        /\ hasNext' = [hasNext EXCEPT ![s] = IF J!HasRowAfter(s) THEN "more" ELSE "end"]
    BY <1>3 DEF CallHasNext
  <2>3. at'[s] = "checkNext" /\ hasNext'[s] = IF J!HasRowAfter(s) THEN "more" ELSE "end"
    BY <2>1, <2>2, <1>0
  <2>4. pcBar[s] = "open" /\ pcBar' = [pcBar EXCEPT ![s] = IF J!HasRowAfter(s) THEN "read" ELSE "open"]
    <3>1. pcBar' = [pcBar EXCEPT ![s] = PlaceOf(s)']
      <4>1. \A r \in Scanners : r # s => hasNext'[r] = hasNext[r]
        BY <2>2 DEF SInv, JNITypeOK
      <4> QED  BY <2>1, <4>1, PlaceStep
    <3>2. PlaceOf(s)' = IF J!HasRowAfter(s) THEN "read" ELSE "open"
      BY <2>3 DEF PlaceOf
    <3>3. pcBar[s] = "open"
      BY <2>1 DEF pcBar, PlaceOf
    <3> QED  BY <3>1, <3>2, <3>3
  <2>5. numBar' = IF J!HasRowAfter(s) THEN [numBar EXCEPT ![s] = 0] ELSE numBar
    BY <2>1, <2>2, <2>3 DEF numBar, SInv, JNITypeOK
  <2>6. eosBar' = [eosBar EXCEPT ![s] = ~J!HasRowAfter(s)]
    BY <2>1, <2>2, <2>3 DEF eosBar, SInv, JNITypeOK
  <2>7. pcBar' = IF J!HasRowAfter(s) THEN [pcBar EXCEPT ![s] = "read"] ELSE pcBar
    BY <2>4 DEF pcBar
  <2>8. J!HasNext(s)
    BY <2>1, <2>2, <2>4, <2>5, <2>6, <2>7 DEF J!HasNext, J!shared
  <2> QED  BY <2>8 DEF J!Next, J!GetNext
<1>4. CASE HasNextThrows(s)
  <2>1. /\ at[s] = "ready" /\ hasNext[s] = "none" /\ s \in Breaking
        /\ at' = [at EXCEPT ![s] = "checkNext"]
        /\ hasNext' = [hasNext EXCEPT ![s] = "end"]
        /\ UNCHANGED <<java, num, eos>>
    BY <1>4 DEF HasNextThrows, Goto, SInv, JNITypeOK, PlaceOK
  <2>2. pcBar[s] = "open" /\ pcBar' = pcBar
    <3>1. pcBar' = [pcBar EXCEPT ![s] = PlaceOf(s)']
      <4>1. \A r \in Scanners : r # s => hasNext'[r] = hasNext[r]
        BY <2>1 DEF SInv, JNITypeOK
      <4> QED  BY <2>1, <4>1, PlaceStep DEF java
    <3>2. PlaceOf(s)' = "open"
      BY <2>1, <1>0 DEF PlaceOf, SInv, JNITypeOK
    <3>3. pcBar[s] = "open"
      BY <2>1 DEF pcBar, PlaceOf
    <3> QED  BY <3>1, <3>2, <3>3 DEF pcBar
  <2>3. numBar' = numBar
    BY <2>1 DEF numBar, SInv, JNITypeOK
  <2>4. eosBar' = [eosBar EXCEPT ![s] = TRUE]
    BY <2>1 DEF eosBar, SInv, JNITypeOK
  <2>5. J!HasNextThrows(s)
    BY <2>1, <2>2, <2>3, <2>4 DEF J!HasNextThrows, J!shared, java
  <2> QED  BY <2>5 DEF J!Next, J!GetNext
<1>5. CASE CallClose(s)
  <2>1. /\ at[s] = "ready" /\ CallsClose
        /\ at' = [at EXCEPT ![s] = "closing"]
        /\ used' = [used EXCEPT ![dataSource[s]] = @ \ {s}]
        /\ UNCHANGED <<sources, dataSource, columns, cursor, chunk, fetched, num, eos, hasNext>>
    BY <1>5 DEF CallClose, Goto
  <2>2. \A r \in Scanners, p \in Pools : r # s => (r \in used'[p] <=> r \in used[p])
    BY <2>1 DEF SInv, JNITypeOK
  <2>3. pcBar' = [pcBar EXCEPT ![s] = PlaceOf(s)']
    BY <2>1, <2>2, PlaceStep
  <2>4. PlaceOf(s)' = "closed" /\ pcBar[s] = "open"
    BY <2>1, <1>0 DEF PlaceOf, pcBar
  <2>5. numBar' = numBar /\ eosBar' = eosBar
    BY <2>1 DEF numBar, eosBar
  <2>6. J!Close(s)
    BY <2>1, <2>3, <2>4, <2>5 DEF J!Close, J!reading
  <2> QED  BY <2>6 DEF J!Next
<1>6. CASE CloseThrows(s)
  <2>1. /\ at[s] = "ready" /\ CallsClose /\ "close" \in Faults
        /\ at' = [at EXCEPT ![s] = "closeThrew"]
        /\ UNCHANGED <<java, num, eos, hasNext>>
    BY <1>6 DEF CloseThrows, Goto
  <2>2. pcBar' = [pcBar EXCEPT ![s] = PlaceOf(s)']
    BY <2>1, PlaceStep DEF java
  <2>3. PlaceOf(s)' = "leaked" /\ pcBar[s] = "open"
    BY <2>1, <1>0 DEF PlaceOf, pcBar
  <2>4. numBar' = numBar /\ eosBar' = eosBar
    BY <2>1 DEF numBar, eosBar
  <2>5. J!CloseThrows(s)
    BY <2>1, <2>2, <2>3, <2>4 DEF J!CloseThrows, J!shared, J!reading, java
  <2> QED  BY <2>5 DEF J!Next
<1> QED  BY <1>1, <1>2, <1>3, <1>4, <1>5, <1>6 DEF Call

LEMMA StepSimulates ==
  ASSUME SingleThreaded, Alone, NEW s \in Scanners, Step(s)
  PROVE  [J!Next]_(J!vars)
<1>0. SInv /\ at \in [Scanners -> Places] /\ at[s] \in Places
  BY DEF Alone, SInv, JNITypeOK
<1>1. CASE InitBridge(s) \/ BridgeThrows(s) \/ CheckBridge(s) \/ InitScanContext(s)
  BY <1>1, <1>0, MoveStutters DEF InitBridge, BridgeThrows, CheckBridge, InitScanContext, Goto, PlaceOf
<1>2. CASE BridgeMissing(s) \/ NoColumnNames(s) \/ NoChunk(s)
  BY <1>0, <1>2, DieSimulates DEF BridgeMissing, NoColumnNames, NoChunk, J!Next
<1>3. CASE GetSource(s) \/ GetConnection(s) \/ Execute(s) \/ ReadRow(s)
  BY <1>3 DEF GetSource, GetConnection, Execute, ReadRow, J!Next, J!Open, J!GetNext
<1>4. CASE OpenThrows(s)
  <2>1. /\ at[s] \in {"source", "connect", "execute"}
        /\ at' = [at EXCEPT ![s] = "openThrew"]
        /\ UNCHANGED <<java, num, eos, hasNext>>
    BY <1>4 DEF OpenThrows, OpenFault, Goto
  <2>2. OpenReached(s)' = OpenReached(s)
    BY <2>1 DEF OpenReached, java
  <2>3. PlaceOf(s)' = OpenReached(s)
    BY <2>1, <2>2, <1>0 DEF PlaceOf
  <2>4. PlaceOf(s) = OpenReached(s)
    BY <1>0, <2>1 DEF PlaceOf, OpenReached, SInv, PlaceOK, BeforeSource, BeforeConnection
  <2> QED  BY <2>1, <2>3, <2>4, <1>0, MoveStutters
<1>5. CASE CheckOpen(s)
  <2>1. /\ at[s] \in {"opened", "openThrew"}
        /\ at' = [at EXCEPT ![s] = IF at[s] = "opened" THEN "names" ELSE "noNames"]
        /\ UNCHANGED <<java, num, eos, hasNext>>
    BY <1>5 DEF CheckOpen, Goto
  <2>2. OpenReached(s)' = OpenReached(s)
    BY <2>1 DEF OpenReached, java
  <2>3. PlaceOf(s)' = PlaceOf(s)
    BY <2>1, <2>2, <1>0 DEF PlaceOf
  <2> QED  BY <2>1, <2>3, <1>0, MoveStutters
<1>6. CASE InitColumns(s)
  BY <1>6, <1>0, MoveStutters DEF InitColumns, Goto, PlaceOf
<1>7. CASE CheckHasNext(s)
  <2>0. ~Foreign(s)
    BY <1>7, NotForeign DEF CheckHasNext, Idle, Alone
  <2>1. /\ at[s] = "checkNext" /\ hasNext[s] \in {"more", "end"}
        /\ at' = [at EXCEPT ![s] = IF hasNext[s] = "more" THEN "loop" ELSE "ready"]
        /\ hasNext' = [hasNext EXCEPT ![s] = "none"]
        /\ eos' = [eos EXCEPT ![s] = hasNext[s] = "end"]
        /\ num' = IF hasNext[s] = "more" THEN [num EXCEPT ![s] = 0] ELSE num
        /\ UNCHANGED java
    BY <1>0, <1>7, <2>0 DEF CheckHasNext, Goto, SInv, JNITypeOK, PlaceOK
  <2>2. pcBar' = [pcBar EXCEPT ![s] = PlaceOf(s)']
    <3>1. \A r \in Scanners : r # s => hasNext'[r] = hasNext[r]
      BY <1>0, <2>1 DEF SInv, JNITypeOK
    <3> QED  BY <1>0, <2>1, <3>1, PlaceStep DEF java
  <2>3. PlaceOf(s)' = PlaceOf(s)
    BY <2>1, <1>0 DEF PlaceOf
  <2>4. pcBar' = pcBar
    BY <2>2, <2>3 DEF pcBar
  <2>5. numBar' = numBar
    BY <1>0, <2>1 DEF numBar, SInv, JNITypeOK
  <2>6. eosBar' = eosBar
    BY <1>0, <2>1 DEF eosBar, SInv, JNITypeOK
  <2> QED  BY <2>1, <2>4, <2>5, <2>6 DEF J!vars, java
<1>8. CASE ReadThrows(s)
  BY <1>8, <1>0, MoveStutters DEF ReadThrows, Goto, PlaceOf
<1>9. CASE CheckChunk(s)
  BY <1>9, <1>0, MoveStutters DEF CheckChunk, Goto, PlaceOf
<1>10. CASE FileChunk(s)
  <2>1. /\ at[s] = "file" /\ hasNext[s] = "none"
        /\ at' = [at EXCEPT ![s] = "ready"]
        /\ fetched' = [fetched EXCEPT ![s] = @ \o [i \in 1..num[s] |-> chunk[s][i-1]]]
        /\ UNCHANGED <<sources, used, dataSource, columns, cursor, chunk, num, eos, hasNext>>
    BY <1>0, <1>10 DEF FileChunk, Goto, SInv, PlaceOK, JNITypeOK, Alone, NoneGivenUp
  <2>2. pcBar' = [pcBar EXCEPT ![s] = PlaceOf(s)']
    BY <1>0, <2>1, PlaceStep
  <2>3. PlaceOf(s)' = "open" /\ pcBar[s] = "fill"
    BY <2>1, <1>0 DEF PlaceOf, pcBar
  <2>4. numBar' = numBar /\ eosBar' = eosBar /\ numBar[s] = num[s]
    BY <2>1 DEF numBar, eosBar
  <2>5. J!FillChunk(s)
    BY <2>1, <2>2, <2>3, <2>4 DEF J!FillChunk, J!shared
  <2> QED  BY <2>5 DEF J!Next, J!GetNext
<1>11. CASE CheckClose(s)
  BY <1>11, <1>0, MoveStutters DEF CheckClose, Goto, PlaceOf
<1> QED
  BY <1>1, <1>2, <1>3, <1>4, <1>5, <1>6, <1>7, <1>8, <1>9, <1>10, <1>11 DEF Step

(***************************************************************************)
(* The scanner over JNI implements JDBCScanner, for any number of scanners *)
(* on one thread: splitting each call from its check, and ignoring every   *)
(* status the checks return, adds no behaviour.  With two threads a check  *)
(* may find an exception of the other thread, and get_next then tells the  *)
(* reader of a sound scan that it has ended.                               *)
(***************************************************************************)
THEOREM ScannerImplemented ==
  ASSUME SingleThreaded PROVE Spec => ImplementsScanner
<1>1. Init => J!Init
  BY DEF Init, J!Init, pcBar, numBar, eosBar, PlaceOf
<1>2. Alone /\ [Next]_vars => [J!Next]_(J!vars)
  <2> SUFFICES ASSUME Alone, [Next]_vars PROVE [J!Next]_(J!vars)
    OBVIOUS
  <2>0. SInv
    BY DEF Alone
  <2>1. CASE UNCHANGED vars
    <3>1. UNCHANGED <<java, num, eos, at, hasNext>>
      BY <2>1 DEF vars
    <3>2. pcBar' = pcBar /\ numBar' = numBar /\ eosBar' = eosBar
      BY <3>1 DEF pcBar, numBar, eosBar, PlaceOf, OpenReached, java
    <3> QED  BY <3>1, <3>2 DEF J!vars, java
  <2>2. CASE Crash
    BY <2>0, <2>2, DieSimulates DEF Crash, J!Next
  <2> QED  BY <2>0, <2>1, <2>2, CallSimulates, StepSimulates DEF Next
<1> QED  BY <1>1, <1>2, AloneInvariant, PTL DEF Spec, ImplementsScanner, J!Spec

-----------------------------------------------------------------------------
(***************************************************************************)
(* The length of a call                                                    *)
(***************************************************************************)

\* What a scanner has left depends on where it is, and in getNextChunk's loop
\* on the room left in the arrays.
LEMMA StepsLeftFacts ==
  ASSUME SInv, NEW s \in Scanners
  PROVE  /\ at[s] = "bridge" => StepsLeft(s) = 10
         /\ at[s] = "bridgeThrew" => StepsLeft(s) = 9
         /\ at[s] = "context" => StepsLeft(s) = 8
         /\ at[s] = "source" => StepsLeft(s) = 7
         /\ at[s] = "connect" => StepsLeft(s) = 6
         /\ at[s] = "execute" => StepsLeft(s) = 5
         /\ at[s] \in {"opened", "openThrew"} => StepsLeft(s) = 4
         /\ at[s] = "checkNext" => StepsLeft(s) = ChunkSize + 4
         /\ at[s] = "loop" => StepsLeft(s) = ChunkSize - num[s] + 3 /\ num[s] < ChunkSize
         /\ at[s] \in {"names", "noNames", "gotChunk", "chunkThrew"} => StepsLeft(s) = 3
         /\ at[s] \in {"file", "noRows", "noChunk"} => StepsLeft(s) = 2
         /\ at[s] \in {"closing", "closeThrew"} => StepsLeft(s) = 1
         /\ at[s] \in Idle => StepsLeft(s) = 0
         /\ num[s] \in Nat /\ num[s] <= ChunkSize /\ ChunkSize \in Nat
         /\ StepsLeft(s) \in Nat
<1>1. num[s] \in Nat /\ num[s] <= ChunkSize /\ ChunkSize \in Nat /\ at[s] \in Places
  BY DEF SInv, JNITypeOK
<1>2. at[s] = "loop" => num[s] < ChunkSize
  BY DEF SInv, PlaceOK
<1> QED  BY <1>1, <1>2 DEF StepsLeft, Places, Idle

\* The process ends, and every call with it.
LEMMA DieShortens ==
  ASSUME SInv, Die, NEW s \in Scanners, at[s] \notin Idle
  PROVE  StepsLeft(s)' < StepsLeft(s)
<1>1. StepsLeft(s)' = 0
  BY DEF Die, StepsLeft
<1>2. StepsLeft(s) \in Nat /\ StepsLeft(s) > 0
  <2>1. at[s] \in Places \ Idle
    BY DEF SInv, JNITypeOK
  <2>2. CASE at[s] = "loop"
    BY <2>2, StepsLeftFacts
  <2>3. CASE at[s] = "checkNext"
    BY <2>3, StepsLeftFacts
  <2>4. CASE at[s] \notin {"loop", "checkNext"}
    <3>1. StepsLeft(s) \in 1..10
      BY <2>1, <2>4 DEF StepsLeft, Places, Idle
    <3> QED  BY <3>1
  <2> QED  BY <2>2, <2>3, <2>4
<1> QED  BY <1>1, <1>2

\* Every step of a call lowers what it has left.
LEMMA OwnStepShortens ==
  ASSUME SInv, NEW s \in Scanners, Step(s)
  PROVE  StepsLeft(s)' < StepsLeft(s)
<1> USE DEF Goto
<1>0. at \in [Scanners -> Places]
  BY DEF SInv, JNITypeOK
<1>1. /\ at'[s] = "bridgeThrew" => StepsLeft(s)' = 9
      /\ at'[s] = "context" => StepsLeft(s)' = 8
      /\ at'[s] = "source" => StepsLeft(s)' = 7
      /\ at'[s] = "connect" => StepsLeft(s)' = 6
      /\ at'[s] = "execute" => StepsLeft(s)' = 5
      /\ at'[s] \in {"opened", "openThrew"} => StepsLeft(s)' = 4
      /\ at'[s] = "loop" => StepsLeft(s)' = ChunkSize - num'[s] + 3
      /\ at'[s] \in {"names", "noNames", "gotChunk", "chunkThrew"} => StepsLeft(s)' = 3
      /\ at'[s] \in {"file", "noRows", "noChunk"} => StepsLeft(s)' = 2
      /\ at'[s] \in {"ready", "closed", "leaked"} => StepsLeft(s)' = 0
  BY DEF StepsLeft
<1>2. CASE InitBridge(s) \/ BridgeThrows(s) \/ CheckBridge(s) \/ InitScanContext(s)
  <2>1. \/ at[s] \in {"bridge", "bridgeThrew"} /\ at'[s] = "context"
        \/ at[s] = "bridge" /\ at'[s] = "bridgeThrew"
        \/ at[s] = "context" /\ at'[s] = "source"
    BY <1>0, <1>2 DEF InitBridge, BridgeThrows, CheckBridge, InitScanContext
  <2> QED  BY <1>1, <2>1, StepsLeftFacts
<1>3. CASE GetSource(s) \/ GetConnection(s) \/ Execute(s)
  <2>1. \/ at[s] = "source" /\ at'[s] = "connect"
        \/ at[s] = "connect" /\ at'[s] = "execute"
        \/ at[s] = "execute" /\ at'[s] = "opened"
    BY <1>0, <1>3 DEF GetSource, GetConnection, Execute
  <2> QED  BY <1>1, <2>1, StepsLeftFacts
<1>4. CASE OpenThrows(s)
  <2>1. at[s] \in {"source", "connect", "execute"} /\ at'[s] = "openThrew"
    BY <1>0, <1>4 DEF OpenThrows, OpenFault
  <2> QED  BY <1>1, <2>1, StepsLeftFacts
<1>5. CASE CheckOpen(s) \/ InitColumns(s)
  <2>1. \/ at[s] \in {"opened", "openThrew"} /\ at'[s] \in {"names", "noNames"}
        \/ at[s] = "names" /\ at'[s] = "ready"
    BY <1>0, <1>5 DEF CheckOpen, InitColumns
  <2> QED  BY <1>1, <2>1, StepsLeftFacts
<1>6. CASE BridgeMissing(s) \/ NoColumnNames(s) \/ NoChunk(s)
  BY <1>6, DieShortens DEF BridgeMissing, NoColumnNames, NoChunk, Idle
<1>7. CASE CheckHasNext(s)
  <2>1. /\ at[s] = "checkNext" /\ at'[s] \in {"loop", "ready"}
        /\ at'[s] = "loop" => num'[s] = 0
    BY <1>0, <1>7 DEF CheckHasNext, SInv, JNITypeOK
  <2> QED  BY <1>1, <2>1, StepsLeftFacts
<1>8. CASE ReadRow(s)
  <2>1. at[s] = "loop" /\ at'[s] \in {"loop", "gotChunk"} /\ num'[s] = num[s] + 1
    BY <1>0, <1>8 DEF ReadRow, SInv, JNITypeOK
  <2> QED  BY <1>1, <2>1, StepsLeftFacts
<1>9. CASE ReadThrows(s)
  <2>1. at[s] = "loop" /\ at'[s] = "chunkThrew"
    BY <1>0, <1>9 DEF ReadThrows
  <2> QED  BY <1>1, <2>1, StepsLeftFacts
<1>10. CASE CheckChunk(s) \/ FileChunk(s)
  <2>1. \/ at[s] \in {"gotChunk", "chunkThrew"} /\ at'[s] \in {"file", "noRows", "noChunk"}
        \/ at[s] \in {"file", "noRows"} /\ at'[s] = "ready"
    BY <1>0, <1>10 DEF CheckChunk, FileChunk
  <2> QED  BY <1>1, <2>1, StepsLeftFacts
<1>11. CASE CheckClose(s)
  <2>1. at[s] \in {"closing", "closeThrew"} /\ at'[s] \in {"closed", "leaked"}
    BY <1>0, <1>11 DEF CheckClose
  <2> QED  BY <1>1, <2>1, StepsLeftFacts
<1> QED  BY <1>2, <1>3, <1>4, <1>5, <1>6, <1>7, <1>8, <1>9, <1>10, <1>11 DEF Step

\* A step of another scanner leaves place and rows of this one alone.
LEMMA OtherStepKeeps ==
  ASSUME SInv, NEW s \in Scanners, NEW r \in Scanners, r # s, Call(r) \/ Step(r), ~Die
  PROVE  StepsLeft(s)' = StepsLeft(s)
<1>1. at'[s] = at[s]
  BY Moves DEF SInv, JNITypeOK
<1>2. num'[s] = num[s]
  BY DEF Call, GetInstance, CreateVMFails, CallHasNext, HasNextThrows, CallClose, CloseThrows,
     Step, InitBridge, BridgeThrows, CheckBridge, BridgeMissing, InitScanContext, GetSource, GetConnection, Execute,
     OpenThrows, CheckOpen, InitColumns, NoColumnNames, CheckHasNext, ReadRow, ReadThrows,
     CheckChunk, FileChunk, NoChunk, CheckClose, SInv, JNITypeOK
<1> QED  BY <1>1, <1>2 DEF StepsLeft

(***************************************************************************)
(* A call of open has at most eleven steps, one of get_next at most one per   *)
(* row of a chunk and five more, on every error path and for any number of *)
(* threads: what CallEnds adds is that the thread goes on.                 *)
(***************************************************************************)
THEOREM CallsShorten == Spec => JNICallShortens
<1>1. ASSUME SInv, SInv', [Next]_vars, NEW s \in Scanners, at[s] \notin Idle
      PROVE  /\ StepsLeft(s)' <= StepsLeft(s)
             /\ Step(s) => StepsLeft(s)' < StepsLeft(s)
  <2>1. StepsLeft(s) \in Nat
    BY <1>1, StepsLeftFacts
  <2>2. StepsLeft(s)' \in Int
    <3>1. num'[s] \in Int /\ ChunkSize \in Int
      BY <1>1 DEF SInv, JNITypeOK
    <3> QED  BY <3>1 DEF StepsLeft
  <2>3. Step(s) => StepsLeft(s)' < StepsLeft(s)
    BY <1>1, OwnStepShortens
  <2>4. CASE Die
    BY <1>1, <2>1, <2>2, <2>3, <2>4, DieShortens
  <2>5. CASE UNCHANGED vars
    <3>1. StepsLeft(s)' = StepsLeft(s)
      BY <2>5 DEF vars, StepsLeft
    <3> QED  BY <2>1, <2>3, <3>1
  <2>6. ASSUME NEW r \in Scanners, r # s, Call(r) \/ Step(r), ~Die
        PROVE  StepsLeft(s)' <= StepsLeft(s)
    <3>1. StepsLeft(s)' = StepsLeft(s)
      BY <1>1, <2>6, OtherStepKeeps
    <3> QED  BY <2>1, <3>1
  <2>7. CASE Call(s) /\ ~Die
    BY <1>1, <2>7 DEF Call, GetInstance, CreateVMFails, CallHasNext, HasNextThrows, CallClose,
                      CloseThrows, Idle
  <2>8. CASE Step(s)
    BY <2>1, <2>2, <2>3, <2>8
  <2> QED  BY <1>1, <2>3, <2>4, <2>5, <2>6, <2>7, <2>8 DEF Next, Crash
<1>2. SInv /\ SInv' /\ [Next]_vars =>
        [\A s \in Scanners : at[s] \notin Idle =>
           /\ StepsLeft(s)' <= StepsLeft(s)
           /\ Step(s) => StepsLeft(s)' < StepsLeft(s)]_vars
  BY <1>1
<1> QED  BY <1>2, SInvInvariant, PTL DEF Spec, JNICallShortens
=============================================================================
