------------------------------ MODULE JNIScanner ------------------------------
(***************************************************************************)
(* The C++ JDBCScanner (be/scanner/jdbc_scanner.cpp) over JNI: the one     *)
(* virtual machine and the JNIEnv of JVMFunctionHelper (be/udf/java_udf),  *)
(* and the exceptions Java code throws, which stay pending in the JNIEnv   *)
(* until CHECK_JAVA_EXCEPTION clears them.                                 *)
(*                                                                         *)
(* JDBCScanner has the same scan with each of these calls and its check as *)
(* one step, and is the abstract specification of this module.  What the   *)
(* Java methods do between call and return is taken from there.            *)
(*                                                                         *)
(* A JNIEnv is for the one thread it belongs to, and JNI leaves undefined  *)
(* what a call through another thread's, or with an exception pending,     *)
(* does.  With several threads this module has the mildest outcome: the    *)
(* call does its work, and only the exceptions meet.  What goes wrong here *)
(* goes wrong in every virtual machine; what holds is claimed for several  *)
(* threads only where a property says so.                                  *)
(*                                                                         *)
(* A tuple is assumed to have one slot or more, and no more than the       *)
(* result has columns: list_get, which nothing checks, then never throws.  *)
(***************************************************************************)
EXTENDS Integers, Sequences, FiniteSets

CONSTANTS
  Scanners, Keys, KeyOf, Pools, PoolSize, ChunkSize, Rows, Faults, Breaking,
  CallsClose, None,   \* as in JDBCScanner
  Threads,            \* threads of the process that use scanners
  ThreadOf,           \* [Scanners -> Threads]
  JNIFaults           \* which failures of the virtual machine may happen

ASSUME KeyAssumption == KeyOf \in [Scanners -> Keys]
ASSUME PoolSizeAssumption == PoolSize \in Nat \ {0}
ASSUME ChunkSizeAssumption == ChunkSize \in Nat \ {0}
ASSUME RowsAssumption == Rows \in [Scanners -> Nat]
ASSUME FiniteAssumption == IsFiniteSet(Scanners)
ASSUME FaultsAssumption ==
  Faults \subseteq {"source", "connect", "execute", "columns", "getObject", "close"}
ASSUME BreakingAssumption == Breaking \subseteq Scanners
ASSUME CallsCloseAssumption == CallsClose \in BOOLEAN
ASSUME ThreadAssumption == ThreadOf \in [Scanners -> Threads]
ASSUME JNIFaultsAssumption == JNIFaults \subseteq {"jvm", "bridge", "url"}
ASSUME NullAssumption == None \notin Threads \cup Scanners \cup Pools

VARIABLES
  sources, used, dataSource, columns, cursor, num, chunk, fetched, eos,
                \* as in JDBCScanner, num and eos as the code assigns them
  at,           \* where each scanner is
  hasNext,      \* get_next's local has_next, "none" outside it
  jniInit,      \* the thread that created the virtual machine
  env,          \* JVMFunctionHelper::_env: whose JNIEnv each thread uses
  pending       \* the scanner whose exception is pending in a thread's JNIEnv

java == <<sources, used, dataSource, columns, cursor, chunk, fetched>>
machine == <<jniInit, env, pending>>
vars == <<java, num, eos, at, hasNext, machine>>

\* Places between two calls of the scanner's owner.
Idle == {"new", "ready", "closed", "leaked", "dead"}
Places == Idle \cup
  {"bridge", "bridgeThrew", "context", "source", "connect", "execute", "opened", "openThrew",
   "names", "noNames", "checkNext", "loop", "gotChunk", "chunkThrew",
   "file", "noRows", "noChunk", "closing", "closeThrew"}

-----------------------------------------------------------------------------
(***************************************************************************)
(* The mapping to JDBCScanner                                              *)
(***************************************************************************)

\* How far open() had come when it threw.
OpenReached(s) ==
  IF dataSource[s] = None THEN "new"
  ELSE IF s \in used[dataSource[s]] THEN "execute" ELSE "connect"

PlaceOf(s) ==
  CASE at[s] \in {"connect", "execute", "closed", "leaked", "dead"} -> at[s]
    [] at[s] \in {"new", "bridge", "bridgeThrew", "context", "source"} -> "new"
    [] at[s] \in {"openThrew", "noNames"} -> OpenReached(s)
    [] at[s] \in {"opened", "names", "ready"} -> "open"
    [] at[s] = "checkNext" -> IF hasNext[s] = "more" THEN "read" ELSE "open"
    [] at[s] \in {"loop", "chunkThrew", "noChunk"} -> "read"
    [] at[s] \in {"gotChunk", "file", "noRows"} -> "fill"
    [] at[s] = "closing" -> "closed"
    [] at[s] = "closeThrew" -> "leaked"

pcBar == [s \in Scanners |-> PlaceOf(s)]

\* JDBCScanner assigns resultNumRows and *eos with the answer of hasNext().
numBar == [s \in Scanners |-> IF hasNext[s] = "more" THEN 0 ELSE num[s]]
eosBar == [s \in Scanners |-> IF hasNext[s] = "none" THEN eos[s] ELSE hasNext[s] = "end"]

J == INSTANCE JDBCScanner WITH pc <- pcBar, num <- numBar, eos <- eosBar

-----------------------------------------------------------------------------
Init ==
  /\ sources = [k \in Keys |-> None]
  /\ used = [p \in Pools |-> {}]
  /\ dataSource = [s \in Scanners |-> None]
  /\ columns = [s \in Scanners |-> FALSE]
  /\ cursor = [s \in Scanners |-> 0]
  /\ num = [s \in Scanners |-> 0]
  /\ chunk = [s \in Scanners |-> [i \in 0..ChunkSize-1 |-> 0]]
  /\ fetched = [s \in Scanners |-> << >>]
  /\ eos = [s \in Scanners |-> FALSE]
  /\ at = [s \in Scanners |-> "new"]
  /\ hasNext = [s \in Scanners |-> "none"]
  /\ jniInit = None
  /\ env = [t \in Threads |-> None]
  /\ pending = [t \in Threads |-> None]

\* The thread whose JNIEnv the thread of s calls through.
Env(s) == env[ThreadOf[s]]

\* The thread of s is in no call of a scanner.
Free(s) == \A r \in Scanners : ThreadOf[r] = ThreadOf[s] => at[r] \in Idle

Goto(s, place) == at' = [at EXCEPT ![s] = place]

\* Java code returns with an exception.
Throws(s) == pending' = [pending EXCEPT ![Env(s)] = s]

\* dumpExceptionString: its first to_string already clears the exception.
ClearException(t) == pending' = [pending EXCEPT ![t] = None]

\* CHECK_JAVA_EXCEPTION: an exception is cleared and turned into a status that
\* no caller looks at.
Check(s) == ClearException(Env(s))

\* The check of s finds an exception of a scan of another thread.
Foreign(s) == pending[Env(s)] \notin {None, s}

\* The process ends with all its scanners: an exception nobody catches, or a
\* JNI call on a null object.
Die ==
  /\ at' = [s \in Scanners |-> "dead"]
  /\ sources' = [k \in Keys |-> None]
  /\ used' = [p \in Pools |-> {}]
  /\ dataSource' = [s \in Scanners |-> None]
  /\ jniInit' = None
  /\ env' = [t \in Threads |-> None]
  /\ pending' = [t \in Threads |-> None]
  /\ UNCHANGED <<columns, cursor, num, chunk, fetched, eos, hasNext>>

-----------------------------------------------------------------------------
(***************************************************************************)
(* open()                                                                  *)
(***************************************************************************)

\* getJNIEnv: the first thread ever to call it creates the virtual machine.
Creator(s) == IF jniInit = None THEN ThreadOf[s] ELSE jniInit

\* JVMFunctionHelper::getInstance, at the start of open: a thread's _env is
\* that of the creator.
GetInstance(s) ==
  /\ at[s] = "new" /\ Free(s)
  /\ jniInit' = Creator(s)
  /\ env' = [env EXCEPT ![ThreadOf[s]] = IF @ = None THEN jniInit' ELSE @]
  /\ Goto(s, "bridge")
  /\ UNCHANGED <<java, num, eos, hasNext, pending>>

\* JNI_CreateJavaVM fails; nothing catches the runtime_error.
CreateVMFails(s) ==
  /\ at[s] = "new" /\ Free(s)
  /\ jniInit = None /\ "jvm" \in JNIFaults
  /\ Die

\* _init_jdbc_bridge: setClassLoader gives the Java thread a class loader for
\* the driver's jar.
InitBridge(s) ==
  /\ at[s] = "bridge"
  /\ Check(s)
  /\ Goto(s, "context")
  /\ UNCHANGED <<java, num, eos, hasNext, jniInit, env>>

\* setClassLoader throws, for a path that makes no URL.
BridgeThrows(s) ==
  /\ at[s] = "bridge" /\ "url" \in JNIFaults
  /\ Throws(s)
  /\ Goto(s, "bridgeThrew")
  /\ UNCHANGED <<java, num, eos, hasNext, jniInit, env>>

\* open() goes on, with the class loader the Java thread had before.
CheckBridge(s) ==
  /\ at[s] = "bridgeThrew"
  /\ Check(s)
  /\ Goto(s, "context")
  /\ UNCHANGED <<java, num, eos, hasNext, jniInit, env>>

\* FindClass gives null, and newInstance asks it for a constructor.
BridgeMissing(s) ==
  /\ at[s] = "bridge" /\ "bridge" \in JNIFaults
  /\ Die

\* _init_jdbc_scan_context: the Java context has what the C++ one has, and
\* getScanner gives it to a new scanner.
InitScanContext(s) ==
  /\ at[s] = "context"
  /\ Check(s)
  /\ Goto(s, "source")
  /\ UNCHANGED <<java, num, eos, hasNext, jniInit, env>>

\* Whether the driver's class is found with the class loader of the Java
\* thread is the choice between this and OpenThrows.
GetSource(s) ==
  /\ at[s] = "source"
  /\ Goto(s, "connect")
  /\ UNCHANGED <<used, num, eos, hasNext, machine>>
  /\ J!GetSource(s)

GetConnection(s) ==
  /\ at[s] = "connect"
  /\ Goto(s, "execute")
  /\ UNCHANGED <<dataSource, num, eos, hasNext, machine>>
  /\ J!GetConnection(s)

\* The statement is executed; if a column's class is missing, open() throws
\* after the list of column names was made.
Execute(s) ==
  /\ at[s] = "execute"
  /\ Goto(s, "opened")
  /\ UNCHANGED <<used, dataSource, num, eos, hasNext, jniInit, env>>
  /\ J!Execute(s)
  /\ IF columns'[s] THEN UNCHANGED pending ELSE Throws(s)

\* Mutant: getConnection() waits as long as it takes.
OpenFaultNoTimeout(s) ==
  \/ at[s] = "source" /\ "source" \in Faults /\ sources[KeyOf[s]] = None
  \/ at[s] = "execute" /\ "execute" \in Faults

OpenFault(s) ==
  \/ at[s] = "source" /\ "source" \in Faults /\ sources[KeyOf[s]] = None
  \/ at[s] = "connect" /\ (Cardinality(used[dataSource[s]]) >= PoolSize \/ "connect" \in Faults)
  \/ at[s] = "execute" /\ "execute" \in Faults

\* open() throws before there is a list of column names: no data source, no
\* connection in time, or a statement that fails.
OpenThrows(s) ==
  /\ OpenFault(s)
  /\ Throws(s)
  /\ Goto(s, "openThrew")
  /\ UNCHANGED <<java, num, eos, hasNext, jniInit, env>>

\* Mutant: an open() that threw is tried again.
CheckOpenRetries(s) ==
  /\ at[s] \in {"opened", "openThrew"}
  /\ Check(s)
  /\ Goto(s, IF at[s] = "opened" THEN "names" ELSE "bridge")
  /\ UNCHANGED <<java, num, eos, hasNext, jniInit, env>>

\* The rest of _init_jdbc_scanner.  C++ open() goes on after the error too.
CheckOpen(s) ==
  /\ at[s] \in {"opened", "openThrew"}
  /\ Check(s)
  /\ Goto(s, IF at[s] = "opened" THEN "names" ELSE "noNames")
  /\ UNCHANGED <<java, num, eos, hasNext, jniInit, env>>

\* _init_column_class_name, which leaves its loop after the first name, and
\* _init_jdbc_util.
InitColumns(s) ==
  /\ at[s] = "names"
  /\ Check(s)
  /\ Goto(s, "ready")
  /\ UNCHANGED <<java, num, eos, hasNext, jniInit, env>>

\* list_size of the null list.
NoColumnNames(s) ==
  /\ at[s] = "noNames"
  /\ Die

-----------------------------------------------------------------------------
(***************************************************************************)
(* get_next()                                                              *)
(***************************************************************************)

\* CallBooleanMethod(hasNext) returns.
CallHasNext(s) ==
  /\ at[s] = "ready" /\ Free(s)
  /\ cursor' = [cursor EXCEPT ![s] = J!Advanced(s)]
  /\ hasNext' = [hasNext EXCEPT ![s] = IF J!HasRowAfter(s) THEN "more" ELSE "end"]
  /\ Goto(s, "checkNext")
  /\ UNCHANGED <<sources, used, dataSource, columns, chunk, fetched, num, eos, machine>>

\* Mutant: has_next without an initial value.
HasNextThrowsUnset(s) ==
  /\ at[s] = "ready" /\ Free(s) /\ s \in Breaking
  /\ hasNext' = [hasNext EXCEPT ![s] = "more"]
  /\ Throws(s)
  /\ Goto(s, "checkNext")
  /\ UNCHANGED <<java, num, eos, jniInit, env>>

\* It throws: has_next keeps its initial value.
HasNextThrows(s) ==
  /\ at[s] = "ready" /\ Free(s) /\ s \in Breaking
  /\ hasNext' = [hasNext EXCEPT ![s] = "end"]
  /\ Throws(s)
  /\ Goto(s, "checkNext")
  /\ UNCHANGED <<java, num, eos, jniInit, env>>

\* Mutant: resultNumRows is not reset.
CheckHasNextKeepsNum(s) ==
  LET more == hasNext[s] = "more" /\ ~Foreign(s)
  IN  /\ at[s] = "checkNext"
      /\ Check(s)
      /\ hasNext' = [hasNext EXCEPT ![s] = "none"]
      /\ eos' = [eos EXCEPT ![s] = ~more]
      /\ Goto(s, IF more THEN "loop" ELSE "ready")
      /\ UNCHANGED <<java, num, jniInit, env>>

\* get_next reports the end, or getNextChunk() is called and starts with
\* resultNumRows = 0.  has_next is only assigned behind the check.
CheckHasNext(s) ==
  LET more == hasNext[s] = "more" /\ ~Foreign(s)
  IN  /\ at[s] = "checkNext"
      /\ Check(s)
      /\ hasNext' = [hasNext EXCEPT ![s] = "none"]
      /\ eos' = [eos EXCEPT ![s] = ~more]
      /\ num' = IF more THEN [num EXCEPT ![s] = 0] ELSE num
      /\ Goto(s, IF more THEN "loop" ELSE "ready")
      /\ UNCHANGED <<java, jniInit, env>>

\* One turn of getNextChunk's loop.
ReadRow(s) ==
  /\ at[s] = "loop"
  /\ num' = [num EXCEPT ![s] = @ + 1]
  /\ Goto(s, IF J!RoomAfter(s) /\ J!HasRowAfter(s) THEN "loop" ELSE "gotChunk")
  /\ UNCHANGED <<used, dataSource, eos, hasNext, machine>>
  /\ J!ReadRow(s)

ReadThrows(s) ==
  /\ at[s] = "loop"
  /\ ~columns[s] \/ "getObject" \in Faults \/ s \in Breaking
  /\ Throws(s)
  /\ Goto(s, "chunkThrew")
  /\ UNCHANGED <<java, num, eos, hasNext, jniInit, env>>

\* _get_next_chunk after the call: getResultNumRows(), or an early return
\* that leaves num_rows at zero, and the list null if it is s that threw.
CheckChunk(s) ==
  /\ at[s] \in {"gotChunk", "chunkThrew"}
  /\ Check(s)
  /\ Goto(s, IF at[s] = "chunkThrew" THEN "noChunk"
             ELSE IF Foreign(s) THEN "noRows" ELSE "file")
  /\ UNCHANGED <<java, num, eos, hasNext, jniInit, env>>

\* _file_chunk takes the array of every slot from the list.  With that the
\* rows have come through JNI; copying them into *chunk is not written yet,
\* and the reader is left with the chunk reset.
FileChunk(s) ==
  LET rows == IF at[s] = "file" THEN num[s] ELSE 0
  IN  /\ at[s] \in {"file", "noRows"}
      /\ fetched' = [fetched EXCEPT ![s] = @ \o [i \in 1..rows |-> chunk[s][i-1]]]
      /\ Goto(s, "ready")
      /\ UNCHANGED <<sources, used, dataSource, columns, cursor, chunk, num, eos, hasNext, machine>>

\* list_get of the null list.
NoChunk(s) ==
  /\ at[s] = "noChunk"
  /\ Die

-----------------------------------------------------------------------------
(***************************************************************************)
(* _close_jdbc_scanner                                                     *)
(***************************************************************************)

CallClose(s) ==
  /\ at[s] = "ready" /\ Free(s) /\ CallsClose
  /\ used' = [used EXCEPT ![dataSource[s]] = @ \ {s}]
  /\ Goto(s, "closing")
  /\ UNCHANGED <<sources, dataSource, columns, cursor, chunk, fetched, num, eos, hasNext, machine>>

\* resultSet.close() or statement.close() throws.
CloseThrows(s) ==
  /\ at[s] = "ready" /\ Free(s) /\ CallsClose /\ "close" \in Faults
  /\ Throws(s)
  /\ Goto(s, "closeThrew")
  /\ UNCHANGED <<java, num, eos, hasNext, jniInit, env>>

\* Mutant: no CHECK_JAVA_EXCEPTION after close().
CheckCloseKeepsException(s) ==
  /\ at[s] \in {"closing", "closeThrew"}
  /\ Goto(s, IF at[s] = "closing" THEN "closed" ELSE "leaked")
  /\ UNCHANGED <<java, num, eos, hasNext, machine>>

\* The classes and references are given up, or kept after an exception.
CheckClose(s) ==
  /\ at[s] \in {"closing", "closeThrew"}
  /\ Check(s)
  /\ Goto(s, IF at[s] = "closing" THEN "closed" ELSE "leaked")
  /\ UNCHANGED <<java, num, eos, hasNext, jniInit, env>>

-----------------------------------------------------------------------------
\* The owner of a scanner calls one of its methods.
Call(s) ==
  \/ GetInstance(s) \/ CreateVMFails(s)
  \/ CallHasNext(s) \/ HasNextThrows(s)
  \/ CallClose(s) \/ CloseThrows(s)

\* A call goes on.
Step(s) ==
  \/ InitBridge(s) \/ BridgeThrows(s) \/ CheckBridge(s) \/ BridgeMissing(s)
  \/ InitScanContext(s)
  \/ GetSource(s) \/ GetConnection(s) \/ Execute(s) \/ OpenThrows(s)
  \/ CheckOpen(s) \/ InitColumns(s) \/ NoColumnNames(s)
  \/ CheckHasNext(s) \/ ReadRow(s) \/ ReadThrows(s)
  \/ CheckChunk(s) \/ FileChunk(s) \/ NoChunk(s)
  \/ CheckClose(s)

\* The process ends for a reason outside the scanners, or because _file_chunk
\* and close have no return statement.
Crash ==
  /\ \E s \in Scanners : at[s] # "dead"
  /\ Die

Next == Crash \/ \E s \in Scanners : Call(s) \/ Step(s)

Spec == Init /\ [][Next]_vars

\* A thread goes on with the call it is in.  Nothing obliges an owner to call.
FairSpec == Spec /\ \A s \in Scanners : WF_vars(Step(s))

-----------------------------------------------------------------------------
JNITypeOK ==
  /\ sources \in [Keys -> Pools \cup {None}]
  /\ used \in [Pools -> SUBSET Scanners]
  /\ dataSource \in [Scanners -> Pools \cup {None}]
  /\ columns \in [Scanners -> BOOLEAN]
  /\ cursor \in [Scanners -> Nat]
  /\ num \in [Scanners -> 0..ChunkSize]
  /\ chunk \in [Scanners -> [0..ChunkSize-1 -> Nat]]
  /\ fetched \in [Scanners -> Seq(Nat)]
  /\ eos \in [Scanners -> BOOLEAN]
  /\ at \in [Scanners -> Places]
  /\ hasNext \in [Scanners -> {"none", "more", "end"}]
  /\ jniInit \in Threads \cup {None}
  /\ env \in [Threads -> Threads \cup {None}]
  /\ pending \in [Threads -> Scanners \cup {None}]

(***************************************************************************)
(* No exception outlives the call that threw it, for any number of         *)
(* threads: one is pending only for a scanner between a Java call that may *)
(* throw and the check behind it, and in the JNIEnv that scanner uses.  An *)
(* exception that stayed would make the next JNI call of any scanner on    *)
(* this JNIEnv undefined, and would be taken for that scanner's own.       *)
(***************************************************************************)
Threw == {"bridgeThrew", "openThrew", "chunkThrew", "closeThrew"}
ExceptionContained ==
  \A t \in Threads : pending[t] # None =>
    /\ at[pending[t]] \in Threw \cup {"opened", "checkNext"}
    /\ Env(pending[t]) = t

(***************************************************************************)
(* A call that threw still finds its exception when it gets to the check,  *)
(* as it would if the helper were thread local (java_udf.h:37-39).  The    *)
(* JNIEnv is that of the thread that made the virtual machine, for all     *)
(* threads, and a check on one clears what is pending for another.         *)
(***************************************************************************)
ExceptionSeen == \A s \in Scanners : at[s] \in Threw => pending[Env(s)] = s

(***************************************************************************)
(* The calls, their checks and what the code does without looking at the   *)
(* checks' results, amount to the steps of JDBCScanner.                    *)
(***************************************************************************)
ImplementsScanner == J!Spec

(***************************************************************************)
(* The part of CallEnds that needs no fairness: open, get_next and         *)
(* _close_jdbc_scanner have a bounded number of steps, no error path goes  *)
(* back, and other scanners do not lengthen a call.                        *)
(***************************************************************************)
StepsLeft(s) ==
  CASE at[s] = "bridge" -> 10
    [] at[s] = "bridgeThrew" -> 9
    [] at[s] = "context" -> 8
    [] at[s] = "source" -> 7
    [] at[s] = "connect" -> 6
    [] at[s] = "execute" -> 5
    [] at[s] \in {"opened", "openThrew"} -> 4
    [] at[s] = "checkNext" -> ChunkSize + 4
    [] at[s] = "loop" -> ChunkSize - num[s] + 3
    [] at[s] \in {"names", "noNames", "gotChunk", "chunkThrew"} -> 3
    [] at[s] \in {"file", "noRows", "noChunk"} -> 2
    [] at[s] \in {"closing", "closeThrew"} -> 1
    [] OTHER -> 0
JNICallShortens ==
  [][\A s \in Scanners : at[s] \notin Idle =>
       /\ StepsLeft(s)' <= StepsLeft(s)
       /\ Step(s) => StepsLeft(s)' < StepsLeft(s)]_vars

(***************************************************************************)
(* Every call of open, get_next and _close_jdbc_scanner ends, or the       *)
(* process does, also for a scan that waits for a connection that only its *)
(* own thread could give back.                                             *)
(***************************************************************************)
CallEnds == \A s \in Scanners : at[s] \notin Idle ~> at[s] \in Idle
=============================================================================
